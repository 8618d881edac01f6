\* Two people edit one campaign with a version list of two; three accounts.
\* Two saves of a message beside each other, of three.
SPECIFICATION ConsoleSpec
CONSTANTS
  ann = ann
  bob = bob
  root = root
  t1 = t1
  t2 = t2
  Editors = {ann, bob}
  Blank = Blank
  Texts = {Blank, t1, t2}
  Ids = {"d1"}
  MaxVersions = 2
  MaxCrashes = 1
  Unset = Unset
  People = {root, ann, bob}
  Root = root
  Roles = {"superadmin", "tenant_admin"}
  Super = "superadmin"
  MaxRequests = 2
  Unborn = Unborn
  Gone = Gone
  Savers = {"e1", "e2"}
  Messages = {"", "m1"}
  Tongues = {"v1", "v2"}
  MaxSaves = 3
  MaxUpsets = 1
SYMMETRY Alike
INVARIANTS
  AskedForIsLimited
  ConsoleIsOpen
  HoldSaysWhatIsWritten
PROPERTY ReplacedTextIsKept
CHECK_DEADLOCK FALSE
