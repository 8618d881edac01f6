\* Two tabs of one browser, one of which may never be used.  Two callers, one
\* with a name, of one campaign that is edited once.  A call of three requests
\* to its providers.  Two people at the table of prices, one revision of a
\* catalogue.
SPECIFICATION SettingsSpec
CONSTANTS
  t1 = t1
  t2 = t2
  chrome = chrome
  Tabs = {t1, t2}
  Browsers = {chrome}
  Home <- OneBrowser
  Idle = 3
  Grace = 2
  Beat = 2
  Access = 2
  MaxSessions = 3
  MaxFaults = 1
  MaxPasswords = 1
  Calls = {"asha", "nameless"}
  Fields = {"name", "lead"}
  Safe = {"name"}
  Sent <- Callers
  Nothing <- NoTemplate
  Settings <- Shops
  MaxEdits = 1
  Unknown = Unknown
  Plans <- ThreePlans
  KeyRings <- Rings
  Keyless = {"kokoro"}
  Voiceless = {"raya"}
  Usual <- Defaults
  Alphabet <- Abc
  Tables <- Sheets
  MaxMetrics = 3
  Clerks = {p1, p2}
  Catalogued = {"plain", "caching"}
  Cached = {"caching"}
  Listed <- ListedThen
  Skus <- GoogleSkus
  Quoted <- Quotes
  PerSecond = 12
  Dollar = 2
  NoPrice = NoPrice
  MaxRevisions = 1
  MaxEntries = 1
SYMMETRY ClerksAlike
INVARIANTS
  EndedIsEnded
  
  CostIsOfWhatRan
  PricesAreKept
PROPERTIES
  IdleIsHeldTo
CHECK_DEADLOCK FALSE
