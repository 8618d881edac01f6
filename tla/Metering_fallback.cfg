SPECIFICATION MeteringSpec
CONSTANTS
  Unknown = Unknown
  Plans <- ThreePlans
  KeyRings <- Rings
  Keyless = {"kokoro"}
  Voiceless = {"raya"}
  Usual <- Defaults
  Alphabet <- Abc
  Tables <- Sheets
  MaxMetrics = 3
INVARIANTS PricedAsThePrimary
CHECK_DEADLOCK FALSE
