SPECIFICATION Spec
CONSTANTS
  Week = 7
  LastTick = 3
  Horizon = 14
  Unreadable = Unreadable
  Never = Never
  Marks <- Bracketed
  Target = 8
  Overlap = 3
  MinChunk = 3
  HardMax = 12
  Scrap = 2
  c1 = c1
  c2 = c2
  u1 = u1
  u2 = u2
  Campaigns = {c1, c2}
  Client = Client
  Providers = {"soniox", "openai"}
  Regional = {"soniox"}
  Given <- Rows
  KeysOf <- Accounts
  RegionOf <- Homes
  Speech <- SpeechOf
  Llm <- OpenaiOnly
  Openai = "openai"
  Kb = {c1, c2}
  Hands = {u1, u2}
  None = None
  MaxWrites = 3
  MaxCached = 1
  MaxWords = 2
  MaxSegments = 3
  MaxRepeats = 1
  MaxQueue = 2
  Ceiling = 1
  Hard = {"."}
  Soft = {","}
  Digits = {"1"}
  Blank = " "
  Least = 3
  Newline = "n"
  DataTag = "data:"
  Noise = "#"
  NextPart = "|"
  Width = 2
  Hidden = {"script"}
  Noises = {"logo"}
  MaxCols = 2
  Absent = Absent
  Numerals = {"12", "nan"}
  NotFinite = {"nan"}
  Truths = {"yes"}
  TurnLimit = 2
  ToolLimit = 4
  Null = Null
  TopK = 1
  MinScore = 1
  LexFloor = 1
  Weak = 3
  Budget = 3
  KeyLimit = 2
  Space = "_"
  Nobody = Nobody
  Unset = Unset
SYMMETRY PeopleAndCampaigns
INVARIANTS
  
  WhatIsWrittenIsKept
  AnsweredOnceInTime
  QuestionsAreServed
  ReadsBelongTogether
CHECK_DEADLOCK FALSE
