SPECIFICATION KeysSpec
CONSTANTS
  c1 = c1
  c2 = c2
  u1 = u1
  u2 = u2
  Campaigns = {c1, c2}
  Client = Client
  Providers = {"soniox", "openai", "openrouter"}
  Regional = {"soniox"}
  Given <- Rows
  KeysOf <- Accounts
  RegionOf <- Homes
  Speech <- SpeechOf
  Llm <- LlmOf
  Openai = "openai"
  Kb = {c1}
  Hands = {u1, u2}
  None = None
  MaxWrites = 3
  MaxCached = 1
SYMMETRY People
INVARIANT EnabledCampaignTakesCalls
CHECK_DEADLOCK FALSE
