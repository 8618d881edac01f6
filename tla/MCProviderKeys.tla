--------------------------- MODULE MCProviderKeys ---------------------------
(* Bounds for the model checking of ProviderKeys: the client has an OpenAI *)
(* key and people enter keys of a provider with regions.  Two campaigns    *)
(* speak through it; the second one thinks elsewhere than at OpenAI.       *)
EXTENDS ProviderKeys, TLC
CONSTANTS c1, c2, u1, u2
Row(k) == [key |-> k, region |-> None]
Rows == [s \in Scopes |-> [p \in Providers |->
           IF s = Client /\ p = "openai" THEN Row("sk") ELSE None]]
Accounts == "soniox" :> {"us", "in"} @@ "openai" :> {} @@ "openrouter" :> {}
Homes == "us" :> None @@ "in" :> "in"
SpeechOf == c1 :> {"soniox"} @@ c2 :> {"soniox"}
LlmOf == c1 :> "openai" @@ c2 :> "openrouter"
OpenaiOnly == c1 :> "openai" @@ c2 :> "openai"
People == Permutations(Hands)
PeopleAndCampaigns == People \cup Permutations(Campaigns)
=============================================================================
