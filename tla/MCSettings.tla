----------------------------- MODULE MCSettings -----------------------------
(***************************************************************************)
(* How people stay signed in to the console, the greetings they set there, *)
(* and what it tells them of costs: who served a call, and the table of    *)
(* prices.  Each by itself: a behaviour is one of them.                    *)
(***************************************************************************)
EXTENDS Sessions, Greeting, MCMetering, Rates

CONSTANTS t1, t2, chrome

VARIABLE part
settings == <<gvars, mvars, rvars>>
all == <<part, svars, settings>>

OneBrowser == [t \in Tabs |-> chrome]

(* Greeting: a name that may be spoken and a lead that may not; templates  *)
(* with and without a default, and one whose braces are not closed.        *)
Hole(k, default, closed) == [key |-> k, default |-> default, closed |-> closed]
Template(text, holes) == [words |-> text, holes |-> holes]
NoTemplate == Template("", {})
Named == Template("am I speaking to", {Hole("name", "", TRUE)})
Polite == Template("am I speaking to", {Hole("name", "sir", TRUE)})
Lead == Template("about", {Hole("lead", "", TRUE), Hole("name", "", TRUE)})
Mistyped == Template("speaking to", {Hole("name", "", FALSE)})
Plainly == Template("who is this", {})
Shop(greeting, fallback, instructions, voice, spare) ==
  [greeting |-> greeting, fallback |-> fallback, notice |-> "recorded", prompt |-> instructions,
   voice |-> voice, spare |-> spare, speed |-> 1]
Shops ==
  {Shop(Named, NoTemplate, Lead, "a", ""), Shop(Named, Plainly, Lead, "a", "b"),
   Shop(Polite, Plainly, Polite, "a", ""), Shop(Lead, NoTemplate, Polite, "a", ""),
   Shop(Mistyped, Plainly, Named, "a", ""), Shop(Plainly, NoTemplate, Polite, "b", ""),
   Shop(NoTemplate, Named, NoTemplate, "a", "")}
Callers == [asha |-> [name |-> "asha", lead |-> "4471"], nameless |-> [name |-> "", lead |-> "93"]]

(* Rates: a model that is not in the catalogue at first, and one without a *)
(* price for cached reads; a family with an allowance that is free.        *)
Costs(n) == [prompt |-> 3 + n, completion |-> 6 + n, cache_read |-> 1 + n]
ListedThen == 0 :> ("plain" :> Costs(0)) @@ 1 :> ("plain" :> Costs(1) @@ "caching" :> Costs(1))
Tier(family, price) == [family |-> family, price |-> price]
GoogleSkus == <<Tier("Studio", 0), Tier("Studio", 16), Tier("Studio", 20), Tier("Custom", 0)>>
Amount(price, unit, currency) == [price |-> price, unit |-> unit, currency |-> currency]
Quotes ==
  Entry("openrouter", "plain", "llm_input") :> {Amount(9, "per_million", "USD"), Amount(2, "per_unit", "INR")}
    @@ Entry("google", "Studio", "tts_characters") :> {Amount(5, "per_million", "INR")}
    @@ Entry("kokoro", Unknown, "tts_seconds") :> {Amount(30, "per_hour", "USD")}
ClerksAlike == Permutations(Tabs) \cup Permutations(Clerks)

(* A part that is not the one of the behaviour starts in one state.        *)
Pinned ==
  /\ part # "greeting" => setting = CHOOSE s \in Settings : TRUE
  /\ part # "rates" => fx /\ chosen = CHOOSE m \in Catalogued : TRUE
  /\ part # "metering" => config = CHOOSE p \in Plans : TRUE

SettingsInit ==
  /\ part \in {"sessions", "greeting", "metering", "rates"}
  /\ SessionsInit /\ GreetingInit /\ MeteringInit /\ RatesInit
  /\ Pinned

StaySignedIn == part = "sessions" /\ SessionsNext /\ UNCHANGED <<part, settings>>
Greet == part = "greeting" /\ GreetingNext /\ UNCHANGED <<part, svars, mvars, rvars>>
Charge == part = "metering" /\ MeteringNext /\ UNCHANGED <<part, svars, gvars, rvars>>
PriceUp == part = "rates" /\ RatesNext /\ UNCHANGED <<part, svars, gvars, mvars>>

SettingsNext == StaySignedIn \/ Greet \/ Charge \/ PriceUp
SettingsSpec == SettingsInit /\ [][SettingsNext]_all

=============================================================================
