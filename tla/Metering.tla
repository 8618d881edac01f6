------------------------------ MODULE Metering ------------------------------
(***************************************************************************)
(* Who serves a call and who is paid for it: the legs of speech and model  *)
(* providers built from a campaign and its keys, the metrics they report,  *)
(* the row the usage is written to, and its price whenever the page of     *)
(* that call is read (costing.py).  The arithmetic of prices is left out:  *)
(* a charge is an amount and the rate it is charged at.                    *)
(***************************************************************************)
EXTENDS Naturals, FiniteSets

CONSTANTS
  Unknown,     \* no model, no provider: NULL
  Plans,       \* Plans: provider, model, fallback and its model of each layer
  KeyRings,    \* providers a campaign may have keys for
  Keyless,     \* providers of our own
  Voiceless,   \* speech providers that have no default voice
  Usual,       \* Usual[layer][provider]: the model when none is set
  Alphabet,    \* the providers in the order of their names
  Tables,      \* what the table of rates may be
  MaxMetrics   \* bound: metrics of a call

Ranked == {Alphabet[i] : i \in DOMAIN Alphabet}
ASSUME MeteringAssumption ==
  /\ DOMAIN Alphabet \subseteq Nat
  /\ \A plan \in Plans, layer \in {"llm", "tts", "stt"} :
       plan[layer].provider \in Ranked /\ plan[layer].fallback \in Ranked \cup {Unknown}

VARIABLES
  config,      \* the campaign's row
  served,      \* the call: the plan it read, its legs, the names it noted
  meter,       \* its usage so far, and the metrics counted
  written,     \* its row of calls
  bill         \* the page last read: the rates then, and what it says

mvars == <<config, served, meter, written, bill>>

KindsOf == [llm |-> {"llm_input", "llm_cached", "llm_output"},
          tts |-> {"tts_characters", "tts_seconds"},
          stt |-> {"stt_seconds"}]
Layers == DOMAIN KindsOf

(* Cached tokens are among the prompt's, and providers have reported more. *)
Quantities(usage) ==
  [k \in UNION {KindsOf[l] : l \in Layers} |->
     IF k # "llm_input" THEN usage[k]
     ELSE IF usage.prompt > usage["llm_cached"] THEN usage.prompt - usage["llm_cached"] ELSE 0]

(* A column of providers is their names in the order of the alphabet.      *)
Rank(p) == CHOOSE i \in DOMAIN Alphabet : Alphabet[i] = p
FirstProvider(names) ==
  IF names = {} THEN Unknown ELSE CHOOSE p \in names : \A q \in names : Rank(p) <= Rank(q)

(* pick_rate: the rate that applies, if any, and whether it was assumed.   *)
PickRate(rates, provider, model, kind) ==
  LET those == {r \in rates : r.provider = provider /\ r.kind = kind}
      exact == {r \in those : model # Unknown /\ r.model = model}
      generic == {r \in those : r.model = Unknown}
      Certain(r) == [rate |-> r, assumed |-> FALSE]
  IN IF exact # {} THEN {Certain(r) : r \in exact}
     ELSE IF generic # {} THEN {Certain(r) : r \in generic}
     ELSE IF model = Unknown /\ Cardinality(those) = 1
          THEN {[rate |-> r, assumed |-> TRUE] : r \in those} ELSE {}

(* price_call.  A layer with no price at all is named; fx says whether an  *)
(* exchange rate is set.                                                   *)
PriceCall(call, rates, fx) ==
  LET amount == Quantities(call.usage)
      Rate(l, k) == PickRate(rates, FirstProvider(call.providers[l]), call.models[l], k)
      used == {u \in Layers \X DOMAIN amount : u[2] \in KindsOf[u[1]] /\ amount[u[2]] > 0}
      charges == UNION {{[layer |-> u[1], kind |-> u[2], amount |-> amount[u[2]],
                          rate |-> p.rate, assumed |-> p.assumed] : p \in Rate(u[1], u[2])} : u \in used}
      priced == {c.layer : c \in charges}
      currencies == {c.rate.currency : c \in charges}
      mixed == ~fx /\ Cardinality(currencies) > 1
  IN [rates |-> rates, charges |-> charges,
      missing |-> {u \in used : u[1] \notin priced},
      priced |-> charges # {} /\ ~mixed,
      caveats |->
        {w \in {"mixed", "rupees", "fell back", "assumed"} :
           \/ w = "mixed" /\ mixed
           \/ w = "rupees" /\ ~fx /\ currencies = {"INR"}
           \/ w = "fell back" /\ \E l \in Layers : Cardinality(call.providers[l]) > 1
           \/ w = "assumed" /\ \E c \in charges : c.assumed}]

-----------------------------------------------------------------------------
NoCall == [at |-> "none"]
Unread == [charges |-> {}]

NoUsage == [k \in {"prompt"} \cup ((UNION {KindsOf[l] : l \in Layers}) \ {"llm_input"}) |-> 0]

MeteringInit ==
  /\ config \in Plans
  /\ served = NoCall /\ written = NoCall /\ bill = Unread
  /\ meter = [usage |-> NoUsage, n |-> 0]

-----------------------------------------------------------------------------
(* _fallback_provider; a model's fallback needs its model too.             *)
Fallback(plan, layer, keys) ==
  {f \in {plan[layer].fallback} \ {Unknown, plan[layer].provider} :
     /\ f \in Keyless \cup keys
     /\ layer = "llm" => plan[layer].fbmodel # Unknown}

(* The first leg has the campaign's model, or the provider's usual one.    *)
Leg(plan, layer) ==
  [provider |-> plan[layer].provider,
   model |-> IF plan[layer].model # Unknown THEN plan[layer].model
             ELSE Usual[layer][plan[layer].provider]]
FallbackLeg(plan, layer, f) ==
  [provider |-> f, model |-> IF layer = "llm" THEN plan[layer].fbmodel ELSE Usual[layer][f]]

(* A voice is the first leg's alone, and a provider without a default for  *)
(* it refuses to be built: the call ends before it has begun.              *)
Refuses(plan, keys) ==
  \/ plan.tts.provider \in Voiceless /\ ~plan.voiced
  \/ Fallback(plan, "tts", keys) \cap Voiceless # {}

Begin ==
  /\ served = NoCall
  /\ \E keys \in KeyRings :
       /\ ~Refuses(config, keys)
       /\ served' = [at |-> "up", plan |-> config, by |-> [l \in Layers |-> {}],
                     names |-> [l \in Layers |-> {}],
                     legs |-> [l \in Layers |-> {Leg(config, l)} \cup
                                 {FallbackLeg(config, l, f) : f \in Fallback(config, l, keys)}]]
  /\ UNCHANGED <<config, meter, written, bill>>

(* _note_provider.  Every model rides the plugin of OpenAI: whose it is,   *)
(* the campaign says.                                                      *)
Label(layer, leg) == IF layer = "llm" THEN "openai" ELSE leg.provider
(* Mutant: the label as it is, the gateway is priced as OpenAI.            *)
NotedAsLabelled(layer, leg, plan) == Label(layer, leg)
Noted(layer, leg, plan) ==
  IF layer = "llm" /\ Label(layer, leg) = "openai" THEN plan.llm.provider ELSE Label(layer, leg)

(* What a request of each layer reports.                                   *)
Amounts(layer) ==
  CASE layer = "llm" -> [prompt : {2}, llm_cached : {0, 1, 3}, llm_output : {0, 1}]
    [] layer = "tts" -> [tts_characters : {1}, tts_seconds : {1}]
    [] layer = "stt" -> [stt_seconds : {1}]

(* _on_metrics: a leg has served a request.                                *)
Metric(layer) ==
  /\ served.at = "up" /\ meter.n < MaxMetrics
  /\ \E leg \in served.legs[layer], m \in Amounts(layer) :
       /\ served' = [served EXCEPT !.by[layer] = @ \cup {leg},
                                   !.names[layer] = @ \cup {Noted(layer, leg, served.plan)}]
       /\ meter' = [usage |-> [k \in DOMAIN meter.usage |->
                                 meter.usage[k] + (IF k \in DOMAIN m THEN m[k] ELSE 0)],
                    n |-> meter.n + 1]
  /\ UNCHANGED <<config, written, bill>>

EditCampaign ==
  /\ served.at = "up" /\ config = served.plan
  /\ config' \in Plans \ {config}
  /\ UNCHANGED <<served, meter, written, bill>>

(* _shutdown, with the models of the campaign as the call read it.         *)
Models(plan) == [l \in Layers |-> plan[l].model]

Shutdown ==
  /\ served.at = "up"
  /\ served' = [served EXCEPT !.at = "over"]
  /\ written' = [at |-> "row", usage |-> meter.usage, models |-> Models(served.plan),
                providers |-> served.names]
  /\ UNCHANGED <<config, meter, bill>>

(* The page of the call, at the rates of that moment.                      *)
ReadBill ==
  /\ written.at = "row" /\ bill = Unread
  /\ \E rates \in Tables, fx \in BOOLEAN : bill' = PriceCall(written, rates, fx)
  /\ UNCHANGED <<config, served, meter, written>>

MeteringNext ==
  Begin \/ (\E layer \in Layers : Metric(layer)) \/ EditCampaign \/ Shutdown \/ ReadBill

MeteringSpec == MeteringInit /\ [][MeteringNext]_mvars

-----------------------------------------------------------------------------
Primary(layer) == Leg(served.plan, layer)
ChargesOf(layer) == {c \in bill.charges : c.layer = layer}
Charged(kinds) ==
  LET these == {c \in bill.charges : c.kind \in kinds}
      Of(k) == {c \in these : c.kind = k}
      Amount(k) == IF Of(k) = {} THEN 0 ELSE (CHOOSE c \in Of(k) : TRUE).amount
  IN Amount("llm_input") + Amount("llm_cached")

(* A layer is charged at the rate of a provider that served it in this     *)
(* call, edited or not since; if only the first leg did, and the campaign  *)
(* named its model, at that model's own rate where there is one; a layer   *)
(* that was used and has no rate is named; a figure that two providers     *)
(* share or that rests on an assumption says so; and no token is charged   *)
(* twice (_note_provider, voice_agent.py:2656, end_call_usage, :2868,      *)
(* pick_rate, costing.py:77, price_call, :140).                            *)
CostIsOfWhatRan ==
  bill # Unread =>
    /\ \A layer \in Layers :
         /\ served.by[layer] # {} =>
              ChargesOf(layer) # {} \/ \E u \in bill.missing : u[1] = layer
         /\ \A c \in ChargesOf(layer) :
              /\ \E leg \in served.by[layer] :
                   \/ c.rate.provider = leg.provider
                   \/ layer = "llm" /\ c.rate.provider = Primary(layer).provider
              /\ served.by[layer] = {Primary(layer)} /\ served.plan[layer].model # Unknown =>
                   \/ c.rate.model = Primary(layer).model
                   \/ /\ c.rate.model = Unknown
                      /\ \A r \in bill.rates : r.kind = c.kind /\ r.provider = Primary(layer).provider =>
                           r.model # Primary(layer).model
              /\ c.assumed => "assumed" \in bill.caveats
         /\ layer # "llm" /\ Cardinality(served.by[layer]) > 1 => "fell back" \in bill.caveats
    /\ LET u == written.usage IN
       Charged({"llm_input", "llm_cached"}) <= (IF u.prompt > u.llm_cached THEN u.prompt ELSE u.llm_cached)

(* costing.py:55 "Priced as the primary, and flagged rather than split".   *)
PricedAsThePrimary ==
  bill # Unread =>
    \A layer \in Layers : Primary(layer) \in served.by[layer] =>
      \A c \in ChargesOf(layer) : c.rate.provider = Primary(layer).provider

-----------------------------------------------------------------------------
(* Why it is: the names that are noted are those of the legs that served,  *)
(* and a leg that served has left its amounts.                             *)
MeasuresOf == [llm |-> {"prompt", "llm_cached", "llm_output"},
             tts |-> {"tts_characters", "tts_seconds"}, stt |-> {"stt_seconds"}]
Sure == [llm |-> "prompt", tts |-> "tts_characters", stt |-> "stt_seconds"]
Measures == UNION {MeasuresOf[l] : l \in Layers}

LegsOf(plan, layer) ==
  {Leg(plan, layer)} \cup
    {FallbackLeg(plan, layer, f) : f \in {plan[layer].fallback} \ {Unknown, plan[layer].provider}}

CallIsServed ==
  /\ DOMAIN served = {"at", "plan", "by", "names", "legs"}
  /\ served.at \in {"up", "over"} /\ served.plan \in Plans
  /\ DOMAIN served.by = Layers /\ DOMAIN served.names = Layers
  /\ \A layer \in Layers :
       /\ served.by[layer] \subseteq served.legs[layer]
       /\ served.legs[layer] \subseteq LegsOf(served.plan, layer)
       /\ served.names[layer] = {Noted(layer, leg, served.plan) : leg \in served.by[layer]}

AmountsAreOfLegs ==
  \A layer \in Layers :
    /\ (served # NoCall => served.by[layer] = {}) => \A k \in MeasuresOf[layer] : meter.usage[k] = 0
    /\ served # NoCall /\ served.by[layer] # {} => meter.usage[Sure[layer]] > 0

MeteringInv ==
  /\ config \in Plans /\ meter \in [usage : [Measures -> Nat], n : Nat]
  /\ served = NoCall \/ CallIsServed
  /\ AmountsAreOfLegs
  /\ written # NoCall =>
       /\ served # NoCall /\ served.at = "over"
       /\ written = [at |-> "row", usage |-> meter.usage,
                     models |-> Models(served.plan), providers |-> served.names]
  /\ bill # Unread =>
       /\ written # NoCall
       /\ \E rates \in Tables, fx \in BOOLEAN : bill = PriceCall(written, rates, fx)
=============================================================================
