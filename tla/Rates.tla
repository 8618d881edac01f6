-------------------------------- MODULE Rates --------------------------------
(***************************************************************************)
(* The table of prices (routers/rates.py): what people enter and take out, *)
(* what they import of a gateway's catalogue or of Google's, row by row,   *)
(* while campaigns change their models, and how the page compares what is  *)
(* in it.  A price is a number; a catalogue is revised now and then.       *)
(***************************************************************************)
EXTENDS Naturals, SequencesExt

CONSTANTS
  Clerks,        \* people at the page of prices
  Catalogued,    \* the gateway's models
  Cached,        \* those of them that it publishes a price of cached reads for
  Listed,        \* Listed[n]: its catalogue at revision n, by model
  Skus,          \* Google's tiers in their order, each of a family of voices
  Quoted,        \* Quoted[key]: what people enter, with unit and currency
  PerSecond,     \* CHARS_PER_SECOND
  Dollar,        \* usd_to_inr
  NoPrice,       \* no figure in rupees
  MaxRevisions,  \* bound: revisions of the catalogue
  MaxEntries     \* bound: prices entered or deleted by hand, models changed

Units == {"per_million", "per_hour", "per_minute", "per_unit"}
RateValues == [price : Nat, unit : Units, currency : {"USD", "INR"}]

(* A cached read costs no more than a read (rates.py:226).                 *)
ASSUME RatesAssumption ==
  /\ IsFiniteSet(Catalogued) /\ MaxRevisions \in Nat
  /\ \A n \in 0 .. MaxRevisions : \A m \in DOMAIN Listed[n] :
       LET p == Listed[n][m] IN
       p.prompt \in Nat /\ p.completion \in Nat /\ p.cache_read \in 0 .. p.prompt
  /\ DOMAIN Skus = 1 .. Len(Skus) /\ Len(Skus) \in Nat
  /\ \A k \in DOMAIN Skus : Skus[k].price \in Nat
  /\ \A key \in DOMAIN Quoted : Quoted[key] \subseteq RateValues
  /\ PerSecond \in Nat \ {0} /\ Dollar \in Nat \ {0} /\ NoPrice \notin Nat

VARIABLES
  sheet,     \* provider_rates, by its unique key
  desk,      \* desk[p]: the import p has under way, or has made
  chosen,    \* the gateway's model a campaign uses
  ran,       \* the models of the gateway that calls were served by
  revision,  \* of the gateway's catalogue
  fx,        \* is there an exchange rate
  entries

rvars == <<sheet, desk, chosen, ran, revision, fx, entries>>

NoImport == [op |-> "none", at |-> "idle", wanted |-> {}, rows |-> <<>>, done |-> 0,
             revision |-> 0, theirs |-> {}]

RatesInit ==
  /\ sheet = <<>> /\ desk = [p \in Clerks |-> NoImport]
  /\ chosen \in Catalogued /\ ran = {}
  /\ revision = 0 /\ fx \in BOOLEAN /\ entries = 0

-----------------------------------------------------------------------------
(* The catalogues.                                                         *)

Kinds == <<"llm_input", "llm_output", "llm_cached">>

(* Mutant of RatesOf: what has no price of cached reads is free.           *)
RatesOfListed(model, p) ==
  <<p.prompt, p.completion, IF model \in Cached THEN p.cache_read ELSE 0>>

(* _fetch_openrouter_prices: cached reads cost what reading does, unless a *)
(* price is published for them.                                            *)
RatesOf(model, p) ==
  <<p.prompt, p.completion, IF model \in Cached THEN p.cache_read ELSE p.prompt>>

(* _fetch_google_tts_prices: the first price above zero of a family.       *)
Tiers(family) == {k \in DOMAIN Skus : Skus[k].family = family /\ Skus[k].price > 0}
PriceOfFamily(family) ==
  Skus[CHOOSE k \in Tiers(family) : \A j \in Tiers(family) : k <= j].price
Families == {Skus[k].family : k \in {k \in DOMAIN Skus : Skus[k].price > 0}}

Entry(provider, model, kind) == [provider |-> provider, model |-> model, kind |-> kind]
Dollars(price) == [price |-> price, unit |-> "per_million", currency |-> "USD"]

(* What an import writes, row by row: model by model, and kind by kind.    *)
RowsOfModels(models, n) ==
  [k \in 1 .. 3 * Cardinality(models) |->
    LET model == SetToSeq(models)[(k + 2) \div 3]
        i == 1 + ((k - 1) % 3)
    IN [key |-> Entry("openrouter", model, Kinds[i]),
        rate |-> Dollars(RatesOf(model, Listed[n][model])[i])]]
RowsOfFamilies ==
  [k \in 1 .. Cardinality(Families) |->
    LET family == SetToSeq(Families)[k] IN
    [key |-> Entry("google", family, "tts_characters"), rate |-> Dollars(PriceOfFamily(family))]]
RowsFound(op, wanted, n) ==
  IF op = "google" THEN RowsOfFamilies ELSE RowsOfModels(wanted \cap DOMAIN Listed[n], n)

-----------------------------------------------------------------------------
(* A row that another person writes or deletes is no longer an import's.   *)
WithRate(key, rate) == [k \in DOMAIN sheet \cup {key} |-> IF k = key THEN rate ELSE sheet[k]]
Overtaken(p, key) ==
  [q \in Clerks |-> IF q # p /\ desk[q] # NoImport
                    THEN [desk[q] EXCEPT !.theirs = @ \cup {key}] ELSE desk[q]]

(* import_openrouter_rates: what is configured, or has served a call.      *)
InUse == {chosen} \cup ran

BeginImport(p) ==
  /\ desk[p] = NoImport
  /\ \E op \in {"openrouter", "google"} :
       desk' = [desk EXCEPT ![p] = [NoImport EXCEPT !.op = op, !.at = "fetch",
                                      !.wanted = IF op = "google" THEN {} ELSE InUse]]
  /\ UNCHANGED <<sheet, chosen, ran, revision, fx, entries>>

FetchPrices(p) ==
  /\ desk[p].at = "fetch"
  /\ \/ desk' = [desk EXCEPT ![p] = NoImport]
     \/ desk' = [desk EXCEPT ![p].at = "write", ![p].revision = revision,
          ![p].rows = RowsFound(desk[p].op, desk[p].wanted, revision)]
  /\ UNCHANGED <<sheet, chosen, ran, revision, fx, entries>>

WriteRate(p) ==
  /\ desk[p].at = "write" /\ desk[p].done < Len(desk[p].rows)
  /\ LET row == desk[p].rows[desk[p].done + 1] IN
     /\ sheet' = WithRate(row.key, row.rate)
     /\ desk' = [Overtaken(p, row.key) EXCEPT
          ![p].done = @ + 1, ![p].theirs = @ \ {row.key}]
  /\ UNCHANGED <<chosen, ran, revision, fx, entries>>

(* upsert_rate, delete_rate, set_exchange.                                 *)
EnterRate(p) ==
  /\ desk[p] = NoImport /\ entries < MaxEntries
  /\ \E key \in DOMAIN Quoted : \E rate \in Quoted[key] :
       sheet' = WithRate(key, rate) /\ desk' = Overtaken(p, key)
  /\ entries' = entries + 1
  /\ UNCHANGED <<chosen, ran, revision, fx>>

DeleteRate(p) ==
  /\ desk[p] = NoImport /\ entries < MaxEntries
  /\ \E key \in DOMAIN sheet :
       /\ sheet' = [k \in DOMAIN sheet \ {key} |-> sheet[k]]
       /\ desk' = Overtaken(p, key)
  /\ entries' = entries + 1
  /\ UNCHANGED <<chosen, ran, revision, fx>>

SetExchange == ~fx /\ fx' = TRUE /\ UNCHANGED <<sheet, desk, chosen, ran, revision, entries>>

(* The rest of the system: a call ends, a campaign gets another model, the *)
(* gateway revises its catalogue.                                          *)
CallEnds ==
  /\ chosen \notin ran /\ ran' = ran \cup {chosen}
  /\ UNCHANGED <<sheet, desk, chosen, revision, fx, entries>>

SwitchModel ==
  /\ entries < MaxEntries /\ entries' = entries + 1
  /\ chosen' \in Catalogued \ {chosen}
  /\ UNCHANGED <<sheet, desk, ran, revision, fx>>

Revise ==
  /\ revision < MaxRevisions /\ revision' = revision + 1
  /\ UNCHANGED <<sheet, desk, chosen, ran, fx, entries>>

RatesNext ==
  \/ SetExchange \/ CallEnds \/ SwitchModel \/ Revise
  \/ \E p \in Clerks :
       \/ BeginImport(p) \/ FetchPrices(p) \/ WriteRate(p)
       \/ EnterRate(p) \/ DeleteRate(p)

RatesSpec == RatesInit /\ [][RatesNext]_rvars

-----------------------------------------------------------------------------
(* The comparison: one axis per layer, a million tokens or a minute, which *)
(* is counted here in sixtieths of a millionth.                            *)
LayerOf(kind) ==
  CASE kind \in {"llm_input", "llm_cached", "llm_output"} -> "llm"
    [] kind \in {"tts_characters", "tts_seconds"} -> "tts"
    [] OTHER -> "stt"

(* What a price is multiplied with to stand on its axis.                   *)
Comparable(kind, unit) ==
  CASE LayerOf(kind) = "llm" /\ unit = "per_million" -> 60000000
    [] kind = "tts_characters" /\ unit = "per_million" -> 60 * 60 * PerSecond
    [] kind \in {"tts_seconds", "stt_seconds"} /\ unit = "per_hour" -> 1000000
    [] kind \in {"tts_seconds", "stt_seconds"} /\ unit = "per_minute" -> 60000000
    [] OTHER -> NoPrice

Worth(rate) == IF rate.currency = "USD" THEN Dollar * rate.price ELSE rate.price

InRupees(kind, rate) ==
  IF Comparable(kind, rate.unit) = NoPrice \/ (rate.currency = "USD" /\ ~fx) THEN NoPrice
  ELSE Comparable(kind, rate.unit) * Worth(rate)

(* compare_rates, of a layer: cheapest first, what has no figure last.     *)
Figure(key) == InRupees(key.kind, sheet[key])
Cheaper(a, b) == Figure(a) # NoPrice /\ (Figure(b) = NoPrice \/ Figure(a) < Figure(b))
Compared(layer) == {key \in DOMAIN sheet : LayerOf(key.kind) = layer}
Place(key) == Cardinality({k \in Compared(LayerOf(key.kind)) : Cheaper(k, key)})

-----------------------------------------------------------------------------
ModelsOf(d) == {d.rows[i].key.model : i \in 1 .. d.done}
Shows(d, key, rates) == key \in d.theirs \/ (key \in DOMAIN sheet /\ sheet[key] \in rates)

(* An import that has written its last row, whatever was written between   *)
(* its rows, but where somebody else has been since.  Every model that was *)
(* wanted is written with its prices of tokens, and never under what its   *)
(* cached reads cost, or it is missing from the catalogue that was read;   *)
(* every family of voices has a price of its own that is not the free      *)
(* allowance (import_openrouter_rates, routers/rates.py:248,               *)
(* _fetch_google_tts_prices, :344).                                        *)
ImportsAreWhole ==
  \A p \in Clerks : LET d == desk[p] IN d.at = "write" /\ d.done = Len(d.rows) =>
    /\ d.op = "openrouter" =>
         /\ ModelsOf(d) = d.wanted \cap DOMAIN Listed[d.revision]
         /\ \A m \in ModelsOf(d) : LET costs == Listed[d.revision][m] IN
              /\ Shows(d, Entry("openrouter", m, "llm_input"), {Dollars(costs.prompt)})
              /\ Shows(d, Entry("openrouter", m, "llm_output"), {Dollars(costs.completion)})
              /\ Shows(d, Entry("openrouter", m, "llm_cached"),
                       {Dollars(price) : price \in costs.cache_read .. costs.prompt})
    /\ d.op = "google" => \A f \in Families :
         Shows(d, Entry("google", f, "tts_characters"), {Dollars(Skus[k].price) : k \in Tiers(f)})

(* Of two prices of one kind and unit the one that is worth less stands    *)
(* first, in whatever currency they were entered, and none stands first    *)
(* because it has no figure (compare_rates, routers/rates.py:110).         *)
ComparisonIsFair ==
  \A a, b \in DOMAIN sheet : LayerOf(a.kind) = LayerOf(b.kind) /\ Place(a) <= Place(b) =>
    /\ Figure(a) = NoPrice => Figure(b) = NoPrice
    /\ a.kind = b.kind /\ sheet[a].unit = sheet[b].unit /\ NoPrice \notin {Figure(a), Figure(b)}
         => Worth(sheet[a]) <= Worth(sheet[b])

(* Prices are the providers', each import as a whole, and the page         *)
(* compares them as they are (import_openrouter_rates,                     *)
(* routers/rates.py:248, compare_rates, :110).                             *)
PricesAreKept == ImportsAreWhole /\ ComparisonIsFair
=============================================================================
