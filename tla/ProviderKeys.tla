---------------------------- MODULE ProviderKeys ----------------------------
(***************************************************************************)
(* The provider keys of one client and its campaigns: the table            *)
(* `provider_keys`, the requests of the console that write it or spend a   *)
(* key, the enabling of a campaign, and the start of a call, which reads   *)
(* keys and regions in two queries.  A key works in its own region only.   *)
(***************************************************************************)
EXTENDS Naturals, FiniteSets

CONSTANTS
  Campaigns,
  Client,      \* the scope whose rows have campaign_id NULL
  Providers,
  Regional,    \* REGIONAL: the providers with a region
  Given,       \* the rows there already: Given[s][p] is a row, or None
  KeysOf,      \* KeysOf[p]: further keys that people may enter for p
  RegionOf,    \* RegionOf[k]: where the provider takes k, or None
  Speech,      \* Speech[c]: the stt_provider and tts_provider of c
  Llm,         \* Llm[c]: its llm_provider
  Openai,
  Kb,          \* the campaigns whose knowledge base is on
  Hands,       \* requests and calls that may be under way at once
  None,
  MaxWrites,   \* bound: keys set or removed
  MaxCached    \* bound: catalogues kept at a time

Scopes == Campaigns \cup {Client}
Regions == {RegionOf[k] : k \in UNION {KeysOf[p] : p \in Providers}} \cup {None}

Works(p, k, region) == p \in Regional => RegionOf[k] = region

Keys == UNION ({KeysOf[p] : p \in Providers}
          \cup {{Given[s][p].key : p \in {p \in Providers : Given[s][p] # None}} : s \in Scopes})
KeyRow == [key : Keys, region : Regions]

ASSUME KeysAssumption ==
  /\ Regional \subseteq Providers
  /\ Given \in [Scopes -> [Providers -> KeyRow \cup {None}]]
  /\ \A s \in Scopes, p \in Providers :
       Given[s][p] # None => Works(p, Given[s][p].key, Given[s][p].region)

VARIABLES
  stored,   \* provider_keys: stored[s][p] is a key with its region, or None
  enabled,  \* campaigns.enabled
  hand,     \* what is under way
  cache,    \* _cache and _llm_cache: the key a catalogue was read with, and
            \* whether it is older than a change of the keys
  lost,     \* history: campaigns that lost a key since they were found complete
  writes

kvars == <<stored, enabled, hand, cache, lost, writes>>

Free == [op |-> "none"]
KeysInit ==
  /\ stored = Given
  /\ enabled = [c \in Campaigns |-> FALSE]
  /\ hand = [h \in Hands |-> Free]
  /\ cache = {} /\ lost = {} /\ writes = 0

(* Both queries order a provider's rows campaign first, NULLS LAST.        *)
Scope(c, p) == IF stored[c][p] # None THEN c ELSE Client

Key(c, p) == IF stored[Scope(c, p)][p] = None THEN None ELSE stored[Scope(c, p)][p].key
Region(c, p) ==
  LET row == stored[Scope(c, p)][p] IN IF row = None THEN None ELSE row.region

(* What a write of p's rows does to what was read of them before.          *)
AgedCache(p) == {[e EXCEPT !.stale = @ \/ e.p = p] : e \in cache}
AgedHands(h) ==
  [g \in Hands |-> IF g = h THEN Free
                   ELSE IF hand[g].op \in {"call", "catalogue"} THEN [hand[g] EXCEPT !.stale = TRUE]
                   ELSE hand[g]]

(* set_client_key and set_campaign_key: the provider is asked first.       *)
Validate(h) ==
  /\ hand[h] = Free
  /\ \E s \in Scopes, p \in Providers : \E k \in KeysOf[p], region \in Regions :
       /\ (region # None => p \in Regional) /\ Works(p, k, region)
       /\ hand' = [hand EXCEPT ![h] = [op |-> "set", s |-> s, p |-> p,
                                      row |-> [key |-> k, region |-> region]]]
  /\ UNCHANGED <<stored, enabled, cache, lost, writes>>

(* Mutant: the update leaves the region alone.                             *)
UpsertedKeyOnly(old, new) == IF old = None THEN new ELSE [old EXCEPT !.key = new.key]
Upserted(old, new) == new

Store(h) ==
  /\ hand[h].op = "set" /\ writes < MaxWrites
  /\ stored' = [stored EXCEPT ![hand[h].s][hand[h].p] = Upserted(@, hand[h].row)]
  /\ cache' = AgedCache(hand[h].p) /\ hand' = AgedHands(h)
  /\ writes' = writes + 1
  /\ UNCHANGED <<enabled, lost>>

Delete(h) ==
  /\ hand[h] = Free /\ writes < MaxWrites
  /\ \E s \in Scopes, p \in Providers :
       /\ stored[s][p] # None
       /\ stored' = [stored EXCEPT ![s][p] = None]
       /\ cache' = AgedCache(p)
       /\ lost' = lost \cup {c \in Campaigns : Key(c, p)' = None}
  /\ hand' = AgedHands(h) /\ writes' = writes + 1
  /\ UNCHANGED enabled

(* update_campaign: missing_for_campaign, then the UPDATE.                 *)
Required(c) == Speech[c] \cup {Openai}
Have(c) == {p \in Providers : Key(c, p) # None}

Missing(c) == Required(c) \ Have(c)

CheckEnable(h) ==
  /\ hand[h] = Free
  /\ \E c \in Campaigns :
       /\ ~enabled[c] /\ Missing(c) = {}
       /\ hand' = [hand EXCEPT ![h] = [op |-> "enable", c |-> c]]
       /\ lost' = lost \ {c}
  /\ UNCHANGED <<stored, enabled, cache, writes>>

SetEnabled(h) ==
  /\ hand[h].op = "enable"
  /\ enabled' = [enabled EXCEPT ![hand[h].c] = TRUE]
  /\ hand' = [hand EXCEPT ![h] = Free]
  /\ UNCHANGED <<stored, cache, lost, writes>>

Disable ==
  /\ \E c \in Campaigns : enabled[c] /\ enabled' = [enabled EXCEPT ![c] = FALSE]
  /\ UNCHANGED <<stored, hand, cache, lost, writes>>

(* A call: the keys, then the regions, then what it needs of them.         *)
Needed(c) == Speech[c] \cup {Llm[c]} \cup (IF c \in Kb THEN {Openai} ELSE {})

LoadKeys(h) ==
  /\ hand[h] = Free
  /\ \E c \in Campaigns :
       /\ enabled[c]
       /\ hand' = [hand EXCEPT ![h] = [op |-> "call", c |-> c, stale |-> FALSE,
                                      keys |-> [p \in Providers |-> Key(c, p)]]]
  /\ UNCHANGED <<stored, enabled, cache, lost, writes>>

LoadRegions(h) ==
  /\ hand[h].op = "call"
  /\ hand' = [hand EXCEPT ![h] =
       IF \E p \in Needed(@.c) : @.keys[p] = None THEN Free
       ELSE [op |-> "up", c |-> @.c, keys |-> @.keys, stale |-> @.stale,
             regions |-> [p \in Providers |-> Region(@.c, p)]]]
  /\ UNCHANGED <<stored, enabled, cache, lost, writes>>

HangUp(h) ==
  /\ hand[h].op = "up" /\ hand' = [hand EXCEPT ![h] = Free]
  /\ UNCHANGED <<stored, enabled, cache, lost, writes>>

(* llm_catalog and tts_catalog: the region, the cache, the key, and the    *)
(* provider's answer, which is kept for ten minutes.                       *)
CacheKey(c, p, region) == [c |-> c, p |-> p, region |-> region]

LookUp(h) ==
  /\ hand[h] = Free
  /\ \E c \in Campaigns, p \in Providers :
       /\ \A e \in cache : e.id # CacheKey(c, p, Region(c, p))
       /\ hand' = [hand EXCEPT ![h] = [op |-> "catalogue", c |-> c, p |-> p, stale |-> FALSE,
                                      region |-> Region(c, p), key |-> None]]
  /\ UNCHANGED <<stored, enabled, cache, lost, writes>>

ReadKey(h) ==
  /\ hand[h].op = "catalogue" /\ hand[h].key = None
  /\ hand' = [hand EXCEPT ![h] = IF Key(@.c, @.p) = None THEN Free
                                ELSE [@ EXCEPT !.key = Key(hand[h].c, hand[h].p)]]
  /\ UNCHANGED <<stored, enabled, cache, lost, writes>>

Fetch(h) ==
  /\ hand[h].op = "catalogue" /\ hand[h].key # None
  /\ LET r == hand[h]
         id == CacheKey(r.c, r.p, r.region)
     IN \/ UNCHANGED cache
        \/ /\ Works(r.p, r.key, r.region) /\ Cardinality(cache) < MaxCached
           /\ cache' = {e \in cache : e.id # id}
                         \cup {[id |-> id, p |-> r.p, key |-> r.key, stale |-> r.stale]}
  /\ hand' = [hand EXCEPT ![h] = Free]
  /\ UNCHANGED <<stored, enabled, lost, writes>>

Expire ==
  /\ \E e \in cache : cache' = cache \ {e}
  /\ UNCHANGED <<stored, enabled, hand, lost, writes>>

KeysNext ==
  \/ Disable \/ Expire
  \/ \E h \in Hands :
       \/ Validate(h) \/ Store(h) \/ Delete(h) \/ CheckEnable(h) \/ SetEnabled(h)
       \/ LoadKeys(h) \/ LoadRegions(h) \/ HangUp(h) \/ LookUp(h) \/ ReadKey(h) \/ Fetch(h)

KeysSpec == KeysInit /\ [][KeysNext]_kvars

-----------------------------------------------------------------------------
(* The key of a call and the host it is taken to belong together, although *)
(* they are read apart, over two rows that people change: unless one was   *)
(* changed in between (load_provider_keys and load_provider_regions,       *)
(* store.py:237, :265; store, provider_keys.py:438).                       *)
KeyMeetsItsRegion ==
  \A h \in Hands : hand[h].op = "up" /\ ~hand[h].stale =>
    \A p \in Regional : hand[h].keys[p] # None => RegionOf[hand[h].keys[p]] = hand[h].regions[p]

(* A call of an enabled campaign is not declined for a key nobody removed  *)
(* since the campaign was found complete (campaigns.py:139 against         *)
(* voice_agent.py:2180).                                                   *)
EnabledCampaignTakesCalls ==
  \A c \in Campaigns : enabled[c] /\ c \notin lost => Needed(c) \subseteq Have(c)

(* A catalogue out of the cache is the one of the key the campaign's calls *)
(* use, unless a key was changed since (routers/provider_keys.py:461,      *)
(* :545).                                                                  *)
CatalogueIsOfItsKey ==
  \A e \in cache, c \in Campaigns :
    ~e.stale /\ e.id = CacheKey(c, e.p, Region(c, e.p)) => e.key = Key(c, e.p)

(* What was read apart belongs together: a key and its host, a key and the *)
(* catalogue that is shown for it (store.py:237, routers/provider_keys.py: *)
(* 461).                                                                   *)
ReadsBelongTogether == KeyMeetsItsRegion /\ CatalogueIsOfItsKey

-----------------------------------------------------------------------------
(* Why they do: what is stored works, and what was read and is not stale   *)
(* is what is stored.                                                      *)
KeySettings == [op : {"set"}, s : Scopes, p : Providers, row : KeyRow]
Enablings == [op : {"enable"}, c : Campaigns]
Starts == [op : {"call"}, c : Campaigns, stale : BOOLEAN, keys : [Providers -> Keys \cup {None}]]
Conversations == [op : {"up"}, c : Campaigns, stale : BOOLEAN,
                  keys : [Providers -> Keys \cup {None}], regions : [Providers -> Regions]]
LookUps == [op : {"catalogue"}, c : Campaigns, p : Providers, stale : BOOLEAN,
            region : Regions, key : Keys \cup {None}]
Catalogues == [id : [c : Campaigns, p : Providers, region : Regions], p : Providers,
               key : Keys \cup {None}, stale : BOOLEAN]

KeysOK ==
  /\ stored \in [Scopes -> [Providers -> KeyRow \cup {None}]]
  /\ hand \in [Hands -> {Free} \cup KeySettings \cup Enablings \cup Starts
                          \cup Conversations \cup LookUps]
  /\ cache \subseteq Catalogues

StoredKeysWork ==
  /\ \A s \in Scopes, p \in Providers :
       stored[s][p] # None => Works(p, stored[s][p].key, stored[s][p].region)
  /\ \A h \in Hands : hand[h].op = "set" =>
       Works(hand[h].p, hand[h].row.key, hand[h].row.region)

FreshIsStored ==
  /\ \A h \in Hands : hand[h].op = "call" /\ ~hand[h].stale =>
       \A p \in Providers : hand[h].keys[p] = Key(hand[h].c, p)
  /\ \A h \in Hands : hand[h].op = "catalogue" /\ ~hand[h].stale =>
       /\ hand[h].region = Region(hand[h].c, hand[h].p)
       /\ hand[h].key # None => hand[h].key = Key(hand[h].c, hand[h].p)
  /\ \A e \in cache : e.id.p = e.p /\ (~e.stale => e.key = Key(e.id.c, e.p))

KeysInv == KeysOK /\ StoredKeysWork /\ FreshIsStored /\ ReadsBelongTogether
=============================================================================
