----------------------------- MODULE Parts_proofs -----------------------------
(***************************************************************************)
(* What runs on its own.  Hours: what next_open promises, for every        *)
(* schedule, every set of holidays and every reading of the clock, against *)
(* open_now (agent/hours.py:118, :185) -- whatever the length of a week,   *)
(* of a day and of the days looked at.  What a weekday is plays no part:   *)
(* only SameWeekday expands it.  ProviderKeys: what is read apart of the   *)
(* keys belongs together.  Rates: the table of prices is what was imported *)
(* and entered, and is compared as what it is worth.  And of the parts     *)
(* that MCParts asks: what the check of a key, a lookup, its test, a       *)
(* search, the unanswered lines, a prompt's grounding, the promise made to *)
(* a refused caller and a report answer, for every base, tool, key,        *)
(* schedule and configuration, and not only those asked.                   *)
(***************************************************************************)
EXTENDS MCParts, Rates, WellFoundedInduction, FiniteSetTheorems, TLAPS

(* The opening and the closing of a day with a window are times, and the   *)
(* one is before the other (_window, hours.py:104).                        *)
LEMMA WindowTimes ==
  ASSUME NEW hours \in Schedules, NEW d \in Nat, HasWindow(hours, d)
  PROVE  /\ Opens(hours, d) \in Times
         /\ Closes(hours, d) \in Times
         /\ Opens(hours, d) < Closes(hours, d)
<1>1. PICK D \in SUBSET (0 .. Week - 1) : hours \in [D -> Written]
  BY DEF Schedules
<1>2. hours[Weekday(d)] \in Written
  BY <1>1 DEF HasWindow
<1>3. QED
  BY <1>2 DEF HasWindow, Opens, Closes, Written

(* A set of days that is not empty has an earliest one; so have numbers.   *)
LEMMA EarliestDay ==
  ASSUME NEW days \in SUBSET Nat, days # {}
  PROVE  \E d \in days : \A e \in days : d <= e
<1> DEFINE Earlier == {ss \in Nat \X Nat : ss[1] < ss[2]}
<1>1. IsWellFoundedOn(Earlier, Nat)
  BY NatLessThanWellFounded DEF OpToRel
<1> HIDE DEF Earlier
<1>2. PICK d \in days : \A e \in days : ~ (<<e, d>> \in Earlier)
  BY <1>1, WFMin
<1>3. \A e \in days : ~ (e < d)
  BY <1>2 DEF Earlier
<1> QED
  BY <1>3

(* The loop of next_open stops, at the latest, on the day of any instant   *)
(* at which the window is open (hours.py:192).                             *)
LEMMA OpenDaysAreCandidates ==
  ASSUME NEW hours \in Schedules, NEW holidays, NEW now \in Instant, Configured(hours),
         NEW i \in InstantsFrom(now), OpenNow(hours, holidays, i)
  PROVE  i.day \in Candidates(hours, holidays, now)
<1>1. now.day \in Nat /\ now.time \in Int
  BY HoursAssumption DEF Instant, Times
<1>2. i.day \in now.day .. now.day + Horizon - 1 /\ i.time \in Int /\ ~Before(i, now)
  BY HoursAssumption DEF InstantsFrom, Times
<1>3. i.day \in Nat /\ i.day >= now.day
  BY <1>1, <1>2, HoursAssumption
<1>4. /\ i.day \notin holidays
      /\ HasWindow(hours, i.day)
      /\ Opens(hours, i.day) <= i.time
      /\ i.time < Closes(hours, i.day)
  BY DEF OpenNow, InWindow
<1>5. Opens(hours, i.day) \in Int /\ Closes(hours, i.day) \in Int
  BY <1>3, <1>4, WindowTimes, HoursAssumption DEF Times
<1>6. Before(now, OpeningOn(hours, i.day)) \/ (i.day = now.day /\ InWindow(hours, now))
  <2>1. CASE i.day > now.day
    BY <1>1, <1>3, <2>1 DEF Before, OpeningOn
  <2>2. CASE i.day = now.day
    <3>1. now.time <= i.time
      BY <1>1, <1>2, <2>2 DEF Before
    <3>2. CASE now.time < Opens(hours, i.day)
      BY <2>2, <3>2 DEF Before, OpeningOn
    <3>3. CASE Opens(hours, i.day) <= now.time
      <4>1. now.time < Closes(hours, i.day)
        BY <1>1, <1>2, <1>4, <1>5, <3>1
      <4> QED
        BY <1>4, <2>2, <3>3, <4>1 DEF InWindow
    <3> QED
      BY <1>1, <1>5, <3>2, <3>3
  <2> QED
    BY <1>1, <1>3, <2>1, <2>2
<1> QED
  BY <1>2, <1>4, <1>6 DEF Candidates

(* What next_open makes of the day it stops at: an instant of that day, at *)
(* or after now, at which the window is open, and the first such instant   *)
(* of the day (hours.py:197).                                              *)
LEMMA OpeningOfACandidate ==
  ASSUME NEW hours \in Schedules, NEW holidays, NEW now \in Instant,
         NEW d \in Candidates(hours, holidays, now),
         NEW n, n = IF Before(now, OpeningOn(hours, d)) THEN OpeningOn(hours, d) ELSE now
  PROVE  /\ n \in InstantsFrom(now)
         /\ n.day = d
         /\ OpenNow(hours, holidays, n)
         /\ \A i \in InstantsFrom(now) : i.day = d /\ Before(i, n) => ~InWindow(hours, i)
<1>1. now.day \in Nat /\ now.time \in Times /\ now.time \in Int /\ now = [day |-> now.day, time |-> now.time]
  BY HoursAssumption DEF Instant, Times
<1>2. /\ d \in now.day .. now.day + Horizon - 1
      /\ d \notin holidays
      /\ HasWindow(hours, d)
      /\ Before(now, OpeningOn(hours, d)) \/ (d = now.day /\ InWindow(hours, now))
  BY DEF Candidates
<1>3. d \in Nat
  BY <1>1, <1>2, HoursAssumption
<1>4. /\ Opens(hours, d) \in Times /\ Opens(hours, d) \in Int
      /\ Closes(hours, d) \in Int
      /\ Opens(hours, d) < Closes(hours, d)
  BY <1>2, <1>3, WindowTimes, HoursAssumption DEF Times
<1>5. \A i \in InstantsFrom(now) : i.day \in Int /\ i.time \in Int /\ ~Before(i, now)
  BY <1>1, HoursAssumption DEF InstantsFrom, Times
<1>6. CASE Before(now, OpeningOn(hours, d))
  <2>1. n = [day |-> d, time |-> Opens(hours, d)]
    BY <1>6 DEF OpeningOn
  <2>2. now.day < d \/ (now.day = d /\ now.time < Opens(hours, d))
    BY <1>6 DEF Before, OpeningOn
  <2>3. ~Before(n, now)
    BY <1>1, <1>3, <1>4, <2>1, <2>2 DEF Before
  <2>4. n \in InstantsFrom(now)
    BY <1>2, <1>4, <2>1, <2>3 DEF InstantsFrom
  <2>5. InWindow(hours, n)
    BY <1>2, <1>4, <2>1 DEF InWindow
  <2>6. ASSUME NEW i \in InstantsFrom(now), i.day = d, Before(i, n)
        PROVE  ~InWindow(hours, i)
    <3>1. i.time < Opens(hours, d)
      BY <1>3, <1>5, <2>1, <2>6 DEF Before
    <3> QED
      BY <1>4, <1>5, <2>6, <3>1 DEF InWindow
  <2> QED
    BY <1>2, <2>1, <2>4, <2>5, <2>6 DEF OpenNow
<1>7. CASE ~Before(now, OpeningOn(hours, d))
  <2>1. n = now /\ d = now.day /\ InWindow(hours, now)
    BY <1>2, <1>7
  <2>2. ~Before(now, now)
    BY <1>1 DEF Before
  <2>3. now \in InstantsFrom(now)
    BY <1>1, <1>2, <2>1, <2>2 DEF InstantsFrom
  <2> QED
    BY <1>2, <1>5, <2>1, <2>3 DEF OpenNow
<1> QED
  BY <1>6, <1>7

(* Whatever is configured, the opening a caller is promised is the first   *)
(* instant, at or after now, at which somebody is there; and when none is  *)
(* promised, nobody is there on any of the days looked at (next_open       *)
(* against open_now, hours.py:185, :118).                                  *)
THEOREM NextOpenIsFirstOpening ==
  ASSUME NEW hours \in Schedules, NEW holidays, NEW now \in Instant, Configured(hours)
  PROVE  FirstOpening(hours, holidays, now, NextOpen(hours, holidays, now))
<1> DEFINE days == Candidates(hours, holidays, now)
<1>1. now.day \in Nat
  BY DEF Instant
<1>2. days \in SUBSET Nat
  BY <1>1, HoursAssumption DEF Candidates
<1>3. \A i \in InstantsFrom(now) : OpenNow(hours, holidays, i) => i.day \in days
  BY OpenDaysAreCandidates
<1>4. NextOpen(hours, holidays, now) = EarliestOpening(hours, holidays, now, days)
  BY DEF NextOpen
<1> HIDE DEF days
<1>5. CASE days = {}
  BY <1>3, <1>4, <1>5 DEF EarliestOpening, FirstOpening
<1>6. CASE days # {}
  <2> DEFINE d == CHOOSE e \in days : \A f \in days : e <= f
             n == IF Before(now, OpeningOn(hours, d)) THEN OpeningOn(hours, d) ELSE now
  <2>1. d \in days /\ \A f \in days : d <= f
    BY <1>2, <1>6, EarliestDay
  <2>2. NextOpen(hours, holidays, now) = n
    BY <1>4, <1>6 DEF EarliestOpening
  <2> HIDE DEF d
  <2>3. d \in Candidates(hours, holidays, now)
    BY <2>1 DEF days
  <2>4. /\ n \in InstantsFrom(now)
        /\ n.day = d
        /\ OpenNow(hours, holidays, n)
        /\ \A i \in InstantsFrom(now) : i.day = d /\ Before(i, n) => ~InWindow(hours, i)
    BY <2>3, OpeningOfACandidate
  <2> HIDE DEF n
  <2>5. n # Never
    <3>1. n \in Instant
      BY <1>1, <2>4, HoursAssumption DEF InstantsFrom, Instant
    <3> QED
      BY <3>1, NeverAssumption
  <2>6. ASSUME NEW i \in InstantsFrom(now), Before(i, n), OpenNow(hours, holidays, i)
        PROVE  FALSE
    <3>1. i.day \in days /\ InWindow(hours, i)
      BY <1>3, <2>6 DEF OpenNow
    <3>2. i.day \in Nat /\ d \in Nat /\ d <= i.day
      BY <1>2, <2>1, <3>1
    <3>3. i.day = d
      BY <2>4, <2>6, <3>2 DEF Before
    <3> QED
      BY <2>4, <2>6, <3>1, <3>3
  <2> QED
    BY <2>2, <2>4, <2>5, <2>6 DEF FirstOpening
<1> QED
  BY <1>5, <1>6

(* Two days less than a week apart with the same weekday are one day.      *)
LEMMA SameWeekday ==
  ASSUME NEW d \in Nat, NEW e \in Nat, d <= e, e < d + Week, Weekday(d) = Weekday(e)
  PROVE  d = e
<1>1. Week \in Nat \ {0}
  BY HoursAssumption
<1>2. d = Week * (d \div Week) + (d % Week) /\ d \div Week \in Int
  BY <1>1, SMT
<1>3. e = Week * (e \div Week) + (e % Week) /\ e \div Week \in Int
  BY <1>1, SMT
<1> DEFINE weeks == (e \div Week) - (d \div Week)
<1>4. e - d = Week * weeks /\ weeks \in Int
  BY <1>1, <1>2, <1>3, SMT DEF Weekday
<1> HIDE DEF weeks
<1>5. ~(weeks >= 1)
  <2> SUFFICES ASSUME weeks >= 1
               PROVE  FALSE
    OBVIOUS
  <2>1. Week * weeks >= Week
    BY <1>1, <1>4, SMT
  <2> QED
    BY <1>1, <1>4, <2>1
<1>6. CASE d < e
  BY <1>1, <1>4, <1>5, <1>6, SMT
<1> QED
  BY <1>6

(* The word a caller hears names the day it stands for, if that day is     *)
(* today, tomorrow or one of the seven that follow; next_open looks twice  *)
(* as far (describe and _HORIZON_DAYS, hours.py:208, :56).                 *)
THEOREM DescribeNamesTheDay ==
  ASSUME NEW when \in Instant, NEW now \in Instant,
         when.day \in now.day .. now.day + 1 + Week
  PROVE  DayMeant(DayWord(when, now), now) = when.day
<1>1. when # Never
  BY NeverAssumption
<1>2. when.day \in Nat /\ now.day \in Nat
  BY DEF Instant
<1>3. CASE when.day = now.day
  BY <1>1, <1>3 DEF DayWord, DayMeant
<1>4. CASE when.day = now.day + 1
  <2>1. when.day # now.day
    BY <1>2, <1>4
  <2> QED
    BY <1>1, <1>4, <2>1 DEF DayWord, DayMeant
<1>5. CASE when.day # now.day /\ when.day # now.day + 1
  <2> DEFINE range == now.day + 2 .. now.day + 1 + Week
  <2>1. DayWord(when, now) = <<"weekday", Weekday(when.day)>>
    BY <1>1, <1>5 DEF DayWord
  <2>2. DayMeant(DayWord(when, now), now)
          = CHOOSE d \in range : Weekday(d) = Weekday(when.day)
    BY <2>1 DEF DayMeant
  <2>3. when.day \in range
    BY <1>2, <1>5, HoursAssumption
  <2>4. ASSUME NEW d \in range, Weekday(d) = Weekday(when.day)
        PROVE  d = when.day
    <3>1. d \in Nat /\ (d <= when.day \/ when.day <= d)
      BY <1>2, HoursAssumption
    <3>2. d <= when.day => when.day < d + Week
      BY <1>2, <2>3, HoursAssumption
    <3>3. when.day <= d => d < when.day + Week
      BY <1>2, <2>3, HoursAssumption
    <3> QED
      BY <1>2, <2>4, <3>1, <3>2, <3>3, SameWeekday
  <2> QED
    BY <2>2, <2>3, <2>4
<1> QED
  BY <1>3, <1>4, <1>5

-----------------------------------------------------------------------------
(* ProviderKeys: what a hand may hold, and what each step does to it.  The *)
(* keys of a call are read in one query and their regions in the next; the *)
(* invariant says what the second finds of what the first one saw.         *)
HandSet == {Free} \cup KeySettings \cup Enablings \cup Starts \cup Conversations \cup LookUps

(* What a hand holds is told from what it does.                            *)
LEMMA HandShapes ==
  ASSUME NEW r \in HandSet
  PROVE  /\ r.op = "none" => r = Free
         /\ r.op = "set" => r \in KeySettings
         /\ r.op = "enable" => r \in Enablings
         /\ r.op = "call" => r \in Starts
         /\ r.op = "up" => r \in Conversations
         /\ r.op = "catalogue" => r \in LookUps
         /\ Free.op = "none"
  BY DEF HandSet, Free, KeySettings, Enablings, Starts, Conversations, LookUps

(* A key and its region are those of one row, if they are read at once     *)
(* (load_provider_keys and load_provider_regions, store.py:237, :265).     *)
LEMMA KeyTypes ==
  ASSUME KeysOK, NEW c \in Campaigns, NEW p \in Providers
  PROVE  /\ Scope(c, p) \in Scopes /\ Key(c, p) \in Keys \cup {None} /\ Region(c, p) \in Regions
         /\ Key(c, p) # None => /\ stored[Scope(c, p)][p] # None
                                /\ Key(c, p) = stored[Scope(c, p)][p].key
                                /\ Region(c, p) = stored[Scope(c, p)][p].region
<1>1. Scope(c, p) \in Scopes
  BY DEF Scope, Scopes
<1>2. stored[Scope(c, p)][p] \in KeyRow \cup {None} /\ None \in Regions
  BY <1>1 DEF KeysOK, Regions
<1> QED
  BY <1>1, <1>2 DEF Key, Region, KeyRow

(* A step of one hand that writes no key and no catalogue.                 *)
LEMMA OneHand ==
  ASSUME KeysInv, NEW h \in Hands, NEW r \in HandSet, hand' = [hand EXCEPT ![h] = r],
         UNCHANGED <<stored, cache>>,
         r.op = "set" => Works(r.p, r.row.key, r.row.region),
         r.op = "call" /\ ~r.stale => \A p \in Providers : r.keys[p] = Key(r.c, p),
         r.op = "catalogue" /\ ~r.stale =>
           /\ r.region = Region(r.c, r.p) /\ (r.key # None => r.key = Key(r.c, r.p)),
         r.op = "up" /\ ~r.stale =>
           \A p \in Regional : r.keys[p] # None => RegionOf[r.keys[p]] = r.regions[p]
  PROVE  KeysInv'
<1>1. KeysOK /\ StoredKeysWork /\ FreshIsStored /\ KeyMeetsItsRegion /\ CatalogueIsOfItsKey
  BY DEF KeysInv, ReadsBelongTogether
<1>2. hand \in [Hands -> HandSet] /\ hand' \in [Hands -> HandSet]
  BY <1>1 DEF KeysOK, HandSet
<1>3. hand'[h] = r /\ \A g \in Hands : g # h => hand'[g] = hand[g]
  BY <1>2
<1>4. \A c, p : Key(c, p)' = Key(c, p) /\ Region(c, p)' = Region(c, p)
  BY DEF Key, Region, Scope
<1>5. KeysOK'
  BY <1>1, <1>2 DEF KeysOK, HandSet
<1>6. StoredKeysWork'
  BY <1>1, <1>3 DEF StoredKeysWork
<1>7. FreshIsStored'
  BY <1>1, <1>3, <1>4 DEF FreshIsStored
<1>8. KeyMeetsItsRegion'
  BY <1>1, <1>3 DEF KeyMeetsItsRegion
<1>9. CatalogueIsOfItsKey'
  BY <1>1, <1>4 DEF CatalogueIsOfItsKey
<1> QED
  BY <1>5, <1>6, <1>7, <1>8, <1>9 DEF KeysInv, ReadsBelongTogether

(* A step that ends what a hand was doing.                                 *)
LEMMA FreeHand == ASSUME KeysInv, NEW h \in Hands, hand' = [hand EXCEPT ![h] = Free],
                         UNCHANGED <<stored, cache>>
                  PROVE  KeysInv'
<1>1. Free \in HandSet /\ Free.op = "none"
  BY HandShapes DEF HandSet, Free
<1> QED
  BY <1>1, OneHand

(* A step that writes no key: every catalogue it leaves is stale or that   *)
(* of the key there is (_cache and _llm_cache, routers/provider_keys.py).  *)
LEMMA CacheChanges ==
  ASSUME KeysInv, cache' \subseteq Catalogues, UNCHANGED stored,
         \A e \in cache' : e.id.p = e.p /\ (~e.stale => e.key = Key(e.id.c, e.p)),
         UNCHANGED hand \/ \E h \in Hands : hand' = [hand EXCEPT ![h] = Free]
  PROVE  KeysInv'
<1>1. KeysOK /\ StoredKeysWork /\ FreshIsStored /\ KeyMeetsItsRegion
  BY DEF KeysInv, ReadsBelongTogether
<1>2. hand \in [Hands -> HandSet] /\ Free \in HandSet /\ Free.op = "none"
  BY <1>1, HandShapes DEF KeysOK, HandSet, Free
<1>3. hand' \in [Hands -> HandSet] /\ \A g \in Hands : hand'[g] = hand[g] \/ hand'[g] = Free
  BY <1>2
<1>4. \A c, p : Key(c, p)' = Key(c, p) /\ Region(c, p)' = Region(c, p)
  BY DEF Key, Region, Scope
<1>5. KeysOK'
  BY <1>1, <1>3 DEF KeysOK, HandSet
<1>6. StoredKeysWork'
  BY <1>1, <1>2, <1>3 DEF StoredKeysWork
<1>7. FreshIsStored'
  BY <1>1, <1>2, <1>3, <1>4 DEF FreshIsStored
<1>8. KeyMeetsItsRegion'
  BY <1>1, <1>2, <1>3 DEF KeyMeetsItsRegion
<1>9. CatalogueIsOfItsKey'
  <2> SUFFICES ASSUME NEW e \in cache', NEW c \in Campaigns, ~e.stale,
                      e.id = CacheKey(c, e.p, Region(c, e.p)')
               PROVE  e.key = Key(c, e.p)'
    BY DEF CatalogueIsOfItsKey
  <2>1. e.id.c = c
    BY DEF CacheKey
  <2> QED
    BY <1>4, <2>1
<1> QED
  BY <1>5, <1>6, <1>7, <1>8, <1>9 DEF KeysInv, ReadsBelongTogether

(* A row of p changes: what was read of it before is stale.                *)
LEMMA KeyWritten ==
  ASSUME KeysInv, NEW h \in Hands, NEW s \in Scopes, NEW p \in Providers, NEW row \in KeyRow \cup {None},
         stored' = [stored EXCEPT ![s][p] = row], row # None => Works(p, row.key, row.region),
         cache' = AgedCache(p), hand' = AgedHands(h)
  PROVE  KeysInv'
<1>1. KeysOK /\ StoredKeysWork /\ FreshIsStored /\ KeyMeetsItsRegion
  BY DEF KeysInv, ReadsBelongTogether
<1>2. hand \in [Hands -> HandSet] /\ Free \in HandSet /\ Free.op = "none"
  BY <1>1, HandShapes DEF KeysOK, HandSet, Free
<1>3. ASSUME NEW g \in Hands
      PROVE  /\ hand'[g] \in HandSet
             /\ \/ hand'[g] = hand[g] /\ hand[g].op \notin {"call", "catalogue"}
                \/ hand'[g] = Free
                \/ hand'[g].stale = TRUE /\ hand'[g].op \in {"call", "catalogue"}
  <2>1. CASE g # h /\ hand[g].op = "call"
    <3>1. hand'[g] = [hand[g] EXCEPT !.stale = TRUE] /\ hand[g] \in Starts
      BY <1>2, <2>1, HandShapes DEF AgedHands
    <3>2. hand'[g] \in Starts /\ hand'[g].stale = TRUE /\ hand'[g].op = "call"
      BY <2>1, <3>1 DEF Starts
    <3> QED
      BY <3>2 DEF HandSet
  <2>2. CASE g # h /\ hand[g].op = "catalogue"
    <3>1. hand'[g] = [hand[g] EXCEPT !.stale = TRUE] /\ hand[g] \in LookUps
      BY <1>2, <2>2, HandShapes DEF AgedHands
    <3>2. hand'[g] \in LookUps /\ hand'[g].stale = TRUE /\ hand'[g].op = "catalogue"
      BY <2>2, <3>1 DEF LookUps
    <3> QED
      BY <3>2 DEF HandSet
  <2>3. CASE g = h
    <3>1. hand'[g] = Free
      BY <2>3 DEF AgedHands
    <3> QED
      BY <1>2, <3>1
  <2>4. CASE g # h /\ hand[g].op \notin {"call", "catalogue"}
    <3>1. hand'[g] = hand[g]
      BY <2>4 DEF AgedHands
    <3> QED
      BY <1>2, <2>4, <3>1
  <2> QED
    BY <2>1, <2>2, <2>3, <2>4
<1>4. /\ stored' \in [Scopes -> [Providers -> KeyRow \cup {None}]]
      /\ \A t \in Scopes, q \in Providers : stored'[t][q] = stored[t][q] \/ (q = p /\ stored'[t][q] = row)
  BY <1>1 DEF KeysOK
<1>5. \A c \in Campaigns, q \in Providers : q # p => Key(c, q)' = Key(c, q)
  <2> SUFFICES ASSUME NEW c \in Campaigns, NEW q \in Providers, q # p PROVE Key(c, q)' = Key(c, q)
    OBVIOUS
  <2>1. c \in Scopes /\ Client \in Scopes
    BY DEF Scopes
  <2>2. stored'[c][q] = stored[c][q] /\ stored'[Client][q] = stored[Client][q]
    BY <1>4, <2>1
  <2> QED
    BY <2>2 DEF Key, Scope
<1>6. ASSUME NEW e \in cache'
      PROVE  /\ e \in Catalogues /\ e.id.p = e.p
             /\ ~e.stale => e \in cache /\ e.p # p
  <2>1. PICK d \in cache : e = [d EXCEPT !.stale = d.stale \/ d.p = p]
    BY DEF AgedCache
  <2>2. d \in Catalogues /\ d.id.p = d.p
    BY <1>1 DEF KeysOK, FreshIsStored
  <2>3. CASE d.stale = TRUE \/ d.p = p
    <3>1. e = [d EXCEPT !.stale = TRUE]
      BY <2>1, <2>2, <2>3 DEF Catalogues
    <3> QED
      BY <2>2, <3>1 DEF Catalogues
  <2>4. CASE d.stale = FALSE /\ d.p # p
    <3>1. e = [d EXCEPT !.stale = FALSE]
      BY <2>1, <2>4
    <3>2. e = d
      BY <2>2, <2>4, <3>1 DEF Catalogues
    <3> QED
      BY <2>2, <2>4, <3>2
  <2> QED
    BY <2>2, <2>3, <2>4 DEF Catalogues
<1>7. KeysOK'
  BY <1>3, <1>4, <1>6 DEF KeysOK, HandSet, AgedHands
<1>8. StoredKeysWork'
  BY <1>1, <1>2, <1>3, <1>4 DEF StoredKeysWork
<1>9. FreshIsStored'
  <2>1. ASSUME NEW e \in cache', ~e.stale PROVE e.key = Key(e.id.c, e.p)'
    <3>1. e \in cache /\ e \in Catalogues /\ e.p # p /\ e.key = Key(e.id.c, e.p)
      BY <1>1, <1>6, <2>1 DEF FreshIsStored
    <3>2. e.id.c \in Campaigns /\ e.p \in Providers
      BY <3>1 DEF Catalogues
    <3> QED
      BY <1>5, <3>1, <3>2
  <2> QED
    BY <1>2, <1>3, <1>6, <2>1 DEF FreshIsStored
<1>10. KeyMeetsItsRegion'
  <2>1. \A g \in Hands : hand'[g].op = "up" => hand'[g] = hand[g]
    BY <1>2, <1>3
  <2> QED
    BY <1>1, <2>1 DEF KeyMeetsItsRegion
<1>11. CatalogueIsOfItsKey'
  <2> SUFFICES ASSUME NEW e \in cache', NEW c \in Campaigns, ~e.stale,
                      e.id = CacheKey(c, e.p, Region(c, e.p)')
               PROVE  e.key = Key(c, e.p)'
    BY DEF CatalogueIsOfItsKey
  <2>1. e.id.c = c
    BY DEF CacheKey
  <2> QED
    BY <1>9, <2>1 DEF FreshIsStored
<1> QED
  BY <1>7, <1>8, <1>9, <1>10, <1>11 DEF KeysInv, ReadsBelongTogether

(* Every operation of the console and every step of a call.                *)
LEMMA KeysStep == ASSUME KeysInv, KeysNext PROVE KeysInv'
<1>0. /\ KeysOK /\ StoredKeysWork /\ FreshIsStored /\ hand \in [Hands -> HandSet]
      /\ \A h \in Hands : hand[h] \in HandSet
  BY DEF KeysInv, KeysOK, HandSet
<1>1. ASSUME NEW h \in Hands, Validate(h) PROVE KeysInv'
  <2>1. PICK s \in Scopes, p \in Providers : \E k \in KeysOf[p], region \in Regions :
           /\ Works(p, k, region)
           /\ hand' = [hand EXCEPT ![h] = [op |-> "set", s |-> s, p |-> p,
                                          row |-> [key |-> k, region |-> region]]]
    BY <1>1 DEF Validate
  <2>2. PICK k \in KeysOf[p], region \in Regions :
           /\ Works(p, k, region)
           /\ hand' = [hand EXCEPT ![h] = [op |-> "set", s |-> s, p |-> p,
                                          row |-> [key |-> k, region |-> region]]]
    BY <2>1
  <2> DEFINE r == [op |-> "set", s |-> s, p |-> p, row |-> [key |-> k, region |-> region]]
  <2>3. k \in Keys
    BY DEF Keys
  <2>4. r \in KeySettings
    BY <2>3 DEF KeySettings, KeyRow
  <2>5. r \in HandSet
    BY <2>4 DEF HandSet
  <2>6. r.op = "set" /\ Works(r.p, r.row.key, r.row.region)
    BY <2>2
  <2> HIDE DEF r
  <2>7. hand' = [hand EXCEPT ![h] = r] /\ UNCHANGED <<stored, cache>>
    BY <1>1, <2>2 DEF Validate, r
  <2> QED
    BY <2>5, <2>6, <2>7, OneHand
<1>2. ASSUME NEW h \in Hands, Store(h) PROVE KeysInv'
  <2>1. hand[h] \in KeySettings
    BY <1>0, <1>2, HandShapes DEF Store
  <2>2. hand[h].s \in Scopes /\ hand[h].p \in Providers /\ hand[h].row \in KeyRow
    BY <2>1 DEF KeySettings
  <2>3. /\ stored' = [stored EXCEPT ![hand[h].s][hand[h].p] = hand[h].row]
        /\ cache' = AgedCache(hand[h].p) /\ hand' = AgedHands(h)
    BY <1>2 DEF Store, Upserted
  <2>4. Works(hand[h].p, hand[h].row.key, hand[h].row.region)
    BY <1>0, <1>2 DEF Store, StoredKeysWork
  <2> QED
    BY <2>2, <2>3, <2>4, KeyWritten
<1>3. ASSUME NEW h \in Hands, Delete(h) PROVE KeysInv'
  <2>1. PICK s \in Scopes, p \in Providers :
          stored' = [stored EXCEPT ![s][p] = None] /\ cache' = AgedCache(p)
    BY <1>3 DEF Delete
  <2>2. hand' = AgedHands(h)
    BY <1>3 DEF Delete
  <2> QED
    BY <2>1, <2>2, KeyWritten
<1>4. ASSUME NEW h \in Hands, CheckEnable(h) PROVE KeysInv'
  <2>1. PICK c \in Campaigns : hand' = [hand EXCEPT ![h] = [op |-> "enable", c |-> c]]
    BY <1>4 DEF CheckEnable
  <2>2. [op |-> "enable", c |-> c] \in HandSet
    BY DEF HandSet, Enablings
  <2>3. UNCHANGED <<stored, cache>>
    BY <1>4 DEF CheckEnable
  <2> QED
    BY <2>1, <2>2, <2>3, OneHand
<1>5. ASSUME NEW h \in Hands, SetEnabled(h) \/ HangUp(h) PROVE KeysInv'
  BY <1>5, FreeHand DEF SetEnabled, HangUp
<1>6. ASSUME NEW h \in Hands, LoadKeys(h) PROVE KeysInv'
  <2>1. PICK c \in Campaigns :
          hand' = [hand EXCEPT ![h] = [op |-> "call", c |-> c, stale |-> FALSE,
                                      keys |-> [p \in Providers |-> Key(c, p)]]]
    BY <1>6 DEF LoadKeys
  <2> DEFINE ks == [p \in Providers |-> Key(c, p)]
             r == [op |-> "call", c |-> c, stale |-> FALSE, keys |-> ks]
  <2>2. ks \in [Providers -> Keys \cup {None}]
    BY <1>0, KeyTypes
  <2>3. r \in Starts
    BY <2>2 DEF Starts
  <2>4. r \in HandSet
    BY <2>3 DEF HandSet
  <2>5. r.op = "call" /\ \A p \in Providers : r.keys[p] = Key(r.c, p)
    OBVIOUS
  <2>6. hand' = [hand EXCEPT ![h] = r] /\ UNCHANGED <<stored, cache>>
    BY <1>6, <2>1 DEF LoadKeys
  <2> HIDE DEF r
  <2> QED
    BY <2>4, <2>5, <2>6, OneHand
<1>7. ASSUME NEW h \in Hands, LoadRegions(h) PROVE KeysInv'
  <2>1. hand[h] \in Starts /\ UNCHANGED <<stored, cache>>
    BY <1>0, <1>7, HandShapes DEF LoadRegions
  <2> DEFINE c == hand[h].c
             rs == [p \in Providers |-> Region(c, p)]
             r == [op |-> "up", c |-> c, keys |-> hand[h].keys, stale |-> hand[h].stale, regions |-> rs]
  <2>2. hand' = [hand EXCEPT ![h] = r] \/ hand' = [hand EXCEPT ![h] = Free]
    BY <1>0, <1>7 DEF LoadRegions
  <2>3. c \in Campaigns /\ hand[h].keys \in [Providers -> Keys \cup {None}] /\ hand[h].stale \in BOOLEAN
    BY <2>1 DEF Starts
  <2>4. rs \in [Providers -> Regions]
    BY <1>0, <2>3, KeyTypes
  <2>5. r \in Conversations
    BY <2>3, <2>4 DEF Conversations
  <2>6. r \in HandSet
    BY <2>5 DEF HandSet
  <2>7. r.op = "up" /\ r.keys = hand[h].keys /\ r.stale = hand[h].stale /\ r.regions = rs
    OBVIOUS
  <2>8. ASSUME ~hand[h].stale, NEW p \in Regional, hand[h].keys[p] # None
        PROVE  RegionOf[hand[h].keys[p]] = rs[p]
    <3>1. p \in Providers
      BY KeysAssumption
    <3>2. hand[h].keys[p] = Key(c, p) /\ rs[p] = Region(c, p)
      BY <1>0, <1>7, <2>8, <3>1 DEF FreshIsStored, LoadRegions
    <3>3. /\ Scope(c, p) \in Scopes /\ stored[Scope(c, p)][p] # None
          /\ Key(c, p) = stored[Scope(c, p)][p].key /\ Region(c, p) = stored[Scope(c, p)][p].region
      BY <1>0, <2>3, <2>8, <3>1, <3>2, KeyTypes
    <3> QED
      BY <1>0, <3>1, <3>2, <3>3 DEF StoredKeysWork, Works
  <2> HIDE DEF r
  <2>9. hand' = [hand EXCEPT ![h] = r] => KeysInv'
    BY <2>1, <2>6, <2>7, <2>8, OneHand
  <2> QED
    BY <2>1, <2>2, <2>9, FreeHand
<1>8. ASSUME NEW h \in Hands, LookUp(h) PROVE KeysInv'
  <2>1. PICK c \in Campaigns, p \in Providers :
          hand' = [hand EXCEPT ![h] = [op |-> "catalogue", c |-> c, p |-> p, stale |-> FALSE,
                                      region |-> Region(c, p), key |-> None]]
    BY <1>8 DEF LookUp
  <2> DEFINE r == [op |-> "catalogue", c |-> c, p |-> p, stale |-> FALSE,
                   region |-> Region(c, p), key |-> None]
  <2>2. r \in LookUps
    BY <1>0, KeyTypes DEF LookUps
  <2>3. r \in HandSet
    BY <2>2 DEF HandSet
  <2>4. r.op = "catalogue" /\ r.region = Region(r.c, r.p) /\ r.key = None
    OBVIOUS
  <2>5. hand' = [hand EXCEPT ![h] = r] /\ UNCHANGED <<stored, cache>>
    BY <1>8, <2>1 DEF LookUp
  <2> HIDE DEF r
  <2> QED
    BY <2>3, <2>4, <2>5, OneHand
<1>9. ASSUME NEW h \in Hands, ReadKey(h) PROVE KeysInv'
  <2>1. hand[h] \in LookUps /\ UNCHANGED <<stored, cache>> /\ hand[h].op = "catalogue"
    BY <1>0, <1>9, HandShapes DEF ReadKey
  <2> DEFINE k == Key(hand[h].c, hand[h].p)
             r == [hand[h] EXCEPT !.key = k]
  <2>2. hand' = [hand EXCEPT ![h] = r] \/ hand' = [hand EXCEPT ![h] = Free]
    BY <1>0, <1>9 DEF ReadKey
  <2>3. hand[h].c \in Campaigns /\ hand[h].p \in Providers
    BY <2>1 DEF LookUps
  <2>4. k \in Keys \cup {None}
    BY <1>0, <2>3, KeyTypes
  <2>5. ~hand[h].stale => hand[h].region = Region(hand[h].c, hand[h].p)
    BY <1>0, <2>1 DEF FreshIsStored
  <2> HIDE DEF k
  <2>6. r \in LookUps /\ r.op = "catalogue" /\ r.c = hand[h].c /\ r.p = hand[h].p
        /\ r.stale = hand[h].stale /\ r.region = hand[h].region /\ r.key = k
    BY <2>1, <2>4 DEF LookUps
  <2>7. r \in HandSet
    BY <2>6 DEF HandSet
  <2> HIDE DEF r
  <2>8. hand' = [hand EXCEPT ![h] = r] => KeysInv'
    BY <2>1, <2>5, <2>6, <2>7, OneHand DEF k
  <2> QED
    BY <2>1, <2>2, <2>8, FreeHand
<1>10. ASSUME NEW h \in Hands, Fetch(h) PROVE KeysInv'
  <2>1. hand[h] \in LookUps /\ hand[h].key # None /\ UNCHANGED stored
        /\ hand' = [hand EXCEPT ![h] = Free] /\ hand[h].op = "catalogue"
    BY <1>0, <1>10, HandShapes DEF Fetch
  <2> DEFINE id == CacheKey(hand[h].c, hand[h].p, hand[h].region)
             e == [id |-> id, p |-> hand[h].p, key |-> hand[h].key, stale |-> hand[h].stale]
  <2>2. UNCHANGED cache \/ cache' = {d \in cache : d.id # id} \cup {e}
    BY <1>10 DEF Fetch
  <2>3. hand[h].c \in Campaigns /\ hand[h].p \in Providers /\ hand[h].region \in Regions
        /\ hand[h].key \in Keys \cup {None} /\ hand[h].stale \in BOOLEAN
    BY <2>1 DEF LookUps
  <2>4. id \in [c : Campaigns, p : Providers, region : Regions] /\ id.c = hand[h].c /\ id.p = hand[h].p
    BY <2>3 DEF CacheKey
  <2>5. ~hand[h].stale => hand[h].key = Key(hand[h].c, hand[h].p)
    BY <1>0, <2>1 DEF FreshIsStored
  <2> HIDE DEF id
  <2>6. e \in Catalogues /\ e.id = id /\ e.p = hand[h].p /\ e.key = hand[h].key /\ e.stale = hand[h].stale
    BY <2>3, <2>4 DEF Catalogues
  <2> HIDE DEF e
  <2>7. cache' \subseteq Catalogues
    BY <1>0, <2>2, <2>6 DEF KeysOK
  <2>8. \A d \in cache' : d.id.p = d.p /\ (~d.stale => d.key = Key(d.id.c, d.p))
    BY <1>0, <2>2, <2>4, <2>5, <2>6 DEF FreshIsStored
  <2> QED
    BY <2>1, <2>7, <2>8, CacheChanges
<1>11. CASE Expire
  <2>1. cache' \subseteq cache /\ UNCHANGED <<stored, hand>>
    BY <1>11 DEF Expire
  <2>2. cache' \subseteq Catalogues
    BY <1>0, <2>1 DEF KeysOK
  <2>3. \A d \in cache' : d.id.p = d.p /\ (~d.stale => d.key = Key(d.id.c, d.p))
    BY <1>0, <2>1 DEF FreshIsStored
  <2> QED
    BY <2>1, <2>2, <2>3, CacheChanges
<1>12. CASE Disable
  BY <1>0, <1>12, CacheChanges DEF Disable, KeysOK, FreshIsStored
<1> QED
  BY <1>1, <1>2, <1>3, <1>4, <1>5, <1>6, <1>7, <1>8, <1>9, <1>10, <1>11, <1>12 DEF KeysNext

(* The rows there already work.                                            *)
LEMMA KeysStart == KeysInit => KeysInv
<1> SUFFICES ASSUME KeysInit PROVE KeysInv
  OBVIOUS
<1>1. Free \in HandSet /\ Free.op = "none"
  BY HandShapes DEF HandSet, Free
<1>2. KeysOK
  BY <1>1, KeysAssumption DEF KeysInit, KeysOK, HandSet
<1> QED
  BY <1>1, <1>2, KeysAssumption
  DEF KeysInit, KeysInv, StoredKeysWork, FreshIsStored, ReadsBelongTogether, KeyMeetsItsRegion,
      CatalogueIsOfItsKey

(* Whatever is stored works, and what was read since the last write of its *)
(* row is what is stored (set_client_key and set_campaign_key,             *)
(* provider_keys.py:419, store.py:237, :265).                              *)
THEOREM KeysInductive == KeysSpec => []KeysInv
<1>1. KeysInv /\ UNCHANGED kvars => KeysInv'
  BY CacheChanges DEF kvars, KeysInv, KeysOK, FreshIsStored
<1> QED
  BY <1>1, KeysStart, KeysStep, PTL DEF KeysSpec

(* A call takes a key to the host that knows it and a catalogue is the one *)
(* of the key it is shown for, whoever writes keys of whatever scope in    *)
(* between, unless the row was written after it had been read              *)
(* (load_provider_regions, store.py:265, routers/provider_keys.py:461).    *)
THEOREM KeysMeetTheirHosts == KeysSpec => []ReadsBelongTogether
  BY KeysInductive, PTL DEF KeysInv

-----------------------------------------------------------------------------
(* Rates (routers/rates.py).                                               *)

(* The rows an import is to write. *)
RowOf(m, i, n) ==
  [key |-> Entry("openrouter", m, Kinds[i]), rate |-> Dollars(RatesOf(m, Listed[n][m])[i])]
RowOfFamily(f) ==
  [key |-> Entry("google", f, "tts_characters"), rate |-> Dollars(PriceOfFamily(f))]

(* SetToSeq names every element of a finite set, and nothing else. *)
LEMMA SetInOrder ==
  ASSUME NEW S, IsFiniteSet(S)
  PROVE  /\ Cardinality(S) \in Nat
         /\ SetToSeq(S) \in [1 .. Cardinality(S) -> S]
         /\ \A x \in S : \E k \in 1 .. Cardinality(S) : SetToSeq(S)[k] = x
<1> DEFINE n == Cardinality(S)
<1>1. n \in Nat /\ ExistsBijection(1 .. n, S)
  BY FS_CardinalityType
<1>2. PICK b \in [1 .. n -> S] : IsInjective(b)
  BY <1>1 DEF ExistsBijection, Bijection, Injection, IsInjective
<1>3. SetToSeq(S) \in [1 .. n -> S] /\ IsInjective(SetToSeq(S))
  BY <1>2 DEF SetToSeq
<1>4. SetToSeq(S) \in Injection(1 .. n, S)
  BY <1>3 DEF Injection, IsInjective
<1>5. IsFiniteSet(1 .. n) /\ Cardinality(1 .. n) = n
  BY <1>1, FS_Interval
<1> DEFINE s == SetToSeq(S)
<1> HIDE DEF n, s
<1>6. s \in Surjection(1 .. n, S)
  BY <1>4, <1>5, FS_Injection DEF n, s
<1> QED
  BY <1>1, <1>3, <1>6 DEF n, s, Surjection

RowsIn(S, n) == {RowOf(m, i, n) : m \in S, i \in 1 .. 3}

LEMMA RowsSay ==
  ASSUME NEW S, IsFiniteSet(S), NEW n
  PROVE  /\ Cardinality(S) \in Nat
         /\ RowsOfModels(S, n) \in [1 .. 3 * Cardinality(S) -> RowsIn(S, n)]
         /\ \A m \in S, i \in 1 .. 3 : \E k \in 1 .. 3 * Cardinality(S) :
              RowsOfModels(S, n)[k] = RowOf(m, i, n)
<1> DEFINE c == Cardinality(S)
           s == SetToSeq(S)
           rows == RowsOfModels(S, n)
           M(k) == (k + 2) \div 3
           I(k) == 1 + ((k - 1) % 3)
<1>1. c \in Nat /\ s \in [1 .. c -> S] /\ \A x \in S : \E k \in 1 .. c : s[k] = x
  BY SetInOrder
<1>2. rows = [k \in 1 .. 3 * c |-> RowOf(s[M(k)], I(k), n)]
  BY DEF RowsOfModels, RowOf
<1>3. \A k \in 1 .. 3 * c : M(k) \in 1 .. c /\ I(k) \in 1 .. 3
  <2> HIDE DEF c
  <2> QED
    BY <1>1
<1>4. \A j \in 1 .. c, i \in 1 .. 3 :
        LET k == 3 * (j - 1) + i IN k \in 1 .. 3 * c /\ M(k) = j /\ I(k) = i
  <2> HIDE DEF c
  <2> QED
    BY <1>1
<1> HIDE DEF c, s, rows, M, I
<1>5. \A k \in 1 .. 3 * c : rows[k] = RowOf(s[M(k)], I(k), n)
  BY <1>2
<1>6. \A k \in 1 .. 3 * c : \E m \in S, i \in 1 .. 3 : rows[k] = RowOf(m, i, n)
  <2> TAKE k \in 1 .. 3 * c
  <2>1. s[M(k)] \in S /\ I(k) \in 1 .. 3
    BY <1>1, <1>3
  <2> QED
    BY <1>5, <2>1
<1>7. \A m \in S, i \in 1 .. 3 : \E k \in 1 .. 3 * c : rows[k] = RowOf(m, i, n)
  <2> TAKE m \in S, i \in 1 .. 3
  <2>1. PICK j \in 1 .. c : s[j] = m
    BY <1>1
  <2>2. PICK k \in 1 .. 3 * c : M(k) = j /\ I(k) = i
    BY <1>4
  <2> QED
    BY <1>5, <2>1, <2>2
<1>8. rows \in [1 .. 3 * c -> RowsIn(S, n)]
  BY <1>2, <1>5, <1>6 DEF RowsIn
<1> QED
  BY <1>1, <1>7, <1>8 DEF c, rows
LEMMA FamiliesSay ==
  /\ IsFiniteSet(Families) /\ Cardinality(Families) \in Nat
  /\ RowsOfFamilies \in [1 .. Cardinality(Families) -> {RowOfFamily(f) : f \in Families}]
  /\ \A f \in Families : \E k \in 1 .. Cardinality(Families) : RowsOfFamilies[k] = RowOfFamily(f)
<1> DEFINE K == {k \in DOMAIN Skus : Skus[k].price > 0}
           g == [k \in K |-> Skus[k].family]
<1>1. IsFiniteSet(DOMAIN Skus)
  <2>1. DOMAIN Skus = 1 .. Len(Skus) /\ Len(Skus) \in Nat
    BY RatesAssumption
  <2> QED
    BY <2>1, FS_Interval
<1>2. IsFiniteSet(K)
  BY <1>1, FS_Subset
<1>3. g \in Surjection(K, Families)
  BY DEF Families, Surjection
<1>4. IsFiniteSet(Families)
  <2> HIDE DEF g, K
  <2> QED
    BY <1>2, <1>3, FS_Surjection
<1> DEFINE c == Cardinality(Families)
           s == SetToSeq(Families)
<1>5. c \in Nat /\ s \in [1 .. c -> Families] /\ \A f \in Families : \E k \in 1 .. c : s[k] = f
  BY <1>4, SetInOrder
<1>6. RowsOfFamilies = [k \in 1 .. c |-> RowOfFamily(s[k])]
  BY DEF RowsOfFamilies, RowOfFamily
<1> HIDE DEF c, s
<1>7. \A k \in 1 .. c : RowsOfFamilies[k] = RowOfFamily(s[k])
  BY <1>6
<1>8. RowsOfFamilies \in [1 .. c -> {RowOfFamily(f) : f \in Families}]
  BY <1>5, <1>6
<1>9. \A f \in Families : \E k \in 1 .. c : RowsOfFamilies[k] = RowOfFamily(f)
  BY <1>5, <1>7
<1> QED
  BY <1>4, <1>5, <1>8, <1>9 DEF c

(* A family that is imported has a tier with a price, and the first such   *)
(* tier is its price (_fetch_google_tts_prices, rates.py:377-385).         *)
LEMMA FamilyHasItsPrice ==
  ASSUME NEW f \in Families
  PROVE  \E k \in Tiers(f) : PriceOfFamily(f) = Skus[k].price
<1>1. PICK k \in DOMAIN Skus : Skus[k].price > 0 /\ Skus[k].family = f
  BY DEF Families
<1>2. Tiers(f) \in SUBSET Nat /\ Tiers(f) # {}
  <2>1. DOMAIN Skus \in SUBSET Nat
    BY RatesAssumption
  <2> QED
    BY <1>1, <2>1 DEF Tiers
<1>3. \E k1 \in Tiers(f) : \A j \in Tiers(f) : k1 <= j
  BY <1>2, EarliestDay
<1> QED
  BY <1>3 DEF PriceOfFamily

RateKeys ==
  DOMAIN Quoted
    \cup {Entry("openrouter", m, Kinds[i]) : m \in Catalogued, i \in 1 .. 3}
    \cup {Entry("google", f, "tts_characters") : f \in Families}
Imports ==
  [op : {"none", "openrouter", "google"}, at : {"idle", "fetch", "write"},
   wanted : SUBSET Catalogued, rows : Seq([key : RateKeys, rate : RateValues]), done : Nat,
   revision : 0 .. MaxRevisions, theirs : SUBSET RateKeys]

RatesTypeOK ==
  /\ IsFiniteSet(DOMAIN sheet) /\ DOMAIN sheet \subseteq RateKeys
  /\ sheet \in [DOMAIN sheet -> RateValues]
  /\ desk \in [Clerks -> Imports]
  /\ chosen \in Catalogued /\ ran \subseteq Catalogued
  /\ revision \in 0 .. MaxRevisions /\ fx \in BOOLEAN

(* The rows of an import are those of what it found, and of those it has   *)
(* written the sheet shows each that nobody else has been at.              *)
RowsAreTheirs ==
  \A p \in Clerks : LET d == desk[p] IN
    /\ d.at = "fetch" => d.op # "none" /\ d.done = 0
    /\ d.at = "write" =>
      /\ d.op # "none" /\ d.done <= Len(d.rows)
      /\ d.rows = RowsFound(d.op, d.wanted, d.revision)
WhatIsWrittenShows ==
  \A p \in Clerks : LET d == desk[p] IN
    d.at = "write" => \A i \in 1 .. d.done : Shows(d, d.rows[i].key, {d.rows[i].rate})

RatesInv == RatesTypeOK /\ RowsAreTheirs /\ WhatIsWrittenShows
(* Rows of the sheet, whatever is imported. *)
LEMMA RowTypes ==
  /\ \A n \in 0 .. MaxRevisions : \A m \in DOMAIN Listed[n], i \in 1 .. 3 : m \in Catalogued =>
       /\ RowOf(m, i, n).key \in RateKeys /\ RowOf(m, i, n).rate \in RateValues
       /\ RowOf(m, i, n) \in [key : RateKeys, rate : RateValues]
  /\ \A f \in Families : RowOfFamily(f) \in [key : RateKeys, rate : RateValues]
<1>1. ASSUME NEW n \in 0 .. MaxRevisions, NEW m \in DOMAIN Listed[n], NEW i \in 1 .. 3,
             m \in Catalogued
      PROVE  RowOf(m, i, n).key \in RateKeys /\ RowOf(m, i, n).rate \in RateValues
             /\ RowOf(m, i, n) \in [key : RateKeys, rate : RateValues]
  <2> DEFINE p == Listed[n][m]
  <2>1. p.prompt \in Nat /\ p.completion \in Nat /\ p.cache_read \in Nat
    BY RatesAssumption
  <2> HIDE DEF p
  <2>2. RatesOf(m, p)[i] \in Nat
    <3>1. i = 1 \/ i = 2 \/ i = 3
      OBVIOUS
    <3>2. /\ RatesOf(m, p)[1] = p.prompt /\ RatesOf(m, p)[2] = p.completion
          /\ RatesOf(m, p)[3] \in {p.cache_read, p.prompt}
      BY DEF RatesOf
    <3> QED
      BY <2>1, <3>1, <3>2
  <2>4. Entry("openrouter", m, Kinds[i]) \in RateKeys
    BY <1>1 DEF RateKeys
  <2>5. Dollars(RatesOf(m, p)[i]) \in RateValues
    BY <2>2 DEF Dollars, RateValues, Units
  <2> QED
    BY <2>4, <2>5 DEF RowOf, p
<1>2. ASSUME NEW f \in Families PROVE RowOfFamily(f) \in [key : RateKeys, rate : RateValues]
  <2>1. PICK k \in Tiers(f) : PriceOfFamily(f) = Skus[k].price
    BY FamilyHasItsPrice
  <2>2. PriceOfFamily(f) \in Nat
    BY <2>1, RatesAssumption DEF Tiers
  <2>3. Entry("google", f, "tts_characters") \in RateKeys
    BY DEF RateKeys
  <2>4. Dollars(PriceOfFamily(f)) \in RateValues
    BY <2>2 DEF Dollars, RateValues, Units
  <2> QED
    BY <2>3, <2>4 DEF RowOfFamily
<1> QED
  BY <1>1, <1>2

LEMMA FoundTypes ==
  ASSUME NEW W \in SUBSET Catalogued, NEW n \in 0 .. MaxRevisions
  PROVE  /\ IsFiniteSet(W \cap DOMAIN Listed[n])
         /\ RowsOfModels(W \cap DOMAIN Listed[n], n) \in Seq([key : RateKeys, rate : RateValues])
         /\ RowsOfFamilies \in Seq([key : RateKeys, rate : RateValues])
<1> DEFINE S == W \cap DOMAIN Listed[n]
           R == [key : RateKeys, rate : RateValues]
<1>1. IsFiniteSet(S)
  BY RatesAssumption, FS_Subset
<1> HIDE DEF S
<1>2. RowsOfModels(S, n) \in Seq(R)
  <2> DEFINE c == 3 * Cardinality(S)
  <2>1. c \in Nat /\ RowsOfModels(S, n) \in [1 .. c -> RowsIn(S, n)]
    BY <1>1, RowsSay
  <2>2. RowsIn(S, n) \subseteq R
    BY RowTypes DEF S, RowsIn
  <2> HIDE DEF c, R
  <2>3. RowsOfModels(S, n) \in [1 .. c -> R]
    BY <2>1, <2>2
  <2> QED
    BY <2>1, <2>3
<1>3. RowsOfFamilies \in Seq(R)
  <2> DEFINE c == Cardinality(Families)
  <2>1. c \in Nat /\ RowsOfFamilies \in [1 .. c -> {RowOfFamily(f) : f \in Families}]
    BY FamiliesSay
  <2>2. {RowOfFamily(f) : f \in Families} \subseteq R
    BY RowTypes
  <2> HIDE DEF c, R
  <2>3. RowsOfFamilies \in [1 .. c -> R]
    BY <2>1, <2>2
  <2> QED
    BY <2>1, <2>3
<1> QED
  BY <1>1, <1>2, <1>3 DEF S

(* Rows of one import with one key have one price. *)
LEMMA KeyTellsThePrice ==
  ASSUME RatesTypeOK, RowsAreTheirs, NEW p \in Clerks, desk[p].at = "write",
         NEW i \in 1 .. Len(desk[p].rows), NEW j \in 1 .. Len(desk[p].rows),
         desk[p].rows[i].key = desk[p].rows[j].key
  PROVE  desk[p].rows[i] = desk[p].rows[j]
<1>1. CASE desk[p].op = "google"
  <2>1. desk[p].rows = RowsOfFamilies
    BY <1>1 DEF RowsAreTheirs, RowsFound
  <2>2. Len(RowsOfFamilies) = Cardinality(Families)
    BY FamiliesSay
  <2>3. PICK f \in Families : desk[p].rows[i] = RowOfFamily(f)
    BY <2>1, <2>2, FamiliesSay
  <2>4. PICK g \in Families : desk[p].rows[j] = RowOfFamily(g)
    BY <2>1, <2>2, FamiliesSay
  <2>5. f = g
    BY <2>3, <2>4 DEF RowOfFamily, Entry
  <2> QED
    BY <2>3, <2>4, <2>5
<1>2. CASE desk[p].op # "google"
  <2> DEFINE n == desk[p].revision
             S == desk[p].wanted \cap DOMAIN Listed[n]
  <2>1. desk[p].rows = RowsOfModels(S, n)
    BY <1>2 DEF RowsAreTheirs, RowsFound
  <2>2. desk[p].wanted \in SUBSET Catalogued /\ n \in 0 .. MaxRevisions
    BY DEF RatesTypeOK, Imports
  <2>3. IsFiniteSet(S)
    BY <2>2, FoundTypes
  <2> HIDE DEF S, n
  <2>4. Len(RowsOfModels(S, n)) = 3 * Cardinality(S)
    BY <2>3, RowsSay
  <2>5. desk[p].rows[i] \in RowsIn(S, n) /\ desk[p].rows[j] \in RowsIn(S, n)
    BY <2>1, <2>3, <2>4, RowsSay
  <2>6. PICK m \in S, k \in 1 .. 3 : desk[p].rows[i] = RowOf(m, k, n)
    BY <2>5 DEF RowsIn
  <2>7. PICK m2 \in S, k2 \in 1 .. 3 : desk[p].rows[j] = RowOf(m2, k2, n)
    BY <2>5 DEF RowsIn
  <2>8. m = m2 /\ Kinds[k] = Kinds[k2]
    BY <2>6, <2>7 DEF RowOf, Entry
  <2>9. k = k2
    BY <2>8 DEF Kinds
  <2> QED
    BY <2>6, <2>7, <2>8, <2>9
<1> QED
  BY <1>1, <1>2

LEMMA RatesInvAtFirst == RatesInit => RatesInv
<1> SUFFICES ASSUME RatesInit PROVE RatesInv
  OBVIOUS
<1>1. RatesTypeOK
  <2>1. DOMAIN sheet = {} /\ sheet \in [{} -> RateValues]
    BY DEF RatesInit
  <2>2. NoImport \in Imports
    BY RatesAssumption DEF NoImport, Imports
  <2> QED
    BY <2>1, <2>2, FS_EmptySet, RatesAssumption DEF RatesTypeOK, RatesInit
<1>2. \A p \in Clerks : desk[p].at = "idle"
  BY DEF RatesInit, NoImport
<1> QED
  BY <1>1, <1>2 DEF RatesInv, RowsAreTheirs, WhatIsWrittenShows

(* A row is written or deleted by p: whatever the other imports showed     *)
(* before, they show still, or know that somebody has been at it.          *)
LEMMA OthersKnow ==
  ASSUME RatesInv, NEW p \in Clerks, NEW key \in RateKeys, NEW q \in Clerks, q # p,
         desk'[q] = Overtaken(p, key)[q],
         \A k \in RateKeys \ {key} :
           (k \in DOMAIN sheet <=> k \in DOMAIN sheet') /\ (k \in DOMAIN sheet => sheet'[k] = sheet[k])
  PROVE  /\ desk'[q] \in Imports
         /\ desk'[q].at = desk[q].at /\ desk'[q].op = desk[q].op
         /\ desk'[q].rows = desk[q].rows /\ desk'[q].done = desk[q].done
         /\ desk'[q].wanted = desk[q].wanted /\ desk'[q].revision = desk[q].revision
         /\ desk[q].at = "write" => \A i \in 1 .. desk[q].done :
              Shows(desk[q], desk[q].rows[i].key, {desk[q].rows[i].rate})'
<1>1. desk[q] \in Imports
  BY DEF RatesInv, RatesTypeOK
<1>2. desk'[q] = IF desk[q] # NoImport THEN [desk[q] EXCEPT !.theirs = @ \cup {key}] ELSE desk[q]
  BY DEF Overtaken
<1>3. desk[q].at = "write" => desk'[q].theirs = desk[q].theirs \cup {key}
  BY <1>1, <1>2 DEF Imports, NoImport
<1>4. /\ desk'[q] \in Imports
      /\ desk'[q].at = desk[q].at /\ desk'[q].op = desk[q].op
      /\ desk'[q].rows = desk[q].rows /\ desk'[q].done = desk[q].done
      /\ desk'[q].wanted = desk[q].wanted /\ desk'[q].revision = desk[q].revision
  BY <1>1, <1>2 DEF Imports
<1>5. ASSUME desk[q].at = "write", NEW i \in 1 .. desk[q].done
      PROVE  Shows(desk[q], desk[q].rows[i].key, {desk[q].rows[i].rate})'
  <2> DEFINE k == desk[q].rows[i].key
             r == desk[q].rows[i].rate
  <2>1. Shows(desk[q], k, {r})
    BY <1>5 DEF RatesInv, WhatIsWrittenShows
  <2>2. desk'[q].rows[i].key = k /\ desk'[q].rows[i].rate = r
    BY <1>4
  <2>3. DOMAIN sheet \subseteq RateKeys
    BY DEF RatesInv, RatesTypeOK
  <2> SUFFICES k \in desk'[q].theirs \/ (k \in DOMAIN sheet' /\ sheet'[k] = r)
    BY <2>2 DEF Shows
  <2> HIDE DEF k, r
  <2>4. k \in desk[q].theirs \/ (k \in DOMAIN sheet /\ sheet[k] = r)
    BY <2>1 DEF Shows
  <2> QED
    BY <1>3, <1>5, <2>3, <2>4
<1> QED
  BY <1>4, <1>5

(* A step of p that leaves the sheet and the other imports alone.          *)
LEMMA OwnStep ==
  ASSUME RatesInv, NEW p \in Clerks, NEW d \in Imports, desk' = [desk EXCEPT ![p] = d],
         sheet' = sheet, chosen' = chosen, ran' = ran, revision' = revision, fx' = fx,
         d.at = "fetch" => d.op # "none" /\ d.done = 0,
         d.at = "write" => /\ d.op # "none" /\ d.done = 0
                           /\ d.rows = RowsFound(d.op, d.wanted, d.revision)
  PROVE  RatesInv'
<1>1. desk \in [Clerks -> Imports]
  BY DEF RatesInv, RatesTypeOK
<1>2. RatesTypeOK'
  BY <1>1 DEF RatesInv, RatesTypeOK
<1>3. \A q \in Clerks : desk'[q] = IF q = p THEN d ELSE desk[q]
  BY <1>1
<1>4. Len(d.rows) \in Nat
  BY DEF Imports
<1>5. RowsAreTheirs'
  <2> SUFFICES ASSUME NEW q \in Clerks
      PROVE  /\ desk'[q].at = "fetch" => desk'[q].op # "none" /\ desk'[q].done = 0
             /\ desk'[q].at = "write" =>
                  /\ desk'[q].op # "none" /\ desk'[q].done <= Len(desk'[q].rows)
                  /\ desk'[q].rows = RowsFound(desk'[q].op, desk'[q].wanted, desk'[q].revision)
    BY DEF RowsAreTheirs
  <2>1. CASE q = p
    <3>1. desk'[q] = d
      BY <1>3, <2>1
    <3>2. d.at = "write" => d.done <= Len(d.rows)
      BY <1>4
    <3> QED
      BY <3>1, <3>2, Zenon
  <2>2. CASE q # p
    <3>1. desk'[q] = desk[q]
      BY <1>3, <2>2
    <3> QED
      BY <3>1 DEF RatesInv, RowsAreTheirs
  <2> QED
    BY <2>1, <2>2
<1>6. WhatIsWrittenShows'
  <2> SUFFICES ASSUME NEW q \in Clerks, desk'[q].at = "write", NEW i \in 1 .. desk'[q].done
      PROVE  Shows(desk[q], desk[q].rows[i].key, {desk[q].rows[i].rate})'
    BY DEF WhatIsWrittenShows
  <2>1. q # p
    BY <1>3
  <2>2. desk'[q] = desk[q]
    BY <1>3, <2>1
  <2> QED
    BY <2>2 DEF RatesInv, WhatIsWrittenShows, Shows
<1> QED
  BY <1>2, <1>5, <1>6 DEF RatesInv

(* A row is written or deleted by p, who has no import under way.          *)
LEMMA ByHand ==
  ASSUME RatesInv, NEW p \in Clerks, NEW key \in RateKeys, desk[p] = NoImport,
         desk' = Overtaken(p, key), chosen' \in Catalogued, ran' = ran,
         revision' = revision, fx' = fx,
         IsFiniteSet(DOMAIN sheet'), DOMAIN sheet' \subseteq RateKeys,
         sheet' \in [DOMAIN sheet' -> RateValues],
         \A k \in RateKeys \ {key} :
           (k \in DOMAIN sheet <=> k \in DOMAIN sheet') /\ (k \in DOMAIN sheet => sheet'[k] = sheet[k])
  PROVE  RatesInv'
<1>1. desk'[p] = NoImport
  BY DEF Overtaken
<1>2. NoImport \in Imports
  BY RatesAssumption DEF NoImport, Imports
<1>3. \A q \in Clerks : q # p =>
        /\ desk'[q] \in Imports
        /\ desk'[q].at = desk[q].at /\ desk'[q].op = desk[q].op
        /\ desk'[q].rows = desk[q].rows /\ desk'[q].done = desk[q].done
        /\ desk'[q].wanted = desk[q].wanted /\ desk'[q].revision = desk[q].revision
        /\ desk[q].at = "write" => \A i \in 1 .. desk[q].done :
             Shows(desk[q], desk[q].rows[i].key, {desk[q].rows[i].rate})'
  BY OthersKnow
<1>4. desk' \in [Clerks -> Imports]
  BY <1>1, <1>2, <1>3 DEF Overtaken
<1>5. RatesTypeOK'
  BY <1>4 DEF RatesInv, RatesTypeOK
<1>6. NoImport.at = "idle"
  BY DEF NoImport
<1>7. RowsAreTheirs'
  <2> SUFFICES ASSUME NEW q \in Clerks, q # p
      PROVE  /\ desk'[q].at = "fetch" => desk'[q].op # "none" /\ desk'[q].done = 0
             /\ desk'[q].at = "write" =>
                  /\ desk'[q].op # "none" /\ desk'[q].done <= Len(desk'[q].rows)
                  /\ desk'[q].rows = RowsFound(desk'[q].op, desk'[q].wanted, desk'[q].revision)
    BY <1>1, <1>6 DEF RowsAreTheirs
  <2> QED
    BY <1>3 DEF RatesInv, RowsAreTheirs
<1>8. WhatIsWrittenShows'
  <2> SUFFICES ASSUME NEW q \in Clerks, desk'[q].at = "write", NEW i \in 1 .. desk'[q].done
      PROVE  Shows(desk[q], desk[q].rows[i].key, {desk[q].rows[i].rate})'
    BY DEF WhatIsWrittenShows
  <2>1. q # p
    BY <1>1, <1>6
  <2> QED
    BY <1>3, <2>1
<1> QED
  BY <1>5, <1>7, <1>8 DEF RatesInv

LEMMA WithRateIs ==
  ASSUME RatesTypeOK, NEW key \in RateKeys, NEW rate \in RateValues, sheet' = WithRate(key, rate)
  PROVE  /\ DOMAIN sheet' = DOMAIN sheet \cup {key}
         /\ sheet'[key] = rate
         /\ \A k \in RateKeys \ {key} :
              (k \in DOMAIN sheet <=> k \in DOMAIN sheet') /\ (k \in DOMAIN sheet => sheet'[k] = sheet[k])
         /\ IsFiniteSet(DOMAIN sheet') /\ DOMAIN sheet' \subseteq RateKeys
         /\ sheet' \in [DOMAIN sheet' -> RateValues]
<1>1. sheet' = [k \in DOMAIN sheet \cup {key} |-> IF k = key THEN rate ELSE sheet[k]]
  BY DEF WithRate
<1>2. IsFiniteSet(DOMAIN sheet \cup {key})
  BY FS_AddElement DEF RatesTypeOK
<1> QED
  BY <1>1, <1>2 DEF RatesTypeOK

LEMMA WriteRateStep ==
  ASSUME RatesInv, NEW p \in Clerks, WriteRate(p)
  PROVE  RatesInv'
<1> DEFINE R == [key : RateKeys, rate : RateValues]
           d == desk[p]
           row == d.rows[d.done + 1]
           e == [d EXCEPT !.done = @ + 1, !.theirs = @ \ {row.key}]
<1>1. d \in Imports /\ d.at = "write" /\ d.done < Len(d.rows)
  BY DEF WriteRate, RatesInv, RatesTypeOK
<1>0. d.rows \in Seq(R) /\ d.done \in Nat /\ d.theirs \in SUBSET RateKeys
  <2> HIDE DEF d
  <2> QED
    BY <1>1 DEF Imports
<1>2. row \in R /\ d.done + 1 \in 1 .. Len(d.rows)
  <2> HIDE DEF d, R
  <2>1. d.done + 1 \in 1 .. Len(d.rows)
    BY <1>0, <1>1
  <2> QED
    BY <1>0, <2>1
<1>3. sheet' = WithRate(row.key, row.rate)
      /\ desk' = [Overtaken(p, row.key) EXCEPT ![p].done = @ + 1, ![p].theirs = @ \ {row.key}]
      /\ chosen' = chosen /\ ran' = ran /\ revision' = revision /\ fx' = fx
  BY DEF WriteRate
<1>4. row.key \in RateKeys /\ row.rate \in RateValues
  BY <1>2
<1>5. /\ DOMAIN sheet' = DOMAIN sheet \cup {row.key}
      /\ sheet'[row.key] = row.rate
      /\ \A k \in RateKeys \ {row.key} :
           (k \in DOMAIN sheet <=> k \in DOMAIN sheet') /\ (k \in DOMAIN sheet => sheet'[k] = sheet[k])
      /\ IsFiniteSet(DOMAIN sheet') /\ DOMAIN sheet' \subseteq RateKeys
      /\ sheet' \in [DOMAIN sheet' -> RateValues]
  <2> HIDE DEF row
  <2> QED
    BY <1>3, <1>4, WithRateIs DEF RatesInv
<1>6. desk'[p] = e
  BY <1>3 DEF Overtaken
<1>7. e \in Imports /\ e.at = "write" /\ e.op = d.op /\ e.rows = d.rows /\ e.wanted = d.wanted
      /\ e.revision = d.revision /\ e.done = d.done + 1 /\ e.theirs = d.theirs \ {row.key}
  <2>1. e = [d EXCEPT !.done = d.done + 1, !.theirs = d.theirs \ {row.key}]
    OBVIOUS
  <2>2. d.done + 1 \in Nat /\ d.theirs \ {row.key} \in SUBSET RateKeys
    BY <1>0
  <2> DEFINE n == d.done + 1
             T == d.theirs \ {row.key}
  <2>3. d \in Imports /\ n \in Nat /\ T \in SUBSET RateKeys /\ e = [d EXCEPT !.done = n, !.theirs = T]
    BY <1>1, <2>1, <2>2
  <2>4. d.at = "write"
    BY <1>1
  <2> HIDE DEF row, d, e, n, T
  <2>5. /\ e \in Imports /\ e.at = d.at /\ e.op = d.op /\ e.rows = d.rows
        /\ e.wanted = d.wanted /\ e.revision = d.revision /\ e.done = n /\ e.theirs = T
    BY <2>3 DEF Imports
  <2> QED
    BY <2>4, <2>5 DEF n, T
<1>8. \A q \in Clerks : q # p => desk'[q] = Overtaken(p, row.key)[q]
  <2> HIDE DEF row
  <2> QED
    BY <1>3 DEF Overtaken
<1> HIDE DEF row, e
<1>9. \A q \in Clerks : q # p =>
        /\ desk'[q] \in Imports
        /\ desk'[q].at = desk[q].at /\ desk'[q].op = desk[q].op
        /\ desk'[q].rows = desk[q].rows /\ desk'[q].done = desk[q].done
        /\ desk'[q].wanted = desk[q].wanted /\ desk'[q].revision = desk[q].revision
        /\ desk[q].at = "write" => \A i \in 1 .. desk[q].done :
             Shows(desk[q], desk[q].rows[i].key, {desk[q].rows[i].rate})'
  BY <1>4, <1>5, <1>8, OthersKnow
<1>10. desk' \in [Clerks -> Imports]
  <2>1. \A q \in Clerks : desk'[q] \in Imports
    BY <1>6, <1>7, <1>9
  <2>2. desk' = [q \in Clerks |-> desk'[q]]
    BY <1>3 DEF Overtaken
  <2> QED
    BY <2>1, <2>2
<1>11. RatesTypeOK'
  BY <1>3, <1>5, <1>10 DEF RatesInv, RatesTypeOK
<1>12. RowsAreTheirs'
  <2> SUFFICES ASSUME NEW q \in Clerks
      PROVE  /\ desk'[q].at = "fetch" => desk'[q].op # "none" /\ desk'[q].done = 0
             /\ desk'[q].at = "write" =>
                  /\ desk'[q].op # "none" /\ desk'[q].done <= Len(desk'[q].rows)
                  /\ desk'[q].rows = RowsFound(desk'[q].op, desk'[q].wanted, desk'[q].revision)
    BY DEF RowsAreTheirs
  <2>1. CASE q = p
    <3>1. d.op # "none" /\ d.rows = RowsFound(d.op, d.wanted, d.revision)
      BY <1>1 DEF RatesInv, RowsAreTheirs
    <3>2. e.done <= Len(e.rows)
      BY <1>2, <1>7
    <3> QED
      BY <1>6, <1>7, <2>1, <3>1, <3>2
  <2>2. CASE q # p
    BY <1>9, <2>2 DEF RatesInv, RowsAreTheirs
  <2> QED
    BY <2>1, <2>2
<1>13. WhatIsWrittenShows'
  <2> SUFFICES ASSUME NEW q \in Clerks, desk'[q].at = "write", NEW i \in 1 .. desk'[q].done
      PROVE  Shows(desk[q], desk[q].rows[i].key, {desk[q].rows[i].rate})'
    BY DEF WhatIsWrittenShows
  <2>1. CASE q # p
    BY <1>9, <2>1
  <2>2. CASE q = p
    <3> DEFINE r == d.rows[i]
    <3>1. i \in 1 .. d.done + 1 /\ d.done \in Nat
      BY <1>1, <1>6, <1>7, <2>2 DEF Imports
    <3>2. desk'[q].rows[i] = r /\ desk'[q].theirs = d.theirs \ {row.key}
      BY <1>6, <1>7, <2>2
    <3>3. r \in R /\ i \in 1 .. Len(d.rows)
      <4> HIDE DEF d, R
      <4>1. i \in 1 .. Len(d.rows)
        BY <1>2, <3>1
      <4> QED
        BY <1>0, <4>1
    <3>4. r.key = row.key => r = row
      <4>1. ASSUME r.key = row.key PROVE desk[p].rows[i] = desk[p].rows[d.done + 1]
        <5>1. RatesTypeOK /\ RowsAreTheirs
          BY DEF RatesInv
        <5>2. desk[p].rows[i].key = desk[p].rows[d.done + 1].key
          BY <4>1 DEF row
        <5> QED
          BY <1>1, <1>2, <3>3, <5>1, <5>2, KeyTellsThePrice
      <4> QED
        BY <4>1 DEF row
    <3>5. r.key \in desk'[q].theirs \/ (r.key \in DOMAIN sheet' /\ sheet'[r.key] = r.rate)
      <4>1. CASE r.key = row.key
        BY <1>5, <3>4, <4>1
      <4>2. CASE r.key # row.key
        <5>1. i \in 1 .. d.done
          BY <3>1, <4>2 DEF row
        <5>2. Shows(d, r.key, {r.rate})
          BY <1>1, <5>1 DEF RatesInv, WhatIsWrittenShows
        <5>3. r.key \in d.theirs \/ (r.key \in DOMAIN sheet /\ sheet[r.key] = r.rate)
          BY <5>2 DEF Shows
        <5>4. r.key \in RateKeys \ {row.key}
          BY <3>3, <4>2
        <5> HIDE DEF r, d
        <5> QED
          BY <1>5, <3>2, <4>2, <5>3, <5>4
      <4> QED
        BY <4>1, <4>2
    <3> QED
      BY <3>2, <3>5 DEF Shows
  <2> QED
    BY <2>1, <2>2
<1> QED
  BY <1>11, <1>12, <1>13 DEF RatesInv

LEMMA FetchPricesStep ==
  ASSUME RatesInv, NEW p \in Clerks, FetchPrices(p)
  PROVE  RatesInv'
<1>1. desk[p] \in Imports /\ desk[p].at = "fetch" /\ desk[p].op # "none" /\ desk[p].done = 0
  BY DEF FetchPrices, RatesInv, RatesTypeOK, RowsAreTheirs
<1>2. sheet' = sheet /\ chosen' = chosen /\ ran' = ran /\ revision' = revision /\ fx' = fx
  BY DEF FetchPrices
<1>3. CASE desk' = [desk EXCEPT ![p] = NoImport]
  <2>1. NoImport \in Imports /\ NoImport.at = "idle"
    BY RatesAssumption DEF NoImport, Imports
  <2> QED
    BY <1>2, <1>3, <2>1, OwnStep
<1>4. CASE desk' = [desk EXCEPT ![p].at = "write", ![p].revision = revision,
             ![p].rows = RowsFound(desk[p].op, desk[p].wanted, revision)]
  <2> DEFINE rows == RowsFound(desk[p].op, desk[p].wanted, revision)
             d == desk[p]
             e == [d EXCEPT !.at = "write", !.revision = revision, !.rows = rows]
  <2>1. desk' = [desk EXCEPT ![p] = e]
    BY <1>4
  <2>2. revision \in 0 .. MaxRevisions
    BY DEF RatesInv, RatesTypeOK
  <2>3. d.wanted \in SUBSET Catalogued
    BY <1>1 DEF Imports
  <2>4. rows \in Seq([key : RateKeys, rate : RateValues])
    BY <2>2, <2>3, FoundTypes DEF RowsFound
  <2>5. d \in Imports /\ d.op # "none" /\ d.done = 0
    BY <1>1
  <2>6. e \in Imports /\ e.at = "write" /\ e.op = d.op /\ e.done = 0 /\ e.wanted = d.wanted
        /\ e.revision = revision /\ e.rows = rows
    <3> HIDE DEF d, rows
    <3> QED
      BY <2>2, <2>4, <2>5 DEF Imports
  <2>7. e.op # "none" /\ e.rows = RowsFound(e.op, e.wanted, e.revision)
    <3>1. e.op = desk[p].op /\ e.wanted = desk[p].wanted /\ e.revision = revision
      BY <2>6
    <3>2. e.rows = RowsFound(desk[p].op, desk[p].wanted, revision)
      BY <2>6
    <3> HIDE DEF e, d, rows
    <3> QED
      BY <1>1, <3>1, <3>2
  <2> HIDE DEF e, d, rows
  <2> QED
    BY <1>2, <2>1, <2>6, <2>7, OwnStep
<1> QED
  BY <1>3, <1>4 DEF FetchPrices

LEMMA RatesInvStep ==
  ASSUME RatesInv, RatesNext \/ UNCHANGED rvars
  PROVE  RatesInv'
<1>1. CASE UNCHANGED rvars
  BY <1>1 DEF RatesInv, RatesTypeOK, RowsAreTheirs, WhatIsWrittenShows, Shows, rvars
<1>2. CASE SetExchange \/ CallEnds \/ SwitchModel \/ Revise
  <2>1. desk' = desk /\ sheet' = sheet
    BY <1>2 DEF SetExchange, CallEnds, SwitchModel, Revise
  <2>2. chosen' \in Catalogued /\ ran' \subseteq Catalogued /\ fx' \in BOOLEAN
    BY <1>2 DEF SetExchange, CallEnds, SwitchModel, Revise, RatesInv, RatesTypeOK
  <2>3. revision' \in 0 .. MaxRevisions
    BY <1>2, RatesAssumption DEF SetExchange, CallEnds, SwitchModel, Revise, RatesInv, RatesTypeOK
  <2> QED
    BY <2>1, <2>2, <2>3
       DEF RatesInv, RatesTypeOK, RowsAreTheirs, WhatIsWrittenShows, Shows
<1>3. ASSUME NEW p \in Clerks, BeginImport(p) PROVE RatesInv'
  <2>1. PICK op \in {"openrouter", "google"} :
          desk' = [desk EXCEPT ![p] = [NoImport EXCEPT !.op = op, !.at = "fetch",
                                         !.wanted = IF op = "google" THEN {} ELSE InUse]]
    BY <1>3 DEF BeginImport
  <2> DEFINE w == IF op = "google" THEN {} ELSE InUse
             e == [NoImport EXCEPT !.op = op, !.at = "fetch", !.wanted = w]
  <2>2. w \in SUBSET Catalogued
    BY DEF InUse, RatesInv, RatesTypeOK
  <2>3. e \in Imports /\ e.at = "fetch" /\ e.op # "none" /\ e.done = 0
    <3>1. op \in {"openrouter", "google"}
      BY <2>1
    <3>2. NoImport \in Imports /\ NoImport.done = 0
      BY RatesAssumption DEF NoImport, Imports
    <3> HIDE DEF w
    <3> QED
      BY <2>2, <3>1, <3>2 DEF Imports
  <2>4. sheet' = sheet /\ chosen' = chosen /\ ran' = ran /\ revision' = revision /\ fx' = fx
    BY <1>3 DEF BeginImport
  <2> HIDE DEF e
  <2>5. desk' = [desk EXCEPT ![p] = e]
    BY <2>1 DEF e
  <2> QED
    BY <2>3, <2>4, <2>5, OwnStep
<1>4. ASSUME NEW p \in Clerks, EnterRate(p) PROVE RatesInv'
  <2>1. PICK key \in DOMAIN Quoted : \E rate \in Quoted[key] :
          sheet' = WithRate(key, rate) /\ desk' = Overtaken(p, key)
    BY <1>4 DEF EnterRate
  <2>2. PICK rate \in Quoted[key] : sheet' = WithRate(key, rate) /\ desk' = Overtaken(p, key)
    BY <2>1
  <2>3. key \in RateKeys /\ rate \in RateValues
    BY RatesAssumption DEF RateKeys
  <2>4. desk[p] = NoImport /\ chosen' = chosen /\ ran' = ran /\ revision' = revision /\ fx' = fx
    BY <1>4 DEF EnterRate
  <2>5. RatesTypeOK /\ chosen' \in Catalogued
    BY <2>4 DEF RatesInv, RatesTypeOK
  <2>6. /\ \A k \in RateKeys \ {key} :
             (k \in DOMAIN sheet <=> k \in DOMAIN sheet') /\ (k \in DOMAIN sheet => sheet'[k] = sheet[k])
        /\ IsFiniteSet(DOMAIN sheet') /\ DOMAIN sheet' \subseteq RateKeys
        /\ sheet' \in [DOMAIN sheet' -> RateValues]
    BY <2>2, <2>3, <2>5, WithRateIs
  <2> QED
    BY <2>2, <2>3, <2>4, <2>5, <2>6, ByHand
<1>5. ASSUME NEW p \in Clerks, DeleteRate(p) PROVE RatesInv'
  <2>1. PICK key \in DOMAIN sheet : /\ sheet' = [k \in DOMAIN sheet \ {key} |-> sheet[k]]
                                    /\ desk' = Overtaken(p, key)
    BY <1>5 DEF DeleteRate
  <2>2. RatesTypeOK /\ desk[p] = NoImport /\ chosen' = chosen /\ ran' = ran
        /\ revision' = revision /\ fx' = fx
    BY <1>5 DEF DeleteRate, RatesInv
  <2>3. key \in RateKeys /\ chosen' \in Catalogued
    BY <2>2 DEF RatesTypeOK
  <2>4. IsFiniteSet(DOMAIN sheet \ {key})
    BY <2>2, FS_RemoveElement DEF RatesTypeOK
  <2>5. /\ \A k \in RateKeys \ {key} :
             (k \in DOMAIN sheet <=> k \in DOMAIN sheet') /\ (k \in DOMAIN sheet => sheet'[k] = sheet[k])
        /\ IsFiniteSet(DOMAIN sheet') /\ DOMAIN sheet' \subseteq RateKeys
        /\ sheet' \in [DOMAIN sheet' -> RateValues]
    BY <2>1, <2>2, <2>4 DEF RatesTypeOK
  <2> QED
    BY <2>1, <2>2, <2>3, <2>5, ByHand
<1> QED
  BY <1>1, <1>2, <1>3, <1>4, <1>5, FetchPricesStep, WriteRateStep DEF RatesNext

(* What the rows say, once the last of them is written. *)
LEMMA WholeImports == RatesInv => ImportsAreWhole
<1> SUFFICES ASSUME RatesInv, NEW p \in Clerks, desk[p].at = "write",
                    desk[p].done = Len(desk[p].rows)
    PROVE  LET d == desk[p] IN
           /\ d.op = "openrouter" =>
                /\ ModelsOf(d) = d.wanted \cap DOMAIN Listed[d.revision]
                /\ \A m \in ModelsOf(d) : LET costs == Listed[d.revision][m] IN
                     /\ Shows(d, Entry("openrouter", m, "llm_input"), {Dollars(costs.prompt)})
                     /\ Shows(d, Entry("openrouter", m, "llm_output"), {Dollars(costs.completion)})
                     /\ Shows(d, Entry("openrouter", m, "llm_cached"),
                              {Dollars(price) : price \in costs.cache_read .. costs.prompt})
           /\ d.op = "google" => \A f \in Families :
                Shows(d, Entry("google", f, "tts_characters"), {Dollars(Skus[k].price) : k \in Tiers(f)})
  BY DEF ImportsAreWhole
<1> DEFINE d == desk[p]
           n == d.revision
           S == d.wanted \cap DOMAIN Listed[n]
<1>1. d \in Imports
  BY DEF RatesInv, RatesTypeOK
<1>2. d.wanted \in SUBSET Catalogued /\ n \in 0 .. MaxRevisions
  BY <1>1 DEF Imports
<1>3. \A i \in 1 .. Len(d.rows) : Shows(d, d.rows[i].key, {d.rows[i].rate})
  BY DEF RatesInv, WhatIsWrittenShows
<1>4. ASSUME d.op = "openrouter"
      PROVE  /\ ModelsOf(d) = S
             /\ \A m \in S, i \in 1 .. 3 : Shows(d, RowOf(m, i, n).key, {RowOf(m, i, n).rate})
  <2>1. d.rows = RowsOfModels(S, n)
    BY <1>4 DEF RatesInv, RowsAreTheirs, RowsFound
  <2>2. IsFiniteSet(S)
    BY <1>2, FoundTypes
  <2>3. ModelsOf(d) = {d.rows[i].key.model : i \in 1 .. Len(d.rows)}
    BY DEF ModelsOf
  <2> HIDE DEF S, n, d
  <2>4. /\ Len(d.rows) = 3 * Cardinality(S)
        /\ \A k \in 1 .. Len(d.rows) : d.rows[k] \in RowsIn(S, n)
    BY <2>1, <2>2, RowsSay
  <2>5. \A m \in S, i \in 1 .. 3 : \E k \in 1 .. Len(d.rows) : d.rows[k] = RowOf(m, i, n)
    BY <2>1, <2>2, <2>4, RowsSay
  <2>6. \A m, i : RowOf(m, i, n).key.model = m
    BY DEF RowOf, Entry
  <2>7. \A k \in 1 .. Len(d.rows) : d.rows[k].key.model \in S
    BY <2>4, <2>6 DEF RowsIn
  <2>8. \A m \in S : \E k \in 1 .. Len(d.rows) : d.rows[k].key.model = m
    <3> TAKE m \in S
    <3>1. PICK k \in 1 .. Len(d.rows) : d.rows[k] = RowOf(m, 1, n)
      BY <2>5
    <3> QED
      BY <2>6, <3>1
  <2>9. ModelsOf(d) = S
    BY <2>3, <2>7, <2>8
  <2>10. \A m \in S, i \in 1 .. 3 : Shows(d, RowOf(m, i, n).key, {RowOf(m, i, n).rate})
    <3> TAKE m \in S, i \in 1 .. 3
    <3>1. PICK k \in 1 .. Len(d.rows) : d.rows[k] = RowOf(m, i, n)
      BY <2>5
    <3>2. Shows(d, d.rows[k].key, {d.rows[k].rate})
      BY <1>3 DEF d
    <3> QED
      BY <3>1, <3>2
  <2> QED
    BY <2>9, <2>10
<1>5. ASSUME d.op = "openrouter", NEW m \in S
      PROVE  LET costs == Listed[n][m] IN
             /\ Shows(d, Entry("openrouter", m, "llm_input"), {Dollars(costs.prompt)})
             /\ Shows(d, Entry("openrouter", m, "llm_output"), {Dollars(costs.completion)})
             /\ Shows(d, Entry("openrouter", m, "llm_cached"),
                      {Dollars(price) : price \in costs.cache_read .. costs.prompt})
  <2> DEFINE costs == Listed[n][m]
  <2>1. m \in DOMAIN Listed[n]
    OBVIOUS
  <2>2. costs.prompt \in Nat /\ costs.cache_read \in 0 .. costs.prompt
    BY <1>2, <2>1, RatesAssumption
  <2>3. /\ Shows(d, RowOf(m, 1, n).key, {RowOf(m, 1, n).rate})
        /\ Shows(d, RowOf(m, 2, n).key, {RowOf(m, 2, n).rate})
        /\ Shows(d, RowOf(m, 3, n).key, {RowOf(m, 3, n).rate})
    <3>1. \A i \in 1 .. 3 : Shows(d, RowOf(m, i, n).key, {RowOf(m, i, n).rate})
      BY <1>4, <1>5
    <3> HIDE DEF d, n, S
    <3> QED
      BY <3>1
  <2> HIDE DEF S, n, d
  <2>4. /\ RowOf(m, 1, n).key = Entry("openrouter", m, "llm_input")
        /\ RowOf(m, 2, n).key = Entry("openrouter", m, "llm_output")
        /\ RowOf(m, 3, n).key = Entry("openrouter", m, "llm_cached")
    BY DEF RowOf, Kinds
  <2>5. /\ RowOf(m, 1, n).rate = Dollars(costs.prompt)
        /\ RowOf(m, 2, n).rate = Dollars(costs.completion)
        /\ RowOf(m, 3, n).rate = Dollars(IF m \in Cached THEN costs.cache_read ELSE costs.prompt)
    BY DEF RowOf, RatesOf
  <2>6. (IF m \in Cached THEN costs.cache_read ELSE costs.prompt) \in costs.cache_read .. costs.prompt
    <3> HIDE DEF costs
    <3> QED
      BY <2>2
  <2>7. Shows(d, Entry("openrouter", m, "llm_input"), {Dollars(costs.prompt)})
    BY <2>3, <2>4, <2>5
  <2>8. Shows(d, Entry("openrouter", m, "llm_output"), {Dollars(costs.completion)})
    BY <2>3, <2>4, <2>5
  <2>9. Shows(d, Entry("openrouter", m, "llm_cached"), {RowOf(m, 3, n).rate})
    BY <2>3, <2>4
  <2>10. RowOf(m, 3, n).rate \in {Dollars(price) : price \in costs.cache_read .. costs.prompt}
    BY <2>5, <2>6
  <2>11. Shows(d, Entry("openrouter", m, "llm_cached"),
               {Dollars(price) : price \in costs.cache_read .. costs.prompt})
    BY <2>9, <2>10 DEF Shows
  <2> QED
    BY <2>7, <2>8, <2>11
<1>6. ASSUME d.op = "google", NEW f \in Families
      PROVE  Shows(d, Entry("google", f, "tts_characters"), {Dollars(Skus[k].price) : k \in Tiers(f)})
  <2>1. d.rows = RowsOfFamilies
    BY <1>6 DEF RatesInv, RowsAreTheirs, RowsFound
  <2> HIDE DEF d
  <2>2. Len(d.rows) = Cardinality(Families)
    BY <2>1, FamiliesSay
  <2>3. PICK k \in 1 .. Len(d.rows) : d.rows[k] = RowOfFamily(f)
    BY <2>1, <2>2, FamiliesSay
  <2>4. Shows(d, RowOfFamily(f).key, {RowOfFamily(f).rate})
    BY <1>3, <2>3 DEF d
  <2>5. RowOfFamily(f).key = Entry("google", f, "tts_characters")
        /\ RowOfFamily(f).rate = Dollars(PriceOfFamily(f))
    BY DEF RowOfFamily
  <2>6. Dollars(PriceOfFamily(f)) \in {Dollars(Skus[k1].price) : k1 \in Tiers(f)}
    BY FamilyHasItsPrice
  <2> QED
    BY <2>4, <2>5, <2>6 DEF Shows
<1>7. d.op = "openrouter" => ModelsOf(d) = S
  BY <1>4
<1> HIDE DEF S, n
<1> QED
  BY <1>5, <1>6, <1>7 DEF S, n

(* What a price is worth in rupees, and what it is multiplied with. *)
LEMMA FigureTypes ==
  ASSUME RatesTypeOK, NEW key \in DOMAIN sheet
  PROVE  /\ sheet[key] \in RateValues /\ Worth(sheet[key]) \in Nat
         /\ Comparable(key.kind, sheet[key].unit) # NoPrice =>
              Comparable(key.kind, sheet[key].unit) \in Nat \ {0}
         /\ Figure(key) # NoPrice => Figure(key) \in Nat
<1> DEFINE r == sheet[key]
           c == Comparable(key.kind, r.unit)
<1>1. r \in RateValues
  BY DEF RatesTypeOK
<1>2. Worth(r) \in Nat
  <2> HIDE DEF r
  <2>1. r.price \in Nat /\ Dollar \in Nat
    BY <1>1, RatesAssumption DEF RateValues
  <2>2. Dollar * r.price \in Nat
    BY <2>1
  <2> QED
    BY <2>1, <2>2 DEF Worth
<1>3. c # NoPrice => c \in Nat \ {0}
  <2>1. 60 * 60 * PerSecond \in Nat \ {0}
    BY RatesAssumption
  <2> QED
    BY <2>1 DEF Comparable
<1>4. Figure(key) # NoPrice => Figure(key) = c * Worth(r)
  BY DEF Figure, InRupees
<1>5. ASSUME Figure(key) # NoPrice PROVE Figure(key) \in Nat
  <2>1. c # NoPrice
    BY <1>5 DEF Figure, InRupees
  <2>2. c \in Nat
    BY <1>3, <2>1
  <2> HIDE DEF c
  <2>3. c * Worth(r) \in Nat
    BY <1>2, <2>2
  <2> QED
    BY <1>4, <1>5, <2>3
<1> QED
  BY <1>1, <1>2, <1>3, <1>5

(* Who stands no later is not dearer. *)
LEMMA PlacesAreInOrder ==
  ASSUME RatesTypeOK, NEW a \in DOMAIN sheet, NEW b \in DOMAIN sheet,
         LayerOf(a.kind) = LayerOf(b.kind), Place(a) <= Place(b)
  PROVE  ~Cheaper(b, a)
<1> SUFFICES ASSUME Cheaper(b, a) PROVE FALSE
  OBVIOUS
<1> DEFINE L == Compared(LayerOf(a.kind))
           A == {k \in L : Cheaper(k, a)}
           B == {k \in L : Cheaper(k, b)}
<1>1. L \in SUBSET DOMAIN sheet /\ a \in L /\ b \in L
  BY DEF Compared
<1>2. \A k \in L : Figure(k) # NoPrice => Figure(k) \in Nat
  BY <1>1, FigureTypes
<1>3. \A k \in L : Cheaper(k, b) => Cheaper(k, a)
  BY <1>1, <1>2 DEF Cheaper
<1>4. ~Cheaper(b, b)
  BY <1>1, <1>2 DEF Cheaper
<1>5. b \in A /\ b \notin B /\ B \in SUBSET A
  BY <1>1, <1>3, <1>4
<1>6. IsFiniteSet(A)
  BY <1>1, FS_Subset DEF RatesTypeOK
<1>7. Place(a) = Cardinality(A) /\ Place(b) = Cardinality(B)
  BY DEF Place
<1> HIDE DEF A, B, L
<1>8. Cardinality(B) <= Cardinality(A) /\ (Cardinality(A) = Cardinality(B) => A = B)
      /\ Cardinality(A) \in Nat /\ Cardinality(B) \in Nat
  BY <1>5, <1>6, FS_Subset, FS_CardinalityType
<1> QED
  BY <1>5, <1>7, <1>8

LEMMA FairComparison == RatesInv => ComparisonIsFair
<1> SUFFICES ASSUME RatesTypeOK, NEW a \in DOMAIN sheet, NEW b \in DOMAIN sheet,
                    LayerOf(a.kind) = LayerOf(b.kind), Place(a) <= Place(b)
    PROVE  /\ Figure(a) = NoPrice => Figure(b) = NoPrice
           /\ a.kind = b.kind /\ sheet[a].unit = sheet[b].unit /\ NoPrice \notin {Figure(a), Figure(b)}
                => Worth(sheet[a]) <= Worth(sheet[b])
  BY DEF RatesInv, ComparisonIsFair
<1>1. ~Cheaper(b, a)
  BY PlacesAreInOrder
<1>2. Figure(a) = NoPrice => Figure(b) = NoPrice
  BY <1>1 DEF Cheaper
<1>3. ASSUME a.kind = b.kind, sheet[a].unit = sheet[b].unit, NoPrice \notin {Figure(a), Figure(b)}
      PROVE  Worth(sheet[a]) <= Worth(sheet[b])
  <2> DEFINE c == Comparable(a.kind, sheet[a].unit)
             x == Worth(sheet[a])
             y == Worth(sheet[b])
  <2>1. c # NoPrice /\ Figure(a) = c * x /\ Figure(b) = c * y
    BY <1>3 DEF Figure, InRupees
  <2>2. c \in Nat \ {0} /\ x \in Nat /\ y \in Nat /\ Figure(a) \in Nat /\ Figure(b) \in Nat
    BY <1>3, <2>1, FigureTypes
  <2>3. ~(Figure(b) < Figure(a))
    BY <1>1, <1>3 DEF Cheaper
  <2>4. ~(c * y < c * x)
    BY <2>1, <2>3
  <2> HIDE DEF c, x, y
  <2>5. y < x => c * y < c * x
    BY <2>2
  <2> QED
    BY <2>2, <2>4, <2>5 DEF x, y
<1> QED
  BY <1>2, <1>3

(* For any clerks, catalogues and prices, an import's rows are those of    *)
(* the catalogue it read, and each that it has written is in the table of  *)
(* prices or was touched by somebody since, as RatesInv says               *)
(* (import_openrouter_rates, import_google_rates, routers/rates.py).       *)
THEOREM RatesInductive == RatesSpec => []RatesInv
<1>1. RatesInit => RatesInv
  BY RatesInvAtFirst
<1>2. RatesInv /\ [RatesNext]_rvars => RatesInv'
  BY RatesInvStep
<1> QED
  BY <1>1, <1>2, PTL DEF RatesSpec

(* An import that has ended is whole and charges no cached read for less   *)
(* than it costs, and the page puts no dearer price before a cheaper one   *)
(* of its kind, in every reachable state (routers/rates.py, the import and *)
(* the comparison).                                                        *)
THEOREM PricesHold == RatesSpec => []PricesAreKept
<1>1. RatesInv => PricesAreKept
  BY WholeImports, FairComparison DEF PricesAreKept
<1> QED
  BY <1>1, RatesInductive, PTL

-----------------------------------------------------------------------------
(* What the parts that are asked compute.                                  *)

(* For every key, whatever lies behind it, wherever it is entered and      *)
(* whatever the weather: only a key of the provider, and of the region it  *)
(* was entered for, is kept, and one that is and can be checked is         *)
(* (validate, provider_keys.py:419).                                       *)
THEOREM KeysAreJudged ==
  ASSUME NEW p \in Checked, NEW account \in Behind, NEW region \in Entered,
         NEW first \in Weathers, NEW then \in Weathers
  PROVE  OnlyKeysAreKept(p, account, region, first, then, Verdict(p, account, region, first, then))
<1> DEFINE code == StatusOf(p, account, region, first)
<1>0. /\ account.known \in BOOLEAN /\ account.funded \in BOOLEAN /\ account.granted \in BOOLEAN
      /\ account.home \in {"us", "in"}
  BY DEF Behind
<1> USE <1>0 DEF Checked, Entered, Weathers, OnlyKeysAreKept, Verdict, StatusOf, SonioxHost,
            Rejected, Accepted, Broke
<1>1. CASE p = "openai"
  BY <1>1 DEF CheckOpenai, CanEmbed, EmbedStatus, OutOfCredit, Refusal
<1>2. CASE p = "openrouter"
  BY <1>2 DEF CheckOpenrouter, OutOfCredit, Refusal
<1>3. CASE p = "gemini"
  BY <1>3 DEF CheckGemini, OutOfCredit, Refusal
<1>4. CASE p = "google"
  BY <1>4 DEF CheckGoogle, OutOfCredit, Refusal
<1>5. CASE p = "soniox"
  BY <1>5 DEF CheckPaid, OutOfCredit, Refusal
<1>6. CASE p = "sarvam"
  BY <1>6 DEF CheckPaid, OutOfCredit, Refusal
<1>7. CASE p = "raya"
  BY <1>7 DEF CheckPaid, OutOfCredit, Refusal
<1>8. p \in {"openai", "openrouter", "gemini", "google", "soniox", "sarvam", "raya"}
  OBVIOUS
<1> HIDE <1>0 DEF Checked, Entered, Weathers, OnlyKeysAreKept, Verdict, StatusOf, SonioxHost,
                  Rejected, Accepted, Broke
<1> QED
  BY <1>1, <1>2, <1>3, <1>4, <1>5, <1>6, <1>7, <1>8

(* For every tool, whatever was dictated to it and whatever its endpoint   *)
(* answers, who got no answer is told so, in the campaign's words if it    *)
(* has any, the lookup is on the page of gaps, and no answer is kept that  *)
(* was not to be (run, tools.py:266).                                      *)
THEOREM LookupsAreAnswered ==
  ASSUME NEW tool, tool.digits \in BOOLEAN, tool.keep \in BOOLEAN, NEW value, NEW call,
         NEW api, api.outcome \in Outcomes, api.body \in Bodies
  PROVE  LookupIsAnswered(tool, value, api, call, Run(tool, value, api, call))
<1> DEFINE sent == Normalise(tool, value)
           reply == Reply(api, sent)
           run == Run(tool, value, api, call)
<1>1. reply.status \in Outcomes /\ reply.body \in Bodies
  BY DEF Reply, Outcomes, Bodies
<1>2. /\ run.request = Request(tool, sent, call)
      /\ (run.gap <=> Failed(reply)) /\ (run.failed <=> Failed(reply))
      /\ Failed(reply) => run.told = <<"built-in", "refused">> \/ run.told = WhatToSay(tool, reply.status)
      /\ Failed(reply) /\ reply.status # "refused" => run.told = WhatToSay(tool, reply.status)
  BY DEF Run
<1>r. run.record = RecordOf(tool, reply)
  BY DEF Run
<1>e. /\ reply.status \in {"timeout", "refused"} => run.record.error = reply.status
      /\ reply.status \notin {"timeout", "refused"} /\ (tool.keep \/ Failed(reply)) =>
           run.record.response = reply.body
      /\ ~ tool.keep /\ ~ Failed(reply) => run.record.response = Unset
  BY <1>r DEF RecordOf
<1>w. /\ WhatToSay(tool, reply.status)[1] \in {"campaign", "built-in"}
      /\ "default" \in tool.worded => WhatToSay(tool, reply.status)[1] = "campaign"
  BY DEF WhatToSay
<1>3. tool.digits /\ value = "2467.47" => run.request = Run(tool, "246747", api, call).request
  <2>1. tool.digits /\ value = "2467.47" => sent = "246747" /\ Normalise(tool, "246747") = "246747"
    BY DEF Normalise
  <2>2. Run(tool, "246747", api, call).request = Request(tool, Normalise(tool, "246747"), call)
    BY DEF Run
  <2> QED
    BY <2>1, <2>2, <1>2
<1> HIDE DEF sent, reply, run
<1>4. run.failed <=> run.gap
  BY <1>2
<1>5. run.failed => run.told[1] # "body" /\ (run.record.error # Unset \/ run.record.response # Unset)
  <2>1. Failed(reply) => run.told[1] # "body"
    BY <1>2, <1>w
  <2>2. Failed(reply) => run.record.error # Unset \/ run.record.response # Unset
    BY <1>1, <1>e, RequestsAssumption DEF Outcomes
  <2> QED
    BY <2>1, <2>2, <1>2
<1>6. run.failed /\ run.record.error # "refused" /\ tool.worded # {} =>
        run.told[1] = "campaign" \/ "default" \notin tool.worded
  BY <1>2, <1>w, <1>e
<1>7. ~tool.keep /\ ~run.failed => run.record.response = Unset
  BY <1>2, <1>e
<1> QED
  BY <1>3, <1>4, <1>5, <1>6, <1>7 DEF LookupIsAnswered, run

(* And the console's test of the tool shows what the model is told         *)
(* (test_tool, routers/tools.py:252).                                      *)
THEOREM TestsAreTrue ==
  ASSUME NEW tool, tool.digits \in BOOLEAN, NEW value, NEW call,
         NEW api, api.outcome \in Outcomes, api.body \in Bodies
  PROVE  TestIsTrue(tool, value, api, Run(tool, value, api, call), TestTool(tool, value, api))
<1> DEFINE sent == Normalise(tool, value)
           reply == Reply(api, sent)
           got == Redirected(Reply(api, value))
           run == Run(tool, value, api, call)
           test == TestTool(tool, value, api)
<1>1. /\ reply.status \in Outcomes /\ reply.body \in Bodies
      /\ got.status \in Outcomes /\ got.body \in Bodies
  BY DEF Reply, Redirected, Outcomes, Bodies
<1>2. /\ (run.failed <=> Failed(reply)) /\ (test.ok <=> got.status = "200")
      /\ ~ Failed(reply) /\ FieldOf(tool, reply.body) # "" => run.told = <<"body", FieldOf(tool, reply.body)>>
  BY DEF Run, TestTool, Failed
<1>t. got.status = "200" /\ test.shown # Unset /\ test.shown[1] = "body" =>
        FieldOf(tool, got.body) # "" /\ test.shown = <<"body", FieldOf(tool, got.body)>>
  BY DEF TestTool
<1>3. api.outcome # "302" => got = Reply(api, value)
  BY DEF Redirected, Reply, Outcomes
<1>4. value = Normalise(tool, value) => reply = Reply(api, value)
  OBVIOUS
<1>5. (test.ok /\ api.outcome # "302") => (reply.status = "200" /\ reply.body = got.body)
  <2> SUFFICES ASSUME test.ok, api.outcome # "302"  PROVE reply.status = "200" /\ reply.body = got.body
    OBVIOUS
  <2>1. got = Reply(api, value) /\ got.status = "200"
    BY <1>2, <1>3
  <2>2. value = "246747"
    BY <2>1 DEF Reply
  <2>3. sent = value
    BY <2>2 DEF Normalise
  <2> QED
    BY <2>1, <2>3
<1> HIDE DEF sent, reply, got, run, test
<1>6. value = Normalise(tool, value) /\ api.outcome # "302" => (test.ok <=> ~run.failed)
  <2> SUFFICES ASSUME value = Normalise(tool, value), api.outcome # "302"
               PROVE  test.ok <=> ~run.failed
    OBVIOUS
  <2>1. got = reply
    BY <1>3, <1>4
  <2>2. reply.status # "302"
    BY DEF reply, Reply
  <2> QED
    BY <2>1, <2>2, <1>1, <1>2 DEF Failed, Outcomes
<1>7. test.ok /\ api.outcome # "302" /\ test.shown # Unset /\ test.shown[1] = "body" =>
        run.told = test.shown
  BY <1>2, <1>t, <1>5 DEF Failed
<1> QED
  BY <1>6, <1>7 DEF TestIsTrue, run, test

(* What is cut from a ranking: n at most are left, all of them or n, and   *)
(* none that is cut is better.                                             *)
LEMMA FirstsCut ==
  ASSUME NEW ranking, IsFiniteSet(DOMAIN ranking), NEW n \in Nat, NEW cut \in Firsts(ranking, n)
  PROVE  /\ DOMAIN cut \subseteq DOMAIN ranking
         /\ IsFiniteSet(DOMAIN cut) /\ Cardinality(DOMAIN cut) \in Nat
         /\ Cardinality(DOMAIN cut) <= n
         /\ DOMAIN cut = DOMAIN ranking \/ Cardinality(DOMAIN cut) = n
         /\ \A c \in DOMAIN cut : cut[c] = ranking[c]
         /\ \A c \in DOMAIN cut, d \in DOMAIN ranking \ DOMAIN cut : ranking[c] >= ranking[d]
<1> DEFINE all == Cardinality(DOMAIN ranking)
<1>1. all \in Nat
  BY FS_CardinalityType
<1>2. PICK S \in SUBSET DOMAIN ranking :
        /\ Cardinality(S) = IF all < n THEN all ELSE n
        /\ \A c \in S, d \in DOMAIN ranking \ S : ranking[c] >= ranking[d]
        /\ cut = [c \in S |-> ranking[c]]
  BY DEF Firsts, Picked
<1>3. DOMAIN cut = S /\ \A c \in S : cut[c] = ranking[c]
  BY <1>2
<1>4. IsFiniteSet(S) /\ Cardinality(S) \in Nat /\ (Cardinality(S) = all => S = DOMAIN ranking)
  BY <1>2, FS_Subset, FS_CardinalityType
<1> HIDE DEF all
<1>5. Cardinality(S) <= n /\ (Cardinality(S) = all \/ Cardinality(S) = n)
  BY <1>1, <1>2
<1> QED
  BY <1>2, <1>3, <1>4, <1>5

(* Of twice as many as fit, one is always left out.                        *)
LEMMA OneLeftOut ==
  ASSUME NEW n \in Nat, NEW S, IsFiniteSet(S), Cardinality(S) <= n, S # {},
         NEW B, IsFiniteSet(B), Cardinality(B) = 2 * n
  PROVE  B \ S # {}
<1>1. SUFFICES ASSUME B \subseteq S PROVE FALSE
  OBVIOUS
<1>2. Cardinality(B) <= Cardinality(S) /\ Cardinality(S) \in Nat
  BY <1>1, FS_Subset, FS_CardinalityType
<1>3. Cardinality(S) # 0
  BY FS_EmptySet
<1> QED
  BY <1>2, <1>3

(* What one leg says of a chunk is known to the search, or as many others  *)
(* as the leg kept are as near.                                            *)
LEMMA NoneHidden ==
  ASSUME NEW leg, IsFiniteSet(DOMAIN leg), \A c \in DOMAIN leg : leg[c] \in Int,
         NEW n \in Nat, NEW kept \in Firsts(leg, n),
         NEW both, \A c \in DOMAIN both : both[c] \in Int,
         \A c \in DOMAIN kept : c \in DOMAIN both /\ both[c] >= kept[c],
         NEW c \in DOMAIN leg, leg[c] >= MinScore
  PROVE  \/ c \in DOMAIN Reaching(both) /\ Reaching(both)[c] >= leg[c]
         \/ \E B \in SUBSET DOMAIN Reaching(both) :
              /\ IsFiniteSet(B) /\ Cardinality(B) = n
              /\ \A d \in B : Reaching(both)[d] >= leg[c]
<1>1. /\ DOMAIN Reaching(both) = {d \in DOMAIN both : both[d] >= MinScore}
      /\ \A d \in DOMAIN Reaching(both) : Reaching(both)[d] = both[d]
  BY DEF Reaching, Picked
<1>2. MinScore \in Int
  BY RetrievalAssumption
<1>3. /\ DOMAIN kept \subseteq DOMAIN leg /\ IsFiniteSet(DOMAIN kept)
      /\ DOMAIN kept = DOMAIN leg \/ Cardinality(DOMAIN kept) = n
      /\ \A d \in DOMAIN kept : kept[d] = leg[d]
      /\ \A d \in DOMAIN kept, e \in DOMAIN leg \ DOMAIN kept : leg[d] >= leg[e]
  BY FirstsCut
<1>4. CASE c \in DOMAIN kept
  BY <1>1, <1>2, <1>3, <1>4
<1>5. CASE c \notin DOMAIN kept
  <2>1. Cardinality(DOMAIN kept) = n
    BY <1>3, <1>5
  <2>2. \A d \in DOMAIN kept : d \in DOMAIN both /\ both[d] >= leg[c]
    <3> TAKE d \in DOMAIN kept
    <3>1. leg[d] >= leg[c] /\ kept[d] = leg[d] /\ d \in DOMAIN both /\ both[d] >= kept[d]
      BY <1>3, <1>5
    <3>2. leg[d] \in Int /\ leg[c] \in Int /\ both[d] \in Int
      BY <3>1, <1>3
    <3> QED
      BY <3>1, <3>2
  <2>3. \A d \in DOMAIN kept : both[d] >= MinScore
    BY <2>2, <1>2
  <2>4. \A d \in DOMAIN kept : d \in DOMAIN Reaching(both) /\ Reaching(both)[d] >= leg[c]
    BY <2>2, <2>3, <1>1
  <2> QED
    BY <2>1, <2>4, <1>3
<1> QED
  BY <1>4, <1>5

(* The legs of a search, what they make together, and how near a chunk is. *)
Scored(C) == [C -> [vector : Int \cup {Nobody}, lexical : Int]]

LEMMA TheLegs ==
  ASSUME NEW C, IsFiniteSet(C), NEW base \in Scored(C)
  PROVE  /\ DOMAIN VectorLeg(base) = {c \in C : base[c].vector # Nobody}
         /\ DOMAIN LexicalLeg(base) = {c \in C : base[c].lexical > LexFloor}
         /\ IsFiniteSet(DOMAIN VectorLeg(base)) /\ IsFiniteSet(DOMAIN LexicalLeg(base))
         /\ \A c \in DOMAIN VectorLeg(base) : VectorLeg(base)[c] = base[c].vector /\ base[c].vector \in Int
         /\ \A c \in DOMAIN LexicalLeg(base) : LexicalLeg(base)[c] = base[c].lexical /\ base[c].lexical \in Int
<1>1. DOMAIN base = C /\ \A c \in C : base[c].vector \in Int \cup {Nobody} /\ base[c].lexical \in Int
  BY DEF Scored
<1>2. /\ DOMAIN VectorLeg(base) = {c \in C : base[c].vector # Nobody}
      /\ DOMAIN LexicalLeg(base) = {c \in C : base[c].lexical > LexFloor}
      /\ \A c \in DOMAIN VectorLeg(base) : VectorLeg(base)[c] = base[c].vector
      /\ \A c \in DOMAIN LexicalLeg(base) : LexicalLeg(base)[c] = base[c].lexical
  BY <1>1 DEF VectorLeg, LexicalLeg
<1>3. IsFiniteSet(DOMAIN VectorLeg(base)) /\ IsFiniteSet(DOMAIN LexicalLeg(base))
  BY <1>2, FS_Subset
<1> QED
  BY <1>1, <1>2, <1>3

LEMMA MergedScores ==
  ASSUME NEW one, \A c \in DOMAIN one : one[c] \in Int,
         NEW other, \A c \in DOMAIN other : other[c] \in Int
  PROVE  /\ DOMAIN Merged(one, other) = DOMAIN one \cup DOMAIN other
         /\ \A c \in DOMAIN Merged(one, other) :
              /\ Merged(one, other)[c] \in Int
              /\ \/ c \in DOMAIN one /\ Merged(one, other)[c] = one[c]
                 \/ c \in DOMAIN other /\ Merged(one, other)[c] = other[c]
         /\ \A c \in DOMAIN one : Merged(one, other)[c] >= one[c]
         /\ \A c \in DOMAIN other : Merged(one, other)[c] >= other[c]
BY DEF Merged

(* For every base, every limit and every threshold: with the embedder the  *)
(* best chunks are found though each leg is cut (search, kb.py:648).       *)
LEMMA BothLegsFind ==
  ASSUME NEW C, IsFiniteSet(C), NEW base \in Scored(C), NEW hits \in Search(base, TRUE)
  PROVE  /\ \A c \in DOMAIN hits : hits[c] \in Int
         /\ BestIsFound(base, TRUE, hits)
<1> DEFINE V == VectorLeg(base)
           L == LexicalLeg(base)
<1>1. PICK v \in Firsts(V, 2 * TopK), l \in Firsts(L, 2 * TopK) :
        hits \in Firsts(Reaching(Merged(v, l)), TopK)
  BY DEF Search
<1> DEFINE M == Merged(v, l)
           R == Reaching(M)
           S == DOMAIN hits
<1>2. TopK \in Nat /\ MinScore \in Int /\ LexFloor \in Int /\ Nobody \notin Int
  BY RetrievalAssumption
<1>3. /\ DOMAIN V = {c \in C : base[c].vector # Nobody}
      /\ DOMAIN L = {c \in C : base[c].lexical > LexFloor}
      /\ IsFiniteSet(DOMAIN V) /\ IsFiniteSet(DOMAIN L)
      /\ \A c \in DOMAIN V : V[c] = base[c].vector /\ base[c].vector \in Int
      /\ \A c \in DOMAIN L : L[c] = base[c].lexical /\ base[c].lexical \in Int
  BY TheLegs
<1> HIDE DEF V, L
<1>4. /\ DOMAIN v \subseteq DOMAIN V /\ IsFiniteSet(DOMAIN v) /\ \A c \in DOMAIN v : v[c] = V[c]
      /\ DOMAIN l \subseteq DOMAIN L /\ IsFiniteSet(DOMAIN l) /\ \A c \in DOMAIN l : l[c] = L[c]
  <2>1. 2 * TopK \in Nat
    BY <1>2
  <2> QED
    BY <1>1, <1>3, <2>1, FirstsCut
<1>5. /\ DOMAIN M = DOMAIN v \cup DOMAIN l
      /\ \A c \in DOMAIN M : M[c] \in Int /\ ((c \in DOMAIN v /\ M[c] = v[c]) \/ (c \in DOMAIN l /\ M[c] = l[c]))
      /\ \A c \in DOMAIN v : M[c] >= v[c]
      /\ \A c \in DOMAIN l : M[c] >= l[c]
  <2>1. (\A c \in DOMAIN v : v[c] \in Int) /\ (\A c \in DOMAIN l : l[c] \in Int)
    BY <1>3, <1>4
  <2> QED
    BY <2>1, MergedScores
<1>6. DOMAIN R = {c \in DOMAIN M : M[c] >= MinScore} /\ \A c \in DOMAIN R : R[c] = M[c]
  BY DEF Reaching, Picked
<1>7. IsFiniteSet(DOMAIN R)
  <2>1. IsFiniteSet(DOMAIN M)
    BY <1>4, <1>5, FS_Union
  <2> QED
    BY <2>1, <1>6, FS_Subset
<1>8. /\ \A c \in DOMAIN V : V[c] >= MinScore =>
           \/ c \in DOMAIN R /\ R[c] >= V[c]
           \/ \E B \in SUBSET DOMAIN R :
                IsFiniteSet(B) /\ Cardinality(B) = 2 * TopK /\ \A d \in B : R[d] >= V[c]
      /\ \A c \in DOMAIN L : L[c] >= MinScore =>
           \/ c \in DOMAIN R /\ R[c] >= L[c]
           \/ \E B \in SUBSET DOMAIN R :
                IsFiniteSet(B) /\ Cardinality(B) = 2 * TopK /\ \A d \in B : R[d] >= L[c]
  <2> HIDE DEF M
  <2>1. 2 * TopK \in Nat
    BY <1>2
  <2>2. /\ \A c \in DOMAIN M : M[c] \in Int
        /\ \A c \in DOMAIN V : V[c] \in Int
        /\ \A c \in DOMAIN L : L[c] \in Int
        /\ \A c \in DOMAIN v : c \in DOMAIN M /\ M[c] >= v[c]
        /\ \A c \in DOMAIN l : c \in DOMAIN M /\ M[c] >= l[c]
    BY <1>3, <1>5
  <2>3. v \in Firsts(V, 2 * TopK) /\ l \in Firsts(L, 2 * TopK)
    BY <1>1
  <2>4. IsFiniteSet(DOMAIN V) /\ IsFiniteSet(DOMAIN L)
    BY <1>3
  <2>5. ASSUME NEW c \in DOMAIN V, V[c] >= MinScore
        PROVE  \/ c \in DOMAIN R /\ R[c] >= V[c]
               \/ \E B \in SUBSET DOMAIN R :
                    IsFiniteSet(B) /\ Cardinality(B) = 2 * TopK /\ \A d \in B : R[d] >= V[c]
    BY <2>1, <2>2, <2>3, <2>4, <2>5, NoneHidden
  <2>6. ASSUME NEW c \in DOMAIN L, L[c] >= MinScore
        PROVE  \/ c \in DOMAIN R /\ R[c] >= L[c]
               \/ \E B \in SUBSET DOMAIN R :
                    IsFiniteSet(B) /\ Cardinality(B) = 2 * TopK /\ \A d \in B : R[d] >= L[c]
    BY <2>1, <2>2, <2>3, <2>4, <2>6, NoneHidden
  <2> QED
    BY <2>5, <2>6
<1>9. /\ S \subseteq DOMAIN R
      /\ IsFiniteSet(S) /\ Cardinality(S) \in Nat /\ Cardinality(S) <= TopK
      /\ S = DOMAIN R \/ Cardinality(S) = TopK
      /\ \A c \in S : hits[c] = R[c]
      /\ \A c \in S, d \in DOMAIN R \ S : R[c] >= R[d]
  <2> HIDE DEF R
  <2>1. hits \in Firsts(R, TopK)
    BY <1>1 DEF R
  <2> QED
    BY <2>1, <1>2, <1>7, FirstsCut
<1>10. \A c \in DOMAIN R : /\ R[c] \in Int /\ R[c] >= MinScore
                           /\ (c \in DOMAIN V /\ R[c] = V[c]) \/ (c \in DOMAIN L /\ R[c] = L[c])
  BY <1>4, <1>5, <1>6
<1> HIDE DEF M, R
(* A better score of a chunk, or of one that is not a hit, is that of a    *)
(* hit that is as good, or of TopK of them.                                *)
<1>11. ASSUME NEW k \in Int, NEW B \in SUBSET DOMAIN R, IsFiniteSet(B), Cardinality(B) = 2 * TopK,
              \A d \in B : R[d] >= k
       PROVE  /\ Cardinality(S) = TopK
              /\ \A c \in S : hits[c] >= k
  <2>1. CASE S = {}
    <3>1. Cardinality(S) = 0
      BY <2>1, FS_EmptySet
    <3>2. DOMAIN R = {} => B = {} /\ TopK = 0
      BY <1>2, <1>11, FS_EmptySet
    <3> QED
      BY <3>1, <3>2, <2>1, <1>9
  <2>2. CASE S # {}
    <3>1. PICK e \in B : e \notin S
      BY <2>2, <1>2, <1>9, <1>11, OneLeftOut
    <3>2. e \in DOMAIN R \ S /\ R[e] >= k /\ R[e] \in Int
      BY <3>1, <1>10, <1>11
    <3>3. \A c \in S : R[c] \in Int /\ R[c] >= R[e] /\ hits[c] = R[c]
      BY <3>2, <1>9, <1>10
    <3> QED
      BY <3>2, <3>3, <1>9
  <2> QED
    BY <2>1, <2>2
<1>12. ASSUME NEW c \in C, NEW k \in Int, k >= MinScore,
              (c \in DOMAIN V /\ V[c] = k) \/ (c \in DOMAIN L /\ L[c] = k)
       PROVE  /\ c \in S => hits[c] >= k
              /\ c \notin S => Cardinality(S) = TopK /\ \A d \in S : hits[d] >= k
  <2>1. \/ c \in DOMAIN R /\ R[c] >= k
        \/ \E B \in SUBSET DOMAIN R :
             IsFiniteSet(B) /\ Cardinality(B) = 2 * TopK /\ \A d \in B : R[d] >= k
    BY <1>8, <1>12
  <2>2. CASE c \in DOMAIN R /\ R[c] >= k
    <3>1. c \in S => hits[c] >= k
      BY <2>2, <1>9
    <3>2. ASSUME c \notin S PROVE Cardinality(S) = TopK /\ \A d \in S : hits[d] >= k
      <4>1. Cardinality(S) = TopK /\ \A d \in S : hits[d] = R[d] /\ R[d] >= R[c] /\ R[d] \in Int
        BY <2>2, <3>2, <1>9, <1>10
      <4> QED
        BY <4>1, <2>2, <1>10
    <3> QED
      BY <3>1, <3>2
  <2>3. CASE \E B \in SUBSET DOMAIN R :
               IsFiniteSet(B) /\ Cardinality(B) = 2 * TopK /\ \A d \in B : R[d] >= k
    BY <2>3, <1>11
  <2> QED
    BY <2>1, <2>2, <2>3
<1>13. \A c \in C : Nearness(base, TRUE, c) =
         {k \in Int : /\ k >= MinScore
                      /\ (c \in DOMAIN V /\ V[c] = k) \/ (c \in DOMAIN L /\ L[c] = k)
                      /\ c \in DOMAIN V => V[c] <= k
                      /\ c \in DOMAIN L => L[c] <= k}
  BY <1>3 DEF Nearness
<1>14. \A c \in S : c \in C /\ hits[c] \in Int
  BY <1>3, <1>9, <1>10
<1>15. ASSUME NEW c \in S PROVE Nearness(base, TRUE, c) = {hits[c]}
  <2>1. c \in C /\ hits[c] \in Int /\ hits[c] >= MinScore
        /\ ((c \in DOMAIN V /\ V[c] = hits[c]) \/ (c \in DOMAIN L /\ L[c] = hits[c]))
    BY <1>9, <1>10, <1>14
  <2>2. /\ c \in DOMAIN V => V[c] <= hits[c]
        /\ c \in DOMAIN L => L[c] <= hits[c]
    <3>1. ASSUME c \in DOMAIN V, ~ (V[c] <= hits[c]) PROVE FALSE
      <4>1. V[c] \in Int /\ V[c] > hits[c] /\ V[c] >= MinScore
        BY <3>1, <2>1, <1>2, <1>3
      <4>2. hits[c] >= V[c]
        BY <4>1, <2>1, <3>1, <1>12
      <4> QED
        BY <4>1, <4>2, <2>1
    <3>2. ASSUME c \in DOMAIN L, ~ (L[c] <= hits[c]) PROVE FALSE
      <4>1. L[c] \in Int /\ L[c] > hits[c] /\ L[c] >= MinScore
        BY <3>2, <2>1, <1>2, <1>3
      <4>2. hits[c] >= L[c]
        BY <4>1, <2>1, <3>2, <1>12
      <4> QED
        BY <4>1, <4>2, <2>1
    <3> QED
      BY <3>1, <3>2
  <2>3. hits[c] \in Nearness(base, TRUE, c)
    BY <2>1, <2>2, <1>13
  <2>4. ASSUME NEW k \in Nearness(base, TRUE, c) PROVE k = hits[c]
    <3>1. /\ k \in Int
          /\ (c \in DOMAIN V /\ V[c] = k) \/ (c \in DOMAIN L /\ L[c] = k)
          /\ c \in DOMAIN V => V[c] <= k
          /\ c \in DOMAIN L => L[c] <= k
      BY <2>1, <2>4, <1>13
    <3>2. k <= hits[c]
      BY <3>1, <2>2
    <3>3. hits[c] <= k
      BY <3>1, <2>1
    <3> QED
      BY <3>1, <3>2, <3>3, <2>1
  <2> QED
    BY <2>3, <2>4
<1>16. ASSUME NEW c \in C \ S, NEW k \in Nearness(base, TRUE, c)
       PROVE  Cardinality(S) = TopK /\ \A d \in S : hits[d] >= k
  BY <1>12, <1>13
<1>17. DOMAIN base = C
  BY DEF Scored
<1> QED
  BY <1>9, <1>14, <1>15, <1>16, <1>17 DEF BestIsFound

(* Without it they are found by their words alone.                         *)
LEMMA OneLegFinds ==
  ASSUME NEW C, IsFiniteSet(C), NEW base \in Scored(C), NEW hits \in Search(base, FALSE)
  PROVE  /\ \A c \in DOMAIN hits : hits[c] \in Int
         /\ BestIsFound(base, FALSE, hits)
<1> DEFINE L == LexicalLeg(base)
           S == DOMAIN hits
<1>1. PICK l \in Firsts(L, TopK) : hits = Reaching(l)
  BY DEF Search, LexicalOnly
<1>2. TopK \in Nat /\ MinScore \in Int /\ LexFloor \in Int
  BY RetrievalAssumption
<1>3. /\ DOMAIN L = {c \in C : base[c].lexical > LexFloor}
      /\ IsFiniteSet(DOMAIN L)
      /\ \A c \in DOMAIN L : L[c] = base[c].lexical /\ base[c].lexical \in Int
  BY TheLegs
<1> HIDE DEF L
<1>4. /\ DOMAIN l \subseteq DOMAIN L /\ IsFiniteSet(DOMAIN l)
      /\ Cardinality(DOMAIN l) \in Nat /\ Cardinality(DOMAIN l) <= TopK
      /\ DOMAIN l = DOMAIN L \/ Cardinality(DOMAIN l) = TopK
      /\ \A c \in DOMAIN l : l[c] = L[c]
      /\ \A c \in DOMAIN l, d \in DOMAIN L \ DOMAIN l : L[c] >= L[d]
  BY <1>1, <1>2, <1>3, FirstsCut
<1>5. S = {c \in DOMAIN l : l[c] >= MinScore} /\ \A c \in S : hits[c] = l[c]
  BY <1>1 DEF Reaching, Picked
<1>6. IsFiniteSet(S) /\ Cardinality(S) <= TopK
  <2>1. IsFiniteSet(S) /\ Cardinality(S) <= Cardinality(DOMAIN l) /\ Cardinality(S) \in Nat
    BY <1>4, <1>5, FS_Subset, FS_CardinalityType
  <2> QED
    BY <2>1, <1>2, <1>4
<1>7. \A c \in C : Nearness(base, FALSE, c) = {k \in Int : k >= MinScore /\ c \in DOMAIN L /\ L[c] = k}
  BY <1>3 DEF Nearness
<1>8. \A c \in S : c \in C /\ c \in DOMAIN L /\ hits[c] = L[c] /\ hits[c] \in Int /\ hits[c] >= MinScore
  BY <1>3, <1>4, <1>5
<1>9. \A c \in S : Nearness(base, FALSE, c) = {hits[c]}
  BY <1>7, <1>8
<1>10. ASSUME NEW c \in C \ S, NEW k \in Nearness(base, FALSE, c)
       PROVE  Cardinality(S) = TopK /\ \A d \in S : hits[d] >= k
  <2>1. k \in Int /\ k >= MinScore /\ c \in DOMAIN L /\ L[c] = k
    BY <1>7, <1>10
  <2>2. c \notin DOMAIN l
    BY <2>1, <1>4, <1>5
  <2>3. Cardinality(DOMAIN l) = TopK /\ \A d \in DOMAIN l : l[d] >= k /\ l[d] \in Int
    BY <2>1, <2>2, <1>3, <1>4
  <2>4. S = DOMAIN l
    BY <2>1, <2>3, <1>2, <1>5
  <2> QED
    BY <2>3, <2>4, <1>5
<1>11. DOMAIN base = C
  BY DEF Scored
<1> QED
  BY <1>6, <1>8, <1>9, <1>10, <1>11 DEF BestIsFound

(* For every base of finitely many chunks and every threshold, with the    *)
(* embedder and without it, a search finds the best there is (search,      *)
(* kb.py:648).                                                             *)
THEOREM BestAreFound ==
  ASSUME NEW C, IsFiniteSet(C), NEW base \in Scored(C), NEW embedder \in BOOLEAN,
         NEW hits \in Search(base, embedder)
  PROVE  /\ \A c \in DOMAIN hits : hits[c] \in Int
         /\ BestIsFound(base, embedder, hits)
<1>1. CASE embedder = TRUE
  BY <1>1, BothLegsFind
<1>2. CASE embedder = FALSE
  BY <1>2, OneLegFinds
<1> QED
  BY <1>1, <1>2

(* And what is recorded of a turn that searched twice has every hit at its *)
(* best, and is a gap exactly if none of the hits was good                 *)
(* (search_knowledge_base, voice_agent.py:1093).                           *)
THEOREM RecordsSayIt ==
  ASSUME NEW C, IsFiniteSet(C), NEW base \in Scored(C),
         NEW D, IsFiniteSet(D), NEW again \in Scored(D),
         NEW embedder \in BOOLEAN, NEW found \in Searched(base, again, embedder)
  PROVE  BestIsFound(base, embedder, found.first) /\ RecordSays(found)
<1>1. PICK h \in Search(base, embedder), g \in Search(again, embedder) :
        found = [first |-> h, hits |-> Merged(h, g), gap |-> GapOf(h)]
  BY DEF Searched
<1>2. /\ \A c \in DOMAIN h : h[c] \in Int
      /\ \A c \in DOMAIN g : g[c] \in Int
      /\ BestIsFound(base, embedder, h)
  BY BestAreFound
<1>3. \A c \in DOMAIN h : Merged(h, g)[c] >= h[c]
  BY <1>2, MergedScores
<1>4. GapOf(h) = "none" <=> \E c \in DOMAIN h : h[c] >= Weak
  <2>1. Weak \in Int
    BY RetrievalAssumption
  <2> QED
    BY <2>1, <1>2 DEF GapOf
<1> QED
  BY <1>1, <1>2, <1>3, <1>4 DEF RecordSays

(* The rows of questions nothing was found for, each a campaign's and each *)
(* campaign a client's.                                                    *)
Misses(T, C, K, Q) == [tenant : T, campaign : C, kind : K, key : Q, handled : BOOLEAN]
Owned(gaps) ==
  \A i, j \in DOMAIN gaps : gaps[i].campaign = gaps[j].campaign => gaps[i].tenant = gaps[j].tenant

(* A line's group is told by the campaign, the kind and the key.           *)
LEMMA GroupsApart ==
  ASSUME NEW T, NEW C, NEW K, NEW Q, NEW n \in Nat, NEW gaps \in [1 .. n -> Misses(T, C, K, Q)], Owned(gaps)
  PROVE  \A i, j \in 1 .. n :
           /\ GroupOf(gaps[i]) \in [tenant : T, campaign : C, kind : K, key : Q]
           /\ GroupOf(gaps[i]).campaign = gaps[i].campaign
           /\ GroupOf(gaps[i]).kind = gaps[i].kind
           /\ GroupOf(gaps[i]).key = gaps[i].key
           /\ GroupOf(gaps[i]) = GroupOf(gaps[j])
                <=> /\ gaps[i].campaign = gaps[j].campaign
                    /\ gaps[i].kind = gaps[j].kind
                    /\ gaps[i].key = gaps[j].key
<1> TAKE i, j \in 1 .. n
<1>1. gaps[i] \in Misses(T, C, K, Q) /\ gaps[j] \in Misses(T, C, K, Q)
  OBVIOUS
<1>2. gaps[i].campaign = gaps[j].campaign => gaps[i].tenant = gaps[j].tenant
  BY DEF Owned
<1> QED
  BY <1>1, <1>2 DEF GroupOf, Misses

(* The badge is the number of lines (unread_count, gaps.py:88).            *)
LEMMA BadgeCounts ==
  ASSUME NEW T, NEW C, NEW K, NEW Q, NEW n \in Nat, NEW gaps \in [1 .. n -> Misses(T, C, K, Q)], Owned(gaps),
         NEW scope
  PROVE  UnreadCount(gaps, scope) = Cardinality(ListGaps(gaps, scope))
<1> DEFINE U == {i \in Scoped(gaps, scope) : Unread(gaps, i)}
           Line(i) == [group |-> GroupOf(gaps[i]),
                       occurrences |-> Cardinality({j \in Scoped(gaps, scope) : GroupOf(gaps[j]) = GroupOf(gaps[i])})]
           Badge(g) == [g EXCEPT !.tenant = Nobody]
           Listing == {Line(i) : i \in U}
           Badges == {Badge(GroupOf(gaps[i])) : i \in U}
           f == [l \in Listing |-> Badge(l.group)]
<1>1. U \subseteq 1 .. n /\ IsFiniteSet(U)
  <2>1. IsFiniteSet(1 .. n)
    BY FS_Interval
  <2>2. U \subseteq 1 .. n
    BY DEF Scoped
  <2> QED
    BY <2>1, <2>2, FS_Subset
<1>2. ListGaps(gaps, scope) = Listing /\ UnreadCount(gaps, scope) = Cardinality(Badges)
  BY DEF ListGaps, UnreadCount
<1>3. \A i \in U : Line(i).group = GroupOf(gaps[i])
  OBVIOUS
<1>4. \A i, j \in U : GroupOf(gaps[i]) = GroupOf(gaps[j]) => Line(i) = Line(j)
  OBVIOUS
<1>5. IsFiniteSet(Listing)
  <2> DEFINE g == [i \in U |-> Line(i)]
  <2>1. g \in Surjection(U, Listing)
    BY DEF Surjection
  <2> QED
    BY <2>1, <1>1, FS_Surjection
<1> HIDE DEF Line
<1>6. ASSUME NEW i \in U, NEW j \in U, Badge(GroupOf(gaps[i])) = Badge(GroupOf(gaps[j]))
      PROVE  GroupOf(gaps[i]) = GroupOf(gaps[j])
  <2>1. /\ GroupOf(gaps[i]).campaign = GroupOf(gaps[j]).campaign
        /\ GroupOf(gaps[i]).kind = GroupOf(gaps[j]).kind
        /\ GroupOf(gaps[i]).key = GroupOf(gaps[j]).key
    BY <1>6 DEF GroupOf
  <2> QED
    BY <2>1, <1>1, GroupsApart
<1>7. f \in [Listing -> Badges]
  BY <1>3
<1>8. \A a, b \in Listing : f[a] = f[b] => a = b
  BY <1>3, <1>4, <1>6
<1>9. \A t \in Badges : \E s \in Listing : f[s] = t
  BY <1>3
<1>10. f \in Bijection(Listing, Badges)
  BY <1>7, <1>8, <1>9 DEF Bijection, Injection, Surjection, IsInjective
<1> QED
  <2>1. ExistsBijection(Listing, Badges)
    BY <1>10 DEF ExistsBijection
  <2> QED
    BY <2>1, <1>2, <1>5, FS_Bijection

(* For however many rows, whatever clients, campaigns and keys there are:  *)
(* who acknowledges a line of the page takes it off and no other, and the  *)
(* badge counts the lines (list_gaps, gaps.py:56, unread_count, :88,       *)
(* acknowledge, :106).                                                     *)
THEOREM LinesAreHandled ==
  ASSUME NEW T, NEW C, NEW K, NEW Q, NEW n \in Nat, NEW gaps \in [1 .. n -> Misses(T, C, K, Q)], Owned(gaps),
         NEW scope, NEW line \in ListGaps(gaps, scope)
  PROVE  GapsAreHandled(gaps, scope, line, Acknowledged(gaps, scope, line.group))
<1> DEFINE after == Acknowledged(gaps, scope, line.group)
           Alike(rows, i) == {j \in Scoped(rows, scope) : GroupOf(rows[j]) = GroupOf(rows[i])}
           Line(rows, i) == [group |-> GroupOf(rows[i]), occurrences |-> Cardinality(Alike(rows, i))]
           U(rows) == {i \in Scoped(rows, scope) : Unread(rows, i)}
<1> SUFFICES ASSUME line.group.key[Len(line.group.key)] # Space
             PROVE  /\ ListGaps(after, scope) = ListGaps(gaps, scope) \ {line}
                    /\ \A i \in DOMAIN gaps : after[i] # gaps[i] => GroupOf(gaps[i]) = line.group
  BY BadgeCounts DEF GapsAreHandled
<1>1. DOMAIN gaps = 1 .. n /\ Scoped(gaps, scope) \subseteq 1 .. n
  BY DEF Scoped
<1>2. PICK k \in U(gaps) : line = Line(gaps, k)
  BY DEF ListGaps
<1>3. line.group = GroupOf(gaps[k]) /\ k \in 1 .. n
  BY <1>1, <1>2
<1>4. Trimmed(line.group.key) = line.group.key
  BY DEF Trimmed
<1>5. \A i \in 1 .. n :
        after[i] = IF i \in U(gaps) /\ GroupOf(gaps[i]) = line.group
                     THEN [gaps[i] EXCEPT !.handled = TRUE] ELSE gaps[i]
  <2> TAKE i \in 1 .. n
  <2>1. GroupOf(gaps[i]) = line.group <=> /\ gaps[i].campaign = line.group.campaign
                                          /\ gaps[i].kind = line.group.kind
                                          /\ gaps[i].key = Trimmed(line.group.key)
    BY <1>3, <1>4, GroupsApart
  <2> QED
    BY <2>1, <1>1 DEF Acknowledged
<1>6. DOMAIN after = 1 .. n
  BY <1>1 DEF Acknowledged
<1> HIDE DEF after
<1>7. \A i \in 1 .. n : GroupOf(after[i]) = GroupOf(gaps[i]) /\ after[i].tenant = gaps[i].tenant
  <2> TAKE i \in 1 .. n
  <2>1. gaps[i] \in Misses(T, C, K, Q)
    OBVIOUS
  <2> QED
    BY <2>1, <1>5 DEF GroupOf, Misses
<1>8. Scoped(after, scope) = Scoped(gaps, scope)
  BY <1>1, <1>6, <1>7 DEF Scoped
<1>9. U(after) = {i \in U(gaps) : GroupOf(gaps[i]) # line.group}
  <2>1. \A i \in U(gaps) : GroupOf(gaps[i]) = line.group => after[i].handled = TRUE
    <3> TAKE i \in U(gaps)
    <3>1. gaps[i] \in Misses(T, C, K, Q) /\ i \in 1 .. n
      BY <1>1
    <3> QED
      BY <3>1, <1>5 DEF Misses
  <2>2. \A i \in 1 .. n : ~ (i \in U(gaps) /\ GroupOf(gaps[i]) = line.group) => after[i] = gaps[i]
    BY <1>5
  <2> QED
    BY <2>1, <2>2, <1>1, <1>8 DEF Unread
<1>10. \A i \in Scoped(gaps, scope) : Alike(after, i) = Alike(gaps, i)
  BY <1>1, <1>7, <1>8
<1>11. \A i \in Scoped(gaps, scope) : Line(after, i) = Line(gaps, i)
  BY <1>1, <1>7, <1>10
<1>12. ListGaps(after, scope) = {Line(gaps, i) : i \in {i \in U(gaps) : GroupOf(gaps[i]) # line.group}}
  <2>1. ListGaps(after, scope) = {Line(after, i) : i \in U(after)}
    BY DEF ListGaps
  <2>2. \A i \in U(after) : Line(after, i) = Line(gaps, i)
    BY <1>9, <1>11
  <2> HIDE DEF U, Line
  <2>3. {Line(after, i) : i \in U(after)} = {Line(gaps, i) : i \in U(after)}
    BY <2>2
  <2> QED
    BY <2>1, <2>3, <1>9
<1>13. ListGaps(gaps, scope) = {Line(gaps, i) : i \in U(gaps)}
  BY DEF ListGaps
<1>14. \A i \in U(gaps) : GroupOf(gaps[i]) = line.group <=> Line(gaps, i) = line
  BY <1>2, <1>3
<1>15. ListGaps(after, scope) = ListGaps(gaps, scope) \ {line}
  BY <1>12, <1>13, <1>14
<1> QED
  BY <1>1, <1>5, <1>15 DEF after

(* What holds of 0 and of the next, as long as there is one, holds of all. *)
LEMMA OneByOne ==
  ASSUME NEW n \in Nat, NEW P, 0 \in P, \A i \in 0 .. n - 1 : i \in P => i + 1 \in P
  PROVE  0 .. n \subseteq P
<1> DEFINE missed == {i \in 0 .. n : i \notin P}
<1>1. SUFFICES ASSUME missed # {} PROVE FALSE
  OBVIOUS
<1>2. PICK d \in missed : \A e \in missed : d <= e
  <2>1. missed \in SUBSET Nat
    OBVIOUS
  <2> HIDE DEF missed
  <2> QED
    BY <1>1, <2>1, EarliestDay
<1>3. d # 0 /\ d - 1 \in 0 .. n - 1 /\ d - 1 \notin missed
  BY <1>2
<1>4. d - 1 \in P
  BY <1>3
<1>5. d \in P
  BY <1>3, <1>4
<1> QED
  BY <1>2, <1>5

(* What a prompt is put together from, and its length, are what their      *)
(* recursions say they are.                                                *)
FlattenedTo(seqs, n, g) ==
  g = [i \in 1 .. n |-> IF i = 1 THEN seqs[i] ELSE g[i - 1] \o seqs[i]]

LEMMA FlattenedIs ==
  ASSUME NEW seqs, NEW n \in Nat, NEW g
  PROVE  FlattenedTo(seqs, n, g) <=>
           /\ g = [j \in 1 .. n |-> g[j]]
           /\ \A j \in 1 .. n : g[j] = IF j = 1 THEN seqs[j] ELSE g[j - 1] \o seqs[j]
<1> DEFINE b == [j \in 1 .. n |-> IF j = 1 THEN seqs[j] ELSE g[j - 1] \o seqs[j]]
<1>1. /\ b = [j \in 1 .. n |-> b[j]]
      /\ \A j \in 1 .. n : b[j] = IF j = 1 THEN seqs[j] ELSE g[j - 1] \o seqs[j]
  OBVIOUS
<1>2. FlattenedTo(seqs, n, g) <=> g = b
  BY DEF FlattenedTo
<1> HIDE DEF b
<1>3. ASSUME g = b
      PROVE  /\ g = [j \in 1 .. n |-> g[j]]
             /\ \A j \in 1 .. n : g[j] = IF j = 1 THEN seqs[j] ELSE g[j - 1] \o seqs[j]
  BY <1>1, <1>3
<1>4. ASSUME g = [j \in 1 .. n |-> g[j]],
             \A j \in 1 .. n : g[j] = IF j = 1 THEN seqs[j] ELSE g[j - 1] \o seqs[j]
      PROVE  g = b
  <2>1. \A j \in 1 .. n : g[j] = b[j]
    BY <1>1, <1>4
  <2>2. [j \in 1 .. n |-> g[j]] = [j \in 1 .. n |-> b[j]]
    BY <2>1
  <2> QED
    BY <2>2, <1>1, <1>4
<1> QED
  BY <1>2, <1>3, <1>4

LEMMA FlattenedThereIs ==
  ASSUME NEW n \in Nat, NEW seqs
  PROVE  \E g : FlattenedTo(seqs, n, g)
<1> DEFINE P == {m \in Nat : \E g : FlattenedTo(seqs, m, g)}
<1>1. 0 \in P
  <2>1. FlattenedTo(seqs, 0, [i \in {} |-> i])
    BY DEF FlattenedTo
  <2> QED
    BY <2>1
<1>2. ASSUME NEW i \in 0 .. n - 1, i \in P PROVE i + 1 \in P
  <2>1. PICK g : FlattenedTo(seqs, i, g)
    BY <1>2
  <2> DEFINE h == [j \in 1 .. i + 1 |-> IF j = 1 THEN seqs[j] ELSE g[j - 1] \o seqs[j]]
  <2>2. \A j \in 1 .. i : h[j] = g[j]
    BY <2>1, FlattenedIs
  <2>3. \A j \in 1 .. i + 1 : h[j] = IF j = 1 THEN seqs[j] ELSE h[j - 1] \o seqs[j]
    <3> TAKE j \in 1 .. i + 1
    <3>1. j # 1 => j - 1 \in 1 .. i
      OBVIOUS
    <3>2. j # 1 => h[j - 1] = g[j - 1]
      BY <3>1, <2>2
    <3>3. h[j] = IF j = 1 THEN seqs[j] ELSE g[j - 1] \o seqs[j]
      OBVIOUS
    <3> HIDE DEF h
    <3> QED
      BY <3>2, <3>3
  <2>4. FlattenedTo(seqs, i + 1, h)
    <3>1. i + 1 \in Nat /\ h = [j \in 1 .. i + 1 |-> h[j]]
      OBVIOUS
    <3> HIDE DEF h
    <3> QED
      BY <2>3, <3>1, FlattenedIs
  <2> QED
    BY <2>4
<1> HIDE DEF P
<1>3. n \in P
  BY <1>1, <1>2, OneByOne
<1> QED
  BY <1>3 DEF P

Has(s, x) == \E k \in DOMAIN s : s[k] = x

(* FlattenSeq has all that the parts have.                                 *)
LEMMA FlattenHas ==
  ASSUME NEW n \in Nat, n # 0, NEW S, NEW seqs \in [1 .. n -> Seq(S)],
         NEW i \in 1 .. n, NEW x, Has(seqs[i], x)
  PROVE  Has(FlattenSeq(seqs), x)
<1> DEFINE g == CHOOSE f : FlattenedTo(seqs, n, f)
<1>1. Len(seqs) = n
  OBVIOUS
<1>2. FlattenSeq(seqs) = g[n]
  BY <1>1 DEF FlattenSeq, FlattenedTo
<1>3. \A j \in 1 .. n : g[j] = IF j = 1 THEN seqs[j] ELSE g[j - 1] \o seqs[j]
  <2>1. FlattenedTo(seqs, n, g)
    BY FlattenedThereIs
  <2> HIDE DEF g
  <2> QED
    BY <2>1, FlattenedIs
<1> HIDE DEF g
<1> DEFINE P == {m \in Nat : m \in 1 .. n =>
                   /\ g[m] \in Seq(S)
                   /\ i <= m => Has(g[m], x)}
<1>4. 0 \in P
  OBVIOUS
<1>5. ASSUME NEW j \in 0 .. n - 1, j \in P PROVE j + 1 \in P
  <2>1. j + 1 \in 1 .. n /\ j + 1 \in Nat /\ seqs[j + 1] \in Seq(S)
    OBVIOUS
  <2>2. CASE j = 0
    <3>1. g[j + 1] = seqs[j + 1]
      BY <1>3, <2>1, <2>2
    <3>2. i <= j + 1 => i = j + 1
      BY <2>2
    <3>3. i <= j + 1 => Has(g[j + 1], x)
      BY <3>1, <3>2
    <3> QED
      BY <3>1, <3>3, <2>1
  <2>3. CASE j # 0
    <3>1. g[j + 1] = g[j] \o seqs[j + 1]
      <4>1. j + 1 # 1 /\ (j + 1) - 1 = j
        BY <2>3
      <4> QED
        BY <1>3, <2>1, <4>1
    <3>2. g[j] \in Seq(S) /\ (i <= j => Has(g[j], x))
      BY <1>5, <2>3
    <3>s. g[j] \in Seq(S) /\ seqs[j + 1] \in Seq(S)
      BY <3>2, <2>1
    <3>3. /\ g[j + 1] \in Seq(S)
          /\ \A m \in DOMAIN g[j] : m \in DOMAIN g[j + 1] /\ g[j + 1][m] = g[j][m]
          /\ \A m \in DOMAIN seqs[j + 1] :
               Len(g[j]) + m \in DOMAIN g[j + 1] /\ g[j + 1][Len(g[j]) + m] = seqs[j + 1][m]
      <4> DEFINE a == g[j]
                 b == seqs[j + 1]
      <4>1. a \in Seq(S) /\ b \in Seq(S) /\ g[j + 1] = a \o b
        BY <3>1, <3>s
      <4> HIDE DEF a, b
      <4>2. /\ a \o b \in Seq(S)
            /\ \A m \in DOMAIN a : m \in DOMAIN (a \o b) /\ (a \o b)[m] = a[m]
            /\ \A m \in DOMAIN b : Len(a) + m \in DOMAIN (a \o b) /\ (a \o b)[Len(a) + m] = b[m]
        <5>1. a \o b \in Seq(S) /\ Len(a \o b) = Len(a) + Len(b)
          BY <4>1
        <5>2. /\ DOMAIN a = 1 .. Len(a) /\ DOMAIN b = 1 .. Len(b) /\ DOMAIN (a \o b) = 1 .. Len(a) + Len(b)
              /\ Len(a) \in Nat /\ Len(b) \in Nat
          BY <4>1, <5>1
        <5>3. \A m \in 1 .. Len(a) + Len(b) : (a \o b)[m] = IF m <= Len(a) THEN a[m] ELSE b[m - Len(a)]
          BY <4>1
        <5>4. ASSUME NEW m \in 1 .. Len(a) PROVE m \in 1 .. Len(a) + Len(b) /\ (a \o b)[m] = a[m]
          BY <5>2, <5>3
        <5>5. ASSUME NEW m \in 1 .. Len(b)
              PROVE  Len(a) + m \in 1 .. Len(a) + Len(b) /\ (a \o b)[Len(a) + m] = b[m]
          <6>1. Len(a) + m \in 1 .. Len(a) + Len(b) /\ ~ (Len(a) + m <= Len(a)) /\ Len(a) + m - Len(a) = m
            BY <5>2
          <6> QED
            BY <5>3, <6>1
        <5> QED
          BY <5>1, <5>2, <5>4, <5>5
      <4>3. /\ g[j + 1] \in Seq(S)
            /\ \A m \in DOMAIN a : m \in DOMAIN g[j + 1] /\ g[j + 1][m] = a[m]
            /\ \A m \in DOMAIN b : Len(a) + m \in DOMAIN g[j + 1] /\ g[j + 1][Len(a) + m] = b[m]
        BY <4>1, <4>2, Zenon
      <4> QED
        BY <4>3 DEF a, b
    <3>4. ASSUME i <= j PROVE Has(g[j + 1], x)
      BY <3>2, <3>3, <3>4 DEF Has
    <3>5. ASSUME i = j + 1 PROVE Has(g[j + 1], x)
      BY <3>3, <3>5 DEF Has
    <3>6. i <= j + 1 => i <= j \/ i = j + 1
      OBVIOUS
    <3> QED
      BY <3>3, <3>4, <3>5, <3>6, <2>1
  <2> QED
    BY <2>2, <2>3
<1> HIDE DEF P
<1>6. n \in P
  <2>1. 0 .. n \subseteq P
    BY <1>4, <1>5, OneByOne
  <2> QED
    BY <2>1
<1>7. n \in 1 .. n /\ i <= n
  OBVIOUS
<1> QED
  BY <1>2, <1>6, <1>7 DEF P

(* The chunks are counted to a number.                                     *)
CountedTo(rows, n, f) == f = [i \in 0 .. n |-> IF i = 0 THEN 0 ELSE f[i - 1] + rows[i].tokens]

LEMMA CountedIs ==
  ASSUME NEW rows, NEW n \in Nat, NEW f
  PROVE  CountedTo(rows, n, f) <=>
           /\ f = [j \in 0 .. n |-> f[j]]
           /\ \A j \in 0 .. n : f[j] = IF j = 0 THEN 0 ELSE f[j - 1] + rows[j].tokens
<1> DEFINE b == [j \in 0 .. n |-> IF j = 0 THEN 0 ELSE f[j - 1] + rows[j].tokens]
<1>1. /\ b = [j \in 0 .. n |-> b[j]]
      /\ \A j \in 0 .. n : b[j] = IF j = 0 THEN 0 ELSE f[j - 1] + rows[j].tokens
  OBVIOUS
<1>2. CountedTo(rows, n, f) <=> f = b
  BY DEF CountedTo
<1> HIDE DEF b
<1>3. ASSUME f = b
      PROVE  /\ f = [j \in 0 .. n |-> f[j]]
             /\ \A j \in 0 .. n : f[j] = IF j = 0 THEN 0 ELSE f[j - 1] + rows[j].tokens
  BY <1>1, <1>3
<1>4. ASSUME f = [j \in 0 .. n |-> f[j]],
             \A j \in 0 .. n : f[j] = IF j = 0 THEN 0 ELSE f[j - 1] + rows[j].tokens
      PROVE  f = b
  <2>1. \A j \in 0 .. n : f[j] = b[j]
    BY <1>1, <1>4
  <2>2. [j \in 0 .. n |-> f[j]] = [j \in 0 .. n |-> b[j]]
    BY <2>1
  <2> QED
    BY <2>2, <1>1, <1>4
<1> QED
  BY <1>2, <1>3, <1>4

LEMMA TotalIsANumber ==
  ASSUME NEW n \in Nat, NEW rows, Len(rows) = n, \A i \in 1 .. n : rows[i].tokens \in Nat
  PROVE  Total(rows) \in Nat
<1> DEFINE P == {m \in Nat : \E f : CountedTo(rows, m, f) /\ f[m] \in Nat}
<1>1. 0 \in P
  <2> DEFINE f == [j \in 0 .. 0 |-> 0]
  <2>1. f = [j \in 0 .. 0 |-> f[j]] /\ f[0] = 0
    OBVIOUS
  <2> HIDE DEF f
  <2>2. \A j \in 0 .. 0 : f[j] = IF j = 0 THEN 0 ELSE f[j - 1] + rows[j].tokens
    BY <2>1
  <2>3. CountedTo(rows, 0, f)
    BY <2>1, <2>2, CountedIs
  <2> QED
    BY <2>1, <2>3
<1>2. ASSUME NEW i \in 0 .. n - 1, i \in P PROVE i + 1 \in P
  <2>1. PICK f : CountedTo(rows, i, f) /\ f[i] \in Nat
    BY <1>2
  <2> DEFINE h == [j \in 0 .. i + 1 |-> IF j = 0 THEN 0 ELSE f[j - 1] + rows[j].tokens]
  <2>c. \A j \in 0 .. i : f[j] = IF j = 0 THEN 0 ELSE f[j - 1] + rows[j].tokens
    <3>1. i \in Nat /\ CountedTo(rows, i, f)
      BY <2>1
    <3> HIDE DEF P, h
    <3> QED
      BY <3>1, CountedIs
  <2>2. \A j \in 0 .. i : h[j] = f[j]
    BY <2>c
  <2>3. \A j \in 0 .. i + 1 : h[j] = IF j = 0 THEN 0 ELSE h[j - 1] + rows[j].tokens
    <3> TAKE j \in 0 .. i + 1
    <3>1. j # 0 => j - 1 \in 0 .. i
      OBVIOUS
    <3>2. j # 0 => h[j - 1] = f[j - 1]
      BY <3>1, <2>2
    <3>3. h[j] = IF j = 0 THEN 0 ELSE f[j - 1] + rows[j].tokens
      OBVIOUS
    <3> HIDE DEF h
    <3> QED
      BY <3>2, <3>3
  <2>4. h = [j \in 0 .. i + 1 |-> h[j]] /\ i + 1 \in Nat
    OBVIOUS
  <2> HIDE DEF h
  <2>5. CountedTo(rows, i + 1, h)
    BY <2>3, <2>4, CountedIs
  <2>6. h[i + 1] \in Nat
    <3>1. i + 1 \in 0 .. i + 1 /\ i + 1 # 0 /\ (i + 1) - 1 = i /\ i \in 0 .. i /\ i + 1 \in 1 .. n
      OBVIOUS
    <3>2. h[i + 1] = f[i] + rows[i + 1].tokens
      BY <3>1, <2>2, <2>3
    <3> QED
      BY <3>1, <3>2, <2>1
  <2> QED
    BY <2>4, <2>5, <2>6
<1> HIDE DEF P
<1>3. n \in P
  <2>1. 0 .. n \subseteq P
    BY <1>1, <1>2, OneByOne
  <2> QED
    BY <2>1
<1>4. PICK f : CountedTo(rows, n, f) /\ f[n] \in Nat
  BY <1>3 DEF P
<1> DEFINE c == CHOOSE e : CountedTo(rows, n, e)
<1>5. CountedTo(rows, n, c)
  BY <1>4
<1>6. Total(rows) = c[n]
  BY DEF Total, CountedTo
<1> HIDE DEF c
<1> DEFINE Q == {m \in Nat : m \in 0 .. n => c[m] = f[m]}
<1>7. 0 \in Q
  BY <1>4, <1>5, CountedIs
<1>8. ASSUME NEW i \in 0 .. n - 1, i \in Q PROVE i + 1 \in Q
  <2>1. i + 1 \in 0 .. n /\ i + 1 # 0 /\ (i + 1) - 1 = i /\ i \in 0 .. n
    OBVIOUS
  <2>2. c[i + 1] = c[i] + rows[i + 1].tokens /\ f[i + 1] = f[i] + rows[i + 1].tokens
    BY <2>1, <1>4, <1>5, CountedIs
  <2> QED
    BY <2>1, <2>2, <1>8
<1> HIDE DEF Q
<1>9. n \in Q
  <2>1. 0 .. n \subseteq Q
    BY <1>7, <1>8, OneByOne
  <2> QED
    BY <2>1
<1> QED
  BY <1>4, <1>6, <1>9 DEF Q

(* A base: chunks with titles, some with a heading.                        *)
Chunks(n, T, H) == [1 .. n -> [title : T, heading : H \cup {Nobody}, tokens : Nat]]

(* A line or none, and another or none, have what each has.                *)
AtMostOne(X) == {<<>>} \cup {<<x>> : x \in X}

Joined(a, b) == a \o b

LEMMA TitledThen ==
  ASSUME NEW X, NEW a \in AtMostOne(X), NEW b \in AtMostOne(X)
  PROVE  /\ Joined(a, b) \in Seq(X)
         /\ \A x : a = <<x>> \/ b = <<x>> => Has(Joined(a, b), x)
<1> DEFINE s == a \o b
<1>1. \A x, y : <<x>> # <<>> /\ <<x>>[1] = x /\ (<<x>> = <<y>> => x = y)
  OBVIOUS
<1>2. CASE a = <<>> /\ b = <<>>
  <2>1. s = <<>>
    BY <1>2
  <2> QED
    BY <1>1, <1>2, <2>1 DEF Joined
<1>3. ASSUME NEW y \in X, (a = <<>> /\ b = <<y>>) \/ (a = <<y>> /\ b = <<>>)
      PROVE  s \in Seq(X) /\ \A x : a = <<x>> \/ b = <<x>> => Has(s, x)
  <2>a. ASSUME a = <<>>, b = <<y>> PROVE s = <<y>>
    BY <2>a
  <2>b. ASSUME a = <<y>>, b = <<>> PROVE s = <<y>>
    BY <2>b
  <2>1. s = <<y>>
    BY <1>3, <2>a, <2>b
  <2>2. 1 \in DOMAIN <<y>> /\ <<y>>[1] = y /\ <<y>> \in Seq(X)
    OBVIOUS
  <2>3. Has(s, y) /\ s \in Seq(X)
    BY <2>1, <2>2 DEF Has
  <2> HIDE DEF s
  <2> QED
    BY <2>3, <1>1, <1>3
<1>4. ASSUME NEW y \in X, NEW z \in X, a = <<y>>, b = <<z>>
      PROVE  s \in Seq(X) /\ \A x : a = <<x>> \/ b = <<x>> => Has(s, x)
  <2>1. s \in Seq(X) /\ 1 \in DOMAIN s /\ 2 \in DOMAIN s /\ s[1] = y /\ s[2] = z
    BY <1>4
  <2>2. Has(s, y) /\ Has(s, z) /\ s \in Seq(X)
    BY <2>1 DEF Has
  <2> HIDE DEF s
  <2> QED
    BY <2>2, <1>1, <1>4
<1>5. s = Joined(a, b)
  BY DEF Joined
<1> HIDE DEF s
<1>6. (a = <<>> \/ \E x \in X : a = <<x>>) /\ (b = <<>> \/ \E x \in X : b = <<x>>)
  BY DEF AtMostOne
<1> QED
  BY <1>2, <1>3, <1>4, <1>5, <1>6

(* For every base, however many chunks it has and whatever fits into a     *)
(* prompt: the prompt has all of it, or the index of all of it, and the    *)
(* rules that go with it (build_instructions, prompt.py:245, load_inline,  *)
(* kb.py:747).                                                             *)
THEOREM PromptsAreGrounded ==
  ASSUME NEW n \in Nat, NEW T, NEW H, NEW rows \in Chunks(n, T, H)
  PROVE  PromptIsGrounded(rows, BuildInstructions(rows))
<1> DEFINE X == {[title |-> t] : t \in T} \cup {[content |-> i] : i \in 1 .. n}
                  \cup {[heading |-> h] : h \in H \cup {Nobody}}
           whole == [i \in 1 .. n |-> Titled(rows, i) \o Contents(rows, i)]
           index == [i \in 1 .. n |-> Titled(rows, i) \o HeadingOnce(rows, i)]
           prompt == BuildInstructions(rows)
           Reads(line) == Has(prompt.section, line)
<1>1. /\ DOMAIN rows = 1 .. n /\ Len(rows) = n
      /\ \A i \in 1 .. n : rows[i].title \in T /\ rows[i].heading \in H \cup {Nobody} /\ rows[i].tokens \in Nat
  BY DEF Chunks
<1>2. Total(rows) \in Nat /\ Budget \in Nat
  BY <1>1, TotalIsANumber, RetrievalAssumption
<1>3. \A i \in 1 .. n :
        /\ Titled(rows, i) = <<>> \/ Titled(rows, i) = <<[title |-> rows[i].title]>>
        /\ HeadingOnce(rows, i) = <<>> \/ HeadingOnce(rows, i) = <<[heading |-> rows[i].heading]>>
        /\ Contents(rows, i) = <<[content |-> i]>>
        /\ [title |-> rows[i].title] \in X /\ [heading |-> rows[i].heading] \in X /\ [content |-> i] \in X
  BY <1>1 DEF Titled, HeadingOnce, Contents
<1> HIDE DEF X
<1>4. ASSUME NEW i \in 1 .. n
      PROVE  /\ whole[i] \in Seq(X) /\ index[i] \in Seq(X)
             /\ Has(whole[i], [content |-> i])
             /\ \A x : Titled(rows, i) = <<x>> \/ HeadingOnce(rows, i) = <<x>> => Has(index[i], x)
  <2> DEFINE a == Titled(rows, i)
             b == Contents(rows, i)
             c == HeadingOnce(rows, i)
  <2>1. whole[i] = Joined(a, b) /\ index[i] = Joined(a, c)
    BY DEF Joined
  <2>2. {a, b, c} \subseteq AtMostOne(X) /\ b = <<[content |-> i]>>
    BY <1>3 DEF AtMostOne
  <2> HIDE DEF a, b, c, whole, index
  <2>3. Joined(a, b) \in Seq(X) /\ Has(Joined(a, b), [content |-> i])
    BY <2>2, TitledThen
  <2>4. Joined(a, c) \in Seq(X) /\ \A x : a = <<x>> \/ c = <<x>> => Has(Joined(a, c), x)
    BY <2>2, TitledThen
  <2> QED
    BY <2>1, <2>3, <2>4 DEF a, c
<1>5. whole \in [1 .. n -> Seq(X)] /\ index \in [1 .. n -> Seq(X)]
  BY <1>4
<1>6. /\ rows = <<>> <=> n = 0
      /\ n # 0 /\ Total(rows) <= Budget => prompt.mode = "full" /\ prompt.section = FlattenSeq(whole)
      /\ n # 0 /\ ~ (Total(rows) <= Budget) => prompt.mode = "index" /\ prompt.section = FlattenSeq(index)
      /\ n = 0 => prompt.mode = "empty"
      /\ prompt.rules = IF prompt.mode = "full" THEN "GROUNDING_FULL" ELSE "GROUNDING_INDEX"
  <2>1. rows = <<>> <=> n = 0
    BY <1>1
  <2>2. [i \in DOMAIN rows |-> Titled(rows, i) \o Contents(rows, i)] = whole
        /\ [i \in DOMAIN rows |-> Titled(rows, i) \o HeadingOnce(rows, i)] = index
    BY <1>1
  <2> HIDE DEF whole, index
  <2> QED
    BY <2>1, <2>2 DEF BuildInstructions, LoadInline
<1> HIDE DEF whole, index, prompt
<1>7. ASSUME prompt.mode = "full"
      PROVE  Total(rows) <= Budget /\ prompt.rules = "GROUNDING_FULL"
             /\ \A i \in 1 .. n : Reads([content |-> i])
  <2>1. n # 0 /\ Total(rows) <= Budget /\ prompt.section = FlattenSeq(whole)
    BY <1>6, <1>7
  <2>2. ASSUME NEW i \in 1 .. n PROVE Reads([content |-> i])
    <3>1. Has(whole[i], [content |-> i])
      BY <1>4
    <3>2. whole \in [1 .. n -> Seq(X)] /\ n # 0
      BY <2>1, <1>5
    <3> HIDE DEF X
    <3>3. Has(FlattenSeq(whole), [content |-> i])
      BY <3>1, <3>2, FlattenHas
    <3> QED
      BY <2>1, <3>3
  <2> QED
    BY <2>1, <2>2, <1>6, <1>7
<1>8. ASSUME prompt.mode = "index"
      PROVE  /\ Total(rows) > Budget /\ prompt.rules = "GROUNDING_INDEX"
             /\ \A i \in 1 .. n : Reads([title |-> rows[i].title])
             /\ \A i \in 1 .. n : rows[i].heading # Nobody => Reads([heading |-> rows[i].heading])
  <2>1. n # 0 /\ ~ (Total(rows) <= Budget) /\ prompt.section = FlattenSeq(index)
    BY <1>6, <1>8
  <2>2. ASSUME NEW j \in 1 .. n, NEW x, Titled(rows, j) = <<x>> \/ HeadingOnce(rows, j) = <<x>>
        PROVE  Reads(x)
    <3>1. Has(index[j], x)
      BY <1>4, <2>2
    <3>2. index \in [1 .. n -> Seq(X)] /\ n # 0
      BY <2>1, <1>5
    <3> HIDE DEF X
    <3>3. Has(FlattenSeq(index), x)
      BY <3>1, <3>2, FlattenHas
    <3> QED
      BY <2>1, <3>3
  <2> HIDE DEF Reads
  <2>3. ASSUME NEW i \in 1 .. n PROVE Reads([title |-> rows[i].title])
    <3> DEFINE run == {j \in 1 .. i : \A k \in j .. i : rows[k].title = rows[i].title}
    <3>1. i \in run /\ run \in SUBSET Nat
      OBVIOUS
    <3> HIDE DEF run
    <3>2. PICK j \in run : \A e \in run : j <= e
      BY <3>1, EarliestDay
    <3>3. j \in 1 .. i /\ \A k \in j .. i : rows[k].title = rows[i].title
      BY <3>2 DEF run
    <3>4. ASSUME j # 1, rows[j - 1].title = rows[i].title PROVE FALSE
      <4>1. j - 1 \in 1 .. i /\ \A k \in (j - 1) .. i : k = j - 1 \/ k \in j .. i
        BY <3>3, <3>4
      <4>2. j - 1 \in run
        BY <4>1, <3>3, <3>4 DEF run
      <4> QED
        BY <4>1, <4>2, <3>2, <3>3
    <3>5. rows[j].title = rows[i].title /\ j \in 1 .. n
      BY <3>3
    <3>6. Titled(rows, j) = <<[title |-> rows[i].title]>>
      BY <3>4, <3>5 DEF Titled
    <3> QED
      BY <3>5, <3>6, <2>2
  <2>4. ASSUME NEW i \in 1 .. n, rows[i].heading # Nobody PROVE Reads([heading |-> rows[i].heading])
    <3> DEFINE same == {j \in 1 .. n : rows[j].heading = rows[i].heading}
    <3>1. i \in same /\ same \in SUBSET Nat
      OBVIOUS
    <3> HIDE DEF same
    <3>2. PICK j \in same : \A e \in same : j <= e
      BY <3>1, EarliestDay
    <3>3. j \in 1 .. n /\ rows[j].heading = rows[i].heading
      BY <3>2 DEF same
    <3>4. \A k \in 1 .. j - 1 : rows[k].heading # rows[j].heading
      BY <3>2, <3>3 DEF same
    <3>5. HeadingOnce(rows, j) = <<[heading |-> rows[i].heading]>>
      BY <3>3, <3>4, <2>4 DEF HeadingOnce, NewHeading
    <3> QED
      BY <3>3, <3>5, <2>2
  <2>5. Total(rows) > Budget
    BY <2>1, <1>2
  <2>6. prompt.rules = "GROUNDING_INDEX"
    BY <1>6, <1>8
  <2> QED
    BY <2>3, <2>4, <2>5, <2>6
<1> QED
  BY <1>1, <1>7, <1>8 DEF PromptIsGrounded, prompt, Has

(* A number of finitely many that is the largest.                          *)
LEMMA LastPlace ==
  ASSUME NEW n \in Nat, NEW P \in SUBSET (1 .. n), P # {}
  PROVE  \E i \in P : \A j \in P : j <= i
<1> DEFINE above == {k \in Nat : \A j \in P : j <= k}
<1>1. n \in above /\ above \in SUBSET Nat
  OBVIOUS
<1> HIDE DEF above
<1>2. PICK k \in above : \A e \in above : k <= e
  BY <1>1, EarliestDay
<1>3. k \in Nat /\ \A j \in P : j <= k
  BY <1>2 DEF above
<1>4. ASSUME k \notin P PROVE FALSE
  <2>1. PICK p \in P : TRUE
    OBVIOUS
  <2>2. \A j \in P : j <= k - 1 /\ j \in 1 .. n
    BY <1>3, <1>4
  <2>3. k - 1 \in Nat
    BY <1>3, <2>1, <2>2
  <2>4. k - 1 \in above
    BY <2>2, <2>3 DEF above
  <2> QED
    BY <2>4, <1>2, <1>3
<1> QED
  BY <1>3, <1>4

(* The fields a campaign can configure, and what diallers send.            *)
Configures(N, K) == [source : {"conversation", "dialler"}, key : N, kind : K, from : N]

(* A value is what was sent, whatever it is taken for.                     *)
LEMMA AsItWasSent ==
  ASSUME NEW raw, NEW kind
  PROVE  /\ raw = Null => Coerce(raw, kind) = Null
         /\ raw # Null => \E is \in {"number", "boolean", "string"} : Coerce(raw, kind) = [is |-> is, of |-> raw]
         /\ raw # Null /\ kind # "number" =>
              \E is \in {"boolean", "string"} : Coerce(raw, kind) = [is |-> is, of |-> raw]
<1>1. CASE raw = Null
  BY <1>1 DEF Coerce
<1>2. CASE raw # Null /\ kind = "number" /\ raw \in Numerals
  BY <1>2 DEF Coerce
<1>3. CASE raw # Null /\ kind = "boolean" /\ raw \in Truths
  BY <1>3 DEF Coerce
<1>4. CASE raw # Null /\ ~ (kind = "number" /\ raw \in Numerals) /\ ~ (kind = "boolean" /\ raw \in Truths)
  BY <1>4 DEF Coerce
<1> QED
  BY <1>1, <1>2, <1>3, <1>4

(* Whatever is configured, however many fields, whatever the dialler sent  *)
(* and whatever became of the extraction: the report has the fields that   *)
(* are configured and no other, what the dialler sent as it was sent, and  *)
(* is kept out of the queue only where a number is asked for (extract,     *)
(* postback.py:248, from_dialler, :123, _queue_postback,                   *)
(* voice_agent.py:2075).                                                   *)
THEOREM ReportsKeepTheirShape ==
  ASSUME NEW N, NEW K, NEW n \in Nat, NEW report,
         report.fields \in [1 .. n -> Configures(N, K)],
         \A name \in DOMAIN report.dialler : report.dialler[name] # Null,
         \A is \in {"number", "boolean", "string"}, name \in DOMAIN report.dialler :
           [is |-> is, of |-> report.dialler[name]] # Null
  PROVE  /\ KeepsItsShape(report, Payload(report).values)
         /\ ~ Queued(report) => \E f \in Keyed(report.fields) : f.kind = "number"
<1> DEFINE fields == report.fields
           dialler == report.dialler
           Mine(i) == fields[i].key # <<>> /\ IsDialler(fields[i])
           mine == {i \in 1 .. n : Mine(i)}
           LastOf(k) == CHOOSE i \in mine : fields[i].key = k /\ \A j \in mine : fields[j].key = k => j <= i
           told == FromDialler(fields, dialler)
           read == Extracted(report)
           values == Payload(report).values
           keyed == Keyed(fields)
           dialled == {f \in keyed : IsDialler(f)}
           Sent(i) == SentAs(dialler, Source(fields[i]))
<1>1. DOMAIN fields = 1 .. n /\ Len(fields) = n
  OBVIOUS
<1>2. keyed = {f \in {fields[i] : i \in 1 .. n} : f.key # <<>>}
  BY <1>1 DEF Keyed, ToSet
<1>3. values = [k \in DOMAIN told \cup DOMAIN read |-> IF k \in DOMAIN told THEN told[k] ELSE read[k]]
  BY DEF Payload, Values
<1>4. DOMAIN told = {fields[i].key : i \in mine} /\ DOMAIN read = Schema(fields)
  BY <1>1 DEF FromDialler, Extracted
<1>5. \A k \in DOMAIN told : told[k] = Coerce(Sent(LastOf(k)), fields[LastOf(k)].kind)
  BY <1>1 DEF FromDialler
<1>6. \A k \in DOMAIN told : LastOf(k) \in mine /\ fields[LastOf(k)].key = k
  <2> TAKE k \in DOMAIN told
  <2> DEFINE places == {i \in mine : fields[i].key = k}
  <2>1. places \in SUBSET (1 .. n) /\ places # {}
    BY <1>4
  <2> HIDE DEF places
  <2>2. \E i \in places : \A j \in places : j <= i
    BY <2>1, LastPlace
  <2>3. \E i \in mine : fields[i].key = k /\ \A j \in mine : fields[j].key = k => j <= i
    BY <2>2 DEF places
  <2> HIDE DEF mine
  <2> QED
    BY <2>3
<1>7. Schema(fields) = {f.key : f \in keyed \ dialled}
  BY DEF Schema
<1> HIDE DEF told, read, values, LastOf, Sent
<1>8. {fields[i].key : i \in mine} = {f.key : f \in dialled} /\ \A i \in mine : fields[i] \in dialled
  BY <1>2
<1> HIDE DEF mine, keyed
<1>9. DOMAIN values = {f.key : f \in keyed}
  <2>1. DOMAIN values = DOMAIN told \cup DOMAIN read
    BY <1>3
  <2>2. DOMAIN told = {f.key : f \in dialled} /\ DOMAIN read = {f.key : f \in keyed \ dialled}
    BY <1>4, <1>7, <1>8
  <2>3. dialled \subseteq keyed
    OBVIOUS
  <2> HIDE DEF dialled
  <2> QED
    BY <2>1, <2>2, <2>3
<1>10. ASSUME NEW f \in keyed, Only(fields, f) PROVE IsDialler(f) <=> f.key \notin Schema(fields)
  BY <1>7, <1>10 DEF Only, keyed
<1>11. ASSUME NEW f \in dialled, \A g \in dialled : g.key = f.key => g = f
       PROVE  \/ SentFor(dialler, f) = {} /\ values[f.key] = Null
              \/ \E raw \in SentFor(dialler, f) : values[f.key] # Null /\ values[f.key].of = raw
  <2> DEFINE i == LastOf(f.key)
             raw == SentAs(dialler, Source(f))
  <2>1. f.key \in DOMAIN told
    BY <1>4, <1>8
  <2>2. i \in mine /\ fields[i] = f
    BY <2>1, <1>6, <1>8, <1>11
  <2>3. values[f.key] = Coerce(raw, f.kind)
    BY <2>1, <2>2, <1>3, <1>5 DEF Sent
  <2>4. CASE SentFor(dialler, f) = {}
    <3>1. raw = Null
      BY <2>4 DEF SentAs, SentFor
    <3> QED
      BY <3>1, <2>3, <2>4, AsItWasSent
  <2>5. CASE SentFor(dialler, f) # {}
    <3> DEFINE flat == {m \in DOMAIN dialler : Bare(m) = Bare(Source(f))}
    <3>1. flat # {} /\ SentFor(dialler, f) = {dialler[m] : m \in flat}
      BY <2>5 DEF SentFor
    <3>2. (CHOOSE m \in flat : TRUE) \in flat
      BY <3>1
    <3>3. raw \in SentFor(dialler, f)
      BY <3>1, <3>2 DEF SentAs
    <3>4. raw # Null
      BY <3>1, <3>3
    <3>5. PICK is \in {"number", "boolean", "string"} : Coerce(raw, f.kind) = [is |-> is, of |-> raw]
      BY <3>4, AsItWasSent
    <3>6. PICK m \in DOMAIN dialler : raw = dialler[m]
      BY <3>1, <3>3
    <3>7. Coerce(raw, f.kind) # Null
      BY <3>5, <3>6
    <3> HIDE DEF raw, flat
    <3> QED
      BY <2>3, <3>3, <3>5, <3>7
  <2> QED
    BY <2>4, <2>5
<1>12. ASSUME NEW f \in keyed \ dialled, Only(fields, f) PROVE values[f.key] = Read(report, f.key)
  <2>1. f.key \notin DOMAIN told
    BY <1>4, <1>8, <1>12 DEF Only, keyed
  <2>2. f.key \in DOMAIN read /\ read[f.key] = Read(report, f.key)
    BY <1>4, <1>7 DEF read, Extracted
  <2> QED
    BY <2>1, <2>2, <1>3
<1>13. ASSUME ~ Queued(report) PROVE \E f \in keyed : f.kind = "number"
  <2>1. PICK k \in DOMAIN values : values[k] # Null /\ values[k].is = "number"
    BY <1>3, <1>13 DEF Queued, Values, told, read
  <2>2. CASE k \in DOMAIN told
    <3>1. values[k] = Coerce(Sent(LastOf(k)), fields[LastOf(k)].kind) /\ fields[LastOf(k)] \in keyed
      BY <2>2, <1>3, <1>5, <1>6, <1>8
    <3>2. ASSUME fields[LastOf(k)].kind # "number" PROVE FALSE
      BY <2>1, <3>1, <3>2, AsItWasSent
    <3> QED
      BY <3>1, <3>2
  <2>3. CASE k \notin DOMAIN told
    <3>1. values[k] = Read(report, k)
      BY <2>1, <2>3, <1>3 DEF read, Extracted
    <3>2. values[k] = Null \/ values[k] = [is |-> "read", of |-> report.said[k]]
      BY <3>1 DEF Read
    <3> QED
      BY <2>1, <3>2
  <2> QED
    BY <2>2, <2>3
<1> QED
  BY <1>9, <1>10, <1>11, <1>12, <1>13 DEF KeepsItsShape, values, keyed

(* Whoever asks for a person when none is there is promised the first      *)
(* instant at which one is, in a word that names its day, whatever the     *)
(* schedule and the holidays, and though the clock ticks, past midnight    *)
(* too, between the question, the search for the instant and the word      *)
(* (is_open, next_open and describe, hours.py:118, :185, :208).            *)
THEOREM PromisesAreMeant ==
  ASSUME NEW hours \in Schedules, NEW holidays, NEW asked \in Instant, Refused(hours, holidays, asked),
         NEW n \in 0 .. 1, NEW m \in 1 .. 2, LastTick >= 1
  PROVE  LET spoken == Ticked(asked, m)
             told == ClosedMessage(hours, holidays, Ticked(asked, n), spoken)
         IN  /\ FirstOpening(hours, holidays, Ticked(asked, n), told.when)
             /\ told.when = Never \/ told.when.day > spoken.day + 1 + Week
                  \/ DayMeant(told.day, spoken) = told.when.day
<1> DEFINE looked == Ticked(asked, n)
           spoken == Ticked(asked, m)
           when == NextOpen(hours, holidays, looked)
<1>0. LastTick \in Nat /\ Horizon \in Nat /\ Week \in Nat
  BY HoursAssumption
<1>1. Configured(hours)
  BY DEF Refused, OpenNow
<1>2. /\ asked = [day |-> asked.day, time |-> asked.time]
      /\ asked.day \in Nat /\ asked.time \in 0 .. LastTick
  BY DEF Instant, Times
<1>3. ASSUME NEW k \in 0 .. 2
      PROVE  LET i == Ticked(asked, k) IN
             /\ i = [day |-> i.day, time |-> i.time]
             /\ i.day \in Nat /\ i.time \in 0 .. LastTick
             /\ asked.time + k <= LastTick => i.day = asked.day /\ i.time = asked.time + k
             /\ asked.time + k > LastTick => i.day = asked.day + 1 /\ i.time = asked.time + k - LastTick - 1
  <2>1. CASE asked.time + k <= LastTick
    <3>1. Ticked(asked, k) = [day |-> asked.day, time |-> asked.time + k]
      BY <1>2, <2>1 DEF Ticked
    <3> QED
      BY <3>1, <1>0, <1>2, <2>1
  <2>2. CASE asked.time + k > LastTick
    <3>1. Ticked(asked, k) = [day |-> asked.day + 1, time |-> asked.time + k - LastTick - 1]
      BY <1>0, <1>2, <2>2 DEF Ticked
    <3>2. asked.time + k - LastTick - 1 \in 0 .. LastTick
      BY <1>0, <1>2, <2>2
    <3> QED
      BY <3>1, <3>2, <1>0, <1>2, <2>2
  <2> QED
    BY <1>0, <1>2, <2>1, <2>2
<1>4. looked \in Instant /\ spoken \in Instant
  <2>1. n \in 0 .. 2 /\ m \in 0 .. 2
    OBVIOUS
  <2> QED
    BY <1>3, <2>1 DEF Instant, Times
<1>5. ClosedMessage(hours, holidays, looked, spoken) = [when |-> when, day |-> DayWord(when, spoken)]
  BY DEF ClosedMessage
<1> HIDE DEF looked, spoken, when
<1>6. FirstOpening(hours, holidays, looked, when)
  BY <1>1, <1>4, NextOpenIsFirstOpening DEF when
<1>7. ASSUME when # Never, ~ (when.day > spoken.day + 1 + Week)
      PROVE  DayMeant(DayWord(when, spoken), spoken) = when.day
  <2>1. when \in InstantsFrom(looked) /\ OpenNow(hours, holidays, when)
    BY <1>6, <1>7 DEF FirstOpening
  <2>2. /\ when = [day |-> when.day, time |-> when.time]
        /\ when.day \in Nat /\ when.time \in 0 .. LastTick /\ ~ Before(when, looked)
    BY <2>1, <1>0, <1>4 DEF InstantsFrom, Instant, Times
  <2>3. when \in Instant
    BY <2>2 DEF Instant, Times
  <2>4. when.time < LastTick
    <3>1. HasWindow(hours, when.day) /\ when.time < Closes(hours, when.day)
      BY <2>1, <1>1 DEF OpenNow, InWindow
    <3>2. Closes(hours, when.day) \in 0 .. LastTick
      BY <2>2, <3>1, WindowTimes DEF Times
    <3> QED
      BY <1>0, <2>2, <3>1, <3>2
  <2>5. when # asked
    BY <2>1 DEF Refused
  <2>6. when.day # asked.day \/ when.time # asked.time
    BY <1>2, <2>2, <2>5
  <2>7. /\ looked.day \in Nat /\ looked.time \in 0 .. LastTick
        /\ asked.time + n <= LastTick => looked.day = asked.day /\ looked.time = asked.time + n
        /\ asked.time + n > LastTick => looked.day = asked.day + 1 /\ looked.time = asked.time + n - LastTick - 1
    <3>1. n \in 0 .. 2
      OBVIOUS
    <3> QED
      BY <1>3, <3>1 DEF looked
  <2>8. /\ spoken.day \in Nat
        /\ asked.time + m <= LastTick => spoken.day = asked.day
        /\ asked.time + m > LastTick => spoken.day = asked.day + 1
    <3>1. m \in 0 .. 2
      OBVIOUS
    <3> QED
      BY <1>3, <3>1 DEF spoken
  <2>9. looked.day <= when.day /\ (looked.day = when.day => looked.time <= when.time)
    BY <1>0, <2>2, <2>7 DEF Before
  <2>10. spoken.day <= when.day
    <3> SUFFICES ASSUME when.day < spoken.day PROVE FALSE
      BY <2>2, <2>8
    <3>1. asked.day <= looked.day
      BY <1>0, <1>2, <2>7
    <3>2. asked.time + m > LastTick /\ when.day = asked.day /\ looked.day = asked.day
      BY <1>0, <1>2, <2>2, <2>7, <2>8, <2>9, <3>1
    <3>3. asked.time + n <= LastTick /\ looked.time = asked.time + n
      BY <1>0, <1>2, <2>7, <3>2
    <3>4. asked.time + n <= when.time /\ when.time < LastTick
      BY <2>4, <2>9, <3>2, <3>3
    <3>5. asked.time = when.time
      BY <1>0, <1>2, <2>2, <3>2, <3>4
    <3> QED
      BY <2>6, <3>2, <3>5
  <2>11. when.day \in spoken.day .. spoken.day + 1 + Week
    BY <1>0, <1>7, <2>2, <2>8, <2>10
  <2> QED
    BY <1>4, <2>3, <2>11, DescribeNamesTheDay
<1> QED
  BY <1>5, <1>6, <1>7 DEF looked, spoken

(* A question that is not answered yet is one of those that are put.       *)
Put ==
  /\ question.of = "hours" => \E hours \in Rotas : question = [of |-> "hours", hours |-> hours]
  /\ question.of = "report" =>
       \E n \in 0 .. 2 : \E fields \in [1 .. n -> Conversation \cup FromCall] :
         question = [of |-> "report", fields |-> fields]
  /\ question.of = "search" => \E base \in Bases : question = [of |-> "search", base |-> base]
  /\ question.of = "prompt" =>
       \E n \in 0 .. 3 : \E rows \in [1 .. n -> Excerpts] : question = [of |-> "prompt", rows |-> rows]
  /\ question.of = "gaps" => \E gaps \in [1 .. 2 -> Occurrences] : question = [of |-> "gaps", gaps |-> gaps]
  /\ question.of = "lookup" => \E tool \in Tools : question = [of |-> "lookup", tool |-> tool]
  /\ question.of = "check" =>
       \E p \in Checked, account \in Behind, region \in Entered :
         question = [of |-> "check", p |-> p, account |-> account, region |-> region]

QuestionsInv == (answer = Unanswered => Put) /\ QuestionsAreServed

LEMMA QuestionsPut == Init => QuestionsInv
<1> SUFFICES ASSUME Init PROVE QuestionsInv
  OBVIOUS
<1>1. answer.of = "nothing"
  BY DEF Init, Unanswered
<1>2. Put
  <2>1. CASE HoursBegin
    BY <2>1 DEF HoursBegin, Put
  <2>2. CASE SpeechBegin
    BY <2>2 DEF SpeechBegin, Put
  <2>3. CASE VoicesBegin
    BY <2>3 DEF VoicesBegin, Put
  <2>4. CASE ReadingBegin
    BY <2>4 DEF ReadingBegin, Put
  <2>5. CASE ChunkingBegin
    BY <2>5 DEF ChunkingBegin, Put
  <2>6. CASE ReportBegin
    <3>1. PICK n \in 0 .. 2 : \E fields \in [1 .. n -> Conversation \cup FromCall] :
                 question = [of |-> "report", fields |-> fields]
      BY <2>6 DEF ReportBegin
    <3>2. question.of = "report"
      BY <3>1
    <3> QED
      BY <3>1, <3>2, Zenon DEF Put
  <2>7. CASE RetrievalBegin
    BY <2>7 DEF RetrievalBegin, Put
  <2>8. CASE ChecksBegin
    BY <2>8 DEF ChecksBegin, Put
  <2>9. CASE LookupsBegin
    BY <2>9 DEF LookupsBegin, Put
  <2>10. CASE \E of \in {"listening", "keys"} : question = [of |-> of]
    BY <2>10 DEF Put
  <2> QED
    BY <2>1, <2>2, <2>3, <2>4, <2>5, <2>6, <2>7, <2>8, <2>9, <2>10 DEF Init
<1> QED
  BY <1>1, <1>2 DEF QuestionsInv, QuestionsAreServed

LEMMA OneMore ==
  ASSUME NEW S, NEW n \in Nat, NEW s \in [1 .. n -> S], NEW e \in S
  PROVE  Append(s, e) \in [1 .. n + 1 -> S]
<1> DEFINE t == Append(s, e)
<1>1. s \in Seq(S) /\ Len(s) = n
  OBVIOUS
<1>2. t \in Seq(S) /\ Len(t) = n + 1
  BY <1>1
<1> HIDE DEF t
<1>3. t \in [1 .. n + 1 -> S]
  BY <1>2
<1> QED
  BY <1>3 DEF t

(* The answers of one step, of one kind.                                   *)
LEMMA SearchServed ==
  ASSUME QuestionsInv, AskSearch
  PROVE  answer'.of = "search" /\ QuestionsAreServed'
<1>1. question.of = "search" /\ answer = Unanswered
  BY DEF AskSearch, Asked
<1>2. PICK base \in Bases : question = [of |-> "search", base |-> base]
  BY <1>1 DEF QuestionsInv, Put
<1>3. PICK embedder \in BOOLEAN, again \in Again : \E found \in Searched(base, again, embedder) :
        Answered([embedder |-> embedder, again |-> again], [of |-> "search", found |-> found])
  BY <1>2 DEF AskSearch
<1>4. PICK found \in Searched(base, again, embedder) :
        Answered([embedder |-> embedder, again |-> again], [of |-> "search", found |-> found])
  BY <1>3
<1>5. answer' = [of |-> "search", found |-> found]
      /\ question' = Together([embedder |-> embedder, again |-> again], [of |-> "search", base |-> base])
  BY <1>2, <1>4 DEF Answered
<1>6. question'.base = base /\ question'.embedder = embedder
  BY <1>5 DEF Together
<1>7. answer'.of = "search" /\ answer'.found = found
  BY <1>5
<1>8. base \in Scored(1 .. 3) /\ again \in Scored(1 .. 3)
  <2>1. [vector : {Nobody, 0, 1, 3}, lexical : {0, 1, 2, 3}] \subseteq [vector : Int \cup {Nobody}, lexical : Int]
    OBVIOUS
  <2>2. base \in Scored(1 .. 3)
    BY <2>1 DEF Bases, Scored
  <2>3. again = [c \in 1 .. 3 |-> [vector |-> 2, lexical |-> c]]
    BY DEF Again
  <2>4. \A c \in 1 .. 3 : [vector |-> 2, lexical |-> c] \in [vector : Int \cup {Nobody}, lexical : Int]
    OBVIOUS
  <2>5. again \in Scored(1 .. 3)
    BY <2>3, <2>4 DEF Scored
  <2> QED
    BY <2>2, <2>5
<1>9. IsFiniteSet(1 .. 3)
  <2>1. 1 \in Int /\ 3 \in Int
    OBVIOUS
  <2> QED
    BY <2>1, FS_Interval
<1>10. BestIsFound(base, embedder, found.first) /\ RecordSays(found)
  BY <1>3, <1>8, <1>9, RecordsSayIt
<1> QED
  BY <1>6, <1>7, <1>10 DEF QuestionsAreServed

LEMMA HoursServed ==
  ASSUME QuestionsInv, AskHours
  PROVE  answer'.of = "hours" /\ QuestionsAreServed'
<1>1. question.of = "hours" /\ answer = Unanswered
  BY DEF AskHours, Asked
<1>2. PICK hours \in Rotas : question = [of |-> "hours", hours |-> hours]
  BY <1>1 DEF QuestionsInv, Put
<1>3. PICK o \in Holidays, i \in [day : {0}, time : Times], n \in {0, 1}, m \in {1, 2} :
        Answered([holidays |-> o, looked |-> Ticked(i, n), spoken |-> Ticked(i, m)],
                 [of |-> "hours", refused |-> Refused(hours, o, i),
                  told |-> ClosedMessage(hours, o, Ticked(i, n), Ticked(i, m))])
  BY <1>2 DEF AskHours
<1> DEFINE looked == Ticked(i, n)
           spoken == Ticked(i, m)
           told == ClosedMessage(hours, o, looked, spoken)
           refused == Refused(hours, o, i)
<1>4. answer' = [of |-> "hours", refused |-> refused, told |-> told]
      /\ question' = Together([holidays |-> o, looked |-> looked, spoken |-> spoken], [of |-> "hours", hours |-> hours])
  BY <1>2, <1>3 DEF Answered
<1>5. i \in Instant /\ n \in 0 .. 1 /\ m \in 1 .. 2 /\ LastTick >= 1
  BY <1>3, HoursAssumption, PartsAssumption DEF Instant
<1>6. hours \in Schedules
  <2>1. Windows \subseteq Written
    BY HoursAssumption, PartsAssumption DEF Windows, Written, Times
  <2>2. PICK D \in SUBSET (0 .. Week - 1) : hours \in [D -> Windows]
    BY DEF Rotas
  <2> QED
    <3>1. hours \in [D -> Written]
      BY <2>1, <2>2
    <3> QED
      BY <3>1 DEF Schedules
<1>7. refused => /\ FirstOpening(hours, o, looked, told.when)
                 /\ told.when = Never \/ told.when.day > spoken.day + 1 + Week
                      \/ DayMeant(told.day, spoken) = told.when.day
  BY <1>5, <1>6, PromisesAreMeant
<1> HIDE DEF looked, spoken, told, refused
<1>8. /\ question'.hours = hours /\ question'.holidays = o
      /\ question'.looked = looked /\ question'.spoken = spoken
  BY <1>4 DEF Together
<1>9. answer'.of = "hours" /\ answer'.refused = refused /\ answer'.told = told
  BY <1>4
<1>10. answer'.refused => ToldWhen'
  BY <1>7, <1>8, <1>9 DEF ToldWhen
<1> QED
  BY <1>9, <1>10 DEF QuestionsAreServed

(* The reports that are asked for are such.                                *)
LEMMA ReportIsKept ==
  ASSUME NEW n \in 0 .. 2, NEW fields \in [1 .. n -> Conversation \cup FromCall],
         NEW dialler \in Told, NEW report, report.fields = fields, report.dialler = dialler
  PROVE  /\ KeepsItsShape(report, Payload(report).values)
         /\ ~ Queued(report) => \E f \in Keyed(report.fields) : f.kind = "number"
<1> DEFINE N == {<<>>, LeadId, <<"city">>, <<"crm">>, <<"dialer", "lead">>}
           K == {"string", "number", "boolean"}
<1>1. report.fields \in [1 .. n -> Configures(N, K)] /\ n \in Nat
  <2>1. Conversation \cup FromCall \subseteq Configures(N, K)
    <3>1. {"conversation"} \subseteq {"conversation", "dialler"} /\ {"dialler"} \subseteq {"conversation", "dialler"}
      OBVIOUS
    <3>2. /\ {<<>>, LeadId, <<"city">>} \subseteq N /\ {<<>>, LeadId, <<"crm">>} \subseteq N
          /\ {<<>>} \subseteq N /\ {<<>>, LeadId, <<"dialer", "lead">>} \subseteq N /\ {"string"} \subseteq K
      OBVIOUS
    <3> HIDE DEF N, K
    <3>3. Conversation \subseteq Configures(N, K)
      BY <3>1, <3>2 DEF Conversation, Configures
    <3>4. FromCall \subseteq Configures(N, K)
      BY <3>1, <3>2 DEF FromCall, Configures, K
    <3> QED
      BY <3>3, <3>4
  <2> HIDE DEF N, K
  <2>2. fields \in [1 .. n -> Configures(N, K)] /\ n \in Nat
    BY <2>1
  <2> QED
    BY <2>2
<1> HIDE DEF N, K
<1>2. \A name \in DOMAIN dialler : dialler[name] \in Raw
  <2>1. CASE dialler = <<>>
    BY <2>1
  <2>2. CASE dialler \in [{<<"dialer", "lead">>} -> Raw]
    BY <2>2
  <2> QED
    BY <2>1, <2>2 DEF Told
<1>3. /\ \A name \in DOMAIN dialler : dialler[name] # Null
      /\ \A is \in {"number", "boolean", "string"}, name \in DOMAIN dialler :
           [is |-> is, of |-> dialler[name]] # Null
  BY <1>2, PartsAssumption
<1>4. \A name \in DOMAIN report.dialler : report.dialler[name] # Null
  BY <1>3
<1>5. \A is \in {"number", "boolean", "string"}, name \in DOMAIN report.dialler :
        [is |-> is, of |-> report.dialler[name]] # Null
  BY <1>3
<1> QED
  BY <1>1, <1>4, <1>5, ReportsKeepTheirShape, Zenon

LEMMA ReportServed ==
  ASSUME QuestionsInv, AskReport
  PROVE  answer'.of = "report" /\ QuestionsAreServed'
<1>1. question.of = "report" /\ answer = Unanswered
  BY DEF AskReport, Asked
<1>2. PICK n \in 0 .. 2 : \E fields \in [1 .. n -> Conversation \cup FromCall] :
        question = [of |-> "report", fields |-> fields]
  BY <1>1 DEF QuestionsInv, Put
<1>3. PICK fields \in [1 .. n -> Conversation \cup FromCall] : question = [of |-> "report", fields |-> fields]
  BY <1>2
<1>4. question.fields = fields
  BY <1>3
<1>5. PICK dialler \in Told, turns \in {<<>>, <<"hello", "">>, <<"hello", "", "">>},
           outcome \in {"answer", "timeout", "failure"}, said \in {"", "v", Null} :
        Answered(Heard(dialler, turns, outcome, said, question.fields),
                 Reported(Together(Heard(dialler, turns, outcome, said, question.fields), question)))
  BY DEF AskReport
<1> DEFINE rest == Heard(dialler, turns, outcome, said, question.fields)
           report == Together(rest, question)
<1>6. answer' = Reported(report) /\ question' = report
  BY <1>5 DEF Answered
<1>7. report.fields = fields /\ report.dialler = dialler
  BY <1>3 DEF Together, Heard
<1> HIDE DEF report
<1>8. /\ answer'.of = "report" /\ answer'.payload = Payload(report)
      /\ answer'.queued = Queued(report)
  BY <1>6 DEF Reported
<1>9. /\ KeepsItsShape(report, Payload(report).values)
      /\ ~ Queued(report) => \E f \in Keyed(report.fields) : f.kind = "number"
  BY <1>7, ReportIsKept
<1> QED
  BY <1>6, <1>8, <1>9 DEF QuestionsAreServed

LEMMA PromptServed ==
  ASSUME QuestionsInv, AskPrompt
  PROVE  answer'.of = "prompt" /\ QuestionsAreServed'
<1>1. question.of = "prompt" /\ answer = Unanswered
  BY DEF AskPrompt, Asked
<1>2. PICK n \in 0 .. 3 : \E rows \in [1 .. n -> Excerpts] : question = [of |-> "prompt", rows |-> rows]
  BY <1>1 DEF QuestionsInv, Put
<1>3. PICK rows \in [1 .. n -> Excerpts] : question = [of |-> "prompt", rows |-> rows]
  BY <1>2
<1>4. answer' = [of |-> "prompt", prompt |-> BuildInstructions(rows)]
      /\ question' = Together([of |-> "prompt", rows |-> rows], [of |-> "prompt", rows |-> rows])
  BY <1>3 DEF AskPrompt, Answered
<1>5. question'.rows = rows
  BY <1>4 DEF Together
<1>6. answer'.of = "prompt" /\ answer'.prompt = BuildInstructions(rows)
  BY <1>4
<1>7. rows \in Chunks(n, {"A", "B"}, {"h", "k"}) /\ n \in Nat
  BY DEF Chunks, Excerpts
<1>8. PromptIsGrounded(rows, BuildInstructions(rows))
  BY <1>7, PromptsAreGrounded
<1> QED
  BY <1>5, <1>6, <1>8 DEF QuestionsAreServed

LEMMA GapsServed ==
  ASSUME QuestionsInv, AskGaps
  PROVE  answer'.of = "gaps" /\ QuestionsAreServed'
<1>1. question.of = "gaps" /\ answer = Unanswered
  BY DEF AskGaps, Asked
<1>2. PICK old \in [1 .. 2 -> Occurrences] : question = [of |-> "gaps", gaps |-> old]
  BY <1>1 DEF QuestionsInv, Put
<1>3. PICK more \in Occurrences, scope \in {Nobody, "us", "them"} :
        \E line \in ListGaps(Append(old, more), scope) :
          Answered([gaps |-> Append(old, more)],
                   [of |-> "gaps", scope |-> scope, line |-> line,
                    after |-> Acknowledged(Append(old, more), scope, line.group)])
  BY <1>2 DEF AskGaps
<1> DEFINE gaps == Append(old, more)
<1>4. PICK line \in ListGaps(gaps, scope) :
        Answered([gaps |-> gaps],
                 [of |-> "gaps", scope |-> scope, line |-> line, after |-> Acknowledged(gaps, scope, line.group)])
  BY <1>3
<1>5. gaps \in [1 .. 3 -> Occurrences]
  <2>1. 2 \in Nat /\ 2 + 1 = 3
    OBVIOUS
  <2> QED
    BY <2>1, OneMore
<1> HIDE DEF gaps
<1>6. answer' = [of |-> "gaps", scope |-> scope, line |-> line, after |-> Acknowledged(gaps, scope, line.group)]
      /\ question' = Together([gaps |-> gaps], [of |-> "gaps", gaps |-> old])
  BY <1>2, <1>4 DEF Answered
<1>7. question'.gaps = gaps
  BY <1>6 DEF Together
<1>8. /\ answer'.of = "gaps" /\ answer'.scope = scope /\ answer'.line = line
      /\ answer'.after = Acknowledged(gaps, scope, line.group)
  BY <1>6
<1> DEFINE Q == {QueryKey(q) : q \in Queries \ {<<"q", Space>>}}
<1>9. \A o \in Occurrences : o \in Misses({Owners[c] : c \in DOMAIN Owners}, DOMAIN Owners, {"kb_miss", "kb_weak"}, Q)
                             /\ o.tenant = Owners[o.campaign]
  BY DEF Occurrences, Misses
<1> HIDE DEF Q
<1>10. gaps \in [1 .. 3 -> Misses({Owners[c] : c \in DOMAIN Owners}, DOMAIN Owners, {"kb_miss", "kb_weak"}, Q)]
  BY <1>5, <1>9
<1>11. Owned(gaps)
  BY <1>5, <1>9 DEF Owned
<1>12. GapsAreHandled(gaps, scope, line, Acknowledged(gaps, scope, line.group))
  BY <1>10, <1>11, LinesAreHandled
<1> QED
  BY <1>7, <1>8, <1>12 DEF QuestionsAreServed

LEMMA LookupServed ==
  ASSUME QuestionsInv, AskTool
  PROVE  answer'.of = "lookup" /\ QuestionsAreServed'
<1>1. question.of = "lookup" /\ answer = Unanswered
  BY DEF AskTool, Asked
<1>2. PICK tool \in Tools : question = [of |-> "lookup", tool |-> tool]
  BY <1>1 DEF QuestionsInv, Put
<1>3. PICK value \in Dictated, api \in [outcome : Outcomes, body : Bodies], call \in {Unset, "k"} :
        Answered([value |-> value, api |-> api, call |-> call],
          [of |-> "lookup", ran |-> Run(tool, value, api, call), test |-> TestTool(tool, value, api)])
  BY <1>2 DEF AskTool
<1>4. answer' = [of |-> "lookup", ran |-> Run(tool, value, api, call), test |-> TestTool(tool, value, api)]
      /\ question' = Together([value |-> value, api |-> api, call |-> call], [of |-> "lookup", tool |-> tool])
  BY <1>2, <1>3 DEF Answered
<1>5. question'.tool = tool /\ question'.value = value /\ question'.api = api /\ question'.call = call
  BY <1>4 DEF Together
<1>6. /\ answer'.of = "lookup" /\ answer'.ran = Run(tool, value, api, call)
      /\ answer'.test = TestTool(tool, value, api)
  BY <1>4
<1>7. tool.digits \in BOOLEAN /\ tool.keep \in BOOLEAN /\ api.outcome \in Outcomes /\ api.body \in Bodies
  BY <1>2, <1>3 DEF Tools
<1>8. LookupIsAnswered(tool, value, api, call, Run(tool, value, api, call))
      /\ TestIsTrue(tool, value, api, Run(tool, value, api, call), TestTool(tool, value, api))
  BY <1>7, LookupsAreAnswered, TestsAreTrue
<1> QED
  BY <1>5, <1>6, <1>8 DEF QuestionsAreServed

LEMMA CheckServed ==
  ASSUME QuestionsInv, AskProvider
  PROVE  answer'.of = "check" /\ QuestionsAreServed'
<1>1. question.of = "check" /\ answer = Unanswered
  BY DEF AskProvider, Asked
<1>2. PICK p \in Checked, account \in Behind, region \in Entered :
        question = [of |-> "check", p |-> p, account |-> account, region |-> region]
  BY <1>1 DEF QuestionsInv, Put
<1>3. PICK first \in Weathers, then \in Weathers :
        Answered([first |-> first, then |-> then],
          [of |-> "check", verdict |-> Verdict(p, account, region, first, then)])
  BY <1>2 DEF AskProvider
<1>4. answer' = [of |-> "check", verdict |-> Verdict(p, account, region, first, then)]
      /\ question' = Together([first |-> first, then |-> then], [of |-> "check", p |-> p, account |-> account, region |-> region])
  BY <1>2, <1>3 DEF Answered
<1>5. question'.p = p /\ question'.account = account /\ question'.region = region
      /\ question'.first = first /\ question'.then = then
  BY <1>4 DEF Together
<1>6. answer'.of = "check" /\ answer'.verdict = Verdict(p, account, region, first, then)
  BY <1>4
<1>7. OnlyKeysAreKept(p, account, region, first, then, Verdict(p, account, region, first, then))
  BY KeysAreJudged
<1> QED
  BY <1>5, <1>6, <1>7 DEF QuestionsAreServed

(* In every run of the parts side by side, every question of these kinds   *)
(* is served.                                                              *)
LEMMA QuestionsStep == QuestionsInv /\ [Next]_vars => QuestionsInv'
<1> SUFFICES ASSUME QuestionsInv, [Next]_vars PROVE QuestionsInv'
  OBVIOUS
<1> DEFINE Other == {"markers", "clauses", "voice", "page", "workbook", "chunking"}
<1>1. ASSUME answer'.of \in Other PROVE QuestionsInv'
  BY <1>1 DEF QuestionsInv, QuestionsAreServed, Unanswered
<1>2. ASSUME answer'.of \in {"hours", "report", "search", "prompt", "gaps", "lookup", "check"}, QuestionsAreServed'
      PROVE  QuestionsInv'
  BY <1>2 DEF QuestionsInv, Unanswered
<1>3. ASSUME UNCHANGED <<question, answer>> PROVE QuestionsInv'
  <2>1. question' = question /\ answer' = answer
    BY <1>3
  <2>2. Put' <=> Put
    BY <2>1 DEF Put
  <2>3. QuestionsAreServed' <=> QuestionsAreServed
    BY <2>1 DEF QuestionsAreServed, ToldWhen
  <2> QED
    BY <2>1, <2>2, <2>3 DEF QuestionsInv
<1>4. CASE AskMarkers \/ AskClauses \/ AskVoice
  <2>1. AskMarkers => answer'.of = "markers"
    BY DEF AskMarkers, Answered
  <2>2. AskClauses => answer'.of = "clauses"
    BY DEF AskClauses, Answered
  <2>3. AskVoice => answer'.of = "voice"
    BY DEF AskVoice, Answered
  <2> QED
    BY <1>1, <1>4, <2>1, <2>2, <2>3
<1>5. CASE AskPage \/ AskWorkbook \/ AskChunking
  <2>1. AskPage => answer'.of = "page"
    BY DEF AskPage, Answered
  <2>2. AskWorkbook => answer'.of = "workbook"
    BY DEF AskWorkbook, Answered
  <2>3. AskChunking => answer'.of = "chunking"
    BY DEF AskChunking, Answered
  <2> QED
    BY <1>1, <1>5, <2>1, <2>2, <2>3
<1>6. CASE AskSearch
  BY <1>2, <1>6, SearchServed
<1>7. CASE AskPrompt
  BY <1>2, <1>7, PromptServed
<1>8. CASE AskGaps
  BY <1>2, <1>8, GapsServed
<1>9. CASE AskTool
  BY <1>2, <1>9, LookupServed
<1>10. CASE AskProvider
  BY <1>2, <1>10, CheckServed
<1>11. CASE AskHours
  BY <1>2, <1>11, HoursServed
<1>12. CASE AskReport
  BY <1>2, <1>12, ReportServed
<1>13. CASE Listen
  BY <1>3, <1>13 DEF Listen
<1>14. CASE HandleKeys
  BY <1>3, <1>14 DEF HandleKeys
<1>15. CASE UNCHANGED vars
  BY <1>3, <1>15 DEF vars
<1> QED
  BY <1>4, <1>5, <1>6, <1>7, <1>8, <1>9, <1>10, <1>11, <1>12, <1>13, <1>14, <1>15 DEF Next

(* In every behaviour, whatever callers, campaigns and the console ask of  *)
(* the opening hours, a base, the page of gaps, a tool, a report or a key  *)
(* is answered as the theorems above say: the property of the run Parts    *)
(* (hours.py:185, kb.py:648, gaps.py:106, tools.py:266, postback.py:248,   *)
(* provider_keys.py:419).                                                  *)
THEOREM QuestionsHold == Spec => []QuestionsAreServed
<1>1. QuestionsInv => QuestionsAreServed
  BY DEF QuestionsInv
<1> QED
  BY <1>1, QuestionsPut, QuestionsStep, PTL DEF Spec
=============================================================================
