------------------------------- MODULE Routing -------------------------------
(***************************************************************************)
(* Which campaign a dialled number leads to, and what the dialler is told  *)
(* of it before it dials.  Clients and their campaigns are switched on and *)
(* off, made and deleted; a call finds its campaign and its keys, and then *)
(* its row is opened; the dialler's question is answered from two queries. *)
(* Nothing locks a row, so a step is a statement.                          *)
(***************************************************************************)
EXTENDS Integers, FiniteSets

CONSTANTS
  Clients, Campaigns,
  ClientOf,     \* tenant_id of each campaign
  Numbers,      \* what may be dialled
  DiallerIds,   \* the dialler's own campaign ids
  Dials,        \* calls
  Capacity,     \* Capacity[c]: max_parallel_calls, or Nothing
  Nothing,      \* no campaign, no limit, or no request
  Startup,      \* the tables at the start: leads, registered, and who is on
  MaxEdits      \* bound: edits of the console, and turns of the clock

Looks == [to : {"enable", "delete"}, of : Campaigns]
Questions == [of : Campaigns, stale : BOOLEAN]

ASSUME RoutingAssumption ==
  /\ Nothing \notin Campaigns \cup Looks \cup Questions
  /\ Startup.leads \in [Numbers -> Campaigns \cup {Nothing}]
  /\ Startup.registered \in [DiallerIds -> Campaigns \cup {Nothing}]

VARIABLES
  running,   \* clients whose status is 'active'
  known,     \* clients with an api_key_hash
  complete,  \* clients with a key for every provider their campaigns use
  state,     \* campaigns: not there yet, off, on (enabled), or deleted
  leads,     \* campaign_routes: the campaign of a number
  registered, \* campaign_dialler_ids: the campaign of an id
  open,      \* campaigns within their calling hours
  dial,      \* a call: where it is, and the campaign_id it carries
  console,   \* the request of the console that has looked and not written
  asking,    \* the dialler's request between its two queries
  told,      \* history: what the dialler was told of a campaign that has not
             \* been touched since
  overtaken, \* history: calls that started while their campaign was deleted
  edits

tables == <<running, known, complete, state, leads, registered, open>>
rvars == <<tables, dial, console, asking, told, overtaken, edits>>

There(c) == c # Nothing /\ state[c] \in {"off", "on"}

RoutingInit ==
  /\ running = Clients /\ known = Clients /\ complete = Clients
  /\ leads = Startup.leads /\ registered = Startup.registered
  /\ state = [c \in Campaigns |-> IF c \in Startup.on THEN "on" ELSE "unborn"]
  /\ open = Campaigns
  /\ dial = [k \in Dials |-> [at |-> "none", of |-> Nothing]]
  /\ console = Nothing /\ asking = Nothing
  /\ told = [c \in Campaigns |-> "nothing"] /\ overtaken = {} /\ edits = 0

-----------------------------------------------------------------------------
(* The console.  Deleting asks for the calls on record first, enabling for *)
(* the keys; the write is another statement.                               *)

Toggled(S, x) == IF x \in S THEN S \ {x} ELSE S \cup {x}

(* update_tenant; create_api_key and revoke_api_key; set and delete of the *)
(* provider keys.                                                          *)
EditClient ==
  /\ \E t \in Clients :
       \/ running' = Toggled(running, t) /\ UNCHANGED <<known, complete>>
       \/ known' = Toggled(known, t) /\ UNCHANGED <<running, complete>>
       \/ complete' = Toggled(complete, t) /\ UNCHANGED <<running, known>>
  /\ UNCHANGED <<state, leads, registered, open, console>>

(* Born disabled for a client without the keys.                            *)
CreateCampaign ==
  /\ \E c \in Campaigns :
       /\ state[c] = "unborn"
       /\ state' = [state EXCEPT ![c] = IF ClientOf[c] \in complete THEN "on" ELSE "off"]
  /\ UNCHANGED <<running, known, complete, leads, registered, open, console>>

DisableCampaign ==
  /\ \E c \in Campaigns : state[c] = "on" /\ state' = [state EXCEPT ![c] = "off"]
  /\ UNCHANGED <<running, known, complete, leads, registered, open, console>>

(* The rows a call has left, whatever became of the call.                  *)
Rows(c) == {k \in Dials : dial[k].at \in {"up", "over"} /\ dial[k].of = c}
OpenRows(c) == {k \in Rows(c) : dial[k].at = "up"}

(* Mutant of Deletable: the campaign is taking no call now.                *)
NoCallNow(c) == There(c) /\ OpenRows(c) = {}

Deletable(c) == There(c) /\ Rows(c) = {}

CheckCampaign ==
  /\ console = Nothing
  /\ \E c \in Campaigns :
       \/ /\ state[c] = "off" /\ ClientOf[c] \in complete
          /\ console' = [to |-> "enable", of |-> c]
       \/ Deletable(c) /\ console' = [to |-> "delete", of |-> c]
  /\ UNCHANGED tables

(* The campaign's routes and ids go with it, its calls' rows let go of it. *)
WithoutIt(table, c) == [x \in DOMAIN table |-> IF table[x] = c THEN Nothing ELSE table[x]]

WriteCampaign ==
  /\ console # Nothing
  /\ IF console.to = "enable"
       THEN /\ state' = [state EXCEPT ![console.of] = "on"]
            /\ UNCHANGED <<leads, registered, dial>>
       ELSE /\ state' = [state EXCEPT ![console.of] = "gone"]
            /\ leads' = WithoutIt(leads, console.of)
            /\ registered' = WithoutIt(registered, console.of)
            /\ dial' = [k \in Dials |-> IF k \in Rows(console.of)
                                          THEN [dial[k] EXCEPT !.of = Nothing] ELSE dial[k]]
  /\ console' = Nothing
  /\ UNCHANGED <<running, known, complete, open>>

(* A number, and an id, leads to one campaign of all clients.              *)
EditRoutes ==
  /\ \/ /\ \E n \in Numbers :
             \/ \E c \in Campaigns :
                  There(c) /\ leads[n] = Nothing /\ leads' = [leads EXCEPT ![n] = c]
             \/ leads[n] # Nothing /\ leads' = [leads EXCEPT ![n] = Nothing]
        /\ UNCHANGED registered
     \/ /\ \E i \in DiallerIds :
             \/ \E c \in Campaigns :
                  /\ There(c) /\ Capacity[c] # Nothing /\ registered[i] = Nothing
                  /\ registered' = [registered EXCEPT ![i] = c]
             \/ registered[i] # Nothing /\ registered' = [registered EXCEPT ![i] = Nothing]
        /\ UNCHANGED leads
  /\ UNCHANGED <<running, known, complete, state, open, console>>

HoursPass ==
  /\ \E c \in Campaigns : open' = Toggled(open, c)
  /\ UNCHANGED <<running, known, complete, state, leads, registered, console>>

-----------------------------------------------------------------------------
(* A call: load_config_for_did, the keys, start_call.                      *)

Moves(k, place) == dial' = [dial EXCEPT ![k].at = place]

Takes(c) == c # Nothing /\ state[c] = "on" /\ ClientOf[c] \in running

FindConfig(k) ==
  /\ dial[k].at = "none"
  /\ \E n \in Numbers :
       dial' = [dial EXCEPT ![k] = [at |-> IF Takes(leads[n]) THEN "found" ELSE "declined",
                                    of |-> leads[n]]]
  /\ UNCHANGED overtaken

FindKeys(k) ==
  /\ dial[k].at = "found"
  /\ Moves(k, IF ClientOf[dial[k].of] \in complete THEN "ready" ELSE "declined")
  /\ UNCHANGED overtaken

(* The row of a campaign that is gone is refused by its foreign key.       *)
StartRow(k) ==
  /\ dial[k].at = "ready"
  /\ Moves(k, IF There(dial[k].of) THEN "up" ELSE "failed")
  /\ overtaken' = IF console = [to |-> "delete", of |-> dial[k].of]
                    THEN overtaken \cup {k} ELSE overtaken

EndRow(k) ==
  /\ dial[k].at = "up" /\ Moves(k, "over")
  /\ UNCHANGED overtaken

-----------------------------------------------------------------------------
(* The dialler: GET /capacity                                              *)

(* Mutant of Answer: a suspended client is told like any other.            *)
AnswerOfAny(t, c) ==
  IF t \notin known THEN "401"
  ELSE IF c = Nothing THEN "404"
  ELSE IF ClientOf[c] # t THEN "404"
  ELSE IF state[c] # "on" THEN "409 off"
  ELSE IF Capacity[c] = Nothing THEN "409 no limit"
  ELSE IF c \notin open THEN "zeros" ELSE "count"

Answer(t, c) ==
  IF t \notin known THEN "401"
  ELSE IF c = Nothing THEN "404"
  ELSE IF ClientOf[c] # t THEN "404"
  ELSE IF t \notin running \/ state[c] # "on" THEN "409 off"
  ELSE IF Capacity[c] = Nothing THEN "409 no limit"
  ELSE IF c \notin open THEN "zeros" ELSE "count"

Free == Capacity[asking.of] - Cardinality(OpenRows(asking.of))

(* An answer is of the moment of its first query.                          *)
AskCapacity ==
  /\ asking = Nothing
  /\ \E t \in Clients, i \in DiallerIds :
       LET c == registered[i] IN
       \/ /\ Answer(t, c) = "count"
          /\ asking' = [of |-> c, stale |-> FALSE] /\ UNCHANGED told
       \/ /\ Answer(t, c) = "409 off"
          /\ told' = [told EXCEPT ![c] = "off"] /\ UNCHANGED asking

CountCalls ==
  /\ asking # Nothing
  /\ told' = IF Free > 0 /\ ~asking.stale /\ ClientOf[asking.of] \in complete
               THEN [told EXCEPT ![asking.of] = "room"] ELSE told
  /\ asking' = Nothing

-----------------------------------------------------------------------------
Touched(c) ==
  \/ state'[c] # state[c] \/ (c \in open) # (c \in open')
  \/ (ClientOf[c] \in running) # (ClientOf[c] \in running')
  \/ (ClientOf[c] \in complete) # (ClientOf[c] \in complete')

(* History: what was told is not held against what came after.             *)
Outdate ==
  /\ told' = [c \in Campaigns |-> IF Touched(c) THEN "nothing" ELSE told[c]]
  /\ asking' = IF asking = Nothing THEN Nothing
               ELSE [asking EXCEPT !.stale = @ \/ Touched(asking.of)]

Console ==
  \/ /\ edits < MaxEdits /\ edits' = edits + 1 /\ UNCHANGED dial
     /\ \/ EditClient \/ CreateCampaign \/ DisableCampaign \/ EditRoutes
        \/ HoursPass \/ CheckCampaign
  \/ WriteCampaign /\ UNCHANGED edits

Call(k) == FindConfig(k) \/ FindKeys(k) \/ StartRow(k) \/ EndRow(k)

Dialler == AskCapacity \/ CountCalls

RoutingNext ==
  \/ Console /\ Outdate /\ UNCHANGED overtaken
  \/ /\ \E k \in Dials : Call(k)
     /\ UNCHANGED <<tables, console, asking, told, edits>>
  \/ Dialler /\ UNCHANGED <<tables, dial, console, overtaken, edits>>

RoutingSpec == RoutingInit /\ [][RoutingNext]_rvars

-----------------------------------------------------------------------------
(* Properties. *)

(* What the dialler is told and what becomes of a call are decided in two  *)
(* programs from the same tables (capacity, dialler_api.py:140-206, and    *)
(* load_config_for_did, store.py:196).  They agree, both ways, until       *)
(* somebody touches the campaign: with a free slot told, no call of it is  *)
(* declined; told that none are accepted, none is let in.                  *)
AnswersAgreeWithCalls ==
  [][\A k \in Dials, c \in Campaigns : dial'[k].of = c =>
       /\ told[c] = "room" => dial'[k].at # "declined" \/ dial[k].at = "declined"
       /\ told[c] = "off" => dial'[k].at # "found" \/ dial[k].at = "found"]_rvars

(* An id of another client is answered like one that nobody has (capacity, *)
(* dialler_api.py:155), whatever the other one's campaign is going through.*)
OthersIdsAreUnknown ==
  \A t \in Clients, c \in Campaigns :
    ClientOf[c] # t => Answer(t, c) = Answer(t, Nothing)

(* A call that has a row keeps the campaign it was of, and with it its     *)
(* client's reports, unless its row was opened while a deletion that had   *)
(* counted the calls was on its way (delete_campaign, campaigns.py:168).   *)
CallsKeepTheirCampaign ==
  \A k \in Dials : dial[k].at \in {"up", "over"} => dial[k].of # Nothing \/ k \in overtaken

(* Clients are kept apart, and what is on record of them is kept.          *)
RecordsAreKept == OthersIdsAreUnknown /\ CallsKeepTheirCampaign

RoutingOK ==
  /\ leads \in [Numbers -> Campaigns \cup {Nothing}]
  /\ registered \in [DiallerIds -> Campaigns \cup {Nothing}]
  /\ state \in [Campaigns -> {"unborn", "off", "on", "gone"}]
  /\ dial \in [Dials -> [at : {"none", "found", "ready", "up", "over",
                               "declined", "failed"},
                         of : Campaigns \cup {Nothing}]]
  /\ console \in Looks \cup {Nothing}
  /\ asking \in Questions \cup {Nothing}
  /\ told \in [Campaigns -> {"nothing", "room", "off"}]

(* Why calls keep their campaign: a call under way has one, and the rows   *)
(* of one that is about to be deleted came after they were counted.        *)
RowsOK ==
  /\ \A k \in Dials : dial[k].at \in {"found", "ready"} => dial[k].of # Nothing
  /\ console \in Looks /\ console.to = "delete" => Rows(console.of) \subseteq overtaken
  /\ CallsKeepTheirCampaign

(* Why the answers agree: what has been told, or is about to be, is so. *)
ToldOK ==
  /\ \A c \in Campaigns :
       /\ told[c] = "room" => Takes(c) /\ ClientOf[c] \in complete
       /\ told[c] = "off" => ~Takes(c)
  /\ asking \in Questions /\ ~asking.stale => Takes(asking.of)

RoutingInv == RoutingOK /\ RowsOK /\ ToldOK
=============================================================================
