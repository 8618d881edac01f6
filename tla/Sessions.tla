------------------------------ MODULE Sessions ------------------------------
(***************************************************************************)
(* The console sessions of one person: the rows of `user_sessions`, the    *)
(* refresh token in the localStorage of each browser, which all its tabs   *)
(* share, and the tabs, each with an access token, an idle timer and a     *)
(* heartbeat of its own.  The server's handlers are a step per statement,  *)
(* and no transaction or lock holds two of them together.                  *)
(*                                                                         *)
(* A session is known by its place in the sequence sess, and so is the     *)
(* refresh token that names it.  A time in the code is an age here, which  *)
(* every tick makes one more until it makes no difference any more; a      *)
(* request takes no tick, but other requests come between its steps.       *)
(***************************************************************************)
EXTENDS Integers, Sequences, FiniteSets

CONSTANTS
  Tabs, Browsers,
  Home,          \* the browser of a tab
  Idle,          \* IDLE_MS and idle_timeout_minutes
  Grace,         \* what the server adds to it
  Beat,          \* HEARTBEAT_MS: the least time between two heartbeats
  Access,        \* access_token_minutes
  MaxSessions,   \* bound: rows issued
  MaxFaults,     \* bound: answers lost, tabs closed, laptops asleep
  MaxPasswords   \* bound: changes of the password

ASSUME SessionsAssumption ==
  /\ Home \in [Tabs -> Browsers]
  /\ {Idle, Grace, Access, MaxSessions, MaxFaults, MaxPasswords}
       \subseteq Nat
  /\ Beat \in Nat \ {0}
  /\ Beat <= Grace
  /\ IsFiniteSet(Tabs)

VARIABLES
  sess,      \* the rows of user_sessions
  stored,    \* the refresh token in a browser, 0 for none
  tab,       \* what a tab holds, and the request it has under way
  epoch,     \* how often the password was changed
  faults,    \* how much of MaxFaults is used up
  touched,   \* history: how long ago a browser had its last real input
  excused,   \* history: tabs that may be signed out through no fault of theirs
  forked,    \* history: sign-ins of whose requests two overlapped: a refresh
             \* had read a token, and another or a logout came before it ended
  left       \* history: sign-ins that were signed out of

svars == <<sess, stored, tab, epoch, faults, touched, excused, forked, left>>

Old == Idle + Grace + 1
Older(age, most) == IF age < most THEN age + 1 ELSE age

(* Of a revoked row nothing is read but that it is revoked. *)
Revoked == [chain |-> 0, seen |-> 0, epoch |-> 0, raced |-> FALSE]
Alive(i) == sess[i] # Revoked
Row == [chain : Nat, seen : 0..Old, epoch : Nat, raced : BOOLEAN]

Here(t) == Home[t]
Beside(t) == {u \in Tabs \ {t} : Home[u] = Home[t]}

(* No request. *)
Quiet == [pc |-> "quiet", token |-> 0, row |-> Revoked, heir |-> 0,
          want |-> {}]
(* A page with nobody signed in. *)
Blank == [user |-> FALSE, awake |-> TRUE, restored |-> FALSE, access |-> 0,
          got |-> 0, active |-> 0, beat |-> Beat, req |-> Quiet]

SessionsInit ==
  /\ sess = <<>>
  /\ stored = [b \in Browsers |-> 0]
  /\ tab = [t \in Tabs |-> Blank]
  /\ epoch = 0 /\ faults = 0
  /\ touched = [b \in Browsers |-> Old]
  /\ excused = {}
  /\ forked = {} /\ left = {}

Pc(t) == tab[t].req.pc
Req(t) == tab[t].req
Set(t, r) == tab' = [tab EXCEPT ![t].req = r]
Goto(t, pc) == tab' = [tab EXCEPT ![t].req.pc = pc]
Faulty == faults < MaxFaults /\ faults' = faults + 1

(* Tokens of decode_access_token; whether the session still lives is not   *)
(* asked.                                                                  *)
MayAsk(t) == tab[t].access # 0 /\ tab[t].got < Access

(* The requests that will add a row. *)
Issuing == {t \in Tabs : Pc(t) \notin {"quiet", "refused", "answered", "beat",
                                       "logout", "leave"}}
MayIssue == Len(sess) + Cardinality(Issuing) < MaxSessions

(* What t does to the tokens its browser stores, other tabs may suffer.    *)
Blame(t) == excused' = excused \cup Beside(t)

-----------------------------------------------------------------------------
(* _issue *)

Issue(t, row) ==
  /\ sess' = Append(sess, row)
  /\ Set(t, [Req(t) EXCEPT !.pc = "answered", !.heir = Len(sess) + 1,
                           !.row = Revoked])

Revoke(S) == [i \in DOMAIN sess |-> IF i \in S THEN Revoked ELSE sess[i]]

(* The row a request is about to insert; the password may have changed     *)
(* since the request was let in.                                           *)
Inserted(t, seen) ==
  [Req(t).row EXCEPT !.seen = seen, !.raced = @ \/ Req(t).row.epoch < epoch]

(* login: the password is verified, then the session inserted. *)
Fresh(e) == [chain |-> 0, seen |-> 0, epoch |-> e, raced |-> FALSE]

SignIn(t) ==
  /\ ~tab[t].user /\ Pc(t) = "quiet" /\ MayIssue
  /\ Set(t, [Quiet EXCEPT !.pc = "login", !.row = Fresh(epoch)])
  /\ touched' = [touched EXCEPT ![Here(t)] = 0]
  /\ excused' = IF \A u \in Beside(t) : tab[u] = [Blank EXCEPT !.beat = tab[u].beat]
                THEN excused \ {t} ELSE excused
  /\ UNCHANGED <<sess, stored, epoch, faults, forked, left>>

LoginIssue(t) ==
  /\ Pc(t) = "login"
  /\ Issue(t, [Inserted(t, 0) EXCEPT !.chain = Len(sess) + 1])
  /\ UNCHANGED <<stored, epoch, faults, touched, excused, forked, left>>

-----------------------------------------------------------------------------
(* refresh *)

(* The tab reads the token its browser stores; without one it only fails.  *)
(* One refresh of a tab is under way at a time, for all its requests.      *)
Refreshing(t, want) ==
  [Quiet EXCEPT !.pc = "refresh", !.token = stored[Here(t)], !.want = want]

AskRefresh(t, want) ==
  stored[Here(t)] # 0 /\ MayIssue /\ Set(t, Refreshing(t, want))

TooIdle(row) == row.seen > Idle + Grace

(* The sign-in of which another request has read token i and not ended. *)
Overlap(t, i) ==
  forked \cup {Req(u).row.chain :
                 u \in {v \in Tabs \ {t} : Pc(v) \in {"rotate", "issue"}
                                            /\ Req(v).token = i}}

(* The row is read; everything below is decided by what was read here. *)
RefreshRead(t) ==
  LET i == Req(t).token IN
  /\ Pc(t) = "refresh"
  /\ Set(t, [Req(t) EXCEPT !.row = sess[i],
       !.pc = CASE ~Alive(i) -> "refused"
                [] Alive(i) /\ TooIdle(sess[i]) -> "expire"
                [] OTHER -> "rotate"])
  /\ forked' = Overlap(t, i)
  /\ UNCHANGED <<sess, stored, epoch, faults, touched, excused, left>>

(* Mutant of Rotated: the old token is left as it is. *)
NotRotated(t) == sess

Rotated(t) == Revoke({Req(t).token})

(* The old token dies, or the session that was idle for too long. *)
RefreshRevoke(t) ==
  /\ Pc(t) \in {"rotate", "expire"}
  /\ sess' = Rotated(t)
  /\ Goto(t, IF Pc(t) = "rotate" THEN "issue" ELSE "refused")
  /\ Blame(t)
  /\ UNCHANGED <<stored, epoch, faults, touched, forked, left>>

(* Mutant of Carried: the new session has just been seen. *)
CarriedNow(t) == 0

Carried(t) == Req(t).row.seen

RefreshIssue(t) ==
  /\ Pc(t) = "issue"
  /\ Issue(t, Inserted(t, Carried(t)))
  /\ UNCHANGED <<stored, epoch, faults, touched, excused, forked, left>>

-----------------------------------------------------------------------------
(* A tab and its answers. *)

(* What is asked again with the new access token. *)
Asked(t) ==
  CASE Req(t).want = {} -> Quiet
    [] Req(t).want = {"beat"} -> [Quiet EXCEPT !.pc = "beat"]
    [] OTHER -> [Quiet EXCEPT !.pc = "logout", !.token = Req(t).token]

(* storeTokens; a page that had nobody begins its idle timer.  The logout  *)
(* that is asked again still names the token it was first asked for.       *)
Answered(t) ==
  LET h == Req(t).heir IN
  /\ Pc(t) = "answered"
  /\ stored' = [stored EXCEPT ![Here(t)] = h]
  /\ tab' = [tab EXCEPT ![t].access = h, ![t].got = 0, ![t].user = TRUE,
               ![t].active = IF tab[t].user THEN @ ELSE 0,
               ![t].req = Asked(t)]
  /\ Blame(t)
  /\ UNCHANGED <<sess, epoch, faults, touched, forked, left>>

(* clearTokens and onAuthLost, in the storage all tabs share. *)
Dropped(t) ==
  /\ stored' = [stored EXCEPT ![Here(t)] = 0]
  /\ tab' = [tab EXCEPT ![t] = [Blank EXCEPT !.beat = tab[t].beat]]

Refused(t) ==
  /\ Pc(t) = "refused"
  /\ Dropped(t) /\ Blame(t)
  /\ UNCHANGED <<sess, epoch, faults, touched, forked, left>>

(* The network fails, or the console restarts, at any step of a request:   *)
(* a refresh that throws counts as refused, a heartbeat as sent, and one   *)
(* signs out whether or not the server agrees.                             *)
Lose(t) ==
  /\ Faulty /\ Pc(t) \notin {"quiet", "refused", "leave"}
  /\ IF Pc(t) \in {"beat", "logout"}
     THEN /\ Set(t, IF Pc(t) = "beat" THEN Quiet ELSE [Quiet EXCEPT !.pc = "leave"])
          /\ UNCHANGED stored
     ELSE Dropped(t)
  /\ excused' = excused \cup {t} \cup Beside(t)
  /\ UNCHANGED <<sess, epoch, touched, forked, left>>

Ready(t) == tab[t].user /\ tab[t].awake /\ Pc(t) = "quiet"

(* The layout polls; only a poll whose token has expired changes anything. *)
Poll(t) ==
  /\ Ready(t) /\ ~MayAsk(t)
  /\ AskRefresh(t, {})
  /\ UNCHANGED <<sess, stored, epoch, faults, touched, excused, forked,
                 left>>

(* The heartbeat of a tab: with the access token it has, or after a        *)
(* refresh, or in vain.                                                    *)
BeatRequest(t) ==
  CASE MayAsk(t) -> [Quiet EXCEPT !.pc = "beat"]
    [] ~MayAsk(t) /\ stored[Here(t)] # 0 -> Refreshing(t, {"beat"})
    [] OTHER -> Quiet

(* markActive: real input, and a heartbeat if the last is long enough ago. *)
Input(t) ==
  /\ Ready(t)
  /\ \/ /\ tab[t].beat < Beat
        /\ tab' = [tab EXCEPT ![t].active = 0]
     \/ /\ tab[t].beat >= Beat
        /\ BeatRequest(t).pc = "refresh" => MayIssue
        /\ tab' = [tab EXCEPT ![t].active = 0, ![t].beat = 0,
                              ![t].req = BeatRequest(t)]
  /\ touched' = [touched EXCEPT ![Here(t)] = 0]
  /\ UNCHANGED <<sess, stored, epoch, faults, excused, forked, left>>

(* heartbeat: the session of the access token, while it is not revoked. *)
Heartbeat(t) ==
  LET i == tab[t].access IN
  /\ Pc(t) = "beat"
  /\ sess' = IF Alive(i) THEN [sess EXCEPT ![i].seen = 0] ELSE sess
  /\ tab' = [tab EXCEPT ![t].req = Quiet,
                        ![t].restored = @ /\ ~Alive(i)]
  /\ UNCHANGED <<stored, epoch, faults, touched, excused, forked, left>>

(* restoreSession in a new tab or after a reload: the idle timer starts    *)
(* anew, the session's own clock does not.                                 *)
Open(t) ==
  /\ Pc(t) = "quiet" /\ ~tab[t].user
  /\ stored[Here(t)] # 0 /\ MayIssue
  /\ tab' = [tab EXCEPT ![t].req = Refreshing(t, {}), ![t].restored = TRUE,
                        ![t].beat = Beat]
  /\ UNCHANGED <<sess, stored, epoch, faults, touched, excused, forked,
                 left>>

Close(t) ==
  /\ Faulty /\ Pc(t) = "quiet" /\ tab[t].user
  /\ tab' = [tab EXCEPT ![t] = Blank]
  /\ UNCHANGED <<sess, stored, epoch, touched, excused, forked, left>>

-----------------------------------------------------------------------------
(* Signing out. *)

(* The tick of the idle timer finds the tab idle for too long. *)
TimedOut(t) == tab[t].user /\ tab[t].awake /\ tab[t].active >= Idle

(* signOut, by the timer or the button: the token to revoke is read first. *)
(* If the access token has expired, the api refreshes before it asks.      *)
SignOut(t) ==
  /\ Ready(t)
  /\ \/ stored[Here(t)] = 0 /\ Goto(t, "leave")
     \/ /\ stored[Here(t)] # 0 /\ MayAsk(t)
        /\ Set(t, [Quiet EXCEPT !.pc = "logout", !.token = stored[Here(t)]])
     \/ ~MayAsk(t) /\ AskRefresh(t, {"logout"})
  /\ UNCHANGED <<sess, stored, epoch, faults, touched, excused, forked,
                 left>>

Signed(t) == Req(t).token

(* logout: the token that was read is revoked. *)
Logout(t) ==
  LET i == Signed(t) IN
  /\ Pc(t) = "logout"
  /\ left' = IF Alive(Req(t).token) THEN left \cup {sess[Req(t).token].chain} ELSE left
  /\ forked' = Overlap(t, i)
  /\ sess' = Revoke({i})
  /\ Set(t, [Quiet EXCEPT !.pc = "leave"])
  /\ Blame(t)
  /\ UNCHANGED <<stored, epoch, faults, touched>>

Leave(t) ==
  /\ Pc(t) = "leave"
  /\ Dropped(t) /\ Blame(t)
  /\ UNCHANGED <<sess, epoch, faults, touched, forked, left>>

-----------------------------------------------------------------------------
(* The password. *)

EverySession == DOMAIN sess

NewPassword ==
  /\ epoch < MaxPasswords /\ epoch' = epoch + 1
  /\ sess' = Revoke(EverySession)
  /\ excused' = Tabs

(* change_password by the person himself, who is handed a new pair. *)
ChangePassword(t) ==
  /\ Ready(t) /\ MayAsk(t) /\ MayIssue
  /\ NewPassword
  /\ Set(t, [Quiet EXCEPT !.pc = "login", !.row = Fresh(epoch + 1)])
  /\ touched' = [touched EXCEPT ![Here(t)] = 0]
  /\ UNCHANGED <<stored, faults, forked, left>>

(* reset_password by somebody else. *)
Reset ==
  /\ NewPassword
  /\ UNCHANGED <<stored, tab, faults, touched, forked, left>>

-----------------------------------------------------------------------------
(* Time. *)

(* Everything is a tick older; no request is under way and no awake tab    *)
(* sleeps past its idle timer.                                             *)
Tick ==
  /\ \A t \in Tabs : Pc(t) = "quiet" /\ ~TimedOut(t)
  /\ sess' = [i \in DOMAIN sess |->
       IF Alive(i) THEN [sess[i] EXCEPT !.seen = Older(@, Old)] ELSE Revoked]
  /\ tab' = [t \in Tabs |->
       IF tab[t].user THEN [tab[t] EXCEPT !.got = Older(@, Access),
                              !.active = Older(@, Idle), !.beat = Older(@, Beat)]
       ELSE [tab[t] EXCEPT !.beat = Older(@, Beat)]]
  /\ touched' = [b \in Browsers |-> Older(touched[b], Old)]
  /\ UNCHANGED <<stored, epoch, faults, excused, forked, left>>

(* A laptop sleeps with its tab; nothing runs in it. *)
Sleep(t) ==
  /\ Faulty /\ Ready(t)
  /\ tab' = [tab EXCEPT ![t].awake = FALSE]
  /\ excused' = excused \cup {t}
  /\ UNCHANGED <<sess, stored, epoch, touched, forked, left>>

Wake(t) ==
  /\ ~tab[t].awake
  /\ tab' = [tab EXCEPT ![t].awake = TRUE]
  /\ UNCHANGED <<sess, stored, epoch, faults, touched, excused, forked,
                 left>>

SessionsNext ==
  \/ \E t \in Tabs :
       \/ SignIn(t) \/ LoginIssue(t)
       \/ RefreshRead(t) \/ RefreshRevoke(t) \/ RefreshIssue(t)
       \/ Answered(t) \/ Refused(t) \/ Lose(t)
       \/ Poll(t) \/ Input(t) \/ Heartbeat(t) \/ Open(t) \/ Close(t)
       \/ SignOut(t) \/ Logout(t) \/ Leave(t)
       \/ ChangePassword(t) \/ Sleep(t) \/ Wake(t)
  \/ Reset \/ Tick

SessionsSpec == SessionsInit /\ [][SessionsNext]_svars

-----------------------------------------------------------------------------
Requests ==
  [pc : {"quiet", "login", "refresh", "rotate", "expire", "issue", "answered",
         "refused", "beat", "logout", "leave"},
   token : Nat, row : Row, heir : Nat, want : {{}, {"beat"}, {"logout"}}]

(* A sign-in has one live session at a time, however often it was          *)
(* refreshed, unless two requests with one token overlapped.               *)
OneLiveSession ==
  \A i, j \in DOMAIN sess :
    /\ Alive(i) /\ Alive(j) /\ sess[i].chain = sess[j].chain
    /\ sess[i].chain \notin forked
    => i = j

(* A browser with nobody in front of it is given no new token later than   *)
(* the idle time and the grace, whatever its tabs go on polling.           *)
AbandonedIsOver ==
  [][\A t \in Tabs : RefreshIssue(t) => touched[Here(t)] <= Idle + Grace]_svars

(* A tab the person was active in less than the idle time ago is refused   *)
(* only for a reason: a request of another tab of the browser, a lost      *)
(* answer, a laptop that slept, a page opened with no heartbeat since, or  *)
(* a new password.  A tab alone and awake is warned before it is refused.  *)
ActiveIsNotDropped ==
  [][\A t \in Tabs : /\ Refused(t) /\ tab[t].user /\ tab[t].active < Idle
                     /\ ~tab[t].restored
                     => t \in excused]_svars

(* A new password ends every session of the old, but one whose request was *)
(* past its check when the password changed.                               *)
PasswordEndsSessions ==
  \A i \in DOMAIN sess : Alive(i) /\ sess[i].epoch < epoch => sess[i].raced

(* Once a sign-in's current token is revoked by logout nothing of it is    *)
(* alive or comes to life again, unless it overlapped with a refresh.      *)
SignedOutIsRevoked ==
  \A i \in DOMAIN sess : Alive(i) /\ sess[i].chain \in left
                           => sess[i].chain \in forked

(* What ends a session ends it: its rotation (auth.py:117), a new password *)
(* (:194), signing out (:126, api.ts:242).                                 *)
EndedIsEnded == OneLiveSession /\ PasswordEndsSessions /\ SignedOutIsRevoked

(* The idle time is held to on both sides: it ends the session of who is   *)
(* away and of nobody else (refresh, auth.py:105, and idle.tsx:97).        *)
IdleIsHeldTo == AbandonedIsOver /\ ActiveIsNotDropped

TabStates ==
  [user : BOOLEAN, awake : BOOLEAN, restored : BOOLEAN, access : Nat, got : Nat,
   active : Nat, beat : Nat, req : Requests]

(* A request holds what it is about to use.                                *)
Holds(t) ==
  /\ \/ Pc(t) \in {"refresh", "rotate", "expire", "issue", "logout"}
     \/ Req(t).want = {"logout"}
     => Req(t).token \in DOMAIN sess
  /\ Pc(t) \in {"rotate", "issue"} => Req(t).row.chain \in DOMAIN sess
  /\ Pc(t) = "answered" => Req(t).heir \in DOMAIN sess
  /\ Pc(t) = "beat" => tab[t].access # 0

SessionsOK ==
  /\ sess \in Seq(Row) /\ epoch \in Nat
  /\ \A i \in DOMAIN sess : Alive(i) => sess[i].chain \in DOMAIN sess
  /\ stored \in [Browsers -> DOMAIN sess \cup {0}]
  /\ tab \in [Tabs -> TabStates]
  /\ left \subseteq DOMAIN sess
  /\ \A t \in Tabs : tab[t].access \in DOMAIN sess \cup {0} /\ Holds(t)

(* Who is about to issue a row for a sign-in.                              *)
Renews(t, chain) == Pc(t) \in {"rotate", "issue"} /\ Req(t).row.chain = chain

(* Why one session of a sign-in lives: one request renews it, and what it  *)
(* has read is the only one there is until it has revoked it.              *)
OneBearer ==
  \A t \in Tabs : Pc(t) \in {"rotate", "issue"} /\ Req(t).row.chain \notin forked =>
    /\ \A u \in Tabs : Renews(u, Req(t).row.chain) => u = t
    /\ \A i \in DOMAIN sess : Alive(i) /\ sess[i].chain = Req(t).row.chain
         => Pc(t) = "rotate" /\ i = Req(t).token

(* Why what was signed out stays so.                                       *)
NoneComesBack ==
  \A t \in Tabs : Pc(t) \in {"rotate", "issue"} /\ Req(t).row.chain \in left
                    => Req(t).row.chain \in forked

SessionsInv == SessionsOK /\ OneBearer /\ NoneComesBack /\ EndedIsEnded

(* The sessions a tab, and with it its browser, has tokens of.             *)
Bears(t) == {tab[t].access, Req(t).token, Req(t).heir}
Knows(b, i) == stored[b] = i \/ \E t \in Tabs : Home[t] = b /\ i \in Bears(t)

(* A session is known to one browser, and was not seen later than somebody *)
(* was in front of that one.                                               *)
KnownApart ==
  /\ touched \in [Browsers -> Nat]
  /\ \A t \in Tabs : Bears(t) \subseteq DOMAIN sess \cup {0}
  /\ \A b, c \in Browsers : \A i \in DOMAIN sess : Knows(b, i) /\ Knows(c, i) => b = c
  /\ \A b \in Browsers : \A i \in DOMAIN sess :
       Knows(b, i) /\ Alive(i) => touched[b] <= sess[i].seen

Beating(r) == r.req.pc = "beat" \/ r.req.want = {"beat"}

(* A request is over before the next tick.                                 *)
Timely(t) ==
  /\ Pc(t) \in {"rotate", "issue"} =>
       touched[Here(t)] <= Req(t).row.seen /\ Req(t).row.seen <= Idle + Grace
  /\ Beating(tab[t]) \/ Pc(t) = "login" => touched[Here(t)] = 0
  /\ Pc(t) = "quiet" => Req(t) = Quiet

(* What a session's age may be, by the timer and the heartbeats of its tab.*)
Within(r, age) ==
  IF Beating(r) THEN age <= Idle + Beat
  ELSE age <= r.active + Beat /\ (r.beat < Beat => age <= r.beat)

(* A tab nothing excuses holds a session that lives, and if it has sent a  *)
(* heartbeat or signed in, one that is not older than it should be.        *)
Lives(t) ==
  /\ Pc(t) = "answered" => Alive(Req(t).heir)
  /\ tab[t].user /\ Pc(t) \in {"quiet", "beat", "refresh", "rotate"} =>
       tab[t].access \in DOMAIN sess /\ Alive(tab[t].access) /\ stored[Here(t)] = tab[t].access
  /\ tab[t].user /\ Pc(t) \in {"refresh", "rotate"} => Req(t).token = tab[t].access

Young(t) ==
  /\ Pc(t) \notin {"expire", "refused"}
  /\ Pc(t) \in {"quiet", "beat", "refresh", "rotate"} => Within(tab[t], sess[tab[t].access].seen)
  /\ Pc(t) \in {"rotate", "issue"} => Within(tab[t], Req(t).row.seen)
  /\ Pc(t) = "answered" => Within(tab[t], sess[Req(t).heir].seen)

Steady(t) ==
  /\ tab[t].active <= Idle
  /\ ~tab[t].awake => tab[t].user /\ t \in excused
  /\ ~tab[t].user /\ ~tab[t].restored => Pc(t) \in {"quiet", "login", "answered"}
  /\ t \notin excused => Lives(t)
  /\ t \notin excused /\ ~tab[t].restored =>
       IF tab[t].user THEN Young(t) ELSE Pc(t) = "answered" => sess[Req(t).heir].seen = 0

IdleInv == KnownApart /\ \A t \in Tabs : Timely(t) /\ Steady(t)
=============================================================================
