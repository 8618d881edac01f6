--------------------------- MODULE Settings_proofs ---------------------------
(* Four components of the console, each by itself.  Sessions: what ends a  *)
(* session ends it, for every number of tabs and browsers, of refreshes,   *)
(* faults and changes of the password.  Greeting, HoldMessage, Metering:   *)
(* what is set there is what a caller hears, and what a call costs, for    *)
(* every template, row, plan, key and table.                               *)
EXTENDS Sessions, Greeting, HoldMessage, Metering, WellFoundedInduction, FiniteSetTheorems, TLAPS

Minted == {"rotate", "issue"}
Reading == {"refresh", "rotate", "expire", "issue", "logout"}

(* A step that reads and writes no session. *)
Calm ==
  /\ sess' = sess /\ epoch' = epoch /\ forked' = forked /\ left' = left
  /\ \A t \in Tabs : Req(t)' = Req(t) \/ Req(t)'.pc \notin Minted

(* A step after which no dead row lives, and the others are of the sign-in *)
(* and of the password they were.                                          *)
Ages ==
  /\ sess' \in Seq(Row) /\ DOMAIN sess' = DOMAIN sess
  /\ \A i \in DOMAIN sess : Alive(i)' =>
       /\ Alive(i)
       /\ sess'[i].chain = sess[i].chain /\ sess'[i].epoch = sess[i].epoch
       /\ sess'[i].raced = sess[i].raced

LEMMA Constants ==
  /\ Idle \in Nat /\ Grace \in Nat /\ Access \in Nat /\ Beat \in Nat /\ Old \in Nat
  /\ Home \in [Tabs -> Browsers] /\ IsFiniteSet(Tabs)
  BY SessionsAssumption DEF Old

LEMMA RevokedRow == Revoked \in Row /\ Revoked.chain = 0 /\ Revoked.raced = FALSE
  BY Constants DEF Revoked, Row

LEMMA RevokeFacts ==
  ASSUME SessionsOK, NEW S, sess' = Revoke(S)
  PROVE  /\ Ages
         /\ \A i \in S \cap DOMAIN sess : ~Alive(i)'
         /\ \A i \in DOMAIN sess : i \notin S => sess'[i] = sess[i]
<1>1. /\ DOMAIN sess = 1 .. Len(sess) /\ Len(sess) \in Nat
      /\ \A i \in DOMAIN sess : sess[i] \in Row
  BY DEF SessionsOK
<1>2. sess' = [i \in 1 .. Len(sess) |-> IF i \in S THEN Revoked ELSE sess[i]]
  BY <1>1 DEF Revoke
<1>3. \A i \in 1 .. Len(sess) : (IF i \in S THEN Revoked ELSE sess[i]) \in Row
  BY <1>1, RevokedRow
<1>4. sess' \in Seq(Row) /\ DOMAIN sess' = DOMAIN sess
  BY <1>1, <1>2, <1>3
<1> QED
  BY <1>1, <1>2, <1>4 DEF Ages, Alive

(* The invariant after a step that takes nobody's session for another. *)
LEMMA AgesBear ==
  ASSUME SessionsInv, Ages, epoch' \in Nat, epoch' = epoch \/ \A i \in DOMAIN sess : ~Alive(i)',
         forked \subseteq forked',
         \A t \in Tabs : Req(t)'.pc \in Minted =>
           /\ Req(t).pc \in Minted /\ Req(t)'.row = Req(t).row
           /\ Req(t)'.token = Req(t).token
           /\ Req(t)'.pc = "rotate" => Req(t).pc = "rotate"
           /\ Req(t)'.pc = "issue" =>
                \/ Req(t).pc = "issue"
                \/ Req(t).pc = "rotate" /\ ~Alive(Req(t).token)'
  PROVE  OneBearer' /\ OneLiveSession' /\ PasswordEndsSessions'
<1> USE DEF Minted
<1>1. OneLiveSession'
  BY DEF SessionsInv, EndedIsEnded, OneLiveSession, Ages
<1>2. PasswordEndsSessions'
  BY DEF SessionsInv, EndedIsEnded, PasswordEndsSessions, Ages
<1>3. OneBearer'
  <2> SUFFICES ASSUME NEW t \in Tabs, Req(t)'.pc \in Minted, Req(t)'.row.chain \notin forked'
               PROVE  /\ \A u \in Tabs :
                           Req(u)'.pc \in Minted /\ Req(u)'.row.chain = Req(t)'.row.chain
                           => u = t
                      /\ \A i \in DOMAIN sess' :
                           Alive(i)' /\ sess'[i].chain = Req(t)'.row.chain
                           => Req(t)'.pc = "rotate" /\ i = Req(t)'.token
    BY DEF OneBearer, Renews, Pc, Req
  <2>1. /\ \A u \in Tabs : Req(u).pc \in Minted /\ Req(u).row.chain = Req(t).row.chain
                           => u = t
        /\ \A i \in DOMAIN sess : Alive(i) /\ sess[i].chain = Req(t).row.chain
             => Req(t).pc = "rotate" /\ i = Req(t).token
    BY DEF SessionsInv, OneBearer, Renews, Pc, Req
  <2>2. ASSUME NEW i \in DOMAIN sess', Alive(i)', sess'[i].chain = Req(t)'.row.chain
        PROVE  Req(t)'.pc = "rotate" /\ i = Req(t)'.token
    <3>1. i \in DOMAIN sess /\ Alive(i) /\ sess[i].chain = Req(t).row.chain
      BY <2>2 DEF Ages
    <3>2. Req(t).pc = "rotate" /\ i = Req(t).token
      BY <2>1, <3>1
    <3> QED
      BY <2>2, <3>2
  <2> QED
    BY <2>1, <2>2
<1> QED
  BY <1>1, <1>2, <1>3

LEMMA AgesKeep ==
  ASSUME SessionsInv, Ages, epoch' \in Nat, epoch' = epoch \/ \A i \in DOMAIN sess : ~Alive(i)',
         left' = left, forked \subseteq forked',
         \A t \in Tabs : Req(t)'.pc \in Minted =>
           /\ Req(t).pc \in Minted /\ Req(t)'.row = Req(t).row
           /\ Req(t)'.token = Req(t).token
           /\ Req(t)'.pc = "rotate" => Req(t).pc = "rotate"
           /\ Req(t)'.pc = "issue" =>
                \/ Req(t).pc = "issue"
                \/ Req(t).pc = "rotate" /\ ~Alive(Req(t).token)'
  PROVE  OneBearer' /\ NoneComesBack' /\ EndedIsEnded'
<1> USE DEF Minted
<1>1. OneBearer' /\ OneLiveSession' /\ PasswordEndsSessions'
  BY AgesBear
<1>2. SignedOutIsRevoked'
  BY DEF SessionsInv, EndedIsEnded, SignedOutIsRevoked, Ages
<1>3. NoneComesBack'
  BY DEF SessionsInv, NoneComesBack, Pc, Req
<1> QED
  BY <1>1, <1>2, <1>3 DEF EndedIsEnded

LEMMA CalmKeeps ==
  ASSUME SessionsInv, Calm
  PROVE  OneBearer' /\ NoneComesBack' /\ EndedIsEnded'
<1>1. Ages
  BY DEF Calm, Ages, SessionsInv, SessionsOK, Alive
<1> QED
  BY <1>1, AgesKeep DEF Calm, Minted, SessionsInv, SessionsOK

-----------------------------------------------------------------------------
(* What a tab may hold while S are the sessions there are. *)
Asks(q, S) ==
  /\ q \in Requests
  /\ q.pc \in Reading \/ q.want = {"logout"} => q.token \in S
  /\ q.pc \in Minted => q.row.chain \in S
  /\ q.pc = "answered" => q.heir \in S

Sound(r, S) ==
  /\ r \in TabStates /\ r.access \in S \cup {0} /\ Asks(r.req, S)
  /\ r.req.pc = "beat" => r.access # 0

LEMMA SoundTabs ==
  /\ SessionsOK <=>
       /\ sess \in Seq(Row) /\ epoch \in Nat /\ left \subseteq DOMAIN sess
       /\ \A i \in DOMAIN sess : Alive(i) => sess[i].chain \in DOMAIN sess
       /\ stored \in [Browsers -> DOMAIN sess \cup {0}]
       /\ tab \in [Tabs -> TabStates] /\ \A t \in Tabs : Sound(tab[t], DOMAIN sess)
<1>1. ASSUME tab \in [Tabs -> TabStates], NEW t \in Tabs
      PROVE  Sound(tab[t], DOMAIN sess) <=>
               tab[t].access \in DOMAIN sess \cup {0} /\ Holds(t)
  <2>1. tab[t] \in TabStates /\ tab[t].req \in Requests
    BY <1>1 DEF TabStates
  <2> QED
    BY <2>1 DEF Sound, Asks, Holds, Pc, Req, Reading, Minted
<1> QED
  BY <1>1 DEF SessionsOK

LEMMA SoundStill ==
  ASSUME NEW r, NEW S, NEW T, S \subseteq T, Sound(r, S)
  PROVE  Sound(r, T)
  BY DEF Sound, Asks

LEMMA QuietIs ==
  /\ Quiet \in Requests /\ Quiet.pc = "quiet" /\ Quiet.want = {}
  /\ \A S : Asks(Quiet, S)
  BY RevokedRow DEF Quiet, Requests, Asks, Reading, Minted

LEMMA BlankIs ==
  Blank \in TabStates /\ Blank.req = Quiet /\ Blank.access = 0
  BY Constants, QuietIs DEF Blank, TabStates

LEMMA FreshIs ==
  ASSUME NEW e \in Nat
  PROVE  Fresh(e) \in Row
  BY Constants DEF Fresh, Row

LEMMA DroppedIs ==
  ASSUME SessionsOK, NEW t \in Tabs, NEW S
  PROVE  Sound([Blank EXCEPT !.beat = tab[t].beat], S)
<1>1. tab[t].beat \in Nat
  BY DEF SessionsOK, TabStates
<1>2. /\ [Blank EXCEPT !.beat = tab[t].beat] \in TabStates
      /\ [Blank EXCEPT !.beat = tab[t].beat].req = Quiet
      /\ [Blank EXCEPT !.beat = tab[t].beat].access = 0
  BY <1>1, BlankIs DEF TabStates
<1> QED
  BY <1>2, QuietIs DEF Sound

(* A new request of a tab. *)
LEMMA RequestIs ==
  ASSUME SessionsOK, NEW t \in Tabs, NEW q, NEW S, DOMAIN sess \subseteq S,
         Asks(q, S), q.pc = "beat" => tab[t].access # 0
  PROVE  Sound([tab[t] EXCEPT !.req = q], S)
<1>1. tab[t] \in TabStates /\ tab[t].access \in S \cup {0} /\ q \in Requests
  BY DEF SessionsOK, Asks
<1>2. /\ [tab[t] EXCEPT !.req = q] \in TabStates
      /\ [tab[t] EXCEPT !.req = q].req = q
      /\ [tab[t] EXCEPT !.req = q].access = tab[t].access
  BY <1>1 DEF TabStates
<1> QED
  BY <1>1, <1>2 DEF Sound

(* The types after a step of one tab. *)
LEMMA OneTab ==
  ASSUME SessionsOK, NEW t \in Tabs, NEW r, Sound(r, DOMAIN sess'),
         tab' = [tab EXCEPT ![t] = r], DOMAIN sess \subseteq DOMAIN sess',
         sess' \in Seq(Row), epoch' \in Nat, left' \subseteq DOMAIN sess',
         stored' \in [Browsers -> DOMAIN sess' \cup {0}],
         \A i \in DOMAIN sess' : Alive(i)' => sess'[i].chain \in DOMAIN sess'
  PROVE  /\ SessionsOK'
         /\ Req(t)' = r.req /\ \A u \in Tabs \ {t} : Req(u)' = Req(u)
<1>1. tab \in [Tabs -> TabStates] /\ \A u \in Tabs : Sound(tab[u], DOMAIN sess)
  BY SoundTabs
<1>2. tab' \in [Tabs -> TabStates]
  BY <1>1 DEF Sound
<1>3. ASSUME NEW u \in Tabs PROVE Sound(tab'[u], DOMAIN sess')
  <2>1. CASE u = t
    BY <1>1, <2>1
  <2>2. CASE u # t
    BY <1>1, <2>2, SoundStill
  <2> QED
    BY <2>1, <2>2
<1>4. Req(t)' = r.req /\ \A u \in Tabs \ {t} : Req(u)' = Req(u)
  BY <1>1 DEF Req
<1>5. SessionsOK'
  <2>1. ASSUME NEW u \in Tabs
        PROVE  tab'[u].access \in DOMAIN sess' \cup {0} /\ Holds(u)'
    BY <1>3, <2>1 DEF Sound, Asks, Holds, Pc, Req, Reading, Minted
  <2> QED
    BY <1>2, <2>1 DEF SessionsOK
<1> QED
  BY <1>4, <1>5

-----------------------------------------------------------------------------
(* The steps, one kind at a time: what each leaves of the types, and what  *)
(* it is to the sessions.                                                  *)

Kept == SessionsOK' /\ OneBearer' /\ NoneComesBack' /\ EndedIsEnded'

(* A step of one tab that reads and writes no session. *)
LEMMA CalmTab ==
  ASSUME SessionsInv, NEW t \in Tabs, NEW r, Sound(r, DOMAIN sess),
         tab' = [tab EXCEPT ![t] = r], r.req = Req(t) \/ r.req.pc \notin Minted,
         UNCHANGED <<sess, epoch, forked, left>>,
         stored' \in [Browsers -> DOMAIN sess \cup {0}]
  PROVE  Kept
<1>1. SessionsOK /\ sess' = sess
  BY DEF SessionsInv
<1>2. \A i \in DOMAIN sess' : Alive(i)' => sess'[i].chain \in DOMAIN sess'
  BY <1>1 DEF SessionsOK, Alive
<1>3. /\ SessionsOK'
      /\ Req(t)' = r.req /\ \A u \in Tabs \ {t} : Req(u)' = Req(u)
  BY <1>1, <1>2, OneTab DEF SessionsOK
<1>4. Calm
  BY <1>3 DEF Calm
<1> QED
  BY <1>3, <1>4, CalmKeeps DEF Kept

(* ... and asks for something else. *)
LEMMA CalmRequest ==
  ASSUME SessionsInv, NEW t \in Tabs, NEW q, Asks(q, DOMAIN sess), Set(t, q),
         q.pc = "beat" => tab[t].access # 0, q.pc \notin Minted,
         UNCHANGED <<sess, epoch, forked, left>>,
         stored' \in [Browsers -> DOMAIN sess \cup {0}]
  PROVE  Kept
<1>1. SessionsOK /\ tab \in [Tabs -> TabStates]
  BY DEF SessionsInv, SessionsOK
<1>2. Sound([tab[t] EXCEPT !.req = q], DOMAIN sess)
  BY <1>1, RequestIs
<1>3. tab' = [tab EXCEPT ![t] = [tab[t] EXCEPT !.req = q]]
  BY DEF Set
<1>4. [tab[t] EXCEPT !.req = q].req = q
  BY <1>1 DEF TabStates
<1> QED
  BY <1>2, <1>3, <1>4, CalmTab

LEMMA AccessAndStore ==
  ASSUME SessionsOK, NEW t \in Tabs
  PROVE  /\ Here(t) \in Browsers /\ stored \in [Browsers -> DOMAIN sess \cup {0}]
         /\ stored[Here(t)] # 0 => stored[Here(t)] \in DOMAIN sess
         /\ \A b \in Browsers : [stored EXCEPT ![b] = 0] \in [Browsers -> DOMAIN sess \cup {0}]
  BY Constants DEF SessionsOK, Here

(* A refresh of the token the browser stores. *)
LEMMA RefreshingIs ==
  ASSUME SessionsOK, NEW t \in Tabs, stored[Here(t)] # 0,
         NEW want \in {{}, {"beat"}, {"logout"}}
  PROVE  /\ Asks(Refreshing(t, want), DOMAIN sess)
         /\ Refreshing(t, want).pc = "refresh"
<1>1. stored[Here(t)] \in DOMAIN sess /\ DOMAIN sess \subseteq Nat
  BY AccessAndStore DEF SessionsOK
<1>2. /\ Refreshing(t, want) \in Requests /\ Refreshing(t, want).pc = "refresh"
      /\ Refreshing(t, want).token = stored[Here(t)]
  BY <1>1, QuietIs DEF Refreshing, Requests
<1> QED
  BY <1>1, <1>2 DEF Asks, Minted

LEMMA DroppedKeeps ==
  ASSUME SessionsInv, NEW t \in Tabs, Dropped(t), UNCHANGED <<sess, epoch, forked, left>>
  PROVE  Kept
<1>1. SessionsOK
  BY DEF SessionsInv
<1>2. /\ tab' = [tab EXCEPT ![t] = [Blank EXCEPT !.beat = tab[t].beat]]
      /\ stored' \in [Browsers -> DOMAIN sess \cup {0}]
  BY <1>1, AccessAndStore DEF Dropped
<1>3. Sound([Blank EXCEPT !.beat = tab[t].beat], DOMAIN sess)
  BY <1>1, DroppedIs
<1>4. [Blank EXCEPT !.beat = tab[t].beat].req = Quiet
  BY BlankIs DEF TabStates
<1> QED
  BY <1>2, <1>3, <1>4, CalmTab, QuietIs DEF Minted

(* Signing in, and everything a tab does by itself. *)
LEMMA TabsKeep ==
  ASSUME SessionsInv, NEW t \in Tabs,
         \/ SignIn(t) \/ Answered(t) \/ Refused(t) \/ Lose(t) \/ Poll(t) \/ Input(t)
         \/ Open(t) \/ Close(t) \/ SignOut(t) \/ Leave(t) \/ Sleep(t) \/ Wake(t)
  PROVE  Kept
<1>0. /\ SessionsOK /\ tab[t] \in TabStates /\ Sound(tab[t], DOMAIN sess)
      /\ tab[t].req \in Requests /\ Req(t) = tab[t].req
      /\ tab \in [Tabs -> TabStates] /\ DOMAIN sess \subseteq Nat
  BY SoundTabs DEF SessionsInv, SessionsOK, Req, TabStates
<1>s. stored \in [Browsers -> DOMAIN sess \cup {0}]
  BY <1>0, AccessAndStore
<1>1. CASE SignIn(t)
  <2>1. [Quiet EXCEPT !.pc = "login", !.row = Fresh(epoch)] \in Requests
    BY <1>0, QuietIs, FreshIs DEF Requests, SessionsOK
  <2>2. /\ [Quiet EXCEPT !.pc = "login", !.row = Fresh(epoch)].pc = "login"
        /\ [Quiet EXCEPT !.pc = "login", !.row = Fresh(epoch)].want = {}
    BY QuietIs DEF Requests
  <2>3. Asks([Quiet EXCEPT !.pc = "login", !.row = Fresh(epoch)], DOMAIN sess)
    BY <2>1, <2>2 DEF Asks, Reading, Minted
  <2> QED
    BY <1>1, <1>s, <2>2, <2>3, CalmRequest DEF SignIn, Minted
<1>2. CASE Answered(t)
  <2>1. /\ Req(t).heir \in DOMAIN sess /\ Req(t).heir \in Nat /\ Req(t).heir # 0
        /\ Req(t).want = {"logout"} => Req(t).token \in DOMAIN sess
        /\ Req(t).want \in {{}, {"beat"}, {"logout"}} /\ Req(t).token \in Nat
    BY <1>0, <1>2 DEF Answered, Sound, Asks, Pc, Requests, SessionsOK
  <2>2. Asks(Asked(t), DOMAIN sess) /\ Asked(t).pc \in {"quiet", "beat", "logout"}
    <3>1. CASE Req(t).want = {}
      BY <3>1, QuietIs DEF Asked
    <3>2. CASE Req(t).want = {"beat"}
      <4>1. Asked(t) = [Quiet EXCEPT !.pc = "beat"]
        BY <3>2 DEF Asked
      <4> QED
        BY <4>1, QuietIs DEF Asks, Requests, Reading, Minted
    <3>3. CASE Req(t).want = {"logout"}
      <4>1. Asked(t) = [Quiet EXCEPT !.pc = "logout", !.token = Req(t).token]
        BY <3>3 DEF Asked
      <4> QED
        BY <2>1, <3>3, <4>1, QuietIs DEF Asks, Requests, Reading, Minted
    <3> QED
      BY <2>1, <3>1, <3>2, <3>3
  <2> DEFINE r == [tab[t] EXCEPT !.access = Req(t).heir, !.got = 0, !.user = TRUE,
                     !.active = IF tab[t].user THEN tab[t].active ELSE 0,
                     !.req = Asked(t)]
  <2>3. /\ r \in TabStates /\ r.access = Req(t).heir /\ r.req = Asked(t)
    BY <1>0, <2>1, <2>2 DEF TabStates, Asks
  <2>4. tab' = [tab EXCEPT ![t] = r]
    BY <1>0, <1>2 DEF Answered
  <2>5. stored' \in [Browsers -> DOMAIN sess \cup {0}]
    BY <1>2, <1>s, <2>1 DEF Answered
  <2> HIDE DEF r
  <2>6. Sound(r, DOMAIN sess)
    BY <2>1, <2>2, <2>3 DEF Sound
  <2> QED
    BY <1>2, <2>2, <2>3, <2>4, <2>5, <2>6, CalmTab DEF Answered, Minted
<1>3. CASE Refused(t) \/ Leave(t)
  BY <1>3, DroppedKeeps DEF Refused, Leave
<1>4. CASE Lose(t)
  <2>1. CASE Pc(t) \notin {"beat", "logout"}
    BY <1>4, <2>1, DroppedKeeps DEF Lose
  <2>2. CASE Pc(t) = "beat"
    BY <1>4, <1>s, <2>2, QuietIs, CalmRequest DEF Lose, Minted
  <2>3. CASE Pc(t) = "logout"
    <3>1. /\ Asks([Quiet EXCEPT !.pc = "leave"], DOMAIN sess)
          /\ [Quiet EXCEPT !.pc = "leave"].pc = "leave"
      BY QuietIs DEF Asks, Requests, Reading, Minted
    <3> QED
      BY <1>4, <1>s, <2>3, <3>1, CalmRequest DEF Lose, Minted
  <2> QED
    BY <2>1, <2>2, <2>3
<1>5. CASE Poll(t)
  <2>1. /\ stored[Here(t)] # 0 /\ Set(t, Refreshing(t, {}))
        /\ UNCHANGED <<sess, epoch, forked, left, stored>>
    BY <1>5 DEF Poll, AskRefresh
  <2>2. Asks(Refreshing(t, {}), DOMAIN sess) /\ Refreshing(t, {}).pc = "refresh"
    BY <1>0, <2>1, RefreshingIs
  <2> QED
    BY <1>s, <2>1, <2>2, CalmRequest DEF Minted
<1>6. CASE Input(t)
  <2>1. CASE tab' = [tab EXCEPT ![t].active = 0]
    <3>1. /\ tab' = [tab EXCEPT ![t] = [tab[t] EXCEPT !.active = 0]]
          /\ [tab[t] EXCEPT !.active = 0].req = Req(t)
          /\ Sound([tab[t] EXCEPT !.active = 0], DOMAIN sess)
      BY <1>0, <2>1 DEF Sound, TabStates
    <3> QED
      BY <1>6, <1>s, <3>1, CalmTab DEF Input
  <2>2. CASE tab' = [tab EXCEPT ![t].active = 0, ![t].beat = 0, ![t].req = BeatRequest(t)]
    <3>1. /\ Asks(BeatRequest(t), DOMAIN sess)
          /\ BeatRequest(t).pc \in {"quiet", "beat", "refresh"}
          /\ BeatRequest(t).pc = "beat" => tab[t].access # 0
      <4>1. CASE MayAsk(t)
        <5>1. BeatRequest(t) = [Quiet EXCEPT !.pc = "beat"]
          BY <4>1 DEF BeatRequest
        <5> QED
          BY <4>1, <5>1, QuietIs DEF Asks, Requests, Reading, Minted, MayAsk
      <4>2. CASE ~MayAsk(t) /\ stored[Here(t)] # 0
        <5>1. BeatRequest(t) = Refreshing(t, {"beat"})
          BY <4>2 DEF BeatRequest
        <5> QED
          BY <1>0, <4>2, <5>1, RefreshingIs
      <4>3. CASE ~MayAsk(t) /\ stored[Here(t)] = 0
        <5>1. BeatRequest(t) = Quiet
          BY <4>3 DEF BeatRequest
        <5> QED
          BY <5>1, QuietIs
      <4> QED
        BY <4>1, <4>2, <4>3
    <3> DEFINE r == [tab[t] EXCEPT !.active = 0, !.beat = 0, !.req = BeatRequest(t)]
    <3>2. r \in TabStates /\ r.req = BeatRequest(t) /\ r.access = tab[t].access
      BY <1>0, <3>1 DEF TabStates, Asks
    <3>3. tab' = [tab EXCEPT ![t] = r]
      BY <1>0, <2>2
    <3> HIDE DEF r
    <3>4. Sound(r, DOMAIN sess)
      BY <1>0, <3>1, <3>2 DEF Sound
    <3> QED
      BY <1>6, <1>s, <3>1, <3>2, <3>3, <3>4, CalmTab DEF Input, Minted
  <2> QED
    BY <1>6, <2>1, <2>2 DEF Input
<1>7. CASE Open(t)
  <2>1. Asks(Refreshing(t, {}), DOMAIN sess) /\ Refreshing(t, {}).pc = "refresh"
    BY <1>0, <1>7, RefreshingIs DEF Open
  <2> DEFINE r == [tab[t] EXCEPT !.req = Refreshing(t, {}), !.restored = TRUE, !.beat = Beat]
  <2>2. r \in TabStates /\ r.req = Refreshing(t, {}) /\ r.access = tab[t].access
    BY <1>0, <2>1, Constants DEF TabStates, Asks
  <2>3. tab' = [tab EXCEPT ![t] = r]
    BY <1>0, <1>7 DEF Open
  <2> HIDE DEF r
  <2>4. Sound(r, DOMAIN sess)
    BY <1>0, <2>1, <2>2 DEF Sound
  <2> QED
    BY <1>7, <1>s, <2>1, <2>2, <2>3, <2>4, CalmTab DEF Open, Minted
<1>8. CASE Close(t)
  <2>1. Sound(Blank, DOMAIN sess)
    BY BlankIs, QuietIs DEF Sound
  <2> QED
    BY <1>8, <1>s, <2>1, BlankIs, QuietIs, CalmTab DEF Close, Minted
<1>9. CASE SignOut(t)
  <2>1. CASE Goto(t, "leave")
    <3>1. Pc(t) = "quiet" /\ tab' = [tab EXCEPT ![t].req.pc = "leave"]
      BY <1>9, <2>1 DEF SignOut, Ready, Goto
    <3> DEFINE q == [tab[t].req EXCEPT !.pc = "leave"]
    <3>2. Set(t, q)
      BY <1>0, <3>1 DEF Set
    <3>3. q \in Requests /\ q.pc = "leave" /\ q.want = Req(t).want /\ q.token = Req(t).token
      BY <1>0 DEF Requests
    <3> HIDE DEF q
    <3>4. Asks(q, DOMAIN sess)
      BY <1>0, <3>3 DEF Asks, Sound, Reading, Minted
    <3> QED
      BY <1>9, <1>s, <3>2, <3>3, <3>4, CalmRequest DEF SignOut, Minted
  <2>2. CASE /\ stored[Here(t)] # 0
             /\ Set(t, [Quiet EXCEPT !.pc = "logout", !.token = stored[Here(t)]])
    <3>1. stored[Here(t)] \in DOMAIN sess /\ stored[Here(t)] \in Nat
      BY <1>0, <2>2, AccessAndStore
    <3>2. /\ Asks([Quiet EXCEPT !.pc = "logout", !.token = stored[Here(t)]], DOMAIN sess)
          /\ [Quiet EXCEPT !.pc = "logout", !.token = stored[Here(t)]].pc = "logout"
      BY <3>1, QuietIs DEF Asks, Requests, Minted
    <3> QED
      BY <1>9, <1>s, <2>2, <3>2, CalmRequest DEF SignOut, Minted
  <2>3. CASE stored[Here(t)] # 0 /\ Set(t, Refreshing(t, {"logout"}))
    <3>1. /\ Asks(Refreshing(t, {"logout"}), DOMAIN sess)
          /\ Refreshing(t, {"logout"}).pc = "refresh"
      BY <1>0, <2>3, RefreshingIs
    <3> QED
      BY <1>9, <1>s, <2>3, <3>1, CalmRequest DEF SignOut, Minted
  <2> QED
    BY <1>9, <2>1, <2>2, <2>3 DEF SignOut, AskRefresh
<1>10. CASE Sleep(t) \/ Wake(t)
  <2>1. PICK awake \in BOOLEAN : tab' = [tab EXCEPT ![t].awake = awake]
    BY <1>10 DEF Sleep, Wake
  <2>2. /\ tab' = [tab EXCEPT ![t] = [tab[t] EXCEPT !.awake = awake]]
        /\ [tab[t] EXCEPT !.awake = awake].req = Req(t)
        /\ Sound([tab[t] EXCEPT !.awake = awake], DOMAIN sess)
    BY <1>0, <2>1 DEF Sound, TabStates
  <2> QED
    BY <1>10, <1>s, <2>2, CalmTab DEF Sleep, Wake
<1> QED
  BY <1>1, <1>2, <1>3, <1>4, <1>5, <1>6, <1>7, <1>8, <1>9, <1>10

(* After a step of one tab's on rows that only age. *)
LEMMA AgedTypes ==
  ASSUME SessionsOK, Ages, epoch' \in Nat, left' \subseteq DOMAIN sess,
         stored' = stored, NEW t \in Tabs, NEW r, Sound(r, DOMAIN sess),
         tab' = [tab EXCEPT ![t] = r]
  PROVE  /\ SessionsOK'
         /\ Req(t)' = r.req /\ \A u \in Tabs \ {t} : Req(u)' = Req(u)
<1>1. /\ sess' \in Seq(Row) /\ DOMAIN sess' = DOMAIN sess
      /\ \A i \in DOMAIN sess' : Alive(i)' => sess'[i].chain \in DOMAIN sess'
      /\ stored' \in [Browsers -> DOMAIN sess' \cup {0}]
  BY DEF SessionsOK, Ages
<1> QED
  BY <1>1, OneTab

(* The row is read: the request has what is alive, and whoever has read it *)
(* too has the sign-in set apart.                                          *)
LEMMA ReadKeeps ==
  ASSUME SessionsInv, NEW t \in Tabs, RefreshRead(t)
  PROVE  Kept
<1> DEFINE i == Req(t).token
<1>0. /\ SessionsOK /\ tab \in [Tabs -> TabStates] /\ tab[t] \in TabStates
      /\ tab[t].req \in Requests /\ Sound(tab[t], DOMAIN sess) /\ i \in DOMAIN sess
      /\ Req(t) = tab[t].req /\ tab[t].req.pc = "refresh" /\ sess \in Seq(Row)
      /\ sess[i] \in Row
      /\ Alive(i) => sess[i].chain \in DOMAIN sess
  BY SoundTabs, SMTT(60) DEF RefreshRead, SessionsInv, SessionsOK, Req, TabStates, Sound, Asks,
     Reading, Pc
<1> DEFINE q == [Req(t) EXCEPT !.row = sess[i],
                   !.pc = CASE ~Alive(i) -> "refused"
                            [] Alive(i) /\ TooIdle(sess[i]) -> "expire"
                            [] OTHER -> "rotate"]
<1>1. /\ Set(t, q) /\ forked' = Overlap(t, i)
      /\ UNCHANGED <<sess, stored, epoch, left>>
  BY DEF RefreshRead
<1>2. /\ q \in Requests /\ q.row = sess[i] /\ q.token = i /\ q.want = Req(t).want
      /\ q.pc \in {"refused", "expire", "rotate"}
      /\ q.pc = "rotate" => Alive(i)
  <2> DEFINE pc == CASE ~Alive(i) -> "refused"
                     [] Alive(i) /\ TooIdle(sess[i]) -> "expire"
                     [] OTHER -> "rotate"
  <2>1. pc \in {"refused", "expire", "rotate"} /\ (pc = "rotate" => Alive(i))
    <3>1. CASE ~Alive(i)
      BY <3>1
    <3>2. CASE Alive(i) /\ TooIdle(sess[i])
      BY <3>2
    <3>3. CASE Alive(i) /\ ~TooIdle(sess[i])
      BY <3>3
    <3> QED
      BY <3>1, <3>2, <3>3
  <2>2. q = [tab[t].req EXCEPT !.row = sess[i], !.pc = pc]
    BY <1>0
  <2> HIDE DEF pc, q, i
  <2> QED
    BY <1>0, <2>1, <2>2 DEF Requests, i
<1> HIDE DEF q, i
<1>3. Asks(q, DOMAIN sess)
  BY <1>0, <1>2 DEF Asks, Minted, Reading
<1>4. Sound([tab[t] EXCEPT !.req = q], DOMAIN sess)
  BY <1>0, <1>2, <1>3, RequestIs
<1>5. Ages
  BY <1>0, <1>1 DEF Ages, Alive
<1>6. /\ SessionsOK'
      /\ Req(t)' = q /\ \A u \in Tabs \ {t} : Req(u)' = Req(u)
  <2>1. tab' = [tab EXCEPT ![t] = [tab[t] EXCEPT !.req = q]]
    BY <1>1 DEF Set
  <2>2. [tab[t] EXCEPT !.req = q].req = q
    BY <1>0 DEF TabStates
  <2>3. epoch' \in Nat /\ left' \subseteq DOMAIN sess
    BY <1>0, <1>1 DEF SessionsOK
  <2> QED
    BY <1>0, <1>1, <1>4, <1>5, <2>1, <2>2, <2>3, AgedTypes
<1>7. \A u \in Tabs \ {t} : Req(u).pc \in Minted /\ Req(u).token = i
        => Req(u).row.chain \in forked'
  BY <1>1 DEF Overlap, Minted, Pc, Req
<1>8. forked \subseteq forked'
  BY <1>1 DEF Overlap
<1>9. /\ OneLiveSession' /\ PasswordEndsSessions' /\ SignedOutIsRevoked'
  BY <1>1, <1>8 DEF SessionsInv, EndedIsEnded, OneLiveSession, PasswordEndsSessions,
     SignedOutIsRevoked, Alive
<1>10. NoneComesBack'
  <2> SUFFICES ASSUME NEW u \in Tabs, Req(u)'.pc \in Minted, Req(u)'.row.chain \in left
               PROVE  Req(u)'.row.chain \in forked'
    BY <1>1 DEF NoneComesBack, Minted, Pc, Req
  <2>1. CASE u = t
    BY <1>0, <1>2, <1>6, <1>8, <2>1
       DEF SessionsInv, EndedIsEnded, SignedOutIsRevoked, Minted
  <2>2. CASE u # t
    BY <1>6, <1>8, <2>2 DEF SessionsInv, NoneComesBack, Minted, Pc, Req
  <2> QED
    BY <2>1, <2>2
<1>11. OneBearer'
  <2> SUFFICES ASSUME NEW u \in Tabs, Req(u)'.pc \in Minted, Req(u)'.row.chain \notin forked'
               PROVE  /\ \A v \in Tabs :
                           Req(v)'.pc \in Minted /\ Req(v)'.row.chain = Req(u)'.row.chain
                           => v = u
                      /\ \A k \in DOMAIN sess :
                           Alive(k) /\ sess[k].chain = Req(u)'.row.chain
                           => Req(u)'.pc = "rotate" /\ k = Req(u)'.token
    BY <1>1 DEF OneBearer, Renews, Minted, Pc, Req, Alive
  <2>1. \A v \in Tabs : Req(v).pc \in Minted /\ Req(v).row.chain \notin forked =>
          /\ \A w \in Tabs : Req(w).pc \in Minted /\ Req(w).row.chain = Req(v).row.chain
               => w = v
          /\ \A k \in DOMAIN sess : Alive(k) /\ sess[k].chain = Req(v).row.chain
               => Req(v).pc = "rotate" /\ k = Req(v).token
    BY DEF SessionsInv, OneBearer, Renews, Minted, Pc, Req
  <2>2. ASSUME NEW v \in Tabs \ {t}, Req(v).pc \in Minted, Alive(i),
               Req(v).row.chain = sess[i].chain
        PROVE  sess[i].chain \in forked'
    BY <1>0, <1>7, <1>8, <2>1, <2>2
  <2>3. CASE u = t
    <3>1. Alive(i) /\ Req(u)'.row.chain = sess[i].chain /\ Req(u)'.token = i
          /\ Req(u)'.pc = "rotate"
      BY <1>2, <1>6, <2>3 DEF Minted
    <3>2. \A k \in DOMAIN sess : Alive(k) /\ sess[k].chain = sess[i].chain => k = i
      BY <1>0, <1>8, <3>1 DEF SessionsInv, EndedIsEnded, OneLiveSession
    <3>3. \A v \in Tabs \ {t} : Req(v).pc \in Minted => Req(v).row.chain # sess[i].chain
      BY <2>2, <3>1
    <3> QED
      BY <1>6, <2>3, <3>1, <3>2, <3>3
  <2>4. CASE u # t
    <3>1. Req(u)' = Req(u) /\ Req(u).row.chain \notin forked
      BY <1>6, <1>8, <2>4
    <3>2. ASSUME NEW v \in Tabs, Req(v)'.pc \in Minted,
                 Req(v)'.row.chain = Req(u)'.row.chain
          PROVE  v = u
      <4>1. CASE v = t
        BY <1>2, <1>6, <2>2, <2>4, <3>1, <3>2, <4>1 DEF Minted
      <4>2. CASE v # t
        BY <1>6, <2>1, <3>1, <3>2, <4>2
      <4> QED
        BY <4>1, <4>2
    <3> QED
      BY <2>1, <3>1, <3>2
  <2> QED
    BY <2>3, <2>4
<1> QED
  BY <1>6, <1>9, <1>10, <1>11 DEF Kept, EndedIsEnded

(* The old token is revoked. *)
LEMMA RevokeKeeps ==
  ASSUME SessionsInv, NEW t \in Tabs, RefreshRevoke(t)
  PROVE  Kept
<1>0. /\ SessionsOK /\ tab \in [Tabs -> TabStates] /\ tab[t] \in TabStates
      /\ tab[t].req \in Requests /\ Sound(tab[t], DOMAIN sess)
      /\ Req(t).token \in DOMAIN sess
      /\ Req(t) = tab[t].req /\ tab[t].req.pc \in {"rotate", "expire"}
  BY SoundTabs DEF RefreshRevoke, SessionsInv, SessionsOK, Req, TabStates, Sound, Asks,
     Reading, Pc
<1> DEFINE q == [tab[t].req EXCEPT !.pc = IF Req(t).pc = "rotate" THEN "issue" ELSE "refused"]
<1>1. /\ sess' = Revoke({Req(t).token}) /\ UNCHANGED <<stored, epoch, forked, left>>
      /\ tab' = [tab EXCEPT ![t] = [tab[t] EXCEPT !.req = q]]
  BY <1>0 DEF RefreshRevoke, Rotated, Goto, Pc
<1>2. /\ q \in Requests /\ q.row = Req(t).row /\ q.token = Req(t).token
      /\ q.want = Req(t).want /\ q.pc \in {"issue", "refused"}
      /\ q.pc = "issue" => Req(t).pc = "rotate"
  BY <1>0 DEF Requests
<1> HIDE DEF q
<1>3. Asks(q, DOMAIN sess)
  BY <1>0, <1>2 DEF Asks, Minted, Reading, Sound
<1>4. Sound([tab[t] EXCEPT !.req = q], DOMAIN sess)
  BY <1>0, <1>2, <1>3, RequestIs
<1>5. Ages /\ ~Alive(Req(t).token)'
  <2>1. Ages /\ \A k \in {Req(t).token} \cap DOMAIN sess : ~Alive(k)'
    BY <1>0, <1>1, RevokeFacts
  <2>2. Req(t)'.token = Req(t).token
    BY <1>0, <1>1, <1>2 DEF Req, TabStates
  <2> QED
    BY <1>0, <2>1, <2>2 DEF Alive
<1>6. /\ SessionsOK'
      /\ Req(t)' = q /\ \A u \in Tabs \ {t} : Req(u)' = Req(u)
  <2>1. [tab[t] EXCEPT !.req = q].req = q
    BY <1>0 DEF TabStates
  <2>2. epoch' \in Nat /\ left' \subseteq DOMAIN sess
    BY <1>0, <1>1 DEF SessionsOK
  <2> QED
    BY <1>0, <1>1, <1>4, <1>5, <2>1, <2>2, AgedTypes
<1>7. ASSUME NEW u \in Tabs, Req(u)'.pc \in Minted
      PROVE  /\ Req(u).pc \in Minted /\ Req(u)'.row = Req(u).row
             /\ Req(u)'.token = Req(u).token
             /\ Req(u)'.pc = "rotate" => Req(u).pc = "rotate"
             /\ Req(u)'.pc = "issue" =>
                  \/ Req(u).pc = "issue"
                  \/ Req(u).pc = "rotate" /\ ~Alive(Req(u).token)'
  BY <1>2, <1>5, <1>6, <1>7 DEF Minted
<1> QED
  BY <1>0, <1>1, <1>5, <1>6, <1>7, AgesKeep DEF Kept, SessionsOK

(* heartbeat, _touch: a row is younger, and still of whom it was. *)
LEMMA HeartbeatKeeps ==
  ASSUME SessionsInv, NEW t \in Tabs, Heartbeat(t)
  PROVE  Kept
<1>0. /\ SessionsOK /\ tab \in [Tabs -> TabStates] /\ tab[t] \in TabStates
      /\ tab[t].access \in DOMAIN sess /\ sess \in Seq(Row)
  BY SoundTabs DEF Heartbeat, SessionsInv, SessionsOK, Sound, Pc, Req
<1> DEFINE i == tab[t].access
<1>1. /\ sess' = IF Alive(i) THEN [sess EXCEPT ![i].seen = 0] ELSE sess
      /\ UNCHANGED <<stored, epoch, forked, left>>
      /\ \E back \in BOOLEAN :
           tab' = [tab EXCEPT ![t].req = Quiet, ![t].restored = back]
  BY DEF Heartbeat
<1> HIDE DEF i
<1>2. Ages
  <2>1. CASE ~Alive(i)
    BY <1>0, <1>1, <2>1 DEF Ages, Alive
  <2>2. CASE Alive(i)
    <3>1. i \in DOMAIN sess /\ sess' = [sess EXCEPT ![i].seen = 0]
      BY <1>0, <1>1, <2>2 DEF i
    <3>2. sess[i] \in Row /\ [sess[i] EXCEPT !.seen = 0] \in Row
      <4>1. sess[i] \in Row /\ 0 \in 0 .. Old
        BY <1>0, <3>1, Constants
      <4> QED
        BY <4>1 DEF Row
    <3>3. \A k \in DOMAIN sess : k # i => sess'[k] = sess[k]
      BY <1>0, <3>1
    <3>4. sess'[i] = [sess[i] EXCEPT !.seen = 0]
      BY <1>0, <3>1
    <3>5. sess' \in Seq(Row) /\ DOMAIN sess' = DOMAIN sess
      BY <1>0, <3>1, <3>2
    <3> QED
      BY <2>2, <3>2, <3>3, <3>4, <3>5 DEF Ages, Alive, Row
  <2> QED
    BY <2>1, <2>2
<1>3. PICK back \in BOOLEAN : tab' = [tab EXCEPT ![t].req = Quiet, ![t].restored = back]
  BY <1>1
<1> DEFINE r == [tab[t] EXCEPT !.req = Quiet, !.restored = back]
<1>4. r \in TabStates /\ r.req = Quiet /\ r.access = tab[t].access
  BY <1>0, QuietIs DEF TabStates
<1>5. tab' = [tab EXCEPT ![t] = r]
  BY <1>0, <1>3
<1> HIDE DEF r
<1>6. Sound(r, DOMAIN sess)
  BY <1>0, <1>4, QuietIs DEF Sound
<1>7. /\ SessionsOK'
      /\ Req(t)' = Quiet /\ \A u \in Tabs \ {t} : Req(u)' = Req(u)
  <2>1. epoch' \in Nat /\ left' \subseteq DOMAIN sess
    BY <1>0, <1>1 DEF SessionsOK
  <2> QED
    BY <1>0, <1>1, <1>2, <1>4, <1>5, <1>6, <2>1, AgedTypes
<1>8. \A u \in Tabs : Req(u)'.pc \in Minted => Req(u)' = Req(u)
  BY <1>7, QuietIs DEF Minted
<1> QED
  BY <1>0, <1>1, <1>2, <1>7, <1>8, AgesKeep DEF Kept, SessionsOK, Minted

(* _issue: a row of a new sign-in, or of the one whose last has died. *)
LEMMA IssueKeeps ==
  ASSUME SessionsInv, NEW t \in Tabs, NEW minted \in Row, Issue(t, minted),
         UNCHANGED <<stored, epoch, forked, left>>,
         Pc(t) \in {"login", "issue"},
         Pc(t) = "login" => minted.chain = Len(sess) + 1,
         Pc(t) = "issue" => minted.chain = Req(t).row.chain,
         minted.epoch < epoch => minted.raced
  PROVE  Kept
<1> DEFINE n == Len(sess) + 1
<1>0. /\ SessionsOK /\ tab \in [Tabs -> TabStates] /\ tab[t] \in TabStates
      /\ tab[t].req \in Requests /\ Sound(tab[t], DOMAIN sess)
      /\ Req(t) = tab[t].req /\ Req(t).pc \in {"login", "issue"}
      /\ sess \in Seq(Row) /\ DOMAIN sess = 1 .. Len(sess) /\ n \in Nat \ {0}
      /\ Len(sess) \in Nat
      /\ Req(t).pc = "issue" => Req(t).row.chain \in DOMAIN sess
  <2>1. SessionsOK /\ Sound(tab[t], DOMAIN sess) /\ Req(t) = tab[t].req
    BY SoundTabs DEF SessionsInv, Req
  <2>2. /\ tab \in [Tabs -> TabStates] /\ tab[t] \in TabStates
        /\ tab[t].req \in Requests /\ sess \in Seq(Row)
    BY <2>1 DEF SessionsOK, TabStates
  <2>3. DOMAIN sess = 1 .. Len(sess) /\ n \in Nat \ {0} /\ Len(sess) \in Nat
    BY <2>2
  <2>4. /\ Req(t).pc \in {"login", "issue"}
        /\ Req(t).pc = "issue" => Req(t).row.chain \in DOMAIN sess
    BY <2>1 DEF Sound, Asks, Minted, Pc, Req
  <2> QED
    BY <2>1, <2>2, <2>3, <2>4
<1>1. /\ sess' = Append(sess, minted) /\ sess' \in Seq(Row)
      /\ DOMAIN sess' = 1 .. n /\ sess'[n] = minted
      /\ \A i \in DOMAIN sess : sess'[i] = sess[i] /\ i # n
  BY <1>0 DEF Issue
<1>2. minted.chain \in 1 .. n /\ sess'[n] # Revoked
  <2>1. minted.chain = n \/ minted.chain \in 1 .. Len(sess)
    BY <1>0 DEF Pc, Req
  <2>2. minted.chain \in 1 .. n
    BY <1>0, <2>1
  <2> QED
    BY <1>0, <1>1, <2>2, RevokedRow
<1>3. /\ \A i \in DOMAIN sess : Alive(i)' <=> Alive(i)
      /\ \A i \in DOMAIN sess' : i = n \/ i \in DOMAIN sess
  BY <1>0, <1>1 DEF Alive
<1> DEFINE q == [Req(t) EXCEPT !.pc = "answered", !.heir = n, !.row = Revoked]
<1>4. /\ q \in Requests /\ q.pc = "answered" /\ q.heir = n /\ q.token = Req(t).token
      /\ q.want = Req(t).want
  BY <1>0, RevokedRow DEF Requests
<1>5. Set(t, q)
  BY DEF Issue
<1> HIDE DEF q, n
<1>6. DOMAIN sess \subseteq DOMAIN sess' /\ n \in DOMAIN sess'
  BY <1>0, <1>1 DEF n
<1>7. Asks(q, DOMAIN sess')
  BY <1>0, <1>4, <1>6 DEF Asks, Minted, Reading, Sound
<1>8. Sound([tab[t] EXCEPT !.req = q], DOMAIN sess')
  BY <1>0, <1>4, <1>6, <1>7, RequestIs
<1>9. /\ SessionsOK'
      /\ Req(t)' = q /\ \A u \in Tabs \ {t} : Req(u)' = Req(u)
  <2>1. tab' = [tab EXCEPT ![t] = [tab[t] EXCEPT !.req = q]]
    BY <1>5 DEF Set
  <2>2. [tab[t] EXCEPT !.req = q].req = q
    BY <1>0 DEF TabStates
  <2>3. \A i \in DOMAIN sess' : Alive(i)' => sess'[i].chain \in DOMAIN sess'
    BY <1>0, <1>1, <1>2, <1>3, <1>6 DEF SessionsOK
  <2>4. /\ epoch' \in Nat /\ left' \subseteq DOMAIN sess'
        /\ stored' \in [Browsers -> DOMAIN sess' \cup {0}]
    BY <1>0, <1>6 DEF SessionsOK
  <2> QED
    BY <1>0, <1>1, <1>6, <1>8, <2>1, <2>2, <2>3, <2>4, OneTab
<1>10. /\ \A u \in Tabs : Req(u).pc \in Minted /\ Req(u).row.chain \notin forked =>
            /\ \A v \in Tabs : Req(v).pc \in Minted /\ Req(v).row.chain = Req(u).row.chain
                 => v = u
            /\ \A i \in DOMAIN sess : Alive(i) /\ sess[i].chain = Req(u).row.chain
                 => Req(u).pc = "rotate" /\ i = Req(u).token
       /\ \A u \in Tabs : Req(u).pc \in Minted /\ Req(u).row.chain \in left
            => Req(u).row.chain \in forked
       /\ \A u \in Tabs : Req(u).pc \in Minted => Req(u).row.chain \in DOMAIN sess
  BY <1>0, SoundTabs DEF SessionsInv, OneBearer, NoneComesBack, Renews, Minted, Pc, Req,
     Sound, Asks
<1>11. ASSUME NEW i \in DOMAIN sess, Alive(i), sess[i].chain = minted.chain
       PROVE  minted.chain \in forked
  <2>1. sess[i].chain \in DOMAIN sess
    BY <1>0, <1>11 DEF SessionsOK
  <2>2. Req(t).pc = "issue" /\ minted.chain = Req(t).row.chain
    BY <1>0, <1>11, <2>1 DEF Pc, Req
  <2> QED
    BY <1>10, <1>11, <2>2 DEF Minted
<1>12. OneLiveSession'
  <2> SUFFICES ASSUME NEW i \in DOMAIN sess', NEW j \in DOMAIN sess', Alive(i)', Alive(j)',
                      sess'[i].chain = sess'[j].chain, sess'[i].chain \notin forked
               PROVE  i = j
    BY DEF OneLiveSession
  <2>1. CASE i = n \/ j = n
    BY <1>1, <1>3, <1>11, <2>1
  <2>2. CASE i # n /\ j # n
    BY <1>1, <1>3, <2>2 DEF SessionsInv, EndedIsEnded, OneLiveSession
  <2> QED
    BY <2>1, <2>2
<1>13. PasswordEndsSessions'
  BY <1>1, <1>3 DEF SessionsInv, EndedIsEnded, PasswordEndsSessions
<1>14. minted.chain \in left => minted.chain \in forked
  <2>1. CASE Req(t).pc = "login"
    BY <1>0, <2>1 DEF SessionsOK, Pc, Req
  <2>2. CASE Req(t).pc = "issue"
    BY <1>0, <1>10, <2>2 DEF Minted, Pc, Req
  <2> QED
    BY <1>0, <2>1, <2>2
<1>15. SignedOutIsRevoked'
  BY <1>1, <1>3, <1>14 DEF SessionsInv, EndedIsEnded, SignedOutIsRevoked
<1>16. \A u \in Tabs : Req(u)'.pc \in Minted => u # t /\ Req(u)' = Req(u)
  BY <1>4, <1>9 DEF Minted
<1>17. NoneComesBack'
  BY <1>10, <1>16 DEF NoneComesBack, Minted, Pc, Req
<1>18. OneBearer'
  <2> SUFFICES ASSUME NEW u \in Tabs, Req(u)'.pc \in Minted, Req(u)'.row.chain \notin forked
               PROVE  /\ \A v \in Tabs :
                           Req(v)'.pc \in Minted /\ Req(v)'.row.chain = Req(u)'.row.chain
                           => v = u
                      /\ \A i \in DOMAIN sess' :
                           Alive(i)' /\ sess'[i].chain = Req(u)'.row.chain
                           => Req(u)'.pc = "rotate" /\ i = Req(u)'.token
    BY DEF OneBearer, Renews, Minted, Pc, Req
  <2>1. Req(u)' = Req(u) /\ u # t /\ Req(u).pc \in Minted
    BY <1>16
  <2>2. Req(u).row.chain # minted.chain
    <3>1. CASE Req(t).pc = "login"
      BY <1>0, <1>10, <2>1, <3>1 DEF Pc, Req
    <3>2. CASE Req(t).pc = "issue"
      BY <1>10, <2>1, <3>2 DEF Pc, Req, Minted
    <3> QED
      BY <1>0, <3>1, <3>2
  <2> QED
    BY <1>1, <1>3, <1>10, <1>16, <2>1, <2>2
<1> QED
  BY <1>9, <1>12, <1>13, <1>15, <1>17, <1>18 DEF Kept, EndedIsEnded

(* The row of a request as it is inserted. *)
LEMMA InsertedIs ==
  ASSUME SessionsOK, NEW t \in Tabs, NEW seen \in 0 .. Old
  PROVE  /\ Inserted(t, seen) \in Row
         /\ Inserted(t, seen).chain = Req(t).row.chain
         /\ Inserted(t, seen).epoch < epoch => Inserted(t, seen).raced
<1>1. Req(t).row \in Row /\ epoch \in Nat
  BY DEF SessionsOK, TabStates, Requests, Req
<1> DEFINE raced == Req(t).row.raced \/ Req(t).row.epoch < epoch
<1>2. raced \in BOOLEAN /\ (Req(t).row.epoch < epoch => raced)
  OBVIOUS
<1>3. Inserted(t, seen) = [Req(t).row EXCEPT !.seen = seen, !.raced = raced]
  BY <1>1 DEF Inserted
<1> HIDE DEF raced
<1> QED
  BY <1>1, <1>2, <1>3 DEF Row

LEMMA MintKeeps ==
  ASSUME SessionsInv, NEW t \in Tabs, LoginIssue(t) \/ RefreshIssue(t)
  PROVE  Kept
<1>0. /\ SessionsOK /\ Req(t).row \in Row /\ Len(sess) + 1 \in Nat
      /\ 0 \in 0 .. Old /\ Req(t).row.seen \in 0 .. Old
  <2>1. SessionsOK /\ sess \in Seq(Row) /\ Req(t).row \in Row
    BY DEF SessionsInv, SessionsOK, TabStates, Requests, Req
  <2> QED
    BY <2>1, Constants DEF Row
<1>1. CASE LoginIssue(t)
  <2> DEFINE minted == [Inserted(t, 0) EXCEPT !.chain = Len(sess) + 1]
  <2>1. /\ minted \in Row /\ minted.chain = Len(sess) + 1
        /\ minted.epoch < epoch => minted.raced
    BY <1>0, InsertedIs DEF Row
  <2>2. /\ Issue(t, minted) /\ Pc(t) = "login" /\ UNCHANGED <<stored, epoch, forked, left>>
    BY <1>1 DEF LoginIssue
  <2> HIDE DEF minted
  <2> QED
    BY <2>1, <2>2, IssueKeeps
<1>2. CASE RefreshIssue(t)
  <2> DEFINE minted == Inserted(t, Req(t).row.seen)
  <2>1. /\ minted \in Row /\ minted.chain = Req(t).row.chain
        /\ minted.epoch < epoch => minted.raced
    BY <1>0, InsertedIs
  <2>2. /\ Issue(t, minted) /\ Pc(t) = "issue" /\ UNCHANGED <<stored, epoch, forked, left>>
    BY <1>2 DEF RefreshIssue, Carried
  <2> HIDE DEF minted
  <2> QED
    BY <2>1, <2>2, IssueKeeps
<1> QED
  BY <1>1, <1>2

(* logout: what it revokes was the one there was, and who had read it has *)
(* the sign-in set apart.                                                 *)
LEMMA LogoutKeeps ==
  ASSUME SessionsInv, NEW t \in Tabs, Logout(t)
  PROVE  Kept
<1> DEFINE i == Req(t).token
           q == [Quiet EXCEPT !.pc = "leave"]
<1>0. /\ SessionsOK /\ tab \in [Tabs -> TabStates] /\ tab[t] \in TabStates
      /\ Sound(tab[t], DOMAIN sess) /\ Req(t) = tab[t].req /\ i \in DOMAIN sess
  BY SoundTabs DEF Logout, SessionsInv, SessionsOK, Req, Sound, Asks, Reading, Pc
<1>1. /\ sess' = Revoke({i}) /\ forked' = Overlap(t, i) /\ Set(t, q)
      /\ left' = IF Alive(i) THEN left \cup {sess[i].chain} ELSE left
      /\ UNCHANGED <<stored, epoch>>
  BY DEF Logout, Signed
<1>2. /\ Asks(q, DOMAIN sess) /\ q.pc = "leave"
  BY QuietIs DEF Asks, Requests, Reading, Minted
<1> HIDE DEF q, i
<1>3. /\ Ages /\ sess' \in Seq(Row) /\ DOMAIN sess' = DOMAIN sess
      /\ \A k \in DOMAIN sess : Alive(k)' => k # i
  BY <1>0, <1>1, RevokeFacts DEF Ages
<1>4. /\ SessionsOK'
      /\ Req(t)' = q /\ \A u \in Tabs \ {t} : Req(u)' = Req(u)
  <2>1. Sound([tab[t] EXCEPT !.req = q], DOMAIN sess)
    BY <1>0, <1>2, RequestIs
  <2>2. tab' = [tab EXCEPT ![t] = [tab[t] EXCEPT !.req = q]]
    BY <1>1 DEF Set
  <2>3. [tab[t] EXCEPT !.req = q].req = q
    BY <1>0 DEF TabStates
  <2>4. epoch' \in Nat /\ left' \subseteq DOMAIN sess
    BY <1>0, <1>1 DEF SessionsOK
  <2> QED
    BY <1>0, <1>1, <1>3, <2>1, <2>2, <2>3, <2>4, AgedTypes
<1>5. \A u \in Tabs : Req(u)'.pc \in Minted => Req(u)' = Req(u) /\ u # t
  BY <1>2, <1>4 DEF Minted
<1>6. /\ forked \subseteq forked'
      /\ \A u \in Tabs \ {t} : Req(u).pc \in Minted /\ Req(u).token = i
           => Req(u).row.chain \in forked'
  BY <1>1 DEF Overlap, Minted, Pc, Req
<1>7. OneBearer' /\ OneLiveSession' /\ PasswordEndsSessions'
  BY <1>0, <1>1, <1>3, <1>5, <1>6, AgesBear DEF SessionsOK, Minted
<1>8. SignedOutIsRevoked'
  <2> SUFFICES ASSUME NEW k \in DOMAIN sess', Alive(k)', sess'[k].chain \in left',
                      sess'[k].chain \notin forked'
               PROVE  FALSE
    BY DEF SignedOutIsRevoked
  <2>1. /\ k \in DOMAIN sess /\ k # i /\ Alive(k) /\ sess'[k].chain = sess[k].chain
        /\ sess[k].chain \notin forked
    BY <1>3, <1>6 DEF Ages
  <2>2. sess[k].chain \notin left
    BY <2>1 DEF SessionsInv, EndedIsEnded, SignedOutIsRevoked
  <2>3. Alive(i) /\ sess[k].chain = sess[i].chain
    BY <1>1, <2>1, <2>2
  <2> QED
    BY <1>0, <2>1, <2>3 DEF SessionsInv, EndedIsEnded, OneLiveSession
<1>9. NoneComesBack'
  <2> SUFFICES ASSUME NEW u \in Tabs, Req(u)'.pc \in Minted, Req(u)'.row.chain \in left',
                      Req(u)'.row.chain \notin forked'
               PROVE  FALSE
    BY DEF NoneComesBack, Minted, Pc, Req
  <2>1. /\ Req(u)' = Req(u) /\ u # t /\ Req(u).pc \in Minted
        /\ Req(u).row.chain \notin forked
    BY <1>5, <1>6
  <2>2. Req(u).row.chain \notin left
    BY <2>1 DEF SessionsInv, NoneComesBack, Minted, Pc, Req
  <2>3. Alive(i) /\ sess[i].chain = Req(u).row.chain
    BY <1>1, <2>1, <2>2
  <2>4. i = Req(u).token
    BY <1>0, <2>1, <2>3 DEF SessionsInv, OneBearer, Minted, Pc, Req
  <2> QED
    BY <1>6, <2>1, <2>4
<1> QED
  BY <1>4, <1>7, <1>8, <1>9 DEF Kept, EndedIsEnded

(* A new password leaves nothing alive. *)
LEMMA PasswordKeeps ==
  ASSUME SessionsInv, Reset \/ \E t \in Tabs : ChangePassword(t)
  PROVE  Kept
<1>0. SessionsOK /\ tab \in [Tabs -> TabStates] /\ epoch \in Nat
  BY DEF SessionsInv, SessionsOK
<1>1. /\ sess' = Revoke(DOMAIN sess) /\ epoch' = epoch + 1
      /\ UNCHANGED <<stored, forked, left>>
  BY DEF Reset, ChangePassword, NewPassword, EverySession
<1>2. Ages /\ \A i \in DOMAIN sess : ~Alive(i)'
  BY <1>0, <1>1, RevokeFacts
<1>3. epoch' \in Nat /\ left' \subseteq DOMAIN sess
  BY <1>0, <1>1 DEF SessionsOK
<1>4. CASE Reset
  <2>1. tab' = tab
    BY <1>4 DEF Reset
  <2>2. \A u \in Tabs : Req(u)' = Req(u)
    BY <2>1 DEF Req
  <2>3. SessionsOK'
    <3>1. \A u \in Tabs : tab[u].access \in DOMAIN sess \cup {0} /\ Holds(u)
      BY <1>0 DEF SessionsOK
    <3>2. \A u \in Tabs : tab'[u].access \in DOMAIN sess' \cup {0} /\ Holds(u)'
      BY <1>2, <2>1, <3>1 DEF Holds, Pc, Req, Ages
    <3> QED
      BY <1>0, <1>1, <1>2, <1>3, <2>1, <3>2 DEF SessionsOK, Ages
  <2> QED
    BY <1>1, <1>2, <1>3, <2>2, <2>3, AgesKeep DEF Kept, Minted
<1>5. ASSUME NEW t \in Tabs, ChangePassword(t) PROVE Kept
  <2> DEFINE q == [Quiet EXCEPT !.pc = "login", !.row = Fresh(epoch + 1)]
  <2>1. Fresh(epoch + 1) \in Row
    BY <1>0, FreshIs
  <2>2. q \in Requests /\ q.pc = "login" /\ q.want = {}
    BY <2>1, QuietIs DEF Requests
  <2>3. Set(t, q)
    BY <1>5 DEF ChangePassword
  <2> HIDE DEF q
  <2>4. Asks(q, DOMAIN sess)
    BY <2>2 DEF Asks, Reading, Minted
  <2>5. Sound([tab[t] EXCEPT !.req = q], DOMAIN sess)
    BY <1>0, <2>2, <2>4, RequestIs
  <2>6. tab' = [tab EXCEPT ![t] = [tab[t] EXCEPT !.req = q]]
    BY <2>3 DEF Set
  <2>7. [tab[t] EXCEPT !.req = q].req = q
    BY <1>0 DEF TabStates
  <2>8. /\ SessionsOK'
        /\ Req(t)' = q /\ \A u \in Tabs \ {t} : Req(u)' = Req(u)
    BY <1>0, <1>1, <1>2, <1>3, <2>5, <2>6, <2>7, AgedTypes
  <2>9. \A u \in Tabs : Req(u)'.pc \in Minted => Req(u)' = Req(u)
    BY <2>2, <2>8 DEF Minted
  <2> QED
    BY <1>1, <1>2, <1>3, <2>8, <2>9, AgesKeep DEF Kept, Minted
<1> QED
  BY <1>4, <1>5

(* Time passes for every session and every tab. *)
LEMMA TickKeeps ==
  ASSUME SessionsInv, Tick
  PROVE  Kept
<1>0. /\ SessionsOK /\ tab \in [Tabs -> TabStates] /\ sess \in Seq(Row)
      /\ \A t \in Tabs : Sound(tab[t], DOMAIN sess)
  BY SoundTabs DEF SessionsInv, SessionsOK
<1>1. UNCHANGED <<stored, epoch, forked, left>>
  BY DEF Tick
<1>2. Ages
  <2>1. /\ DOMAIN sess = 1 .. Len(sess) /\ Len(sess) \in Nat
        /\ \A i \in DOMAIN sess : sess[i] \in Row
    BY <1>0
  <2>2. sess' = [i \in 1 .. Len(sess) |->
          IF Alive(i) THEN [sess[i] EXCEPT !.seen = Older(sess[i].seen, Old)] ELSE Revoked]
    BY <2>1 DEF Tick
  <2>3. ASSUME NEW i \in DOMAIN sess
        PROVE  [sess[i] EXCEPT !.seen = Older(sess[i].seen, Old)] \in Row
    <3>1. Older(sess[i].seen, Old) \in 0 .. Old
      BY <2>1, Constants DEF Older, Row
    <3> QED
      BY <2>1, <3>1 DEF Row
  <2>4. sess' \in Seq(Row) /\ DOMAIN sess' = DOMAIN sess
    BY <2>1, <2>2, <2>3, RevokedRow
  <2>5. ASSUME NEW i \in DOMAIN sess, sess'[i] # Revoked
        PROVE  /\ Alive(i)
               /\ sess'[i].chain = sess[i].chain /\ sess'[i].epoch = sess[i].epoch
               /\ sess'[i].raced = sess[i].raced
    <3>1. Alive(i) /\ sess'[i] = [sess[i] EXCEPT !.seen = Older(sess[i].seen, Old)]
      BY <2>1, <2>2, <2>5
    <3> QED
      BY <2>1, <3>1 DEF Row
  <2> QED
    BY <2>4, <2>5 DEF Ages, Alive
<1>3. ASSUME NEW t \in Tabs
      PROVE  /\ tab'[t] \in TabStates /\ tab'[t].req = tab[t].req
             /\ tab'[t].access = tab[t].access
  <2>1. tab[t] \in TabStates
    BY <1>0
  <2>2. /\ Older(tab[t].got, Access) \in Nat /\ Older(tab[t].active, Idle) \in Nat
        /\ Older(tab[t].beat, Beat) \in Nat
    BY <2>1, Constants DEF Older, TabStates
  <2>3. tab'[t] = IF tab[t].user
                    THEN [tab[t] EXCEPT !.got = Older(tab[t].got, Access),
                            !.active = Older(tab[t].active, Idle),
                            !.beat = Older(tab[t].beat, Beat)]
                    ELSE [tab[t] EXCEPT !.beat = Older(tab[t].beat, Beat)]
    BY DEF Tick
  <2> QED
    BY <2>1, <2>2, <2>3 DEF TabStates
<1>4. \A t \in Tabs : Req(t)' = Req(t)
  BY <1>3 DEF Req
<1>5. SessionsOK'
  <2>1. tab' \in [Tabs -> TabStates]
    BY <1>3 DEF Tick
  <2>2. \A t \in Tabs : tab'[t].access \in DOMAIN sess' \cup {0} /\ Holds(t)'
    BY <1>0, <1>2, <1>3, <1>4
       DEF Holds, Sound, Asks, Pc, Req, Ages, Reading, Minted
  <2> QED
    BY <1>0, <1>1, <1>2, <2>1, <2>2 DEF SessionsOK, Ages
<1> QED
  BY <1>0, <1>1, <1>2, <1>4, <1>5, AgesKeep DEF Kept, Minted, SessionsOK

(* For any browsers, tabs and requests, one bearer of a sign-in at most    *)
(* goes on with it, as SessionsInv says, in every reachable state (the     *)
(* rotation of refresh tokens, routers/auth.py).                           *)
THEOREM SessionsInductive == SessionsSpec => []SessionsInv
<1>1. SessionsInit => SessionsInv
  <2> SUFFICES ASSUME SessionsInit PROVE SessionsInv
    OBVIOUS
  <2>1. /\ sess = <<>> /\ DOMAIN sess = {} /\ epoch = 0 /\ left = {}
        /\ \A t \in Tabs : tab[t] = Blank /\ Req(t) = Quiet
    BY BlankIs DEF SessionsInit, Req
  <2>2. \A t \in Tabs : Sound(tab[t], DOMAIN sess)
    BY <2>1, BlankIs, QuietIs DEF Sound
  <2>3. /\ tab \in [Tabs -> TabStates] /\ stored \in [Browsers -> DOMAIN sess \cup {0}]
        /\ sess \in Seq(Row)
    BY <2>1, BlankIs DEF SessionsInit
  <2>4. SessionsOK
    BY <2>1, <2>2, <2>3, SoundTabs
  <2>5. OneBearer /\ NoneComesBack
    BY <2>1, QuietIs DEF OneBearer, NoneComesBack, Pc, Req
  <2>6. EndedIsEnded
    BY <2>1 DEF EndedIsEnded, OneLiveSession, PasswordEndsSessions, SignedOutIsRevoked
  <2> QED
    BY <2>4, <2>5, <2>6 DEF SessionsInv
<1>2. SessionsInv /\ [SessionsNext]_svars => SessionsInv'
  <2> SUFFICES ASSUME SessionsInv, [SessionsNext]_svars PROVE SessionsInv'
    OBVIOUS
  <2>1. CASE SessionsNext
    <3>1. Kept
      BY <2>1, TabsKeep, MintKeeps, ReadKeeps, RevokeKeeps, HeartbeatKeeps, LogoutKeeps,
         PasswordKeeps, TickKeeps DEF SessionsNext
    <3> QED
      BY <3>1 DEF Kept, SessionsInv
  <2>2. CASE UNCHANGED svars
    BY <2>2 DEF svars, SessionsInv, SessionsOK, Alive, Holds, Pc, Req, OneBearer, Renews,
       NoneComesBack, EndedIsEnded, OneLiveSession, PasswordEndsSessions,
       SignedOutIsRevoked
  <2> QED
    BY <2>1, <2>2
<1> QED
  BY <1>1, <1>2, PTL DEF SessionsSpec

(* refresh, logout, change_password: what ends a session ends it, whatever *)
(* else is on its way at that moment.                                      *)
THEOREM SessionsEnd == SessionsSpec => []EndedIsEnded
<1>1. SessionsInv => EndedIsEnded
  BY DEF SessionsInv
<1> QED
  BY <1>1, SessionsInductive, PTL

-----------------------------------------------------------------------------
(* Who is away and who is not: the age of a session, the timers of the     *)
(* tabs and the last real input in front of a browser.                     *)

LEMMA TabFacts ==
  ASSUME SessionsOK, NEW t \in Tabs
  PROVE  /\ tab[t] \in TabStates /\ tab[t].req \in Requests /\ Sound(tab[t], DOMAIN sess)
         /\ tab[t].active \in Nat /\ tab[t].beat \in Nat
         /\ Req(t) = tab[t].req /\ Pc(t) = tab[t].req.pc
         /\ Here(t) = Home[t] /\ Home[t] \in Browsers
  BY SoundTabs, Constants DEF SessionsOK, TabStates, Req, Pc, Here

LEMMA RowFacts ==
  ASSUME NEW S \in Seq(Row)
  PROVE  /\ DOMAIN S \subseteq Nat \ {0}
         /\ \A i \in DOMAIN S : S[i] \in Row /\ S[i].seen \in 0 .. Old
<1>1. DOMAIN S \subseteq Nat \ {0} /\ \A i \in DOMAIN S : S[i] \in Row
  OBVIOUS
<1> QED
  BY <1>1 DEF Row

(* What a step leaves true of a tab that takes no part in it.              *)
LEMMA TimelyStill ==
  ASSUME NEW u \in Tabs, Timely(u), tab'[u] = tab[u],
         touched[Here(u)] \in Nat, touched'[Here(u)] \in Nat, Req(u).row.seen \in Nat,
         touched'[Here(u)] <= touched[Here(u)]
  PROVE  Timely(u)'
  BY Constants DEF Timely, Beating, Pc, Req, Here

LEMMA SteadyStill ==
  ASSUME SessionsOK, SessionsOK', NEW u \in Tabs, Steady(u), tab'[u] = tab[u],
         u \in excused => u \in excused',
         u \notin excused' =>
           /\ stored'[Here(u)] = stored[Here(u)]
           /\ \A i \in {tab[u].access, Req(u).heir} \cap DOMAIN sess :
                Alive(i) => /\ i \in DOMAIN sess' /\ Alive(i)'
                            /\ sess'[i].seen <= sess[i].seen
  PROVE  Steady(u)'
<1>0. sess \in Seq(Row) /\ sess' \in Seq(Row)
  BY DEF SessionsOK
<1>1. /\ Pc(u)' = Pc(u) /\ Req(u)' = Req(u) /\ Here(u)' = Here(u) 
  BY DEF Pc, Req, Here
<1>2. CASE u \in excused'
  BY <1>1, <1>2 DEF Steady
<1>3. CASE u \notin excused'
  <2>1. u \notin excused /\ Lives(u)
    BY <1>3 DEF Steady
  <2>2. Pc(u) = "answered" => Req(u).heir \in DOMAIN sess
    BY DEF SessionsOK, Holds
  <2>3. Lives(u)'
    BY <1>1, <1>3, <2>1, <2>2 DEF Lives
  <2>4. ASSUME NEW a \in DOMAIN sess, Alive(a), a \in {tab[u].access, Req(u).heir},
               Within(tab[u], sess[a].seen)
        PROVE  Within(tab'[u], sess'[a].seen)
    <3>1. a \in DOMAIN sess' /\ sess'[a].seen <= sess[a].seen
      BY <1>3, <2>4
    <3>2. /\ sess[a].seen \in Nat /\ sess'[a].seen \in Nat
          /\ tab[u].active \in Nat /\ tab[u].beat \in Nat
      <4>1. sess[a].seen \in 0 .. Old /\ sess'[a].seen \in 0 .. Old
        BY <1>0, <2>4, <3>1, RowFacts
      <4> QED
        BY <4>1, TabFacts
    <3> QED
      BY <1>1, <2>4, <3>1, <3>2, Constants DEF Within
  <2>5. tab[u].user /\ ~tab[u].restored => Young(u)'
    <3> SUFFICES ASSUME tab[u].user, ~tab[u].restored PROVE Young(u)'
      OBVIOUS
    <3>1. Young(u)
      BY <2>1 DEF Steady
    <3>2. Pc(u) \in {"quiet", "beat", "refresh", "rotate"} =>
            Within(tab'[u], sess'[tab[u].access].seen)
      BY <2>1, <2>4, <3>1 DEF Young, Lives
    <3>3. Pc(u) = "answered" => Within(tab'[u], sess'[Req(u).heir].seen)
      BY <2>1, <2>2, <2>4, <3>1 DEF Young, Lives
    <3>4. Pc(u) \in {"rotate", "issue"} => Within(tab'[u], Req(u).row.seen)
      BY <1>1, <3>1 DEF Young, Within
    <3> QED
      BY <1>1, <3>1, <3>2, <3>3, <3>4 DEF Young, Within
  <2>6. ~tab[u].user /\ ~tab[u].restored /\ Pc(u) = "answered" => sess'[Req(u).heir].seen = 0
    <3> SUFFICES ASSUME ~tab[u].user, ~tab[u].restored, Pc(u) = "answered"
                 PROVE  sess'[Req(u).heir].seen = 0
      OBVIOUS
    <3>1. sess[Req(u).heir].seen = 0 /\ Alive(Req(u).heir) /\ Req(u).heir \in DOMAIN sess
      BY <2>1, <2>2 DEF Steady, Lives
    <3>2. Req(u).heir \in DOMAIN sess' /\ sess'[Req(u).heir].seen <= 0
      BY <1>3, <3>1
    <3> QED
      BY <1>0, <3>2, RowFacts
  <2> QED
    BY <1>1, <1>3, <2>1, <2>3, <2>5, <2>6 DEF Steady
<1> QED
  BY <1>2, <1>3

(* A row after a step of tab t: as it was; or dead, for all who may know   *)
(* of it were told to expect that; or seen just now.                       *)
RowAfter(t, i) ==
  \/ sess'[i] = sess[i]
  \/ /\ sess'[i] = Revoked /\ Beside(t) \subseteq excused'
     /\ i \in Bears(t) \/ Tabs \subseteq excused'
  \/ /\ i \in Bears(t) /\ sess'[i] # Revoked /\ Alive(i) /\ sess'[i].seen = 0
     /\ touched'[Here(t)] = 0

(* What a step of tab t leaves of the tokens in its browser.               *)
StoredAfter(t) ==
  /\ \A b \in Browsers \ {Here(t)} : stored'[b] = stored[b]
  /\ stored'[Here(t)] \in {stored[Here(t)], 0} \cup Bears(t)
  /\ stored'[Here(t)] # stored[Here(t)] => Beside(t) \subseteq excused'

LEMMA StepIdle ==
  ASSUME SessionsInv, SessionsOK', IdleInv, NEW t \in Tabs, NEW N,
         \A u \in Tabs \ {t} : tab'[u] = tab[u],
         \A u \in (Tabs \cap excused) \ {t} : u \in excused',
         N \cap DOMAIN sess = {}, DOMAIN sess' = DOMAIN sess \cup N,
         Bears(t)' \subseteq Bears(t) \cup {0, stored[Here(t)]} \cup N,
         StoredAfter(t), \A i \in DOMAIN sess : RowAfter(t, i),
         \A i \in N : touched'[Here(t)] <= sess'[i].seen,
         touched' \in [Browsers -> Nat], \A b \in Browsers : touched'[b] <= touched[b],
         Timely(t)', Steady(t)'
  PROVE  IdleInv'
<1>0. /\ SessionsOK /\ KnownApart /\ \A u \in Tabs : Timely(u) /\ Steady(u)
      /\ \A u \in Tabs : Here(u) = Home[u] /\ Home[u] \in Browsers
      /\ stored \in [Browsers -> DOMAIN sess \cup {0}] /\ touched \in [Browsers -> Nat]
      /\ \A u \in Tabs : Bears(u) \subseteq DOMAIN sess \cup {0}
      /\ sess \in Seq(Row) /\ sess' \in Seq(Row)
  BY Constants DEF SessionsInv, SessionsOK, IdleInv, KnownApart, Here
<1>1. ASSUME NEW u \in Tabs \ {t} PROVE Bears(u)' = Bears(u)
  BY <1>1 DEF Bears, Req
<1>2. ASSUME NEW b \in Browsers, NEW i \in DOMAIN sess', Knows(b, i)'
      PROVE  (i \in DOMAIN sess /\ Knows(b, i)) \/ (i \in N /\ b = Here(t))
  <2>1. i # 0 /\ i \in DOMAIN sess \cup N
    BY <1>0, RowFacts
  <2>2. ASSUME stored'[b] = i PROVE i \in DOMAIN sess /\ Knows(b, i)
    <3>1. CASE b # Here(t)
      BY <1>0, <2>1, <2>2, <3>1 DEF StoredAfter, Knows
    <3>2. CASE b = Here(t)
      <4>1. i = stored[b] \/ i \in Bears(t)
        BY <2>1, <2>2, <3>2 DEF StoredAfter
      <4> QED
        BY <1>0, <2>1, <3>2, <4>1 DEF Knows
    <3> QED
      BY <3>1, <3>2
  <2>3. ASSUME NEW u \in Tabs, Home[u] = b, i \in Bears(u)'
        PROVE  (i \in DOMAIN sess /\ Knows(b, i)) \/ (i \in N /\ b = Here(t))
    <3>1. CASE u # t
      BY <1>0, <1>1, <2>1, <2>3, <3>1 DEF Knows
    <3>2. CASE u = t
      <4>1. i \in Bears(t) \/ i = stored[b] \/ i \in N
        BY <1>0, <2>1, <2>3, <3>2
      <4> QED
        BY <1>0, <2>1, <2>3, <3>2, <4>1 DEF Knows
    <3> QED
      BY <3>1, <3>2
  <2> QED
    BY <1>2, <2>2, <2>3 DEF Knows
<1>3. ASSUME NEW u \in Tabs \ {t}, u \notin excused',
             NEW i \in DOMAIN sess, i \in Bears(u), i \in Bears(t)
      PROVE  u \notin Beside(t) => FALSE
  <2>1. Knows(Home[u], i) /\ Knows(Home[t], i)
    BY <1>3 DEF Knows
  <2>2. Home[u] = Home[t]
    BY <1>0, <2>1 DEF KnownApart
  <2> QED
    BY <1>3, <2>2 DEF Beside
<1>4. KnownApart'
  <2>1. ASSUME NEW u \in Tabs PROVE Bears(u)' \subseteq DOMAIN sess' \cup {0}
    <3>1. CASE u = t
      BY <1>0, <3>1
    <3>2. CASE u # t
      BY <1>0, <1>1, <3>2
    <3> QED
      BY <3>1, <3>2
  <2>2. ASSUME NEW b \in Browsers, NEW c \in Browsers, NEW i \in DOMAIN sess',
               Knows(b, i)', Knows(c, i)'
        PROVE  b = c
    <3>1. CASE i \in N
      BY <1>2, <2>2, <3>1
    <3>2. CASE i \notin N
      <4>1. i \in DOMAIN sess /\ Knows(b, i) /\ Knows(c, i)
        BY <1>2, <2>2, <3>2
      <4> QED
        BY <1>0, <4>1 DEF KnownApart
    <3> QED
      BY <3>1, <3>2
  <2>3. ASSUME NEW b \in Browsers, NEW i \in DOMAIN sess', Knows(b, i)', Alive(i)'
        PROVE  touched'[b] <= sess'[i].seen
    <3>1. CASE i \in N
      BY <1>2, <2>3, <3>1
    <3>2. CASE i \notin N
      <4>1. i \in DOMAIN sess /\ Knows(b, i) /\ RowAfter(t, i)
        BY <1>2, <2>3, <3>2
      <4>2. CASE sess'[i] = sess[i]
        <5>1. touched[b] <= sess[i].seen
          BY <1>0, <2>3, <4>1, <4>2 DEF KnownApart, Alive
        <5>2. touched[b] \in Nat /\ touched'[b] \in Nat /\ sess[i].seen \in Nat
          BY <1>0, <4>1, RowFacts
        <5>3. touched'[b] <= touched[b]
          OBVIOUS
        <5> QED
          BY <4>2, <5>1, <5>2, <5>3
      <4>3. CASE i \in Bears(t) /\ sess'[i].seen = 0 /\ touched'[Here(t)] = 0
        <5>1. Knows(Home[t], i)
          BY <4>3 DEF Knows
        <5>2. b = Here(t)
          BY <1>0, <4>1, <5>1 DEF KnownApart
        <5> QED
          BY <4>3, <5>2
      <4> QED
        BY <2>3, <4>1, <4>2, <4>3 DEF RowAfter, Alive
    <3> QED
      BY <3>1, <3>2
  <2> QED
    BY <2>1, <2>2, <2>3 DEF KnownApart
<1>5. ASSUME NEW u \in Tabs \ {t} PROVE Timely(u)'
  <2>1. Req(u).row.seen \in Nat
    <3>1. Req(u) \in Requests
      BY <1>0, TabFacts
    <3>2. Req(u).row \in Row
      BY <3>1 DEF Requests
    <3> QED
      BY <3>2 DEF Row
  <2>2. /\ touched'[Here(u)] <= touched[Here(u)]
        /\ touched[Here(u)] \in Nat /\ touched'[Here(u)] \in Nat
    <3>1. Here(u) \in Browsers
      BY Constants DEF Here
    <3>2. touched[Here(u)] \in Nat /\ touched'[Here(u)] \in Nat
      BY <1>0, <3>1
    <3>3. \A b \in Browsers : touched'[b] <= touched[b]
      OBVIOUS
    <3> QED
      BY <3>1, <3>2, <3>3
  <2> QED
    BY <1>0, <2>1, <2>2, TimelyStill
<1>6. ASSUME NEW u \in Tabs \ {t} PROVE Steady(u)'
  <2>1. ASSUME u \notin excused'
        PROVE  /\ stored'[Here(u)] = stored[Here(u)]
               /\ \A i \in {tab[u].access, Req(u).heir} \cap DOMAIN sess :
                    Alive(i) => /\ i \in DOMAIN sess' /\ Alive(i)'
                                /\ sess'[i].seen <= sess[i].seen
    <3>1. stored'[Here(u)] = stored[Here(u)]
      <4>1. CASE Home[u] = Home[t]
        BY <1>0, <2>1, <4>1 DEF StoredAfter, Beside
      <4>2. CASE Home[u] # Home[t]
        <5>1. Here(u) \in Browsers \ {Here(t)}
          BY <1>0, <4>2
        <5> QED
          BY <5>1 DEF StoredAfter
      <4> QED
        BY <4>1, <4>2
    <3>2. ASSUME NEW i \in DOMAIN sess, i \in Bears(u), Alive(i)
          PROVE  i \in DOMAIN sess' /\ Alive(i)' /\ sess'[i].seen <= sess[i].seen
      <4>1. i \notin Bears(t) \/ ~(Beside(t) \subseteq excused')
        BY <1>3, <2>1, <3>2
      <4>2. sess[i].seen \in Nat
        BY <1>0, RowFacts
      <4>3. RowAfter(t, i)
        BY <3>2
      <4>4. CASE sess'[i] = sess[i]
        BY <3>2, <4>2, <4>4 DEF Alive
      <4>5. CASE sess'[i] # Revoked /\ sess'[i].seen = 0
        BY <3>2, <4>2, <4>5 DEF Alive
      <4> QED
        BY <2>1, <4>1, <4>3, <4>4, <4>5 DEF RowAfter
    <3> QED
      BY <3>1, <3>2 DEF Bears
  <2> QED
    BY <1>0, <1>6, <2>1, SteadyStill
<1> QED
  BY <1>4, <1>5, <1>6 DEF IdleInv

(* A step that changes no row. *)
LEMMA CalmIdle ==
  ASSUME SessionsInv, SessionsOK', IdleInv, NEW t \in Tabs, NEW r,
         tab' = [tab EXCEPT ![t] = r], sess' = sess,
         {r.access, r.req.token, r.req.heir} \subseteq Bears(t) \cup {0, stored[Here(t)]},
         StoredAfter(t), \A u \in (Tabs \cap excused) \ {t} : u \in excused',
         touched' \in {touched, [touched EXCEPT ![Here(t)] = 0]},
         Timely(t)', Steady(t)'
  PROVE  IdleInv'
<1>1. /\ tab \in [Tabs -> TabStates] /\ touched \in [Browsers -> Nat]
      /\ Here(t) \in Browsers
  <2>1. tab \in [Tabs -> TabStates] /\ touched \in [Browsers -> Nat]
    BY DEF SessionsInv, SessionsOK, IdleInv, KnownApart
  <2>2. Here(t) \in Browsers
    BY TabFacts DEF SessionsInv
  <2> QED
    BY <2>1, <2>2
<1>2. /\ \A u \in Tabs \ {t} : tab'[u] = tab[u]
      /\ Bears(t)' \subseteq Bears(t) \cup {0, stored[Here(t)]} \cup {}
  BY <1>1 DEF Bears, Req
<1>3. \A i \in DOMAIN sess : RowAfter(t, i)
  BY DEF RowAfter
<1>4. touched' \in [Browsers -> Nat] /\ \A b \in Browsers : touched'[b] <= touched[b]
  BY <1>1
<1>5. /\ {} \cap DOMAIN sess = {} /\ DOMAIN sess' = DOMAIN sess \cup {}
      /\ \A i \in {} : touched'[Here(t)] <= sess'[i].seen
  OBVIOUS
<1> QED
  BY <1>2, <1>3, <1>4, <1>5, StepIdle

(* The tokens go, the page is that of nobody. *)
LEMMA DroppedIdle ==
  ASSUME SessionsInv, SessionsOK', IdleInv, NEW t \in Tabs, Dropped(t), sess' = sess,
         touched' = touched, excused \subseteq excused', Beside(t) \subseteq excused'
  PROVE  IdleInv'
<1> DEFINE r == [Blank EXCEPT !.beat = tab[t].beat]
<1>0. SessionsOK /\ tab \in [Tabs -> TabStates] /\ stored \in [Browsers -> DOMAIN sess \cup {0}]
  BY DEF SessionsInv, SessionsOK
<1>1. /\ r.access = 0 /\ r.req = Quiet /\ ~r.user /\ r.awake /\ ~r.restored /\ r.active = 0
  BY BlankIs DEF Blank
<1>2. tab' = [tab EXCEPT ![t] = r] /\ stored' = [stored EXCEPT ![Here(t)] = 0]
  BY DEF Dropped
<1>3. tab'[t] = r
  BY <1>0, <1>2
<1> HIDE DEF r
<1>4. Quiet.token = 0 /\ Quiet.heir = 0 /\ Quiet.pc = "quiet" /\ Quiet.want = {}
  BY DEF Quiet
<1>5. StoredAfter(t)
  BY <1>0, <1>2, TabFacts DEF StoredAfter
<1>6. Timely(t)' /\ Steady(t)'
  BY <1>1, <1>3, <1>4, Constants DEF Timely, Steady, Lives, Beating, Pc, Req
<1> QED
  BY <1>1, <1>2, <1>4, <1>5, <1>6, CalmIdle

(* A tab whose laptop sleeps or wakes, or that is closed. *)
LEMMA AsideIdle ==
  ASSUME SessionsInv, SessionsOK', IdleInv, NEW t \in Tabs, Sleep(t) \/ Wake(t) \/ Close(t)
  PROVE  IdleInv'
<1>0. /\ SessionsOK /\ tab \in [Tabs -> TabStates] /\ tab[t] \in TabStates
      /\ Timely(t) /\ Steady(t)
  BY DEF SessionsInv, SessionsOK, IdleInv
<1>1. UNCHANGED <<sess, stored, touched>> /\ excused \subseteq excused'
  BY DEF Sleep, Wake, Close
<1>2. StoredAfter(t)
  BY <1>1 DEF StoredAfter
<1>3. CASE Close(t)
  <2>1. tab' = [tab EXCEPT ![t] = Blank]
    BY <1>3 DEF Close
  <2>2. /\ Blank.access = 0 /\ Blank.req = Quiet /\ ~Blank.user /\ Blank.awake
        /\ ~Blank.restored /\ Blank.active = 0
        /\ Quiet.token = 0 /\ Quiet.heir = 0 /\ Quiet.pc = "quiet" /\ Quiet.want = {}
    BY DEF Blank, Quiet
  <2>3. tab'[t] = Blank
    BY <1>0, <2>1
  <2>4. Timely(t)' /\ Steady(t)'
    BY <2>2, <2>3, Constants DEF Timely, Steady, Lives, Beating, Pc, Req
  <2> QED
    BY <1>1, <1>2, <2>1, <2>2, <2>4, CalmIdle
<1>4. CASE Sleep(t) \/ Wake(t)
  <2>1. PICK awake \in BOOLEAN : tab' = [tab EXCEPT ![t].awake = awake]
    BY <1>4 DEF Sleep, Wake
  <2> DEFINE r == [tab[t] EXCEPT !.awake = awake]
  <2>2. /\ r.access = tab[t].access /\ r.req = tab[t].req /\ r.user = tab[t].user
        /\ r.restored = tab[t].restored /\ r.active = tab[t].active /\ r.beat = tab[t].beat
        /\ r.awake = awake
    BY <1>0 DEF TabStates
  <2>3. tab' = [tab EXCEPT ![t] = r] /\ tab'[t] = r
    BY <1>0, <2>1
  <2> HIDE DEF r
  <2>4. ~awake => tab[t].user /\ t \in excused'
    <3>1. CASE Sleep(t)
      BY <3>1 DEF Sleep, Ready
    <3>2. CASE Wake(t)
      <4>1. tab'[t].awake
        BY <1>0, <3>2 DEF Wake, TabStates
      <4> QED
        BY <2>2, <2>3, <4>1
    <3> QED
      BY <1>4, <3>1, <3>2
  <2>5. Timely(t)'
    BY <1>0, <1>1, <2>2, <2>3 DEF Timely, Beating, Pc, Req, Here
  <2>6. t \notin excused' => t \notin excused /\ Lives(t) /\ Lives(t)'
    BY <1>0, <1>1, <2>2, <2>3 DEF Steady, Lives, Pc, Req, Here, Alive
  <2>7. Young(t) => Young(t)'
    BY <1>1, <2>2, <2>3 DEF Young, Within, Beating, Pc, Req
  <2>8. Steady(t)'
    BY <1>0, <1>1, <2>2, <2>3, <2>4, <2>6, <2>7 DEF Steady, Pc, Req
  <2>9. {r.access, r.req.token, r.req.heir} \subseteq Bears(t)
    BY <2>2 DEF Bears, Req
  <2> QED
    BY <1>1, <1>2, <2>3, <2>5, <2>8, <2>9, CalmIdle
<1> QED
  BY <1>3, <1>4

(* A tab that asks for something. *)
LEMMA RefreshingFacts ==
  ASSUME NEW t \in Tabs, NEW want
  PROVE  /\ Refreshing(t, want).pc = "refresh" /\ Refreshing(t, want).want = want
         /\ Refreshing(t, want).token = stored[Here(t)] /\ Refreshing(t, want).heir = 0
  BY DEF Refreshing, Quiet

LEMMA QuietFacts == Quiet.token = 0 /\ Quiet.heir = 0 /\ Quiet.pc = "quiet" /\ Quiet.want = {}
  BY DEF Quiet

LEMMA AskIdle ==
  ASSUME SessionsInv, SessionsOK', IdleInv, NEW t \in Tabs, NEW q, Ready(t), Set(t, q),
         UNCHANGED <<sess, stored, touched, excused>>,
         q.heir = 0, q.token \in {0, stored[Here(t)]}, q.want # {"beat"},
         q.pc \in {"refresh", "logout", "leave"},
         q.pc = "refresh" => q.token = stored[Here(t)]
  PROVE  IdleInv'
<1> DEFINE r == [tab[t] EXCEPT !.req = q]
<1>0. /\ SessionsOK /\ tab \in [Tabs -> TabStates] /\ tab[t] \in TabStates
      /\ Timely(t) /\ Steady(t)
  BY DEF SessionsInv, SessionsOK, IdleInv
<1>1. /\ r.access = tab[t].access /\ r.req = q /\ r.user = tab[t].user
      /\ r.restored = tab[t].restored /\ r.active = tab[t].active /\ r.beat = tab[t].beat
      /\ r.awake = tab[t].awake
  BY <1>0 DEF TabStates
<1>2. tab' = [tab EXCEPT ![t] = r] /\ tab'[t] = r
  BY <1>0 DEF Set
<1> HIDE DEF r
<1>3. StoredAfter(t)
  BY DEF StoredAfter
<1>4. tab[t].user /\ tab[t].awake /\ Pc(t) = "quiet" /\ Req(t) = Quiet /\ ~Beating(tab[t])
  BY <1>0, QuietFacts DEF Ready, Timely, Beating, Pc, Req
<1>5. Timely(t)'
  BY <1>1, <1>2 DEF Timely, Beating, Pc, Req
<1>6. t \notin excused => Lives(t)'
  BY <1>0, <1>1, <1>2, <1>4 DEF Steady, Lives, Pc, Req, Here, Alive
<1>7. Young(t) => Young(t)'
  BY <1>1, <1>2, <1>4 DEF Young, Within, Beating, Pc, Req
<1>8. Steady(t)'
  BY <1>0, <1>1, <1>2, <1>4, <1>6, <1>7 DEF Steady, Pc, Req
<1> QED
  BY <1>1, <1>2, <1>3, <1>5, <1>8, CalmIdle DEF Bears

LEMMA AsksIdle ==
  ASSUME SessionsInv, SessionsOK', IdleInv, NEW t \in Tabs, Poll(t) \/ SignOut(t)
  PROVE  IdleInv'
<1>0. /\ Ready(t) /\ UNCHANGED <<sess, stored, touched, excused>>
      /\ tab[t].req \in Requests /\ Timely(t)
  BY TabFacts DEF Poll, SignOut, SessionsInv, IdleInv
<1>1. ASSUME NEW want \in {{}, {"logout"}}, AskRefresh(t, want) PROVE IdleInv'
  <2>1. Set(t, Refreshing(t, want)) /\ want # {"beat"}
    BY <1>1 DEF AskRefresh
  <2> QED
    BY <1>0, <2>1, RefreshingFacts, AskIdle
<1>2. ASSUME Goto(t, "leave") PROVE IdleInv'
  <2>1. Req(t) = Quiet
    BY <1>0 DEF Timely, Ready
  <2>2. Set(t, [Quiet EXCEPT !.pc = "leave"])
    BY <1>2, <2>1, TabFacts DEF SessionsInv, SessionsOK, Goto, Set, Req
  <2>3. /\ [Quiet EXCEPT !.pc = "leave"].pc = "leave" /\ [Quiet EXCEPT !.pc = "leave"].want = {}
        /\ [Quiet EXCEPT !.pc = "leave"].token = 0 /\ [Quiet EXCEPT !.pc = "leave"].heir = 0
    BY DEF Quiet
  <2> QED
    BY <1>0, <2>2, <2>3, AskIdle
<1>3. ASSUME Set(t, [Quiet EXCEPT !.pc = "logout", !.token = stored[Here(t)]]) PROVE IdleInv'
  <2> DEFINE q == [Quiet EXCEPT !.pc = "logout", !.token = stored[Here(t)]]
  <2>1. /\ q.pc = "logout" /\ q.want = {} /\ q.token = stored[Here(t)] /\ q.heir = 0
    BY DEF Quiet
  <2> QED
    BY <1>0, <1>3, <2>1, AskIdle
<1> QED
  BY <1>1, <1>2, <1>3 DEF Poll, SignOut

(* Real input, and the heartbeat it may send. *)
LEMMA InputIdle ==
  ASSUME SessionsInv, SessionsOK', IdleInv, NEW t \in Tabs, Input(t)
  PROVE  IdleInv'
<1>0. /\ SessionsOK /\ tab \in [Tabs -> TabStates] /\ tab[t] \in TabStates
      /\ Timely(t) /\ Steady(t) /\ UNCHANGED <<sess, stored, excused>>
      /\ touched' = [touched EXCEPT ![Here(t)] = 0] /\ touched \in [Browsers -> Nat]
      /\ Here(t) \in Browsers /\ sess \in Seq(Row)
      /\ tab[t].active \in Nat /\ tab[t].beat \in Nat
  BY TabFacts DEF Input, SessionsInv, SessionsOK, IdleInv, KnownApart
<1>1. tab[t].user /\ tab[t].awake /\ Pc(t) = "quiet" /\ Req(t) = Quiet /\ ~Beating(tab[t])
  BY <1>0, QuietFacts DEF Input, Ready, Timely, Beating, Pc, Req
<1>2. touched'[Here(t)] = 0
  BY <1>0
<1>3. StoredAfter(t)
  BY <1>0 DEF StoredAfter
<1>4. ASSUME t \notin excused
      PROVE  /\ tab[t].access \in DOMAIN sess /\ sess[tab[t].access].seen \in Nat
             /\ Alive(tab[t].access) /\ stored[Here(t)] = tab[t].access
             /\ ~tab[t].restored => Within(tab[t], sess[tab[t].access].seen)
  <2>1. /\ tab[t].access \in DOMAIN sess /\ Alive(tab[t].access)
        /\ stored[Here(t)] = tab[t].access
    BY <1>0, <1>1, <1>4 DEF Steady, Lives
  <2>2. ~tab[t].restored => Within(tab[t], sess[tab[t].access].seen)
    BY <1>0, <1>1, <1>4 DEF Steady, Young
  <2>3. sess[tab[t].access].seen \in 0 .. Old
    BY <1>0, <2>1, RowFacts
  <2> QED
    BY <2>1, <2>2, <2>3
<1>5. CASE tab[t].beat < Beat /\ tab' = [tab EXCEPT ![t].active = 0]
  <2> DEFINE r == [tab[t] EXCEPT !.active = 0]
  <2>1. /\ r.access = tab[t].access /\ r.req = tab[t].req /\ r.user = tab[t].user
        /\ r.restored = tab[t].restored /\ r.active = 0 /\ r.beat = tab[t].beat
        /\ r.awake = tab[t].awake
    BY <1>0 DEF TabStates
  <2>2. tab' = [tab EXCEPT ![t] = r] /\ tab'[t] = r
    BY <1>0, <1>5
  <2> HIDE DEF r
  <2>3. Timely(t)'
    BY <1>1, <1>2, <2>1, <2>2, QuietFacts DEF Timely, Beating, Pc, Req, Here
  <2>4. t \notin excused => Lives(t)'
    BY <1>0, <1>1, <2>1, <2>2 DEF Steady, Lives, Pc, Req, Here, Alive
  <2>5. ASSUME t \notin excused, ~tab[t].restored PROVE Young(t)'
    <3>1. sess[tab[t].access].seen <= tab[t].beat
      BY <1>1, <1>4, <1>5, <2>5 DEF Within
    <3>2. sess[tab[t].access].seen <= 0 + Beat
      BY <1>0, <1>4, <1>5, <2>5, <3>1, Constants
    <3>3. Within(r, sess[tab[t].access].seen) /\ r.req.pc = "quiet"
      BY <1>1, <2>1, <3>1, <3>2 DEF Within, Beating, Pc, Req
    <3> QED
      BY <1>0, <2>1, <2>2, <3>3 DEF Young, Pc, Req
  <2>6. Steady(t)'
    <3>1. 0 <= Idle
      BY Constants
    <3>2. tab'[t].active <= Idle /\ tab'[t].awake /\ tab'[t].user
      BY <1>1, <2>1, <2>2, <3>1, Zenon
    <3> QED
      BY <1>0, <2>1, <2>2, <2>4, <2>5, <3>2 DEF Steady
  <2>7. {r.access, r.req.token, r.req.heir} \subseteq Bears(t)
    BY <2>1 DEF Bears, Req
  <2> QED
    BY <1>0, <1>3, <2>2, <2>3, <2>6, <2>7, CalmIdle
<1>6. CASE /\ tab[t].beat >= Beat
           /\ tab' = [tab EXCEPT ![t].active = 0, ![t].beat = 0, ![t].req = BeatRequest(t)]
  <2> DEFINE r == [tab[t] EXCEPT !.active = 0, !.beat = 0, !.req = BeatRequest(t)]
  <2>1. /\ r.access = tab[t].access /\ r.req = BeatRequest(t) /\ r.user = tab[t].user
        /\ r.restored = tab[t].restored /\ r.active = 0 /\ r.beat = 0
        /\ r.awake = tab[t].awake
    BY <1>0 DEF TabStates
  <2>2. tab' = [tab EXCEPT ![t] = r] /\ tab'[t] = r
    BY <1>0, <1>6
  <2>3. /\ BeatRequest(t).heir = 0 /\ BeatRequest(t).token \in {0, stored[Here(t)]}
        /\ \/ BeatRequest(t) = Quiet /\ stored[Here(t)] = 0
           \/ BeatRequest(t).pc = "beat" /\ BeatRequest(t).want = {}
           \/ /\ BeatRequest(t).pc = "refresh" /\ BeatRequest(t).want = {"beat"}
              /\ BeatRequest(t).token = stored[Here(t)]
    <3>1. CASE MayAsk(t)
      <4>1. BeatRequest(t) = [Quiet EXCEPT !.pc = "beat"]
        BY <3>1 DEF BeatRequest
      <4> QED
        BY <4>1 DEF Quiet
    <3>2. CASE ~MayAsk(t) /\ stored[Here(t)] # 0
      <4>1. BeatRequest(t) = Refreshing(t, {"beat"})
        BY <3>2 DEF BeatRequest
      <4> QED
        BY <4>1, RefreshingFacts
    <3>3. CASE ~MayAsk(t) /\ stored[Here(t)] = 0
      <4>1. BeatRequest(t) = Quiet
        BY <3>3 DEF BeatRequest
      <4> QED
        BY <3>3, <4>1, QuietFacts
    <3> QED
      BY <3>1, <3>2, <3>3
  <2> HIDE DEF r
  <2>4. Timely(t)'
    BY <1>2, <2>1, <2>2, <2>3, QuietFacts DEF Timely, Pc, Req, Here
  <2>5. ASSUME t \notin excused
        PROVE  \/ r.req.pc = "beat"
               \/ /\ r.req.pc = "refresh" /\ r.req.want = {"beat"}
                  /\ r.req.token = tab[t].access
    <3>1. stored[Here(t)] # 0
      BY <1>0, <1>4, <2>5, RowFacts
    <3> QED
      BY <1>4, <2>1, <2>3, <2>5, <3>1
  <2>6. t \notin excused => Lives(t)'
    BY <1>0, <1>4, <2>1, <2>2, <2>5 DEF Lives, Pc, Req, Here, Alive
  <2>7. ASSUME t \notin excused, ~tab[t].restored PROVE Young(t)'
    <3>1. sess[tab[t].access].seen <= tab[t].active + Beat
      BY <1>1, <1>4, <2>7 DEF Within
    <3>2. sess[tab[t].access].seen <= Idle + Beat
      BY <1>0, <1>4, <2>7, <3>1, Constants DEF Steady
    <3>3. Within(r, sess[tab[t].access].seen)
      BY <2>5, <2>7, <3>2 DEF Within, Beating
    <3> QED
      BY <1>0, <2>1, <2>2, <2>5, <2>7, <3>3 DEF Young, Pc, Req
  <2>8. Steady(t)'
    <3>1. 0 <= Idle
      BY Constants
    <3>2. tab'[t].active <= Idle /\ tab'[t].awake /\ tab'[t].user
      BY <1>1, <2>1, <2>2, <3>1, Zenon
    <3> QED
      BY <1>0, <2>1, <2>2, <2>6, <2>7, <3>2 DEF Steady
  <2>9. {r.access, r.req.token, r.req.heir} \subseteq Bears(t) \cup {0, stored[Here(t)]}
    BY <2>1, <2>3 DEF Bears
  <2> QED
    BY <1>0, <1>3, <2>2, <2>4, <2>8, <2>9, CalmIdle
<1> QED
  BY <1>5, <1>6 DEF Input

(* A page is opened where somebody is signed in; somebody signs in. *)
LEMMA OpenIdle ==
  ASSUME SessionsInv, SessionsOK', IdleInv, NEW t \in Tabs, Open(t)
  PROVE  IdleInv'
<1> DEFINE r == [tab[t] EXCEPT !.req = Refreshing(t, {}), !.restored = TRUE, !.beat = Beat]
<1>0. /\ SessionsOK /\ tab \in [Tabs -> TabStates] /\ tab[t] \in TabStates
      /\ Timely(t) /\ Steady(t) /\ UNCHANGED <<sess, stored, excused, touched>>
      /\ ~tab[t].user
  BY DEF Open, SessionsInv, SessionsOK, IdleInv
<1>1. /\ r.access = tab[t].access /\ r.req = Refreshing(t, {}) /\ r.user = tab[t].user
      /\ r.restored /\ r.active = tab[t].active /\ r.awake = tab[t].awake
  BY <1>0 DEF TabStates
<1>2. tab' = [tab EXCEPT ![t] = r] /\ tab'[t] = r
  BY <1>0 DEF Open
<1> HIDE DEF r
<1>3. StoredAfter(t)
  BY <1>0 DEF StoredAfter
<1>4. /\ r.req.pc = "refresh" /\ r.req.want = {} /\ r.req.token = stored[Here(t)]
      /\ r.req.heir = 0
  BY <1>1, RefreshingFacts
<1>5. Timely(t)'
  BY <1>2, <1>4 DEF Timely, Beating, Pc, Req
<1>6. Lives(t)'
  BY <1>0, <1>1, <1>2, <1>4 DEF Lives, Pc, Req
<1>7. Steady(t)'
  <2>1. r.active <= Idle /\ r.awake
    BY <1>0, <1>1, ZenonT(60) DEF Steady
  <2> QED
    BY <1>0, <1>1, <1>2, <1>6, <2>1, ZenonT(60) DEF Steady
<1>8. {r.access, r.req.token, r.req.heir} \subseteq Bears(t) \cup {0, stored[Here(t)]}
  BY <1>1, <1>4 DEF Bears
<1> QED
  BY <1>0, <1>2, <1>3, <1>5, <1>7, <1>8, CalmIdle

LEMMA SignInIdle ==
  ASSUME SessionsInv, SessionsOK', IdleInv, NEW t \in Tabs, SignIn(t)
  PROVE  IdleInv'
<1> DEFINE q == [Quiet EXCEPT !.pc = "login", !.row = Fresh(epoch)]
           r == [tab[t] EXCEPT !.req = q]
<1>0. /\ SessionsOK /\ tab \in [Tabs -> TabStates] /\ tab[t] \in TabStates
      /\ Timely(t) /\ Steady(t) /\ UNCHANGED <<sess, stored>>
      /\ touched' = [touched EXCEPT ![Here(t)] = 0] /\ touched \in [Browsers -> Nat]
      /\ ~tab[t].user /\ \A u \in (Tabs \cap excused) \ {t} : u \in excused'
      /\ Here(t) \in Browsers
  BY TabFacts DEF SignIn, SessionsInv, SessionsOK, IdleInv, KnownApart
<1>1. q.pc = "login" /\ q.want = {} /\ q.token = 0 /\ q.heir = 0
  BY DEF Quiet
<1> HIDE DEF q
<1>2. /\ r.access = tab[t].access /\ r.req = q /\ r.user = tab[t].user
      /\ r.restored = tab[t].restored /\ r.active = tab[t].active /\ r.awake = tab[t].awake
  BY <1>0 DEF TabStates
<1>3. tab' = [tab EXCEPT ![t] = r] /\ tab'[t] = r
  BY <1>0 DEF SignIn, Set, q
<1> HIDE DEF r
<1>4. StoredAfter(t)
  BY <1>0 DEF StoredAfter
<1>5. Timely(t)'
  BY <1>0, <1>1, <1>2, <1>3 DEF Timely, Pc, Req, Here
<1>6. Lives(t)'
  BY <1>0, <1>1, <1>2, <1>3 DEF Lives, Pc, Req
<1>7. Steady(t)'
  BY <1>0, <1>1, <1>2, <1>3, <1>6 DEF Steady, Pc, Req
<1> QED
  BY <1>0, <1>1, <1>2, <1>3, <1>4, <1>5, <1>7, CalmIdle DEF Bears

(* The answer: what was asked for is asked again, with the new tokens. *)
LEMMA AnsweredIdle ==
  ASSUME SessionsInv, SessionsOK', IdleInv, NEW t \in Tabs, Answered(t)
  PROVE  IdleInv'
<1> DEFINE h == Req(t).heir
           r == [tab[t] EXCEPT !.access = h, !.got = 0, !.user = TRUE,
                   !.active = IF tab[t].user THEN tab[t].active ELSE 0, !.req = Asked(t)]
<1>0. /\ SessionsOK /\ tab \in [Tabs -> TabStates] /\ tab[t] \in TabStates
      /\ Timely(t) /\ Steady(t) /\ UNCHANGED <<sess, touched>>
      /\ excused' = excused \cup Beside(t) /\ Pc(t) = "answered"
      /\ stored' = [stored EXCEPT ![Here(t)] = h] /\ stored \in [Browsers -> DOMAIN sess \cup {0}]
      /\ Here(t) \in Browsers /\ h \in DOMAIN sess /\ t \notin Beside(t)
      /\ tab[t].active \in Nat /\ tab[t].beat \in Nat
      /\ Req(t).want \in {{}, {"beat"}, {"logout"}} /\ Req(t) = tab[t].req
  <2>1. /\ SessionsOK /\ Timely(t) /\ Steady(t) /\ UNCHANGED <<sess, touched>>
        /\ Pc(t) = "answered" /\ stored' = [stored EXCEPT ![Here(t)] = h]
        /\ excused' = excused \cup Beside(t)
    BY DEF Answered, Blame, SessionsInv, IdleInv
  <2>2. /\ tab \in [Tabs -> TabStates] /\ stored \in [Browsers -> DOMAIN sess \cup {0}]
        /\ h \in DOMAIN sess
    BY <2>1 DEF SessionsOK, Holds
  <2>3. /\ tab[t] \in TabStates /\ Here(t) \in Browsers /\ tab[t].active \in Nat
        /\ tab[t].beat \in Nat /\ Req(t) = tab[t].req /\ Req(t) \in Requests
    BY <2>1, TabFacts
  <2>4. Req(t).want \in {{}, {"beat"}, {"logout"}}
    BY <2>3 DEF Requests
  <2>5. t \notin Beside(t)
    BY DEF Beside
  <2> QED
    BY <2>1, <2>2, <2>3, <2>4, <2>5
<1>1. /\ r.access = h /\ r.req = Asked(t) /\ r.user /\ r.restored = tab[t].restored
      /\ r.active = (IF tab[t].user THEN tab[t].active ELSE 0)
      /\ r.beat = tab[t].beat /\ r.awake = tab[t].awake
  BY <1>0 DEF TabStates
<1>2. tab' = [tab EXCEPT ![t] = r] /\ tab'[t] = r
  BY <1>0 DEF Answered
<1> HIDE DEF r
<1>3. /\ Asked(t).heir = 0 /\ Asked(t).token \in {0, Req(t).token}
      /\ Asked(t).want = {} /\ Asked(t).pc \in {"quiet", "beat", "logout"}
      /\ Asked(t).pc = "quiet" => Asked(t) = Quiet /\ Req(t).want = {}
      /\ Asked(t).pc = "beat" => Req(t).want = {"beat"}
  <2>1. CASE Req(t).want = {}
    <3>1. Asked(t) = Quiet
      BY <2>1 DEF Asked
    <3> QED
      BY <2>1, <3>1, QuietFacts
  <2>2. CASE Req(t).want = {"beat"}
    <3>1. Asked(t) = [Quiet EXCEPT !.pc = "beat"]
      BY <2>2 DEF Asked
    <3> QED
      BY <2>2, <3>1 DEF Quiet
  <2>3. CASE Req(t).want = {"logout"}
    <3>1. Asked(t) = [Quiet EXCEPT !.pc = "logout", !.token = Req(t).token]
      BY <2>3 DEF Asked
    <3> QED
      BY <3>1 DEF Quiet
  <2> QED
    BY <1>0, <2>1, <2>2, <2>3
<1>4. StoredAfter(t)
  BY <1>0 DEF StoredAfter, Bears
<1>5. Timely(t)'
  BY <1>0, <1>1, <1>2, <1>3 DEF Timely, Beating, Pc, Req, Here
<1>6. ASSUME t \notin excused PROVE Lives(t)'
  <2>1. Alive(h)
    BY <1>0, <1>6 DEF Steady, Lives
  <2> QED
    BY <1>0, <1>1, <1>2, <1>3, <2>1 DEF Lives, Pc, Req, Here, Alive
<1>7. ASSUME t \notin excused, ~tab[t].restored PROVE Young(t)'
  <2>1. CASE tab[t].user
    <3>1. Within(tab[t], sess[h].seen)
      BY <1>0, <1>7, <2>1 DEF Steady, Young
    <3>2. r.req.pc \in {"quiet", "beat"} => Within(r, sess[h].seen)
      BY <1>0, <1>1, <1>3, <2>1, <3>1 DEF Within, Beating, Pc
    <3> QED
      BY <1>0, <1>1, <1>2, <1>3, <3>2 DEF Young, Pc, Req
  <2>2. CASE ~tab[t].user
    <3>1. sess[h].seen = 0
      BY <1>0, <1>7, <2>2 DEF Steady
    <3>2. r.active = 0 /\ r.beat \in Nat
      BY <1>0, <1>1, <2>2
    <3>3. Within(r, sess[h].seen)
      BY <3>1, <3>2, Constants DEF Within
    <3> QED
      BY <1>0, <1>1, <1>2, <1>3, <3>3 DEF Young, Pc, Req
  <2> QED
    BY <2>1, <2>2
<1>8. Steady(t)'
  <2>1. r.active <= Idle
    BY <1>0, <1>1, Constants DEF Steady
  <2>2. r.awake \/ t \in excused
    BY <1>0, <1>1 DEF Steady
  <2> QED
    BY <1>0, <1>1, <1>2, <1>6, <1>7, <2>1, <2>2 DEF Steady
<1>9. {r.access, r.req.token, r.req.heir} \subseteq Bears(t) \cup {0, stored[Here(t)]}
  BY <1>1, <1>3 DEF Bears
<1> QED
  BY <1>0, <1>2, <1>4, <1>5, <1>8, <1>9, CalmIdle

LEMMA TabsIdle ==
  ASSUME SessionsInv, SessionsOK', IdleInv, NEW t \in Tabs,
         \/ SignIn(t) \/ Answered(t) \/ Refused(t) \/ Lose(t) \/ Poll(t) \/ Input(t)
         \/ Open(t) \/ Close(t) \/ SignOut(t) \/ Leave(t) \/ Sleep(t) \/ Wake(t)
  PROVE  IdleInv'
<1>1. CASE Refused(t) \/ Leave(t)
  BY <1>1, DroppedIdle DEF Refused, Leave, Blame
<1>2. CASE Lose(t) /\ Pc(t) \notin {"beat", "logout"}
  BY <1>2, DroppedIdle DEF Lose
<1>3. CASE Lose(t) /\ Pc(t) \in {"beat", "logout"}
  <2>1. PICK q \in {Quiet, [Quiet EXCEPT !.pc = "leave"]} : Set(t, q)
    BY <1>3 DEF Lose
  <2> DEFINE r == [tab[t] EXCEPT !.req = q]
  <2>2. /\ SessionsOK /\ tab \in [Tabs -> TabStates] /\ tab[t] \in TabStates
        /\ Timely(t) /\ Steady(t) /\ UNCHANGED <<sess, stored, touched>>
        /\ excused \subseteq excused' /\ t \in excused'
    BY <1>3 DEF Lose, SessionsInv, SessionsOK, IdleInv
  <2>3. /\ r.access = tab[t].access /\ r.req = q /\ r.user = tab[t].user
        /\ r.restored = tab[t].restored /\ r.active = tab[t].active /\ r.awake = tab[t].awake
    BY <2>2 DEF TabStates
  <2>4. tab' = [tab EXCEPT ![t] = r] /\ tab'[t] = r
    BY <2>1, <2>2 DEF Set
  <2>5. /\ q.pc \in {"quiet", "leave"} /\ q.want = {} /\ q.token = 0 /\ q.heir = 0
        /\ q.pc = "quiet" => q = Quiet
    BY <2>1 DEF Quiet
  <2> HIDE DEF r
  <2>6. Timely(t)'
    BY <2>3, <2>4, <2>5 DEF Timely, Beating, Pc, Req
  <2>7. tab[t].user \/ tab[t].restored
    BY <1>3, <2>2 DEF Steady
  <2>8. Steady(t)'
    BY <2>2, <2>3, <2>4, <2>5, <2>7 DEF Steady
  <2>9. StoredAfter(t)
    BY <2>2 DEF StoredAfter
  <2> QED
    BY <2>2, <2>3, <2>4, <2>5, <2>6, <2>8, <2>9, CalmIdle DEF Bears
<1> QED
  BY <1>1, <1>2, <1>3, SignInIdle, AnsweredIdle, AsksIdle, InputIdle, OpenIdle, AsideIdle

(* The row is read. *)
LEMMA ReadIdle ==
  ASSUME SessionsInv, SessionsOK', IdleInv, NEW t \in Tabs, RefreshRead(t)
  PROVE  IdleInv'
<1> DEFINE i == Req(t).token
           pc == CASE ~Alive(i) -> "refused"
                   [] Alive(i) /\ TooIdle(sess[i]) -> "expire"
                   [] OTHER -> "rotate"
           q == [Req(t) EXCEPT !.row = sess[i], !.pc = pc]
           r == [tab[t] EXCEPT !.req = q]
<1>0. /\ SessionsOK /\ tab \in [Tabs -> TabStates] /\ Timely(t) /\ Steady(t)
      /\ UNCHANGED <<sess, stored, excused, touched>> /\ Pc(t) = "refresh"
      /\ i \in DOMAIN sess /\ KnownApart
  BY DEF RefreshRead, SessionsInv, SessionsOK, IdleInv, Holds
<1>1. /\ tab[t] \in TabStates /\ Req(t) = tab[t].req /\ Req(t) \in Requests
      /\ Here(t) = Home[t] /\ Home[t] \in Browsers
      /\ sess[i] \in Row /\ sess[i].seen \in Nat
  <2>1. sess \in Seq(Row)
    BY <1>0 DEF SessionsOK
  <2>2. sess[i] \in Row /\ sess[i].seen \in 0 .. Old
    BY <1>0, <2>1, RowFacts
  <2> QED
    BY <1>0, <2>2, TabFacts
<1>2. /\ pc \in {"refused", "expire", "rotate"}
      /\ pc # "refused" => Alive(i)
      /\ pc = "rotate" => sess[i].seen <= Idle + Grace
      /\ Alive(i) /\ sess[i].seen <= Idle + Grace => pc = "rotate"
  <2>1. TooIdle(sess[i]) <=> ~(sess[i].seen <= Idle + Grace)
    BY <1>1, Constants DEF TooIdle
  <2>2. CASE ~Alive(i)
    BY <2>2
  <2>3. CASE Alive(i) /\ TooIdle(sess[i])
    BY <2>1, <2>3
  <2>4. CASE Alive(i) /\ ~TooIdle(sess[i])
    BY <2>1, <2>4
  <2> QED
    BY <2>2, <2>3, <2>4
<1>3. tab' = [tab EXCEPT ![t] = r] /\ tab'[t] = r
  BY <1>0 DEF RefreshRead, Set
<1> HIDE DEF pc
<1>4. /\ q.pc = pc /\ q.row = sess[i] /\ q.token = i /\ q.heir = Req(t).heir
      /\ q.want = Req(t).want
  BY <1>1 DEF Requests
<1> HIDE DEF q
<1>5. /\ r.access = tab[t].access /\ r.req = q /\ r.user = tab[t].user
      /\ r.restored = tab[t].restored /\ r.active = tab[t].active /\ r.awake = tab[t].awake
      /\ r.beat = tab[t].beat
  BY <1>1 DEF TabStates
<1> HIDE DEF r, i
<1>6. StoredAfter(t)
  BY <1>0 DEF StoredAfter
<1>7. Timely(t)'
  <2>1. pc = "rotate" => touched[Here(t)] <= sess[i].seen
    <3>1. Knows(Here(t), i)
      BY <1>1 DEF Knows, Bears, i
    <3> QED
      BY <1>0, <1>1, <1>2, <3>1 DEF KnownApart
  <2>2. Beating(r) => Beating(tab[t])
    BY <1>1, <1>2, <1>4, <1>5 DEF Beating
  <2>3. /\ Pc(t)' = pc /\ Req(t)' = q /\ Here(t)' = Here(t) /\ touched' = touched /\ tab'[t] = r
    BY <1>0, <1>3, <1>4, <1>5 DEF Pc, Req, Here
  <2> QED
    BY <1>0, <1>2, <1>4, <2>1, <2>2, <2>3 DEF Timely
<1>8. ASSUME t \notin excused PROVE Lives(t)'
  BY <1>0, <1>1, <1>2, <1>3, <1>4, <1>5, <1>8 DEF Steady, Lives, Pc, Req, Here, Alive, i
<1>9. ASSUME t \notin excused, ~tab[t].restored, tab[t].user PROVE Young(t)'
  <2>1. Alive(i) /\ tab[t].access = i /\ Within(tab[t], sess[i].seen)
    BY <1>0, <1>9 DEF Steady, Lives, Young, i
  <2>2. sess[i].seen <= Idle + Grace
    <3>1. sess[i].seen <= Idle + Beat
      <4>1. tab[t].active \in Nat /\ tab[t].active <= Idle
        BY <1>0, TabFacts DEF Steady
      <4> QED
        BY <1>1, <2>1, <4>1, Constants DEF Within
    <3> QED
      BY <1>1, <3>1, SessionsAssumption
  <2>3. Within(r, sess[i].seen)
    <3>1. Beating(r) <=> Beating(tab[t])
      BY <1>0, <1>1, <1>2, <1>4, <1>5 DEF Beating, Pc
    <3> QED
      BY <1>5, <2>1, <3>1 DEF Within
  <2>4. /\ Pc(t)' = "rotate" /\ Req(t)' = q /\ tab'[t] = r /\ sess' = sess
    BY <1>0, <1>2, <1>3, <1>4, <1>5, <2>1, <2>2 DEF Pc, Req
  <2> QED
    BY <1>4, <1>5, <2>1, <2>3, <2>4 DEF Young
<1>10. Steady(t)'
  <2>1. tab[t].user \/ tab[t].restored
    BY <1>0 DEF Steady
  <2> QED
    BY <1>0, <1>3, <1>5, <1>8, <1>9, <2>1 DEF Steady
<1>11. {r.access, r.req.token, r.req.heir} \subseteq Bears(t)
  BY <1>4, <1>5 DEF Bears, i
<1> QED
  BY <1>0, <1>3, <1>6, <1>7, <1>10, <1>11, CalmIdle

(* The rows after a token was revoked. *)
LEMMA RevokedIdle ==
  ASSUME SessionsInv, SessionsOK', IdleInv, NEW t \in Tabs, NEW r, NEW i \in Bears(t),
         tab' = [tab EXCEPT ![t] = r], sess' = Revoke({i}), Blame(t),
         UNCHANGED <<stored, touched>>,
         {r.access, r.req.token, r.req.heir} \subseteq Bears(t) \cup {0},
         Timely(t)', Steady(t)'
  PROVE  IdleInv'
<1>0. SessionsOK /\ tab \in [Tabs -> TabStates] /\ touched \in [Browsers -> Nat]
  BY DEF SessionsInv, SessionsOK, IdleInv, KnownApart
<1>1. /\ DOMAIN sess' = DOMAIN sess \cup {}
      /\ \A k \in DOMAIN sess : sess'[k] = IF k \in {i} THEN Revoked ELSE sess[k]
  BY DEF Revoke
<1>2. excused' = excused \cup Beside(t)
  BY DEF Blame
<1>3. \A k \in DOMAIN sess : RowAfter(t, k)
  BY <1>1, <1>2 DEF RowAfter
<1>4. StoredAfter(t)
  BY DEF StoredAfter
<1>5. touched' \in [Browsers -> Nat] /\ \A b \in Browsers : touched'[b] <= touched[b]
  BY <1>0
<1>6. /\ \A u \in Tabs \ {t} : tab'[u] = tab[u]
      /\ Bears(t)' \subseteq Bears(t) \cup {0, stored[Here(t)]} \cup {}
  BY <1>0 DEF Bears, Req
<1>7. /\ {} \cap DOMAIN sess = {} /\ \A k \in {} : touched'[Here(t)] <= sess'[k].seen
      /\ \A u \in (Tabs \cap excused) \ {t} : u \in excused'
  BY <1>2
<1> QED
  BY <1>1, <1>3, <1>4, <1>5, <1>6, <1>7, StepIdle

LEMMA RevokeIdle ==
  ASSUME SessionsInv, SessionsOK', IdleInv, NEW t \in Tabs, RefreshRevoke(t)
  PROVE  IdleInv'
<1> DEFINE to == IF Pc(t) = "rotate" THEN "issue" ELSE "refused"
           q == [tab[t].req EXCEPT !.pc = to]
           r == [tab[t] EXCEPT !.req = q]
<1>0. /\ SessionsOK /\ tab \in [Tabs -> TabStates] /\ Timely(t) /\ Steady(t)
      /\ UNCHANGED <<stored, touched>> /\ Pc(t) \in {"rotate", "expire"} /\ Blame(t)
      /\ sess' = Revoke({Req(t).token})
  BY DEF RefreshRevoke, Rotated, SessionsInv, SessionsOK, IdleInv
<1>1. tab[t] \in TabStates /\ Req(t) = tab[t].req /\ Req(t) \in Requests /\ t \notin Beside(t)
  BY <1>0, TabFacts DEF Beside
<1>2. /\ to \in {"issue", "refused"} /\ (to = "issue" <=> Pc(t) = "rotate")
      /\ to = "refused" <=> Pc(t) = "expire"
  BY <1>0
<1>3. tab' = [tab EXCEPT ![t] = r] /\ tab'[t] = r
  BY <1>0 DEF RefreshRevoke, Goto
<1> HIDE DEF to
<1>4. /\ q.pc = to /\ q.row = Req(t).row /\ q.token = Req(t).token /\ q.heir = Req(t).heir
      /\ q.want = Req(t).want
  BY <1>1 DEF Requests
<1> HIDE DEF q
<1>5. /\ r.access = tab[t].access /\ r.req = q /\ r.user = tab[t].user
      /\ r.restored = tab[t].restored /\ r.active = tab[t].active /\ r.awake = tab[t].awake
      /\ r.beat = tab[t].beat
  BY <1>1 DEF TabStates
<1> HIDE DEF r
<1>6. Pc(t)' = to /\ Req(t)' = q /\ Here(t)' = Here(t) /\ touched' = touched /\ tab'[t] = r
  BY <1>0, <1>3, <1>4, <1>5 DEF Pc, Req, Here
<1>7. Beating(r) <=> Beating(tab[t])
  BY <1>0, <1>1, <1>2, <1>4, <1>5 DEF Beating, Pc
<1>8. Timely(t)'
  BY <1>0, <1>2, <1>4, <1>6, <1>7 DEF Timely
<1>9. t \notin excused' => t \notin excused /\ Lives(t)'
  BY <1>0, <1>1, <1>2, <1>6 DEF Blame, Lives
<1>10. ASSUME t \notin excused', ~tab[t].restored, tab[t].user PROVE Young(t)'
  <2>1. Pc(t) = "rotate" /\ Within(tab[t], Req(t).row.seen)
    BY <1>0, <1>9, <1>10 DEF Steady, Young
  <2>2. Within(r, Req(t).row.seen)
    BY <1>5, <1>7, <2>1 DEF Within
  <2> QED
    BY <1>2, <1>4, <1>6, <2>1, <2>2 DEF Young
<1>11. Steady(t)'
  <2>1. tab[t].user \/ tab[t].restored
    BY <1>0 DEF Steady
  <2> QED
    BY <1>0, <1>5, <1>6, <1>9, <1>10, <2>1 DEF Steady, Blame
<1>12. {r.access, r.req.token, r.req.heir} \subseteq Bears(t) \cup {0}
  BY <1>4, <1>5 DEF Bears
<1>13. Req(t).token \in Bears(t)
  BY DEF Bears
<1> QED
  BY <1>0, <1>3, <1>8, <1>11, <1>12, <1>13, RevokedIdle

LEMMA LogoutIdle ==
  ASSUME SessionsInv, SessionsOK', IdleInv, NEW t \in Tabs, Logout(t)
  PROVE  IdleInv'
<1> DEFINE q == [Quiet EXCEPT !.pc = "leave"]
           r == [tab[t] EXCEPT !.req = q]
<1>0. /\ SessionsOK /\ tab \in [Tabs -> TabStates] /\ Timely(t) /\ Steady(t)
      /\ UNCHANGED <<stored, touched>> /\ Pc(t) = "logout" /\ Blame(t)
      /\ sess' = Revoke({Req(t).token}) /\ tab[t] \in TabStates
  BY DEF Logout, Signed, SessionsInv, SessionsOK, IdleInv
<1>1. q.pc = "leave" /\ q.want = {} /\ q.token = 0 /\ q.heir = 0
  BY DEF Quiet
<1>2. tab' = [tab EXCEPT ![t] = r] /\ tab'[t] = r
  BY <1>0 DEF Logout, Set
<1> HIDE DEF q
<1>3. /\ r.access = tab[t].access /\ r.req = q /\ r.user = tab[t].user
      /\ r.restored = tab[t].restored /\ r.active = tab[t].active /\ r.awake = tab[t].awake
  BY <1>0 DEF TabStates
<1> HIDE DEF r
<1>4. Timely(t)' /\ Lives(t)' /\ Young(t)'
  BY <1>1, <1>2, <1>3 DEF Timely, Lives, Young, Beating, Pc, Req
<1>5. Steady(t)'
  <2>1. tab[t].user \/ tab[t].restored
    BY <1>0 DEF Steady
  <2> QED
    BY <1>0, <1>2, <1>3, <1>4, <2>1 DEF Steady, Blame
<1>6. {r.access, r.req.token, r.req.heir} \subseteq Bears(t) \cup {0} /\ Req(t).token \in Bears(t)
  BY <1>1, <1>3 DEF Bears
<1> QED
  BY <1>0, <1>2, <1>4, <1>5, <1>6, RevokedIdle

(* A row that was seen just now still lives. *)
LEMMA SeenLives ==
  ASSUME SessionsOK, NEW i \in DOMAIN sess, Alive(i), NEW n \in 0 .. Old
  PROVE  [sess[i] EXCEPT !.seen = n] # Revoked /\ [sess[i] EXCEPT !.seen = n].seen = n
<1>1. sess \in Seq(Row) /\ sess[i].chain \in DOMAIN sess
  BY DEF SessionsOK
<1>2. sess[i] \in Row /\ sess[i].chain # 0
  BY <1>1, RowFacts
<1>3. [sess[i] EXCEPT !.seen = n].chain = sess[i].chain /\ [sess[i] EXCEPT !.seen = n].seen = n
  BY <1>2 DEF Row
<1> QED
  BY <1>2, <1>3, RevokedRow

LEMMA HeartbeatIdle ==
  ASSUME SessionsInv, SessionsOK', IdleInv, NEW t \in Tabs, Heartbeat(t)
  PROVE  IdleInv'
<1> DEFINE i == tab[t].access
           r == [tab[t] EXCEPT !.req = Quiet, !.restored = tab[t].restored /\ ~Alive(i)]
<1>0. /\ SessionsOK /\ tab \in [Tabs -> TabStates] /\ Timely(t) /\ Steady(t)
      /\ UNCHANGED <<stored, touched, excused>> /\ Pc(t) = "beat"
      /\ touched \in [Browsers -> Nat] /\ sess \in Seq(Row)
  BY DEF Heartbeat, SessionsInv, SessionsOK, IdleInv, KnownApart
<1>1. /\ tab[t] \in TabStates /\ tab[t].active \in Nat /\ tab[t].beat \in Nat
      /\ Here(t) \in Browsers /\ i \in DOMAIN sess /\ touched[Here(t)] = 0
  <2>1. i \in DOMAIN sess
    BY <1>0 DEF SessionsOK, Holds
  <2>2. touched[Here(t)] = 0
    BY <1>0 DEF Timely, Beating, Pc, Req
  <2> QED
    BY <1>0, <2>1, <2>2, TabFacts
<1>2. tab' = [tab EXCEPT ![t] = r] /\ tab'[t] = r
  BY <1>0 DEF Heartbeat
<1>3. /\ r.access = i /\ r.req = Quiet /\ r.user = tab[t].user
      /\ (r.restored <=> tab[t].restored /\ ~Alive(i))
      /\ r.active = tab[t].active /\ r.awake = tab[t].awake /\ r.beat = tab[t].beat
  BY <1>1 DEF TabStates
<1> HIDE DEF r
<1>4. /\ Alive(i) => sess' = [sess EXCEPT ![i] = [sess[i] EXCEPT !.seen = 0]]
      /\ ~Alive(i) => sess' = sess
  BY DEF Heartbeat
<1>5. Alive(i) => [sess[i] EXCEPT !.seen = 0] # Revoked /\ [sess[i] EXCEPT !.seen = 0].seen = 0
  BY <1>0, <1>1, SeenLives, Constants
<1>6. /\ DOMAIN sess' = DOMAIN sess \cup {}
      /\ Alive(i) => sess'[i].seen = 0 /\ sess'[i] # Revoked
      /\ \A k \in DOMAIN sess : k # i => sess'[k] = sess[k]
      /\ ~Alive(i) => sess'[i] = sess[i]
  BY <1>0, <1>1, <1>4, <1>5
<1>7. \A k \in DOMAIN sess : RowAfter(t, k)
  BY <1>0, <1>1, <1>6 DEF RowAfter, Bears, Here
<1>8. Timely(t)'
  BY <1>2, <1>3, QuietFacts DEF Timely, Beating, Pc, Req
<1>9. ASSUME t \notin excused, tab[t].user
      PROVE  Lives(t)' /\ Young(t)'
  <2>1. Alive(i) /\ stored[Here(t)] = i
    BY <1>0, <1>9 DEF Steady, Lives
  <2>2. i \in DOMAIN sess' /\ sess'[i].seen = 0 /\ sess'[i] # Revoked
    BY <1>1, <1>6, <2>1
  <2>3. Pc(t)' = "quiet" /\ tab'[t].access = i
    BY <1>2, <1>3, QuietFacts DEF Pc, Req
  <2>4. Within(tab'[t], sess'[i].seen)
    <3>1. r.active \in Nat /\ r.beat \in Nat
      BY <1>1, <1>3
    <3>2. 0 <= Idle + Beat /\ 0 <= r.active + Beat /\ 0 <= r.beat
      BY <3>1, Constants
    <3> QED
      BY <1>2, <2>2, <3>2 DEF Within
  <2>5. stored'[Here(t)] = tab'[t].access /\ sess'[tab'[t].access] # Revoked
    BY <1>0, <2>1, <2>2, <2>3 DEF Here, Alive
  <2> QED
    BY <2>2, <2>3, <2>4, <2>5 DEF Lives, Young, Alive, Here
<1>10. Steady(t)'
  <2>1. Pc(t)' = "quiet" /\ tab'[t] = r /\ excused' = excused
    BY <1>0, <1>2, <1>3, QuietFacts DEF Pc, Req
  <2>2. tab[t].user \/ tab[t].restored
    BY <1>0 DEF Steady
  <2>3. ~tab[t].user => Lives(t)'
    BY <1>3, <2>1 DEF Lives
  <2>4. r.active <= Idle /\ (~r.awake => tab[t].user /\ t \in excused)
    BY <1>0, <1>3 DEF Steady
  <2> QED
    BY <1>3, <1>9, <2>1, <2>3, <2>4 DEF Steady
<1>11. /\ \A u \in Tabs \ {t} : tab'[u] = tab[u]
       /\ Bears(t)' \subseteq Bears(t) \cup {0, stored[Here(t)]} \cup {}
  BY <1>0, <1>2, <1>3, QuietFacts DEF Bears, Req
<1>12. /\ {} \cap DOMAIN sess = {} /\ \A k \in {} : touched'[Here(t)] <= sess'[k].seen
       /\ \A u \in (Tabs \cap excused) \ {t} : u \in excused'
       /\ touched' \in [Browsers -> Nat] /\ \A b \in Browsers : touched'[b] <= touched[b]
       /\ StoredAfter(t)
  BY <1>0 DEF StoredAfter
<1> QED
  BY <1>6, <1>7, <1>8, <1>10, <1>11, <1>12, StepIdle

(* _issue *)
LEMMA IssueIdle ==
  ASSUME SessionsInv, SessionsOK', IdleInv, NEW t \in Tabs, LoginIssue(t) \/ RefreshIssue(t)
  PROVE  IdleInv'
<1> DEFINE n == Len(sess) + 1
           q == [Req(t) EXCEPT !.pc = "answered", !.heir = n, !.row = Revoked]
           r == [tab[t] EXCEPT !.req = q]
<1>0. /\ SessionsOK /\ tab \in [Tabs -> TabStates] /\ Timely(t) /\ Steady(t)
      /\ UNCHANGED <<stored, touched, excused>> /\ Pc(t) \in {"login", "issue"}
      /\ touched \in [Browsers -> Nat] /\ sess \in Seq(Row) /\ epoch \in Nat
  BY DEF LoginIssue, RefreshIssue, SessionsInv, SessionsOK, IdleInv, KnownApart
<1>1. /\ tab[t] \in TabStates /\ tab[t].active \in Nat /\ tab[t].beat \in Nat
      /\ Req(t) = tab[t].req /\ Req(t) \in Requests /\ Here(t) \in Browsers
      /\ Req(t).row \in Row /\ Req(t).row.seen \in 0 .. Old
  <2>1. Req(t) \in Requests
    BY <1>0, TabFacts
  <2>2. Req(t).row \in Row
    BY <2>1 DEF Requests
  <2>3. Req(t).row.seen \in 0 .. Old
    BY <2>2 DEF Row
  <2> QED
    BY <1>0, <2>1, <2>2, <2>3, TabFacts
<1>2. PICK minted : /\ sess' = Append(sess, minted) /\ minted \in Row /\ minted # Revoked
                    /\ Pc(t) = "login" => minted.seen = 0
                    /\ Pc(t) = "issue" => minted.seen = Req(t).row.seen
  <2>1. CASE LoginIssue(t)
    <3> DEFINE row0 == [Inserted(t, 0) EXCEPT !.chain = Len(sess) + 1]
    <3>1. Pc(t) = "login" /\ sess' = Append(sess, row0)
      BY <2>1 DEF LoginIssue, Issue
    <3>2. /\ row0.seen = 0 /\ row0.chain = n
      BY <1>1 DEF Inserted, Row
    <3>3. n \in Nat /\ n # 0
      BY <1>0
    <3>4. row0 \in Row
      <4>1. 0 \in 0 .. Old
        BY Constants
      <4> QED
        BY <1>1, <3>3, <4>1 DEF Inserted, Row
    <3> HIDE DEF row0, n
    <3>5. row0 # Revoked
      BY <3>2, <3>3, RevokedRow
    <3> QED
      BY <3>1, <3>2, <3>4, <3>5
  <2>2. CASE RefreshIssue(t)
    <3> DEFINE row0 == Inserted(t, Carried(t))
    <3>1. Pc(t) = "issue" /\ sess' = Append(sess, row0)
      BY <2>2 DEF RefreshIssue, Issue
    <3>2. row0 \in Row /\ row0.seen = Req(t).row.seen /\ row0.chain = Req(t).row.chain
      BY <1>1 DEF Inserted, Carried, Row
    <3>3. Req(t).row.chain \in DOMAIN sess
      BY <1>0, <3>1 DEF SessionsOK, Holds
    <3> HIDE DEF row0
    <3>4. row0 # Revoked
      BY <1>0, <3>2, <3>3, RowFacts, RevokedRow
    <3> QED
      BY <3>1, <3>2, <3>4
  <2> QED
    BY <2>1, <2>2
<1>3. tab' = [tab EXCEPT ![t] = r] /\ tab'[t] = r
  BY <1>0 DEF LoginIssue, RefreshIssue, Issue, Set
<1>4. /\ q.pc = "answered" /\ q.token = Req(t).token /\ q.heir = n /\ q.want = Req(t).want
  BY <1>1 DEF Requests
<1>5. /\ DOMAIN sess' = DOMAIN sess \cup {n} /\ n \in Nat \ {0} /\ sess'[n] = minted
      /\ \A k \in DOMAIN sess : sess'[k] = sess[k]
      /\ {n} \cap DOMAIN sess = {}
  BY <1>0, <1>2
<1> HIDE DEF q, n
<1>6. /\ r.access = tab[t].access /\ r.req = q /\ r.user = tab[t].user
      /\ r.restored = tab[t].restored /\ r.active = tab[t].active /\ r.awake = tab[t].awake
      /\ r.beat = tab[t].beat
  BY <1>1 DEF TabStates
<1> HIDE DEF r
<1>7. Pc(t)' = "answered" /\ Req(t)' = q /\ Here(t)' = Here(t) /\ touched' = touched /\ tab'[t] = r
  BY <1>0, <1>3, <1>4, <1>6 DEF Pc, Req, Here
<1>8. Beating(r) <=> Beating(tab[t])
  BY <1>0, <1>1, <1>4, <1>6 DEF Beating, Pc
<1>9. Timely(t)'
  BY <1>0, <1>7, <1>8 DEF Timely
<1>10. touched'[Here(t)] <= sess'[n].seen
  BY <1>0, <1>2, <1>5 DEF Timely
<1>11. Lives(t)'
  BY <1>2, <1>4, <1>5, <1>7 DEF Lives, Alive
<1>12. ASSUME t \notin excused, ~tab[t].restored, tab[t].user PROVE Young(t)'
  <2>1. Within(r, minted.seen)
    <3>1. CASE Pc(t) = "issue"
      <4>1. Within(tab[t], Req(t).row.seen)
        BY <1>0, <1>12, <3>1 DEF Steady, Young
      <4> QED
        BY <1>2, <1>6, <1>8, <3>1, <4>1 DEF Within
    <3>2. CASE Pc(t) = "login"
      <4>1. 0 <= Idle + Beat /\ 0 <= r.active + Beat /\ 0 <= r.beat /\ minted.seen = 0
        BY <1>1, <1>2, <1>6, <3>2, Constants
      <4> QED
        BY <4>1 DEF Within
    <3> QED
      BY <1>0, <3>1, <3>2
  <2> QED
    BY <1>4, <1>5, <1>7, <2>1 DEF Young
<1>13. ASSUME ~tab[t].restored, ~tab[t].user PROVE sess'[Req(t)'.heir].seen = 0
  <2>1. Pc(t) = "login"
    BY <1>0, <1>13 DEF Steady
  <2> QED
    BY <1>2, <1>4, <1>5, <1>7, <2>1
<1>14. Steady(t)'
  BY <1>0, <1>6, <1>7, <1>11, <1>12, <1>13 DEF Steady
<1>15. /\ \A u \in Tabs \ {t} : tab'[u] = tab[u]
       /\ Bears(t)' \subseteq Bears(t) \cup {0, stored[Here(t)]} \cup {n}
  BY <1>0, <1>3, <1>4, <1>6 DEF Bears, Req
<1>16. /\ \A u \in (Tabs \cap excused) \ {t} : u \in excused'
       /\ touched' \in [Browsers -> Nat] /\ \A b \in Browsers : touched'[b] <= touched[b]
       /\ StoredAfter(t) /\ \A k \in DOMAIN sess : RowAfter(t, k)
  BY <1>0, <1>5 DEF StoredAfter, RowAfter
<1> QED
  BY <1>5, <1>9, <1>10, <1>14, <1>15, <1>16, StepIdle

(* A new password ends what there is, and everybody is told to expect it. *)
LEMMA AllEnd ==
  ASSUME SessionsOK, NewPassword
  PROVE  /\ DOMAIN sess' = DOMAIN sess /\ excused' = Tabs
         /\ \A i \in DOMAIN sess : sess'[i] = Revoked
  BY DEF NewPassword, Revoke, EverySession

LEMMA PasswordIdle ==
  ASSUME SessionsInv, SessionsOK', IdleInv, NEW t \in Tabs, ChangePassword(t)
  PROVE  IdleInv'
<1> DEFINE q == [Quiet EXCEPT !.pc = "login", !.row = Fresh(epoch + 1)]
           r == [tab[t] EXCEPT !.req = q]
<1>0. /\ SessionsOK /\ tab \in [Tabs -> TabStates] /\ Timely(t) /\ Steady(t)
      /\ stored' = stored /\ tab[t] \in TabStates /\ tab[t].user /\ tab[t].awake
      /\ touched' = [touched EXCEPT ![Here(t)] = 0] /\ touched \in [Browsers -> Nat]
      /\ Here(t) \in Browsers
  BY TabFacts DEF ChangePassword, Ready, SessionsInv, SessionsOK, IdleInv, KnownApart
<1>1. q.pc = "login" /\ q.want = {} /\ q.token = 0 /\ q.heir = 0
  BY DEF Quiet
<1>2. tab' = [tab EXCEPT ![t] = r] /\ tab'[t] = r
  BY <1>0 DEF ChangePassword, Set
<1> HIDE DEF q
<1>3. /\ r.access = tab[t].access /\ r.req = q /\ r.user = tab[t].user
      /\ r.active = tab[t].active /\ r.awake = tab[t].awake
  BY <1>0 DEF TabStates
<1> HIDE DEF r
<1>4. /\ DOMAIN sess' = DOMAIN sess \cup {} /\ excused' = Tabs
      /\ \A i \in DOMAIN sess : sess'[i] = Revoked
  BY <1>0, AllEnd DEF ChangePassword
<1>5. Timely(t)'
  BY <1>0, <1>1, <1>2, <1>3 DEF Timely, Pc, Req, Here
<1>6. Steady(t)'
  BY <1>0, <1>2, <1>3, <1>4 DEF Steady
<1>7. /\ \A u \in Tabs \ {t} : tab'[u] = tab[u]
      /\ Bears(t)' \subseteq Bears(t) \cup {0, stored[Here(t)]} \cup {}
  BY <1>0, <1>1, <1>2, <1>3 DEF Bears, Req
<1>8. /\ \A u \in (Tabs \cap excused) \ {t} : u \in excused'
      /\ \A i \in DOMAIN sess : RowAfter(t, i)
  BY <1>4 DEF RowAfter, Beside
<1>9. /\ touched' \in [Browsers -> Nat] /\ \A b \in Browsers : touched'[b] <= touched[b]
      /\ StoredAfter(t) /\ {} \cap DOMAIN sess = {}
      /\ \A k \in {} : touched'[Here(t)] <= sess'[k].seen
  BY <1>0 DEF StoredAfter
<1> QED
  BY <1>4, <1>5, <1>6, <1>7, <1>8, <1>9, StepIdle

LEMMA ResetIdle ==
  ASSUME SessionsInv, SessionsOK', IdleInv, Reset
  PROVE  IdleInv'
<1>0. /\ SessionsOK /\ KnownApart /\ \A t \in Tabs : Timely(t) /\ Steady(t)
      /\ UNCHANGED <<stored, tab, touched>>
  BY DEF SessionsInv, IdleInv, Reset
<1>1. /\ DOMAIN sess' = DOMAIN sess /\ excused' = Tabs
      /\ \A i \in DOMAIN sess : sess'[i] = Revoked
  BY <1>0, AllEnd DEF Reset
<1>2. KnownApart'
  BY <1>0, <1>1 DEF KnownApart, Knows, Bears, Req, Alive
<1>3. ASSUME NEW t \in Tabs PROVE Timely(t)' /\ Steady(t)'
  BY <1>0, <1>1, <1>3 DEF Timely, Steady, Beating, Pc, Req, Here
<1> QED
  BY <1>2, <1>3 DEF IdleInv

LEMMA TickIdle ==
  ASSUME SessionsInv, SessionsOK', IdleInv, Tick
  PROVE  IdleInv'
<1>0. /\ SessionsOK /\ KnownApart /\ \A t \in Tabs : Timely(t) /\ Steady(t)
      /\ UNCHANGED <<stored, excused>> /\ tab \in [Tabs -> TabStates]
      /\ \A t \in Tabs : Pc(t) = "quiet" /\ ~TimedOut(t)
      /\ touched \in [Browsers -> Nat] /\ sess \in Seq(Row)
  BY DEF SessionsInv, SessionsOK, IdleInv, KnownApart, Tick
<1>1. /\ DOMAIN sess' = DOMAIN sess
      /\ \A i \in DOMAIN sess : sess'[i] = IF Alive(i)
           THEN [sess[i] EXCEPT !.seen = Older(sess[i].seen, Old)] ELSE Revoked
  BY DEF Tick
<1>2. ASSUME NEW i \in DOMAIN sess
      PROVE  /\ Alive(i)' <=> Alive(i)
             /\ Alive(i) => sess'[i].seen = Older(sess[i].seen, Old) /\ sess'[i] # Revoked
  <2>1. sess[i] \in Row /\ sess[i].seen \in 0 .. Old
    BY <1>0, RowFacts
  <2>2. Older(sess[i].seen, Old) \in 0 .. Old
    BY <2>1, Constants DEF Older
  <2>3. CASE Alive(i)
    <3>1. sess'[i] = [sess[i] EXCEPT !.seen = Older(sess[i].seen, Old)]
      BY <1>1, <2>3
    <3>2. sess'[i] # Revoked /\ sess'[i].seen = Older(sess[i].seen, Old)
      BY <1>0, <2>2, <2>3, <3>1, SeenLives
    <3> QED
      BY <2>3, <3>2 DEF Alive
  <2>4. CASE ~Alive(i)
    BY <1>1, <2>4 DEF Alive
  <2> QED
    BY <2>3, <2>4
<1>3. ASSUME NEW t \in Tabs
      PROVE  /\ tab'[t].req = tab[t].req /\ tab'[t].access = tab[t].access
             /\ tab'[t].user = tab[t].user /\ tab'[t].awake = tab[t].awake
             /\ tab'[t].restored = tab[t].restored
             /\ tab'[t].active = (IF tab[t].user THEN Older(tab[t].active, Idle) ELSE tab[t].active)
             /\ tab'[t].beat = Older(tab[t].beat, Beat)
  <2>1. tab[t] \in TabStates
    BY <1>0
  <2>2. tab'[t] = IF tab[t].user
                    THEN [tab[t] EXCEPT !.got = Older(tab[t].got, Access),
                            !.active = Older(tab[t].active, Idle),
                            !.beat = Older(tab[t].beat, Beat)]
                    ELSE [tab[t] EXCEPT !.beat = Older(tab[t].beat, Beat)]
    BY DEF Tick
  <2>3. CASE tab[t].user
    BY <2>1, <2>2, <2>3 DEF TabStates
  <2>4. CASE ~tab[t].user
    BY <2>1, <2>2, <2>4 DEF TabStates
  <2> QED
    BY <2>3, <2>4
<1>4. \A b \in Browsers : touched'[b] = Older(touched[b], Old)
  BY DEF Tick
<1>5. ASSUME NEW t \in Tabs
      PROVE  Bears(t)' = Bears(t) /\ Pc(t)' = "quiet" /\ Req(t)' = Req(t) /\ Req(t) = Quiet
  BY <1>0, <1>3 DEF Bears, Pc, Req, Timely
<1>6. KnownApart'
  <2>1. touched' \in [Browsers -> Nat]
    <3>1. touched' = [b \in Browsers |-> Older(touched[b], Old)]
      BY DEF Tick
    <3>2. \A b \in Browsers : Older(touched[b], Old) \in Nat
      BY <1>0, Constants DEF Older
    <3> QED
      BY <3>1, <3>2
  <2>2. ASSUME NEW b \in Browsers, NEW i \in DOMAIN sess PROVE Knows(b, i)' <=> Knows(b, i)
    BY <1>0, <1>5 DEF Knows
  <2>3. ASSUME NEW b \in Browsers, NEW i \in DOMAIN sess, Knows(b, i), Alive(i)
        PROVE  touched'[b] <= sess'[i].seen
    <3>1. touched[b] <= sess[i].seen /\ touched[b] \in Nat /\ sess[i].seen \in 0 .. Old
      BY <1>0, <2>3, RowFacts DEF KnownApart
    <3>2. sess'[i].seen = Older(sess[i].seen, Old) /\ touched'[b] = Older(touched[b], Old)
      BY <1>2, <1>4, <2>3
    <3> QED
      BY <3>1, <3>2, Constants DEF Older
  <2> QED
    BY <1>0, <1>1, <1>2, <1>5, <2>1, <2>2, <2>3 DEF KnownApart
<1>7. ASSUME NEW t \in Tabs PROVE Timely(t)'
  BY <1>3, <1>5, QuietFacts DEF Timely, Beating, Req
<1>8. ASSUME NEW t \in Tabs PROVE Steady(t)'
  <2>1. /\ tab[t].active \in Nat /\ tab[t].beat \in Nat /\ tab[t].active <= Idle
        /\ ~tab[t].awake => tab[t].user /\ t \in excused
    BY <1>0, TabFacts DEF Steady
  <2>2. tab'[t].active <= Idle
    BY <1>3, <2>1, Constants DEF Older
  <2>3. ASSUME t \notin excused, tab[t].user
        PROVE  Lives(t)' /\ (~tab[t].restored => Young(t)')
    <3>1. /\ tab[t].access \in DOMAIN sess /\ Alive(tab[t].access)
          /\ stored[Here(t)] = tab[t].access
      BY <1>0, <2>3 DEF Steady, Lives
    <3>2. Lives(t)'
      BY <1>0, <1>1, <1>2, <1>3, <1>5, <3>1 DEF Lives, Alive, Here
    <3>3. ASSUME ~tab[t].restored PROVE Young(t)'
      <4> DEFINE n == sess[tab[t].access].seen
      <4>1. /\ n \in 0 .. Old /\ sess'[tab'[t].access].seen = Older(n, Old)
        BY <1>0, <1>2, <1>3, <3>1, RowFacts
      <4>2. n <= tab[t].active + Beat /\ (tab[t].beat < Beat => n <= tab[t].beat)
        <5>1. Within(tab[t], n) /\ ~Beating(tab[t])
          BY <1>0, <1>5, <2>3, <3>3, QuietFacts DEF Steady, Young, Beating, Req
        <5> QED
          BY <5>1 DEF Within
      <4>3. tab[t].active < Idle
        <5>1. ~(tab[t].active >= Idle)
          BY <1>0, <2>1, <2>3 DEF TimedOut
        <5> QED
          BY <2>1, <5>1, Constants
      <4>4. /\ tab'[t].active = tab[t].active + 1
            /\ tab'[t].beat = Older(tab[t].beat, Beat)
        BY <1>3, <2>3, <4>3 DEF Older
      <4> HIDE DEF n
      <4>5. /\ Older(n, Old) <= tab'[t].active + Beat
            /\ tab'[t].beat < Beat => Older(n, Old) <= tab'[t].beat
        BY <2>1, <4>1, <4>2, <4>4, Constants DEF Older
      <4>6. Within(tab'[t], sess'[tab'[t].access].seen)
        BY <1>3, <1>5, <4>1, <4>5, QuietFacts DEF Within, Beating, Req
      <4> QED
        BY <1>5, <4>6 DEF Young
    <3> QED
      BY <3>2, <3>3
  <2>4. ~tab[t].user => Lives(t)'
    BY <1>3, <1>5 DEF Lives
  <2> QED
    BY <1>0, <1>3, <1>5, <2>1, <2>2, <2>3, <2>4 DEF Steady
<1> QED
  BY <1>6, <1>7, <1>8 DEF IdleInv

(* Sessions are of the browser that has their tokens, and as old as the    *)
(* timers of its tabs allow.                                               *)
THEOREM IdleInductive == SessionsSpec => []IdleInv
<1>1. SessionsInit => IdleInv
  <2> SUFFICES ASSUME SessionsInit PROVE IdleInv
    OBVIOUS
  <2>1. /\ \A t \in Tabs : tab[t] = Blank /\ Pc(t) = "quiet" /\ Req(t) = Quiet
        /\ sess = <<>> /\ DOMAIN sess = {} /\ touched = [b \in Browsers |-> Old]
    <3>1. \A t \in Tabs : tab[t] = Blank
      BY DEF SessionsInit
    <3>2. Blank.req = Quiet /\ Quiet.pc = "quiet"
      BY DEF Blank, Quiet
    <3> QED
      BY <3>1, <3>2 DEF SessionsInit, Pc, Req
  <2>2. /\ Blank.access = 0 /\ ~Blank.user /\ Blank.awake /\ Blank.active = 0
        /\ Blank.req = Quiet
    BY DEF Blank
  <2>3. KnownApart
    BY <2>1, <2>2, QuietFacts, Constants DEF KnownApart, Bears
  <2>4. ASSUME NEW t \in Tabs PROVE Timely(t) /\ Steady(t)
    <3>1. Timely(t)
      BY <2>1, <2>2, QuietFacts DEF Timely, Beating
    <3>2. 0 <= Idle
      BY Constants
    <3> QED
      BY <2>1, <2>2, <3>1, <3>2 DEF Steady, Lives
  <2> QED
    BY <2>3, <2>4 DEF IdleInv
<1>2. SessionsInv /\ SessionsInv' /\ IdleInv /\ [SessionsNext]_svars => IdleInv'
  <2> SUFFICES ASSUME SessionsInv, SessionsInv', IdleInv, [SessionsNext]_svars PROVE IdleInv'
    OBVIOUS
  <2>1. SessionsOK'
    BY DEF SessionsInv
  <2>2. CASE SessionsNext
    BY <2>1, <2>2, TabsIdle, ReadIdle, RevokeIdle, HeartbeatIdle, IssueIdle, LogoutIdle,
       PasswordIdle, ResetIdle, TickIdle DEF SessionsNext
  <2>3. CASE UNCHANGED svars
    <3>1. UNCHANGED <<sess, stored, tab, touched, excused>>
      BY <2>3 DEF svars
    <3>2. KnownApart'
      BY <3>1 DEF IdleInv, KnownApart, Knows, Bears, Alive, Req
    <3>3. ASSUME NEW t \in Tabs PROVE Timely(t)'
      BY <3>1 DEF IdleInv, Timely, Beating, Pc, Req, Here
    <3>4. ASSUME NEW t \in Tabs PROVE Steady(t)'
      BY <3>1 DEF IdleInv, Steady, Lives, Young, Within, Beating, Alive, Pc, Req, Here
    <3> QED
      BY <3>2, <3>3, <3>4 DEF IdleInv
  <2> QED
    BY <2>2, <2>3
<1> QED
  BY <1>1, <1>2, SessionsInductive, PTL DEF SessionsSpec

(* refresh, idle.tsx: who is away is signed out after the idle time and    *)
(* the grace, and who is not is refused only for a reason.                 *)
THEOREM IdleHolds == SessionsSpec => IdleIsHeldTo
<1>1. SessionsInv /\ IdleInv =>
        [\A t \in Tabs : RefreshIssue(t) => touched[Here(t)] <= Idle + Grace]_svars
  <2> SUFFICES ASSUME SessionsInv, IdleInv, NEW t \in Tabs, RefreshIssue(t)
               PROVE  touched[Here(t)] <= Idle + Grace
    OBVIOUS
  <2>1. /\ touched[Here(t)] <= Req(t).row.seen /\ Req(t).row.seen <= Idle + Grace
        /\ touched[Here(t)] \in Nat
    BY TabFacts DEF IdleInv, Timely, KnownApart, RefreshIssue, SessionsInv
  <2>2. Req(t) \in Requests
    BY TabFacts DEF SessionsInv
  <2>3. Req(t).row \in Row
    BY <2>2 DEF Requests
  <2>4. Req(t).row.seen \in 0 .. Old
    BY <2>3 DEF Row
  <2> QED
    BY <2>1, <2>4, Constants
<1>2. IdleInv =>
        [\A t \in Tabs : /\ Refused(t) /\ tab[t].user /\ tab[t].active < Idle
                         /\ ~tab[t].restored
                         => t \in excused]_svars
  <2> SUFFICES ASSUME IdleInv, NEW t \in Tabs, Refused(t), tab[t].user, ~tab[t].restored
               PROVE  t \in excused
    OBVIOUS
  <2> QED
    BY DEF IdleInv, Steady, Young, Refused
<1> QED
  BY <1>1, <1>2, SessionsInductive, IdleInductive, PTL
     DEF IdleIsHeldTo, AbandonedIsOver, ActiveIsNotDropped

-----------------------------------------------------------------------------
(* Greeting: what a template says is of the caller or may be said to all,  *)
(* and only what may be said to all is kept for others.                    *)

(* The value of a field that a call has read is the one sent, or empty.    *)
LEMMA ReceivedIs ==
  ASSUME NEW c \in Calls, NEW d \in Received(c)
  PROVE  \A f \in Fields : d[f] = Sent[c][f] \/ d[f] = ""
  BY DEF Received

LEMMA DiallerIs == ASSUME NEW c \in Calls PROVE Dialler(c) \in Received(c)
<1> DEFINE F == {f \in Fields : f \in sent[c]}
<1>1. Dialler(c) = [f \in Fields |-> IF f \in F THEN Sent[c][f] ELSE ""]
  BY DEF Dialler
<1>2. F \in SUBSET Fields
  OBVIOUS
<1> HIDE DEF F
<1> QED
  BY <1>1, <1>2 DEF Received

(* Nothing that must not be said is in what a template becomes.            *)
LEMMA NothingLeaks ==
  ASSUME NEW c \in Calls, NEW d \in Received(c), NEW s \in Settings,
         NEW f \in Fields \ Safe, Sent[c][f] # ""
  PROVE  /\ Sent[c][f] \notin Filled(Opening(s, d))
         /\ \A line \in CallerDetails(s.prompt, d) : line.value # Sent[c][f]
<1>1. ASSUME NEW g \in Safe PROVE d[g] # Sent[c][f]
  <2>1. g \in Fields /\ Sent[c][g] # Sent[c][f]
    BY GreetingAssumption
  <2> QED
    BY <2>1, ReceivedIs
<1>2. \A p \in Shown(s) : p.default # Sent[c][f]
  BY GreetingAssumption
<1>3. ASSUME NEW p \in Placeholders(Chosen(s, d)) PROVE Spoken(p, d) # Sent[c][f]
  <2>1. p \in Shown(s)
    BY <1>3 DEF Chosen, Shown
  <2> QED
    BY <1>1, <1>2, <2>1 DEF Spoken
<1>4. Sent[c][f] \notin Filled(Opening(s, d))
  BY <1>3 DEF Filled, Opening, Rendered
<1>5. ASSUME NEW line \in CallerDetails(s.prompt, d) PROVE line.value # Sent[c][f]
  <2> DEFINE shown == {p \in Placeholders(s.prompt) : p.key \in Safe}
             Defaults(k) == {p.default : p \in {p \in shown : p.key = k}} \ {""}
  <2>1. PICK k \in {p.key : p \in shown} :
          line = [key |-> k, value |-> IF d[k] # "" THEN d[k]
                                       ELSE IF Defaults(k) = {} THEN "not provided"
                                       ELSE CHOOSE v \in Defaults(k) : TRUE]
    BY <1>5 DEF CallerDetails
  <2>2. k \in Safe
    OBVIOUS
  <2>3. shown \subseteq Shown(s)
    BY DEF Shown
  <2>4. \A v \in Defaults(k) : v # Sent[c][f]
    BY <1>2, <2>3
  <2> HIDE DEF Defaults
  <2>5. Defaults(k) # {} => (CHOOSE v \in Defaults(k) : TRUE) \in Defaults(k)
    OBVIOUS
  <2> QED
    BY <1>1, <2>1, <2>2, <2>4, <2>5, GreetingAssumption
<1> QED
  BY <1>4, <1>5

(* What is recorded for everybody holds nothing of anybody.                *)
LEMMA CacheableIsPlain ==
  ASSUME NEW s, NEW d, Cacheable(s, d) PROVE Filled(Opening(s, d)) = {}
  BY DEF Cacheable, Filled, Opening, Rendered, Placeholders

(* A gap that is heard is one the page warns of.                           *)
LEMMA GapsAreWarnedOf ==
  ASSUME NEW s, NEW d, "" \in Filled(Opening(s, d)) PROVE Warnings(s) # {}
<1>1. PICK p \in Placeholders(Chosen(s, d)) : Spoken(p, d) = ""
  BY DEF Filled, Opening, Rendered
<1>2. CASE Chosen(s, d) = s.fallback /\ s.fallback # Nothing
  BY <1>1, <1>2 DEF Warnings, Placeholders
<1>3. CASE Chosen(s, d) = s.greeting /\ s.fallback = Nothing
  BY <1>1, <1>3 DEF Warnings, Used, Placeholders
<1>4. CASE Chosen(s, d) = s.greeting /\ s.fallback # Nothing /\ Unfilled(s.greeting, d) = {}
  BY <1>1, <1>4 DEF Unfilled, Spoken
<1> QED
  BY <1>2, <1>3, <1>4 DEF Chosen

LEMMA GreetingHolds == GreetingInv => GreetingIsTheCallers
<1> SUFFICES ASSUME GreetingInv PROVE GreetingIsTheCallers
  OBVIOUS
<1>1. ASSUME NEW c \in Calls, Talked(c)
      PROVE  /\ call[c].s \in Settings /\ call[c].d \in Received(c)
             /\ opened[c].heard.text = Opening(call[c].s, call[c].d)
  BY <1>1 DEF GreetingInv, SaidIsItsOwn, Read, Taped
<1>2. ASSUME NEW c \in Calls, NEW line \in opened[c].told
      PROVE  \E d \in Received(c), s \in Settings : line \in CallerDetails(s.prompt, d)
  <2>1. call[c].s \in Settings
    BY DEF GreetingInv, CallIsItsOwn, Unanswered, Read, Taped
  <2> QED
    BY <1>2, <2>1 DEF GreetingInv, SaidIsItsOwn
<1>3. \A w \in wavs : Filled(w.audio.text) = {}
  BY DEF GreetingInv
<1>4. ASSUME NEW c \in Calls, NEW f \in Fields \ Safe, Sent[c][f] # ""
      PROVE  /\ Talked(c) => Sent[c][f] \notin Filled(opened[c].heard.text)
             /\ \A line \in opened[c].told : line.value # Sent[c][f]
  BY <1>1, <1>2, <1>4, NothingLeaks
<1> QED
  BY <1>1, <1>3, <1>4, GapsAreWarnedOf DEF GreetingIsTheCallers

-----------------------------------------------------------------------------
LEMMA OtherCalls ==
  ASSUME NEW b \in Calls, call'[b] = call[b], opened'[b] = opened[b], CallIsItsOwn(b), SaidIsItsOwn(b)
  PROVE  CallIsItsOwn(b)' /\ SaidIsItsOwn(b)'
  BY DEF CallIsItsOwn, SaidIsItsOwn, Talked

(* A step of one call that hears nothing.                                  *)
LEMMA OneCall ==
  ASSUME GreetingInv, NEW c \in Calls, NEW r, call' = [call EXCEPT ![c] = r],
         r \in Unanswered \cup Read(c) \cup Taped(c), r.s = call[c].s,
         r.at \in {"rendering", "written"} => Cacheable(r.s, r.d),
         r.at = "written" => r.wav \in Take(r.s, r.d),
         r.at \notin {"ringing", "setup", "started"},
         Talked(c) => r \in Read(c) \cup Taped(c) /\ r.d = call[c].d,
         setting' \in Settings, UNCHANGED <<opened, wavs>>
  PROVE  GreetingInv'
<1>1. DOMAIN call' = Calls /\ call'[c] = r /\ \A b \in Calls : b # c => call'[b] = call[b]
  BY DEF GreetingInv
<1>2. \A b \in Calls : CallIsItsOwn(b)'
  BY <1>1 DEF GreetingInv, CallIsItsOwn
<1>3. \A b \in Calls : Talked(b)' = Talked(b)
  BY DEF Talked
<1>4. \A b \in Calls : b # c => SaidIsItsOwn(b)'
  BY <1>1, <1>3 DEF GreetingInv, SaidIsItsOwn
<1>5. SaidIsItsOwn(c)'
  BY <1>1, <1>3 DEF GreetingInv, SaidIsItsOwn
<1> QED
  BY <1>1, <1>2, <1>4, <1>5 DEF GreetingInv

(* Every step of the campaign and of its calls.                            *)
LEMMA GreetingStep == ASSUME GreetingInv, GreetingNext PROVE GreetingInv'
<1>0. /\ \A c \in Calls : CallIsItsOwn(c) /\ SaidIsItsOwn(c)
      /\ DOMAIN call = Calls /\ DOMAIN opened = Calls /\ setting \in Settings
  BY DEF GreetingInv
<1>1. CASE EditGreeting
  BY <1>1 DEF EditGreeting, GreetingInv, CallIsItsOwn, SaidIsItsOwn, Talked
<1>2. ASSUME NEW c \in Calls, Arrive(c) PROVE GreetingInv'
  BY <1>2 DEF Arrive, GreetingInv, CallIsItsOwn, SaidIsItsOwn, Talked
<1>3. ASSUME NEW c \in Calls, LoadConfig(c) PROVE GreetingInv'
  <2> DEFINE r == [at |-> "setup", s |-> setting]
  <2>1. r \in Unanswered
    BY <1>0 DEF Unanswered
  <2>2. call' = [call EXCEPT ![c] = r] /\ call[c].at = "ringing" /\ UNCHANGED <<setting, wavs, opened>>
    BY <1>3 DEF LoadConfig
  <2>3. call'[c] = r /\ DOMAIN call' = Calls /\ \A b \in Calls : b # c => call'[b] = call[b]
    BY <1>0, <2>2
  <2>4. ~Talked(c) /\ opened[c].told = {}
    BY <1>0, <2>2 DEF SaidIsItsOwn
  <2> QED
    BY <1>0, <2>1, <2>2, <2>3, <2>4 DEF GreetingInv, CallIsItsOwn, SaidIsItsOwn, Talked
<1>4. ASSUME NEW c \in Calls, ReadAttributes(c) PROVE GreetingInv'
  <2> DEFINE d == Dialler(c)
             r == [at |-> "started", s |-> call[c].s, d |-> d]
  <2>1. d \in Received(c) /\ call[c].s \in Settings
    BY <1>0, DiallerIs DEF CallIsItsOwn, Unanswered, Read, Taped
  <2>2. /\ call' = [call EXCEPT ![c] = r] /\ call[c].at = "setup" /\ UNCHANGED <<setting, wavs>>
        /\ opened' = [opened EXCEPT ![c].told = CallerDetails(call[c].s.prompt, d)]
    BY <1>4 DEF ReadAttributes
  <2> HIDE DEF d
  <2>3. r \in Read(c)
    BY <2>1 DEF Read
  <2>4. call'[c] = r /\ DOMAIN call' = Calls /\ \A b \in Calls : b # c => call'[b] = call[b]
    BY <1>0, <2>2
  <2>5. /\ DOMAIN opened' = Calls /\ \A b \in Calls : b # c => opened'[b] = opened[b]
        /\ opened'[c] = [opened[c] EXCEPT !.told = CallerDetails(call[c].s.prompt, d)]
    BY <1>0, <2>2
  <2>6. /\ DOMAIN opened'[c] = {"told", "heard"} /\ opened'[c].heard = opened[c].heard
        /\ opened'[c].told = CallerDetails(call[c].s.prompt, d)
    BY <1>0, <2>5 DEF SaidIsItsOwn
  <2>7. ~Talked(c)
    BY <1>0, <2>2 DEF SaidIsItsOwn
  <2>8. SaidIsItsOwn(c)'
    BY <2>1, <2>3, <2>4, <2>6, <2>7 DEF SaidIsItsOwn, Talked
  <2>9. CallIsItsOwn(c)'
    BY <2>3, <2>4 DEF CallIsItsOwn
  <2> QED
    BY <1>0, <2>2, <2>4, <2>5, <2>8, <2>9, OtherCalls DEF GreetingInv
<1>5. ASSUME NEW c \in Calls, SpeakGreeting(c) PROVE GreetingInv'
  <2> DEFINE s == call[c].s
             d == call[c].d
             text == Opening(s, d)
  <2>1. call[c] \in Read(c) /\ call[c].at = "started"
    BY <1>0, <1>5 DEF SpeakGreeting, CallIsItsOwn, Unanswered, Read, Taped
  <2>2. PICK to \in {"talking", "rendering"} :
          /\ call' = [call EXCEPT ![c].at = to]
          /\ to = "rendering" => Cacheable(s, d)
    BY <1>5 DEF SpeakGreeting, Goes
  <2>3. UNCHANGED <<setting, wavs>>
    BY <1>5 DEF SpeakGreeting
  <2>4. /\ call'[c] = [call[c] EXCEPT !.at = to] /\ DOMAIN call' = Calls
        /\ \A b \in Calls : b # c => call'[b] = call[b]
    BY <1>0, <2>2
  <2>5. call'[c] \in Read(c) /\ call'[c].s = s /\ call'[c].d = d /\ call'[c].at = to
    BY <2>1, <2>4 DEF Read
  <2>6. \/ UNCHANGED opened
        \/ \E audio : opened' = [opened EXCEPT ![c].heard = audio] /\ audio.text = text
    <3>1. \/ UNCHANGED opened
          \/ \E w \in Recorded(c) : Hears(c, w.audio)
          \/ \E voice \in Voices(s) : Hears(c, Audio(s, text, voice))
      BY <1>5 DEF SpeakGreeting
    <3>2. \A w \in Recorded(c) : w.audio.text = text
      BY DEF GreetingInv, Recorded, Path
    <3>3. \A voice : Audio(s, text, voice).text = text
      BY DEF Audio
    <3> HIDE DEF s, text
    <3> QED
      BY <3>1, <3>2, <3>3 DEF Hears
  <2>7. DOMAIN opened' = Calls /\ \A b \in Calls : b # c => opened'[b] = opened[b]
    BY <1>0, <2>6
  <2>8. SaidIsItsOwn(c)'
    <3>1. DOMAIN opened[c] = {"told", "heard"} /\ ~Talked(c)
      BY <1>0, <2>1 DEF SaidIsItsOwn
    <3>2. /\ DOMAIN opened'[c] = {"told", "heard"} /\ opened'[c].told = opened[c].told
          /\ Talked(c)' => opened'[c].heard.text = text
      BY <1>0, <2>6, <3>1 DEF Talked
    <3> HIDE DEF s, d
    <3> QED
      BY <1>0, <2>2, <2>5, <3>2 DEF SaidIsItsOwn, s, d
  <2>9. CallIsItsOwn(c)'
    BY <2>2, <2>5 DEF CallIsItsOwn
  <2> QED
    BY <1>0, <2>3, <2>4, <2>7, <2>8, <2>9, OtherCalls DEF GreetingInv
<1>6. ASSUME NEW c \in Calls, Render(c) PROVE GreetingInv'
  <2>1. call[c] \in Read(c) /\ call[c].at = "rendering" /\ Cacheable(call[c].s, call[c].d)
    BY <1>0, <1>6 DEF Render, CallIsItsOwn, Unanswered, Read, Taped
  <2>2. UNCHANGED <<setting, wavs, opened>>
    BY <1>6 DEF Render
  <2>3. CASE call' = [call EXCEPT ![c].at = "talking"]
    <3> DEFINE r == [call[c] EXCEPT !.at = "talking"]
    <3>1. r \in Read(c) /\ r.at = "talking" /\ r.s = call[c].s /\ r.d = call[c].d
      BY <2>1 DEF Read
    <3> HIDE DEF r
    <3>2. call' = [call EXCEPT ![c] = r]
      BY <1>0, <2>3 DEF r
    <3> QED
      BY <1>0, <2>2, <3>1, <3>2, OneCall
  <2>4. CASE \E voice \in Voices(call[c].s) :
               call' = [call EXCEPT ![c] = [at |-> "written", s |-> call[c].s, d |-> call[c].d,
                          wav |-> [path |-> Path(Opening(call[c].s, call[c].d), call[c].s.voice),
                                   audio |-> Audio(call[c].s, Opening(call[c].s, call[c].d), voice)]]]
    <3>1. PICK w \in Take(call[c].s, call[c].d) :
             call' = [call EXCEPT ![c] = [at |-> "written", s |-> call[c].s, d |-> call[c].d, wav |-> w]]
      BY <2>4 DEF Take
    <3> DEFINE r == [at |-> "written", s |-> call[c].s, d |-> call[c].d, wav |-> w]
    <3>2. call[c].s \in Settings /\ call[c].d \in Received(c)
      BY <2>1 DEF Read
    <3>3. r \in Taped(c) /\ r.at = "written" /\ r.s = call[c].s /\ r.d = call[c].d /\ r.wav = w
      BY <3>2 DEF Taped
    <3> HIDE DEF r
    <3>4. call' = [call EXCEPT ![c] = r]
      BY <3>1 DEF r
    <3> QED
      BY <1>0, <2>1, <2>2, <3>3, <3>4, OneCall
  <2> QED
    BY <1>6, <2>3, <2>4 DEF Render, Goes
<1>7. ASSUME NEW c \in Calls, Publish(c) PROVE GreetingInv'
  <2>1. /\ call[c] \in Taped(c) /\ call[c].at = "written"
        /\ Cacheable(call[c].s, call[c].d) /\ call[c].wav \in Take(call[c].s, call[c].d)
    BY <1>0, <1>7 DEF Publish, CallIsItsOwn, Unanswered, Read, Taped
  <2>2. \A w \in Take(call[c].s, call[c].d) : w.audio.text = w.path.text /\ Filled(w.audio.text) = {}
    BY <2>1, CacheableIsPlain DEF Take, Audio, Path
  <2>3. \A w \in wavs' : w.audio.text = w.path.text /\ Filled(w.audio.text) = {}
    BY <1>7, <2>1, <2>2 DEF Publish, GreetingInv
  <2> DEFINE r == [call[c] EXCEPT !.at = "talking"]
  <2>4. r \in Taped(c) /\ r.at = "talking" /\ r.s = call[c].s /\ r.d = call[c].d
    BY <2>1 DEF Taped
  <2> HIDE DEF r
  <2>5. call' = [call EXCEPT ![c] = r] /\ UNCHANGED <<setting, opened>>
    BY <1>0, <1>7 DEF Publish, Goes, r
  <2>6. call'[c] = r /\ DOMAIN call' = Calls /\ \A b \in Calls : b # c => call'[b] = call[b]
    BY <1>0, <2>5
  <2>7. CallIsItsOwn(c)' /\ SaidIsItsOwn(c)'
    BY <1>0, <2>1, <2>4, <2>5, <2>6 DEF CallIsItsOwn, SaidIsItsOwn, Talked
  <2> QED
    BY <1>0, <2>3, <2>5, <2>6, <2>7, OtherCalls DEF GreetingInv
<1>8. ASSUME NEW c \in Calls, EndOfCall(c) PROVE GreetingInv'
  <2> DEFINE r == [call[c] EXCEPT !.at = "over"]
  <2>1. /\ r \in Unanswered \cup Read(c) \cup Taped(c) /\ r.at = "over" /\ r.s = call[c].s
        /\ call[c] \in Read(c) \cup Taped(c) => r \in Read(c) \cup Taped(c) /\ r.d = call[c].d
    BY <1>0 DEF CallIsItsOwn, Unanswered, Read, Taped
  <2> HIDE DEF r
  <2>2. call' = [call EXCEPT ![c] = r] /\ UNCHANGED <<setting, opened, wavs>>
    BY <1>0, <1>8 DEF EndOfCall, Goes, r
  <2>3. Talked(c) => call[c] \in Read(c) \cup Taped(c)
    BY <1>0 DEF SaidIsItsOwn
  <2> QED
    BY <1>0, <2>1, <2>2, <2>3, OneCall
<1> QED
  BY <1>1, <1>2, <1>3, <1>4, <1>5, <1>6, <1>7, <1>8 DEF GreetingNext

LEMMA GreetingStart == GreetingInit => GreetingInv
  BY DEF GreetingInit, GreetingInv, CallIsItsOwn, SaidIsItsOwn, Unanswered, Talked, Silence

(* What a call has read is its own caller's, and what is kept for other    *)
(* calls may be said to all: the spoken forms are rendered from the safe   *)
(* fields and what the campaign says when there is nothing to say          *)
(* (render_spoken, prompt.py:152, open_call, voice_agent.py:3013).         *)
THEOREM GreetingInductive == GreetingSpec => []GreetingInv
<1>1. GreetingInv /\ UNCHANGED gvars => GreetingInv'
  BY DEF gvars, GreetingInv, CallIsItsOwn, SaidIsItsOwn, Talked
<1> QED
  BY <1>1, GreetingStart, GreetingStep, PTL DEF GreetingSpec

(* A caller hears first what this call was to be opened with, in the       *)
(* campaign's voice, and no recording kept for others holds anything of    *)
(* one, for every campaign, template and set of fields and for every       *)
(* moment of an edit (voice_agent.py:3013, prompt.py:106, :152,            *)
(* agent_config.py:208-257).                                               *)
THEOREM CallersHearTheirOwn == GreetingSpec => []GreetingIsTheCallers
  BY GreetingInductive, GreetingHolds, PTL

-----------------------------------------------------------------------------
(* HoldMessage: a file that may be played says what its row says.          *)

(* A save is told by where it is.                                          *)
Begun == [at : {"begun"}, alone : BOOLEAN, cfg : HoldRows]
Rendering == [at : {"render"}, alone : BOOLEAN, cfg : HoldRows, i : DOMAIN Kinds]
Writing == [at : {"write"}, alone : BOOLEAN, cfg : HoldRows, i : DOMAIN Kinds, path : Names \cup {NoFile}]

LEMMA SaverShapes ==
  ASSUME NEW r \in SaversAt
  PROVE  /\ r = Rest <=> r.at = "rest"
         /\ r.at = "saved" => r \in [at : {"saved"}, alone : BOOLEAN]
         /\ r.at = "begun" => r \in Begun
         /\ r.at = "render" => r \in Rendering
         /\ r.at = "write" => r \in Writing
  BY DEF SaversAt, Rest, Begun, Rendering, Writing

LEMMA TwoKinds ==
  /\ DOMAIN Kinds = {1, 2} /\ Len(Kinds) = 2 /\ Columns = {Kinds[1], Kinds[2]}
  /\ Kinds[1] # Kinds[2] /\ Kinds[1] = "queue" /\ Kinds[2] = "goodbye"
  BY DEF Kinds, Columns

LEMMA Marked ==
  ASSUME NEW r \in SaversAt, r # Rest
  PROVE  LET d == [r EXCEPT !.alone = FALSE] IN
         /\ d \in SaversAt /\ d # Rest /\ d.at = r.at /\ d.alone = FALSE
         /\ d.at = "write" => d.path = r.path
<1> DEFINE d == [r EXCEPT !.alone = FALSE]
<1>1. CASE r.at = "saved"
  BY <1>1, SaverShapes DEF SaversAt, Rest
<1>2. CASE r.at = "begun"
  BY <1>2, SaverShapes DEF SaversAt, Rest, Begun
<1>3. CASE r.at = "render"
  BY <1>3, SaverShapes DEF SaversAt, Rest, Rendering
<1>4. CASE r.at = "write"
  BY <1>4, SaverShapes DEF SaversAt, Rest, Writing
<1> QED
  BY <1>1, <1>2, <1>3, <1>4 DEF SaversAt, Rest

(* A step of one save on its way: what it leaves of the row it knows.      *)
LEMMA OneSaver ==
  ASSUME HoldInv, NEW e \in Savers, saver[e] # Rest, NEW r \in SaversAt, r # Rest,
         saver' = [saver EXCEPT ![e] = r], r.alone = saver[e].alone,
         UNCHANGED settled, disk \subseteq disk', row' \in HoldRows,
         \A k \in Columns : row'.file[k] # NoFile => row'.file[k] \in disk',
         r.at = "write" /\ r.path # NoFile => r.path \in disk',
         r.alone => KnowsTheRow(e)'
  PROVE  HoldInv'
<1>1. /\ saver \in [Savers -> SaversAt] /\ saver' \in [Savers -> SaversAt]
      /\ saver'[e] = r /\ \A f \in Savers : f # e => saver'[f] = saver[f]
  BY DEF HoldInv, HoldOK
<1>2. HoldOK'
  BY <1>1 DEF HoldOK
<1>3. FilesAreThere'
  BY <1>1 DEF HoldInv, FilesAreThere
<1>4. ASSUME NEW f \in Savers, saver'[f] # Rest, saver'[f].alone PROVE KnowsTheRow(f)'
  <2>1. CASE f = e
    BY <1>1, <1>4, <2>1
  <2>2. CASE f # e
    BY <1>1, <1>4, <2>2 DEF HoldInv, KnowsTheRow
  <2> QED
    BY <2>1, <2>2
<1>5. ~settled
  BY DEF HoldInv
<1> QED
  BY <1>2, <1>3, <1>4, <1>5 DEF HoldInv

(* The last step of a save: what it leaves, it leaves for all.             *)
LEMMA SaverDone ==
  ASSUME HoldInv, NEW e \in Savers, saver[e] # Rest, NEW well \in BOOLEAN, SaveEnds(e, well),
         row' \in HoldRows, disk' = disk,
         \A k \in Columns : row'.file[k] # NoFile => row'.file[k] \in disk,
         row'.text = row.text, row'.voice = row.voice,
         well /\ saver[e].alone => \A k \in Columns : Says(row'.text[k], row'.voice, row'.file[k])
  PROVE  HoldInv'
<1>1. /\ saver \in [Savers -> SaversAt] /\ saver' = [saver EXCEPT ![e] = Rest] /\ Rest \in SaversAt
      /\ Rest.at = "rest"
  BY DEF HoldInv, HoldOK, SaveEnds, SaversAt, Rest
<1>2. saver'[e] = Rest /\ (\A f \in Savers : f # e => saver'[f] = saver[f]) /\ saver' \in [Savers -> SaversAt]
  BY <1>1
<1>3. HoldOK'
  BY <1>2 DEF HoldOK
<1>4. FilesAreThere'
  BY <1>1, <1>2 DEF HoldInv, FilesAreThere
<1>5. ASSUME NEW f \in Savers, saver'[f] # Rest, saver'[f].alone PROVE FALSE
  <2>1. f # e /\ saver[f] # Rest /\ saver[f].alone
    BY <1>2, <1>5
  <2> QED
    BY <2>1 DEF HoldInv, KnowsTheRow
<1>6. ~settled /\ settled' = (well /\ saver[e].alone)
  BY DEF HoldInv, SaveEnds
<1>7. settled' => \A f \in Savers : saver'[f] = Rest
  <2> SUFFICES ASSUME well, saver[e].alone PROVE \A f \in Savers : saver'[f] = Rest
    BY <1>6
  <2> QED
    BY <1>2 DEF HoldInv, KnowsTheRow
<1> QED
  BY <1>3, <1>4, <1>5, <1>6, <1>7 DEF HoldInv

(* Every step of a save, of the keys and of the server.                    *)
LEMMA HoldStep == ASSUME HoldInv, HoldNext PROVE HoldInv'
<1>0. /\ saver \in [Savers -> SaversAt] /\ row \in HoldRows /\ FilesAreThere
      /\ \A e \in Savers : saver[e] \in SaversAt
      /\ Rest \in SaversAt /\ Rest.at = "rest"
  BY DEF HoldInv, HoldOK, SaversAt, Rest
<1>1. ASSUME NEW e \in Savers, Save(e) PROVE HoldInv'
  <2>1. PICK text \in [Columns -> Messages], voice \in Tongues :
          row' = [row EXCEPT !.text = text, !.voice = voice]
    BY <1>1 DEF Save
  <2>2. row' \in HoldRows /\ row'.file = row.file
    BY <1>0, <2>1 DEF HoldRows
  <2> DEFINE r == [at |-> "saved", alone |-> Alone(e)]
  <2>3. saver' = [Disturbed EXCEPT ![e] = r] /\ disk' = disk /\ settled' = FALSE
    BY <1>1 DEF Save
  <2>4. r \in SaversAt /\ r.at = "saved" /\ r.alone = Alone(e) /\ r # Rest
    BY DEF SaversAt, Alone, Rest
  <2> HIDE DEF r
  <2>5. /\ saver'[e] = r
        /\ \A f \in Savers : f # e => saver'[f] = IF saver[f] = Rest THEN Rest ELSE [saver[f] EXCEPT !.alone = FALSE]
    BY <2>3 DEF Disturbed
  <2>6. ASSUME NEW f \in Savers, f # e
        PROVE  /\ saver'[f] \in SaversAt
               /\ saver'[f] = Rest \/ saver'[f].alone = FALSE
               /\ saver[f] = Rest => saver'[f] = Rest
               /\ saver'[f].at = "write" => saver[f].at = "write" /\ saver'[f].path = saver[f].path
    BY <1>0, <2>5, <2>6, Marked, ZenonT(60)
  <2>7. HoldOK'
    BY <2>2, <2>3, <2>4, <2>5, <2>6 DEF HoldOK, Disturbed
  <2>8. FilesAreThere'
    <3>1. ASSUME NEW f \in Savers, saver'[f].at = "write" PROVE saver[f].at = "write" /\ saver'[f].path = saver[f].path
      BY <2>4, <2>5, <2>6, <3>1
    <3> QED
      BY <1>0, <2>2, <2>3, <3>1 DEF FilesAreThere
  <2>9. ASSUME NEW f \in Savers, saver'[f] # Rest, saver'[f].alone PROVE KnowsTheRow(f)'
    <3>1. f = e /\ Alone(e)
      BY <2>4, <2>5, <2>6, <2>9
    <3> QED
      BY <2>4, <2>5, <2>6, <3>1 DEF KnowsTheRow, Alone
  <2> QED
    BY <2>3, <2>7, <2>8, <2>9 DEF HoldInv
<1>2. ASSUME NEW e \in Savers, ReadBack(e) PROVE HoldInv'
  <2>1. saver[e].at = "saved" /\ saver[e].alone \in BOOLEAN /\ saver[e] # Rest
    BY <1>0, <1>2, SaverShapes DEF ReadBack, Rest
  <2> DEFINE r == [at |-> "begun", alone |-> saver[e].alone, cfg |-> row]
  <2>2. r \in SaversAt /\ r.at = "begun" /\ r.alone = saver[e].alone /\ r.cfg = row /\ r # Rest
    BY <1>0, <2>1 DEF SaversAt, Rest
  <2>3. saver' = [saver EXCEPT ![e] = r] /\ UNCHANGED <<row, disk, settled>>
    BY <1>2 DEF ReadBack
  <2> HIDE DEF r
  <2>4. saver'[e] = r /\ \A f \in Savers : f # e => saver'[f] = saver[f]
    BY <1>0, <2>3
  <2>5. r.alone => KnowsTheRow(e)'
    BY <2>1, <2>2, <2>3, <2>4 DEF HoldInv, KnowsTheRow
  <2> QED
    BY <1>0, <2>1, <2>2, <2>3, <2>5, OneSaver DEF FilesAreThere
<1>3. ASSUME NEW e \in Savers, ClearPaths(e) PROVE HoldInv'
  <2>1. row' = [row EXCEPT !.file = [k \in Columns |-> NoFile]] /\ SaveEnds(e, TRUE) /\ disk' = disk /\ saver[e] # Rest
    BY <1>0, <1>3 DEF ClearPaths
  <2>2. /\ row' \in HoldRows /\ row'.text = row.text /\ row'.voice = row.voice
        /\ \A k \in Columns : row'.file[k] = NoFile
    BY <1>0, <2>1 DEF HoldRows
  <2> QED
    BY <2>1, <2>2, SaverDone DEF Says
<1>4. ASSUME NEW e \in Savers, LookForKey(e) PROVE HoldInv'
  <2>1. saver[e] \in Begun /\ saver[e].at = "begun" /\ saver[e] # Rest /\ UNCHANGED <<row, disk>>
    BY <1>0, <1>4, SaverShapes DEF LookForKey, Rest
  <2> DEFINE r == [at |-> "render", alone |-> saver[e].alone, cfg |-> saver[e].cfg, i |-> 1]
  <2>2. /\ r \in SaversAt /\ r.at = "render" /\ r.alone = saver[e].alone
        /\ r.cfg = saver[e].cfg /\ r.i = 1 /\ r # Rest
    BY <2>1, TwoKinds DEF SaversAt, Begun, Rest
  <2> HIDE DEF r
  <2>3. CASE saver' = [saver EXCEPT ![e] = r] /\ UNCHANGED settled
    <3>1. saver'[e] = r /\ \A f \in Savers : f # e => saver'[f] = saver[f]
      BY <1>0, <2>3
    <3>2. ASSUME r.alone PROVE KnowsTheRow(e)'
      <4>1. KnowsTheRow(e)
        BY <2>1, <2>2, <3>2 DEF HoldInv
      <4> QED
        BY <2>1, <2>2, <3>1, <4>1, TwoKinds DEF KnowsTheRow
    <3> QED
      BY <1>0, <2>1, <2>2, <2>3, <3>2, OneSaver DEF FilesAreThere
  <2>4. CASE SaveEnds(e, FALSE)
    BY <1>0, <2>1, <2>4, SaverDone DEF FilesAreThere
  <2> QED
    BY <1>4, <2>3, <2>4 DEF LookForKey, r
<1>5. ASSUME NEW e \in Savers, RenderMessage(e) PROVE HoldInv'
  <2>1. saver[e] \in Rendering /\ saver[e].at = "render" /\ saver[e] # Rest /\ UNCHANGED <<row, settled>>
    BY <1>0, <1>5, SaverShapes DEF RenderMessage, Rest
  <2> DEFINE cfg == saver[e].cfg
             i == saver[e].i
             text == cfg.text[Kinds[i]]
             name == Name(text, cfg.voice)
  <2>2. cfg \in HoldRows /\ i \in DOMAIN Kinds /\ saver[e].alone \in BOOLEAN
    BY <2>1 DEF Rendering
  <2>3. text \in Messages /\ cfg.voice \in Tongues /\ name \in Names
    BY <2>2, TwoKinds DEF HoldRows, Names
  <2>4. PICK path \in {NoFile, name} :
          /\ WithPath(e, path) /\ disk \subseteq disk' /\ (path # NoFile => path \in disk')
          /\ Says(text, cfg.voice, path)
    BY <1>5 DEF RenderMessage, Says
  <2> DEFINE r == [at |-> "write", alone |-> saver[e].alone, cfg |-> cfg, i |-> i, path |-> path]
  <2>5. /\ r \in SaversAt /\ r.at = "write" /\ r.alone = saver[e].alone
        /\ r.cfg = cfg /\ r.i = i /\ r.path = path /\ r # Rest
    BY <2>2, <2>3 DEF SaversAt, Rest
  <2>6. saver' = [saver EXCEPT ![e] = r]
    BY <1>0, <2>4 DEF WithPath
  <2> HIDE DEF r, name
  <2>7. saver'[e] = r /\ \A f \in Savers : f # e => saver'[f] = saver[f]
    BY <1>0, <2>6
  <2>8. ASSUME r.alone PROVE KnowsTheRow(e)'
    <3>1. KnowsTheRow(e)
      BY <2>1, <2>5, <2>8 DEF HoldInv
    <3> QED
      BY <2>1, <2>4, <2>5, <2>7, <3>1 DEF KnowsTheRow
  <2> QED
    BY <1>0, <2>1, <2>4, <2>5, <2>6, <2>8, OneSaver DEF FilesAreThere
<1>6. ASSUME NEW e \in Savers, WritePath(e) PROVE HoldInv'
  <2>1. saver[e] \in Writing /\ saver[e].at = "write" /\ saver[e] # Rest /\ UNCHANGED disk
    BY <1>0, <1>6, SaverShapes DEF WritePath, Rest
  <2> DEFINE cfg == saver[e].cfg
             i == saver[e].i
             path == saver[e].path
             k == Kinds[i]
  <2>2. /\ cfg \in HoldRows /\ i \in {1, 2} /\ saver[e].alone \in BOOLEAN /\ k \in Columns
        /\ path \in Names \cup {NoFile} /\ (path # NoFile => path \in disk)
    BY <1>0, <2>1, TwoKinds DEF Writing, FilesAreThere
  <2>3. row' = IF path # cfg.file[k] THEN [row EXCEPT !.file[k] = path] ELSE row
    BY <1>6 DEF WritePath, Changed
  <2>4. /\ row' \in HoldRows /\ row'.text = row.text /\ row'.voice = row.voice
        /\ \A l \in Columns : row'.file[l] = IF l = k /\ path # cfg.file[k] THEN path ELSE row.file[l]
    BY <1>0, <2>2, <2>3 DEF HoldRows
  <2>5. \A l \in Columns : row'.file[l] # NoFile => row'.file[l] \in disk
    BY <1>0, <2>2, <2>4 DEF FilesAreThere
  <2>6. ASSUME saver[e].alone
        PROVE  /\ KnowsTheRow(e)
               /\ row'.file[k] = path /\ Says(row'.text[k], row'.voice, row'.file[k])
               /\ i = 2 => Says(row'.text[Kinds[1]], row'.voice, row'.file[Kinds[1]])
               /\ i = 1 => row'.file[Kinds[2]] = cfg.file[Kinds[2]]
    <3>1. KnowsTheRow(e)
      BY <2>1, <2>6 DEF HoldInv
    <3>2. row.file[k] = cfg.file[k] /\ Says(cfg.text[k], cfg.voice, path)
          /\ row.text = cfg.text /\ row.voice = cfg.voice
      <4>1. row.text = cfg.text /\ row.voice = cfg.voice
        BY <2>1, <3>1 DEF KnowsTheRow
      <4>2. Says(cfg.text[k], cfg.voice, path)
        BY <2>1, <3>1 DEF KnowsTheRow
      <4>3. \A h \in DOMAIN Kinds : ~(h < i) => row.file[Kinds[h]] = cfg.file[Kinds[h]]
        BY <2>1, <3>1 DEF KnowsTheRow
      <4>4. i \in DOMAIN Kinds /\ ~(i < i)
        BY <2>2, TwoKinds
      <4> QED
        BY <4>1, <4>2, <4>3, <4>4
    <3>3. i = 2 => Says(row.text[Kinds[1]], row.voice, row.file[Kinds[1]])
      BY <2>1, <2>2, <3>1, TwoKinds DEF KnowsTheRow
    <3>4. i = 1 => row.file[Kinds[2]] = cfg.file[Kinds[2]]
      BY <2>1, <2>2, <3>1, TwoKinds DEF KnowsTheRow
    <3>5. row'.file[k] = path
      BY <2>2, <2>4, <3>2
    <3>6. Says(row'.text[k], row'.voice, row'.file[k])
      BY <2>4, <3>2, <3>5
    <3>7. i = 2 => row'.file[Kinds[1]] = row.file[Kinds[1]]
      BY <2>4, TwoKinds
    <3>8. i = 1 => row'.file[Kinds[2]] = row.file[Kinds[2]]
      BY <2>4, TwoKinds
    <3> QED
      BY <2>4, <3>1, <3>3, <3>4, <3>5, <3>6, <3>7, <3>8
  <2>7. CASE i = 1
    <3> DEFINE r == [at |-> "render", alone |-> saver[e].alone, cfg |-> cfg, i |-> i + 1]
    <3>1. /\ r \in SaversAt /\ r.at = "render" /\ r.alone = saver[e].alone
          /\ r.cfg = cfg /\ r.i = 2 /\ r # Rest
      BY <2>2, <2>7, TwoKinds DEF SaversAt, Rest
    <3>2. saver' = [saver EXCEPT ![e] = r] /\ UNCHANGED settled
      BY <1>0, <1>6, <2>7, TwoKinds DEF WritePath
    <3> HIDE DEF r
    <3>3. saver'[e] = r /\ \A f \in Savers : f # e => saver'[f] = saver[f]
      BY <1>0, <3>2
    <3>4. ASSUME r.alone PROVE KnowsTheRow(e)'
      BY <2>1, <2>4, <2>6, <2>7, <3>1, <3>3, <3>4, TwoKinds DEF KnowsTheRow
    <3> QED
      BY <2>1, <2>4, <2>5, <3>1, <3>2, <3>4, OneSaver
  <2>8. CASE i = 2
    <3>1. SaveEnds(e, TRUE)
      <4>1. ~(saver[e].i < Len(Kinds))
        BY <2>8, TwoKinds
      <4> QED
        BY <1>6, <4>1, Zenon DEF WritePath
    <3>2. saver[e].alone => \A l \in Columns : Says(row'.text[l], row'.voice, row'.file[l])
      BY <2>6, <2>8, TwoKinds
    <3> QED
      BY <2>1, <2>4, <2>5, <3>1, <3>2, SaverDone
  <2> QED
    BY <2>2, <2>7, <2>8
<1>7. CASE ChangeKey
  BY <1>7 DEF ChangeKey, HoldInv, HoldOK, FilesAreThere, KnowsTheRow
<1>8. CASE Stop
  BY <1>0, <1>8 DEF Stop, HoldInv, HoldOK, FilesAreThere
<1> QED
  BY <1>1, <1>2, <1>3, <1>4, <1>5, <1>6, <1>7, <1>8 DEF HoldNext

LEMMA HoldStart == HoldInit => HoldInv
<1> SUFFICES ASSUME HoldInit PROVE HoldInv
  OBVIOUS
<1>1. Rest \in SaversAt /\ Rest.at = "rest"
  BY DEF SaversAt, Rest
<1>2. row \in HoldRows /\ \A k \in Columns : row.file[k] = NoFile
  <2>1. /\ [k \in Columns |-> ""] \in [Columns -> Messages]
        /\ [k \in Columns |-> NoFile] \in [Columns -> Names \cup {NoFile}]
    BY HoldAssumption
  <2>2. /\ row \in [text : {[k \in Columns |-> ""]}, voice : Tongues, file : {[k \in Columns |-> NoFile]}]
        /\ row.file = [k \in Columns |-> NoFile]
    BY DEF HoldInit
  <2>3. row \in HoldRows
    BY <2>1, <2>2 DEF HoldRows
  <2> QED
    BY <2>2, <2>3
<1> QED
  BY <1>1, <1>2 DEF HoldInit, HoldInv, HoldOK, FilesAreThere, Says

(* A file that is there says what its name stands for, and a save knows    *)
(* the row it was begun for (save of the queue, agent_config.py:375,       *)
(* holdaudio.py:23-26).                                                    *)
THEOREM HoldInductive == HoldSpec => []HoldInv
<1>1. HoldInv /\ UNCHANGED hvars => HoldInv'
  BY DEF hvars, HoldInv, HoldOK, FilesAreThere, KnowsTheRow
<1> QED
  BY <1>1, HoldStart, HoldStep, PTL DEF HoldSpec

(* After a save with a key and no other beside it, waiting callers hear    *)
(* what the page says or nothing, whatever saves were cut short, whichever *)
(* failed and however many there are (agent_config.py:375).                *)
THEOREM WaitersHearThePage == HoldSpec => []HoldSaysWhatIsWritten
<1>1. HoldInv => HoldSaysWhatIsWritten
  BY DEF HoldInv, FilesAreThere, HoldSaysWhatIsWritten, Says, Name
<1> QED
  BY <1>1, HoldInductive, PTL

-----------------------------------------------------------------------------
(* Metering: what is priced is what the legs of the call reported.         *)

LEMMA TheKinds ==
  /\ Layers = {"llm", "tts", "stt"}
  /\ KindsOf["llm"] = {"llm_input", "llm_cached", "llm_output"}
  /\ KindsOf["tts"] = {"tts_characters", "tts_seconds"} /\ KindsOf["stt"] = {"stt_seconds"}
  /\ MeasuresOf["llm"] = {"prompt", "llm_cached", "llm_output"}
  /\ MeasuresOf["tts"] = {"tts_characters", "tts_seconds"} /\ MeasuresOf["stt"] = {"stt_seconds"}
  /\ Measures = {"prompt", "llm_cached", "llm_output", "tts_characters", "tts_seconds", "stt_seconds"}
  /\ UNION {KindsOf[l] : l \in Layers}
       = {"llm_input", "llm_cached", "llm_output", "tts_characters", "tts_seconds", "stt_seconds"}
  /\ Sure["llm"] = "prompt" /\ Sure["tts"] = "tts_characters" /\ Sure["stt"] = "stt_seconds"
<1>1. Layers = {"llm", "tts", "stt"}
  BY DEF Layers, KindsOf
<1>2. /\ KindsOf["llm"] = {"llm_input", "llm_cached", "llm_output"}
      /\ KindsOf["tts"] = {"tts_characters", "tts_seconds"} /\ KindsOf["stt"] = {"stt_seconds"}
  BY DEF KindsOf
<1>3. /\ MeasuresOf["llm"] = {"prompt", "llm_cached", "llm_output"}
      /\ MeasuresOf["tts"] = {"tts_characters", "tts_seconds"} /\ MeasuresOf["stt"] = {"stt_seconds"}
  BY DEF MeasuresOf
<1>4. Measures = {"prompt", "llm_cached", "llm_output", "tts_characters", "tts_seconds", "stt_seconds"}
  BY <1>1, <1>3 DEF Measures
<1>5. UNION {KindsOf[l] : l \in Layers}
        = {"llm_input", "llm_cached", "llm_output", "tts_characters", "tts_seconds", "stt_seconds"}
  BY <1>1, <1>2
<1>6. Sure["llm"] = "prompt" /\ Sure["tts"] = "tts_characters" /\ Sure["stt"] = "stt_seconds"
  BY DEF Sure
<1> QED
  BY <1>1, <1>2, <1>3, <1>4, <1>5, <1>6

(* The first of the names is one of them.                                  *)
LEMMA FirstIsOne ==
  ASSUME NEW names \in SUBSET Ranked, names # {} PROVE FirstProvider(names) \in names
<1>1. \A p \in names : Rank(p) \in Nat
  <2> SUFFICES ASSUME NEW p \in names PROVE Rank(p) \in Nat
    OBVIOUS
  <2>1. \E i \in DOMAIN Alphabet : Alphabet[i] = p
    BY DEF Ranked
  <2>2. Rank(p) \in DOMAIN Alphabet
    BY <2>1 DEF Rank
  <2> QED
    BY <2>2, MeteringAssumption
<1> DEFINE ranks == {Rank(p) : p \in names}
           Earlier == {ss \in Nat \X Nat : ss[1] < ss[2]}
<1>2. ranks \in SUBSET Nat /\ ranks # {}
  BY <1>1
<1>3. IsWellFoundedOn(Earlier, Nat)
  BY NatLessThanWellFounded DEF OpToRel
<1> HIDE DEF Earlier, ranks
<1>4. PICK m \in ranks : \A n \in ranks : ~ (<<n, m>> \in Earlier)
  BY <1>2, <1>3, WFMin
<1>5. \A n \in ranks : m <= n
  <2> SUFFICES ASSUME NEW n \in ranks PROVE m <= n
    OBVIOUS
  <2>1. n \in Nat /\ m \in Nat
    BY <1>2
  <2>2. ~(n < m)
    BY <1>4, <2>1 DEF Earlier
  <2> QED
    BY <2>1, <2>2
<1>6. PICK p \in names : m = Rank(p)
  BY <1>4 DEF ranks
<1>7. \A q \in names : Rank(p) <= Rank(q)
  BY <1>5, <1>6 DEF ranks
<1> QED
  BY <1>7 DEF FirstProvider

(* The rate that is picked is one of the provider and the kind; if the     *)
(* model is known, it is the model's, or the provider's own where the      *)
(* model has none (pick_rate, costing.py:77).                              *)
LEMMA PickedIs ==
  ASSUME NEW rates, NEW provider, NEW model, NEW kind, NEW p \in PickRate(rates, provider, model, kind)
  PROVE  /\ p.rate \in rates /\ p.rate.provider = provider /\ p.rate.kind = kind
         /\ model # Unknown =>
              \/ p.rate.model = model
              \/ /\ p.rate.model = Unknown
                 /\ \A r \in rates : r.provider = provider /\ r.kind = kind => r.model # model
<1> DEFINE those == {r \in rates : r.provider = provider /\ r.kind = kind}
           exact == {r \in those : model # Unknown /\ r.model = model}
           generic == {r \in those : r.model = Unknown}
           Certain(r) == [rate |-> r, assumed |-> FALSE]
<1>1. CASE exact # {}
  <2>1. PICK r \in exact : p = Certain(r)
    BY <1>1 DEF PickRate
  <2> QED
    BY <2>1
<1>2. CASE exact = {} /\ generic # {}
  <2>1. PICK r \in generic : p = Certain(r)
    BY <1>2 DEF PickRate
  <2> QED
    BY <1>2, <2>1
<1>3. CASE exact = {} /\ generic = {}
  <2>1. model = Unknown /\ \E r \in those : p = [rate |-> r, assumed |-> TRUE]
    BY <1>3 DEF PickRate
  <2> QED
    BY <2>1
<1> QED
  BY <1>1, <1>2, <1>3

(* What the page of a call says of it (price_call, costing.py:140).        *)
Explains(b, paid, rates) ==
  /\ b.rates = rates
  /\ \A c \in b.charges :
       /\ c.layer \in Layers /\ c.kind \in KindsOf[c.layer] /\ c.kind \in DOMAIN Quantities(paid.usage)
       /\ Quantities(paid.usage)[c.kind] > 0 /\ c.amount = Quantities(paid.usage)[c.kind]
       /\ \E p \in PickRate(rates, FirstProvider(paid.providers[c.layer]), paid.models[c.layer], c.kind) :
            c.rate = p.rate
       /\ c.assumed => "assumed" \in b.caveats
  /\ \A l \in Layers : \A k \in KindsOf[l] : k \in DOMAIN Quantities(paid.usage) /\ Quantities(paid.usage)[k] > 0 =>
       (\E c \in b.charges : c.layer = l) \/ <<l, k>> \in b.missing
  /\ \A l \in Layers : Cardinality(paid.providers[l]) > 1 => "fell back" \in b.caveats

LEMMA PricedIs ==
  ASSUME NEW paid, NEW rates, NEW fx PROVE Explains(PriceCall(paid, rates, fx), paid, rates)
<1> DEFINE b == PriceCall(paid, rates, fx)
           amount == Quantities(paid.usage)
           Rate(l, k) == PickRate(rates, FirstProvider(paid.providers[l]), paid.models[l], k)
           used == {u \in Layers \X DOMAIN amount : u[2] \in KindsOf[u[1]] /\ amount[u[2]] > 0}
           ChargeOf(u, p) == [layer |-> u[1], kind |-> u[2], amount |-> amount[u[2]],
                              rate |-> p.rate, assumed |-> p.assumed]
           charges == UNION {{ChargeOf(u, p) : p \in Rate(u[1], u[2])} : u \in used}
           priced == {c.layer : c \in charges}
           currencies == {c.rate.currency : c \in charges}
           mixed == ~fx /\ Cardinality(currencies) > 1
           missing == {u \in used : u[1] \notin priced}
           caveats == {w \in {"mixed", "rupees", "fell back", "assumed"} :
             \/ w = "mixed" /\ mixed
             \/ w = "rupees" /\ ~fx /\ currencies = {"INR"}
             \/ w = "fell back" /\ \E l \in Layers : Cardinality(paid.providers[l]) > 1
             \/ w = "assumed" /\ \E c \in charges : c.assumed}
<1>1. b.rates = rates /\ b.charges = charges /\ b.missing = missing /\ b.caveats = caveats
  BY DEF PriceCall
<1> HIDE DEF b
<1>2. \A u : u \in used <=> /\ u \in Layers \X DOMAIN amount
                            /\ u[2] \in KindsOf[u[1]] /\ amount[u[2]] > 0
  OBVIOUS
<1> HIDE DEF amount, used
<1>3. ASSUME NEW c \in charges
      PROVE  \E u \in used : \E p \in Rate(u[1], u[2]) : c = ChargeOf(u, p)
  BY <1>3
<1> HIDE DEF charges
<1>4. ASSUME NEW c \in charges
      PROVE  /\ c.layer \in Layers /\ c.kind \in KindsOf[c.layer] /\ c.kind \in DOMAIN amount
             /\ amount[c.kind] > 0 /\ c.amount = amount[c.kind]
             /\ \E p \in Rate(c.layer, c.kind) : c.rate = p.rate
             /\ c.assumed => "assumed" \in caveats
  <2>0. PICK u \in used : \E p \in Rate(u[1], u[2]) : c = ChargeOf(u, p)
    BY <1>3
  <2>1. PICK p \in Rate(u[1], u[2]) : c = ChargeOf(u, p)
    BY <2>0
  <2>2. c.layer = u[1] /\ c.kind = u[2] /\ c.amount = amount[u[2]] /\ c.rate = p.rate
    BY <2>1
  <2>3. c.assumed => "assumed" \in caveats
    OBVIOUS
  <2> HIDE DEF caveats, Rate
  <2> QED
    BY <1>2, <2>1, <2>2, <2>3
<1>5. ASSUME NEW l \in Layers, NEW k \in KindsOf[l], k \in DOMAIN amount, amount[k] > 0
      PROVE  (\E c \in charges : c.layer = l) \/ <<l, k>> \in missing
  BY <1>2, <1>5
<1>6. \A l \in Layers : Cardinality(paid.providers[l]) > 1 => "fell back" \in caveats
  OBVIOUS
<1> HIDE DEF missing, caveats
<1>7. Explains(b, paid, rates)
  BY <1>1, <1>4, <1>5, <1>6 DEF amount, Explains
<1> QED
  BY <1>7 DEF b

-----------------------------------------------------------------------------
(* Whoever served a layer, its first name is that of one of them.          *)
LEMMA LegNames ==
  ASSUME NEW plan \in Plans, NEW l \in Layers
  PROVE  /\ \A leg \in LegsOf(plan, l) : Noted(l, leg, plan) \in Ranked
         /\ l = "llm" => \A leg : Noted(l, leg, plan) = plan[l].provider
         /\ l # "llm" => \A leg : Noted(l, leg, plan) = leg.provider
         /\ Leg(plan, l).provider = plan[l].provider
         /\ plan[l].model # Unknown => Leg(plan, l).model = plan[l].model
         /\ \A leg \in LegsOf(plan, l) : leg = Leg(plan, l)
              \/ (leg = FallbackLeg(plan, l, plan[l].fallback) /\ leg.provider # plan[l].provider)
<1>1. plan[l].provider \in Ranked /\ plan[l].fallback \in Ranked \cup {Unknown}
  BY MeteringAssumption, TheKinds
<1>2. l = "llm" => \A leg : Noted(l, leg, plan) = plan[l].provider
  BY DEF Noted, Label
<1>3. l # "llm" => \A leg : Noted(l, leg, plan) = leg.provider
  BY DEF Noted, Label
<1>4. Leg(plan, l).provider = plan[l].provider /\ (plan[l].model # Unknown => Leg(plan, l).model = plan[l].model)
  BY DEF Leg
<1>5. \A leg \in LegsOf(plan, l) : leg = Leg(plan, l)
        \/ (/\ leg = FallbackLeg(plan, l, plan[l].fallback) /\ leg.provider # plan[l].provider
            /\ leg.provider = plan[l].fallback /\ plan[l].fallback # Unknown)
  BY DEF LegsOf, FallbackLeg
<1>6. \A leg \in LegsOf(plan, l) : Noted(l, leg, plan) \in Ranked
  BY <1>1, <1>2, <1>3, <1>4, <1>5
<1> QED
  BY <1>2, <1>3, <1>4, <1>5, <1>6

(* The quantities that are priced are those that were measured.            *)
LEMMA QuantitiesAre ==
  ASSUME NEW usage \in [Measures -> Nat]
  PROVE  LET amount == Quantities(usage) IN
         /\ DOMAIN amount = UNION {KindsOf[l] : l \in Layers}
         /\ \A k \in DOMAIN amount : amount[k] \in Nat
         /\ \A k \in DOMAIN amount \ {"llm_input"} : k \in Measures /\ amount[k] = usage[k]
         /\ amount["llm_input"] = IF usage["prompt"] > usage["llm_cached"]
                                  THEN usage["prompt"] - usage["llm_cached"] ELSE 0
<1> DEFINE amount == Quantities(usage)
<1>1. /\ DOMAIN amount = UNION {KindsOf[l] : l \in Layers}
      /\ \A k \in UNION {KindsOf[l] : l \in Layers} :
           amount[k] = IF k # "llm_input" THEN usage[k]
                       ELSE IF usage["prompt"] > usage["llm_cached"] THEN usage["prompt"] - usage["llm_cached"] ELSE 0
  BY DEF Quantities
<1> HIDE DEF amount
<1>2. \A k \in DOMAIN amount \ {"llm_input"} : k \in Measures /\ amount[k] = usage[k] /\ amount[k] \in Nat
  BY <1>1, TheKinds
<1>3. usage["prompt"] \in Nat /\ usage["llm_cached"] \in Nat /\ "llm_input" \in DOMAIN amount
  BY <1>1, TheKinds
<1>4. /\ amount["llm_input"] \in Nat
      /\ amount["llm_input"] = IF usage["prompt"] > usage["llm_cached"]
                               THEN usage["prompt"] - usage["llm_cached"] ELSE 0
  BY <1>1, <1>3
<1> QED
  BY <1>1, <1>2, <1>4 DEF amount

LEMMA CostHolds == MeteringInv => CostIsOfWhatRan
<1> SUFFICES ASSUME MeteringInv, bill # Unread PROVE CostIsOfWhatRan
  BY DEF CostIsOfWhatRan
<1> DEFINE plan == served.plan
           amount == Quantities(written.usage)
<1>1. /\ CallIsServed /\ served # NoCall /\ AmountsAreOfLegs /\ meter.usage \in [Measures -> Nat]
      /\ written.usage = meter.usage /\ written.models = Models(plan) /\ written.providers = served.names
  BY DEF MeteringInv
<1>2. PICK rates, fx : bill = PriceCall(written, rates, fx)
  BY DEF MeteringInv
<1>0. Explains(bill, written, rates)
  BY <1>2, PricedIs
<1>3. /\ bill.rates = rates
      /\ \A c \in bill.charges :
           /\ c.layer \in Layers /\ c.kind \in KindsOf[c.layer] /\ c.kind \in DOMAIN amount
           /\ amount[c.kind] > 0 /\ c.amount = amount[c.kind]
           /\ \E p \in PickRate(rates, FirstProvider(written.providers[c.layer]), written.models[c.layer], c.kind) :
                c.rate = p.rate
           /\ c.assumed => "assumed" \in bill.caveats
  BY <1>0 DEF Explains
<1>4. /\ \A l \in Layers : \A k \in KindsOf[l] : k \in DOMAIN amount /\ amount[k] > 0 =>
              (\E c \in bill.charges : c.layer = l) \/ <<l, k>> \in bill.missing
      /\ \A l \in Layers : Cardinality(served.names[l]) > 1 => "fell back" \in bill.caveats
  BY <1>0, <1>1 DEF Explains
<1>5. plan \in Plans /\ \A l \in Layers :
        /\ served.by[l] \subseteq LegsOf(plan, l)
        /\ served.names[l] = {Noted(l, leg, plan) : leg \in served.by[l]}
        /\ written.models[l] = plan[l].model
  BY <1>1 DEF CallIsServed, Models
<1>6. /\ DOMAIN amount = UNION {KindsOf[l] : l \in Layers}
      /\ \A k \in DOMAIN amount : amount[k] \in Nat
      /\ \A k \in DOMAIN amount \ {"llm_input"} : amount[k] = meter.usage[k]
      /\ amount["llm_input"] = IF meter.usage["prompt"] > meter.usage["llm_cached"]
                               THEN meter.usage["prompt"] - meter.usage["llm_cached"] ELSE 0
  BY <1>1, QuantitiesAre
<1>7. \A k \in Measures : meter.usage[k] \in Nat
  BY <1>1
<1> HIDE DEF plan, amount
<1>8. ASSUME NEW l \in Layers, served.by[l] # {}
      PROVE  \E k \in KindsOf[l] : k \in DOMAIN amount /\ amount[k] > 0
  <2>1. meter.usage[Sure[l]] > 0
    BY <1>1, <1>8 DEF AmountsAreOfLegs
  <2>2. CASE l = "llm"
    <3>1. amount["llm_input"] > 0 \/ amount["llm_cached"] > 0
      BY <1>6, <1>7, <2>1, <2>2, TheKinds
    <3> QED
      BY <1>6, <2>2, <3>1, TheKinds
  <2>3. CASE l # "llm"
    BY <1>6, <2>1, <2>3, TheKinds
  <2> QED
    BY <2>2, <2>3
<1>9. ASSUME NEW l \in Layers, NEW k \in KindsOf[l], amount[k] > 0 PROVE served.by[l] # {}
  <2> SUFFICES ASSUME served.by[l] = {} PROVE FALSE
    OBVIOUS
  <2>1. \A j \in MeasuresOf[l] : meter.usage[j] = 0
    BY <1>1 DEF AmountsAreOfLegs
  <2> QED
    BY <1>6, <1>7, <1>9, <2>1, TheKinds
<1>10. ASSUME NEW c \in bill.charges, served.by[c.layer] # {}
       PROVE  /\ c.rate \in bill.rates /\ c.rate.kind = c.kind
              /\ c.rate.provider \in served.names[c.layer]
              /\ plan[c.layer].model # Unknown =>
                   \/ c.rate.model = plan[c.layer].model
                   \/ /\ c.rate.model = Unknown
                      /\ \A r \in bill.rates : r.provider = c.rate.provider /\ r.kind = c.kind =>
                           r.model # plan[c.layer].model
  <2> DEFINE l == c.layer
  <2>1. l \in Layers
    BY <1>3
  <2> DEFINE first == FirstProvider(served.names[l])
  <2>2. PICK p \in PickRate(rates, first, plan[l].model, c.kind) : c.rate = p.rate
    BY <1>1, <1>3, <1>5, <2>1
  <2>3. served.names[l] \in SUBSET Ranked /\ served.names[l] # {}
    <3>1. \A leg \in served.by[l] : Noted(l, leg, plan) \in Ranked
      BY <1>5, <2>1, LegNames
    <3>2. served.names[l] = {Noted(l, leg, plan) : leg \in served.by[l]}
      BY <1>5, <2>1
    <3> QED
      BY <1>10, <3>1, <3>2
  <2>4. first \in served.names[l]
    BY <2>3, FirstIsOne
  <2> HIDE DEF first
  <2>5. /\ c.rate \in rates /\ c.rate.provider = first /\ c.rate.kind = c.kind
        /\ plan[l].model # Unknown =>
              \/ c.rate.model = plan[l].model
              \/ /\ c.rate.model = Unknown
                 /\ \A r \in rates : r.provider = first /\ r.kind = c.kind => r.model # plan[l].model
    BY <2>2, PickedIs
  <2> QED
    BY <1>3, <2>4, <2>5
<1>11. ASSUME NEW l \in Layers
       PROVE  /\ served.by[l] # {} => ChargesOf(l) # {} \/ \E u \in bill.missing : u[1] = l
              /\ l # "llm" /\ Cardinality(served.by[l]) > 1 => "fell back" \in bill.caveats
  <2>1. served.by[l] # {} => ChargesOf(l) # {} \/ \E u \in bill.missing : u[1] = l
    BY <1>4, <1>8 DEF ChargesOf
  <2>2. ASSUME l # "llm", Cardinality(served.by[l]) > 1 PROVE "fell back" \in bill.caveats
    <3> DEFINE legs == served.by[l]
    <3>1. PICK a \in legs, b \in legs : a # b
      <4> SUFFICES ASSUME \A a, b \in legs : a = b PROVE FALSE
        OBVIOUS
      <4>1. legs = {} \/ \E a : legs = {a}
        OBVIOUS
      <4>2. Cardinality(legs) \in {0, 1}
        BY <4>1, FS_EmptySet, FS_Singleton
      <4> QED
        BY <2>2, <4>2
    <3>2. legs = {a, b} /\ a.provider # b.provider
      BY <1>5, <3>1, LegNames
    <3>3. served.names[l] = {a.provider, b.provider}
      BY <1>5, <2>2, <3>2, LegNames
    <3>4. Cardinality({a.provider, b.provider}) = 2
      <4>1. IsFiniteSet({a.provider}) /\ Cardinality({a.provider}) = 1
        BY FS_Singleton
      <4>2. Cardinality({a.provider} \cup {b.provider}) = 2
        BY <3>2, <4>1, FS_AddElement
      <4>3. {a.provider, b.provider} = {a.provider} \cup {b.provider}
        OBVIOUS
      <4> QED
        BY <4>2, <4>3
    <3>5. Cardinality(served.names[l]) > 1
      BY <3>3, <3>4
    <3> QED
      BY <1>4, <3>5
  <2> QED
    BY <2>1, <2>2
<1>12. ASSUME NEW l \in Layers, NEW c \in ChargesOf(l)
       PROVE  /\ \E leg \in served.by[l] :
                   \/ c.rate.provider = leg.provider
                   \/ l = "llm" /\ c.rate.provider = Primary(l).provider
              /\ served.by[l] = {Primary(l)} /\ plan[l].model # Unknown =>
                   \/ c.rate.model = Primary(l).model
                   \/ /\ c.rate.model = Unknown
                      /\ \A r \in bill.rates : r.kind = c.kind /\ r.provider = Primary(l).provider =>
                           r.model # Primary(l).model
              /\ c.assumed => "assumed" \in bill.caveats
  <2>1. c \in bill.charges /\ c.layer = l
    BY DEF ChargesOf
  <2>2. c.kind \in KindsOf[l] /\ amount[c.kind] > 0 /\ (c.assumed => "assumed" \in bill.caveats)
    BY <1>3, <2>1
  <2>3. served.by[l] # {}
    BY <1>9, <2>2
  <2>4. /\ c.rate.provider \in served.names[l]
        /\ plan[l].model # Unknown =>
             \/ c.rate.model = plan[l].model
             \/ /\ c.rate.model = Unknown
                /\ \A r \in bill.rates : r.provider = c.rate.provider /\ r.kind = c.kind =>
                     r.model # plan[l].model
    BY <1>10, <2>1, <2>3
  <2>5. PICK leg \in served.by[l] : c.rate.provider = Noted(l, leg, plan)
    BY <1>5, <2>4
  <2>6. Primary(l) = Leg(plan, l) /\ Primary(l).provider = plan[l].provider
    BY <1>5, LegNames DEF Primary, plan
  <2>7. c.rate.provider = leg.provider \/ (l = "llm" /\ c.rate.provider = Primary(l).provider)
    BY <1>5, <2>5, <2>6, LegNames
  <2>8. ASSUME served.by[l] = {Primary(l)}, plan[l].model # Unknown
        PROVE  c.rate.provider = Primary(l).provider /\ Primary(l).model = plan[l].model
    BY <1>5, <2>5, <2>6, <2>8, LegNames
  <2> QED
    BY <2>2, <2>4, <2>5, <2>7, <2>8
<1>13. Charged({"llm_input", "llm_cached"})
         <= (IF written.usage.prompt > written.usage.llm_cached THEN written.usage.prompt ELSE written.usage.llm_cached)
  <2> DEFINE these == {c \in bill.charges : c.kind \in {"llm_input", "llm_cached"}}
             Of(k) == {c \in these : c.kind = k}
             Amount(k) == IF Of(k) = {} THEN 0 ELSE (CHOOSE c \in Of(k) : TRUE).amount
  <2>1. ASSUME NEW k \in {"llm_input", "llm_cached"} PROVE Amount(k) = 0 \/ Amount(k) = amount[k]
    <3>1. \A c \in Of(k) : c.amount = amount[k]
      BY <1>3
    <3>2. Of(k) # {} => (CHOOSE c \in Of(k) : TRUE) \in Of(k)
      OBVIOUS
    <3> QED
      BY <3>1, <3>2
  <2>2. Charged({"llm_input", "llm_cached"}) = Amount("llm_input") + Amount("llm_cached")
    BY DEF Charged
  <2> HIDE DEF Amount
  <2>3. /\ Amount("llm_input") = 0 \/ Amount("llm_input") = amount["llm_input"]
        /\ Amount("llm_cached") = 0 \/ Amount("llm_cached") = meter.usage["llm_cached"]
    BY <1>6, <2>1, TheKinds
  <2>4. meter.usage["prompt"] \in Nat /\ meter.usage["llm_cached"] \in Nat
    BY <1>7, TheKinds
  <2> QED
    BY <1>1, <1>6, <2>2, <2>3, <2>4
<1> QED
  BY <1>11, <1>12, <1>13 DEF CostIsOfWhatRan, plan

-----------------------------------------------------------------------------
LEMMA MeteringStart == MeteringInit => MeteringInv
<1> SUFFICES ASSUME MeteringInit PROVE MeteringInv
  OBVIOUS
<1>1. NoUsage \in [Measures -> Nat] /\ \A k \in Measures : NoUsage[k] = 0
  <2> DEFINE kinds == UNION {KindsOf[l] : l \in Layers}
             keys == {"prompt"} \cup (kinds \ {"llm_input"})
  <2>1. kinds = {"llm_input", "llm_cached", "llm_output", "tts_characters", "tts_seconds", "stt_seconds"}
    BY TheKinds
  <2>2. NoUsage = [k \in keys |-> 0]
    BY DEF NoUsage
  <2> HIDE DEF kinds
  <2>3. keys = Measures
    BY <2>1, TheKinds
  <2> QED
    BY <2>2, <2>3
<1>2. \A l \in Layers : MeasuresOf[l] \subseteq Measures
  BY TheKinds
<1>3. AmountsAreOfLegs
  BY <1>1, <1>2 DEF MeteringInit, AmountsAreOfLegs
<1>4. meter \in [usage : [Measures -> Nat], n : Nat]
  BY <1>1 DEF MeteringInit
<1> QED
  BY <1>3, <1>4 DEF MeteringInit, MeteringInv

LEMMA BeginKeeps == MeteringInv /\ Begin => MeteringInv'
<1> SUFFICES ASSUME MeteringInv, Begin PROVE MeteringInv'
  OBVIOUS
<1>1. PICK keys \in KeyRings :
        served' = [at |-> "up", plan |-> config, by |-> [l \in Layers |-> {}],
                   names |-> [l \in Layers |-> {}],
                   legs |-> [l \in Layers |-> {Leg(config, l)} \cup
                               {FallbackLeg(config, l, f) : f \in Fallback(config, l, keys)}]]
  BY DEF Begin
<1>2. served = NoCall /\ written = NoCall /\ bill = Unread /\ UNCHANGED <<config, meter, written, bill>>
  BY DEF Begin, MeteringInv
<1>3. served'.at = "up" /\ served'.plan = config /\ DOMAIN served' = {"at", "plan", "by", "names", "legs"}
      /\ DOMAIN served'.by = Layers /\ DOMAIN served'.names = Layers
      /\ \A l \in Layers : served'.by[l] = {} /\ served'.names[l] = {}
           /\ served'.legs[l] = {Leg(config, l)} \cup {FallbackLeg(config, l, f) : f \in Fallback(config, l, keys)}
  BY <1>1
<1>4. \A l \in Layers : served'.legs[l] \subseteq LegsOf(config, l)
  BY <1>3 DEF LegsOf, Fallback
<1>5. CallIsServed'
  BY <1>3, <1>4 DEF CallIsServed, MeteringInv
<1>6. AmountsAreOfLegs'
  BY <1>2, <1>3 DEF AmountsAreOfLegs, MeteringInv
<1> QED
  BY <1>2, <1>5, <1>6 DEF MeteringInv

LEMMA MetricKeeps ==
  ASSUME NEW layer \in Layers, MeteringInv, Metric(layer) PROVE MeteringInv'
<1>1. PICK leg \in served.legs[layer], m \in Amounts(layer) :
        /\ served' = [served EXCEPT !.by[layer] = @ \cup {leg},
                                    !.names[layer] = @ \cup {Noted(layer, leg, served.plan)}]
        /\ meter' = [usage |-> [k \in DOMAIN meter.usage |->
                                  meter.usage[k] + (IF k \in DOMAIN m THEN m[k] ELSE 0)],
                     n |-> meter.n + 1]
  BY DEF Metric
<1>2. served.at = "up" /\ UNCHANGED <<config, written, bill>>
  BY DEF Metric
<1>3. served # NoCall /\ CallIsServed
  BY <1>2 DEF MeteringInv, NoCall
<1>4. written = NoCall /\ bill = Unread
  BY <1>2 DEF MeteringInv
<1>5. /\ DOMAIN served' = {"at", "plan", "by", "names", "legs"}
      /\ served'.at = "up" /\ served'.plan = served.plan /\ served'.legs = served.legs
      /\ DOMAIN served'.by = Layers /\ DOMAIN served'.names = Layers
      /\ served'.by = [served.by EXCEPT ![layer] = @ \cup {leg}]
      /\ served'.names = [served.names EXCEPT ![layer] = @ \cup {Noted(layer, leg, served.plan)}]
  BY <1>1, <1>2, <1>3 DEF CallIsServed
<1>6. ASSUME NEW l \in Layers
      PROVE  /\ served'.by[l] \subseteq served'.legs[l]
             /\ served'.legs[l] \subseteq LegsOf(served'.plan, l)
             /\ served'.names[l] = {Noted(l, g, served'.plan) : g \in served'.by[l]}
  <2>1. CASE l = layer
    <3>1. served'.by[l] = served.by[l] \cup {leg}
      BY <1>3, <1>5, <2>1 DEF CallIsServed
    <3>2. served'.names[l] = served.names[l] \cup {Noted(l, leg, served.plan)}
      BY <1>3, <1>5, <2>1 DEF CallIsServed
    <3> QED
      BY <1>3, <1>5, <2>1, <3>1, <3>2 DEF CallIsServed
  <2>2. CASE l # layer
    BY <1>3, <1>5, <2>2 DEF CallIsServed
  <2> QED
    BY <2>1, <2>2
<1>7. CallIsServed'
  BY <1>3, <1>5, <1>6 DEF CallIsServed
<1>8. /\ \A k \in DOMAIN m : m[k] \in Nat
      /\ Sure[layer] \in DOMAIN m /\ m[Sure[layer]] > 0
      /\ \A k \in DOMAIN m : k \in MeasuresOf[layer]
  <2>1. CASE layer = "llm"
    <3>1. m \in [prompt : {2}, llm_cached : {0, 1, 3}, llm_output : {0, 1}]
      BY <2>1, <1>1 DEF Amounts
    <3> QED
      BY <2>1, <3>1, TheKinds
  <2>2. CASE layer = "tts"
    <3>1. m \in [tts_characters : {1}, tts_seconds : {1}]
      BY <2>2, <1>1 DEF Amounts
    <3> QED
      BY <2>2, <3>1, TheKinds
  <2>3. CASE layer = "stt"
    <3>1. m \in [stt_seconds : {1}]
      BY <2>3, <1>1 DEF Amounts
    <3> QED
      BY <2>3, <3>1, TheKinds
  <2> QED
    BY <2>1, <2>2, <2>3, TheKinds
<1>9. meter.usage \in [Measures -> Nat] /\ meter.n \in Nat
  BY DEF MeteringInv
<1>10. \A k \in Measures : meter'.usage[k] = meter.usage[k] + (IF k \in DOMAIN m THEN m[k] ELSE 0)
  BY <1>1, <1>9
<1>11. meter' \in [usage : [Measures -> Nat], n : Nat]
  <2>1. meter'.usage \in [Measures -> Nat]
    BY <1>1, <1>8, <1>9
  <2> QED
    BY <1>1, <1>9, <2>1
<1>12. AmountsAreOfLegs'
  <2> SUFFICES ASSUME NEW l \in Layers
               PROVE  /\ served'.by[l] = {} => \A k \in MeasuresOf[l] : meter'.usage[k] = 0
                      /\ served'.by[l] # {} => meter'.usage[Sure[l]] > 0
    BY <1>5, <1>7 DEF AmountsAreOfLegs, NoCall
  <2>1. MeasuresOf[l] \subseteq Measures /\ Sure[l] \in Measures
    BY TheKinds
  <2>2. CASE l = layer
    <3>1. served'.by[l] # {}
      BY <1>3, <1>5, <2>2 DEF CallIsServed
    <3>2. meter'.usage[Sure[l]] > 0
      BY <1>8, <1>9, <1>10, <2>1, <2>2
    <3> QED
      BY <3>1, <3>2
  <2>3. CASE l # layer
    <3>1. served'.by[l] = served.by[l]
      BY <1>3, <1>5, <2>3 DEF CallIsServed
    <3>2. \A k \in MeasuresOf[l] : k \notin MeasuresOf[layer]
      BY <2>3, TheKinds
    <3>3. Sure[l] \in MeasuresOf[l]
      BY TheKinds
    <3>4. \A k \in MeasuresOf[l] : meter'.usage[k] = meter.usage[k]
      BY <1>8, <1>9, <1>10, <2>1, <3>2
    <3>5. /\ served.by[l] = {} => \A k \in MeasuresOf[l] : meter.usage[k] = 0
          /\ served.by[l] # {} => meter.usage[Sure[l]] > 0
      BY <1>3 DEF AmountsAreOfLegs, MeteringInv
    <3> QED
      BY <3>1, <3>3, <3>4, <3>5
  <2> QED
    BY <2>2, <2>3
<1> QED
  BY <1>2, <1>4, <1>7, <1>11, <1>12 DEF MeteringInv

LEMMA ShutdownKeeps == MeteringInv /\ Shutdown => MeteringInv'
<1> SUFFICES ASSUME MeteringInv, Shutdown PROVE MeteringInv'
  OBVIOUS
<1>1. /\ served.at = "up" /\ served' = [served EXCEPT !.at = "over"]
      /\ written' = [at |-> "row", usage |-> meter.usage, models |-> Models(served.plan),
                     providers |-> served.names]
      /\ UNCHANGED <<config, meter, bill>>
  BY DEF Shutdown
<1>2. served # NoCall /\ CallIsServed
  BY <1>1 DEF MeteringInv, NoCall
<1>3. written = NoCall /\ bill = Unread
  BY <1>1 DEF MeteringInv
<1>4. /\ DOMAIN served' = {"at", "plan", "by", "names", "legs"} /\ served'.at = "over"
      /\ served'.plan = served.plan /\ served'.by = served.by
      /\ served'.names = served.names /\ served'.legs = served.legs
  BY <1>1, <1>2 DEF CallIsServed
<1>5. CallIsServed'
  BY <1>2, <1>4 DEF CallIsServed
<1>6. served' # NoCall
  BY <1>4 DEF NoCall
<1>7. AmountsAreOfLegs'
  BY <1>1, <1>2, <1>4, <1>6 DEF AmountsAreOfLegs, MeteringInv
<1>8. written' = [at |-> "row", usage |-> meter'.usage, models |-> Models(served'.plan),
                  providers |-> served'.names]
  BY <1>1, <1>4
<1> QED
  BY <1>1, <1>3, <1>4, <1>5, <1>6, <1>7, <1>8 DEF MeteringInv

LEMMA MeteringStep == MeteringInv /\ [MeteringNext]_mvars => MeteringInv'
<1> SUFFICES ASSUME MeteringInv, [MeteringNext]_mvars PROVE MeteringInv'
  OBVIOUS
<1>1. CASE Begin
  BY <1>1, BeginKeeps
<1>2. CASE \E layer \in Layers : Metric(layer)
  BY <1>2, MetricKeeps
<1>3. CASE EditCampaign
  <2>1. config' \in Plans /\ UNCHANGED <<served, meter, written, bill>>
    BY <1>3 DEF EditCampaign
  <2> QED
    BY <2>1 DEF MeteringInv, CallIsServed, AmountsAreOfLegs
<1>4. CASE Shutdown
  BY <1>4, ShutdownKeeps
<1>5. CASE ReadBill
  <2>1. written.at = "row" /\ UNCHANGED <<config, served, meter, written>>
        /\ \E rates \in Tables, fx \in BOOLEAN : bill' = PriceCall(written, rates, fx)
    BY <1>5 DEF ReadBill
  <2>2. written # NoCall
    BY <2>1 DEF NoCall
  <2> QED
    BY <2>1, <2>2 DEF MeteringInv, CallIsServed, AmountsAreOfLegs
<1>6. CASE UNCHANGED mvars
  BY <1>6 DEF mvars, MeteringInv, CallIsServed, AmountsAreOfLegs
<1> QED
  BY <1>1, <1>2, <1>3, <1>4, <1>5, <1>6 DEF MeteringNext

(* What a call meters is what its legs reported, and its row says which of *)
(* them served it (_on_metrics, voice_agent.py:2656, _shutdown, :2868).    *)
THEOREM MeteringInductive == MeteringSpec => []MeteringInv
  BY MeteringStart, MeteringStep, PTL DEF MeteringSpec

(* A layer is charged at the rate of a provider that served it in this     *)
(* call, one without a rate is named, and no token is charged twice,       *)
(* whatever the tables, plans and keys are (pick_rate, costing.py:77,      *)
(* price_call, :140).                                                      *)
THEOREM CostsAreOfWhatRan == MeteringSpec => []CostIsOfWhatRan
  BY MeteringInductive, CostHolds, PTL

=============================================================================
