---------------------------- MODULE MCBackground ----------------------------
(* The two loops that run behind the console, each on small bounds and by  *)
(* itself: a behaviour is one of them.                                     *)
EXTENDS Postback, Alerting
CONSTANTS c1, c2, r1, timer, person

VARIABLE loop
all == <<loop, vars, avars>>

BackgroundInit ==
  /\ Init /\ AlertingInit
  /\ \/ loop = "postback" /\ ~webhook
     \/ loop = "alerts" /\ ~enabled

Posts == loop = "postback" /\ Next /\ UNCHANGED <<loop, avars>>
Alerts == loop = "alerts" /\ AlertingNext /\ UNCHANGED <<loop, vars>>

BackgroundNext == Posts \/ Alerts

(* The loop of the reports never stops, whatever a pass raised; a request  *)
(* ends within its timeout; time passes.  Nothing is assumed of the client.*)
PostsGoOn ==
  /\ WF_all(loop = "postback" /\ SweepRead /\ UNCHANGED <<loop, avars>>)
  /\ WF_all(loop = "postback" /\ Deliver /\ UNCHANGED <<loop, avars>>)
  /\ \A c \in Calls : WF_all(loop = "postback" /\ Ripen(c) /\ UNCHANGED <<loop, avars>>)

(* The timer of the alerts never stops, and an evaluation, begun by it or  *)
(* by a request, goes on.                                                  *)
AlertsGoOn ==
  /\ WF_all(loop = "alerts" /\ Begin(Timer) /\ UNCHANGED <<loop, vars>>)
  /\ \A e \in Runs : WF_all(loop = "alerts" /\ Proceed(e) /\ UNCHANGED <<loop, vars>>)

BackgroundSpec ==
  BackgroundInit /\ [][BackgroundNext]_all /\ PostsGoOn /\ AlertsGoOn
=============================================================================
