------------------------------ MODULE Alerting ------------------------------
(***************************************************************************)
(* The alert rules of one tenant.  An evaluation reads the watching rules   *)
(* once, with `firing` and the webhook as they are then, and goes through  *)
(* them one by one: what was read is acted on later, a statement at a      *)
(* time.  The console's timer runs one evaluation after another; a person  *)
(* may run one beside it, and edit the rules under either.                 *)
(*                                                                         *)
(* What a rule measures is its truth: in breach, clear, or thin, when      *)
(* there are too few calls to judge.                                       *)
(***************************************************************************)
EXTENDS Naturals, Sequences

CONSTANTS
  Rules,
  Runs,        \* the evaluations that may be under way at once
  Timer,       \* the one of run_forever
  NoAlert,
  MaxEvents,   \* bound: changes of the truth, edits, runs by hand
  MaxMishaps   \* bound: evaluations that raise or are cut short

ASSUME AlertingAssumption ==
  /\ Timer \in Runs
  /\ NoAlert \notin Nat
  /\ {MaxEvents, MaxMishaps} \subseteq Nat

VARIABLES
  truth,      \* what a rule would measure now
  watching,   \* alert_rules.enabled
  firing,     \* alert_rules.firing
  suspended,  \* the tenant's status
  webhook,    \* whether the tenant has one
  alerts,     \* the table alerts: rule and delivery
  run,        \* the evaluations
  events, mishaps,
  raised,     \* history: alerts of a rule since it was last re-armed
  raced,      \* history: rules two hands were on since
  orphans     \* history: alerts whose evaluation was cut short

avars == <<truth, watching, firing, suspended, webhook, alerts, run, events,
           mishaps, raised, raced, orphans>>

world == <<truth, watching, suspended, webhook, events>>

Truths == {"breach", "clear", "thin"}
Idle == [pc |-> "idle", todo |-> {}, fired |-> {}, hook |-> FALSE,
         rule |-> {}, alert |-> NoAlert]

AlertingInit ==
  /\ truth = [r \in Rules |-> "clear"]
  /\ watching = [r \in Rules |-> TRUE]
  /\ firing = [r \in Rules |-> FALSE]
  /\ suspended = FALSE /\ webhook \in BOOLEAN
  /\ alerts = <<>>
  /\ run = [e \in Runs |-> Idle]
  /\ events = 0 /\ mishaps = 0
  /\ raised = [r \in Rules |-> 0]
  /\ raced = {} /\ orphans = {}

Busy(e) == run[e].pc # "idle"
(* What e read of r it may still act on. *)
Holds(e, r) == r \in run[e].todo \cup run[e].rule
Step(e, s) == run' = [run EXCEPT ![e] = s]
Happens == events < MaxEvents /\ events' = events + 1

-----------------------------------------------------------------------------
(* evaluate_once *)

Watched == {r \in Rules : watching[r] /\ ~suspended}

Begin(e) ==
  /\ ~Busy(e)
  /\ IF e = Timer THEN UNCHANGED events ELSE Happens
  /\ Step(e, [Idle EXCEPT !.pc = "next", !.todo = Watched, !.hook = webhook,
                          !.fired = {r \in Watched : firing[r]}])
  /\ raced' = raced \cup {r \in Watched : \E d \in Runs \ {e} : Holds(d, r)}
  /\ UNCHANGED <<truth, watching, firing, suspended, webhook, alerts, mishaps,
                 raised, orphans>>

(* Mutant of Judged: `firing` is asked the wrong way round. *)
JudgedInverted(e, r) ==
  IF truth[r] = "breach" THEN IF r \in run[e].fired THEN "insert" ELSE "next"
  ELSE "next"

(* Reported once, a rule stays quiet until it clears; clear or too thin to *)
(* judge, it is re-armed if it was firing.                                 *)
Judged(e, r) ==
  CASE truth[r] = "breach" /\ r \notin run[e].fired -> "insert"
    [] truth[r] # "breach" /\ r \in run[e].fired -> "rearm"
    [] OTHER -> "next"

Evaluate(e, r) ==
  /\ run[e].pc = "next" /\ r \in run[e].todo
  /\ Step(e, [run[e] EXCEPT !.todo = @ \ {r}, !.pc = Judged(e, r),
                !.rule = IF Judged(e, r) = "next" THEN {} ELSE {r}])
  /\ UNCHANGED <<world, firing, alerts, mishaps, raised, raced, orphans>>

(* A query that raises is logged, and the next rule taken. *)
EvaluateRaises(e, r) ==
  /\ run[e].pc = "next" /\ r \in run[e].todo
  /\ mishaps < MaxMishaps /\ mishaps' = mishaps + 1
  /\ Step(e, [run[e] EXCEPT !.todo = @ \ {r}])
  /\ UNCHANGED <<world, firing, alerts, raised, raced, orphans>>

Onward(e) == [run[e] EXCEPT !.pc = "next", !.rule = {}, !.alert = NoAlert]

(* The rules a hand sets anew while another hand is on them. *)
Shared(S, e) == {r \in S : \E d \in Runs \ {e} : Holds(d, r)}

(* Mutant of Cleared: firing is left set. *)
ClearedNot(R) == firing

Cleared(R) == [r \in Rules |-> IF r \in R THEN FALSE ELSE firing[r]]

Rearm(e) ==
  LET R == run[e].rule IN
  /\ run[e].pc = "rearm"
  /\ firing' = Cleared(R)
  /\ raised' = [r \in Rules |-> IF r \in R THEN 0 ELSE raised[r]]
  /\ raced' = (raced \ R) \cup Shared(R, e)
  /\ Step(e, Onward(e))
  /\ UNCHANGED <<world, alerts, mishaps, orphans>>

Raise(e) ==
  LET R == run[e].rule IN
  /\ run[e].pc = "insert"
  /\ alerts' = Append(alerts, [rule |-> R, delivery |-> "pending"])
  /\ raised' = [r \in Rules |-> IF r \in R THEN raised[r] + 1 ELSE raised[r]]
  /\ Step(e, [run[e] EXCEPT !.pc = "mark", !.alert = Len(alerts) + 1])
  /\ UNCHANGED <<world, firing, mishaps, raced, orphans>>

Mark(e) ==
  /\ run[e].pc = "mark"
  /\ firing' = [r \in Rules |-> r \in run[e].rule \/ firing[r]]
  /\ Step(e, [run[e] EXCEPT !.pc = "deliver", !.rule = {}])
  /\ UNCHANGED <<world, alerts, mishaps, raised, raced, orphans>>

(* _deliver: to the webhook as it was when the rules were read. *)
Outcomes(e) == IF run[e].hook THEN {"sent", "failed"} ELSE {"skipped"}

SendAlert(e) ==
  /\ run[e].pc = "deliver"
  /\ \E d \in Outcomes(e) :
       alerts' = [alerts EXCEPT ![run[e].alert].delivery = d]
  /\ Step(e, Onward(e))
  /\ UNCHANGED <<world, firing, mishaps, raised, raced, orphans>>

End(e) ==
  /\ run[e].pc = "next" /\ run[e].todo = {}
  /\ Step(e, Idle)
  /\ UNCHANGED <<world, firing, alerts, mishaps, raised, raced, orphans>>

(* A statement fails, which ends the evaluation, or the console restarts. *)
Cut(e) ==
  /\ Busy(e) /\ mishaps < MaxMishaps /\ mishaps' = mishaps + 1
  /\ raced' = raced \cup IF run[e].pc = "mark" THEN run[e].rule ELSE {}
  /\ orphans' = orphans \cup ({run[e].alert} \ {NoAlert})
  /\ Step(e, Idle)
  /\ UNCHANGED <<world, firing, alerts, raised>>

-----------------------------------------------------------------------------
(* The calls, and people. *)

Change(r) ==
  /\ Happens
  /\ \E v \in Truths \ {truth[r]} : truth' = [truth EXCEPT ![r] = v]
  /\ UNCHANGED <<watching, firing, suspended, webhook, alerts, run, mishaps,
                 raised, raced, orphans>>

(* update_rule: any edit re-arms the rule. *)
UpdateRule(r) ==
  /\ Happens
  /\ \E v \in BOOLEAN : watching' = [watching EXCEPT ![r] = v]
  /\ \E v \in Truths : truth' = [truth EXCEPT ![r] = v]
  /\ firing' = Cleared({r})
  /\ raised' = [raised EXCEPT ![r] = 0]
  /\ raced' = IF \E e \in Runs : Holds(e, r) THEN raced \cup {r} ELSE raced \ {r}
  /\ UNCHANGED <<suspended, webhook, alerts, run, mishaps, orphans>>

SetWebhook ==
  /\ Happens
  /\ webhook' = ~webhook
  /\ UNCHANGED <<truth, watching, firing, suspended, alerts, run, mishaps,
                 raised, raced, orphans>>

(* update_tenant: the rules of a suspended tenant are left as they are. *)
Suspend ==
  /\ Happens
  /\ suspended' = ~suspended
  /\ UNCHANGED <<truth, watching, firing, webhook, alerts, run, mishaps, raised,
                 raced, orphans>>

Proceed(e) ==
  \/ \E r \in Rules : Evaluate(e, r) \/ EvaluateRaises(e, r)
  \/ Rearm(e) \/ Raise(e) \/ Mark(e) \/ SendAlert(e) \/ End(e)

AlertingNext ==
  \/ \E e \in Runs : Begin(e) \/ Proceed(e) \/ Cut(e)
  \/ \E r \in Rules : Change(r) \/ UpdateRule(r)
  \/ SetWebhook \/ Suspend

AlertingSpec == AlertingInit /\ [][AlertingNext]_avars

-----------------------------------------------------------------------------
(* One breach is one alert: until a rule is re-armed it raises no second   *)
(* one, unless two evaluations overlapped on it, it was edited under one,  *)
(* or one was cut short between the alert and `firing`.                    *)
OneAlertPerBreach == \A r \in Rules : r \notin raced => raised[r] <= 1

(* A rule that is kept quiet has been reported since it was last re-armed, *)
(* with the same exceptions: a breach after an edit is not swallowed.      *)
QuietIsReported == \A r \in Rules : firing[r] /\ r \notin raced => raised[r] >= 1

(* A breach and its alert come together: one for one (evaluate_once,       *)
(* alerting.py:308).                                                       *)
AlertsMatchBreaches == OneAlertPerBreach /\ QuietIsReported

(* Why they come together: what an evaluation is about to do to a rule     *)
(* agrees with what the rule shows, as long as no other hand is on it.     *)
Evaluations == [pc : {"idle", "next", "insert", "mark", "rearm", "deliver"},
                todo : SUBSET Rules, fired : SUBSET Rules, hook : BOOLEAN,
                rule : SUBSET Rules, alert : Nat \cup {NoAlert}]

RunsOK ==
  /\ run \in [Runs -> Evaluations]
  /\ \A e \in Runs :
       /\ run[e].todo \cap run[e].rule = {}
       /\ run[e].pc = "idle" => run[e].todo = {}
       /\ run[e].pc \in {"idle", "next", "deliver"} => run[e].rule = {}

(* Two hands are never on one rule without a race. *)
OneHand ==
  \A r \in Rules \ raced : \A d, e \in Runs : Holds(d, r) /\ Holds(e, r) => d = e

ReadAsIs ==
  \A r \in Rules \ raced : \A e \in Runs :
    r \in run[e].todo => (r \in run[e].fired <=> firing[r])

(* Between the alert and `firing`. *)
Unmarked(r) == \E e \in Runs : run[e].pc = "mark" /\ r \in run[e].rule

Shown(r) ==
  /\ raised[r] = IF firing[r] \/ Unmarked(r) THEN 1 ELSE 0
  /\ \A e \in Runs : run[e].pc = "insert" /\ r \in run[e].rule => raised[r] = 0

Reported == \A r \in Rules \ raced : Shown(r)

AlertingInv ==
  /\ firing \in [Rules -> BOOLEAN]
  /\ raised \in [Rules -> Nat]
  /\ webhook \in BOOLEAN
  /\ alerts \in Seq([rule : SUBSET Rules,
                     delivery : {"pending", "sent", "failed", "skipped"}])
  /\ RunsOK /\ OneHand /\ ReadAsIs /\ Reported

(* A breach that lasts, of a rule that is watched, is reported and stays   *)
(* so, whatever was cut short, raised, edited or run by hand before.       *)
LastingBreachFires ==
  \A r \in Rules : <>[](r \in Watched /\ truth[r] = "breach") => <>[]firing[r]

=============================================================================
