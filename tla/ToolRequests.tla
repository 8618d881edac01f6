---------------------------- MODULE ToolRequests ----------------------------
(***************************************************************************)
(* One lookup of a campaign's tool: what is sent, what the model is told,  *)
(* what is kept of it (agent/tools.py, run), and what the console's test   *)
(* of the same tool shows (routers/tools.py, test_tool).  A tool has one   *)
(* parameter.  Bodies are told apart by what can be read out of them.  The *)
(* refusal of private addresses is off, as it is unless a server sets it.  *)
(***************************************************************************)
CONSTANT Unset  \* no path, no status, no error, no key, nothing said

(* What a caller dictated, as the recogniser wrote it: the digits asked    *)
(* for, the same in another shape, no digit at all, or nothing.            *)
Dictated == {"246747", "2467.47", "none of them", ""}

Outcomes == {"timeout", "refused", "200", "302", "404"}
Bodies == {"json", "json without the field", "long json", "text", ""}

(* External: the endpoint, which knows digits only, and where it sends     *)
(* those it redirects to.                                                  *)
Reply(api, value) ==
  IF api.outcome = "200" /\ value # "246747" THEN [status |-> "404", body |-> "text"]
  ELSE [status |-> api.outcome, body |-> api.body]
Redirected(reply) == IF reply.status = "302" THEN [status |-> "200", body |-> "json"] ELSE reply

ASSUME RequestsAssumption == Unset \notin Outcomes \cup Bodies

-----------------------------------------------------------------------------
(* normalise: only a parameter of digits, and only if digits are left.     *)
Normalise(tool, value) == IF tool.digits /\ value = "2467.47" THEN "246747" ELSE value

(* toolfmt.fill: what is missing is empty.  _idempotency_key: of the call, *)
(* the tool and the arguments.                                             *)
Request(tool, value, call) ==
  [url |-> value, auth |-> tool.auth,
   key |-> IF tool.method # "GET" /\ call # Unset THEN <<call, value>> ELSE Unset]

(* toolfmt.extract and what is made of it; a body cut off at the limit is  *)
(* not JSON.                                                               *)
FieldOf(tool, body) ==
  IF body \in {"", "text", "long json"} \/ tool.path = Unset THEN body
  ELSE IF body = "json" THEN "the field" ELSE "null"

(* what_to_say                                                             *)
WhatToSay(tool, key) ==
  IF key \in tool.worded THEN <<"campaign", key>>
  ELSE IF "default" \in tool.worded THEN <<"campaign", "default">>
  ELSE <<"built-in", key>>

Failed(reply) == reply.status \notin {"200", "302"}

(* Mutant of RecordOf: an error's body is thrown away too.                 *)
RecordOfAsked(tool, reply) ==
  [status |-> IF reply.status \in {"timeout", "refused"} THEN Unset ELSE reply.status,
   error |-> IF reply.status \in {"timeout", "refused"} THEN reply.status ELSE Unset,
   response |-> IF tool.keep /\ reply.status \notin {"timeout", "refused"} THEN reply.body ELSE Unset]

(* done: a body is kept if the campaign asked for it, an error's always.   *)
RecordOf(tool, reply) ==
  LET none == (reply.status \in {"timeout", "refused"}) IN
  [status |-> IF none THEN Unset ELSE reply.status,
   error |-> IF none THEN reply.status ELSE Unset,
   response |-> IF ~none /\ (tool.keep \/ Failed(reply)) THEN reply.body ELSE Unset]

(* run: redirects are not followed.                                        *)
Run(tool, value, api, call) ==
  LET sent == Normalise(tool, value)
      reply == Reply(api, sent)
      text == FieldOf(tool, reply.body)
  IN [request |-> Request(tool, sent, call),
      record |-> RecordOf(tool, reply),
      gap |-> Failed(reply),
      failed |-> Failed(reply),
      told |-> IF reply.status = "refused" THEN <<"built-in", "refused">>
               ELSE IF Failed(reply) THEN WhatToSay(tool, reply.status)
               ELSE IF text = "" THEN <<"built-in", "no data">>
               ELSE <<"body", text>>]

(* test_tool: the same filling and picking, by urllib, which follows       *)
(* redirects; a path that finds nothing is said.                           *)
TestTool(tool, value, api) ==
  LET reply == Redirected(Reply(api, value))
      text == FieldOf(tool, reply.body)
  IN [request |-> Request(tool, value, Unset),
      ok |-> reply.status = "200",
      shown |-> IF reply.status \in {"timeout", "refused"} \/ text = "" THEN Unset
                ELSE IF text = "null" THEN <<"note", "the model would get the whole body">>
                ELSE <<"body", text>>]

-----------------------------------------------------------------------------
(* Digits reach the endpoint however they were dictated, in a request that *)
(* the endpoint can tell for the same one; whoever got no answer is told   *)
(* so, in the campaign's words if it has some for that, and the lookup is  *)
(* on the page of gaps; and what is kept says what went wrong, but no      *)
(* answer a campaign did not ask to keep (run, tools.py:266, normalise,    *)
(* :237, done, :293).                                                      *)
LookupIsAnswered(tool, value, api, call, ran) ==
  /\ tool.digits /\ value = "2467.47" => ran.request = Run(tool, "246747", api, call).request
  /\ ran.failed <=> ran.gap
  /\ ran.failed => ran.told[1] # "body" /\ (ran.record.error # Unset \/ ran.record.response # Unset)
  /\ ran.failed /\ ran.record.error # "refused" /\ tool.worded # {} =>
       ran.told[1] = "campaign" \/ "default" \notin tool.worded
  /\ ~tool.keep /\ ~ran.failed => ran.record.response = Unset

(* What the test shows is what the model is told, and a test that passes   *)
(* is of a tool that works, but for a value that is normalised, a redirect *)
(* and a path that finds nothing (test_tool, routers/tools.py:252).        *)
TestIsTrue(tool, value, api, ran, test) ==
  /\ value = Normalise(tool, value) /\ api.outcome # "302" => (test.ok <=> ~ran.failed)
  /\ test.ok /\ api.outcome # "302" /\ test.shown # Unset /\ test.shown[1] = "body" =>
       ran.told = test.shown
=============================================================================
