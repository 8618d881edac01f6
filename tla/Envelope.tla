------------------------------ MODULE Envelope ------------------------------
(***************************************************************************)
(* What a call's report says: the fields a campaign configured, out of     *)
(* what the model read in the conversation and what the dialler had sent,  *)
(* and the envelope around them.  A name is a sequence of its parts:       *)
(* "dialer.lead_id" is <<"dialer", "lead_id">>, a blank one is empty.      *)
(***************************************************************************)
EXTENDS Integers, Sequences, SequencesExt, FiniteSets

CONSTANTS
  Numerals,     \* raw values that int() or float() read
  NotFinite,    \* those of them that JSON has no number for
  Truths,       \* raw values that mean a yes or a no
  TurnLimit,    \* transcript_text: the turns the extraction is shown
  ToolLimit,    \* tool_text: what the answers of tools may take up
  Null

(* k.split(".", 1)[-1]                                                     *)
Bare(name) == IF Len(name) > 1 THEN Tail(name) ELSE name

IsDialler(f) == f.source = "dialler"
Keyed(fields) == {f \in ToSet(fields) : f.key # <<>>}

(* build_schema: what the model is asked for.                              *)
Schema(fields) == {f.key : f \in {f \in Keyed(fields) : ~IsDialler(f)}}

Coerce(raw, kind) ==
  CASE raw = Null -> Null
    [] raw # Null /\ kind = "number" /\ raw \in Numerals -> [is |-> "number", of |-> raw]
    [] raw # Null /\ kind = "boolean" /\ raw \in Truths -> [is |-> "boolean", of |-> raw]
    [] OTHER -> [is |-> "string", of |-> raw]

(* dialler: a function of the names the call came with.                    *)
SentAs(dialler, name) ==
  IF name \in DOMAIN dialler THEN dialler[name]
  ELSE LET flat == {n \in DOMAIN dialler : Bare(n) = Bare(name)}
       IN IF flat = {} THEN Null ELSE dialler[CHOOSE n \in flat : TRUE]

Source(f) == IF f.from = <<>> THEN f.key ELSE f.from

(* from_dialler: of two fields with one key the later counts.              *)
FromDialler(fields, dialler) ==
  LET Mine(i) == fields[i].key # <<>> /\ IsDialler(fields[i])
      mine == {i \in DOMAIN fields : Mine(i)}
      LastOf(k) == CHOOSE i \in mine : fields[i].key = k /\ \A j \in mine : fields[j].key = k => j <= i
  IN [k \in {fields[i].key : i \in mine} |->
        Coerce(SentAs(dialler, Source(fields[LastOf(k)])), fields[LastOf(k)].kind)]

-----------------------------------------------------------------------------
NonBlank(turns) == SelectSeq(turns, LAMBDA t : t # "")

(* The newest turns, without those in which nothing is written.            *)
Transcript(turns) ==
  NonBlank(SubSeq(turns, IF Len(turns) > TurnLimit THEN Len(turns) - TurnLimit + 1 ELSE 1, Len(turns)))

(* The answers of tools, up to the first that no longer fits.              *)
ToolText(kept) ==
  LET Upto(n) == FoldLeft(LAMBDA sum, t : sum + t.size, 0, SubSeq(kept, 1, n))
      fits == {n \in 0 .. Len(kept) : \A m \in 1 .. n : Upto(m) <= ToolLimit}
  IN SubSeq(kept, 1, CHOOSE n \in fits : \A m \in fits : m <= n)

(* What the model is sent, or nothing if there is nothing to ask or read.  *)
Asks(report) == Schema(report.fields) # {} /\ Transcript(report.turns) # <<>>

(* What the answer says of a key; an empty text is as good as none.        *)
Read(report, k) ==
  IF Asks(report) /\ report.outcome = "answer" /\ report.said[k] \notin {"", Null}
  THEN [is |-> "read", of |-> report.said[k]] ELSE Null

(* Every key on every path: nothing said, no answer in time, a failure.    *)
Extracted(report) == [k \in Schema(report.fields) |-> Read(report, k)]

(* Mutant: the model's reading is laid over what the dialler sent.         *)
ValuesModelFirst(report) ==
  LET told == FromDialler(report.fields, report.dialler) IN Extracted(report) @@ told
(* _queue_postback: what the dialler sent is laid over it.                 *)
Values(report) ==
  LET told == FromDialler(report.fields, report.dialler)
      read == Extracted(report)
  IN [k \in DOMAIN told \cup DOMAIN read |-> IF k \in DOMAIN told THEN told[k] ELSE read[k]]

(* The flat payload, or the one whose parts say where a value is from.     *)
Payload(report) ==
  IF ~report.full THEN [values |-> Values(report)]
  ELSE [values |-> Values(report),
        dialer |-> {<<Bare(n), report.dialler[n]>> : n \in DOMAIN report.dialler},
        tools |-> report.kept,
        transcript |-> IF report.wanted THEN NonBlank(report.turns) ELSE <<>>]

(* save_postback: a number JSON does not have is refused as a whole.       *)
Queued(report) ==
  \A k \in DOMAIN Values(report) :
    LET v == Values(report)[k] IN v = Null \/ v.is # "number" \/ v.of \notin NotFinite

-----------------------------------------------------------------------------
(* What the dialler sent for a field, with and without our prefix.         *)
SentFor(dialler, f) ==
  {dialler[n] : n \in {n \in DOMAIN dialler : Bare(n) = Bare(Source(f))}}
Only(fields, f) == \A g \in Keyed(fields) : g.key = f.key => g = f

(* Whatever happened to the extraction, a report has each key that was     *)
(* configured and no other (extract, postback.py:313, :338, :344).  What   *)
(* the dialler sent is there as it was sent, as a number or not, and a     *)
(* fact even where the model has read the same key (voice_agent.py:2075),  *)
(* which it is not asked for otherwise (build_schema, :69); the rest is as *)
(* the model read it, or null.                                             *)
KeepsItsShape(report, values) ==
  LET fields == Keyed(report.fields)
      dialled == {f \in fields : IsDialler(f)}
  IN
  /\ DOMAIN values = {f.key : f \in fields}
  /\ \A f \in fields : Only(report.fields, f) => (IsDialler(f) <=> f.key \notin Schema(report.fields))
  /\ \A f \in dialled : (\A g \in dialled : g.key = f.key => g = f) =>
       \/ SentFor(report.dialler, f) = {} /\ values[f.key] = Null
       \/ \E raw \in SentFor(report.dialler, f) : values[f.key] # Null /\ values[f.key].of = raw
  /\ \A f \in fields \ dialled : Only(report.fields, f) => values[f.key] = Read(report, f.key)
=============================================================================
