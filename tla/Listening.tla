------------------------------ MODULE Listening ------------------------------
(***************************************************************************)
(* The ceiling on a provisional transcript (_stt_events).  The recogniser  *)
(* sends interim texts of a segment of speech and, when it decides that    *)
(* the caller has stopped, its final; a clock promotes the last interim    *)
(* when that decision is late.  A text is how many words of its segment it *)
(* holds, and two segments may hold the same words.                        *)
(***************************************************************************)
EXTENDS Naturals, Sequences

CONSTANTS
  MaxWords,     \* bound: words in a segment
  MaxSegments,  \* bound: segments in a call
  MaxRepeats,   \* bound: interims that repeat the one before
  MaxQueue,     \* bound: events not read yet
  Ceiling       \* STT_FINAL_CEILING, in readings of the clock

ASSUME ListeningAssumption == {MaxWords, Ceiling} \subseteq Nat

VARIABLES
  segment, words,  \* the recogniser's: the segment it is in, and its text
  repeats,
  queue,           \* the events pump has put there
  pending,         \* pending_interim: its text, or 0
  age,             \* how long ago its words came
  lastText, promoted,
  shown,           \* history: the last interim passed on since a final
  finals           \* history: the finals passed on, or dropped as answered

lvars == <<segment, words, repeats, queue, pending, age, lastText, promoted, shown, finals>>

ListeningInit ==
  /\ segment = 1 /\ words = 0 /\ repeats = 0 /\ queue = <<>>
  /\ pending = 0 /\ age = 0 /\ lastText = 0 /\ promoted = 0
  /\ shown = 0 /\ finals = <<>>

Event(type, n) == [type |-> type, text |-> n, of |-> segment]

(* The recogniser: a segment's words only grow, the final may add some.    *)
Recognise ==
  /\ Len(queue) < MaxQueue /\ segment <= MaxSegments
  /\ \/ \E n \in 1 .. MaxWords :
          /\ n > words \/ (n = words /\ repeats < MaxRepeats)
          /\ queue' = Append(queue, Event("interim", n))
          /\ repeats' = IF n = words THEN repeats + 1 ELSE repeats
          /\ words' = n /\ UNCHANGED segment
     \/ \E n \in 1 .. MaxWords :
          /\ n >= words
          /\ queue' = Append(queue, Event("final", n))
          /\ segment' = segment + 1 /\ words' = 0 /\ UNCHANGED repeats
  /\ UNCHANGED <<pending, age, lastText, promoted, shown, finals>>

Passed(ev) == finals' = Append(finals, [text |-> ev.text, of |-> ev.of, dropped |-> FALSE])
Dropped(ev) == finals' = Append(finals, [text |-> ev.text, of |-> ev.of, dropped |-> TRUE])

TakeInterim(ev) ==
  IF ev.text = promoted
  THEN UNCHANGED <<pending, age, lastText, promoted, shown, finals>>
  ELSE /\ shown' = ev.text
       /\ IF ev.text # lastText
          THEN lastText' = ev.text /\ pending' = ev.text /\ age' = 0
          ELSE UNCHANGED <<lastText, pending, age>>
       /\ UNCHANGED <<promoted, finals>>

(* Mutant: the late final is passed on.                                    *)
TakeFinalAgain(ev) ==
  /\ pending' = 0 /\ lastText' = 0 /\ promoted' = 0 /\ shown' = 0 /\ UNCHANGED age
  /\ Passed(ev)

TakeFinal(ev) ==
  /\ pending' = 0 /\ lastText' = 0 /\ promoted' = 0 /\ shown' = 0 /\ UNCHANGED age
  /\ IF ev.text = promoted THEN Dropped(ev) ELSE Passed(ev)

TakeEvent ==
  /\ queue # <<>>
  /\ IF Head(queue).type = "interim" THEN TakeInterim(Head(queue)) ELSE TakeFinal(Head(queue))
  /\ queue' = Tail(queue)
  /\ UNCHANGED <<segment, words, repeats>>

Clock ==
  /\ pending # 0 /\ age <= Ceiling /\ age' = age + 1
  /\ UNCHANGED <<segment, words, repeats, queue, pending, lastText, promoted, shown, finals>>

(* A tenth of a second with nothing to read: the clock is looked at.       *)
TimeOut ==
  /\ queue = <<>> /\ pending # 0 /\ age > Ceiling
  /\ Passed([text |-> pending, of |-> segment])
  /\ promoted' = pending /\ pending' = 0
  /\ UNCHANGED <<segment, words, repeats, queue, age, lastText, shown>>

ListeningNext == Recognise \/ TakeEvent \/ Clock \/ TimeOut

ListeningSpec == ListeningInit /\ [][ListeningNext]_lvars

-----------------------------------------------------------------------------
Delivered(text, of) == {k \in DOMAIN finals : finals[k].text = text /\ finals[k].of = of
                                              /\ ~finals[k].dropped}

(* A final is dropped exactly if the caller has been answered on the same  *)
(* words of the same segment: nobody is answered twice, and a second "yes" *)
(* is not taken for the late final of the first (voice_agent.py:858, :876).*)
LateFinalsAreDropped ==
  \A k \in DOMAIN finals :
    finals[k].dropped <=> \E j \in Delivered(finals[k].text, finals[k].of) : j < k

(* Words that were shown and not yet called final have the clock running,  *)
(* or were promoted already: no transcript waits on the recogniser alone   *)
(* (voice_agent.py:863).                                                   *)
TheClockRuns == shown \in {0, promoted, pending}

(* What is said is answered once, and nothing waits without a clock        *)
(* (_stt_events, voice_agent.py:767).                                      *)
AnsweredOnceInTime == LateFinalsAreDropped /\ TheClockRuns

-----------------------------------------------------------------------------
(* Why it is.  Events are read in the order of the speech: after the i-th  *)
(* of the queue comes the next, or what the recogniser is at.              *)
Recognised == [type : {"interim", "final"}, text : 1 .. MaxWords, of : Nat]
Final == [text : Nat, of : Nat, dropped : BOOLEAN]
ListeningOK ==
  /\ {segment, words, pending, age, lastText, promoted, shown} \subseteq Nat
  /\ queue \in Seq(Recognised) /\ finals \in Seq(Final)

SegmentAfter(i) == IF i < Len(queue) THEN queue[i + 1].of ELSE segment
TextAfter(i) == IF i < Len(queue) THEN queue[i + 1].text ELSE words

(* A final ends its segment; within one the words only grow.               *)
InOrder ==
  \A i \in DOMAIN queue :
    IF queue[i].type = "final" THEN SegmentAfter(i) = queue[i].of + 1
    ELSE SegmentAfter(i) = queue[i].of /\ TextAfter(i) >= queue[i].text

(* What is still to be read of a segment has no fewer words than what was  *)
(* read of it; of what was passed on of it, promoted has the most.         *)
HeardInOrder ==
  /\ TextAfter(0) >= promoted /\ TextAfter(0) >= pending
  /\ pending # 0 => pending > promoted /\ shown = pending
  /\ lastText = shown
  /\ \A k \in DOMAIN finals :
       /\ finals[k].of <= SegmentAfter(0)
       /\ finals[k].of = SegmentAfter(0) => finals[k].text <= promoted
  /\ promoted # 0 => Delivered(promoted, SegmentAfter(0)) # {}

ListeningInv == ListeningOK /\ InOrder /\ HeardInOrder /\ AnsweredOnceInTime
=============================================================================
