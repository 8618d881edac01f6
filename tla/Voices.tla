------------------------------- MODULE Voices -------------------------------
(***************************************************************************)
(* How a reply reaches a caller's ear.  A voice that does not stream is    *)
(* sent requests: a reply is cut at the end of a sentence or a clause, as  *)
(* early as that is worth a request, while the model is still writing      *)
(* (clause_tokenizer.py).  The audio of a voice that does stream arrives   *)
(* in pieces: Raya's and Gemini's as events, one to a line, Kokoro's as    *)
(* samples (raya_tts.py, gemini_tts.py, kokoro_tts.py, _run).              *)
(*                                                                         *)
(* A text is a sequence of characters, a stream one of bytes; those that   *)
(* are none of the four named below are bytes of audio.                    *)
(***************************************************************************)
EXTENDS Naturals, FiniteSets, SequencesExt

CONSTANTS
  Hard, Soft,   \* characters that end a sentence, that end a clause
  Digits, Blank,
  Least,        \* DEFAULT_MIN_LEN
  Newline,
  DataTag,      \* "data:" at the head of a line
  Noise,        \* what makes a line unreadable as JSON
  NextPart,     \* the boundary of two parts of one Gemini object
  Width         \* the bytes of a sample: 4 of Raya's, whose samples are floats

-----------------------------------------------------------------------------
(* str.strip                                                               *)
Strip(text) ==
  LET ink == {i \in DOMAIN text : text[i] # Blank}
  IN IF ink = {} THEN <<>>
     ELSE SubSeq(text, CHOOSE i \in ink : \A j \in ink : i <= j,
                       CHOOSE i \in ink : \A j \in ink : j <= i)

(* A mark between digits has no blank after it either.                     *)
MayBreak(text, i) ==
  \/ text[i] \in Hard
  \/ text[i] \in Soft /\ (i = Len(text) \/ text[i + 1] = Blank)

(* split_clauses: what is too short to go alone goes with the next.        *)
SplitClauses(text) ==
  LET Look(cut, i) ==
        LET chunk == Strip(SubSeq(text, cut.to + 1, i)) IN
        IF MayBreak(text, i) /\ Len(chunk) >= Least
        THEN [chunks |-> Append(cut.chunks, [said |-> chunk, to |-> i]), to |-> i]
        ELSE cut
      cut == FoldLeft(Look, [chunks |-> <<>>, to |-> 0], [i \in DOMAIN text |-> i])
      tail == Strip(SubSeq(text, cut.to + 1, Len(text)))
  IN IF tail = <<>> THEN cut.chunks
     ELSE Append(cut.chunks, [said |-> tail, to |-> Len(text)])

(* External: livekit's BufferedSentenceStream.  The last chunk may still   *)
(* grow and waits; what is left in the end is one request.                 *)
Push(stream, piece) ==
  LET text == stream.left \o piece
      chunks == SplitClauses(text)
      whole == Len(chunks) - 1
      Sent(k) == [chunks[k] EXCEPT !.to = @ + stream.at]
  IN IF whole < 1 THEN [stream EXCEPT !.left = text]
     ELSE [sent |-> stream.sent \o [k \in 1 .. whole |-> Sent(k)],
           at |-> stream.at + chunks[whole].to,
           left |-> SubSeq(text, chunks[whole].to + 1, Len(text))]

Requests(pieces) ==
  LET last == FoldLeft(Push, [sent |-> <<>>, at |-> 0, left |-> <<>>], pieces)
  IN [sent |-> last.sent, rest |-> Strip(last.left)]

-----------------------------------------------------------------------------
(* The lines that end within a text, and what is left behind the last end. *)
LinesOf(text) ==
  LET ends == SetToSortSeq({i \in DOMAIN text : text[i] = Newline}, <)
  IN [k \in DOMAIN ends |->
        SubSeq(text, IF k = 1 THEN 1 ELSE ends[k - 1] + 1, ends[k] - 1)]
Remainder(text) ==
  SubSeq(text, 1 + Len(FlattenSeq(LinesOf(text))) + Len(LinesOf(text)), Len(text))

(* A line that is an event, and the bytes of audio in each of its parts.   *)
Readable(line) ==
  /\ line # <<>> /\ line[1] = DataTag
  /\ \A i \in DOMAIN line : line[i] # Noise
PartsOf(line) ==
  LET body == Append(Tail(line), NextPart)
      ends == SetToSortSeq({i \in DOMAIN body : body[i] = NextPart}, <)
  IN [k \in DOMAIN ends |->
        SubSeq(body, IF k = 1 THEN 1 ELSE ends[k - 1] + 1, ends[k] - 1)]

(* The bytes of the whole samples of some.                                *)
Whole(bytes) == Width * (Len(bytes) \div Width)

(* Mutant of HeardByRaya: half a sample at the end of an event is dropped. *)
DroppedByRaya(r, line) ==
  LET data == IF Readable(line) THEN FlattenSeq(PartsOf(line)) ELSE <<>>
      whole == Whole(data)
  IN IF whole = 0 THEN r
     ELSE [r EXCEPT !.pushed = Append(@, SubSeq(data, 1, whole))]

(* One event of Raya's; what does not make a sample is carried over.       *)
HeardByRaya(r, line) ==
  LET carry == r.carry \o (IF Readable(line) THEN FlattenSeq(PartsOf(line)) ELSE <<>>)
      whole == Whole(carry)
  IN IF whole = 0 THEN [r EXCEPT !.carry = carry]
     ELSE [pushed |-> Append(r.pushed, SubSeq(carry, 1, whole)),
           carry |-> SubSeq(carry, whole + 1, Len(carry))]

(* audio_of: the first part that has any.                                  *)
AudioOf(line) ==
  LET loud == {k \in DOMAIN PartsOf(line) : PartsOf(line)[k] # <<>>}
  IN IF loud = {} THEN <<>> ELSE PartsOf(line)[CHOOSE k \in loud : \A j \in loud : k <= j]

HeardByGemini(r, line) ==
  IF ~Readable(line) \/ AudioOf(line) = <<>> THEN r
  ELSE [r EXCEPT !.pushed = Append(@, AudioOf(line))]

(* A piece from the network: the lines it completes are read.              *)
Received(voice, s, piece) ==
  LET text == s.buf \o piece
      Heard(r, line) == IF voice = "raya" THEN HeardByRaya(r, line) ELSE HeardByGemini(r, line)
  IN [buf |-> Remainder(text), heard |-> FoldLeft(Heard, s.heard, LinesOf(text))]

Silence == [pushed |-> <<>>, carry |-> <<>>]
ByLines(voice, pieces) ==
  FoldLeft(LAMBDA s, piece : Received(voice, s, piece), [buf |-> <<>>, heard |-> Silence], pieces).heard

(* A stream that ends without a sound is an error that says so; Kokoro's   *)
(* is the emitter's.  One that breaks off is an error whatever was heard.  *)
Outcome(status, whole, pushed) ==
  CASE status # 200 -> "refused"
    [] ~whole -> "broken"
    [] pushed = <<>> -> "silent"
    [] OTHER -> "spoken"

Spoken(voice, status, pieces, whole) ==
  LET pushed ==
        CASE status # 200 -> <<>>
          [] voice \in {"raya", "gemini"} -> ByLines(voice, pieces).pushed
          [] OTHER -> pieces
  IN [pushed |-> pushed, outcome |-> Outcome(status, whole, pushed)]

-----------------------------------------------------------------------------
Ink(text) == SelectSeq(text, LAMBDA c : c # Blank)

(* A cut behind position i parts a number or a time.                       *)
CutsNumber(text, i) ==
  /\ i \in 2 .. Len(text) - 1 /\ text[i] \in Soft
  /\ text[i - 1] \in Digits /\ text[i + 1] \in Digits

(* The requests say the text, each but the last is worth one, and no       *)
(* number with a mark in it is said as two.                                *)
SaysAll(text, requests) ==
  /\ Ink(FlattenSeq([k \in DOMAIN requests.sent |-> requests.sent[k].said]) \o requests.rest) = Ink(text)
  /\ \A k \in DOMAIN requests.sent :
       Len(requests.sent[k].said) >= Least /\ ~CutsNumber(text, requests.sent[k].to)

(* What a stream has to say.                                               *)
Sounds(voice, wire) ==
  IF voice = "kokoro" THEN wire
  ELSE LET events == SelectSeq(LinesOf(wire), Readable) IN
       FlattenSeq([k \in DOMAIN events |->
         IF voice = "raya" THEN FlattenSeq(PartsOf(events[k])) ELSE AudioOf(events[k])])

(* However the stream is cut, the caller hears its audio, all of it and in *)
(* order, but for half a sample at the end; of a stream that breaks off,   *)
(* the beginning, and the break is reported; and no silence passes for     *)
(* speech.  An event whose line does not end is not heard, nor a second    *)
(* part of one of Gemini's.                                                *)
StreamIsHeard(voice, wire, status, whole, spoken) ==
  LET heard == FlattenSeq(spoken.pushed)
      sounds == IF status = 200 THEN Sounds(voice, wire) ELSE <<>>
  IN /\ IsPrefix(heard, sounds)
     /\ whole => Len(sounds) - Len(heard) < (IF voice = "raya" THEN Width ELSE 1)
     /\ voice = "raya" => \A k \in DOMAIN spoken.pushed : Len(spoken.pushed[k]) % Width = 0
     /\ spoken.outcome = "spoken" <=> status = 200 /\ whole /\ heard # <<>>
=============================================================================
