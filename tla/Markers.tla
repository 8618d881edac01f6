------------------------------- MODULE Markers -------------------------------
(***************************************************************************)
(* The filter in front of the voice (_tts_frames): a reply streams in      *)
(* pieces, a control marker is taken out wherever it falls, and whatever   *)
(* may yet turn into one is held back.  Texts are sequences of characters, *)
(* markers among them, all in lower case already.                          *)
(***************************************************************************)
EXTENDS Naturals, FiniteSets, SequencesExt

CONSTANTS Marks  \* _markers, in the order they are looked for

Longest == CHOOSE n \in {Len(Marks[k]) : k \in DOMAIN Marks} :
             \A k \in DOMAIN Marks : Len(Marks[k]) <= n

Find(text, mark) ==
  {i \in 1 .. Len(text) - Len(mark) + 1 : SubSeq(text, i, i + Len(mark) - 1) = mark}
First(places) == CHOOSE i \in places : \A j \in places : i <= j
Without(text, mark, i) == SubSeq(text, 1, i - 1) \o SubSeq(text, i + Len(mark), Len(text))

(* One turn of the while loop: the first one there is goes.                *)
Taken(text, mark) ==
  IF Find(text, mark) = {} THEN text ELSE Without(text, mark, First(Find(text, mark)))

(* Mutant of Stripped: an if where the while is.                           *)
StrippedOnce(text, mark) == Taken(text, mark)

(* The while loop over one marker: it takes no more turns than the text    *)
(* has characters, and those after the last one change nothing.            *)
Stripped(text, mark) == FoldLeft(LAMBDA left, c : Taken(left, mark), text, text)

(* The for loop over the markers: the flags it raises, and what is left.   *)
Take(state, mark) ==
  [left |-> Stripped(state.left, mark),
   raised |-> state.raised \cup (IF Find(state.left, mark) = {} THEN {} ELSE {mark})]
TakeAll(text) == FoldLeft(Take, [left |-> text, raised |-> {}], Marks)

(* The longest end of the text that a marker begins with.                  *)
Tails(text) ==
  {n \in 1 .. Len(text) :
     n <= Longest /\ \E k \in DOMAIN Marks : IsPrefix(SubSeq(text, Len(text) - n + 1, Len(text)), Marks[k])}
Held(text) ==
  IF Tails(text) = {} THEN 0
  ELSE CHOOSE n \in Tails(text) : \A m \in Tails(text) : m <= n

Piece(state, chunk) ==
  LET taken == TakeAll(state.held \o chunk)
      keep == Held(taken.left)
      cut == Len(taken.left) - keep
  IN [spoken |-> state.spoken \o SubSeq(taken.left, 1, cut),
      held |-> SubSeq(taken.left, cut + 1, Len(taken.left)),
      raised |-> state.raised \cup taken.raised]

(* filtered: the pieces, then what was held when they ran out.             *)
Filtered(chunks) ==
  LET last == FoldLeft(Piece, [spoken |-> <<>>, held |-> <<>>, raised |-> {}], chunks)
  IN [spoken |-> last.spoken \o last.held, raised |-> last.raised]

-----------------------------------------------------------------------------
(* What the reply says, read at leisure: markers begin and end with        *)
(* characters they hold nowhere else, so two of them never overlap.        *)
Within(text) ==
  {k \in 1 .. Len(text) : \E m \in DOMAIN Marks : \E i \in Find(text, Marks[m]) :
     k \in i .. i + Len(Marks[m]) - 1}
Said(text) ==
  LET kept == {k \in 1 .. Len(text) : k \notin Within(text)}
  IN [n \in 1 .. Cardinality(kept) |->
        text[CHOOSE k \in kept : Cardinality({j \in kept : j < k}) = n - 1]]
Meant(text) == {m \in {Marks[k] : k \in DOMAIN Marks} : Find(text, m) # {}}

(* Taking the markers out leaves none: no marker was wrapped in another.   *)
Plain(text) == Meant(Said(text)) = {}
=============================================================================
