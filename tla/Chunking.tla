------------------------------ MODULE Chunking ------------------------------
(***************************************************************************)
(* How a document becomes chunks (agent/kb.py, chunk_markdown and what it  *)
(* calls).  A document is a sequence of pages, a page a sequence of lines; *)
(* a line has a kind, and tokens or, if a heading, a depth.  Text is the   *)
(* sequence of the places of its lines; its tokens are the sum of theirs.  *)
(***************************************************************************)
EXTENDS Integers, SequencesExt, FiniteSetsExt

CONSTANTS Target, Overlap, MinChunk, HardMax,  \* the four limits of kb.py
          Scrap   \* the tokens of 25 characters: emit drops what has fewer

LineAt(doc, at) == doc[at[1]][at[2]]
Tokens(doc, text) == FoldLeft(LAMBDA sum, at : sum + LineAt(doc, at).tokens, 0, text)

(* Lines put into parts one after another, a new part begun when the next  *)
(* line would take the last over its room.                                 *)
Packed(doc, lines, room) ==
  LET Put(parts, at) ==
        IF parts = <<>> \/ Tokens(doc, Append(Last(parts), at)) > room
        THEN Append(parts, <<at>>)
        ELSE Append(Front(parts), Append(Last(parts), at))
  IN FoldLeft(Put, <<>>, lines)

(* _split_table: the table, or groups of its rows that each carry its head.*)
SplitTable(doc, rows) ==
  LET head == IF Len(rows) > 1 /\ LineAt(doc, rows[2]).kind = "rule" THEN 2 ELSE 1
      groups == Packed(doc, SubSeq(rows, head + 1, Len(rows)),
                       Target - Tokens(doc, SubSeq(rows, 1, head)))
  IN IF rows = <<>> THEN <<>>
     ELSE IF Tokens(doc, rows) <= Target THEN <<rows>>
     ELSE [g \in DOMAIN groups |-> SubSeq(rows, 1, head) \o groups[g]]

(* What chunk_markdown keeps as it reads: the chunks so far, the headings  *)
(* it is under, the blocks not yet emitted, the page, and the table it is  *)
(* in.                                                                     *)
Started == [chunks |-> <<>>, stack |-> <<>>, buf |-> <<>>, page |-> 1, table |-> <<>>]

(* emit                                                                    *)
Emit(doc, s) ==
  LET text == FlattenSeq(s.buf)
  IN IF Tokens(doc, text) < Scrap THEN [s EXCEPT !.buf = <<>>]
     ELSE [s EXCEPT !.buf = <<>>,
             !.chunks = Append(@, [page |-> s.page, heading |-> s.stack, text |-> text])]

Overflows(doc, s, block) ==
  s.buf # <<>> /\ Tokens(doc, FlattenSeq(s.buf) \o block) > Target

(* The last blocks that fit into the overlap.                              *)
Overlapped(doc, buf) ==
  LET from == {n \in 1 .. Len(buf) + 1 :
                 Tokens(doc, FlattenSeq(SubSeq(buf, n, Len(buf)))) <= Overlap}
  IN SubSeq(buf, CHOOSE n \in from : \A m \in from : n <= m, Len(buf))

TakeBlock(doc, s, block) ==
  LET room == IF Overflows(doc, s, block) THEN Emit(doc, s) ELSE s
  IN [room EXCEPT !.buf = Append(@, block)]

(* The table ends: its blocks go to the buffer, with no overlap.           *)
EndTable(doc, s) ==
  FoldLeft(LAMBDA t, block : TakeBlock(doc, t, block), [s EXCEPT !.table = <<>>],
           SplitTable(doc, s.table))

TakeText(doc, s, at) ==
  IF Overflows(doc, s, <<at>>)
  THEN [Emit(doc, s) EXCEPT !.buf = Append(Overlapped(doc, s.buf), <<at>>)]
  ELSE [s EXCEPT !.buf = Append(@, <<at>>)]

TakeHeading(doc, s, at) ==
  [Emit(doc, s) EXCEPT
     !.stack = Append(SelectSeq(@, LAMBDA h : LineAt(doc, h).depth < LineAt(doc, at).depth), at)]

TakeLine(doc, s, at) ==
  CASE LineAt(doc, at).kind \in {"row", "rule"} -> [s EXCEPT !.table = Append(@, at)]
    [] LineAt(doc, at).kind = "blank" -> s
    [] LineAt(doc, at).kind = "heading" -> TakeHeading(doc, EndTable(doc, s), at)
    [] LineAt(doc, at).kind = "text" -> TakeText(doc, EndTable(doc, s), at)

TakePage(doc, s, p) ==
  EndTable(doc, FoldLeft(LAMBDA t, n : TakeLine(doc, t, <<p, n>>), [s EXCEPT !.page = p],
                         [n \in DOMAIN doc[p] |-> n]))

(* _split_oversized                                                        *)
SplitOversized(doc, chunks) ==
  FlattenSeq([c \in DOMAIN chunks |->
    IF Tokens(doc, chunks[c].text) <= HardMax THEN <<chunks[c]>>
    ELSE LET parts == Packed(doc, chunks[c].text, HardMax)
         IN [n \in DOMAIN parts |-> [chunks[c] EXCEPT !.text = parts[n]]]])

(* Mutant: forward only.                                                   *)
AbsorbForward(doc, chunks) ==
  LET Absorb(s, c) ==
        LET grown == [chunks[c] EXCEPT !.text = s.carried \o @]
        IN IF Tokens(doc, grown.text) < MinChunk THEN [s EXCEPT !.carried = grown.text]
           ELSE [out |-> Append(s.out, grown), carried |-> <<>>]
  IN FoldLeft(Absorb, [out |-> <<>>, carried |-> <<>>], [c \in DOMAIN chunks |-> c]).out

(* _absorb_tiny: forward into the next, or backward when it is the last.   *)
AbsorbTiny(doc, chunks) ==
  LET Absorb(s, c) ==
        LET grown == [chunks[c] EXCEPT !.text = s.carried \o @]
            tiny == Tokens(doc, grown.text) < MinChunk
        IN CASE tiny /\ c < Len(chunks) -> [s EXCEPT !.carried = grown.text]
             [] tiny /\ c = Len(chunks) /\ s.out # <<>> ->
                  [out |-> Append(Front(s.out), [Last(s.out) EXCEPT !.text = @ \o grown.text]),
                   carried |-> <<>>]
             [] OTHER -> [out |-> Append(s.out, grown), carried |-> <<>>]
  IN FoldLeft(Absorb, [out |-> <<>>, carried |-> <<>>], [c \in DOMAIN chunks |-> c]).out

ChunkMarkdown(doc) ==
  LET read == FoldLeft(LAMBDA s, p : TakePage(doc, s, p), Started, [p \in DOMAIN doc |-> p])
  IN AbsorbTiny(doc, SplitOversized(doc, Emit(doc, read).chunks))

-----------------------------------------------------------------------------
Places(doc) == UNION {{<<p, n>> : n \in DOMAIN doc[p]} : p \in DOMAIN doc}
Lines(doc) == {at \in Places(doc) : LineAt(doc, at).kind \in {"text", "row", "rule"}}
Found(chunks) == UNION {ToSet(chunks[c].text) : c \in DOMAIN chunks}

(* The table of a row: no heading or text stands between its lines.        *)
Between(a, b, at) == at[1] = a[1] /\ (at[2] - a[2]) * (b[2] - at[2]) > 0
TableOf(doc, a) ==
  {b \in Lines(doc) : a[1] = b[1] /\ \A at \in {a, b} \cup {c \in Places(doc) : Between(a, b, c)} :
     LineAt(doc, at).kind \in {"row", "rule", "blank"}}
FirstOf(places) == CHOOSE a \in places : \A b \in places : a[2] <= b[2]

Long(doc, at) == LineAt(doc, at).tokens >= Scrap

(* A head with no rows under it, too wide for one chunk.                   *)
BareHead(doc, table) ==
  /\ MapThenSumSet(LAMBDA b : LineAt(doc, b).tokens, table) > Target
  /\ \A b \in table \ {FirstOf(table)} :
       Cardinality(table) = 2 /\ LineAt(doc, b).kind = "rule"

LongLinesFound(doc, chunks) ==
  \A at \in Lines(doc) : Long(doc, at) =>
     \/ at \in Found(chunks)
     \/ TableOf(doc, at) # {} /\ BareHead(doc, TableOf(doc, at))

HeadersCarried(doc, chunks) ==
  \A c \in DOMAIN chunks : \A k \in DOMAIN chunks[c].text :
    LET at == chunks[c].text[k]
    IN LineAt(doc, at).kind = "row" =>
         LET header == FirstOf(TableOf(doc, at))
         IN (\E j \in 1 .. k : chunks[c].text[j] = header)
              \/ LineAt(doc, header).tokens + LineAt(doc, at).tokens > HardMax - MinChunk

FitEmbedder(doc, chunks) ==
  \A c \in DOMAIN chunks :
    \/ Tokens(doc, chunks[c].text) <= HardMax + 2 * (MinChunk - 1)
    \/ \E at \in ToSet(chunks[c].text) : LineAt(doc, at).tokens > HardMax
=============================================================================
