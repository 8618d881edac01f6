------------------------------ MODULE Reading ------------------------------
(***************************************************************************)
(* What is read out of a page of the web and which pages a workbook has    *)
(* (webkb.py).  A page is what the parser reports of it, in order: tags    *)
(* that begin and end, and words.  The layout of what is written is left   *)
(* out but for the lines of tables: a line has its cells, each of words.   *)
(***************************************************************************)
EXTENDS Naturals, SequencesExt

CONSTANTS
  Hidden,   \* script, style: what is in them is not said
  Noises,   \* _ALT_NOISE: words for an image that say nothing of it
  MaxCols,  \* _MAX_COLS
  Absent    \* no cell, no row, no file

Begins(tag) == [at |-> "start", what |-> tag]
Ends(tag) == [at |-> "end", what |-> tag]
Says(word) == [at |-> "data", what |-> word]
Pictures(alt) == [at |-> "image", what |-> alt]

InWords(words) == [table |-> FALSE, cells |-> <<words>>]

EmptyPage == [out |-> <<>>, skip |-> 0, depth |-> 0, rows |-> <<>>, row |-> Absent, cell |-> Absent]

(* _emit                                                                   *)
Write(r, line) ==
  IF r.cell # Absent THEN [r EXCEPT !.cell = @ \o FlattenSeq(line.cells)]
  ELSE [r EXCEPT !.out = Append(@, line)]

(* _flush_table: empty cells at the end of a row are not columns, a row of *)
(* none is not a row, and one column is not a table.                       *)
Narrowed(row) ==
  LET full == {k \in DOMAIN row : row[k] # <<>>}
  IN SubSeq(row, 1, IF full = {} THEN 0 ELSE CHOOSE k \in full : \A j \in full : j <= k)
Smaller(a, b) == IF a < b THEN a ELSE b
Filled(rows) == SelectSeq([k \in DOMAIN rows |-> Narrowed(rows[k])], LAMBDA row : row # <<>>)
Columns(rows) == FoldLeft(LAMBDA n, row : IF Len(row) > n THEN Len(row) ELSE n, 0, rows)

FlushTable(r) ==
  LET rows == Filled(r.rows)
      width == Smaller(Columns(rows), MaxCols)
      Cut(row) == [k \in 1 .. width |-> IF k <= Len(row) THEN row[k] ELSE <<>>]
      lines == [k \in DOMAIN rows |-> IF width < 2 THEN InWords(FlattenSeq(rows[k]))
                                      ELSE [table |-> TRUE, cells |-> Cut(rows[k])]]
  IN FoldLeft(Write, [r EXCEPT !.rows = <<>>], lines)

(* Mutant of StartTag: a table in a cell begins the rows anew.             *)
StartTagAnew(r, tag) ==
  CASE tag \in Hidden -> [r EXCEPT !.skip = @ + 1]
    [] tag = "table" -> [r EXCEPT !.depth = @ + 1, !.rows = <<>>]
    [] tag = "tr" /\ r.depth = 1 -> [r EXCEPT !.row = <<>>]
    [] tag = "td" /\ r.depth = 1 -> [r EXCEPT !.cell = <<>>]
    [] OTHER -> r

(* handle_starttag: of tables in tables only the outer one has cells.      *)
StartTag(r, tag) ==
  CASE tag \in Hidden -> [r EXCEPT !.skip = @ + 1]
    [] tag = "table" -> [r EXCEPT !.depth = @ + 1, !.rows = IF r.depth = 0 THEN <<>> ELSE @]
    [] tag = "tr" /\ r.depth = 1 -> [r EXCEPT !.row = <<>>]
    [] tag = "td" /\ r.depth = 1 -> [r EXCEPT !.cell = <<>>]
    [] OTHER -> r

(* handle_endtag *)
EndTag(r, tag) ==
  CASE tag \in Hidden -> [r EXCEPT !.skip = IF @ = 0 THEN 0 ELSE @ - 1]
    [] tag = "table" ->
         [(IF r.depth = 1 THEN FlushTable(r) ELSE r) EXCEPT !.depth = IF @ = 0 THEN 0 ELSE @ - 1]
    [] tag = "td" /\ r.depth = 1 /\ r.cell # Absent ->
         IF r.row # Absent THEN [r EXCEPT !.row = Append(@, r.cell), !.cell = Absent]
         ELSE [r EXCEPT !.out = Append(@, InWords(r.cell)), !.cell = Absent]
    [] tag = "tr" /\ r.depth = 1 /\ r.row # Absent ->
         [r EXCEPT !.rows = Append(@, r.row), !.row = Absent]
    [] OTHER -> r

(* The words for an image are said even where other words are hidden.      *)
Handle(r, event) ==
  CASE event.at = "start" -> StartTag(r, event.what)
    [] event.at = "end" -> EndTag(r, event.what)
    [] event.at = "image" -> IF event.what \in Noises THEN r ELSE Write(r, InWords(<<event.what>>))
    [] OTHER -> IF r.skip > 0 THEN r ELSE Write(r, InWords(<<event.what>>))

Extract(events) == FoldLeft(Handle, EmptyPage, events).out

-----------------------------------------------------------------------------
(* workbook_pages: the sheets of the manifest, named by the tab strip; a   *)
(* sheet that it does not name keeps the name of its file.  Either file    *)
(* may be Absent.                                                          *)
TabNames(tabs) ==
  IF tabs = Absent THEN <<>> ELSE [file \in {f \in DOMAIN tabs : tabs[f] # ""} |-> tabs[file]]

WorkbookPages(manifest, tabs, Sheets) ==
  IF manifest = Absent THEN <<>>
  ELSE LET files == SelectSeq(manifest, LAMBDA f : f \in Sheets)
           names == TabNames(tabs)
       IN [k \in DOMAIN files |->
             [file |-> files[k],
              name |-> IF files[k] \in DOMAIN names THEN names[files[k]] ELSE files[k]]]

-----------------------------------------------------------------------------
(* A page as its author sees it: blocks, of which a table has rows of      *)
(* cells, and a cell pieces.                                               *)
PieceMarkup(piece) ==
  CASE piece.is = "word" -> <<Says(piece.word)>>
    [] piece.is = "hidden" -> <<Begins("script"), Says(piece.word), Ends("script")>>
    [] piece.is = "image" -> <<Pictures(piece.word)>>
    [] piece.is = "box" ->
         <<Begins("table"), Begins("tr"), Begins("td"), Says(piece.word),
           Ends("td"), Ends("tr"), Ends("table")>>
CellMarkup(cell) == <<Begins("td")>> \o FlattenSeq([k \in DOMAIN cell |-> PieceMarkup(cell[k])]) \o <<Ends("td")>>
RowMarkup(row) == <<Begins("tr")>> \o FlattenSeq([k \in DOMAIN row |-> CellMarkup(row[k])]) \o <<Ends("tr")>>
TableMarkup(rows) ==
  <<Begins("table")>> \o FlattenSeq([k \in DOMAIN rows |-> RowMarkup(rows[k])]) \o <<Ends("table")>>

SaidIn(cell) ==
  LET said == SelectSeq(cell, LAMBDA p : p.is # "hidden" /\ ~(p.is = "image" /\ p.word \in Noises))
  IN [k \in DOMAIN said |-> said[k].word]

(* Of a page whose tags are all closed, what its author put in a cell is   *)
(* read in its row and column, whatever is drawn around or inside the      *)
(* cell; what is hidden is not read; no row with a word in it is missing,  *)
(* and none is wider than the widest that has words there or the cap       *)
(* (_Reader, webkb.py:148, _flush_table, :224).                            *)
PageIsRead(rows, out) ==
  LET said == Filled([k \in DOMAIN rows |-> [c \in DOMAIN rows[k] |-> SaidIn(rows[k][c])]])
  IN /\ Len(out) = Len(said)
     /\ \A k \in DOMAIN said :
          IF Columns(said) < 2 THEN out[k] = InWords(said[k][1])
          ELSE /\ out[k].table /\ Len(out[k].cells) = Smaller(Columns(said), MaxCols)
               /\ \A c \in DOMAIN out[k].cells :
                    out[k].cells[c] = IF c <= Len(said[k]) THEN said[k][c] ELSE <<>>

(* Every sheet of the manifest is imported once, in its order, and none is *)
(* called by the name of another (workbook_pages, webkb.py:376).           *)
SheetsKeepTheirNames(manifest, tabs, Sheets, pages) ==
  manifest # Absent =>
    /\ {pages[k].file : k \in DOMAIN pages} = Sheets \cap ToSet(manifest)
    /\ \A k \in DOMAIN pages :
         \/ pages[k].name = pages[k].file
         \/ tabs # Absent /\ pages[k].file \in DOMAIN tabs /\ pages[k].name = tabs[pages[k].file]
=============================================================================
