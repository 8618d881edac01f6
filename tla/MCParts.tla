------------------------------- MODULE MCParts -------------------------------
(***************************************************************************)
(* Small parts of the system, checked side by side: a behaviour takes one. *)
(* Ten of them compute and keep nothing: they are put a question, out of   *)
(* small sets, in two steps, and answer it with the second.  The other two *)
(* run on their own.                                                       *)
(***************************************************************************)
EXTENDS Hours, Markers, Voices, Reading, Chunking, Envelope, Retrieval,
  KeyChecks, ToolRequests, Listening, MCProviderKeys

(* The windows below are times, and what a dialler sends, and what is made *)
(* of it, is told from nothing at all.                                     *)
Raw == {"12", "yes", "nan"}
ASSUME PartsAssumption ==
  /\ LastTick >= 3
  /\ Null \notin Raw
  /\ \A is \in {"number", "boolean", "string"}, raw \in Raw : [is |-> is, of |-> raw] # Null

VARIABLES question, answer
parts == <<lvars, kvars>>
vars == <<question, answer, parts>>

(* Hours: up to two weekdays with hours, and a clock that may tick between *)
(* its three readings.                                                     *)
Windows == {[opens |-> 0, closes |-> 1], [opens |-> 1, closes |-> 3],
            [opens |-> 2, closes |-> 1], [opens |-> Unreadable, closes |-> 2]}
Rotas == UNION {[D -> Windows] : D \in {D \in SUBSET (0 .. Week - 1) : Cardinality(D) <= 2}}
Holidays == {{}, {0}, {1}, {7}, {0, 7}, {1, 8}}
Ticked(i, n) == IF i.time + n <= LastTick THEN [i EXCEPT !.time = @ + n]
                ELSE [day |-> i.day + 1, time |-> i.time + n - LastTick - 1]
HoursBegin == \E h \in Rotas : question = [of |-> "hours", hours |-> h]

(* Markers and clauses: short texts, cut into pieces in every way.         *)
Bracketed == <<<<"[", "e", "]">>, <<"[", "t", "]">>>>
Texts == UNION {[1 .. n -> {"[", "e", "t", "]"}] : n \in 0 .. 5}
           \cup [1 .. 6 -> {"[", "e", "]"}]
Replies == UNION {[1 .. n -> {"a", "1", " ", ",", "."}] : n \in 0 .. 5}
             \cup [1 .. 6 -> {"1", " ", ","}]
Pieces(text, cuts) ==
  LET ends == SetToSortSeq(cuts \cup {Len(text)}, <)
  IN [k \in DOMAIN ends |-> SubSeq(text, IF k = 1 THEN 1 ELSE ends[k - 1] + 1, ends[k])]
SpeechBegin ==
  \/ \E text \in Texts : question = [of |-> "markers", text |-> text]
  \/ \E text \in Replies : question = [of |-> "clauses", text |-> text]

(* Voices: streams of up to three lines, the last of which may not end,    *)
(* and that may break off after any piece.                                 *)
Events == {<<"data:", "p">>, <<"data:", "p", "q", "r">>, <<"data:", "p", "|", "q">>}
Others == {<<"data:", "|", "p">>, <<"data:">>, <<"data:", "p", "#">>, <<"p">>, <<>>}
Wires == {FlattenSeq([k \in DOMAIN ls |-> ls[k] \o (IF k = Len(ls) /\ ~ended THEN <<>> ELSE <<"n">>)]) :
            ls \in [1 .. 3 -> Events] \cup UNION {[1 .. n -> Events \cup Others] : n \in 0 .. 2},
            ended \in BOOLEAN}
VoicesBegin ==
  \E wire \in Wires, voice \in {"raya", "gemini", "kokoro"} :
    question = [of |-> "voice", voice |-> voice, wire |-> wire]

(* Chunking: a page of up to four lines of any kind, one of six of the     *)
(* kinds that matter most to tables, or two short pages.                   *)
Of(kind, sizes) == {[kind |-> kind, tokens |-> n, depth |-> 0] : n \in sizes}
Heading == [kind |-> "heading", tokens |-> 0, depth |-> 1]
AllLines == {Heading} \cup Of("text", {1, 3, 5, 9, 14}) \cup Of("row", {2, 5, 9})
              \cup Of("rule", {1}) \cup Of("blank", {0})
TableLines == Of("text", {1, 5}) \cup Of("row", {2, 5}) \cup Of("rule", {1})
Pages(lines, n) == [1 .. n -> lines]
ChunkingBegin ==
  \/ \E n \in 0 .. 2 : \E p \in Pages(AllLines, n) : question = [of |-> "chunking", lines |-> AllLines, top |-> p]
  \/ \E p \in Pages(TableLines, 3) : question = [of |-> "chunking", lines |-> TableLines, top |-> p]
Documents(top, lines) ==
  IF Len(top) = 3 THEN {<<top \o rest>> : rest \in Pages(lines, 2) \cup Pages(lines, 3)}
  ELSE {<<top>>} \cup (IF Len(top) < 2 THEN {} ELSE {<<top \o rest>> : rest \in Pages(lines, 1) \cup Pages(lines, 2)})
         \cup (IF top = <<>> THEN {} ELSE {<<top, p>> : p \in Pages(lines, 1)})

(* Reading: a table of up to two rows of up to three cells, with words, an *)
(* image, a box or a script in them; and manifests of up to three files,   *)
(* with and without names for them.                                        *)
Word(is, word) == [is |-> is, word |-> word]
Cells == {<<>>, <<Word("word", "w")>>, <<Word("hidden", "x"), Word("word", "v")>>,
          <<Word("box", "b"), Word("image", "price")>>, <<Word("image", "logo")>>}
Grids == UNION {[1 .. n -> Cells] : n \in 0 .. 3}
Files == {"s1", "s2", "css"}
Manifests == {Absent} \cup UNION {[1 .. n -> Files] : n \in 0 .. 3}
Strips == {Absent} \cup UNION {[F -> {"", "Offer"}] : F \in SUBSET {"s1", "s2", "s3"}}
ReadingBegin ==
  \/ \E first \in Grids : question = [of |-> "page", first |-> first]
  \/ \E manifest \in Manifests : question = [of |-> "workbook", manifest |-> manifest]

(* Envelope: up to two fields, which may have one key, with or without a   *)
(* key and a source; a dialler that sent nothing or one value; turns in    *)
(* which something or nothing is written; every end of the extraction.     *)
LeadId == <<"lead">>
Conversation == [source : {"conversation"}, key : {<<>>, LeadId, <<"city">>}, kind : {"string"}, from : {<<>>}]
FromCall == [source : {"dialler"}, key : {<<>>, LeadId, <<"crm">>}, kind : {"string", "number", "boolean"},
             from : {<<>>, LeadId, <<"dialer", "lead">>}]
Told == {<<>>} \cup [{<<"dialer", "lead">>} -> Raw]
ReportBegin ==
  \E n \in 0 .. 2 : \E fields \in [1 .. n -> Conversation \cup FromCall] :
    question = [of |-> "report", fields |-> fields]

(* Retrieval: three chunks, with and without a vector, found by each leg   *)
(* or by neither, with and without the embedder, and once more in the same *)
(* turn; prompts of up to three chunks; and three occurrences of questions *)
(* of two clients, one of which the two words cannot be told from.         *)
Bases == [1 .. 3 -> [vector : {Nobody, 0, 1, 3}, lexical : {0, 1, 2, 3}]]
Again == {[c \in 1 .. 3 |-> [vector |-> 2, lexical |-> c]]}
Excerpts == [title : {"A", "B"}, heading : {Nobody, "h", "k"}, tokens : {1, 2}]
Owners == [c \in {"c", "d", "e"} |-> IF c = "e" THEN "them" ELSE "us"]
Queries == {<<"q">>, <<"q", Space>>, <<"q", "r">>, <<"q", Space, "r">>}
Occurrences == {[tenant |-> Owners[c], campaign |-> c, kind |-> k, key |-> QueryKey(q), handled |-> h] :
                  c \in DOMAIN Owners, k \in {"kb_miss", "kb_weak"}, q \in Queries \ {<<"q", Space>>}, h \in BOOLEAN}
RetrievalBegin ==
  \/ \E base \in Bases : question = [of |-> "search", base |-> base]
  \/ \E n \in 0 .. 3 : \E rows \in [1 .. n -> Excerpts] : question = [of |-> "prompt", rows |-> rows]
  \/ \E gaps \in [1 .. 2 -> Occurrences] : question = [of |-> "gaps", gaps |-> gaps]

(* Keys: what lies behind one, and what is entered with it.                *)
ChecksBegin ==
  \E p \in Checked, account \in Behind, region \in Entered :
    /\ p # "soniox" => region = "unset" /\ account.home = "us"
    /\ question = [of |-> "check", p |-> p, account |-> account, region |-> region]

(* Tools: of either method and any wording, put what was dictated.         *)
Tools == [method : {"GET", "POST"}, digits : BOOLEAN, path : {Unset, "field"}, keep : BOOLEAN,
          worded : SUBSET {"404", "timeout", "default"}, auth : {"secret"}]
LookupsBegin == \E tool \in Tools : question = [of |-> "lookup", tool |-> tool]

Unanswered == [of |-> "nothing"]

Init ==
  /\ \/ HoursBegin \/ SpeechBegin \/ VoicesBegin \/ ReadingBegin \/ ChunkingBegin \/ ReportBegin \/ RetrievalBegin
     \/ ChecksBegin \/ LookupsBegin
     \/ \E of \in {"listening", "keys"} : question = [of |-> of]
  /\ answer = Unanswered
  /\ ListeningInit /\ KeysInit

Asked(of) == question.of = of /\ answer = Unanswered
Together(rest, begun) ==
  [x \in DOMAIN rest \cup DOMAIN begun |-> IF x \in DOMAIN rest THEN rest[x] ELSE begun[x]]
Answered(rest, given) ==
  /\ question' = Together(rest, question)
  /\ answer' = given
  /\ UNCHANGED parts

AskHours ==
  /\ Asked("hours")
  /\ \E o \in Holidays, i \in [day : {0}, time : Times], n \in {0, 1}, m \in {1, 2} :
       Answered([holidays |-> o, looked |-> Ticked(i, n), spoken |-> Ticked(i, m)],
         [of |-> "hours", refused |-> Refused(question.hours, o, i),
          told |-> ClosedMessage(question.hours, o, Ticked(i, n), Ticked(i, m))])

Cuts == SUBSET (1 .. Len(question.text) - 1)
AskMarkers ==
  /\ Asked("markers")
  /\ \E cuts \in Cuts :
       Answered([cuts |-> cuts], [of |-> "markers", heard |-> Filtered(Pieces(question.text, cuts))])

AskClauses ==
  /\ Asked("clauses")
  /\ \E cuts \in Cuts :
       Answered([cuts |-> cuts], [of |-> "clauses", requests |-> Requests(Pieces(question.text, cuts))])

AskVoice ==
  /\ Asked("voice")
  /\ \E cuts \in {c \in SUBSET (1 .. Len(question.wire) - 1) : Cardinality(c) <= 2} :
     \E status \in {200, 401}, whole \in BOOLEAN :
       LET pieces == SelectSeq(Pieces(question.wire, cuts), LAMBDA piece : piece # <<>>)
           came == IF whole THEN pieces ELSE Front(pieces)
       IN Answered([status |-> status, whole |-> whole, came |-> FlattenSeq(came)],
            [of |-> "voice", spoken |-> Spoken(question.voice, status, came, whole)])

AskPage ==
  /\ Asked("page")
  /\ \E second \in Grids :
       LET rows == <<question.first, second>> IN
       Answered([rows |-> rows], [of |-> "page", out |-> Extract(TableMarkup(rows))])

AskWorkbook ==
  /\ Asked("workbook")
  /\ \E tabs \in Strips :
       Answered([tabs |-> tabs],
         [of |-> "workbook", pages |-> WorkbookPages(question.manifest, tabs, {"s1", "s2", "s3"})])

AskChunking ==
  /\ Asked("chunking")
  /\ \E doc \in Documents(question.top, question.lines) :
       Answered([doc |-> doc], [of |-> "chunking", chunks |-> ChunkMarkdown(doc)])

Reported(report) ==
  [of |-> "report", payload |-> Payload(report), queued |-> Queued(report), shown |-> ToolText(report.kept)]
Heard(dialler, turns, outcome, said, fields) ==
  [dialler |-> dialler, turns |-> turns, outcome |-> outcome,
   said |-> [k \in Schema(fields) |-> said],
   kept |-> <<[size |-> 2], [size |-> 3], [size |-> 1]>>,
   full |-> turns # <<>>, wanted |-> said = "v"]
AskReport ==
  /\ Asked("report")
  /\ \E dialler \in Told, turns \in {<<>>, <<"hello", "">>, <<"hello", "", "">>},
       outcome \in {"answer", "timeout", "failure"}, said \in {"", "v", Null} :
       LET rest == Heard(dialler, turns, outcome, said, question.fields)
       IN Answered(rest, Reported(Together(rest, question)))

AskSearch ==
  /\ Asked("search")
  /\ \E embedder \in BOOLEAN, again \in Again :
       \E found \in Searched(question.base, again, embedder) :
         Answered([embedder |-> embedder, again |-> again], [of |-> "search", found |-> found])

AskPrompt ==
  /\ Asked("prompt")
  /\ Answered(question, [of |-> "prompt", prompt |-> BuildInstructions(question.rows)])

AskGaps ==
  /\ Asked("gaps")
  /\ \E more \in Occurrences, scope \in {Nobody, "us", "them"} :
       LET gaps == Append(question.gaps, more) IN
       \E line \in ListGaps(gaps, scope) :
         Answered([gaps |-> gaps],
                  [of |-> "gaps", scope |-> scope, line |-> line, after |-> Acknowledged(gaps, scope, line.group)])

AskProvider ==
  /\ Asked("check")
  /\ \E first, then \in Weathers :
       Answered([first |-> first, then |-> then],
         [of |-> "check", verdict |-> Verdict(question.p, question.account, question.region, first, then)])

AskTool ==
  /\ Asked("lookup")
  /\ \E value \in Dictated, api \in [outcome : Outcomes, body : Bodies], call \in {Unset, "k"} :
       Answered([value |-> value, api |-> api, call |-> call],
         [of |-> "lookup", ran |-> Run(question.tool, value, api, call),
          test |-> TestTool(question.tool, value, api)])

Listen ==
  question.of = "listening" /\ ListeningNext /\ UNCHANGED <<question, answer, kvars>>

HandleKeys ==
  question.of = "keys" /\ KeysNext /\ UNCHANGED <<question, answer, lvars>>

Next == AskHours \/ AskMarkers \/ AskClauses \/ AskVoice \/ AskPage \/ AskWorkbook
          \/ AskChunking \/ AskReport
          \/ AskSearch \/ AskPrompt \/ AskGaps \/ AskProvider \/ AskTool
          \/ Listen \/ HandleKeys
Spec == Init /\ [][Next]_vars

-----------------------------------------------------------------------------
(* What a caller is told of when a person is there.                        *)
ToldWhen ==
  LET when == answer.told.when IN
  /\ FirstOpening(question.hours, question.holidays, question.looked, when)
  /\ when = Never \/ when.day > question.spoken.day + 1 + Week
       \/ DayMeant(answer.told.day, question.spoken) = when.day

(* He hears what the reply says: wherever its stream is cut, no marker is  *)
(* read out, no other character is swallowed, and every marker raises its  *)
(* flag (filtered, voice_agent.py:984); the requests to a voice that does  *)
(* not stream say all of it, no number in two of them (split_clauses,      *)
(* clause_tokenizer.py:71); and the audio of a voice that does stream is   *)
(* heard however it arrives (raya_tts.py:200, gemini_tts.py:231).          *)
CallersHearWhatIsSo ==
  /\ answer.of = "markers" /\ Plain(question.text) =>
       answer.heard = [spoken |-> Said(question.text), raised |-> Meant(question.text)]
  /\ answer.of = "clauses" => SaysAll(question.text, answer.requests)
  /\ answer.of = "voice" =>
       StreamIsHeard(question.voice, question.came, question.status, question.whole, answer.spoken)

(* What the author of a page or a workbook put down is read where he put   *)
(* it (webkb.py:148, :376); no line of 25 characters or more is missing    *)
(* from the chunks, but the head of a table with no rows; every row of a   *)
(* table is in a chunk that says what its columns mean, unless the two     *)
(* alone are near the limit; and no chunk is larger than the embedder      *)
(* takes, whatever was split and put together again, unless one line of it *)
(* is (chunk_markdown, kb.py:222, _split_table, :194, _split_oversized,    *)
(* is (chunk_markdown, kb.py:222, _split_table, :194, _split_oversized,    *)
(* :325, _absorb_tiny, :356).                                              *)
WhatIsWrittenIsKept ==
  /\ answer.of = "page" => PageIsRead(question.rows, answer.out)
  /\ answer.of = "workbook" =>
       SheetsKeepTheirNames(question.manifest, question.tabs, {"s1", "s2", "s3"}, answer.pages)
  /\ answer.of = "chunking" =>
       /\ LongLinesFound(question.doc, answer.chunks)
       /\ HeadersCarried(question.doc, answer.chunks)
       /\ FitEmbedder(question.doc, answer.chunks)

(* A caller who asks for a person out of hours is promised the first       *)
(* instant at which one is there, whatever the schedule and the holidays   *)
(* (next_open against open_now, hours.py:185, :118), and in a word that    *)
(* names that day to a person who hears it, even when midnight passes      *)
(* between the readings of the clock; nobody is told "later" who could be  *)
(* told when (describe, :208).  Beyond eight days the name of a weekday    *)
(* means another day.  What callers ask finds the best there is, and what  *)
(* they asked for in vain is on the page until somebody has handled it     *)
(* (search, kb.py:648, search_knowledge_base, voice_agent.py:1093,         *)
(* gaps.py:106); so does what they ask of a campaign's tools, as its test  *)
(* shows (run, tools.py:266, test_tool, routers/tools.py:252).  What a     *)
(* call was asked to note, its report has, whatever becomes of the         *)
(* extraction: every key that was configured and no other, what the        *)
(* dialler sent as it was sent, and the rest as the model read it; it is   *)
(* lost only for a number JSON cannot say (extract, postback.py:248,       *)
(* from_dialler, :123, _queue_postback, voice_agent.py:2075).  And what a  *)
(* provider says of a key is not taken for what it does not say (validate, *)
(* provider_keys.py:419).                                                  *)
QuestionsAreServed ==
  /\ answer.of = "hours" /\ answer.refused => ToldWhen
  /\ answer.of = "search" =>
       /\ BestIsFound(question.base, question.embedder, answer.found.first)
       /\ RecordSays(answer.found)
  /\ answer.of = "prompt" => PromptIsGrounded(question.rows, answer.prompt)
  /\ answer.of = "gaps" => GapsAreHandled(question.gaps, answer.scope, answer.line, answer.after)
  /\ answer.of = "lookup" =>
       /\ LookupIsAnswered(question.tool, question.value, question.api, question.call, answer.ran)
       /\ TestIsTrue(question.tool, question.value, question.api, answer.ran, answer.test)
  /\ answer.of = "report" =>
       /\ KeepsItsShape(question, answer.payload.values)
       /\ ~answer.queued => \E f \in Keyed(question.fields) : f.kind = "number"
  /\ answer.of = "check" =>
       OnlyKeysAreKept(question.p, question.account, question.region, question.first,
                       question.then, answer.verdict)
=============================================================================
