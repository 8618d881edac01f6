------------------------------ MODULE Knowledge ------------------------------
(***************************************************************************)
(* The knowledge base of one campaign: tables `kb_documents`, `kb_chunks`  *)
(* and `kb_sources`, the uploaded originals on disk, and the jobs that     *)
(* write them.  A job is an upload, a re-ingest of the stored original, a  *)
(* run of the command line over the inbox, or the import of a web address  *)
(* (one document per page).  A job reads the row it will replace, waits    *)
(* for the extractor and the embedder, and only then opens the transaction *)
(* that replaces the chunks; nothing keeps two jobs apart.                 *)
(*                                                                         *)
(* The chunks one job writes for one document are one element of           *)
(* chunks[n]; their text is the version they were cut from.                *)
(***************************************************************************)
EXTENDS Naturals, FiniteSets

CONSTANTS
  Jobs,       \* requests that may be under way at once
  Files,      \* names of uploaded documents
  Pages,      \* names of web pages (they end in ".web": never a file's)
  Sources,    \* addresses that can be imported
  Publishes,  \* Publishes[s]: the names of the pages s may hold
  Versions,   \* contents a document can have
  Null,
  Apart,      \* bound: TRUE keeps behaviours to files or to addresses, which
              \* share no row
  MaxStarts,  \* bound: jobs begun
  MaxEvents   \* bound: edits, disconnects, restarts, changes upstream

Names == Files \cup Pages

ASSUME KnowledgeAssumption ==
  /\ IsFiniteSet(Jobs) /\ IsFiniteSet(Names)
  /\ Files \cap Pages = {}
  /\ Publishes \in [Sources -> SUBSET Pages]
  /\ {MaxStarts, MaxEvents} \subseteq Nat /\ Apart \in BOOLEAN
  /\ Null \notin Names \cup Sources \cup Versions \cup Nat

VARIABLES
  docs,      \* kb_documents by name (UNIQUE config_name, filename), or Null
  chunks,    \* chunks[n]: who wrote the kb_chunks of n, and from which text
  disk,      \* the stored original of a file, or Null
  upstream,  \* what a source publishes under a page's name
  sources,   \* the row of kb_sources of an address, or Null
  job,       \* the requests under way
  starts,    \* jobs begun so far; numbers them
  events,    \* how much of MaxEvents is used up
  causes,    \* history: what befell a document since it was created
  choice,    \* history: what somebody last chose for n, while its row lives
  settled    \* history: the pages the last undisturbed import of s read

vars == <<docs, chunks, disk, upstream, sources, job, starts, events,
          causes, choice, settled>>

Row == [id : Nat, hash : Versions, source : Sources \cup {Null},
        enabled : BOOLEAN]
SourceRow == [id : Nat, status : {"new", "ok", "empty", "error"}]
ASSUME NullIsNoRow == Null \notin Row \cup SourceRow \cup BOOLEAN

Idle == [pc |-> "idle", kind |-> "cli", name |-> Null, hash |-> Null,
         text |-> Null, old |-> Null, doomed |-> {}, source |-> Null,
         row |-> Null, todo |-> {}, keep |-> {}, read |-> {}, alone |-> FALSE,
         no |-> 0]

Busy(j) == job[j].pc # "idle"
On(j, n) == Busy(j) /\ job[j].name = n
Importing(j) == Busy(j) /\ job[j].kind = "web"
NoImport == \A j \in Jobs : ~Importing(j)

Init ==
  /\ docs = [n \in Names |-> Null]
  /\ chunks = [n \in Names |-> {}]
  /\ disk = [f \in Files |-> Null]
  /\ \E v \in Versions : upstream = [s \in Sources |-> [p \in Pages |->
       IF p \in Publishes[s] THEN v ELSE "absent"]]
  /\ sources = [s \in Sources |-> Null]
  /\ job = [j \in Jobs |-> Idle]
  /\ starts = 0 /\ events = 0
  /\ causes = [n \in Names |-> {}]
  /\ choice = [n \in Names |-> Null]
  /\ settled = [s \in Sources |-> Null]

Happens == events < MaxEvents /\ events' = events + 1
Blame(n, c) == causes' = [causes EXCEPT ![n] = @ \cup {c}]
Step(j, r) == job' = [job EXCEPT ![j] = r]

-----------------------------------------------------------------------------
(* Jobs about a file. *)

BeginFile(j, kind, f, v) ==
  /\ ~Busy(j) /\ starts < MaxStarts
  /\ Apart => \A s \in Sources : sources[s] = Null
  /\ starts' = starts + 1
  /\ Step(j, [Idle EXCEPT !.pc = "look", !.kind = kind, !.name = f,
                          !.hash = v, !.no = starts + 1])
  /\ IF \E k \in Jobs : On(k, f) THEN Blame(f, "worked on together")
     ELSE UNCHANGED causes
  /\ UNCHANGED <<docs, chunks, disk, upstream, sources, events, choice,
                 settled>>

(* upload_document: validated, staged in a directory of its own, hashed. *)
Upload(j, f) == \E v \in Versions : BeginFile(j, "upload", f, v)

(* reingest_document reads the original that is stored. *)
Reingest(j, f) ==
  docs[f] # Null /\ disk[f] # Null /\ BeginFile(j, "reingest", f, disk[f])

(* ingest.py over the inbox. *)
CommandLine(j, f) == \E v \in Versions : BeginFile(j, "cli", f, v)

Unchanged(n, v) == docs[n] # Null /\ docs[n].hash = v

OldRow(n) == IF docs[n] = Null THEN Null ELSE docs[n].id

(* ingest_file compares the hash and remembers the row; force goes on. *)
Look(j) ==
  LET n == job[j].name IN
  /\ job[j].pc = "look"
  /\ \/ /\ Unchanged(n, job[j].hash) /\ job[j].kind # "reingest"
        /\ Step(j, IF job[j].kind = "upload"
                   THEN [job[j] EXCEPT !.pc = "publish"] ELSE Idle)
     \/ Step(j, [job[j] EXCEPT !.pc = "extract", !.old = OldRow(n)])
  /\ UNCHANGED <<docs, chunks, disk, upstream, sources, starts, events,
                 causes, choice, settled>>

(* What the extractor finds when it opens the file, after the hash was     *)
(* taken: a staged or an inbox file is the one hashed, the stored original *)
(* may have been replaced or removed, an orphan's staging copy is gone.    *)
Opened(j) ==
  CASE job[j].kind = "reingest" -> disk[job[j].name]
    [] job[j].kind = "orphan" -> Null
    [] OTHER -> job[j].hash

Extract(j) ==
  /\ job[j].pc = "extract" /\ Opened(j) # Null
  /\ Step(j, [job[j] EXCEPT !.pc = "embed", !.text = Opened(j)])
  /\ UNCHANGED <<docs, chunks, disk, upstream, sources, starts, events,
                 causes, choice, settled>>

-----------------------------------------------------------------------------
(* _chunk_embed_store, for a file and for a page. *)

(* The other jobs whose transaction on the row of j's document is open. *)
Rivals(j) ==
  {k \in Jobs \ {j} : On(k, job[j].name) /\ job[k].pc = "save"}

(* Mutant of Doomed: the old chunks stay. *)
NothingDoomed(j) == {}

Doomed(j) == IF job[j].old = Null THEN {} ELSE chunks[job[j].name]

(* The transaction begins: DELETE FROM kb_chunks takes its snapshot.  Of   *)
(* two transactions on one row the second waits for the first to end, but  *)
(* its DELETE still sees only what its snapshot held.                      *)
Save(j) ==
  LET n == job[j].name IN
  /\ job[j].pc = "embed"
  /\ Step(j, [job[j] EXCEPT !.pc = "save", !.doomed = Doomed(j)])
  /\ IF Rivals(j) # {} THEN Blame(n, "saved together") ELSE UNCHANGED causes
  /\ UNCHANGED <<docs, chunks, disk, upstream, sources, starts, events,
                 choice, settled>>

(* The row of kb_sources the import began with is still there. *)
SourceThere(j) ==
  sources[job[j].source] # Null /\ sources[job[j].source].id = job[j].row

(* The INSERT meets no row of that name, the UPDATE the row it looked up,  *)
(* the new source_id its source.                                           *)
CanCommit(j) == /\ OldRow(job[j].name) = job[j].old
                /\ Importing(j) => SourceThere(j)

Replaced(j) ==
  LET n == job[j].name IN
  IF job[j].old = Null
  THEN [id |-> job[j].no, hash |-> job[j].hash, source |-> job[j].source,
        enabled |-> TRUE]
  ELSE [docs[n] EXCEPT !.hash = job[j].hash,
          !.source = IF job[j].source = Null THEN @ ELSE job[j].source]

AfterSave(j) ==
  CASE job[j].kind = "upload" -> [job[j] EXCEPT !.pc = "publish"]
    [] job[j].kind = "web" ->
         [job[j] EXCEPT !.pc = "page", !.name = Null, !.doomed = {},
            !.old = Null, !.hash = Null, !.text = Null,
            !.keep = @ \cup {<<job[j].name, job[j].hash>>}]
    [] OTHER -> Idle

Mine(j) == [by |-> job[j].no, text |-> job[j].text]

Commit(j) ==
  LET n == job[j].name IN
  /\ job[j].pc = "save" /\ CanCommit(j)
  /\ docs' = [docs EXCEPT ![n] = Replaced(j)]
  /\ chunks' = [chunks EXCEPT ![n] = (@ \ job[j].doomed) \cup {Mine(j)}]
  /\ Step(j, AfterSave(j))
  /\ causes' = [causes EXCEPT ![n] =
       (@ \ IF Rivals(j) = {} /\ job[j].doomed = chunks[n]
             THEN {"saved together"} ELSE {})
       \cup (CASE job[j].kind = "cli" -> {"inbox"}
              [] job[j].kind = "orphan" -> {"cut short"}
              [] OTHER -> {})]
  /\ UNCHANGED <<disk, upstream, sources, starts, events, choice, settled>>

(* Extraction, the embedder or a statement fails, or the rows do not fit:  *)
(* nothing is written, and an import is given up as a whole.               *)
Fail(j) ==
  /\ job[j].pc \in {"list", "page", "extract", "embed", "save"}
  /\ Step(j, Idle)
  /\ sources' = IF Importing(j) /\ SourceThere(j)
                THEN [sources EXCEPT ![job[j].source].status = "error"]
                ELSE sources
  /\ UNCHANGED <<docs, chunks, disk, upstream, starts, events, causes,
                 choice, settled>>

(* The finally of stream(): the staged file becomes the original. *)
Publish(j) ==
  /\ job[j].pc = "publish"
  /\ disk' = [disk EXCEPT ![job[j].name] = job[j].hash]
  /\ Step(j, Idle)
  /\ UNCHANGED <<docs, chunks, upstream, sources, starts, events, causes,
                 choice, settled>>

-----------------------------------------------------------------------------
(* The import of a source. *)

(* add_source or refresh_source: every other import is disturbed by it. *)
Import(j, s) ==
  /\ ~Busy(j) /\ starts < MaxStarts
  /\ Apart => \A k \in Jobs : Busy(k) => Importing(k)
  /\ Apart => \A f \in Files : docs[f] = Null /\ disk[f] = Null
  /\ starts' = starts + 1
  /\ sources' = [sources EXCEPT ![s] =
                    IF @ = Null THEN [id |-> starts + 1, status |-> "new"]
                    ELSE @]
  /\ job' = [k \in Jobs |->
       IF k = j THEN [Idle EXCEPT !.pc = "list", !.kind = "web",
                        !.source = s, !.no = starts + 1,
                        !.row = sources'[s].id,
                        !.alone = NoImport]
       ELSE [job[k] EXCEPT !.alone = FALSE]]
  /\ settled' = [t \in Sources |-> Null]
  /\ UNCHANGED <<docs, chunks, disk, upstream, events, causes, choice>>

(* The address is fetched: what is published there now are the pages. *)
List(j) ==
  /\ job[j].pc = "list"
  /\ Step(j, [job[j] EXCEPT !.pc = "page",
       !.todo = {p \in Pages : upstream[job[j].source][p] # "absent"}])
  /\ UNCHANGED <<docs, chunks, disk, upstream, sources, starts, events,
                 causes, choice, settled>>

(* A workbook whose list of sheets cannot be read: nothing is removed. *)
NoPages(j) ==
  /\ job[j].pc = "list"
  /\ sources' = IF SourceThere(j)
                THEN [sources EXCEPT ![job[j].source].status = "empty"]
                ELSE sources
  /\ Step(j, Idle)
  /\ UNCHANGED <<docs, chunks, disk, upstream, starts, events, causes,
                 choice, settled>>

(* A page that cannot be fetched, or holds no readable text, is skipped. *)
SkipPage(j, p) ==
  /\ job[j].pc = "page" /\ p \in job[j].todo
  /\ Step(j, [job[j] EXCEPT !.todo = @ \ {p}])
  /\ UNCHANGED <<docs, chunks, disk, upstream, sources, starts, events,
                 causes, choice, settled>>

(* Mutants of KeptUnchanged: only a page that was saved counts as seen;    *)
(* what is kept is the name alone.                                         *)
UnchangedNotKept(j, p, v) == job[j].keep
KeptUnchanged(j, p, v) == job[j].keep \cup {<<p, v>>}

(* A page that is read: its hash is compared as a file's is. *)
ReadPage(j, p) ==
  LET v == upstream[job[j].source][p] IN
  /\ job[j].pc = "page" /\ p \in job[j].todo /\ v # "absent"
  /\ \/ /\ Unchanged(p, v)
        /\ Step(j, [job[j] EXCEPT !.todo = @ \ {p}, !.read = @ \cup {<<p, v>>},
                      !.keep = KeptUnchanged(j, p, v)])
     \/ Step(j, [job[j] EXCEPT !.todo = @ \ {p}, !.read = @ \cup {<<p, v>>},
                   !.pc = "embed", !.name = p, !.hash = v, !.text = v, !.old = OldRow(p)])
  /\ UNCHANGED <<docs, chunks, disk, upstream, sources, starts, events,
                 causes, choice, settled>>

(* The rows of S and, by cascade, their chunks. *)
Gone(S) == /\ docs' = [n \in Names |-> IF n \in S THEN Null ELSE docs[n]]
           /\ chunks' = [n \in Names |-> IF n \in S THEN {} ELSE chunks[n]]

Owned(s) == {p \in Pages : docs[p] # Null /\ docs[p].source = s}

Dropped(j) == {p \in Owned(job[j].source) :
                 SourceThere(j) /\ \A v \in Versions : <<p, v>> \notin job[j].keep}

(* What the source produced before and did not now is deleted. *)
Prune(j) ==
  /\ job[j].pc = "page" /\ job[j].todo = {}
  /\ Gone(Dropped(j))
  /\ causes' = [n \in Names |-> IF n \in Dropped(j) THEN {"dropped"}
                                ELSE causes[n]]
  /\ Step(j, [job[j] EXCEPT !.pc = "finish"])
  /\ UNCHANGED <<disk, upstream, sources, starts, events, choice, settled>>

(* The outcome is written to the source, if it is still there. *)
Finish(j) ==
  LET s == job[j].source IN
  /\ job[j].pc = "finish"
  /\ sources' = IF SourceThere(j)
                THEN [sources EXCEPT ![s].status = "ok"] ELSE sources
  /\ settled' = [settled EXCEPT ![s] =
                   IF job[j].alone THEN job[j].read ELSE Null]
  /\ Step(j, Idle)
  /\ UNCHANGED <<docs, chunks, disk, upstream, starts, events, causes, choice>>

-----------------------------------------------------------------------------
(* People, the connection, the process and the web. *)

SetEnabled(n) ==
  /\ Happens /\ docs[n] # Null
  /\ docs' = [docs EXCEPT ![n].enabled = ~@]
  /\ choice' = [choice EXCEPT ![n] = ~docs[n].enabled]
  /\ UNCHANGED <<chunks, disk, upstream, sources, job, starts, causes, settled>>

(* Somebody removes documents: no import under way is undisturbed now. *)
Disturb == /\ job' = [j \in Jobs |-> [job[j] EXCEPT !.alone = FALSE]]
           /\ settled' = [s \in Sources |-> Null]

(* The row, its chunks by cascade, and the original. *)
DeleteDocument(n) ==
  /\ Happens /\ docs[n] # Null
  /\ docs' = [docs EXCEPT ![n] = Null]
  /\ chunks' = [chunks EXCEPT ![n] = {}]
  /\ choice' = [choice EXCEPT ![n] = Null]
  /\ disk' = IF n \in Files THEN [disk EXCEPT ![n] = Null] ELSE disk
  /\ causes' = [causes EXCEPT ![n] =
       IF \E j \in Jobs : On(j, n) THEN {"worked on together"} ELSE {}]
  /\ Disturb
  /\ UNCHANGED <<upstream, sources, starts>>

DeleteSource(s) ==
  /\ Happens /\ sources[s] # Null
  /\ sources' = [sources EXCEPT ![s] = Null]
  /\ Gone(Owned(s))
  /\ causes' = [n \in Names |-> IF n \in Owned(s) THEN {} ELSE causes[n]]
  /\ choice' = [n \in Names |-> IF n \in Owned(s) THEN Null ELSE choice[n]]
  /\ Disturb
  /\ UNCHANGED <<disk, upstream, starts>>

(* The browser goes away: stream() ends and removes the staging copy, the  *)
(* task it had created goes on.                                            *)
Disconnect(j) ==
  /\ Happens /\ job[j].kind = "upload"
  /\ job[j].pc \in {"look", "extract", "embed", "save"}
  /\ Step(j, [job[j] EXCEPT !.kind = "orphan"])
  /\ UNCHANGED <<docs, chunks, disk, upstream, sources, starts, causes,
                 choice, settled>>

(* admin-api restarts: its jobs are gone, an open transaction with them. *)
Restart ==
  /\ Happens /\ \E j \in Jobs : Busy(j) /\ job[j].kind # "cli"
  /\ job' = [j \in Jobs |-> IF job[j].kind = "cli" THEN job[j] ELSE Idle]
  /\ causes' = [n \in Names |-> causes[n] \cup
       IF \E j \in Jobs : On(j, n) /\ job[j].pc = "publish"
       THEN {"cut short"} ELSE {}]
  /\ UNCHANGED <<docs, chunks, disk, upstream, sources, starts, choice,
                 settled>>

Change(s, p) ==
  /\ Happens
  /\ \E v \in (Versions \cup {"absent"}) \ {upstream[s][p]} :
       upstream' = [upstream EXCEPT ![s][p] = v]
  /\ UNCHANGED <<docs, chunks, disk, sources, job, starts, causes, choice,
                 settled>>

-----------------------------------------------------------------------------
Next ==
  \/ \E j \in Jobs :
       \/ \E f \in Files : Upload(j, f) \/ Reingest(j, f) \/ CommandLine(j, f)
       \/ \E s \in Sources : Import(j, s)
       \/ Look(j) \/ Extract(j) \/ Save(j) \/ Commit(j) \/ Fail(j)
       \/ Publish(j)
       \/ List(j) \/ NoPages(j) \/ Prune(j) \/ Finish(j)
       \/ \E p \in Pages : SkipPage(j, p) \/ ReadPage(j, p)
       \/ Disconnect(j)
  \/ \E n \in Names : SetEnabled(n) \/ DeleteDocument(n)
  \/ \E s \in Sources : DeleteSource(s) \/ \E p \in Publishes[s] : Change(s, p)
  \/ Restart

Spec == Init /\ [][Next]_vars

-----------------------------------------------------------------------------
(* A document is made of the chunks of one ingest, unless two ingests had  *)
(* their transactions on it open together, and then only until the next    *)
(* ingest of it that has it to itself.                                     *)
OneTextPerDocument ==
  \A n \in Names : docs[n] # Null /\ "saved together" \notin causes[n]
                     => Cardinality(chunks[n]) = 1

(* While nobody works on a file, the stored original is the one its        *)
(* document was made from, and there is none without a document: unless    *)
(* jobs on it overlapped, an upload was cut short between its commit and   *)
(* the move of its file, or the command line ingested another copy.        *)
OriginalIsTheDocument ==
  \A f \in Files :
    /\ disk[f] # Null
    /\ \A j \in Jobs : ~On(j, f)
    /\ causes[f] \cap {"worked on together", "cut short", "inbox"} = {}
    => docs[f] # Null /\ docs[f].hash = disk[f]

(* A document somebody switched off stays off through every ingest, unless *)
(* an import that did not see its page dropped it and a later one brought  *)
(* it back.                                                                *)
SwitchedOffStaysOff ==
  \A n \in Names : choice[n] = FALSE /\ docs[n] # Null /\ docs[n].enabled
                     => "dropped" \in causes[n]

(* After an import nothing disturbed, and until the next, the documents of *)
(* the source are the pages it read: each is there with the text it read,  *)
(* and there is no other.                                                  *)
ImportedIsWhatWasRead ==
  \A s \in Sources : settled[s] # Null =>
    /\ \A r \in settled[s] : docs[r[1]] # Null /\ docs[r[1]].hash = r[2]
    /\ \A p \in Owned(s) : \E v \in Versions : <<p, v>> \in settled[s]

(* What is searched of a document is one text, and the text of the file    *)
(* that is kept for re-ingesting it (_chunk_embed_store, kb.py:501,        *)
(* upload_document, routers/kb.py:231).                                    *)
DocumentIsItsOriginal == OneTextPerDocument /\ OriginalIsTheDocument

(* An import leaves the documents its source says, and switched off those  *)
(* that people switched off (ingest_web_source, kb.py:593).                *)
ImportIsFaithful == SwitchedOffStaysOff /\ ImportedIsWhatWasRead

(* What a caller is answered from is the text somebody put there.          *)
KnowledgeIsFaithful == DocumentIsItsOriginal /\ ImportIsFaithful

-----------------------------------------------------------------------------
(* Why it is, first the shape of things.  A job that is about to write a   *)
(* document holds its name and what it found of it; a page that is written *)
(* is no longer to do.                                                     *)
Causes == {"worked on together", "saved together", "cut short", "inbox", "dropped"}
Readings == SUBSET (Pages \X Versions)
Chunk == [by : Nat, text : Versions]
Work ==
  [pc : {"idle", "look", "extract", "embed", "save", "publish", "list", "page", "finish"},
   kind : {"cli", "upload", "reingest", "orphan", "web"},
   name : Names \cup {Null}, hash : Versions \cup {Null}, text : Versions \cup {Null},
   old : Nat \cup {Null}, doomed : SUBSET Chunk, source : Sources \cup {Null},
   row : Nat \cup {Null}, todo : SUBSET Pages, keep : Readings,
   read : Readings, alone : BOOLEAN, no : Nat]

Writing(j, n) == job[j].name = n /\ job[j].pc \in {"look", "extract", "embed", "save"}

Shaped(r) ==
  /\ r.pc = "idle" => r.kind = "cli" /\ r.name = Null
  /\ r.pc # "idle" /\ r.kind # "web" =>
       /\ r.pc \in {"look", "extract", "embed", "save", "publish"}
       /\ r.name \in Files /\ r.source = Null /\ r.todo = {}
  /\ r.kind = "web" =>
       /\ r.pc \in {"list", "page", "embed", "save", "finish"}
       /\ r.source \in Sources /\ r.row \in Nat
       /\ r.pc \in {"embed", "save"} <=> r.name \in Pages \ r.todo
       /\ r.pc \notin {"embed", "save"} => r.name = Null
  /\ r.pc \in {"look", "extract", "embed", "save", "publish"} => r.hash \in Versions
  /\ r.pc \in {"embed", "save"} => r.text \in Versions
  /\ r.pc = "publish" => r.kind = "upload"

KnowledgeOK ==
  /\ docs \in [Names -> Row \cup {Null}] /\ chunks \in [Names -> SUBSET Chunk]
  /\ disk \in [Files -> Versions \cup {Null}]
  /\ upstream \in [Sources -> [Pages -> Versions \cup {"absent"}]]
  /\ sources \in [Sources -> SourceRow \cup {Null}]
  /\ job \in [Jobs -> Work] /\ \A j \in Jobs : Shaped(job[j])
  /\ starts \in Nat /\ causes \in [Names -> SUBSET Causes]
  /\ choice \in [Names -> BOOLEAN \cup {Null}]
  /\ settled \in [Sources -> Readings \cup {Null}]

(* Every job has a number of its own, and makes each document once: a row  *)
(* that was deleted and one made anew are told apart by their ids.         *)
MayMake(k, n) == Busy(k) /\ (Writing(k, n) \/ n \in job[k].todo \/ job[k].pc = "list")
NumbersDiffer ==
  /\ \A j \in Jobs : Busy(j) => job[j].no <= starts
  /\ \A j, k \in Jobs : Busy(j) /\ Busy(k) /\ job[j].no = job[k].no => j = k
  /\ \A n \in Names : docs[n] # Null =>
       docs[n].id <= starts /\ \A k \in Jobs : MayMake(k, n) => docs[n].id # job[k].no
  /\ \A j \in Jobs, n \in Names : Writing(j, n) /\ job[j].old # Null =>
       job[j].old <= starts /\ \A k \in Jobs : MayMake(k, n) => job[j].old # job[k].no

(* A transaction that may still commit deletes all there is, and is the    *)
(* only one, unless two were open together.                                *)
Saves(j, n) == Writing(j, n) /\ job[j].pc = "save" /\ job[j].old = OldRow(n)
ChunksAreOnes ==
  /\ \A n \in Names :
       /\ docs[n] = Null => chunks[n] = {}
       /\ docs[n] # Null /\ "saved together" \notin causes[n] =>
            /\ \E w \in chunks[n] : chunks[n] = {w}
            /\ \A j \in Jobs : Saves(j, n) => job[j].doomed = chunks[n]
            /\ \A j, k \in Jobs : Saves(j, n) /\ Saves(k, n) => j = k
  /\ \A j \in Jobs : job[j].pc = "save" /\ job[j].old = Null => job[j].doomed = {}

(* As long as nothing befell a file, one job at most is at it, and between *)
(* its commit and the move of its file the document is what it will move.  *)
Excused(f) == causes[f] \cap {"worked on together", "cut short", "inbox"} # {}
Own(f) ==
  /\ \A j, k \in Jobs : On(j, f) /\ On(k, f) => j = k
  /\ \A j \in Jobs : On(j, f) =>
       /\ job[j].pc = "publish" => docs[f] # Null /\ docs[f].hash = job[j].hash
       /\ job[j].kind = "reingest" => job[j].hash = disk[f]
  /\ disk[f] # Null /\ (\A j \in Jobs : On(j, f) => job[j].pc # "publish") =>
       docs[f] # Null /\ docs[f].hash = disk[f]
FilesAreTheirOwn == \A f \in Files : Excused(f) \/ Own(f)

(* A choice outlives its document only if an import dropped it.            *)
ChoicesOutliveDrops ==
  \A n \in Names : choice[n] = FALSE /\ (docs[n] = Null \/ docs[n].enabled)
                     => "dropped" \in causes[n]

(* An import that nothing disturbs has its source and is the only one, and *)
(* what it has kept is there with the text it read.                        *)
BeingWritten(j) == IF job[j].name = Null THEN {} ELSE {<<job[j].name, job[j].hash>>}
Undisturbed(j) ==
  /\ Importing(j) /\ SourceThere(j)
  /\ \A k \in Jobs : Importing(k) => k = j
  /\ job[j].pc = "list" => job[j].read = {}
  /\ job[j].read = job[j].keep \cup BeingWritten(j)
  /\ \A r \in job[j].read : r[1] \notin job[j].todo
  /\ \A r \in job[j].keep :
       docs[r[1]] # Null /\ docs[r[1]].hash = r[2] /\ r[1] # job[j].name
  /\ job[j].pc = "finish" =>
       \A p \in Owned(job[j].source) : \E v \in Versions : <<p, v>> \in job[j].keep

ImportsAreWhole ==
  /\ \A j \in Jobs : job[j].alone => Undisturbed(j)
  /\ \A s \in Sources : settled[s] # Null => NoImport
  /\ ImportedIsWhatWasRead

KnowledgeInv ==
  /\ KnowledgeOK /\ NumbersDiffer /\ ChunksAreOnes /\ FilesAreTheirOwn
  /\ ChoicesOutliveDrops /\ ImportsAreWhole
=============================================================================
