--------------------------- MODULE Knowledge_proofs ---------------------------
(* A document is what somebody put there, for any files and addresses, any *)
(* number of jobs under way at once and any contents.                      *)
EXTENDS Knowledge, FiniteSetTheorems, TLAPS

LEMMA Constants ==
  /\ Null \notin Names /\ Null \notin Sources /\ Null \notin Versions /\ Null \notin Nat
  /\ Null \notin Row /\ Null \notin SourceRow /\ Null \notin BOOLEAN
  /\ Files \cap Pages = {} /\ Names = Files \cup Pages
  /\ Publishes \in [Sources -> SUBSET Pages]
  BY KnowledgeAssumption, NullIsNoRow DEF Names

LEMMA IdleJob ==
  /\ Idle \in Work
  /\ Idle.pc = "idle" /\ Idle.kind = "cli" /\ Idle.name = Null /\ Idle.source = Null
  /\ Idle.todo = {} /\ Idle.keep = {} /\ Idle.read = {} /\ Idle.alone = FALSE
  /\ Idle.old = Null /\ Idle.doomed = {}
  BY DEF Idle, Work, Readings

(* One job moves, the others stay.                                         *)
LEMMA StepFacts ==
  ASSUME KnowledgeOK, NEW j \in Jobs, NEW r \in Work, Step(j, r)
  PROVE  /\ job' \in [Jobs -> Work] /\ job'[j] = r
         /\ \A k \in Jobs : k # j => job'[k] = job[k]
  BY DEF KnowledgeOK, Step

(* The next-state relation, the three ways to begin with a file as one.    *)
Kinds == {"upload", "reingest", "cli"}
Starts(j) ==
  \E kind \in Kinds, f \in Files, v \in Versions :
    BeginFile(j, kind, f, v) /\ (kind = "reingest" => v = disk[f])

LEMMA Steps ==
  ASSUME KnowledgeOK, Next
  PROVE  \/ \E j \in Jobs :
              \/ Starts(j) \/ \E s \in Sources : Import(j, s)
              \/ Look(j) \/ Extract(j) \/ Save(j) \/ Commit(j) \/ Fail(j) \/ Publish(j)
              \/ List(j) \/ NoPages(j) \/ Prune(j) \/ Finish(j)
              \/ \E p \in Pages : SkipPage(j, p) \/ ReadPage(j, p)
              \/ Disconnect(j)
         \/ \E n \in Names : SetEnabled(n) \/ DeleteDocument(n)
         \/ \E s \in Sources : DeleteSource(s) \/ \E p \in Pages : Change(s, p)
         \/ Restart
<1>1. ASSUME NEW j \in Jobs, NEW f \in Files, Upload(j, f) \/ Reingest(j, f) \/ CommandLine(j, f)
      PROVE  Starts(j)
  <2>1. disk[f] # Null => disk[f] \in Versions
    BY DEF KnowledgeOK
  <2> QED
    BY <1>1, <2>1 DEF Upload, Reingest, CommandLine, Starts, Kinds
<1>2. \A s \in Sources : Publishes[s] \subseteq Pages
  BY Constants
<1> QED
  BY <1>1, <1>2 DEF Next

-----------------------------------------------------------------------------
(* The shape of things.                                                    *)

LEMMA BlameFacts ==
  ASSUME KnowledgeOK, NEW n, NEW c \in Causes, Blame(n, c) \/ UNCHANGED causes
  PROVE  /\ causes' \in [Names -> SUBSET Causes]
         /\ \A m \in Names : causes[m] \subseteq causes'[m]
         /\ \A m \in Names : m # n => causes'[m] = causes[m]
         /\ n \in Names /\ Blame(n, c) => c \in causes'[n]
  BY ZenonT(60) DEF KnowledgeOK, Blame

(* A step of a job that writes neither documents nor chunks.               *)
LEMMA Unwritten ==
  ASSUME KnowledgeOK, NEW j \in Jobs, NEW r \in Work, Step(j, r), Shaped(r),
         UNCHANGED <<docs, chunks, choice>>, starts' \in Nat,
         disk' \in [Files -> Versions \cup {Null}],
         upstream' \in [Sources -> [Pages -> Versions \cup {"absent"}]],
         sources' \in [Sources -> SourceRow \cup {Null}],
         causes' \in [Names -> SUBSET Causes],
         settled' \in [Sources -> Readings \cup {Null}]
  PROVE  KnowledgeOK'
<1>1. job' \in [Jobs -> Work] /\ \A k \in Jobs : Shaped(job'[k])
  BY StepFacts DEF KnowledgeOK
<1> QED
  BY <1>1 DEF KnowledgeOK

LEMMA ShapeOfBeginning ==
  ASSUME KnowledgeOK, NEW j \in Jobs, Starts(j) PROVE KnowledgeOK'
<1> PICK kind \in Kinds, f \in Files, v \in Versions : BeginFile(j, kind, f, v)
  BY DEF Starts
<1> DEFINE r == [Idle EXCEPT !.pc = "look", !.kind = kind, !.name = f,
                             !.hash = v, !.no = starts + 1]
<1>1. f \in Names /\ kind \in {"cli", "upload", "reingest", "orphan", "web"} /\ starts + 1 \in Nat
  BY Constants DEF KnowledgeOK, Kinds
<1>2. r \in Work
  BY IdleJob, <1>1 DEF Work
<1>3. Shaped(r)
  BY IdleJob, <1>1, Constants DEF Shaped, Kinds, Work
<1>4. Step(j, r)
  BY DEF BeginFile
<1>5. causes' \in [Names -> SUBSET Causes]
  BY BlameFacts DEF BeginFile, Causes
<1> HIDE DEF r
<1>6. UNCHANGED <<docs, chunks, disk, upstream, sources, choice, settled>> /\ starts' = starts + 1
  BY DEF BeginFile
<1> QED
  BY <1>1, <1>2, <1>3, <1>4, <1>5, <1>6, Unwritten DEF KnowledgeOK

LEMMA ShapeOfFiles ==
  ASSUME KnowledgeOK, NEW j \in Jobs,
         Look(j) \/ Extract(j) \/ Save(j) \/ Publish(j) \/ Disconnect(j)
  PROVE  KnowledgeOK'
<1> USE Constants
<1>0. job[j] \in Work /\ Shaped(job[j])
  BY DEF KnowledgeOK
<1>1. CASE Look(j)
  <2>1. OldRow(job[j].name) \in Nat \cup {Null}
    BY <1>0, <1>1 DEF OldRow, Look, Shaped, KnowledgeOK, Row
  <2>2. CASE Step(j, [job[j] EXCEPT !.pc = "publish"]) /\ job[j].kind = "upload"
    <3> DEFINE r == [job[j] EXCEPT !.pc = "publish"]
    <3>1. r \in Work /\ Shaped(r)
      BY <1>0, <1>1, <2>2 DEF Look, Shaped, Work
    <3> QED
      BY <3>1, <2>2, <1>1, Unwritten DEF Look, KnowledgeOK
  <2>3. CASE Step(j, Idle)
    <3>1. Shaped(Idle)
      BY IdleJob DEF Shaped
    <3> QED
      BY <3>1, <2>3, <1>1, IdleJob, Unwritten DEF Look, KnowledgeOK
  <2>4. CASE Step(j, [job[j] EXCEPT !.pc = "extract", !.old = OldRow(job[j].name)])
    <3> DEFINE r == [job[j] EXCEPT !.pc = "extract", !.old = OldRow(job[j].name)]
    <3>1. r \in Work
      BY <1>0, <2>1, ZenonT(60) DEF Work
    <3>2. Shaped(r)
      BY <1>0, <1>1 DEF Look, Shaped, Work
    <3> QED
      BY <3>1, <3>2, <2>4, <1>1, Unwritten DEF Look, KnowledgeOK
  <2> QED
    BY <1>1, <2>2, <2>3, <2>4 DEF Look
<1>2. CASE Extract(j)
  <2> DEFINE r == [job[j] EXCEPT !.pc = "embed", !.text = Opened(j)]
  <2>1. Opened(j) \in Versions
    BY <1>0, <1>2 DEF Opened, Extract, Shaped, KnowledgeOK
  <2>2. r \in Work /\ Step(j, r)
    BY <1>0, <1>2, <2>1 DEF Extract, Work
  <2>3. Shaped(r)
    BY <1>0, <1>2, <2>1 DEF Extract, Shaped, Work
  <2> QED
    BY <2>2, <2>3, <1>2, Unwritten DEF Extract, KnowledgeOK
<1>3. CASE Save(j)
  <2> DEFINE r == [job[j] EXCEPT !.pc = "save", !.doomed = Doomed(j)]
  <2>1. Doomed(j) \in SUBSET Chunk
    BY <1>0, <1>3 DEF Doomed, Save, Shaped, KnowledgeOK
  <2>2. r \in Work /\ Step(j, r)
    BY <1>0, <1>3, <2>1, ZenonT(60) DEF Save, Work
  <2>3. Shaped(r)
    BY <1>0, <1>3 DEF Save, Shaped, Work
  <2>4. causes' \in [Names -> SUBSET Causes]
    BY <1>3, BlameFacts DEF Save, Causes
  <2> QED
    BY <2>2, <2>3, <2>4, <1>3, Unwritten DEF Save, KnowledgeOK
<1>4. CASE Publish(j)
  <2>1. Shaped(Idle)
    BY IdleJob DEF Shaped
  <2>2. disk' \in [Files -> Versions \cup {Null}]
    BY <1>0, <1>4 DEF Publish, KnowledgeOK, Shaped
  <2> QED
    BY <2>1, <2>2, <1>4, IdleJob, Unwritten DEF Publish, KnowledgeOK
<1>5. CASE Disconnect(j)
  <2> DEFINE r == [job[j] EXCEPT !.kind = "orphan"]
  <2>1. r \in Work /\ Step(j, r)
    BY <1>0, <1>5 DEF Disconnect, Work
  <2>2. Shaped(r)
    BY <1>0, <1>5 DEF Disconnect, Shaped, Work
  <2> QED
    BY <2>1, <2>2, <1>5, Unwritten DEF Disconnect, KnowledgeOK
<1> QED
  BY <1>1, <1>2, <1>3, <1>4, <1>5

LEMMA GoneFacts ==
  ASSUME KnowledgeOK, NEW S, Gone(S)
  PROVE  /\ docs' \in [Names -> Row \cup {Null}] /\ chunks' \in [Names -> SUBSET Chunk]
         /\ \A n \in Names : n \in S => docs'[n] = Null /\ chunks'[n] = {}
         /\ \A n \in Names : n \notin S => docs'[n] = docs[n] /\ chunks'[n] = chunks[n]
  BY DEF KnowledgeOK, Gone

LEMMA SourceStays ==
  ASSUME KnowledgeOK, NEW s \in Sources, NEW w \in {"ok", "empty", "error"}, NEW there \in BOOLEAN,
         there => sources[s] # Null,
         sources' = IF there THEN [sources EXCEPT ![s].status = w] ELSE sources
  PROVE  /\ sources' \in [Sources -> SourceRow \cup {Null}]
         /\ \A t \in Sources : (sources'[t] = Null <=> sources[t] = Null)
                               /\ (sources[t] # Null => sources'[t].id = sources[t].id)
<1>1. sources[s] # Null => /\ [sources[s] EXCEPT !.status = w] \in SourceRow
                           /\ [sources[s] EXCEPT !.status = w].id = sources[s].id
  BY DEF KnowledgeOK, SourceRow
<1> QED
  BY <1>1, Constants DEF KnowledgeOK

LEMMA ShapeOfImports ==
  ASSUME KnowledgeOK, NEW j \in Jobs,
         \/ List(j) \/ NoPages(j) \/ Finish(j) \/ Fail(j)
         \/ \E p \in Pages : SkipPage(j, p) \/ ReadPage(j, p)
  PROVE  KnowledgeOK'
<1> USE Constants
<1>0. job[j] \in Work /\ Shaped(job[j]) /\ Shaped(Idle)
  BY IdleJob DEF KnowledgeOK, Shaped
<1>1. CASE List(j)
  <2> DEFINE T == {p \in Pages : upstream[job[j].source][p] # "absent"}
             r == [job[j] EXCEPT !.pc = "page", !.todo = T]
  <2>1. T \in SUBSET Pages
    OBVIOUS
  <2> HIDE DEF T
  <2>2. r \in Work
    BY <1>0, <2>1 DEF Work
  <2>3. Shaped(r)
    BY <1>0, <1>1 DEF List, Shaped, Work
  <2>4. Step(j, r)
    BY <1>1 DEF List, T
  <2> QED
    BY <2>2, <2>3, <2>4, <1>1, Unwritten DEF List, KnowledgeOK
<1>2. CASE NoPages(j)
  <2>1. sources' \in [Sources -> SourceRow \cup {Null}]
    <3>1. job[j].source \in Sources
      BY <1>0, <1>2 DEF NoPages, Shaped
    <3> QED
      BY <3>1, <1>2, SourceStays DEF NoPages, SourceThere
  <2> QED
    BY <2>1, <1>0, <1>2, IdleJob, Unwritten DEF NoPages, KnowledgeOK
<1>3. CASE Finish(j)
  <2>1. job[j].source \in Sources
    BY <1>0, <1>3 DEF Finish, Shaped
  <2>2. sources' \in [Sources -> SourceRow \cup {Null}]
    BY <2>1, <1>3, SourceStays DEF Finish, SourceThere
  <2>3. settled' \in [Sources -> Readings \cup {Null}]
    BY <2>1, <1>0, <1>3 DEF Finish, KnowledgeOK, Work
  <2> QED
    BY <2>2, <2>3, <1>0, <1>3, IdleJob, Unwritten DEF Finish, KnowledgeOK
<1>4. CASE Fail(j)
  <2>1. sources' \in [Sources -> SourceRow \cup {Null}]
    <3>1. Importing(j) => job[j].source \in Sources
      BY <1>0 DEF Importing, Shaped
    <3>2. CASE Importing(j) /\ SourceThere(j)
      BY <3>1, <3>2, <1>4, SourceStays DEF Fail, SourceThere
    <3>3. CASE ~(Importing(j) /\ SourceThere(j))
      BY <3>3, <1>4 DEF Fail, KnowledgeOK
    <3> QED
      BY <3>2, <3>3
  <2> QED
    BY <2>1, <1>0, <1>4, IdleJob, Unwritten DEF Fail, KnowledgeOK
<1>5. ASSUME NEW p \in Pages, SkipPage(j, p) PROVE KnowledgeOK'
  <2> DEFINE r == [job[j] EXCEPT !.todo = @ \ {p}]
  <2>1. r \in Work
    BY <1>0 DEF Work
  <2>2. Shaped(r)
    BY <1>0, <1>5 DEF SkipPage, Shaped, Work
  <2> QED
    BY <2>1, <2>2, <1>5, Unwritten DEF SkipPage, KnowledgeOK
<1>6. ASSUME NEW p \in Pages, ReadPage(j, p) PROVE KnowledgeOK'
  <2> DEFINE v == upstream[job[j].source][p]
             T == job[j].todo \ {p}
             R == job[j].read \cup {<<p, v>>}
             K == KeptUnchanged(j, p, v)
             o == OldRow(p)
             a == [job[j] EXCEPT !.todo = T, !.read = R, !.keep = K]
             b == [job[j] EXCEPT !.todo = T, !.read = R, !.pc = "embed",
                                 !.name = p, !.hash = v, !.text = v, !.old = o]
  <2>1. v \in Versions /\ p \in Names
    <3>1. job[j].source \in Sources
      BY <1>0, <1>6 DEF ReadPage, Shaped
    <3>2. upstream[job[j].source][p] \in Versions \cup {"absent"}
      BY <3>1 DEF KnowledgeOK
    <3>3. v # "absent"
      BY <1>6 DEF ReadPage
    <3> QED
      BY <3>2, <3>3, Constants
  <2>2. o \in Nat \cup {Null}
    BY <2>1 DEF OldRow, KnowledgeOK, Row
  <2>3. K \in Readings /\ R \in Readings
    BY <2>1, <1>0 DEF KeptUnchanged, Work, Readings
  <2>4. T \in SUBSET Pages /\ p \notin T
    BY <1>0 DEF Work
  <2>5. Step(j, a) \/ Step(j, b)
    BY <1>6 DEF ReadPage
  <2>6. /\ job[j].pc = "page" /\ starts' = starts
        /\ UNCHANGED <<docs, chunks, disk, upstream, sources, causes, choice, settled>>
    BY <1>6 DEF ReadPage
  <2> HIDE DEF v, T, R, K, o
  <2>7. a \in Work
    BY <1>0, <2>3, <2>4, ZenonT(60) DEF Work
  <2>8. b \in Work
    BY <1>0, <2>1, <2>2, <2>3, <2>4 DEF Work
  <2>9. Shaped(a)
    BY <1>0, <2>6 DEF Shaped, Work
  <2>10. Shaped(b)
    BY <1>0, <2>1, <2>4, <2>6 DEF Shaped, Work
  <2> QED
    BY <2>5, <2>6, <2>7, <2>8, <2>9, <2>10, Unwritten DEF KnowledgeOK
<1> QED
  BY <1>1, <1>2, <1>3, <1>4, <1>5, <1>6

LEMMA ShapeOfImport ==
  ASSUME KnowledgeOK, NEW j \in Jobs, NEW s \in Sources, Import(j, s)
  PROVE  /\ KnowledgeOK'
         /\ sources'[s] # Null /\ sources'[s].id = job'[j].row
         /\ job'[j].pc = "list" /\ job'[j].kind = "web" /\ job'[j].source = s
         /\ job'[j].name = Null /\ job'[j].no = starts + 1 /\ job'[j].todo = {}
         /\ job'[j].keep = {} /\ job'[j].read = {} /\ job'[j].old = Null
         /\ job'[j].alone = NoImport
         /\ \A k \in Jobs : k # j => job'[k] = [job[k] EXCEPT !.alone = FALSE]
         /\ \A t \in Sources : t # s => sources'[t] = sources[t]
<1> DEFINE n == starts + 1
           i == sources'[s].id
<1>0. PICK b \in BOOLEAN : b = NoImport
  BY DEF NoImport
<1> DEFINE r == [Idle EXCEPT !.pc = "list", !.kind = "web", !.source = s, !.no = n,
                             !.row = i, !.alone = b]
<1>1. n \in Nat
  BY DEF KnowledgeOK
<1>2. sources' = [sources EXCEPT ![s] = IF @ = Null THEN [id |-> n, status |-> "new"] ELSE @]
  BY DEF Import
<1>3. [id |-> n, status |-> "new"] \in SourceRow
  BY <1>1 DEF SourceRow
<1>4. /\ sources' \in [Sources -> SourceRow \cup {Null}] /\ sources'[s] # Null
      /\ \A t \in Sources : t # s => sources'[t] = sources[t]
  BY <1>2, <1>3, Constants DEF KnowledgeOK
<1>5. i \in Nat
  BY <1>4 DEF SourceRow
<1>6. job' = [k \in Jobs |-> IF k = j THEN r ELSE [job[k] EXCEPT !.alone = FALSE]]
  BY <1>0 DEF Import
<1>7. UNCHANGED <<docs, chunks, disk, upstream, causes, choice>>
  BY DEF Import
<1>8. settled' \in [Sources -> Readings \cup {Null}] /\ starts' = n
  <2>1. settled' = [t \in Sources |-> Null] /\ starts' = n
    BY DEF Import
  <2> QED
    BY <2>1
<1> HIDE DEF n, i
<1>9. r \in Work /\ r.pc = "list" /\ r.kind = "web" /\ r.source = s /\ r.name = Null
      /\ r.no = n /\ r.row = i /\ r.alone = b /\ r.todo = {} /\ r.keep = {} /\ r.read = {}
      /\ r.old = Null
  <2> DEFINE q == [Idle EXCEPT !.pc = "list", !.kind = "web", !.source = s, !.no = n, !.row = i]
  <2>3. q \in Work
    BY <1>1, <1>5, IdleJob DEF Work
  <2>4. [q EXCEPT !.alone = b] \in Work
    <3> HIDE DEF q
    <3>1. [q EXCEPT !.alone = TRUE] \in Work
      BY <2>3 DEF Work
    <3>2. [q EXCEPT !.alone = FALSE] \in Work
      BY <2>3 DEF Work
    <3> QED
      BY <3>1, <3>2, b = TRUE \/ b = FALSE
  <2>1. r \in Work
    BY <2>4, IdleJob DEF Work
  <2>2. /\ r.pc = "list" /\ r.kind = "web" /\ r.source = s /\ r.name = Null
        /\ r.no = n /\ r.row = i /\ r.alone = b /\ r.todo = {} /\ r.keep = {} /\ r.read = {}
        /\ r.old = Null
    BY IdleJob DEF Work
  <2> QED
    BY <2>1, <2>2
<1>10. Shaped(r)
  BY <1>9, <1>5, Constants DEF Shaped
<1>11. \A k \in Jobs : [job[k] EXCEPT !.alone = FALSE] \in Work /\ Shaped([job[k] EXCEPT !.alone = FALSE])
  <2> SUFFICES ASSUME NEW k \in Jobs
               PROVE  [job[k] EXCEPT !.alone = FALSE] \in Work /\ Shaped([job[k] EXCEPT !.alone = FALSE])
    OBVIOUS
  <2>1. job[k] \in Work /\ Shaped(job[k])
    BY DEF KnowledgeOK
  <2>2. [job[k] EXCEPT !.alone = FALSE] \in Work
    BY <2>1 DEF Work
  <2>3. Shaped([job[k] EXCEPT !.alone = FALSE])
    BY <2>1 DEF Work, Shaped
  <2> QED
    BY <2>2, <2>3
<1> HIDE DEF r
<1>12. job' \in [Jobs -> Work] /\ \A k \in Jobs : Shaped(job'[k])
  BY <1>6, <1>9, <1>10, <1>11
<1>13. KnowledgeOK'
  BY <1>1, <1>4, <1>7, <1>8, <1>12 DEF KnowledgeOK
<1> QED
  BY <1>0, <1>4, <1>6, <1>9, <1>13 DEF n, i

(* What a commit does to the document it is of, and that it does no more.  *)
LEMMA CommitFacts ==
  ASSUME KnowledgeOK, NEW j \in Jobs, Commit(j), NEW n, n = job[j].name
  PROVE  /\ n \in Names /\ job[j].hash \in Versions /\ Mine(j) \in Chunk
         /\ job[j].pc = "save" /\ job[j].old = OldRow(n)
         /\ docs'[n] \in Row /\ docs'[n] # Null /\ docs'[n].hash = job[j].hash
         /\ docs[n] = Null => docs'[n].id = job[j].no /\ docs'[n].enabled = TRUE
                              /\ docs'[n].source = job[j].source
         /\ docs[n] # Null => /\ docs'[n].id = docs[n].id /\ docs'[n].enabled = docs[n].enabled
                              /\ job[j].source = Null => docs'[n].source = docs[n].source
                              /\ job[j].source # Null => docs'[n].source = job[j].source
         /\ docs' \in [Names -> Row \cup {Null}]
         /\ \A m \in Names : m # n => docs'[m] = docs[m] /\ chunks'[m] = chunks[m]
         /\ chunks' \in [Names -> SUBSET Chunk]
         /\ chunks'[n] = (chunks[n] \ job[j].doomed) \cup {Mine(j)}
<1>0. job[j] \in Work /\ Shaped(job[j]) /\ job[j].pc = "save" /\ CanCommit(j) /\ job[j].old = OldRow(n)
  BY DEF KnowledgeOK, Commit, CanCommit
<1>1. n \in Names /\ job[j].hash \in Versions /\ job[j].text \in Versions /\ job[j].no \in Nat
      /\ job[j].source \in Sources \cup {Null}
  BY <1>0, Constants DEF Shaped, Work
<1>2. Mine(j) \in Chunk
  BY <1>1 DEF Mine, Chunk
<1>3. CASE docs[n] = Null
  <2>1. job[j].old = Null
    BY <1>0, <1>3 DEF OldRow
  <2> DEFINE d == [id |-> job[j].no, hash |-> job[j].hash, source |-> job[j].source, enabled |-> TRUE]
  <2>2. d \in Row
    BY <1>1 DEF Row
  <2>6. d # Null
    BY <2>2, Constants
  <2>3. Replaced(j) = d
    BY <2>1 DEF Replaced
  <2>4. docs' = [docs EXCEPT ![n] = d] /\ chunks' = [chunks EXCEPT ![n] = (@ \ job[j].doomed) \cup {Mine(j)}]
    BY <2>3 DEF Commit
  <2> QED
    BY <1>0, <1>1, <1>2, <1>3, <2>2, <2>4, <2>6 DEF KnowledgeOK
<1>4. CASE docs[n] # Null
  <2>1. docs[n] \in Row /\ docs[n].id \in Nat /\ job[j].old # Null
    BY <1>0, <1>1, <1>4, Constants DEF KnowledgeOK, OldRow, Row
  <2> DEFINE o == IF job[j].source = Null THEN docs[n].source ELSE job[j].source
             d == [docs[n] EXCEPT !.hash = job[j].hash, !.source = o]
  <2>2. Replaced(j) = d
    BY <2>1 DEF Replaced
  <2>3. o \in Sources \cup {Null}
    BY <1>1, <2>1 DEF Row
  <2>4. d \in Row /\ d # Null
    BY <1>1, <2>1, <2>3, Constants DEF Row
  <2>5. docs' = [docs EXCEPT ![n] = d] /\ chunks' = [chunks EXCEPT ![n] = (@ \ job[j].doomed) \cup {Mine(j)}]
    BY <2>2 DEF Commit
  <2>6. d.id = docs[n].id /\ d.hash = job[j].hash /\ d.enabled = docs[n].enabled /\ d.source = o
    BY <2>1 DEF Row
  <2> HIDE DEF d
  <2> QED
    BY <1>0, <1>1, <1>2, <1>4, <2>4, <2>5, <2>6 DEF KnowledgeOK
<1> QED
  BY <1>3, <1>4

LEMMA CommitElsewhere ==
  ASSUME KnowledgeOK, NEW j \in Jobs, Commit(j), NEW m \in Names, m # job[j].name
  PROVE  docs'[m] = docs[m] /\ chunks'[m] = chunks[m] /\ causes'[m] = causes[m]
<1>1. docs'[m] = docs[m] /\ chunks'[m] = chunks[m]
  BY DEF KnowledgeOK, Commit
<1>2. PICK S : causes' = [causes EXCEPT ![job[j].name] = S]
  BY DEF Commit
<1> QED
  BY <1>1, <1>2 DEF KnowledgeOK

(* What becomes of the job that commits, and of what is said of its past.  *)
LEMMA AfterCommit ==
  ASSUME KnowledgeOK, NEW j \in Jobs, Commit(j), NEW n, n = job[j].name
  PROVE  /\ KnowledgeOK'
         /\ \A k \in Jobs : k # j => job'[k] = job[k]
         /\ \/ job[j].kind = "upload" /\ job'[j] = [job[j] EXCEPT !.pc = "publish"]
            \/ /\ job[j].kind = "web" /\ job'[j].kind = "web" /\ job'[j].pc = "page"
               /\ job'[j].name = Null /\ job'[j].keep = job[j].keep \cup {<<n, job[j].hash>>}
               /\ job'[j].read = job[j].read /\ job'[j].todo = job[j].todo
               /\ job'[j].source = job[j].source /\ job'[j].row = job[j].row
               /\ job'[j].no = job[j].no /\ job'[j].alone = job[j].alone
               /\ job'[j].old = Null
            \/ job[j].kind \in {"cli", "reingest", "orphan"} /\ job'[j] = Idle
         /\ \A m \in Names : m # n => causes'[m] = causes[m]
         /\ \A c \in causes[n] : c # "saved together" => c \in causes'[n]
         /\ "saved together" \in causes[n] \ causes'[n] => Rivals(j) = {} /\ job[j].doomed = chunks[n]
         /\ job[j].kind = "cli" => "inbox" \in causes'[n]
         /\ job[j].kind = "orphan" => "cut short" \in causes'[n]
<1>0. job[j] \in Work /\ Shaped(job[j]) /\ job[j].pc = "save" /\ CanCommit(j)
  BY DEF KnowledgeOK, Commit
<1>1. n \in Names /\ job[j].hash \in Versions
  BY CommitFacts
<1>2. job[j].kind = "web" => n \in Pages
  BY <1>0, Constants DEF Shaped
<1> DEFINE K == job[j].keep \cup {<<n, job[j].hash>>}
<1>3. job[j].kind = "web" => K \in Readings
  BY <1>0, <1>1, <1>2 DEF Work, Readings
<1> DEFINE p == [job[j] EXCEPT !.pc = "publish"]
           w == [job[j] EXCEPT !.pc = "page", !.name = Null, !.doomed = {},
                   !.old = Null, !.hash = Null, !.text = Null, !.keep = K]
<1> HIDE DEF K
<1>4. p \in Work /\ (job[j].kind = "upload" => Shaped(p))
  <2>1. p \in Work
    BY <1>0 DEF Work
  <2>2. job[j].kind = "upload" => Shaped(p)
    BY <1>0 DEF Work, Shaped
  <2> QED
    BY <2>1, <2>2
<1>5. ASSUME job[j].kind = "web"
      PROVE  w \in Work /\ Shaped(w)
  <2>1. w \in Work
    BY <1>0, <1>3, <1>5 DEF Work
  <2>2. Shaped(w)
    BY <1>0, <1>5, Constants DEF Work, Shaped
  <2> QED
    BY <2>1, <2>2
<1>6. Shaped(Idle)
  BY IdleJob DEF Shaped
<1>7. \/ job[j].kind = "upload" /\ Step(j, p)
      \/ job[j].kind = "web" /\ Step(j, w)
      \/ job[j].kind \in {"cli", "reingest", "orphan"} /\ Step(j, Idle)
  BY <1>0 DEF Commit, AfterSave, Work, K
<1> DEFINE Gained == CASE job[j].kind = "cli" -> {"inbox"}
                       [] job[j].kind = "orphan" -> {"cut short"}
                       [] OTHER -> {}
           Lost == IF Rivals(j) = {} /\ job[j].doomed = chunks[n] THEN {"saved together"} ELSE {}
<1>8. causes' = [causes EXCEPT ![n] = (@ \ Lost) \cup Gained]
  BY DEF Commit
<1>9. Gained \in SUBSET Causes
  BY DEF Causes
<1>10. causes' \in [Names -> SUBSET Causes]
       /\ \A m \in Names : m # n => causes'[m] = causes[m]
  <2> HIDE DEF Gained, Lost
  <2> QED
    BY <1>8, <1>9 DEF KnowledgeOK
<1>11. /\ \A c \in causes[n] : c # "saved together" => c \in causes'[n]
       /\ "saved together" \in causes[n] \ causes'[n] => Rivals(j) = {} /\ job[j].doomed = chunks[n]
       /\ job[j].kind = "cli" => "inbox" \in causes'[n]
       /\ job[j].kind = "orphan" => "cut short" \in causes'[n]
  <2>1. causes'[n] = (causes[n] \ Lost) \cup Gained
    <3> HIDE DEF Gained, Lost
    <3> QED
      BY <1>8, <1>1 DEF KnowledgeOK
  <2> QED
    BY <2>1
<1>12. /\ docs' \in [Names -> Row \cup {Null}] /\ chunks' \in [Names -> SUBSET Chunk]
  BY CommitFacts
<1>13. UNCHANGED <<disk, upstream, sources, starts, choice, settled>>
  BY DEF Commit
<1>14. \E r \in Work : Step(j, r) /\ Shaped(r)
  BY <1>4, <1>5, <1>6, <1>7, IdleJob
<1>15. KnowledgeOK' /\ \A k \in Jobs : k # j => job'[k] = job[k]
  BY <1>14, <1>10, <1>12, <1>13, StepFacts DEF KnowledgeOK
<1>16. w.kind = job[j].kind /\ w.pc = "page" /\ w.name = Null /\ w.keep = K /\ w.read = job[j].read
       /\ w.todo = job[j].todo /\ w.source = job[j].source /\ w.row = job[j].row
       /\ w.no = job[j].no /\ w.alone = job[j].alone /\ w.old = Null
  BY <1>0 DEF Work
<1>17. \/ job[j].kind = "upload" /\ job'[j] = p
       \/ job[j].kind = "web" /\ job'[j] = w
       \/ job[j].kind \in {"cli", "reingest", "orphan"} /\ job'[j] = Idle
  BY <1>4, <1>5, <1>7, IdleJob, StepFacts
<1> HIDE DEF w
<1> QED
  BY <1>10, <1>11, <1>15, <1>16, <1>17 DEF K

(* People, the process and the web.                                        *)
LEMMA EnabledFacts ==
  ASSUME KnowledgeOK, NEW n \in Names, SetEnabled(n)
  PROVE  /\ KnowledgeOK'
         /\ docs'[n] # Null /\ docs'[n].id = docs[n].id /\ docs'[n].hash = docs[n].hash
         /\ docs'[n].source = docs[n].source /\ choice'[n] = docs'[n].enabled
         /\ \A m \in Names : m # n => docs'[m] = docs[m] /\ choice'[m] = choice[m]
         /\ \A m \in Names : docs'[m] = Null <=> docs[m] = Null
<1>1. docs[n] # Null /\ docs[n] \in Row
  BY DEF SetEnabled, KnowledgeOK
<1> DEFINE d == [docs[n] EXCEPT !.enabled = ~@]
<1>2. d \in Row /\ d.id = docs[n].id /\ d.hash = docs[n].hash /\ d.source = docs[n].source
      /\ d.enabled = ~docs[n].enabled /\ d.enabled \in BOOLEAN
  BY <1>1 DEF Row
<1>3. d # Null
  BY <1>2, Constants
<1>4. docs' = [docs EXCEPT ![n] = d] /\ choice' = [choice EXCEPT ![n] = ~docs[n].enabled]
  BY <1>1 DEF SetEnabled
<1> HIDE DEF d
<1>5. docs' \in [Names -> Row \cup {Null}] /\ choice' \in [Names -> BOOLEAN \cup {Null}]
      /\ docs'[n] = d /\ choice'[n] = ~docs[n].enabled
      /\ \A m \in Names : m # n => docs'[m] = docs[m] /\ choice'[m] = choice[m]
  BY <1>2, <1>4 DEF KnowledgeOK
<1>6. KnowledgeOK'
  BY <1>5 DEF SetEnabled, KnowledgeOK
<1> QED
  BY <1>1, <1>2, <1>3, <1>5, <1>6

LEMMA DisturbFacts ==
  ASSUME KnowledgeOK, Disturb
  PROVE  /\ job' \in [Jobs -> Work] /\ \A j \in Jobs : Shaped(job'[j])
         /\ \A j \in Jobs : job'[j] = [job[j] EXCEPT !.alone = FALSE] /\ job'[j].alone = FALSE
         /\ settled' \in [Sources -> Readings \cup {Null}] /\ \A s \in Sources : settled'[s] = Null
<1>1. ASSUME NEW k \in Jobs
      PROVE  /\ [job[k] EXCEPT !.alone = FALSE] \in Work /\ Shaped([job[k] EXCEPT !.alone = FALSE])
             /\ [job[k] EXCEPT !.alone = FALSE].alone = FALSE
  <2>1. job[k] \in Work /\ Shaped(job[k])
    BY DEF KnowledgeOK
  <2>2. [job[k] EXCEPT !.alone = FALSE] \in Work
    BY <2>1 DEF Work
  <2>3. Shaped([job[k] EXCEPT !.alone = FALSE])
    BY <2>1 DEF Work, Shaped
  <2> QED
    BY <2>1, <2>2, <2>3 DEF Work
<1>2. job' = [j \in Jobs |-> [job[j] EXCEPT !.alone = FALSE]] /\ settled' = [s \in Sources |-> Null]
  BY DEF Disturb
<1> QED
  BY <1>1, <1>2

LEMMA DeleteFacts ==
  ASSUME KnowledgeOK, NEW n \in Names, DeleteDocument(n)
  PROVE  /\ KnowledgeOK'
         /\ docs'[n] = Null /\ chunks'[n] = {} /\ choice'[n] = Null
         /\ n \in Files => disk'[n] = Null
         /\ \A m \in Names : m # n => docs'[m] = docs[m] /\ chunks'[m] = chunks[m]
                                      /\ choice'[m] = choice[m] /\ causes'[m] = causes[m]
         /\ \A f \in Files : f # n => disk'[f] = disk[f]
         /\ (\E j \in Jobs : On(j, n)) => "worked on together" \in causes'[n]
<1>1. /\ docs' \in [Names -> Row \cup {Null}] /\ docs'[n] = Null
      /\ \A m \in Names : m # n => docs'[m] = docs[m]
  BY DEF DeleteDocument, KnowledgeOK
<1>2. /\ chunks' \in [Names -> SUBSET Chunk] /\ chunks'[n] = {}
      /\ \A m \in Names : m # n => chunks'[m] = chunks[m]
  BY DEF DeleteDocument, KnowledgeOK
<1>3. /\ choice' \in [Names -> BOOLEAN \cup {Null}] /\ choice'[n] = Null
      /\ \A m \in Names : m # n => choice'[m] = choice[m]
  BY DEF DeleteDocument, KnowledgeOK
<1>4. /\ disk' \in [Files -> Versions \cup {Null}] /\ (n \in Files => disk'[n] = Null)
      /\ \A f \in Files : f # n => disk'[f] = disk[f]
  BY DEF DeleteDocument, KnowledgeOK
<1>5. /\ causes' \in [Names -> SUBSET Causes]
      /\ \A m \in Names : m # n => causes'[m] = causes[m]
      /\ (\E j \in Jobs : On(j, n)) => "worked on together" \in causes'[n]
  BY DEF DeleteDocument, KnowledgeOK, Causes
<1>6. Disturb /\ UNCHANGED <<upstream, sources, starts>>
  BY DEF DeleteDocument
<1> QED
  BY <1>1, <1>2, <1>3, <1>4, <1>5, <1>6, DisturbFacts DEF KnowledgeOK

LEMMA DeleteSourceFacts ==
  ASSUME KnowledgeOK, NEW s \in Sources, DeleteSource(s)
  PROVE  /\ KnowledgeOK'
         /\ \A m \in Names : m \notin Owned(s) => choice'[m] = choice[m] /\ causes'[m] = causes[m]
         /\ \A m \in Owned(s) : m \in Pages /\ docs[m] # Null /\ choice'[m] = Null
<1>1. /\ sources' \in [Sources -> SourceRow \cup {Null}]
  BY DEF DeleteSource, KnowledgeOK
<1>2. /\ choice' \in [Names -> BOOLEAN \cup {Null}] /\ causes' \in [Names -> SUBSET Causes]
      /\ \A m \in Names : m \notin Owned(s) => choice'[m] = choice[m] /\ causes'[m] = causes[m]
      /\ \A m \in Names : m \in Owned(s) => choice'[m] = Null
  BY DEF DeleteSource, KnowledgeOK
<1>3. Gone(Owned(s)) /\ Disturb /\ UNCHANGED <<disk, upstream, starts>>
  BY DEF DeleteSource
<1>4. KnowledgeOK'
  BY <1>1, <1>2, <1>3, DisturbFacts, GoneFacts DEF KnowledgeOK
<1> QED
  BY <1>2, <1>4, Constants DEF Owned

LEMMA PruneFacts ==
  ASSUME KnowledgeOK, NEW j \in Jobs, Prune(j)
  PROVE  /\ KnowledgeOK'
         /\ job'[j] = [job[j] EXCEPT !.pc = "finish"] /\ job[j].kind = "web"
         /\ \A k \in Jobs : k # j => job'[k] = job[k]
         /\ \A m \in Names : m \notin Dropped(j) => causes'[m] = causes[m]
         /\ \A m \in Dropped(j) : m \in Pages /\ docs[m] # Null /\ causes'[m] = {"dropped"}
<1> DEFINE r == [job[j] EXCEPT !.pc = "finish"]
<1>0. job[j] \in Work /\ Shaped(job[j]) /\ job[j].pc = "page"
  BY DEF KnowledgeOK, Prune
<1>1. r \in Work
  BY <1>0 DEF Work
<1>2. Shaped(r)
  BY <1>0 DEF Work, Shaped
<1>3. job[j].kind = "web"
  BY <1>0 DEF Shaped
<1>4. Step(j, r) /\ Gone(Dropped(j)) /\ UNCHANGED <<disk, upstream, sources, starts, choice, settled>>
  BY DEF Prune
<1>5. /\ causes' \in [Names -> SUBSET Causes]
      /\ \A m \in Names : m \notin Dropped(j) => causes'[m] = causes[m]
      /\ \A m \in Names : m \in Dropped(j) => causes'[m] = {"dropped"}
  BY DEF Prune, KnowledgeOK, Causes
<1>6. \A m \in Dropped(j) : m \in Pages /\ m \in Names /\ docs[m] # Null
  BY Constants DEF Dropped, Owned
<1> HIDE DEF r
<1>7. /\ job' \in [Jobs -> Work] /\ job'[j] = r
      /\ \A k \in Jobs : k # j => job'[k] = job[k]
  BY <1>1, <1>4, StepFacts
<1>8. KnowledgeOK'
  BY <1>2, <1>4, <1>5, <1>7, GoneFacts DEF KnowledgeOK
<1> QED
  BY <1>3, <1>5, <1>6, <1>7, <1>8 DEF r

LEMMA RestartFacts ==
  ASSUME KnowledgeOK, Restart
  PROVE  /\ KnowledgeOK'
         /\ \A j \in Jobs : job'[j] = job[j] \/ job'[j] = Idle
         /\ \A j \in Jobs : job[j].kind # "cli" => job'[j] = Idle
         /\ \A m \in Names : causes[m] \subseteq causes'[m]
         /\ \A m \in Names : "saved together" \in causes'[m] <=> "saved together" \in causes[m]
         /\ \A m \in Names : (\E j \in Jobs : On(j, m) /\ job[j].pc = "publish")
                               => "cut short" \in causes'[m]
<1>1. job' = [j \in Jobs |-> IF job[j].kind = "cli" THEN job[j] ELSE Idle]
  BY DEF Restart
<1>2. Shaped(Idle)
  BY IdleJob DEF Shaped
<1>3. causes' \in [Names -> SUBSET Causes]
  BY DEF Restart, KnowledgeOK, Causes
<1>4. /\ \A m \in Names : causes[m] \subseteq causes'[m]
      /\ \A m \in Names : "saved together" \in causes'[m] <=> "saved together" \in causes[m]
      /\ \A m \in Names : (\E j \in Jobs : On(j, m) /\ job[j].pc = "publish")
                            => "cut short" \in causes'[m]
  BY DEF Restart, KnowledgeOK
<1>5. KnowledgeOK'
  BY <1>1, <1>2, <1>3, IdleJob DEF Restart, KnowledgeOK
<1> QED
  BY <1>1, <1>4, <1>5

LEMMA ChangeFacts ==
  ASSUME KnowledgeOK, NEW s \in Sources, NEW p \in Pages, Change(s, p)
  PROVE  KnowledgeOK' /\ UNCHANGED <<docs, chunks, disk, sources, job, starts, causes, choice, settled>>
<1>1. PICK v \in Versions \cup {"absent"} : upstream' = [upstream EXCEPT ![s][p] = v]
  BY DEF Change
<1>2. upstream' \in [Sources -> [Pages -> Versions \cup {"absent"}]]
  BY <1>1 DEF KnowledgeOK
<1> QED
  BY <1>2 DEF Change, KnowledgeOK

(* The steps of a job that write no document, as what becomes of the job.  *)
LEMMA StepIs ==
  ASSUME KnowledgeOK, NEW j \in Jobs, NEW r, Step(j, r)
  PROVE  job'[j] = r /\ \A k \in Jobs : k # j => job'[k] = job[k]
  BY DEF KnowledgeOK, Step

Fallow == UNCHANGED <<docs, chunks, starts, choice>>

LEMMA BeginningFacts ==
  ASSUME KnowledgeOK, NEW j \in Jobs, Starts(j)
  PROVE  \E f \in Files :
           /\ job[j].pc = "idle" /\ job'[j].pc = "look" /\ job'[j].kind \in Kinds /\ job'[j].name = f
           /\ job'[j].no = starts + 1 /\ job'[j].todo = {} /\ job'[j].alone = FALSE
           /\ job'[j].old = Null /\ job'[j].doomed = {}
           /\ job'[j].kind = "reingest" => job'[j].hash = disk[f]
           /\ \A k \in Jobs : k # j => job'[k] = job[k]
           /\ UNCHANGED <<docs, chunks, disk, upstream, sources, choice, settled>>
           /\ starts' = starts + 1
           /\ \A m \in Names : m # f => causes'[m] = causes[m]
           /\ causes'[f] = IF \E k \in Jobs : On(k, f) THEN causes[f] \cup {"worked on together"}
                           ELSE causes[f]
<1> PICK kind \in Kinds, f \in Files, v \in Versions :
      BeginFile(j, kind, f, v) /\ (kind = "reingest" => v = disk[f])
  BY DEF Starts
<1> DEFINE r == [Idle EXCEPT !.pc = "look", !.kind = kind, !.name = f,
                             !.hash = v, !.no = starts + 1]
<1>1. Step(j, r)
  BY DEF BeginFile
<1>2. r.pc = "look" /\ r.kind = kind /\ r.name = f /\ r.no = starts + 1 /\ r.todo = {}
      /\ r.alone = FALSE /\ r.hash = v /\ r.old = Null /\ r.doomed = {}
  BY IdleJob DEF Work
<1> HIDE DEF r
<1>3. job'[j] = r /\ \A k \in Jobs : k # j => job'[k] = job[k]
  BY <1>1, StepIs
<1>4. UNCHANGED <<docs, chunks, disk, upstream, sources, choice, settled>> /\ starts' = starts + 1
      /\ job[j].pc = "idle"
  BY DEF BeginFile, Busy
<1>5. /\ \A m \in Names : m # f => causes'[m] = causes[m]
      /\ causes'[f] = IF \E k \in Jobs : On(k, f) THEN causes[f] \cup {"worked on together"}
                      ELSE causes[f]
  BY Constants DEF BeginFile, Blame, KnowledgeOK
<1> QED
  BY <1>2, <1>3, <1>4, <1>5

LEMMA LookFacts ==
  ASSUME KnowledgeOK, NEW j \in Jobs, Look(j), NEW n, n = job[j].name
  PROVE  /\ KnowledgeOK' /\ Fallow /\ UNCHANGED <<disk, upstream, sources, causes, settled>>
         /\ n \in Files /\ job[j].pc = "look" /\ job[j].kind # "web"
         /\ \A k \in Jobs : k # j => job'[k] = job[k]
         /\ \/ job'[j] = Idle
            \/ /\ job[j].kind = "upload" /\ Unchanged(n, job[j].hash)
               /\ job'[j] = [job[j] EXCEPT !.pc = "publish"]
            \/ job'[j] = [job[j] EXCEPT !.pc = "extract", !.old = OldRow(n)]
<1>1. KnowledgeOK' /\ Fallow /\ UNCHANGED <<disk, upstream, sources, causes, settled>>
  BY ShapeOfFiles DEF Look, Fallow
<1>2. n \in Files /\ job[j].pc = "look" /\ job[j].kind # "web"
  BY DEF KnowledgeOK, Shaped, Look
<1>3. \/ Step(j, Idle)
      \/ job[j].kind = "upload" /\ Unchanged(n, job[j].hash) /\ Step(j, [job[j] EXCEPT !.pc = "publish"])
      \/ Step(j, [job[j] EXCEPT !.pc = "extract", !.old = OldRow(n)])
  BY DEF Look
<1> QED
  BY <1>1, <1>2, <1>3, StepIs

LEMMA ExtractFacts ==
  ASSUME KnowledgeOK, NEW j \in Jobs, Extract(j)
  PROVE  /\ KnowledgeOK' /\ Fallow /\ UNCHANGED <<disk, upstream, sources, causes, settled>>
         /\ job[j].pc = "extract" /\ job[j].kind # "web" /\ job[j].name \in Files
         /\ \A k \in Jobs : k # j => job'[k] = job[k]
         /\ job'[j] = [job[j] EXCEPT !.pc = "embed", !.text = Opened(j)]
<1>1. job[j].kind # "web" /\ job[j].name \in Files
  BY DEF KnowledgeOK, Shaped, Extract
<1> QED
  BY <1>1, ShapeOfFiles, StepIs DEF Extract, Fallow

LEMMA SaveFacts ==
  ASSUME KnowledgeOK, NEW j \in Jobs, Save(j), NEW n, n = job[j].name
  PROVE  /\ KnowledgeOK' /\ Fallow /\ UNCHANGED <<disk, upstream, sources, settled>>
         /\ job[j].pc = "embed" /\ n \in Names
         /\ \A k \in Jobs : k # j => job'[k] = job[k]
         /\ job'[j] = [job[j] EXCEPT !.pc = "save", !.doomed = Doomed(j)]
         /\ \A m \in Names : causes[m] \subseteq causes'[m]
         /\ \A m \in Names : m # n => causes'[m] = causes[m]
         /\ Rivals(j) # {} => "saved together" \in causes'[n]
<1>1. n \in Names /\ job[j].pc = "embed"
  BY Constants DEF KnowledgeOK, Shaped, Save
<1>2. (Blame(n, "saved together") \/ UNCHANGED causes) /\ "saved together" \in Causes
      /\ (Rivals(j) # {} => Blame(n, "saved together"))
  BY DEF Save, Causes
<1>3. /\ \A m \in Names : causes[m] \subseteq causes'[m]
      /\ \A m \in Names : m # n => causes'[m] = causes[m]
      /\ Rivals(j) # {} => "saved together" \in causes'[n]
  <2> DEFINE c == "saved together"
  <2>1. c \in Causes /\ (Blame(n, c) \/ UNCHANGED causes) /\ (Rivals(j) # {} => Blame(n, c))
    BY <1>2
  <2> HIDE DEF c
  <2>2. /\ \A m \in Names : causes[m] \subseteq causes'[m]
        /\ \A m \in Names : m # n => causes'[m] = causes[m]
    BY <2>1, BlameFacts
  <2>3. ASSUME Rivals(j) # {} PROVE c \in causes'[n]
    BY <2>1, <2>3, <1>1, BlameFacts
  <2> QED
    BY <2>2, <2>3 DEF c
<1>4. KnowledgeOK' /\ Fallow /\ UNCHANGED <<disk, upstream, sources, settled>>
      /\ Step(j, [job[j] EXCEPT !.pc = "save", !.doomed = Doomed(j)])
  BY ShapeOfFiles DEF Save, Fallow
<1> QED
  BY <1>1, <1>3, <1>4, StepIs

LEMMA PublishFacts ==
  ASSUME KnowledgeOK, NEW j \in Jobs, Publish(j), NEW n, n = job[j].name
  PROVE  /\ KnowledgeOK' /\ Fallow /\ UNCHANGED <<upstream, sources, causes, settled>>
         /\ job[j].pc = "publish" /\ job[j].kind = "upload" /\ n \in Files
         /\ \A k \in Jobs : k # j => job'[k] = job[k]
         /\ job'[j] = Idle
         /\ disk'[n] = job[j].hash /\ \A f \in Files : f # n => disk'[f] = disk[f]
<1>1. n \in Files /\ job[j].pc = "publish" /\ job[j].kind = "upload"
  BY DEF KnowledgeOK, Shaped, Publish
<1>2. disk'[n] = job[j].hash /\ \A f \in Files : f # n => disk'[f] = disk[f]
  BY <1>1 DEF Publish, KnowledgeOK
<1> QED
  BY <1>1, <1>2, ShapeOfFiles, StepIs DEF Publish, Fallow

LEMMA DisconnectFacts ==
  ASSUME KnowledgeOK, NEW j \in Jobs, Disconnect(j)
  PROVE  /\ KnowledgeOK' /\ Fallow /\ UNCHANGED <<disk, upstream, sources, causes, settled>>
         /\ job[j].kind = "upload" /\ job[j].pc \in {"look", "extract", "embed", "save"}
         /\ \A k \in Jobs : k # j => job'[k] = job[k]
         /\ job'[j] = [job[j] EXCEPT !.kind = "orphan"]
  BY ShapeOfFiles, StepIs DEF Disconnect, Fallow

(* A job that is given up or has come to its end.                          *)
LEMMA EndFacts ==
  ASSUME KnowledgeOK, NEW j \in Jobs, Fail(j) \/ NoPages(j) \/ Finish(j)
  PROVE  /\ KnowledgeOK' /\ Fallow /\ UNCHANGED <<disk, upstream, causes>>
         /\ job[j].pc \in {"list", "page", "extract", "embed", "save", "finish"}
         /\ job'[j] = Idle
         /\ \A k \in Jobs : k # j => job'[k] = job[k]
         /\ \A t \in Sources : (sources'[t] = Null <=> sources[t] = Null)
                               /\ (sources[t] # Null => sources'[t].id = sources[t].id)
<1>1. job[j] \in Work /\ Shaped(job[j])
  BY DEF KnowledgeOK
<1>2. KnowledgeOK' /\ Fallow /\ UNCHANGED <<disk, upstream, causes>> /\ Step(j, Idle)
      /\ job[j].pc \in {"list", "page", "extract", "embed", "save", "finish"}
  BY ShapeOfImports DEF Fail, NoPages, Finish, Fallow
<1>3. \A t \in Sources : (sources'[t] = Null <=> sources[t] = Null)
                         /\ (sources[t] # Null => sources'[t].id = sources[t].id)
  <2>1. CASE Finish(j) \/ NoPages(j)
    <3>1. job[j].source \in Sources
      BY <1>1, <2>1 DEF Finish, NoPages, Shaped
    <3> QED
      BY <2>1, <3>1, SourceStays DEF Finish, NoPages, SourceThere
  <2>2. CASE Fail(j)
    <3>1. Importing(j) => job[j].source \in Sources
      BY <1>1 DEF Importing, Shaped
    <3>2. CASE Importing(j) /\ SourceThere(j)
      BY <2>2, <3>1, <3>2, SourceStays DEF Fail, SourceThere
    <3>3. CASE ~(Importing(j) /\ SourceThere(j))
      BY <2>2, <3>3 DEF Fail
    <3> QED
      BY <3>2, <3>3
  <2> QED
    BY <2>1, <2>2
<1> QED
  BY <1>2, <1>3, StepIs

LEMMA PageFacts ==
  ASSUME KnowledgeOK, NEW j \in Jobs, NEW p \in Pages, SkipPage(j, p) \/ ReadPage(j, p)
  PROVE  /\ KnowledgeOK' /\ Fallow /\ UNCHANGED <<disk, upstream, sources, causes, settled>>
         /\ job[j].pc = "page" /\ job[j].kind = "web" /\ job[j].name = Null /\ p \in job[j].todo
         /\ \A k \in Jobs : k # j => job'[k] = job[k]
         /\ \/ job'[j] = [job[j] EXCEPT !.todo = @ \ {p}]
            \/ \E v \in Versions :
                 \/ /\ Unchanged(p, v)
                    /\ job'[j] = [job[j] EXCEPT !.todo = @ \ {p}, !.read = @ \cup {<<p, v>>},
                                                !.keep = @ \cup {<<p, v>>}]
                 \/ job'[j] = [job[j] EXCEPT !.todo = @ \ {p}, !.read = @ \cup {<<p, v>>},
                          !.pc = "embed", !.name = p, !.hash = v, !.text = v, !.old = OldRow(p)]
<1>1. job[j] \in Work /\ Shaped(job[j]) /\ job[j].pc = "page"
  BY DEF KnowledgeOK, SkipPage, ReadPage
<1>2. job[j].kind = "web" /\ job[j].name = Null /\ job[j].source \in Sources
  BY <1>1 DEF Shaped
<1>3. KnowledgeOK' /\ Fallow /\ UNCHANGED <<disk, upstream, sources, causes, settled>> /\ p \in job[j].todo
  BY ShapeOfImports DEF SkipPage, ReadPage, Fallow
<1>4. CASE SkipPage(j, p)
  BY <1>1, <1>2, <1>3, <1>4, StepIs DEF SkipPage
<1>5. CASE ReadPage(j, p)
  <2> DEFINE v == upstream[job[j].source][p]
  <2>1. v \in Versions
    <3>1. v \in Versions \cup {"absent"}
      BY <1>2 DEF KnowledgeOK
    <3> QED
      BY <3>1, <1>5 DEF ReadPage
  <2>2. \/ /\ Unchanged(p, v)
           /\ Step(j, [job[j] EXCEPT !.todo = @ \ {p}, !.read = @ \cup {<<p, v>>},
                                     !.keep = @ \cup {<<p, v>>}])
        \/ Step(j, [job[j] EXCEPT !.todo = @ \ {p}, !.read = @ \cup {<<p, v>>},
                          !.pc = "embed", !.name = p, !.hash = v, !.text = v, !.old = OldRow(p)])
    BY <1>5 DEF ReadPage, KeptUnchanged
  <2> HIDE DEF v
  <2> QED
    BY <1>1, <1>2, <1>3, <2>1, <2>2, StepIs
<1> QED
  BY <1>4, <1>5

LEMMA ListFacts ==
  ASSUME KnowledgeOK, NEW j \in Jobs, List(j)
  PROVE  /\ KnowledgeOK' /\ Fallow /\ UNCHANGED <<disk, upstream, sources, causes, settled>>
         /\ job[j].pc = "list" /\ job[j].kind = "web" /\ job[j].name = Null
         /\ \A k \in Jobs : k # j => job'[k] = job[k]
         /\ \E T \in SUBSET Pages : job'[j] = [job[j] EXCEPT !.pc = "page", !.todo = T]
<1>1. job[j] \in Work /\ Shaped(job[j]) /\ job[j].pc = "list"
  BY DEF KnowledgeOK, List
<1>2. job[j].kind = "web" /\ job[j].name = Null
  BY <1>1 DEF Shaped
<1>3. KnowledgeOK' /\ Fallow /\ UNCHANGED <<disk, upstream, sources, causes, settled>>
  BY ShapeOfImports DEF List, Fallow
<1> DEFINE T == {p \in Pages : upstream[job[j].source][p] # "absent"}
<1>4. Step(j, [job[j] EXCEPT !.pc = "page", !.todo = T]) /\ T \in SUBSET Pages
  BY DEF List
<1> HIDE DEF T
<1> QED
  BY <1>1, <1>2, <1>3, <1>4, StepIs

-----------------------------------------------------------------------------
(* Numbers.  A step that begins no job and makes no document keeps them    *)
(* apart, if who may make a document could make it before.                 *)
Goes(j) ==
  job'[j].pc = "idle" \/
    /\ job[j].pc # "idle" /\ job'[j].no = job[j].no
    /\ \A n \in Names : MayMake(j, n)' => MayMake(j, n)
    /\ \A n \in Names : Writing(j, n)' /\ job'[j].old # Null =>
         \/ Writing(j, n) /\ job'[j].old = job[j].old
         \/ docs[n] # Null /\ job'[j].old = docs[n].id /\ MayMake(j, n)

LEMMA NumbersGo ==
  ASSUME NumbersDiffer, starts' = starts, \A j \in Jobs : Goes(j),
         \A n \in Names : docs'[n] = Null \/ (docs[n] # Null /\ docs'[n].id = docs[n].id)
  PROVE  NumbersDiffer'
<1> USE DEF Goes, Busy
<1>1. \A j \in Jobs : Busy(j)' => job'[j].no <= starts'
  BY DEF NumbersDiffer
<1>2. \A j, k \in Jobs : Busy(j)' /\ Busy(k)' /\ job'[j].no = job'[k].no => j = k
  BY DEF NumbersDiffer
<1>3. \A n \in Names : docs'[n] # Null =>
        docs'[n].id <= starts' /\ \A k \in Jobs : MayMake(k, n)' => docs'[n].id # job'[k].no
  <2> SUFFICES ASSUME NEW n \in Names, docs'[n] # Null
               PROVE  /\ docs'[n].id <= starts'
                      /\ \A k \in Jobs : MayMake(k, n)' => docs'[n].id # job'[k].no
    OBVIOUS
  <2>1. docs[n] # Null /\ docs'[n].id = docs[n].id
    OBVIOUS
  <2>2. \A k \in Jobs : MayMake(k, n)' => MayMake(k, n) /\ job'[k].no = job[k].no
    BY DEF MayMake
  <2> HIDE DEF Goes
  <2> QED
    BY <2>1, <2>2 DEF NumbersDiffer
<1>4. ASSUME NEW j \in Jobs, NEW n \in Names, Writing(j, n)', job'[j].old # Null
      PROVE  job'[j].old <= starts' /\ \A k \in Jobs : MayMake(k, n)' => job'[j].old # job'[k].no
  <2>1. \A k \in Jobs : MayMake(k, n)' => MayMake(k, n) /\ job'[k].no = job[k].no
    BY DEF MayMake
  <2>2. \/ Writing(j, n) /\ job'[j].old = job[j].old
        \/ docs[n] # Null /\ job'[j].old = docs[n].id
    BY <1>4 DEF Writing
  <2> HIDE DEF Goes
  <2>3. CASE Writing(j, n) /\ job'[j].old = job[j].old
    BY <1>4, <2>1, <2>3 DEF NumbersDiffer
  <2>4. CASE docs[n] # Null /\ job'[j].old = docs[n].id
    BY <2>1, <2>4 DEF NumbersDiffer
  <2> QED
    BY <2>2, <2>3, <2>4
<1> QED
  BY <1>1, <1>2, <1>3, <1>4 DEF NumbersDiffer

LEMMA SameGoes ==
  ASSUME KnowledgeOK, NEW j \in Jobs,
         \/ job'[j] = job[j] \/ job'[j] = Idle \/ job'[j] = [job[j] EXCEPT !.alone = FALSE]
  PROVE  Goes(j)
<1>1. job[j] \in Work
  BY DEF KnowledgeOK
<1>2. CASE job'[j] = Idle
  BY <1>2, IdleJob DEF Goes
<1>3. CASE job'[j] = job[j] \/ job'[j] = [job[j] EXCEPT !.alone = FALSE]
  <2>1. /\ job'[j].pc = job[j].pc /\ job'[j].no = job[j].no /\ job'[j].name = job[j].name
        /\ job'[j].old = job[j].old /\ job'[j].todo = job[j].todo
    BY <1>1, <1>3 DEF Work
  <2> QED
    BY <2>1 DEF Goes, MayMake, Writing, Busy
<1> QED
  BY <1>2, <1>3

LEMMA FallowGoes ==
  ASSUME KnowledgeOK, NEW j \in Jobs,
         \/ Look(j) \/ Extract(j) \/ Save(j) \/ Publish(j) \/ Disconnect(j)
         \/ Fail(j) \/ NoPages(j) \/ Finish(j) \/ List(j)
         \/ \E p \in Pages : SkipPage(j, p) \/ ReadPage(j, p)
  PROVE  Fallow /\ \A k \in Jobs : Goes(k)
<1>0. job[j] \in Work
  BY DEF KnowledgeOK
<1>1. Fallow /\ \A k \in Jobs : k # j => job'[k] = job[k]
  BY LookFacts, ExtractFacts, SaveFacts, PublishFacts, DisconnectFacts, EndFacts, ListFacts,
     PageFacts
<1>2. Goes(j)
  <2>1. CASE Look(j)
    <3> DEFINE n == job[j].name
    <3>1. CASE job'[j] = [job[j] EXCEPT !.pc = "publish"]
      <4>1. job'[j].pc = "publish" /\ job'[j].no = job[j].no /\ job'[j].name = n
            /\ job'[j].todo = job[j].todo
        BY <1>0, <3>1 DEF Work
      <4>2. job[j].pc = "look"
        BY <2>1, LookFacts
      <4> QED
        BY <4>1, <4>2 DEF Goes, MayMake, Writing, Busy
    <3>2. CASE job'[j] = [job[j] EXCEPT !.pc = "extract", !.old = OldRow(n)]
      <4>1. job'[j].pc = "extract" /\ job'[j].no = job[j].no /\ job'[j].name = n
            /\ job'[j].todo = job[j].todo /\ job'[j].old = OldRow(n)
        BY <1>0, <3>2 DEF Work
      <4>2. job[j].pc = "look"
        BY <2>1, LookFacts
      <4> QED
        BY <4>1, <4>2 DEF Goes, MayMake, Writing, Busy, OldRow
    <3> QED
      BY <2>1, <3>1, <3>2, LookFacts, SameGoes
  <2>2. CASE Extract(j) \/ Save(j) \/ Disconnect(j)
    <3>1. /\ job[j].pc \in {"look", "extract", "embed", "save"}
          /\ job'[j].pc \in {"look", "extract", "embed", "save"}
          /\ job'[j].no = job[j].no /\ job'[j].name = job[j].name /\ job'[j].old = job[j].old
          /\ job'[j].todo = job[j].todo
      <4>1. CASE Extract(j)
        BY <1>0, <4>1, ExtractFacts, ZenonT(60) DEF Work
      <4>2. CASE Save(j)
        BY <1>0, <4>2, SaveFacts, ZenonT(60) DEF Work
      <4>3. CASE Disconnect(j)
        BY <1>0, <4>3, DisconnectFacts, ZenonT(60) DEF Work
      <4> QED
        BY <2>2, <4>1, <4>2, <4>3
    <3> QED
      BY <3>1 DEF Goes, MayMake, Writing, Busy
  <2>3. CASE Publish(j) \/ Fail(j) \/ NoPages(j) \/ Finish(j)
    BY <2>3, PublishFacts, EndFacts, SameGoes
  <2>4. CASE List(j)
    <3>1. PICK T \in SUBSET Pages : job'[j] = [job[j] EXCEPT !.pc = "page", !.todo = T]
      BY <2>4, ListFacts
    <3>2. job'[j].pc = "page" /\ job'[j].no = job[j].no /\ job[j].pc = "list"
      BY <1>0, <2>4, <3>1, ListFacts DEF Work
    <3> QED
      BY <3>2 DEF Goes, MayMake, Writing, Busy
  <2>5. ASSUME NEW p \in Pages, SkipPage(j, p) \/ ReadPage(j, p) PROVE Goes(j)
    <3>0. job[j].pc = "page" /\ p \in job[j].todo /\ job[j].name = Null
      BY <2>5, PageFacts
    <3>1. CASE job'[j] = [job[j] EXCEPT !.todo = @ \ {p}]
      <4>1. job'[j].pc = "page" /\ job'[j].no = job[j].no /\ job'[j].todo \subseteq job[j].todo
        BY <1>0, <3>0, <3>1 DEF Work
      <4> QED
        BY <3>0, <4>1 DEF Goes, MayMake, Writing, Busy
    <3>2. ASSUME NEW v \in Versions,
                 job'[j] = [job[j] EXCEPT !.todo = @ \ {p}, !.read = @ \cup {<<p, v>>},
                                          !.keep = @ \cup {<<p, v>>}]
          PROVE  Goes(j)
      <4>1. job'[j].pc = "page" /\ job'[j].no = job[j].no /\ job'[j].todo \subseteq job[j].todo
        BY <1>0, <3>0, <3>2 DEF Work
      <4> QED
        BY <3>0, <4>1 DEF Goes, MayMake, Writing, Busy
    <3>3. ASSUME NEW v \in Versions,
                 job'[j] = [job[j] EXCEPT !.todo = @ \ {p}, !.read = @ \cup {<<p, v>>},
                          !.pc = "embed", !.name = p, !.hash = v, !.text = v, !.old = OldRow(p)]
          PROVE  Goes(j)
      <4>1. job'[j].pc = "embed" /\ job'[j].no = job[j].no /\ job'[j].todo \subseteq job[j].todo
            /\ job'[j].name = p /\ job'[j].old = OldRow(p)
        BY <1>0, <3>0, <3>3 DEF Work
      <4> QED
        BY <3>0, <4>1 DEF Goes, MayMake, Writing, Busy, OldRow
    <3>4. \/ job'[j] = [job[j] EXCEPT !.todo = @ \ {p}]
          \/ \E v \in Versions :
               \/ /\ Unchanged(p, v)
                  /\ job'[j] = [job[j] EXCEPT !.todo = @ \ {p}, !.read = @ \cup {<<p, v>>},
                                              !.keep = @ \cup {<<p, v>>}]
               \/ job'[j] = [job[j] EXCEPT !.todo = @ \ {p}, !.read = @ \cup {<<p, v>>},
                        !.pc = "embed", !.name = p, !.hash = v, !.text = v, !.old = OldRow(p)]
      BY <2>5, PageFacts
    <3> QED
      BY <3>1, <3>2, <3>3, <3>4
  <2> QED
    BY <2>1, <2>2, <2>3, <2>4, <2>5
<1> QED
  BY <1>1, <1>2, SameGoes

(* A new job has a number that none has had.                               *)
LEMMA NumbersOfBeginning ==
  ASSUME KnowledgeOK, NumbersDiffer, NEW j \in Jobs,
         Starts(j) \/ \E s \in Sources : Import(j, s)
  PROVE  NumbersDiffer'
<1>1. /\ job[j].pc = "idle" /\ job'[j].no = starts + 1 /\ starts' = starts + 1 /\ docs' = docs
      /\ job'[j].old = Null
      /\ \A k \in Jobs : k # j => job'[k] = job[k] \/ job'[k] = [job[k] EXCEPT !.alone = FALSE]
  <2>1. CASE Starts(j)
    BY <2>1, BeginningFacts
  <2>2. ASSUME NEW s \in Sources, Import(j, s)
        PROVE  /\ job[j].pc = "idle" /\ job'[j].no = starts + 1 /\ starts' = starts + 1 /\ docs' = docs
               /\ job'[j].old = Null
               /\ \A k \in Jobs : k # j => job'[k] = [job[k] EXCEPT !.alone = FALSE]
    <3>1. job[j].pc = "idle" /\ starts' = starts + 1 /\ docs' = docs
      BY <2>2 DEF Import, Busy
    <3> QED
      BY <2>2, <3>1, ShapeOfImport
  <2> QED
    BY <2>1, <2>2
<1>2. \A k \in Jobs : k # j => /\ job'[k].pc = job[k].pc /\ job'[k].no = job[k].no
                               /\ job'[k].name = job[k].name /\ job'[k].todo = job[k].todo
                               /\ job'[k].old = job[k].old
  <2> SUFFICES ASSUME NEW k \in Jobs, k # j
               PROVE  /\ job'[k].pc = job[k].pc /\ job'[k].no = job[k].no
                      /\ job'[k].name = job[k].name /\ job'[k].todo = job[k].todo
                      /\ job'[k].old = job[k].old
    OBVIOUS
  <2>1. job[k] \in Work
    BY DEF KnowledgeOK
  <2> QED
    BY <1>1, <2>1 DEF Work
<1>3. /\ starts \in Nat /\ \A k \in Jobs : job[k].no \in Nat /\ job[k].old \in Nat \cup {Null}
      /\ \A n \in Names : docs[n] # Null => docs[n].id \in Nat
  BY DEF KnowledgeOK, Work, Row
<1>4. \A k \in Jobs, n \in Names : k # j => (MayMake(k, n)' <=> MayMake(k, n)) /\ (Writing(k, n)' <=> Writing(k, n))
  BY <1>2 DEF MayMake, Writing, Busy
<1>5. \A k \in Jobs : Busy(k)' => job'[k].no <= starts'
  BY <1>1, <1>2, <1>3 DEF NumbersDiffer, Busy
<1>6. \A k, l \in Jobs : Busy(k)' /\ Busy(l)' /\ job'[k].no = job'[l].no => k = l
  BY <1>1, <1>2, <1>3 DEF NumbersDiffer, Busy
<1>7. \A n \in Names : docs'[n] # Null =>
        docs'[n].id <= starts' /\ \A k \in Jobs : MayMake(k, n)' => docs'[n].id # job'[k].no
  BY <1>1, <1>2, <1>3, <1>4 DEF NumbersDiffer
<1>8. \A i \in Jobs, n \in Names : Writing(i, n)' /\ job'[i].old # Null =>
        job'[i].old <= starts' /\ \A k \in Jobs : MayMake(k, n)' => job'[i].old # job'[k].no
  BY <1>1, <1>2, <1>3, <1>4 DEF NumbersDiffer
<1> QED
  BY <1>5, <1>6, <1>7, <1>8 DEF NumbersDiffer

(* Who makes a document is done with it.                                   *)
LEMMA NumbersOfCommit ==
  ASSUME KnowledgeOK, NumbersDiffer, NEW j \in Jobs, Commit(j)
  PROVE  NumbersDiffer'
<1> PICK n : n = job[j].name
  OBVIOUS
<1>0. job[j] \in Work /\ Shaped(job[j]) /\ job[j].pc = "save" /\ n \in Names
  BY CommitFacts DEF KnowledgeOK
<1>1. /\ \A k \in Jobs : k # j => job'[k] = job[k]
      /\ starts' = starts
  BY AfterCommit DEF Commit
<1>2. /\ job'[j].pc = "idle" \/ job'[j].no = job[j].no
      /\ ~MayMake(j, n)' /\ \A m \in Names : MayMake(j, m)' => MayMake(j, m)
      /\ \A m \in Names : ~Writing(j, m)'
  <2>1. CASE job[j].kind = "upload" /\ job'[j] = [job[j] EXCEPT !.pc = "publish"]
    <3>1. job'[j].pc = "publish" /\ job'[j].no = job[j].no /\ job'[j].todo = {}
      BY <1>0, <2>1 DEF Work, Shaped
    <3> QED
      BY <3>1 DEF MayMake, Writing
  <2>2. CASE job[j].kind = "web"
    <3>1. job'[j].pc = "page" /\ job'[j].no = job[j].no /\ job'[j].todo = job[j].todo
      BY <2>2, AfterCommit
    <3>2. n \notin job[j].todo
      BY <1>0, <2>2 DEF Shaped
    <3>3. ~MayMake(j, n)' /\ \A m \in Names : ~Writing(j, m)'
      BY <3>1, <3>2 DEF MayMake, Writing
    <3>4. \A m \in Names : MayMake(j, m)' => MayMake(j, m)
      BY <1>0, <3>1 DEF MayMake, Writing, Busy
    <3> QED
      BY <3>1, <3>3, <3>4
  <2>3. CASE job'[j] = Idle
    BY <2>3, IdleJob DEF MayMake, Writing, Busy
  <2> QED
    BY <2>1, <2>2, <2>3, AfterCommit
<1>5. /\ docs[n] = Null => docs'[n].id = job[j].no
      /\ docs[n] # Null => docs'[n].id = docs[n].id
      /\ \A m \in Names : m # n => docs'[m] = docs[m]
  <2>1. docs[n] = Null => docs'[n].id = job[j].no
    BY CommitFacts
  <2>2. docs[n] # Null => docs'[n].id = docs[n].id
    BY CommitFacts
  <2>3. ASSUME NEW m \in Names, m # n PROVE docs'[m] = docs[m]
    BY <2>3, CommitElsewhere
  <2> QED
    BY <2>1, <2>2, <2>3
<1>3. CASE docs[n] # Null
  <2>1. \A k \in Jobs : Goes(k)
    BY <1>0, <1>1, <1>2, SameGoes DEF Goes
  <2>2. \A m \in Names : docs'[m] = Null \/ (docs[m] # Null /\ docs'[m].id = docs[m].id)
    BY <1>3, <1>5
  <2> QED
    BY <1>1, <2>1, <2>2, NumbersGo
<1>4. CASE docs[n] = Null
  <2>1. docs'[n].id = job[j].no /\ \A m \in Names : m # n => docs'[m] = docs[m]
    BY <1>4, <1>5
  <2>2. Busy(j) /\ MayMake(j, n)
    BY <1>0 DEF Busy, MayMake, Writing
  <2>3. \A k \in Jobs : Busy(k)' => Busy(k) /\ job'[k].no = job[k].no
    BY <1>1, <1>2, <2>2 DEF Busy
  <2>4. \A k \in Jobs, m \in Names : MayMake(k, m)' => MayMake(k, m) /\ Busy(k)'
    BY <1>1, <1>2 DEF MayMake, Writing, Busy
  <2>5. \A k \in Jobs : MayMake(k, n)' => k # j
    BY <1>2
  <2>6. \A i \in Jobs, m \in Names : Writing(i, m)' => Writing(i, m) /\ job'[i].old = job[i].old
    BY <1>1, <1>2 DEF Writing
  <2>7. \A k \in Jobs : Busy(k)' => job'[k].no <= starts'
    BY <1>1, <2>3 DEF NumbersDiffer
  <2>8. \A k, l \in Jobs : Busy(k)' /\ Busy(l)' /\ job'[k].no = job'[l].no => k = l
    BY <2>3 DEF NumbersDiffer
  <2>9. \A m \in Names : docs'[m] # Null =>
          docs'[m].id <= starts' /\ \A k \in Jobs : MayMake(k, m)' => docs'[m].id # job'[k].no
    <3>1. docs'[n].id <= starts' /\ \A k \in Jobs : MayMake(k, n)' => docs'[n].id # job'[k].no
      <4>1. job[j].no <= starts
        BY <2>2 DEF NumbersDiffer
      <4>2. ASSUME NEW k \in Jobs, MayMake(k, n)' PROVE job[j].no # job'[k].no
        <5>1. \A i, l \in Jobs : Busy(i) /\ Busy(l) /\ job[i].no = job[l].no => i = l
          BY DEF NumbersDiffer
        <5>2. Busy(k) /\ job'[k].no = job[k].no /\ k # j
          BY <1>0, <2>3, <2>4, <2>5, <4>2
        <5> QED
          BY <2>2, <5>1, <5>2
      <4> QED
        BY <1>1, <2>1, <4>1, <4>2
    <3>2. ASSUME NEW m \in Names, m # n, docs'[m] # Null
          PROVE  docs'[m].id <= starts' /\ \A k \in Jobs : MayMake(k, m)' => docs'[m].id # job'[k].no
      BY <1>1, <2>1, <2>3, <2>4, <3>2 DEF NumbersDiffer
    <3> QED
      BY <3>1, <3>2
  <2>10. \A i \in Jobs, m \in Names : Writing(i, m)' /\ job'[i].old # Null =>
           job'[i].old <= starts' /\ \A k \in Jobs : MayMake(k, m)' => job'[i].old # job'[k].no
    BY <1>1, <2>3, <2>4, <2>6 DEF NumbersDiffer
  <2> QED
    BY <2>7, <2>8, <2>9, <2>10 DEF NumbersDiffer
<1> QED
  BY <1>3, <1>4

LEMMA NumbersStep == ASSUME KnowledgeOK, NumbersDiffer, Next PROVE NumbersDiffer'
<1>1. ASSUME NEW j \in Jobs, Starts(j) \/ \E s \in Sources : Import(j, s)
      PROVE  NumbersDiffer'
  BY <1>1, NumbersOfBeginning
<1>2. ASSUME NEW j \in Jobs,
             \/ Look(j) \/ Extract(j) \/ Save(j) \/ Publish(j) \/ Disconnect(j)
             \/ Fail(j) \/ NoPages(j) \/ Finish(j) \/ List(j)
             \/ \E p \in Pages : SkipPage(j, p) \/ ReadPage(j, p)
      PROVE  NumbersDiffer'
  <2>1. Fallow /\ \A k \in Jobs : Goes(k)
    BY <1>2, FallowGoes
  <2> QED
    BY <2>1, NumbersGo DEF Fallow
<1>3. ASSUME NEW j \in Jobs, Commit(j) PROVE NumbersDiffer'
  BY <1>3, NumbersOfCommit
<1>4. ASSUME NEW j \in Jobs, Prune(j) PROVE NumbersDiffer'
  <2>1. \A m \in Names : docs'[m] = Null \/ docs'[m] = docs[m]
    BY <1>4, GoneFacts DEF Prune
  <2>2. Goes(j)
    <3>1. job[j] \in Work
      BY DEF KnowledgeOK
    <3>2. job[j].pc = "page" /\ job'[j] = [job[j] EXCEPT !.pc = "finish"]
      BY <1>4, PruneFacts DEF Prune
    <3>3. job'[j].pc = "finish" /\ job'[j].no = job[j].no /\ job'[j].todo = job[j].todo
      BY <3>1, <3>2 DEF Work
    <3> QED
      BY <3>2, <3>3 DEF Goes, MayMake, Writing, Busy
  <2>3. \A k \in Jobs : Goes(k)
    BY <1>4, <2>2, PruneFacts, SameGoes
  <2>4. \A m \in Names : docs'[m] = Null \/ (docs[m] # Null /\ docs'[m].id = docs[m].id)
    BY <2>1
  <2> QED
    BY <1>4, <2>4, <2>3, NumbersGo DEF Prune
<1>5. ASSUME NEW n \in Names, SetEnabled(n) PROVE NumbersDiffer'
  <2>1. \A m \in Names : docs'[m] = Null \/ (docs[m] # Null /\ docs'[m].id = docs[m].id)
    BY <1>5, EnabledFacts
  <2>2. \A k \in Jobs : Goes(k)
    BY <1>5, SameGoes DEF SetEnabled
  <2> QED
    BY <1>5, <2>1, <2>2, NumbersGo DEF SetEnabled
<1>6. ASSUME NEW n \in Names, DeleteDocument(n) PROVE NumbersDiffer'
  <2>1. \A m \in Names : docs'[m] = Null \/ docs'[m] = docs[m]
    BY <1>6, DeleteFacts
  <2>2. \A k \in Jobs : Goes(k)
    BY <1>6, DisturbFacts, SameGoes DEF DeleteDocument
  <2>4. \A m \in Names : docs'[m] = Null \/ (docs[m] # Null /\ docs'[m].id = docs[m].id)
    BY <2>1
  <2> QED
    BY <1>6, <2>4, <2>2, NumbersGo DEF DeleteDocument
<1>7. ASSUME NEW s \in Sources, DeleteSource(s) PROVE NumbersDiffer'
  <2>1. \A m \in Names : docs'[m] = Null \/ docs'[m] = docs[m]
    BY <1>7, GoneFacts DEF DeleteSource
  <2>2. \A k \in Jobs : Goes(k)
    BY <1>7, DisturbFacts, SameGoes DEF DeleteSource
  <2>4. \A m \in Names : docs'[m] = Null \/ (docs[m] # Null /\ docs'[m].id = docs[m].id)
    BY <2>1
  <2> QED
    BY <1>7, <2>4, <2>2, NumbersGo DEF DeleteSource
<1>8. ASSUME NEW s \in Sources, NEW p \in Pages, Change(s, p) PROVE NumbersDiffer'
  BY <1>8, ChangeFacts, SameGoes, NumbersGo
<1>9. CASE Restart
  BY <1>9, RestartFacts, SameGoes, NumbersGo DEF Restart
<1> QED
  BY <1>1, <1>2, <1>3, <1>4, <1>5, <1>6, <1>7, <1>8, <1>9, Steps

-----------------------------------------------------------------------------
(* Chunks.  A step that writes none, and opens no transaction.             *)
LEMMA ChunksStay ==
  ASSUME ChunksAreOnes,
         \A n \in Names : docs'[n] = Null => chunks'[n] = {},
         \A n \in Names : docs'[n] # Null =>
           /\ docs[n] # Null /\ docs'[n].id = docs[n].id /\ chunks'[n] = chunks[n]
           /\ "saved together" \in causes[n] => "saved together" \in causes'[n],
         \A j \in Jobs : job'[j].pc = "save" =>
           /\ job[j].pc = "save" /\ job'[j].name = job[j].name /\ job'[j].old = job[j].old
           /\ job'[j].doomed = job[j].doomed
  PROVE  ChunksAreOnes'
<1>1. \A j \in Jobs, n \in Names : docs'[n] # Null /\ Saves(j, n)' => Saves(j, n)
  BY DEF Saves, Writing, OldRow
<1>2. \A j \in Jobs : job'[j].pc = "save" /\ job'[j].old = Null => job'[j].doomed = {}
  BY DEF ChunksAreOnes
<1>3. ASSUME NEW n \in Names, docs'[n] # Null, "saved together" \notin causes'[n]
      PROVE  /\ \E w \in chunks'[n] : chunks'[n] = {w}
             /\ \A j \in Jobs : Saves(j, n)' => job'[j].doomed = chunks'[n]
             /\ \A j, k \in Jobs : Saves(j, n)' /\ Saves(k, n)' => j = k
  <2>1. /\ docs[n] # Null /\ "saved together" \notin causes[n] /\ chunks'[n] = chunks[n]
    BY <1>3
  <2>2. /\ \E w \in chunks[n] : chunks[n] = {w}
        /\ \A j \in Jobs : Saves(j, n) => job[j].doomed = chunks[n]
        /\ \A j, k \in Jobs : Saves(j, n) /\ Saves(k, n) => j = k
    BY <2>1 DEF ChunksAreOnes
  <2>3. \A j \in Jobs : Saves(j, n)' => Saves(j, n) /\ job'[j].doomed = job[j].doomed
    BY <1>1, <1>3 DEF Saves
  <2> QED
    BY <2>1, <2>2, <2>3
<1> QED
  BY <1>2, <1>3 DEF ChunksAreOnes

(* Who comes to a document that others are writing marks it.               *)
LEMMA ChunksOfSave ==
  ASSUME KnowledgeOK, ChunksAreOnes, NEW j \in Jobs, Save(j)
  PROVE  ChunksAreOnes'
<1> PICK n : n = job[j].name
  OBVIOUS
<1>0. job[j] \in Work
  BY DEF KnowledgeOK
<1>1. /\ UNCHANGED <<docs, chunks>> /\ n \in Names /\ job[j].pc = "embed"
      /\ \A k \in Jobs : k # j => job'[k] = job[k]
      /\ \A m \in Names : causes[m] \subseteq causes'[m]
      /\ Rivals(j) # {} => "saved together" \in causes'[n]
  BY SaveFacts DEF Fallow
<1>2. job'[j].pc = "save" /\ job'[j].name = n /\ job'[j].old = job[j].old /\ job'[j].doomed = Doomed(j)
  BY <1>0, SaveFacts, ZenonT(60) DEF Work
<1>3. \A k \in Jobs : job'[k].pc = "save" /\ job'[k].old = Null => job'[k].doomed = {}
  <2>1. job[j].old = Null => Doomed(j) = {}
    BY DEF Doomed
  <2>2. \A k \in Jobs : k # j => (job[k].pc = "save" /\ job[k].old = Null => job[k].doomed = {})
    BY DEF ChunksAreOnes
  <2> QED
    BY <1>1, <1>2, <2>1, <2>2
<1>4. \A m \in Names : docs'[m] = Null => chunks'[m] = {}
  BY <1>1 DEF ChunksAreOnes
<1>5. ASSUME NEW m \in Names, docs'[m] # Null, "saved together" \notin causes'[m]
      PROVE  /\ \E w \in chunks'[m] : chunks'[m] = {w}
             /\ \A k \in Jobs : Saves(k, m)' => job'[k].doomed = chunks'[m]
             /\ \A k, l \in Jobs : Saves(k, m)' /\ Saves(l, m)' => k = l
  <2>1. /\ \E w \in chunks[m] : chunks[m] = {w}
        /\ \A k \in Jobs : Saves(k, m) => job[k].doomed = chunks[m]
        /\ \A k, l \in Jobs : Saves(k, m) /\ Saves(l, m) => k = l
    BY <1>1, <1>5 DEF ChunksAreOnes
  <2>2. \A k \in Jobs : k # j => (Saves(k, m)' => Saves(k, m)) /\ job'[k] = job[k]
    BY <1>1 DEF Saves, Writing, OldRow
  <2>3. CASE m # n
    <3>1. ~Saves(j, m)'
      BY <1>2, <2>3 DEF Saves, Writing
    <3> QED
      BY <1>1, <2>1, <2>2, <3>1
  <2>4. CASE m = n
    <3>1. \A k \in Jobs : k # j => ~Saves(k, m)'
      <4> SUFFICES ASSUME NEW k \in Jobs, k # j, Saves(k, m)' PROVE FALSE
        OBVIOUS
      <4>1. job[k].pc = "save" /\ job[k].name = n
        BY <2>2, <2>4 DEF Saves, Writing
      <4>2. k \in Rivals(j)
        BY <4>1 DEF Rivals, On, Busy
      <4> QED
        BY <1>1, <1>5, <2>4, <4>2
    <3>2. Saves(j, m)' => job'[j].doomed = chunks'[m]
      <4> SUFFICES ASSUME Saves(j, m)' PROVE job'[j].doomed = chunks'[m]
        OBVIOUS
      <4>1. job[j].old = docs[m].id /\ docs[m] \in Row
        BY <1>1, <1>2, <1>5 DEF Saves, OldRow, KnowledgeOK
      <4>2. job[j].old # Null
        BY <4>1, Constants DEF Row
      <4> QED
        BY <1>1, <1>2, <2>4, <4>2 DEF Doomed
    <3> QED
      BY <1>1, <2>1, <3>1, <3>2
  <2> QED
    BY <2>3, <2>4
<1> QED
  BY <1>3, <1>4, <1>5 DEF ChunksAreOnes

(* A commit leaves its own chunks, or a mark that two were at it.          *)
LEMMA ChunksOfCommit ==
  ASSUME KnowledgeOK, NumbersDiffer, ChunksAreOnes, NEW j \in Jobs, Commit(j)
  PROVE  ChunksAreOnes'
<1> PICK n : n = job[j].name
  OBVIOUS
<1>0. /\ job[j] \in Work /\ n \in Names /\ job[j].pc = "save" /\ job[j].old = OldRow(n)
      /\ docs'[n] # Null
  BY CommitFacts, ZenonT(60) DEF KnowledgeOK
<1>1. /\ \A k \in Jobs : k # j => job'[k] = job[k]
      /\ job'[j].pc # "save"
  <2>1. CASE job'[j] = [job[j] EXCEPT !.pc = "publish"]
    <3>1. job'[j].pc = "publish"
      BY <1>0, <2>1 DEF Work
    <3> QED
      BY <3>1, AfterCommit
  <2>2. CASE job'[j] # [job[j] EXCEPT !.pc = "publish"]
    BY <2>2, IdleJob, AfterCommit
  <2> QED
    BY <2>1, <2>2
<1>2. \A m \in Names : m # n => docs'[m] = docs[m] /\ chunks'[m] = chunks[m] /\ causes'[m] = causes[m]
  <2>1. ASSUME NEW m \in Names, m # n PROVE docs'[m] = docs[m] /\ chunks'[m] = chunks[m]
    BY <2>1, CommitElsewhere
  <2>2. ASSUME NEW m \in Names, m # n PROVE causes'[m] = causes[m]
    BY <2>2, CommitElsewhere
  <2> QED
    BY <2>1, <2>2
<1>3. \A k \in Jobs : job'[k].pc = "save" /\ job'[k].old = Null => job'[k].doomed = {}
  BY <1>1 DEF ChunksAreOnes
<1>4. \A m \in Names : docs'[m] = Null => chunks'[m] = {}
  BY <1>0, <1>2, ZenonT(60) DEF ChunksAreOnes
<1>5. ASSUME NEW m \in Names, m # n, docs'[m] # Null, "saved together" \notin causes'[m]
      PROVE  /\ \E w \in chunks'[m] : chunks'[m] = {w}
             /\ \A k \in Jobs : Saves(k, m)' => job'[k].doomed = chunks'[m]
             /\ \A k, l \in Jobs : Saves(k, m)' /\ Saves(l, m)' => k = l
  <2>1. /\ \E w \in chunks[m] : chunks[m] = {w}
        /\ \A k \in Jobs : Saves(k, m) => job[k].doomed = chunks[m]
        /\ \A k, l \in Jobs : Saves(k, m) /\ Saves(l, m) => k = l
    BY <1>2, <1>5 DEF ChunksAreOnes
  <2>2. \A k \in Jobs : Saves(k, m)' => Saves(k, m) /\ job'[k] = job[k]
    BY <1>1, <1>2, <1>5 DEF Saves, Writing, OldRow
  <2> QED
    BY <1>2, <1>5, <2>1, <2>2
<1>6. ASSUME "saved together" \notin causes'[n]
      PROVE  /\ \E w \in chunks'[n] : chunks'[n] = {w}
             /\ \A k \in Jobs : ~Saves(k, n)'
  <2>1. chunks'[n] = (chunks[n] \ job[j].doomed) \cup {Mine(j)}
    BY CommitFacts
  <2>2. chunks[n] \subseteq job[j].doomed
    <3>1. CASE docs[n] = Null
      BY <1>0, <3>1 DEF ChunksAreOnes
    <3>2. CASE docs[n] # Null /\ "saved together" \notin causes[n]
      <4>1. Saves(j, n)
        BY <1>0 DEF Saves, Writing
      <4> QED
        BY <1>0, <3>2, <4>1 DEF ChunksAreOnes
    <3>3. CASE "saved together" \in causes[n]
      BY <1>6, <3>3, AfterCommit
    <3> QED
      BY <3>1, <3>2, <3>3
  <2>3. \A k \in Jobs : ~Saves(k, n)'
    <3> SUFFICES ASSUME NEW k \in Jobs, Saves(k, n)' PROVE FALSE
      OBVIOUS
    <3>1. k # j /\ job'[k] = job[k] /\ job[k].pc = "save" /\ job[k].name = n
          /\ job[k].old = docs'[n].id
      BY <1>0, <1>1 DEF Saves, Writing, OldRow
    <3>2. k \in Rivals(j)
      BY <3>1 DEF Rivals, On, Busy
    <3>3. "saved together" \notin causes[n]
      BY <1>6, <3>2, AfterCommit
    <3>4. CASE docs[n] = Null
      <4>1. docs'[n].id = job[j].no
        BY <3>4, CommitFacts
      <4>2. Writing(k, n) /\ MayMake(j, n)
        BY <1>0, <3>1 DEF Writing, MayMake, Busy
      <4>3. job[j].no # Null
        BY <1>0, Constants DEF Work
      <4> QED
        BY <1>0, <3>1, <4>1, <4>2, <4>3 DEF NumbersDiffer
    <3>5. CASE docs[n] # Null
      <4>1. docs'[n].id = docs[n].id
        BY <3>5, CommitFacts
      <4>2. Saves(k, n) /\ Saves(j, n)
        BY <1>0, <3>1, <3>5, <4>1 DEF Saves, Writing, OldRow
      <4> QED
        BY <1>0, <3>1, <3>3, <3>5, <4>2 DEF ChunksAreOnes
    <3> QED
      BY <3>4, <3>5
  <2> QED
    BY <2>1, <2>2, <2>3
<1>7. ASSUME NEW m \in Names, docs'[m] # Null, "saved together" \notin causes'[m]
      PROVE  /\ \E w \in chunks'[m] : chunks'[m] = {w}
             /\ \A k \in Jobs : Saves(k, m)' => job'[k].doomed = chunks'[m]
             /\ \A k, l \in Jobs : Saves(k, m)' /\ Saves(l, m)' => k = l
  <2>1. CASE m = n
    BY <1>6, <1>7, <2>1
  <2>2. CASE m # n
    BY <1>5, <1>7, <2>2
  <2> QED
    BY <2>1, <2>2
<1> QED
  BY <1>3, <1>4, <1>7 DEF ChunksAreOnes

LEMMA ChunksStep ==
  ASSUME KnowledgeOK, NumbersDiffer, ChunksAreOnes, Next PROVE ChunksAreOnes'
<1>0. \A k \in Jobs : job[k] \in Work
  BY DEF KnowledgeOK
<1>1. ASSUME NEW j \in Jobs, Starts(j) PROVE ChunksAreOnes'
  <2>1. UNCHANGED <<docs, chunks>> /\ \A m \in Names : causes[m] \subseteq causes'[m]
    BY <1>1, BeginningFacts
  <2>2. \A k \in Jobs : job'[k] = job[k] \/ job'[k].pc # "save"
    BY <1>1, BeginningFacts
  <2> QED
    BY <2>1, <2>2, ChunksStay DEF ChunksAreOnes
<1>2. ASSUME NEW j \in Jobs, NEW s \in Sources, Import(j, s) PROVE ChunksAreOnes'
  <2>1. UNCHANGED <<docs, chunks, causes>>
    BY <1>2 DEF Import
  <2>2. \A k \in Jobs : job'[k] = [job[k] EXCEPT !.alone = FALSE] \/ job'[k].pc # "save"
    BY <1>2, ShapeOfImport
  <2>3. \A k \in Jobs : job'[k].pc = "save" =>
          /\ job[k].pc = "save" /\ job'[k].name = job[k].name /\ job'[k].old = job[k].old
          /\ job'[k].doomed = job[k].doomed
    BY <1>0, <2>2 DEF Work
  <2> QED
    BY <2>1, <2>3, ChunksStay DEF ChunksAreOnes
<1>3. ASSUME NEW j \in Jobs,
             \/ Look(j) \/ Extract(j) \/ Publish(j) \/ Disconnect(j)
             \/ Fail(j) \/ NoPages(j) \/ Finish(j) \/ List(j)
             \/ \E p \in Pages : SkipPage(j, p) \/ ReadPage(j, p)
      PROVE  ChunksAreOnes'
  <2>1. UNCHANGED <<docs, chunks, causes>> /\ \A k \in Jobs : k # j => job'[k] = job[k]
    BY <1>3, LookFacts, ExtractFacts, PublishFacts, DisconnectFacts, EndFacts, ListFacts,
       PageFacts DEF Fallow
  <2>2. job'[j].pc = "save" =>
          /\ job[j].pc = "save" /\ job'[j].name = job[j].name /\ job'[j].old = job[j].old
          /\ job'[j].doomed = job[j].doomed
    <3>1. CASE Look(j)
      <4>1. job'[j].pc # "save"
        <5>1. CASE job'[j] = Idle
          BY <5>1, IdleJob
        <5>2. CASE job'[j] # Idle
          BY <1>0, <3>1, <5>2, LookFacts, ZenonT(60) DEF Work
        <5> QED
          BY <5>1, <5>2
      <4> QED
        BY <4>1
    <3>2. CASE Extract(j)
      BY <1>0, <3>2, ExtractFacts DEF Work
    <3>6. CASE Disconnect(j)
      BY <1>0, <3>6, DisconnectFacts, ZenonT(60) DEF Work
    <3>3. CASE Publish(j) \/ Fail(j) \/ NoPages(j) \/ Finish(j)
      BY <3>3, PublishFacts, EndFacts, IdleJob
    <3>4. CASE List(j)
      BY <1>0, <3>4, ListFacts DEF Work
    <3>5. ASSUME NEW p \in Pages, SkipPage(j, p) \/ ReadPage(j, p) PROVE job'[j].pc # "save"
      <4>1. job[j].pc = "page"
        BY <3>5, PageFacts
      <4>2. \/ job'[j] = [job[j] EXCEPT !.todo = @ \ {p}]
            \/ \E v \in Versions :
                 \/ /\ Unchanged(p, v)
                    /\ job'[j] = [job[j] EXCEPT !.todo = @ \ {p}, !.read = @ \cup {<<p, v>>},
                                                !.keep = @ \cup {<<p, v>>}]
                 \/ job'[j] = [job[j] EXCEPT !.todo = @ \ {p}, !.read = @ \cup {<<p, v>>},
                          !.pc = "embed", !.name = p, !.hash = v, !.text = v, !.old = OldRow(p)]
        BY <3>5, PageFacts
      <4> QED
        BY <1>0, <4>1, <4>2 DEF Work
    <3> QED
      BY <1>3, <3>1, <3>2, <3>3, <3>4, <3>5, <3>6
  <2> QED
    BY <2>1, <2>2, ChunksStay DEF ChunksAreOnes
<1>4. ASSUME NEW j \in Jobs, Save(j) PROVE ChunksAreOnes'
  BY <1>4, ChunksOfSave
<1>5. ASSUME NEW j \in Jobs, Commit(j) PROVE ChunksAreOnes'
  BY <1>5, ChunksOfCommit
<1>6. ASSUME NEW j \in Jobs, Prune(j) PROVE ChunksAreOnes'
  <2>1. \A m \in Names : IF m \in Dropped(j) THEN docs'[m] = Null /\ chunks'[m] = {}
                         ELSE docs'[m] = docs[m] /\ chunks'[m] = chunks[m]
    BY <1>6, GoneFacts DEF Prune
  <2>2. \A m \in Names : m \notin Dropped(j) => causes'[m] = causes[m]
    BY <1>6, PruneFacts
  <2>3. \A k \in Jobs : job'[k] = job[k] \/ job'[k].pc # "save"
    BY <1>0, <1>6, PruneFacts DEF Work
  <2> QED
    BY <2>1, <2>2, <2>3, ChunksStay DEF ChunksAreOnes
<1>7. ASSUME NEW n \in Names, SetEnabled(n) PROVE ChunksAreOnes'
  <2>1. UNCHANGED <<chunks, causes, job>>
    BY <1>7 DEF SetEnabled
  <2>2. \A m \in Names : /\ docs'[m] = Null <=> docs[m] = Null
                         /\ docs'[m] # Null => docs'[m].id = docs[m].id
    BY <1>7, EnabledFacts
  <2> QED
    BY <2>1, <2>2, ChunksStay DEF ChunksAreOnes
<1>8. ASSUME Disturb
      PROVE  \A k \in Jobs : /\ job'[k].pc = job[k].pc /\ job'[k].name = job[k].name
                             /\ job'[k].old = job[k].old /\ job'[k].doomed = job[k].doomed
  <2> SUFFICES ASSUME NEW k \in Jobs
               PROVE  /\ job'[k].pc = job[k].pc /\ job'[k].name = job[k].name
                      /\ job'[k].old = job[k].old /\ job'[k].doomed = job[k].doomed
    OBVIOUS
  <2>1. job'[k] = [job[k] EXCEPT !.alone = FALSE]
    BY <1>8, DisturbFacts
  <2> QED
    BY <1>0, <2>1 DEF Work
<1>9. ASSUME NEW n \in Names, DeleteDocument(n) PROVE ChunksAreOnes'
  <2>1. \A m \in Names : m # n => docs'[m] = docs[m] /\ chunks'[m] = chunks[m] /\ causes'[m] = causes[m]
    BY <1>9, DeleteFacts
  <2>2. docs'[n] = Null /\ chunks'[n] = {} /\ Disturb
    BY <1>9, DeleteFacts DEF DeleteDocument
  <2> QED
    BY <1>8, <2>1, <2>2, ChunksStay, ZenonT(60) DEF ChunksAreOnes
<1>10. ASSUME NEW s \in Sources, DeleteSource(s) PROVE ChunksAreOnes'
  <2>1. \A m \in Names : IF m \in Owned(s) THEN docs'[m] = Null /\ chunks'[m] = {}
                         ELSE docs'[m] = docs[m] /\ chunks'[m] = chunks[m]
    BY <1>10, GoneFacts DEF DeleteSource
  <2>2. Disturb /\ \A m \in Names : m \notin Owned(s) => causes'[m] = causes[m]
    BY <1>10, DeleteSourceFacts DEF DeleteSource
  <2> QED
    BY <1>8, <2>1, <2>2, ChunksStay, ZenonT(60) DEF ChunksAreOnes
<1>11. ASSUME NEW s \in Sources, NEW p \in Pages, Change(s, p) PROVE ChunksAreOnes'
  BY <1>11, ChangeFacts, ChunksStay DEF ChunksAreOnes
<1>12. CASE Restart
  <2>1. \A k \in Jobs : job'[k] = job[k] \/ job'[k].pc # "save"
    BY <1>12, RestartFacts, IdleJob
  <2>2. UNCHANGED <<docs, chunks>> /\ \A m \in Names : causes[m] \subseteq causes'[m]
    BY <1>12, RestartFacts DEF Restart
  <2> QED
    BY <2>1, <2>2, ChunksStay DEF ChunksAreOnes
<1> QED
  BY <1>1, <1>2, <1>3, <1>4, <1>5, <1>6, <1>7, <1>9, <1>10, <1>11, <1>12, Steps

-----------------------------------------------------------------------------
(* Files.  A step that leaves a file and its document as they are, and     *)
(* brings no job to it.                                                    *)
Tends(j, f) ==
  /\ On(j, f)' => /\ On(j, f) /\ job'[j].hash = job[j].hash
                  /\ job'[j].pc = "publish" => job[j].pc = "publish"
                  /\ job'[j].kind = "reingest" => job[j].kind = "reingest"
  /\ On(j, f) /\ job[j].pc = "publish" => On(j, f)' /\ job'[j].pc = "publish"

LEMMA FileRests ==
  ASSUME NEW f \in Files, Excused(f) \/ Own(f), Excused(f)' \/ ~Excused(f),
         disk'[f] = disk[f],
         docs[f] # Null => docs'[f] # Null /\ docs'[f].hash = docs[f].hash,
         \A j \in Jobs : Tends(j, f)
  PROVE  (Excused(f) \/ Own(f))'
<1> SUFFICES ASSUME Own(f) PROVE Own(f)'
  OBVIOUS
<1>1. \A j, k \in Jobs : On(j, f)' /\ On(k, f)' => j = k
  BY DEF Own, Tends
<1>2. \A j \in Jobs : On(j, f)' =>
        /\ job'[j].pc = "publish" => docs'[f] # Null /\ docs'[f].hash = job'[j].hash
        /\ job'[j].kind = "reingest" => job'[j].hash = disk'[f]
  BY DEF Own, Tends
<1>3. disk'[f] # Null /\ (\A j \in Jobs : On(j, f)' => job'[j].pc # "publish") =>
        docs'[f] # Null /\ docs'[f].hash = disk'[f]
  BY DEF Own, Tends
<1> QED
  BY <1>1, <1>2, <1>3 DEF Own

LEMMA SameTends ==
  ASSUME KnowledgeOK, NEW j \in Jobs, NEW f \in Files,
         \/ job'[j] = job[j] \/ job'[j] = [job[j] EXCEPT !.alone = FALSE]
         \/ job'[j] = Idle /\ (job[j].pc # "publish" \/ ~On(j, f))
         \/ job'[j].name \notin Files /\ job[j].name \notin Files
  PROVE  Tends(j, f)
<1>0. job[j] \in Work
  BY DEF KnowledgeOK
<1>1. CASE job'[j] = Idle /\ (job[j].pc # "publish" \/ ~On(j, f))
  BY <1>1, IdleJob DEF Tends, On, Busy
<1>2. CASE job'[j].name \notin Files /\ job[j].name \notin Files
  BY <1>2 DEF Tends, On
<1>3. CASE job'[j] = job[j] \/ job'[j] = [job[j] EXCEPT !.alone = FALSE]
  <2>1. job'[j].pc = job[j].pc /\ job'[j].kind = job[j].kind /\ job'[j].name = job[j].name
        /\ job'[j].hash = job[j].hash
    BY <1>0, <1>3 DEF Work
  <2> QED
    BY <2>1 DEF Tends, On, Busy
<1> QED
  BY <1>1, <1>2, <1>3

LEMMA StillExcused ==
  ASSUME NEW f, causes[f] \subseteq causes'[f] PROVE Excused(f)' \/ ~Excused(f)
  BY DEF Excused

(* A job begins with a file: alone, or it is marked.                       *)
LEMMA FilesOfBeginning ==
  ASSUME KnowledgeOK, FilesAreTheirOwn, NEW j \in Jobs, Starts(j)
  PROVE  FilesAreTheirOwn'
<1> PICK g \in Files :
           /\ job[j].pc = "idle" /\ job'[j].pc = "look" /\ job'[j].name = g
           /\ job'[j].kind = "reingest" => job'[j].hash = disk[g]
           /\ \A k \in Jobs : k # j => job'[k] = job[k]
           /\ UNCHANGED <<docs, disk>>
           /\ \A m \in Names : m # g => causes'[m] = causes[m]
           /\ causes'[g] = IF \E k \in Jobs : On(k, g) THEN causes[g] \cup {"worked on together"}
                           ELSE causes[g]
  BY BeginningFacts
<1> SUFFICES ASSUME NEW f \in Files PROVE (Excused(f) \/ Own(f))'
  BY DEF FilesAreTheirOwn
<1>0. Excused(f) \/ Own(f)
  BY DEF FilesAreTheirOwn
<1>1. CASE f # g
  <2>1. \A k \in Jobs : Tends(k, f)
    <3>1. Tends(j, f)
      BY <1>1 DEF Tends, On, Busy
    <3> QED
      BY <3>1, SameTends
  <2>2. causes'[f] = causes[f]
    BY <1>1, Constants
  <2> QED
    BY <1>0, <2>1, <2>2, FileRests, StillExcused
<1>2. CASE f = g /\ \E k \in Jobs : On(k, f)
  BY <1>2 DEF Excused
<1>3. CASE f = g /\ ~Excused(f) /\ \A k \in Jobs : ~On(k, f)
  <2>1. \A k \in Jobs : On(k, f)' => k = j
    BY <1>3 DEF On, Busy
  <2> QED
    BY <1>0, <1>3, <2>1 DEF Own
<1>4. CASE f = g /\ Excused(f)
  BY <1>4 DEF Excused
<1> QED
  BY <1>1, <1>2, <1>3, <1>4

(* What a commit leaves is what will be moved, or what is there already.   *)
LEMMA FilesOfCommit ==
  ASSUME KnowledgeOK, FilesAreTheirOwn, NEW j \in Jobs, Commit(j)
  PROVE  FilesAreTheirOwn'
<1> PICK n : n = job[j].name
  OBVIOUS
<1>0. /\ job[j] \in Work /\ Shaped(job[j]) /\ n \in Names /\ job[j].pc = "save"
      /\ docs'[n] # Null /\ docs'[n].hash = job[j].hash /\ On(j, n)
  BY CommitFacts, ZenonT(60) DEF KnowledgeOK, On, Busy
<1>1. /\ \A k \in Jobs : k # j => job'[k] = job[k]
      /\ disk' = disk
  BY AfterCommit DEF Commit
<1> SUFFICES ASSUME NEW f \in Files PROVE (Excused(f) \/ Own(f))'
  BY DEF FilesAreTheirOwn
<1>2. Excused(f) \/ Own(f)
  BY DEF FilesAreTheirOwn
<1>3. CASE f # n
  <2>1. docs'[f] = docs[f] /\ causes'[f] = causes[f]
    BY <1>3, CommitElsewhere, Constants
  <2>2. Tends(j, f)
    <3>1. job'[j].name = n \/ job'[j].name = Null
      <4>1. CASE job'[j] = [job[j] EXCEPT !.pc = "publish"]
        BY <1>0, <4>1 DEF Work
      <4>2. CASE job'[j] # [job[j] EXCEPT !.pc = "publish"]
        BY <4>2, AfterCommit, IdleJob
      <4> QED
        BY <4>1, <4>2
    <3> QED
      BY <1>3, <3>1, Constants DEF Tends, On
  <2> QED
    BY <1>1, <1>2, <2>1, <2>2, SameTends, FileRests, StillExcused
<1>4. CASE f = n
  <2>1. job[j].kind # "web"
    BY <1>0, <1>4, Constants DEF Shaped
  <2>2. Excused(f) => Excused(f)'
    <3>1. \A c \in causes[n] : c # "saved together" => c \in causes'[n]
      BY AfterCommit
    <3> QED
      BY <1>4, <3>1 DEF Excused
  <2>3. CASE job[j].kind \in {"cli", "orphan"}
    <3>1. "inbox" \in causes'[n] \/ "cut short" \in causes'[n]
      BY <2>3, AfterCommit
    <3> QED
      BY <1>4, <3>1 DEF Excused
  <2>4. CASE Own(f) /\ job[j].kind = "upload"
    <3>1. job'[j] = [job[j] EXCEPT !.pc = "publish"]
      BY <2>4, AfterCommit
    <3>2. job'[j].pc = "publish" /\ job'[j].kind = "upload" /\ job'[j].hash = job[j].hash
          /\ job'[j].name = n
      BY <1>0, <2>4, <3>1 DEF Work
    <3>3. \A k \in Jobs : On(k, f)' <=> k = j
      BY <1>0, <1>1, <1>4, <2>4, <3>2 DEF Own, On, Busy
    <3> QED
      BY <1>0, <1>4, <3>2, <3>3 DEF Own
  <2>5. CASE Own(f) /\ job[j].kind = "reingest"
    <3>1. job'[j] = Idle
      BY <2>5, AfterCommit
    <3>2. \A k \in Jobs : ~On(k, f)'
      BY <1>0, <1>1, <1>4, <2>5, <3>1, IdleJob DEF Own, On, Busy
    <3>3. job[j].hash = disk[f]
      BY <1>0, <1>4, <2>5 DEF Own
    <3> QED
      BY <1>0, <1>1, <1>4, <3>2, <3>3 DEF Own
  <2> QED
    BY <1>0, <1>2, <2>1, <2>2, <2>3, <2>4, <2>5 DEF Work
<1> QED
  BY <1>3, <1>4

LEMMA FilesOfPublish ==
  ASSUME KnowledgeOK, FilesAreTheirOwn, NEW j \in Jobs, Publish(j)
  PROVE  FilesAreTheirOwn'
<1> PICK n : n = job[j].name
  OBVIOUS
<1>0. /\ n \in Files /\ On(j, n) /\ job[j].pc = "publish" /\ job'[j] = Idle /\ UNCHANGED <<docs, causes>>
      /\ \A k \in Jobs : k # j => job'[k] = job[k]
      /\ disk'[n] = job[j].hash
  BY PublishFacts DEF On, Busy, Fallow
<1>1. ASSUME NEW f \in Files, f # n PROVE disk'[f] = disk[f]
  BY <1>1 DEF Publish, KnowledgeOK
<1> SUFFICES ASSUME NEW f \in Files PROVE (Excused(f) \/ Own(f))'
  BY DEF FilesAreTheirOwn
<1>2. Excused(f) \/ Own(f)
  BY DEF FilesAreTheirOwn
<1>3. CASE f # n
  <2>1. \A k \in Jobs : Tends(k, f)
    BY <1>0, <1>3, SameTends DEF On
  <2> QED
    BY <1>0, <1>1, <1>2, <1>3, <2>1, FileRests DEF Excused
<1>4. CASE f = n /\ Own(f)
  <2>1. \A k \in Jobs : ~On(k, f)'
    BY <1>0, <1>4, IdleJob DEF Own, On, Busy
  <2> QED
    BY <1>0, <1>4, <2>1 DEF Own
<1> QED
  BY <1>0, <1>2, <1>3, <1>4 DEF Excused

LEMMA FilesOfLook ==
  ASSUME KnowledgeOK, FilesAreTheirOwn, NEW j \in Jobs, Look(j)
  PROVE  FilesAreTheirOwn'
<1> PICK n : n = job[j].name
  OBVIOUS
<1>0. /\ job[j] \in Work /\ n \in Files /\ job[j].pc = "look" /\ UNCHANGED <<docs, causes, disk>>
      /\ \A k \in Jobs : k # j => job'[k] = job[k]
  BY LookFacts DEF KnowledgeOK, Fallow
<1> SUFFICES ASSUME NEW f \in Files PROVE (Excused(f) \/ Own(f))'
  BY DEF FilesAreTheirOwn
<1>1. Excused(f) \/ Own(f)
  BY DEF FilesAreTheirOwn
<1>2. ASSUME Tends(j, f) PROVE (Excused(f) \/ Own(f))'
  BY <1>0, <1>1, <1>2, SameTends, FileRests DEF Excused
<1>3. CASE job'[j] = Idle
  BY <1>0, <1>2, <1>3, SameTends
<1>4. CASE job'[j] = [job[j] EXCEPT !.pc = "extract", !.old = OldRow(n)]
  <2>1. job'[j].pc = "extract" /\ job'[j].kind = job[j].kind /\ job'[j].name = n /\ job'[j].hash = job[j].hash
    BY <1>0, <1>4 DEF Work
  <2>2. Tends(j, f)
    BY <1>0, <2>1 DEF Tends, On, Busy
  <2> QED
    BY <1>2, <2>2
<1>5. CASE job[j].kind = "upload" /\ Unchanged(n, job[j].hash) /\ job'[j] = [job[j] EXCEPT !.pc = "publish"]
  <2>1. job'[j].pc = "publish" /\ job'[j].kind = "upload" /\ job'[j].name = n /\ job'[j].hash = job[j].hash
    BY <1>0, <1>5 DEF Work
  <2>2. CASE f # n
    BY <1>0, <1>2, <2>1, <2>2 DEF Tends, On
  <2>3. CASE f = n /\ Own(f)
    <3>1. \A k \in Jobs : On(k, f)' <=> k = j
      BY <1>0, <2>1, <2>3 DEF Own, On, Busy
    <3>2. docs[f] # Null /\ docs[f].hash = job[j].hash
      BY <1>5, <2>3 DEF Unchanged
    <3> QED
      BY <1>0, <2>1, <3>1, <3>2 DEF Own
  <2> QED
    BY <1>0, <1>1, <2>2, <2>3 DEF Excused
<1> QED
  BY <1>3, <1>4, <1>5, LookFacts

LEMMA FilesStep ==
  ASSUME KnowledgeOK, FilesAreTheirOwn, Next PROVE FilesAreTheirOwn'
<1>0. \A k \in Jobs : job[k] \in Work /\ Shaped(job[k])
  BY DEF KnowledgeOK
<1>1. ASSUME NEW f \in Files PROVE Excused(f) \/ Own(f)
  BY DEF FilesAreTheirOwn
<1>2. ASSUME NEW j \in Jobs, Starts(j) PROVE FilesAreTheirOwn'
  BY <1>2, FilesOfBeginning
<1>3. ASSUME UNCHANGED <<disk, causes>>, NEW f \in Files, docs'[f] = docs[f],
             \A k \in Jobs : Tends(k, f)
      PROVE  (Excused(f) \/ Own(f))'
  BY <1>1, <1>3, FileRests DEF Excused
<1>4. ASSUME NEW j \in Jobs, NEW s \in Sources, Import(j, s) PROVE FilesAreTheirOwn'
  <2>1. UNCHANGED <<docs, disk, causes>> /\ job[j].pc = "idle"
    BY <1>4 DEF Import, Busy
  <2>2. job'[j].name = Null /\ \A k \in Jobs : k # j => job'[k] = [job[k] EXCEPT !.alone = FALSE]
    BY <1>4, ShapeOfImport
  <2>3. \A f \in Files, k \in Jobs : Tends(k, f)
    <3>1. \A f \in Files : Tends(j, f)
      BY <2>1, <2>2, Constants DEF Tends, On, Busy
    <3> QED
      BY <2>2, <3>1, SameTends
  <2> QED
    BY <1>3, <2>1, <2>3 DEF FilesAreTheirOwn
<1>5. ASSUME NEW j \in Jobs, Look(j) PROVE FilesAreTheirOwn'
  BY <1>5, FilesOfLook
<1>6. ASSUME NEW j \in Jobs, Extract(j) \/ Save(j) \/ Disconnect(j) PROVE FilesAreTheirOwn'
  <2>1. UNCHANGED <<docs, disk>> /\ \A k \in Jobs : k # j => job'[k] = job[k]
    BY <1>6, ExtractFacts, SaveFacts, DisconnectFacts DEF Fallow
  <2>2. \A m \in Names : causes[m] \subseteq causes'[m]
    BY <1>6, ExtractFacts, SaveFacts, DisconnectFacts
  <2>3. /\ job'[j].name = job[j].name /\ job'[j].hash = job[j].hash
        /\ job'[j].kind = "reingest" => job[j].kind = "reingest"
        /\ job[j].pc # "publish" /\ job[j].pc # "idle" /\ job'[j].pc # "publish"
    <3>1. CASE Extract(j)
      <4>1. job'[j] = [job[j] EXCEPT !.pc = "embed", !.text = Opened(j)] /\ job[j].pc = "extract"
        BY <3>1, ExtractFacts
      <4> QED
        BY <1>0, <4>1 DEF Work
    <3>2. CASE Save(j)
      <4>1. job'[j] = [job[j] EXCEPT !.pc = "save", !.doomed = Doomed(j)] /\ job[j].pc = "embed"
        BY <3>2, SaveFacts
      <4> QED
        BY <1>0, <4>1 DEF Work
    <3>3. CASE Disconnect(j)
      <4>1. job'[j] = [job[j] EXCEPT !.kind = "orphan"] /\ job[j].pc \in {"look", "extract", "embed", "save"}
        BY <3>3, DisconnectFacts
      <4> QED
        BY <1>0, <4>1 DEF Work
    <3> QED
      BY <1>6, <3>1, <3>2, <3>3
  <2>4. \A f \in Files, k \in Jobs : Tends(k, f)
    <3>1. \A f \in Files : Tends(j, f)
      BY <2>3 DEF Tends, On, Busy
    <3> QED
      BY <2>1, <3>1, SameTends
  <2>5. ASSUME NEW f \in Files PROVE (Excused(f) \/ Own(f))'
    <3>1. Excused(f)' \/ ~Excused(f)
      BY <2>2, StillExcused, Constants
    <3> QED
      BY <1>1, <2>1, <2>4, <3>1, FileRests
  <2> QED
    BY <2>5 DEF FilesAreTheirOwn
<1>7. ASSUME NEW j \in Jobs, Commit(j) PROVE FilesAreTheirOwn'
  BY <1>7, FilesOfCommit
<1>8. ASSUME NEW j \in Jobs, Publish(j) PROVE FilesAreTheirOwn'
  BY <1>8, FilesOfPublish
<1>9. ASSUME NEW j \in Jobs, Fail(j) \/ NoPages(j) \/ Finish(j) PROVE FilesAreTheirOwn'
  <2>1. UNCHANGED <<docs, disk, causes>> /\ job'[j] = Idle /\ job[j].pc # "publish"
        /\ \A k \in Jobs : k # j => job'[k] = job[k]
    BY <1>9, EndFacts DEF Fallow
  <2> QED
    BY <1>3, <2>1, SameTends DEF FilesAreTheirOwn
<1>10. ASSUME NEW j \in Jobs, List(j) \/ Prune(j) \/ \E p \in Pages : SkipPage(j, p) \/ ReadPage(j, p)
       PROVE  FilesAreTheirOwn'
  <2>1. /\ disk' = disk /\ \A k \in Jobs : k # j => job'[k] = job[k]
    BY <1>10, ListFacts, PageFacts, PruneFacts DEF Prune
  <2>2. \A f \in Files : docs'[f] = docs[f] /\ causes'[f] = causes[f]
    <3>1. CASE Prune(j)
      <4>1. \A f \in Files : f \in Names /\ f \notin Dropped(j)
        BY <3>1, PruneFacts, Constants
      <4> QED
        BY <3>1, <4>1, PruneFacts, GoneFacts DEF Prune
    <3>2. CASE ~Prune(j)
      BY <1>10, <3>2, ListFacts, PageFacts DEF Fallow
    <3> QED
      BY <3>1, <3>2
  <2>3. job[j].name \notin Files /\ job'[j].name \notin Files
    <3>1. KnowledgeOK' /\ job[j].kind = "web" /\ job'[j].kind = "web"
      <4>1. CASE List(j)
        BY <1>0, <4>1, ListFacts, ZenonT(60) DEF Work
      <4>2. CASE Prune(j)
        <5>1. KnowledgeOK' /\ job[j].kind = "web" /\ job'[j] = [job[j] EXCEPT !.pc = "finish"]
          BY <4>2, PruneFacts
        <5> QED
          BY <1>0, <5>1 DEF Work
      <4>3. ASSUME NEW p \in Pages, SkipPage(j, p) \/ ReadPage(j, p)
            PROVE  KnowledgeOK' /\ job[j].kind = "web" /\ job'[j].kind = "web"
        <5>1. KnowledgeOK' /\ job[j].kind = "web"
          BY <4>3, PageFacts
        <5>2. \/ job'[j] = [job[j] EXCEPT !.todo = @ \ {p}]
              \/ \E v \in Versions :
                   \/ /\ Unchanged(p, v)
                      /\ job'[j] = [job[j] EXCEPT !.todo = @ \ {p}, !.read = @ \cup {<<p, v>>},
                                                  !.keep = @ \cup {<<p, v>>}]
                   \/ job'[j] = [job[j] EXCEPT !.todo = @ \ {p}, !.read = @ \cup {<<p, v>>},
                            !.pc = "embed", !.name = p, !.hash = v, !.text = v, !.old = OldRow(p)]
          BY <4>3, PageFacts
        <5> QED
          BY <1>0, <5>1, <5>2 DEF Work
      <4> QED
        BY <1>10, <4>1, <4>2, <4>3
    <3>2. Shaped(job'[j])
      BY <3>1 DEF KnowledgeOK
    <3> QED
      BY <1>0, <3>1, <3>2, Constants DEF Shaped
  <2>4. \A f \in Files, k \in Jobs : Tends(k, f)
    BY <2>1, <2>3, SameTends
  <2>5. ASSUME NEW f \in Files PROVE (Excused(f) \/ Own(f))'
    BY <1>1, <2>1, <2>2, <2>4, FileRests DEF Excused
  <2> QED
    BY <2>5 DEF FilesAreTheirOwn
<1>11. ASSUME NEW n \in Names, SetEnabled(n) PROVE FilesAreTheirOwn'
  <2>1. UNCHANGED <<disk, causes, job>>
    BY <1>11 DEF SetEnabled
  <2>2. \A m \in Names : docs[m] # Null => docs'[m] # Null /\ docs'[m].hash = docs[m].hash
    BY <1>11, EnabledFacts
  <2>3. \A f \in Files, k \in Jobs : Tends(k, f)
    BY <2>1, SameTends
  <2>4. ASSUME NEW f \in Files PROVE (Excused(f) \/ Own(f))'
    BY <1>1, <2>1, <2>2, <2>3, FileRests, Constants DEF Excused
  <2> QED
    BY <2>4 DEF FilesAreTheirOwn
<1>12. ASSUME Disturb PROVE \A f \in Files, k \in Jobs : Tends(k, f)
  BY <1>12, DisturbFacts, SameTends
<1>13. ASSUME NEW n \in Names, DeleteDocument(n) PROVE FilesAreTheirOwn'
  <2>1. Disturb
    BY <1>13 DEF DeleteDocument
  <2>2. ASSUME NEW f \in Files, f # n PROVE (Excused(f) \/ Own(f))'
    <3>0. f \in Names
      BY Constants
    <3>1. docs'[f] = docs[f] /\ causes'[f] = causes[f]
      BY <1>13, <2>2, <3>0, DeleteFacts
    <3>2. disk'[f] = disk[f]
      BY <1>13, <2>2, DeleteFacts
    <3> QED
      BY <1>1, <1>12, <2>1, <3>1, <3>2, FileRests DEF Excused
  <2>3. ASSUME n \in Files PROVE (Excused(n) \/ Own(n))'
    <3>1. CASE \E k \in Jobs : On(k, n)
      BY <1>13, <3>1, DeleteFacts DEF Excused
    <3>2. CASE \A k \in Jobs : ~On(k, n)
      <4>1. \A k \in Jobs : ~On(k, n)'
        BY <1>12, <2>1, <2>3, <3>2 DEF Tends
      <4>2. disk'[n] = Null
        BY <1>13, <2>3, DeleteFacts
      <4> QED
        BY <4>1, <4>2 DEF Own
    <3> QED
      BY <3>1, <3>2
  <2> QED
    BY <2>2, <2>3 DEF FilesAreTheirOwn
<1>14. ASSUME NEW s \in Sources, DeleteSource(s) PROVE FilesAreTheirOwn'
  <2>1. Disturb /\ disk' = disk
    BY <1>14 DEF DeleteSource
  <2>2. ASSUME NEW f \in Files PROVE (Excused(f) \/ Own(f))'
    <3>1. f \in Names /\ f \notin Owned(s)
      BY Constants DEF Owned
    <3>2. docs'[f] = docs[f] /\ causes'[f] = causes[f]
      BY <1>14, <3>1, DeleteSourceFacts, GoneFacts DEF DeleteSource
    <3> QED
      BY <1>1, <1>12, <2>1, <3>2, FileRests DEF Excused
  <2> QED
    BY <2>2 DEF FilesAreTheirOwn
<1>15. ASSUME NEW s \in Sources, NEW p \in Pages, Change(s, p) PROVE FilesAreTheirOwn'
  <2>1. UNCHANGED <<docs, disk, causes, job>>
    BY <1>15, ChangeFacts DEF Change
  <2> QED
    BY <1>3, <2>1, SameTends DEF FilesAreTheirOwn
<1>16. CASE Restart
  <2>1. UNCHANGED <<docs, disk>>
    BY <1>16 DEF Restart
  <2>2. ASSUME NEW f \in Files PROVE (Excused(f) \/ Own(f))'
    <3>0. f \in Names /\ causes[f] \subseteq causes'[f]
      BY <1>16, RestartFacts, Constants
    <3>1. CASE \E k \in Jobs : On(k, f) /\ job[k].pc = "publish"
      BY <1>16, <3>0, <3>1, RestartFacts DEF Excused
    <3>2. CASE \A k \in Jobs : ~(On(k, f) /\ job[k].pc = "publish")
      <4>1. \A k \in Jobs : Tends(k, f)
        BY <1>16, <3>2, RestartFacts, SameTends
      <4> QED
        BY <1>1, <2>1, <3>0, <4>1, FileRests, StillExcused
    <3> QED
      BY <3>1, <3>2
  <2> QED
    BY <2>2 DEF FilesAreTheirOwn
<1> QED
  BY <1>2, <1>4, <1>5, <1>6, <1>7, <1>8, <1>9, <1>10, <1>11, <1>13, <1>14, <1>15, <1>16, Steps

-----------------------------------------------------------------------------
(* Every step keeps the shape.                                             *)
LEMMA ShapeStep == ASSUME KnowledgeOK, Next PROVE KnowledgeOK'
<1>1. ASSUME NEW j \in Jobs, Starts(j) PROVE KnowledgeOK'
  BY <1>1, ShapeOfBeginning
<1>2. ASSUME NEW j \in Jobs, NEW s \in Sources, Import(j, s) PROVE KnowledgeOK'
  BY <1>2, ShapeOfImport
<1>3. ASSUME NEW j \in Jobs, Commit(j) PROVE KnowledgeOK'
  BY <1>3, AfterCommit
<1>4. ASSUME NEW j \in Jobs, Prune(j) PROVE KnowledgeOK'
  BY <1>4, PruneFacts
<1>5. ASSUME NEW n \in Names, SetEnabled(n) \/ DeleteDocument(n) PROVE KnowledgeOK'
  BY <1>5, EnabledFacts, DeleteFacts
<1>6. ASSUME NEW s \in Sources, DeleteSource(s) \/ \E p \in Pages : Change(s, p) PROVE KnowledgeOK'
  BY <1>6, DeleteSourceFacts, ChangeFacts
<1>7. ASSUME NEW j \in Jobs, Look(j) \/ Extract(j) \/ Save(j) \/ Publish(j) \/ Disconnect(j)
      PROVE  KnowledgeOK'
  BY <1>7, ShapeOfFiles
<1>8. ASSUME NEW j \in Jobs,
             \/ List(j) \/ NoPages(j) \/ Finish(j) \/ Fail(j)
             \/ \E p \in Pages : SkipPage(j, p) \/ ReadPage(j, p)
      PROVE  KnowledgeOK'
  BY <1>8, ShapeOfImports
<1> QED
  BY <1>1, <1>2, <1>3, <1>4, <1>5, <1>6, <1>7, <1>8, RestartFacts, Steps

-----------------------------------------------------------------------------
(* A document comes back as it was made, and goes with what was chosen for *)
(* it, unless an import drops it.                                          *)
LEMMA ChoicesStep ==
  ASSUME KnowledgeOK, ChoicesOutliveDrops, Next PROVE ChoicesOutliveDrops'
<1>1. ASSUME NEW m \in Names
      PROVE  choice[m] = FALSE /\ (docs[m] = Null \/ docs[m].enabled) => "dropped" \in causes[m]
  BY DEF ChoicesOutliveDrops
<1>2. ASSUME UNCHANGED <<docs, choice>>, \A m \in Names : causes[m] \subseteq causes'[m]
      PROVE  ChoicesOutliveDrops'
  BY <1>2, <1>1 DEF ChoicesOutliveDrops
<1>3. ASSUME NEW j \in Jobs, Starts(j) PROVE ChoicesOutliveDrops'
  <2>1. UNCHANGED <<docs, choice>>
    BY <1>3, BeginningFacts
  <2>2. PICK kind \in Kinds, f \in Files, v \in Versions : BeginFile(j, kind, f, v)
    BY <1>3 DEF Starts
  <2>3. \A m \in Names : causes[m] \subseteq causes'[m]
    BY <2>2, BlameFacts DEF BeginFile, Causes
  <2> QED
    BY <1>2, <2>1, <2>3
<1>4. ASSUME NEW j \in Jobs, NEW s \in Sources, Import(j, s) PROVE ChoicesOutliveDrops'
  BY <1>2, <1>4 DEF Import
<1>5. ASSUME NEW j \in Jobs,
             \/ Look(j) \/ Extract(j) \/ Publish(j) \/ List(j) \/ Disconnect(j)
             \/ NoPages(j) \/ Finish(j) \/ Fail(j)
             \/ \E p \in Pages : SkipPage(j, p) \/ ReadPage(j, p)
      PROVE  ChoicesOutliveDrops'
  <2>1. UNCHANGED <<docs, choice, causes>>
    BY <1>5 DEF Look, Extract, Publish, List, Disconnect, NoPages, Finish, Fail, SkipPage, ReadPage
  <2> QED
    BY <1>2, <2>1
<1>6. ASSUME NEW j \in Jobs, Save(j) PROVE ChoicesOutliveDrops'
  BY <1>2, <1>6, SaveFacts DEF Fallow
<1>7. ASSUME NEW j \in Jobs, Commit(j) PROVE ChoicesOutliveDrops'
  <2> PICK n : n = job[j].name
    OBVIOUS
  <2>0. choice' = choice
    BY <1>7 DEF Commit
  <2>1. choice' = choice /\ n \in Names /\ docs'[n] # Null
    BY <1>7, <2>0, CommitFacts
  <2>2. ASSUME NEW m \in Names, m # n
        PROVE  (choice[m] = FALSE /\ (docs[m] = Null \/ docs[m].enabled) => "dropped" \in causes[m])'
    <3>1. docs'[m] = docs[m] /\ causes'[m] = causes[m]
      BY <1>7, <2>2, CommitElsewhere
    <3> QED
      BY <1>1, <2>1, <3>1
  <2>3. docs[n] = Null \/ docs'[n].enabled = docs[n].enabled
    BY <1>7, CommitFacts
  <2>4. "dropped" \in causes[n] => "dropped" \in causes'[n]
    BY <1>7, AfterCommit
  <2> QED
    BY <1>1, <2>1, <2>2, <2>3, <2>4 DEF ChoicesOutliveDrops
<1>8. ASSUME NEW j \in Jobs, Prune(j) PROVE ChoicesOutliveDrops'
  <2>1. choice' = choice /\ Gone(Dropped(j))
    BY <1>8 DEF Prune
  <2>2. ASSUME NEW m \in Names
        PROVE  (choice[m] = FALSE /\ (docs[m] = Null \/ docs[m].enabled) => "dropped" \in causes[m])'
    <3>1. CASE m \in Dropped(j)
      BY <1>8, <3>1, PruneFacts
    <3>2. CASE m \notin Dropped(j)
      <4>1. docs'[m] = docs[m] /\ causes'[m] = causes[m]
        BY <1>8, <2>1, <3>2, PruneFacts, GoneFacts
      <4> QED
        BY <1>1, <2>1, <4>1
    <3> QED
      BY <3>1, <3>2
  <2> QED
    BY <2>2 DEF ChoicesOutliveDrops
<1>9. ASSUME NEW n \in Names, SetEnabled(n) PROVE ChoicesOutliveDrops'
  <2>1. causes' = causes
    BY <1>9 DEF SetEnabled
  <2>2. ASSUME NEW m \in Names, m # n
        PROVE  (choice[m] = FALSE /\ (docs[m] = Null \/ docs[m].enabled) => "dropped" \in causes[m])'
    BY <1>1, <1>9, <2>1, <2>2, EnabledFacts
  <2>3. docs'[n] # Null /\ choice'[n] = docs'[n].enabled
    BY <1>9, EnabledFacts
  <2> QED
    BY <2>2, <2>3 DEF ChoicesOutliveDrops
<1>10. ASSUME NEW n \in Names, DeleteDocument(n) PROVE ChoicesOutliveDrops'
  <2>1. choice'[n] = Null /\ Null # FALSE
    BY <1>10, DeleteFacts, Constants
  <2>2. ASSUME NEW m \in Names, m # n
        PROVE  (choice[m] = FALSE /\ (docs[m] = Null \/ docs[m].enabled) => "dropped" \in causes[m])'
    <3>1. docs'[m] = docs[m] /\ choice'[m] = choice[m] /\ causes'[m] = causes[m]
      BY <1>10, <2>2, DeleteFacts
    <3> QED
      BY <1>1, <3>1
  <2> QED
    BY <2>1, <2>2 DEF ChoicesOutliveDrops
<1>11. ASSUME NEW s \in Sources, DeleteSource(s) PROVE ChoicesOutliveDrops'
  <2>1. Gone(Owned(s)) /\ Null # FALSE
    BY <1>11, Constants DEF DeleteSource
  <2>2. ASSUME NEW m \in Names
        PROVE  (choice[m] = FALSE /\ (docs[m] = Null \/ docs[m].enabled) => "dropped" \in causes[m])'
    <3>1. CASE m \in Owned(s)
      BY <1>11, <2>1, <3>1, DeleteSourceFacts
    <3>2. CASE m \notin Owned(s)
      <4>1. docs'[m] = docs[m] /\ causes'[m] = causes[m] /\ choice'[m] = choice[m]
        BY <1>11, <2>1, <3>2, DeleteSourceFacts, GoneFacts
      <4> QED
        BY <1>1, <4>1
    <3> QED
      BY <3>1, <3>2
  <2> QED
    BY <2>2 DEF ChoicesOutliveDrops
<1>12. ASSUME NEW s \in Sources, NEW p \in Pages, Change(s, p) PROVE ChoicesOutliveDrops'
  BY <1>2, <1>12, ChangeFacts
<1>13. CASE Restart
  BY <1>2, <1>13, RestartFacts DEF Restart
<1> QED
  BY <1>3, <1>4, <1>5, <1>6, <1>7, <1>8, <1>9, <1>10, <1>11, <1>12, <1>13, Steps

-----------------------------------------------------------------------------
(* A step that touches no page and moves no import that is undisturbed.    *)
LEMMA ImportsRest ==
  ASSUME KnowledgeOK, ImportsAreWhole,
         \A p \in Pages : /\ docs'[p] = Null <=> docs[p] = Null
                          /\ docs[p] # Null => docs'[p].hash = docs[p].hash
                                               /\ docs'[p].source = docs[p].source,
         \A s \in Sources : settled'[s] = settled[s] \/ settled'[s] = Null,
         \A s \in Sources : (sources'[s] = Null <=> sources[s] = Null)
                            /\ (sources[s] # Null => sources'[s].id = sources[s].id),
         \A j \in Jobs : job'[j] = job[j] \/ (job'[j].alone = FALSE /\ (Importing(j)' => Importing(j)))
  PROVE  ImportsAreWhole'
<1>0. \A j \in Jobs : job[j] \in Work /\ Shaped(job[j])
  BY DEF KnowledgeOK
<1>1. \A k \in Jobs : Importing(k)' => Importing(k)
  BY DEF Importing, Busy
<1>2. ASSUME NEW j \in Jobs, job'[j].alone PROVE Undisturbed(j)'
  <2>1. job'[j] = job[j] /\ Undisturbed(j)
    BY <1>2 DEF ImportsAreWhole
  <2>2. job[j].source \in Sources /\ job[j].keep \in Readings
    BY <1>0, <2>1 DEF Undisturbed, Importing, Shaped, Work
  <2>3. SourceThere(j)' /\ Importing(j)' /\ BeingWritten(j)' = BeingWritten(j)
    BY <2>1, <2>2 DEF Undisturbed, SourceThere, Importing, Busy, BeingWritten
  <2>4. \A r \in job[j].keep : r[1] \in Pages
    BY <2>2 DEF Readings
  <2>5. Owned(job[j].source)' = Owned(job[j].source)
    BY <2>1 DEF Owned
  <2> QED
    BY <1>1, <2>1, <2>3, <2>4, <2>5 DEF Undisturbed
<1>3. ASSUME NEW s \in Sources, settled'[s] # Null
      PROVE  /\ NoImport'
             /\ \A r \in settled'[s] : docs'[r[1]] # Null /\ docs'[r[1]].hash = r[2]
             /\ \A p \in Owned(s)' : \E v \in Versions : <<p, v>> \in settled'[s]
  <2>1. settled'[s] = settled[s] /\ settled[s] # Null /\ settled[s] \in Readings
    BY <1>3 DEF KnowledgeOK
  <2>2. NoImport'
    BY <1>1, <2>1 DEF ImportsAreWhole, NoImport
  <2>3. \A r \in settled[s] : r[1] \in Pages
    BY <2>1 DEF Readings
  <2>4. Owned(s)' = Owned(s)
    BY DEF Owned
  <2> QED
    BY <2>1, <2>2, <2>3, <2>4 DEF ImportsAreWhole, ImportedIsWhatWasRead
<1> QED
  BY <1>2, <1>3 DEF ImportsAreWhole, ImportedIsWhatWasRead

(* A step of an import: nobody else is undisturbed, nothing is settled.    *)
LEMMA ImportGoes ==
  ASSUME KnowledgeOK, ImportsAreWhole, NEW j \in Jobs, Importing(j),
         \A k \in Jobs : k # j => job'[k] = job[k],
         job'[j].alone = job[j].alone, settled' = settled,
         Undisturbed(j) /\ job[j].alone => Undisturbed(j)'
  PROVE  ImportsAreWhole'
<1>1. \A s \in Sources : settled'[s] = Null
  BY DEF ImportsAreWhole, NoImport
<1>2. ASSUME NEW k \in Jobs, job'[k].alone PROVE Undisturbed(k)'
  <2>1. job[k].alone /\ Undisturbed(k)
    BY <1>2 DEF ImportsAreWhole
  <2>2. k = j
    BY <2>1 DEF Undisturbed
  <2> QED
    BY <2>1, <2>2
<1> QED
  BY <1>1, <1>2 DEF ImportsAreWhole, ImportedIsWhatWasRead

(* Nobody is undisturbed any more.                                         *)
LEMMA ImportsCease ==
  ASSUME \A j \in Jobs : job'[j].alone = FALSE, \A s \in Sources : settled'[s] = Null
  PROVE  ImportsAreWhole'
  BY DEF ImportsAreWhole, ImportedIsWhatWasRead

LEMMA ImportBegins ==
  ASSUME KnowledgeOK, ImportsAreWhole, NEW j \in Jobs, NEW s \in Sources, Import(j, s)
  PROVE  ImportsAreWhole'
<1>0. \A k \in Jobs : job[k] \in Work
  BY DEF KnowledgeOK
<1>1. \A t \in Sources : settled'[t] = Null
  BY DEF Import
<1>2. \A k \in Jobs : k # j => job'[k] = [job[k] EXCEPT !.alone = FALSE]
  BY ShapeOfImport
<1>3. \A k \in Jobs : k # j =>
        job'[k].alone = FALSE /\ job'[k].pc = job[k].pc /\ job'[k].kind = job[k].kind
  BY <1>0, <1>2, ZenonT(60) DEF Work
<1>4. /\ job'[j].pc = "list" /\ job'[j].kind = "web" /\ job'[j].source = s /\ job'[j].name = Null
      /\ job'[j].keep = {} /\ job'[j].read = {} /\ job'[j].alone = NoImport
      /\ sources'[s] # Null /\ sources'[s].id = job'[j].row
  BY ShapeOfImport
<1>5. ASSUME NoImport PROVE Undisturbed(j)'
  <2>1. Importing(j)' /\ SourceThere(j)' /\ BeingWritten(j)' = {}
    BY <1>4 DEF Importing, Busy, SourceThere, BeingWritten
  <2>2. \A k \in Jobs : Importing(k)' => k = j
    BY <1>3, <1>5 DEF NoImport, Importing, Busy
  <2> QED
    BY <1>4, <2>1, <2>2 DEF Undisturbed
<1> QED
  BY <1>1, <1>3, <1>4, <1>5 DEF ImportsAreWhole, ImportedIsWhatWasRead

(* An import lists, skips and reads pages.                                 *)
LEMMA ImportReads ==
  ASSUME KnowledgeOK, ImportsAreWhole, NEW j \in Jobs,
         List(j) \/ \E p \in Pages : SkipPage(j, p) \/ ReadPage(j, p)
  PROVE  ImportsAreWhole'
<1>0. /\ job[j] \in Work /\ job[j].kind = "web" /\ job[j].name = Null /\ Importing(j)
      /\ job[j].pc \in {"list", "page"}
      /\ \A k \in Jobs : k # j => job'[k] = job[k]
      /\ UNCHANGED <<docs, sources, settled>>
  BY ListFacts, PageFacts DEF KnowledgeOK, Importing, Busy, Fallow
<1>1. ASSUME job'[j].alone = job[j].alone, job'[j].kind = "web", job'[j].pc \in {"page", "embed"},
             job'[j].source = job[j].source, job'[j].row = job[j].row,
             Undisturbed(j) => /\ job'[j].read = job'[j].keep \cup BeingWritten(j)'
                               /\ \A r \in job'[j].read : r[1] \notin job'[j].todo
                               /\ \A r \in job'[j].keep : /\ docs[r[1]] # Null /\ docs[r[1]].hash = r[2]
                                                          /\ r[1] # job'[j].name
      PROVE  ImportsAreWhole'
  <2>1. Importing(j)' /\ (SourceThere(j) => SourceThere(j)')
    BY <1>0, <1>1 DEF Importing, Busy, SourceThere
  <2>2. \A k \in Jobs : k # j => (Importing(k)' <=> Importing(k))
    BY <1>0 DEF Importing, Busy
  <2>3. ASSUME Undisturbed(j) PROVE Undisturbed(j)'
    BY <1>0, <1>1, <2>1, <2>2, <2>3 DEF Undisturbed
  <2> QED
    BY <1>0, <1>1, <2>3, ImportGoes
<1>2. CASE List(j)
  <2>1. PICK T \in SUBSET Pages : job'[j] = [job[j] EXCEPT !.pc = "page", !.todo = T]
    BY <1>2, ListFacts
  <2>2. /\ job'[j].alone = job[j].alone /\ job'[j].kind = "web" /\ job'[j].pc = "page"
        /\ job'[j].source = job[j].source /\ job'[j].row = job[j].row /\ job'[j].name = Null
        /\ job'[j].read = job[j].read /\ job'[j].keep = job[j].keep
    BY <1>0, <2>1 DEF Work
  <2>3. Undisturbed(j) => job[j].read = {} /\ job[j].keep = {}
    BY <1>2 DEF Undisturbed, List
  <2>4. BeingWritten(j)' = {}
    BY <2>2 DEF BeingWritten
  <2> QED
    BY <1>1, <2>2, <2>3, <2>4
<1>3. ASSUME NEW p \in Pages, SkipPage(j, p) \/ ReadPage(j, p) PROVE ImportsAreWhole'
  <2>0. p \in job[j].todo /\ BeingWritten(j) = {} /\ p # Null
    BY <1>0, <1>3, PageFacts, Constants DEF BeingWritten
  <2>1. \/ job'[j] = [job[j] EXCEPT !.todo = @ \ {p}]
        \/ \E v \in Versions :
             \/ /\ Unchanged(p, v)
                /\ job'[j] = [job[j] EXCEPT !.todo = @ \ {p}, !.read = @ \cup {<<p, v>>},
                                            !.keep = @ \cup {<<p, v>>}]
             \/ job'[j] = [job[j] EXCEPT !.todo = @ \ {p}, !.read = @ \cup {<<p, v>>},
                      !.pc = "embed", !.name = p, !.hash = v, !.text = v, !.old = OldRow(p)]
    BY <1>3, PageFacts
  <2>2. /\ job'[j].alone = job[j].alone /\ job'[j].kind = "web" /\ job'[j].pc \in {"page", "embed"}
        /\ job'[j].source = job[j].source /\ job'[j].row = job[j].row
        /\ job'[j].todo = job[j].todo \ {p}
    <3>1. job[j].pc = "page"
      BY <1>3, PageFacts
    <3> QED
      BY <1>0, <2>1, <3>1, ZenonT(60) DEF Work
  <2>3. CASE job'[j] = [job[j] EXCEPT !.todo = @ \ {p}]
    <3>1. job'[j].read = job[j].read /\ job'[j].keep = job[j].keep /\ job'[j].name = Null
      BY <1>0, <2>3 DEF Work
    <3>2. BeingWritten(j)' = {}
      BY <3>1 DEF BeingWritten
    <3> QED
      BY <1>0, <1>1, <2>0, <2>2, <3>1, <3>2 DEF Undisturbed
  <2>4. ASSUME NEW v \in Versions, Unchanged(p, v),
               job'[j] = [job[j] EXCEPT !.todo = @ \ {p}, !.read = @ \cup {<<p, v>>},
                                        !.keep = @ \cup {<<p, v>>}]
        PROVE  ImportsAreWhole'
    <3>1. /\ job'[j].read = job[j].read \cup {<<p, v>>} /\ job'[j].keep = job[j].keep \cup {<<p, v>>}
          /\ job'[j].name = Null
      BY <1>0, <2>4 DEF Work
    <3>2. BeingWritten(j)' = {}
      BY <3>1 DEF BeingWritten
    <3>3. docs[p] # Null /\ docs[p].hash = v
      BY <2>4 DEF Unchanged
    <3>4. ASSUME Undisturbed(j)
          PROVE  /\ job'[j].read = job'[j].keep \cup BeingWritten(j)'
                 /\ \A r \in job'[j].read : r[1] \notin job'[j].todo
                 /\ \A r \in job'[j].keep : /\ docs[r[1]] # Null /\ docs[r[1]].hash = r[2]
                                            /\ r[1] # job'[j].name
      <4>1. job[j].read = job[j].keep
        BY <2>0, <3>4 DEF Undisturbed
      <4>2. \A r \in job[j].keep : docs[r[1]] # Null /\ docs[r[1]].hash = r[2] /\ r[1] # Null
        BY <1>0, <3>4 DEF Undisturbed
      <4>3. \A r \in job[j].read : r[1] \notin job'[j].todo
        BY <2>2, <3>4 DEF Undisturbed
      <4> QED
        BY <2>0, <2>2, <3>1, <3>2, <3>3, <4>1, <4>2, <4>3
    <3> QED
      BY <1>1, <2>2, <3>4
  <2>5. ASSUME NEW v \in Versions,
               job'[j] = [job[j] EXCEPT !.todo = @ \ {p}, !.read = @ \cup {<<p, v>>},
                      !.pc = "embed", !.name = p, !.hash = v, !.text = v, !.old = OldRow(p)]
        PROVE  ImportsAreWhole'
    <3>1. /\ job'[j].read = job[j].read \cup {<<p, v>>} /\ job'[j].keep = job[j].keep
          /\ job'[j].name = p /\ job'[j].hash = v
      BY <1>0, <2>5 DEF Work
    <3>2. BeingWritten(j)' = {<<p, v>>}
      BY <2>0, <3>1 DEF BeingWritten
    <3>4. ASSUME Undisturbed(j)
          PROVE  /\ job'[j].read = job'[j].keep \cup BeingWritten(j)'
                 /\ \A r \in job'[j].read : r[1] \notin job'[j].todo
                 /\ \A r \in job'[j].keep : /\ docs[r[1]] # Null /\ docs[r[1]].hash = r[2]
                                            /\ r[1] # job'[j].name
      <4>1. job[j].read = job[j].keep
        BY <2>0, <3>4 DEF Undisturbed
      <4>2. \A r \in job[j].keep : docs[r[1]] # Null /\ docs[r[1]].hash = r[2]
        BY <3>4 DEF Undisturbed
      <4>3. \A r \in job[j].keep : r[1] \notin job[j].todo
        BY <3>4, <4>1 DEF Undisturbed
      <4> QED
        BY <2>0, <2>2, <3>1, <3>2, <4>1, <4>2, <4>3
    <3> QED
      BY <1>1, <2>2, <3>4
  <2> QED
    BY <2>1, <2>3, <2>4, <2>5
<1> QED
  BY <1>2, <1>3

(* An import writes a page, and then holds it.                             *)
LEMMA ImportWrites ==
  ASSUME KnowledgeOK, ImportsAreWhole, NEW j \in Jobs, job[j].kind = "web", Save(j) \/ Commit(j)
  PROVE  ImportsAreWhole'
<1> PICK n : n = job[j].name
  OBVIOUS
<1>0. /\ job[j] \in Work /\ Shaped(job[j]) /\ job[j].pc \in {"embed", "save"} /\ Importing(j)
      /\ n \in Pages \ job[j].todo /\ n # Null
  <2>1. job[j] \in Work /\ Shaped(job[j]) /\ job[j].pc \in {"embed", "save"}
    BY DEF KnowledgeOK, Save, Commit
  <2>2. n \in Pages \ job[j].todo /\ Importing(j)
    BY <2>1 DEF Shaped, Importing, Busy
  <2> QED
    BY <2>1, <2>2, Constants
<1>1. CASE Save(j)
  <2>1. /\ UNCHANGED <<docs, sources, settled>> /\ \A k \in Jobs : k # j => job'[k] = job[k]
        /\ job'[j] = [job[j] EXCEPT !.pc = "save", !.doomed = Doomed(j)]
    BY <1>1, SaveFacts DEF Fallow
  <2>2. /\ job'[j].alone = job[j].alone /\ job'[j].kind = "web" /\ job'[j].pc = "save"
        /\ job'[j].source = job[j].source /\ job'[j].row = job[j].row /\ job'[j].name = job[j].name
        /\ job'[j].read = job[j].read /\ job'[j].keep = job[j].keep
        /\ job'[j].todo = job[j].todo /\ job'[j].hash = job[j].hash
    BY <1>0, <2>1 DEF Work
  <2>3. Importing(j)' /\ (SourceThere(j) => SourceThere(j)') /\ BeingWritten(j)' = BeingWritten(j)
    BY <2>1, <2>2 DEF Importing, Busy, SourceThere, BeingWritten
  <2>4. \A k \in Jobs : k # j => (Importing(k)' <=> Importing(k))
    BY <2>1 DEF Importing, Busy
  <2>5. ASSUME Undisturbed(j) PROVE Undisturbed(j)'
    BY <2>1, <2>2, <2>3, <2>4, <2>5 DEF Undisturbed
  <2> QED
    BY <1>0, <2>1, <2>2, <2>5, ImportGoes
<1>2. CASE Commit(j)
  <2>1. UNCHANGED <<sources, settled>>
    BY <1>2 DEF Commit
  <2>2. /\ job'[j].alone = job[j].alone /\ job'[j].kind = "web" /\ job'[j].pc = "page"
        /\ job'[j].source = job[j].source /\ job'[j].row = job[j].row /\ job'[j].name = Null
        /\ job'[j].read = job[j].read /\ job'[j].keep = job[j].keep \cup {<<n, job[j].hash>>}
        /\ job'[j].todo = job[j].todo
    BY <1>2, AfterCommit
  <2>3. \A k \in Jobs : k # j => job'[k] = job[k]
    BY <1>2, AfterCommit
  <2>4. docs'[n] # Null /\ docs'[n].hash = job[j].hash
    BY <1>2, CommitFacts
  <2>5. Importing(j)' /\ (SourceThere(j) => SourceThere(j)') /\ BeingWritten(j)' = {}
        /\ BeingWritten(j) = {<<n, job[j].hash>>}
    BY <1>0, <2>1, <2>2 DEF Importing, Busy, SourceThere, BeingWritten
  <2>6. \A k \in Jobs : k # j => (Importing(k)' <=> Importing(k))
    BY <2>3 DEF Importing, Busy
  <2>7. ASSUME Undisturbed(j) PROVE Undisturbed(j)'
    <3>1. job'[j].read = job'[j].keep \cup BeingWritten(j)'
      BY <2>2, <2>5, <2>7 DEF Undisturbed
    <3>2. ASSUME NEW r \in job[j].keep
          PROVE  docs'[r[1]] # Null /\ docs'[r[1]].hash = r[2] /\ r[1] # Null
      <4>1. docs[r[1]] # Null /\ docs[r[1]].hash = r[2] /\ r[1] # n
        BY <2>7 DEF Undisturbed
      <4>2. r[1] \in Names /\ r[1] # Null
        BY <1>0, Constants DEF Work, Readings
      <4>3. docs'[r[1]] = docs[r[1]]
        BY <1>2, <4>1, <4>2, CommitElsewhere
      <4> QED
        BY <4>1, <4>2, <4>3
    <3>3. \A r \in job'[j].keep : docs'[r[1]] # Null /\ docs'[r[1]].hash = r[2] /\ r[1] # job'[j].name
      BY <1>0, <2>2, <2>4, <3>2
    <3> QED
      BY <2>2, <2>5, <2>6, <2>7, <3>1, <3>3 DEF Undisturbed
  <2> QED
    BY <1>0, <2>1, <2>2, <2>3, <2>7, ImportGoes
<1> QED
  BY <1>1, <1>2

(* An import drops what it did not see, and then the source's documents    *)
(* are what it has kept.                                                   *)
LEMMA ImportPrunes ==
  ASSUME KnowledgeOK, ImportsAreWhole, NEW j \in Jobs, Prune(j)
  PROVE  ImportsAreWhole'
<1>0. /\ job[j] \in Work /\ job[j].kind = "web" /\ job[j].pc = "page" /\ Importing(j)
      /\ \A k \in Jobs : k # j => job'[k] = job[k]
      /\ job'[j] = [job[j] EXCEPT !.pc = "finish"]
  BY PruneFacts DEF KnowledgeOK, Prune, Importing, Busy
<1>1. UNCHANGED <<sources, settled>> /\ Gone(Dropped(j))
  BY DEF Prune
<1>2. /\ job'[j].alone = job[j].alone /\ job'[j].kind = "web" /\ job'[j].pc = "finish"
      /\ job'[j].source = job[j].source /\ job'[j].row = job[j].row /\ job'[j].name = job[j].name
      /\ job'[j].read = job[j].read /\ job'[j].keep = job[j].keep
      /\ job'[j].todo = job[j].todo /\ job'[j].hash = job[j].hash
  BY <1>0 DEF Work
<1>3. Importing(j)' /\ (SourceThere(j) => SourceThere(j)') /\ BeingWritten(j)' = BeingWritten(j)
  BY <1>1, <1>2 DEF Importing, Busy, SourceThere, BeingWritten
<1>4. \A k \in Jobs : k # j => (Importing(k)' <=> Importing(k))
  BY <1>0 DEF Importing, Busy
<1>5. ASSUME Undisturbed(j) PROVE Undisturbed(j)'
  <2>1. ASSUME NEW r \in job[j].keep PROVE docs'[r[1]] # Null /\ docs'[r[1]].hash = r[2]
    <3>1. docs[r[1]] # Null /\ docs[r[1]].hash = r[2]
      BY <1>5 DEF Undisturbed
    <3>2. r[1] \in Names /\ r[2] \in Versions /\ r = <<r[1], r[2]>>
      BY <1>0, Constants DEF Work, Readings
    <3>3. r[1] \notin Dropped(j)
      BY <3>2 DEF Dropped
    <3>4. docs'[r[1]] = docs[r[1]]
      BY <1>1, <3>2, <3>3, GoneFacts
    <3> QED
      BY <3>1, <3>4
  <2>2. ASSUME NEW p \in Pages, docs'[p] # Null, docs'[p].source = job[j].source
        PROVE  \E v \in Versions : <<p, v>> \in job[j].keep
    <3>1. p \notin Dropped(j) /\ docs[p] = docs'[p]
      BY <1>1, <2>2, GoneFacts, Constants
    <3>2. p \in Owned(job[j].source) /\ SourceThere(j)
      BY <1>5, <2>2, <3>1 DEF Owned, Undisturbed
    <3> QED
      BY <3>1, <3>2 DEF Dropped
  <2>3. \A p \in Owned(job[j].source)' : \E v \in Versions : <<p, v>> \in job'[j].keep
    BY <1>2, <2>2 DEF Owned
  <2>4. \A r \in job'[j].keep : docs'[r[1]] # Null /\ docs'[r[1]].hash = r[2] /\ r[1] # job'[j].name
    BY <1>2, <1>5, <2>1 DEF Undisturbed
  <2>5. \A k \in Jobs : Importing(k)' => k = j
    BY <1>4, <1>5 DEF Undisturbed
  <2>6. job'[j].read = job'[j].keep \cup BeingWritten(j)'
        /\ \A r \in job'[j].read : r[1] \notin job'[j].todo
    BY <1>2, <1>3, <1>5 DEF Undisturbed
  <2>7. SourceThere(j)'
    BY <1>3, <1>5 DEF Undisturbed
  <2> QED
    BY <1>2, <1>3, <2>3, <2>4, <2>5, <2>6, <2>7 DEF Undisturbed
<1> QED
  BY <1>0, <1>1, <1>2, <1>5, ImportGoes

(* An undisturbed import ends: the documents are what it read.             *)
LEMMA ImportEnds ==
  ASSUME KnowledgeOK, ImportsAreWhole, NEW j \in Jobs, Fail(j) \/ NoPages(j) \/ Finish(j)
  PROVE  ImportsAreWhole'
<1> PICK s : s = job[j].source
  OBVIOUS
<1>0. /\ job'[j] = Idle /\ docs' = docs
      /\ \A k \in Jobs : k # j => job'[k] = job[k]
      /\ \A t \in Sources : (sources'[t] = Null <=> sources[t] = Null)
                            /\ (sources[t] # Null => sources'[t].id = sources[t].id)
  BY EndFacts DEF Fallow
<1>1. job'[j].alone = FALSE /\ ~Importing(j)'
  BY <1>0, IdleJob DEF Importing, Busy
<1>2. CASE ~(Finish(j) /\ job[j].alone)
  <2>1. \A t \in Sources : settled'[t] = settled[t] \/ settled'[t] = Null
    BY <1>2 DEF Fail, NoPages, Finish, KnowledgeOK
  <2> QED
    BY <1>0, <1>1, <2>1, ImportsRest
<1>3. CASE Finish(j) /\ job[j].alone
  <2>1. Undisturbed(j) /\ Importing(j) /\ job[j].pc = "finish"
    BY <1>3 DEF ImportsAreWhole, Undisturbed, Finish
  <2>2. job[j].name = Null /\ s \in Sources
    BY <2>1 DEF KnowledgeOK, Shaped, Importing
  <2>3. job[j].read = job[j].keep
    BY <2>1, <2>2 DEF Undisturbed, BeingWritten
  <2>4. settled' = [settled EXCEPT ![s] = job[j].read]
    BY <1>3 DEF Finish
  <2>5. \A t \in Sources : settled[t] = Null
    BY <2>1 DEF ImportsAreWhole, NoImport
  <2>6. \A k \in Jobs : ~Importing(k)'
    BY <1>0, <1>1, <2>1 DEF Undisturbed, Importing, Busy
  <2>7. \A k \in Jobs : ~job'[k].alone
    BY <1>0, <1>1, <2>1 DEF ImportsAreWhole, Undisturbed
  <2>8. ASSUME NEW t \in Sources, settled'[t] # Null
        PROVE  /\ \A r \in settled'[t] : docs'[r[1]] # Null /\ docs'[r[1]].hash = r[2]
               /\ \A p \in Owned(t)' : \E v \in Versions : <<p, v>> \in settled'[t]
    <3>1. t = s /\ settled'[t] = job[j].keep
      BY <2>2, <2>3, <2>4, <2>5, <2>8 DEF KnowledgeOK
    <3>2. Owned(t)' = Owned(s)
      BY <1>0, <3>1 DEF Owned
    <3> QED
      BY <1>0, <2>1, <3>1, <3>2 DEF Undisturbed
  <2> QED
    BY <2>6, <2>7, <2>8 DEF ImportsAreWhole, ImportedIsWhatWasRead, NoImport
<1> QED
  BY <1>2, <1>3

LEMMA ImportsStep == ASSUME KnowledgeOK, ImportsAreWhole, Next PROVE ImportsAreWhole'
<1>0. ASSUME NEW k \in Jobs PROVE job[k] \in Work /\ (job[k].kind # "web" => job[k].alone = FALSE)
  BY DEF KnowledgeOK, Work, ImportsAreWhole, Undisturbed, Importing
<1>1. ASSUME NEW j \in Jobs, Starts(j) PROVE ImportsAreWhole'
  <2>1. /\ UNCHANGED <<docs, sources, settled>> /\ \A k \in Jobs : k # j => job'[k] = job[k]
        /\ job'[j].alone = FALSE /\ job'[j].kind \in Kinds
    BY <1>1, BeginningFacts
  <2> QED
    BY <2>1, ImportsRest DEF Importing, Kinds
<1>2. ASSUME NEW j \in Jobs, NEW s \in Sources, Import(j, s) PROVE ImportsAreWhole'
  BY <1>2, ImportBegins
<1>3. ASSUME NEW j \in Jobs, job[j].kind # "web",
             Look(j) \/ Extract(j) \/ Save(j) \/ Commit(j) \/ Publish(j) \/ Disconnect(j)
      PROVE  ImportsAreWhole'
  <2>1. UNCHANGED <<sources, settled>>
    BY <1>3 DEF Look, Extract, Save, Commit, Publish, Disconnect
  <2>2. \A k \in Jobs : k # j => job'[k] = job[k]
    BY <1>3, LookFacts, ExtractFacts, SaveFacts, AfterCommit, PublishFacts, DisconnectFacts, ZenonT(60)
  <2>3. \A p \in Pages : docs'[p] = docs[p]
    <3>1. CASE Commit(j)
      <4>1. job[j].name \in Files
        BY <1>3, <3>1 DEF Commit, KnowledgeOK, Shaped
      <4>2. \A p \in Pages : p \in Names /\ p # job[j].name
        BY <4>1, Constants
      <4> QED
        BY <3>1, <4>2, CommitElsewhere
    <3>2. CASE ~Commit(j)
      BY <1>3, <3>2 DEF Look, Extract, Save, Publish, Disconnect
    <3> QED
      BY <3>1, <3>2
  <2>4. job'[j].alone = FALSE /\ job'[j].kind # "web"
    <3>1. CASE job'[j] = Idle
      BY <3>1, IdleJob
    <3>2. CASE \/ job'[j] = [job[j] EXCEPT !.pc = "publish"]
               \/ job'[j] = [job[j] EXCEPT !.pc = "extract", !.old = OldRow(job[j].name)]
               \/ job'[j] = [job[j] EXCEPT !.pc = "embed", !.text = Opened(j)]
               \/ job'[j] = [job[j] EXCEPT !.pc = "save", !.doomed = Doomed(j)]
      BY <1>0, <1>3, <3>2 DEF Work
    <3>3. CASE job'[j] = [job[j] EXCEPT !.kind = "orphan"]
      BY <1>0, <1>3, <3>3 DEF Work
    <3>4. \/ job'[j] = Idle
          \/ job'[j] = [job[j] EXCEPT !.pc = "publish"]
          \/ job'[j] = [job[j] EXCEPT !.pc = "extract", !.old = OldRow(job[j].name)]
          \/ job'[j] = [job[j] EXCEPT !.pc = "embed", !.text = Opened(j)]
          \/ job'[j] = [job[j] EXCEPT !.pc = "save", !.doomed = Doomed(j)]
          \/ job'[j] = [job[j] EXCEPT !.kind = "orphan"]
      <4>0. CASE Look(j)
        <5>1. Step(j, Idle) \/ Step(j, [job[j] EXCEPT !.pc = "publish"])
              \/ Step(j, [job[j] EXCEPT !.pc = "extract", !.old = OldRow(job[j].name)])
          BY <4>0 DEF Look
        <5> QED
          BY <5>1, StepIs
      <4>1. CASE Extract(j) \/ Save(j)
        BY <4>1, ExtractFacts, SaveFacts
      <4>2. CASE Commit(j)
        BY <1>3, <4>2, AfterCommit
      <4>3. CASE Publish(j) \/ Disconnect(j)
        BY <4>3, PublishFacts, DisconnectFacts
      <4> QED
        BY <1>3, <4>0, <4>1, <4>2, <4>3
    <3> QED
      BY <3>1, <3>2, <3>3, <3>4
  <2> QED
    BY <2>1, <2>2, <2>3, <2>4, ImportsRest DEF Importing
<1>4. ASSUME NEW j \in Jobs, job[j].kind = "web",
             Look(j) \/ Extract(j) \/ Save(j) \/ Commit(j) \/ Publish(j) \/ Disconnect(j)
      PROVE  ImportsAreWhole'
  <2>1. ~Look(j) /\ ~Extract(j) /\ ~Publish(j) /\ ~Disconnect(j)
    BY <1>4, LookFacts, ExtractFacts, PublishFacts, DisconnectFacts
  <2> QED
    BY <1>4, <2>1, ImportWrites
<1>5. ASSUME NEW j \in Jobs, Fail(j) \/ NoPages(j) \/ Finish(j) PROVE ImportsAreWhole'
  BY <1>5, ImportEnds
<1>6. ASSUME NEW j \in Jobs, List(j) \/ \E p \in Pages : SkipPage(j, p) \/ ReadPage(j, p)
      PROVE  ImportsAreWhole'
  BY <1>6, ImportReads
<1>7. ASSUME NEW j \in Jobs, Prune(j) PROVE ImportsAreWhole'
  BY <1>7, ImportPrunes
<1>8. ASSUME NEW n \in Names, SetEnabled(n) PROVE ImportsAreWhole'
  <2>1. UNCHANGED <<sources, settled, job>>
    BY <1>8 DEF SetEnabled
  <2>2. \A p \in Pages : /\ docs'[p] = Null <=> docs[p] = Null
                         /\ docs[p] # Null => docs'[p].hash = docs[p].hash
                                              /\ docs'[p].source = docs[p].source
    <3>1. \A p \in Pages : p \in Names
      BY Constants
    <3> QED
      BY <1>8, <3>1, EnabledFacts
  <2> QED
    BY <2>1, <2>2, ImportsRest
<1>9. ASSUME Disturb PROVE ImportsAreWhole'
  BY <1>9, DisturbFacts, ImportsCease
<1>10. ASSUME NEW s \in Sources, NEW p \in Pages, Change(s, p) PROVE ImportsAreWhole'
  BY <1>10, ChangeFacts, ImportsRest
<1>11. CASE Restart
  <2>1. UNCHANGED <<docs, sources, settled>>
    BY <1>11 DEF Restart
  <2>2. \A k \in Jobs : job'[k] = job[k] \/ (job'[k].alone = FALSE /\ ~Importing(k)')
    BY <1>11, RestartFacts, IdleJob DEF Importing, Busy
  <2> QED
    BY <2>1, <2>2, ImportsRest
<1>12. ASSUME NEW n \in Names, DeleteDocument(n) PROVE ImportsAreWhole'
  BY <1>9, <1>12 DEF DeleteDocument
<1>13. ASSUME NEW s \in Sources, DeleteSource(s) PROVE ImportsAreWhole'
  BY <1>9, <1>13 DEF DeleteSource
<1> QED
  BY <1>1, <1>2, <1>3, <1>4, <1>5, <1>6, <1>7, <1>8, <1>10, <1>11, <1>12, <1>13, Steps

-----------------------------------------------------------------------------
LEMMA KnowledgeBegins == Init => KnowledgeInv
<1> SUFFICES ASSUME Init PROVE KnowledgeInv
  OBVIOUS
<1>0. /\ \A j \in Jobs : job[j] = Idle
      /\ \A n \in Names : docs[n] = Null /\ chunks[n] = {} /\ choice[n] = Null /\ causes[n] = {}
      /\ \A f \in Files : disk[f] = Null
      /\ \A s \in Sources : settled[s] = Null
      /\ starts = 0
  BY DEF Init
<1>1. KnowledgeOK
  <2>1. PICK v \in Versions : upstream = [s \in Sources |-> [p \in Pages |->
                                IF p \in Publishes[s] THEN v ELSE "absent"]]
    BY DEF Init
  <2>2. upstream \in [Sources -> [Pages -> Versions \cup {"absent"}]]
    BY <2>1
  <2>3. Shaped(Idle)
    BY IdleJob DEF Shaped
  <2>4. job \in [Jobs -> Work] /\ \A j \in Jobs : Shaped(job[j])
    BY <1>0, <2>3, IdleJob DEF Init
  <2>5. /\ docs \in [Names -> Row \cup {Null}] /\ chunks \in [Names -> SUBSET Chunk]
        /\ disk \in [Files -> Versions \cup {Null}]
        /\ sources \in [Sources -> SourceRow \cup {Null}]
        /\ starts \in Nat /\ causes \in [Names -> SUBSET Causes]
        /\ choice \in [Names -> BOOLEAN \cup {Null}]
        /\ settled \in [Sources -> Readings \cup {Null}]
    BY DEF Init
  <2> QED
    BY <2>2, <2>4, <2>5 DEF KnowledgeOK
<1>2. \A j \in Jobs : ~Busy(j) /\ job[j].pc = "idle" /\ job[j].alone = FALSE
  BY <1>0, IdleJob DEF Busy
<1>3. NumbersDiffer
  BY <1>0, <1>2 DEF NumbersDiffer, Writing
<1>4. ChunksAreOnes
  BY <1>0, <1>2 DEF ChunksAreOnes
<1>5. FilesAreTheirOwn
  BY <1>0, <1>2 DEF FilesAreTheirOwn, Own, On
<1>6. ChoicesOutliveDrops
  BY <1>0, Constants DEF ChoicesOutliveDrops
<1>7. ImportsAreWhole
  BY <1>0, <1>2 DEF ImportsAreWhole, ImportedIsWhatWasRead
<1> QED
  BY <1>1, <1>3, <1>4, <1>5, <1>6, <1>7 DEF KnowledgeInv

LEMMA KnowledgeRests == KnowledgeInv /\ UNCHANGED vars => KnowledgeInv'
<1> SUFFICES ASSUME KnowledgeInv, UNCHANGED vars PROVE KnowledgeInv'
  OBVIOUS
<1>0. UNCHANGED <<docs, chunks, disk, upstream, sources, job, starts, causes, choice, settled>>
  BY DEF vars
<1> USE <1>0
<1>1. KnowledgeOK'
  BY DEF KnowledgeInv, KnowledgeOK
<1>2. NumbersDiffer'
  BY DEF KnowledgeInv, NumbersDiffer, MayMake, Writing, Busy
<1>3. ChunksAreOnes'
  <2>1. \A j \in Jobs, n \in Names : Saves(j, n)' <=> Saves(j, n)
    BY DEF Saves, Writing, OldRow
  <2> QED
    BY <2>1 DEF KnowledgeInv, ChunksAreOnes
<1>4. FilesAreTheirOwn'
  <2> SUFFICES ASSUME NEW f \in Files PROVE (Excused(f) \/ Own(f))'
    BY DEF FilesAreTheirOwn
  <2>1. \A j \in Jobs : Tends(j, f)
    BY SameTends DEF KnowledgeInv
  <2> QED
    BY <2>1, FileRests DEF KnowledgeInv, FilesAreTheirOwn, Excused
<1>5. ChoicesOutliveDrops'
  BY DEF KnowledgeInv, ChoicesOutliveDrops
<1>6. ImportsAreWhole'
  BY ImportsRest DEF KnowledgeInv
<1> QED
  BY <1>1, <1>2, <1>3, <1>4, <1>5, <1>6 DEF KnowledgeInv

LEMMA KnowledgeImplies == KnowledgeInv => KnowledgeIsFaithful
<1> SUFFICES ASSUME KnowledgeInv PROVE KnowledgeIsFaithful
  OBVIOUS
<1>1. OneTextPerDocument
  <2> SUFFICES ASSUME NEW n \in Names, docs[n] # Null, "saved together" \notin causes[n]
               PROVE  Cardinality(chunks[n]) = 1
    BY DEF OneTextPerDocument
  <2>1. PICK w \in chunks[n] : chunks[n] = {w}
    BY DEF KnowledgeInv, ChunksAreOnes
  <2> QED
    BY <2>1, FS_Singleton
<1>2. OriginalIsTheDocument
  <2> SUFFICES ASSUME NEW f \in Files, disk[f] # Null, \A j \in Jobs : ~On(j, f),
                      causes[f] \cap {"worked on together", "cut short", "inbox"} = {}
               PROVE  docs[f] # Null /\ docs[f].hash = disk[f]
    BY DEF OriginalIsTheDocument
  <2>1. Own(f)
    BY DEF KnowledgeInv, FilesAreTheirOwn, Excused
  <2> QED
    BY <2>1 DEF Own
<1>3. SwitchedOffStaysOff
  BY DEF KnowledgeInv, ChoicesOutliveDrops, SwitchedOffStaysOff
<1>4. ImportedIsWhatWasRead
  BY DEF KnowledgeInv, ImportsAreWhole
<1> QED
  BY <1>1, <1>2, <1>3, <1>4 DEF KnowledgeIsFaithful, DocumentIsItsOriginal, ImportIsFaithful

(* The shape, the numbers, the chunks, the files, the choices and the      *)
(* imports, whatever jobs run together (ingest_file and ingest_web_source  *)
(* in src/admin/backend/app/kb.py).                                        *)
THEOREM KnowledgeInductive == Spec => []KnowledgeInv
<1>1. KnowledgeInv /\ [Next]_vars => KnowledgeInv'
  <2>1. KnowledgeInv /\ Next => KnowledgeInv'
    BY ShapeStep, NumbersStep, ChunksStep, FilesStep, ChoicesStep, ImportsStep DEF KnowledgeInv
  <2> QED
    BY <2>1, KnowledgeRests
<1> QED
  BY <1>1, KnowledgeBegins, PTL DEF Spec

(* What is searched of a document is one text, that of the original kept   *)
(* with it; an import leaves the documents it read and the switches people *)
(* set (_chunk_embed_store, upload_document, ingest_web_source).           *)
THEOREM KnowledgeKept == Spec => []KnowledgeIsFaithful
  BY KnowledgeInductive, KnowledgeImplies, PTL

=============================================================================
