------------------------------ MODULE Retrieval ------------------------------
(***************************************************************************)
(* What a caller's question finds in the knowledge base (agent/kb.py), what *)
(* of it is in the prompt anyway, and what becomes of a question nothing    *)
(* was found for: the page of gaps.  A ranking is a function from chunks    *)
(* to their scores.                                                         *)
(***************************************************************************)
EXTENDS Integers, SequencesExt, FiniteSets

CONSTANTS
  TopK, MinScore,  \* kb_top_k, kb_min_score
  LexFloor,        \* LEX_THRESHOLD
  Weak,            \* GAP_WEAK_BELOW
  Budget,          \* kb_inline_max_tokens
  KeyLimit,         \* what of a query is kept, 500 characters
  Space,           \* a blank
  Nobody           \* no heading, no score, no client

ASSUME RetrievalAssumption ==
  /\ {TopK, Budget, KeyLimit} \subseteq Nat
  /\ {MinScore, LexFloor, Weak} \subseteq Int
  /\ Nobody \notin Int

-----------------------------------------------------------------------------
(* search *)

Picked(ranking, S) == [c \in S |-> ranking[c]]

(* ORDER BY score DESC LIMIT n: which of equals are cut is open.           *)
Firsts(ranking, n) ==
  {Picked(ranking, S) : S \in
    {S \in SUBSET DOMAIN ranking :
       /\ Cardinality(S) = IF Cardinality(DOMAIN ranking) < n
                             THEN Cardinality(DOMAIN ranking) ELSE n
       /\ \A c \in S, d \in DOMAIN ranking \ S : ranking[c] >= ranking[d]}}

VectorLeg(base) ==
  LET embedded == {c \in DOMAIN base : base[c].vector # Nobody}
  IN [c \in embedded |-> base[c].vector]

LexicalLeg(base) ==
  LET near == {c \in DOMAIN base : base[c].lexical > LexFloor}
  IN [c \in near |-> base[c].lexical]

(* Mutant of Merged: a chunk keeps the score of the leg that is read first. *)
MergedFirst(one, other) ==
  [c \in DOMAIN one \cup DOMAIN other |-> IF c \in DOMAIN one THEN one[c] ELSE other[c]]

(* DISTINCT ON (id) ... ORDER BY id, score DESC; and the hits of one turn. *)
Merged(one, other) ==
  [c \in DOMAIN one \cup DOMAIN other |->
     IF c \in DOMAIN one /\ (c \in DOMAIN other => one[c] >= other[c])
       THEN one[c] ELSE other[c]]

Reaching(ranking) == Picked(ranking, {c \in DOMAIN ranking : ranking[c] >= MinScore})

LexicalOnly(base) == {Reaching(leg) : leg \in Firsts(LexicalLeg(base), TopK)}

(* Any of these is the result.                                             *)
Search(base, embedder) ==
  IF embedder
    THEN UNION {Firsts(Reaching(Merged(v, l)), TopK) :
                  v \in Firsts(VectorLeg(base), 2 * TopK),
                  l \in Firsts(LexicalLeg(base), 2 * TopK)}
    ELSE LexicalOnly(base)

(* What is written down of a search (search_knowledge_base).               *)
GapOf(hits) ==
  IF DOMAIN hits = {} THEN "kb_miss"
  ELSE IF \A c \in DOMAIN hits : hits[c] < Weak THEN "kb_weak"
  ELSE "none"

(* Two searches of one turn: what the turn's record says was used.         *)
Searched(base, again, embedder) ==
  {[first |-> h, hits |-> Merged(h, g), gap |-> GapOf(h)] :
     h \in Search(base, embedder), g \in Search(again, embedder)}

-----------------------------------------------------------------------------
(* load_inline, over the chunks in order of file and place.                *)

Total(rows) ==
  LET f[i \in 0 .. Len(rows)] == IF i = 0 THEN 0 ELSE f[i - 1] + rows[i].tokens
  IN f[Len(rows)]

(* A title is written when it changes.                                     *)
Titled(rows, i) == IF i = 1 \/ rows[i - 1].title # rows[i].title THEN <<[title |-> rows[i].title]>> ELSE <<>>

NewHeading(rows, i) ==
  /\ rows[i].heading # Nobody
  /\ \A j \in 1 .. i - 1 : rows[j].heading # rows[i].heading

Contents(rows, i) == <<[content |-> i]>>
HeadingOnce(rows, i) == IF NewHeading(rows, i) THEN <<[heading |-> rows[i].heading]>> ELSE <<>>

LoadInline(rows) ==
  IF rows = <<>> THEN [mode |-> "empty", text |-> <<>>]
  ELSE IF Total(rows) <= Budget
    THEN [mode |-> "full",
          text |-> FlattenSeq([i \in DOMAIN rows |-> Titled(rows, i) \o Contents(rows, i)])]
  ELSE [mode |-> "index",
        text |-> FlattenSeq([i \in DOMAIN rows |-> Titled(rows, i) \o HeadingOnce(rows, i)])]

(* build_instructions: the section and the rules that speak of it.         *)
BuildInstructions(rows) ==
  LET layer == LoadInline(rows) IN
  [mode |-> layer.mode, section |-> layer.text,
   rules |-> IF layer.mode = "full" THEN "GROUNDING_FULL" ELSE "GROUNDING_INDEX"]

-----------------------------------------------------------------------------
(* Gaps: one row per occurrence.                                           *)

(* record_gap: the words of the query with single blanks, cut.             *)
QueryKey(query) == SubSeq(query, 1, IF Len(query) < KeyLimit THEN Len(query) ELSE KeyLimit)

GroupOf(g) == [tenant |-> g.tenant, campaign |-> g.campaign, kind |-> g.kind, key |-> g.key]
Scoped(gaps, scope) == {i \in DOMAIN gaps : scope = Nobody \/ gaps[i].tenant = scope}
Unread(gaps, i) == ~gaps[i].handled

(* list_gaps, open_only: filtered after grouping.                          *)
ListGaps(gaps, scope) ==
  {[group |-> GroupOf(gaps[i]),
    occurrences |-> Cardinality({j \in Scoped(gaps, scope) : GroupOf(gaps[j]) = GroupOf(gaps[i])})] :
     i \in {i \in Scoped(gaps, scope) : Unread(gaps, i)}}

UnreadCount(gaps, scope) ==
  Cardinality({[GroupOf(gaps[i]) EXCEPT !.tenant = Nobody] : i \in {i \in Scoped(gaps, scope) : Unread(gaps, i)}})

(* str.strip of a key that has single blanks.                              *)
Trimmed(key) == IF key # <<>> /\ key[Len(key)] = Space THEN SubSeq(key, 1, Len(key) - 1) ELSE key

(* acknowledge, of one line of the list.                                   *)
Acknowledged(gaps, scope, group) ==
  [i \in DOMAIN gaps |->
     IF /\ i \in Scoped(gaps, scope) /\ Unread(gaps, i)
        /\ gaps[i].campaign = group.campaign /\ gaps[i].kind = group.kind
        /\ gaps[i].key = Trimmed(group.key)
       THEN [gaps[i] EXCEPT !.handled = TRUE] ELSE gaps[i]]

-----------------------------------------------------------------------------
(* Properties. *)

(* How near a chunk is to the question, by the better of its two scores.   *)
Nearness(base, embedder, c) ==
  LET lexical == IF base[c].lexical > LexFloor THEN {base[c].lexical} ELSE {}
      vector == IF embedder /\ base[c].vector # Nobody THEN {base[c].vector} ELSE {}
  IN {n \in lexical \cup vector : n >= MinScore /\ \A k \in lexical \cup vector : k <= n}

(* A chunk near enough is a hit, with its better score, unless TopK others *)
(* are as near: neither leg's own limit hides one (search, kb.py:648).     *)
BestIsFound(base, embedder, hits) ==
  /\ \A c \in DOMAIN hits : Nearness(base, embedder, c) = {hits[c]}
  /\ Cardinality(DOMAIN hits) <= TopK
  /\ \A c \in DOMAIN base \ DOMAIN hits : \A n \in Nearness(base, embedder, c) :
       Cardinality(DOMAIN hits) = TopK /\ \A d \in DOMAIN hits : hits[d] >= n

(* The turn's record has every hit at its best; a search is written down   *)
(* as a gap exactly if none of its hits is good (voice_agent.py:1113).     *)
RecordSays(found) ==
  /\ \A c \in DOMAIN found.first : found.hits[c] >= found.first[c]
  /\ found.gap = "none" <=> \E c \in DOMAIN found.first : found.first[c] >= Weak

(* The prompt holds all there is, or names every document and heading, and *)
(* the rules below it do not send the model to a section that was not      *)
(* written, but for a base without a chunk (build_instructions,            *)
(* prompt.py:245, load_inline, kb.py:747).                                 *)
PromptIsGrounded(rows, prompt) ==
  LET Says(line) == \E k \in DOMAIN prompt.section : prompt.section[k] = line IN
  /\ prompt.mode = "full" =>
       Total(rows) <= Budget /\ prompt.rules = "GROUNDING_FULL" /\ \A i \in DOMAIN rows : Says([content |-> i])
  /\ prompt.mode = "index" =>
       /\ Total(rows) > Budget /\ prompt.rules = "GROUNDING_INDEX"
       /\ \A i \in DOMAIN rows : Says([title |-> rows[i].title])
       /\ \A i \in DOMAIN rows : rows[i].heading # Nobody => Says([heading |-> rows[i].heading])

(* The badge counts the lines of the list; acknowledging one takes that    *)
(* line and no other off it, of one's own client, and nothing that was     *)
(* handled comes back (list_gaps, gaps.py:56, unread_count, :88,           *)
(* acknowledge, :106); but a query cut behind a blank cannot be.           *)
GapsAreHandled(gaps, scope, line, after) ==
  /\ UnreadCount(gaps, scope) = Cardinality(ListGaps(gaps, scope))
  /\ line.group.key[Len(line.group.key)] # Space =>
       /\ ListGaps(after, scope) = ListGaps(gaps, scope) \ {line}
       /\ \A i \in DOMAIN gaps : after[i] # gaps[i] => GroupOf(gaps[i]) = line.group
=============================================================================
