----------------------------- MODULE ConfigEdits -----------------------------
(***************************************************************************)
(* The console's requests that edit one campaign: its prompt with the      *)
(* versions that are kept of it, its limit on calls, and the ids by which  *)
(* the dialler asks for that limit.                                        *)
(*                                                                         *)
(* A handler reads, judges and writes in statements of their own, without  *)
(* a transaction or a lock, so a step is one statement. The console may    *)
(* restart between any two.                                                *)
(***************************************************************************)
EXTENDS Integers, Sequences, FiniteSets

CONSTANTS
  Editors,      \* people, each with one request at a time
  Texts,        \* prompts
  Blank,        \* one with nothing in it
  Ids,          \* campaign ids of the dialler
  MaxVersions,  \* MAX_VERSIONS
  MaxCrashes,   \* bound: requests that do not live to their end
  Unset         \* a field that is not in the body, or no request

Steps == {"guard", "current", "keep", "trim", "write", "insert"}
LimitEdits == {"set", "clear"}

ASSUME ConfigAssumption ==
  /\ IsFiniteSet(Editors)
  /\ Blank \in Texts
  /\ Unset \notin Texts \cup Ids \cup Steps \cup LimitEdits
  /\ MaxVersions \in Nat \ {0} /\ MaxCrashes \in Nat

VARIABLES
  prompt,    \* agent_config.instructions
  limited,   \* agent_config.max_parallel_calls is not null
  ids,       \* campaign_dialler_ids of the campaign
  versions,  \* prompt_versions, the oldest first
  req,       \* what each editor's request has read, and what it does next
  crashes,
  removed,   \* history: the texts of versions that somebody deleted
  raced,     \* history: a clear and an add were both past their checks
  overtaken  \* history: whose reading of the prompt another's write outdated

vars == <<prompt, limited, ids, versions, req, crashes, removed, raced,
          overtaken>>
stored == <<prompt, limited, ids, versions>>

Requests == [step : Steps, before : Texts, text : Texts \cup {Unset},
             limit : LimitEdits \cup {Unset}, id : Ids \cup {Unset}]

None == [step |-> Unset, before |-> Blank, text |-> Unset, limit |-> Unset,
         id |-> Unset]

Idle(e) == req[e].step = Unset
Set(e, r) == req' = [req EXCEPT ![e] = r]
GoOn(e, to) == req' = [req EXCEPT ![e].step = to]
Done(e) == Set(e, None)

(* The list began with the prompt of that day, where there was one. *)
Init ==
  /\ prompt \in Texts /\ limited \in BOOLEAN /\ ids = {}
  /\ versions \in {<<>>} \cup {<<text>> : text \in {prompt} \ {Blank}}
  /\ req = [e \in Editors |-> None]
  /\ crashes = 0 /\ removed = {} /\ raced = FALSE
  /\ overtaken = {}

-----------------------------------------------------------------------------
(* PATCH /config *)

(* Where a request goes that has passed its guard. *)
Onward(before, text) ==
  IF text \in Texts /\ text # before /\ before # Blank THEN "keep" ELSE "write"

Patch(e, text, lim) ==
  /\ Idle(e) /\ (text # Unset \/ lim # Unset)
  /\ Set(e, [step |-> IF lim = "clear" THEN "guard" ELSE Onward(prompt, text),
             before |-> prompt, text |-> text, limit |-> lim, id |-> Unset])
  /\ UNCHANGED <<stored, crashes, removed>>

(* Mutant of MayClear: the direction of the guard that gets forgotten. *)
MayAlwaysClear(registered) == registered \subseteq Ids

MayClear(registered) == registered = {}

(* No limit is cleared that the dialler asks for. *)
Guard(e) ==
  /\ req[e].step = "guard"
  /\ IF MayClear(ids) THEN GoOn(e, Onward(req[e].before, req[e].text))
                      ELSE Done(e)
  /\ UNCHANGED <<stored, crashes, removed>>

(* _keep_version: the text as it was read, before it is overwritten. *)
Keep(e) ==
  /\ req[e].step = "keep"
  /\ versions' = Append(versions, req[e].before)
  /\ GoOn(e, "trim")
  /\ UNCHANGED <<prompt, limited, ids, crashes, removed>>

(* Mutant of Newest: the list is cut at the wrong end. *)
Oldest(list) ==
  IF Len(list) > MaxVersions THEN SubSeq(list, 1, MaxVersions) ELSE list

Newest(list) ==
  IF Len(list) > MaxVersions
    THEN SubSeq(list, Len(list) - MaxVersions + 1, Len(list)) ELSE list

Trim(e) ==
  /\ req[e].step = "trim"
  /\ versions' = Newest(versions)
  /\ GoOn(e, "write")
  /\ UNCHANGED <<prompt, limited, ids, crashes, removed>>

(* The UPDATE names the columns of the body and no others. *)
Write(e) ==
  /\ req[e].step = "write"
  /\ prompt' = IF req[e].text = Unset THEN prompt ELSE req[e].text
  /\ limited' = IF req[e].limit = Unset THEN limited ELSE req[e].limit = "set"
  /\ Done(e)
  /\ UNCHANGED <<ids, versions, crashes, removed>>

-----------------------------------------------------------------------------
(* The versions. *)

(* Restoring reads the version first and the text it replaces after it. *)
Restore(e, i) ==
  /\ Idle(e)
  /\ Set(e, [None EXCEPT !.step = "current", !.text = versions[i]])
  /\ UNCHANGED <<stored, crashes, removed>>

ReadCurrent(e) ==
  /\ req[e].step = "current"
  /\ IF prompt = req[e].text
       THEN Done(e)
       ELSE Set(e, [req[e] EXCEPT !.before = prompt,
                                  !.step = Onward(prompt, req[e].text)])
  /\ UNCHANGED <<stored, crashes, removed>>

DeleteVersion(e, i) ==
  /\ Idle(e)
  /\ versions' = SubSeq(versions, 1, i - 1)
                   \o SubSeq(versions, i + 1, Len(versions))
  /\ removed' = removed \cup {versions[i]}
  /\ UNCHANGED <<prompt, limited, ids, req, crashes>>

-----------------------------------------------------------------------------
(* The dialler's ids. *)

AddId(e, i) ==
  /\ Idle(e) /\ limited
  /\ Set(e, [None EXCEPT !.step = "insert", !.id = i])
  /\ UNCHANGED <<stored, crashes, removed>>

(* An id that any campaign has already is refused by its index. *)
InsertId(e) ==
  /\ req[e].step = "insert"
  /\ ids' \in {ids, ids \cup {req[e].id}}
  /\ Done(e)
  /\ UNCHANGED <<prompt, limited, versions, crashes, removed>>

RemoveId(e, i) ==
  /\ Idle(e) /\ i \in ids
  /\ ids' = ids \ {i}
  /\ UNCHANGED <<prompt, limited, versions, req, crashes, removed>>

-----------------------------------------------------------------------------
(* A statement fails, or the console restarts: the rest does not happen. *)
Crash(e) ==
  /\ ~Idle(e) /\ crashes < MaxCrashes
  /\ crashes' = crashes + 1
  /\ Done(e)
  /\ UNCHANGED <<stored, removed>>

Clearing(e) == req[e].limit = "clear" /\ req[e].step \in {"keep", "trim", "write"}
Adding(e) == req[e].step = "insert"
Overlap == \E e, f \in Editors : Clearing(e) /\ Adding(f)

Request(e) ==
  \/ \E text \in Texts \cup {Unset}, lim \in LimitEdits \cup {Unset} :
       Patch(e, text, lim)
  \/ Guard(e) \/ Keep(e) \/ Trim(e) \/ Write(e) \/ ReadCurrent(e)
  \/ \E i \in DOMAIN versions : Restore(e, i) \/ DeleteVersion(e, i)
  \/ \E i \in Ids : AddId(e, i) \/ RemoveId(e, i)
  \/ InsertId(e) \/ Crash(e)

AtWork == {e \in Editors : ~Idle(e)}

(* History. Who is at work while another writes the prompt is overtaken. *)
Observe(e) ==
  /\ raced' = (raced \/ Overlap')
  /\ overtaken' = AtWork' \cap IF prompt' = prompt THEN overtaken
                                                  ELSE overtaken \cup (AtWork \ {e})

Next == \E e \in Editors : Request(e) /\ Observe(e)

Spec == Init /\ [][Next]_vars

-----------------------------------------------------------------------------
(* Properties. *)

(* The variables have their types. *)
TypeOK ==
  /\ prompt \in Texts /\ limited \in BOOLEAN /\ ids \subseteq Ids
  /\ versions \in Seq(Texts \ {Blank})
  /\ req \in [Editors -> Requests \cup {None}]
  /\ crashes \in 0..MaxCrashes
  /\ removed \subseteq Texts /\ raced \in BOOLEAN
  /\ overtaken \subseteq Editors

(* update_config, add_dialler_id: the guard in both directions. A campaign *)
(* the dialler asks about has a limit, unless a clear and an add were both *)
(* past their checks at one time.                                          *)
AskedForIsLimited == ids # {} => limited \/ raced

Kept(text) == \E i \in DOMAIN versions : versions[i] = text

(* restore_prompt_version, update_config: a text that is replaced by somebody *)
(* who had read it can be gone back to, unless it was deleted by hand. He may *)
(* be overtaken by another's write, and then it is not.                       *)
ReplacedTextIsKept ==
  [][\A e \in Editors \ overtaken :
       Write(e) /\ prompt' # prompt
         => Kept(prompt) \/ prompt \in removed \cup {Blank}]_vars

(* Why it can: since he kept it, no more texts have been put behind it than *)
(* there are others who keep one that is not the prompt any more.          *)
Late == {f \in Editors : req[f].step \in {"guard", "keep"} /\ req[f].before # prompt}

InHand ==
  \/ prompt \in removed \cup {Blank}
  \/ \E i \in DOMAIN versions :
       /\ versions[i] = prompt
       /\ Len(versions) - i + Cardinality(Late) < Cardinality(Editors)

KeptInv ==
  \A e \in Editors \ overtaken :
    /\ req[e].step \in {"guard", "keep", "trim", "write"} => req[e].before = prompt
    /\ req[e].step = "trim" => InHand
    /\ req[e].step = "write" => req[e].text \in {Unset, prompt} \/ InHand

Trimming == {e \in Editors : req[e].step = "trim"}

(* _keep_version: the list grows past its cap only by requests that have *)
(* added to it and not come to the end of theirs.                        *)
VersionsAreBounded ==
  Len(versions) <= MaxVersions + crashes + Cardinality(Trimming)

=============================================================================
