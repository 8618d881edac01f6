----------------------------- MODULE HoldMessage -----------------------------
(***************************************************************************)
(* The two messages a waiting caller may hear, as they are written in the  *)
(* console and as they are played by Asterisk: a save writes the row, then *)
(* synthesises what the row says now and writes where that audio is.       *)
(* Asterisk reads the path with the limit (queue_routes) and plays it.     *)
(***************************************************************************)
EXTENDS Naturals, Sequences

CONSTANTS
  Savers,      \* saves that may be under way at once
  Messages,    \* texts; "" is the blank one
  Tongues,     \* provider, model, voice and speed of a campaign
  MaxSaves,    \* bound: saves begun
  MaxUpsets    \* bound: keys that come or go, and requests that are cut off

ASSUME HoldAssumption == "" \in Messages

(* The pairs of _render_queue_audio, in its order.                         *)
Kinds == <<"queue", "goodbye">>
Columns == {Kinds[i] : i \in DOMAIN Kinds}

VARIABLES
  row,      \* agent_config: text and file of each kind, and the voice
  keyed,    \* whether the campaign has a key for its voice
  disk,     \* the files in WRITE_DIR
  saver,    \* each save: where it is, the row as it read it back
  saves, upsets,
  settled   \* history: a save ended after the last one began, with nothing between

hvars == <<row, keyed, disk, saver, saves, upsets, settled>>

NoFile == <<>>
Rest == [at |-> "rest"]

HoldInit ==
  /\ row \in [text : {[k \in Columns |-> ""]}, voice : Tongues, file : {[k \in Columns |-> NoFile]}]
  /\ keyed \in BOOLEAN
  /\ disk = {} /\ saves = 0 /\ upsets = 0 /\ settled = TRUE
  /\ saver = [e \in Savers |-> Rest]

(* holdaudio.basename and play_path.                                       *)
Name(text, voice) == <<text, voice>>

Alone(e) == \A f \in Savers \ {e} : saver[f] = Rest
Disturbed == [f \in Savers |-> IF saver[f] = Rest THEN Rest ELSE [saver[f] EXCEPT !.alone = FALSE]]

(* The UPDATE of update_config: any of the two texts, and the voice.       *)
Save(e) ==
  /\ saver[e] = Rest /\ saves < MaxSaves
  /\ \E text \in [Columns -> Messages], voice \in Tongues :
       row' = [row EXCEPT !.text = text, !.voice = voice]
  /\ saver' = [Disturbed EXCEPT ![e] = [at |-> "saved", alone |-> Alone(e)]]
  /\ saves' = saves + 1 /\ settled' = FALSE
  /\ UNCHANGED <<keyed, disk, upsets>>

(* The row is read again, and rendering starts from what it says.          *)
ReadBack(e) ==
  /\ saver[e].at = "saved"
  /\ saver' = [saver EXCEPT ![e] = [at |-> "begun", alone |-> @.alone, cfg |-> row]]
  /\ UNCHANGED <<row, keyed, disk, saves, upsets, settled>>

SaveEnds(e, well) ==
  /\ saver' = [saver EXCEPT ![e] = Rest]
  /\ settled' = (settled \/ (well /\ saver[e].alone))

NothingToSay(cfg) == \A k \in Columns : cfg.text[k] = ""

(* Both messages are empty: the paths are cleared.                         *)
ClearPaths(e) ==
  /\ saver[e].at = "begun" /\ NothingToSay(saver[e].cfg)
  /\ row' = [row EXCEPT !.file = [k \in Columns |-> NoFile]]
  /\ SaveEnds(e, TRUE)
  /\ UNCHANGED <<keyed, disk, saves, upsets>>

(* Without a key the save is told so, and the row is left as it is.        *)
LookForKey(e) ==
  /\ saver[e].at = "begun" /\ ~NothingToSay(saver[e].cfg)
  /\ IF keyed
     THEN /\ saver' = [saver EXCEPT ![e] = [at |-> "render", alone |-> @.alone, cfg |-> @.cfg, i |-> 1]]
          /\ UNCHANGED settled
     ELSE SaveEnds(e, FALSE)
  /\ UNCHANGED <<row, keyed, disk, saves, upsets>>

WithPath(e, path) ==
  saver' = [saver EXCEPT ![e] = [at |-> "write", alone |-> @.alone, cfg |-> @.cfg, i |-> @.i, path |-> path]]

(* holdaudio.render: a file that is there is taken; a new one is written   *)
(* aside and renamed; a provider may fail, or return what cannot be played.*)
RenderMessage(e) ==
  /\ saver[e].at = "render"
  /\ LET cfg == saver[e].cfg
         text == cfg.text[Kinds[saver[e].i]]
         name == Name(text, cfg.voice)
     IN \/ text = "" /\ WithPath(e, NoFile) /\ UNCHANGED disk
        \/ text # "" /\ WithPath(e, name) /\ disk' = disk \cup {name}
        \/ text # "" /\ name \notin disk /\ WithPath(e, NoFile) /\ UNCHANGED disk
  /\ UNCHANGED <<row, keyed, saves, upsets, settled>>

(* Mutant: only a path that is there is written.                           *)
ChangedTo(cfg, k, path) == path # cfg.file[k] /\ path # NoFile
Changed(cfg, k, path) == path # cfg.file[k]

(* The path is written if it is another than the one that was read.        *)
WritePath(e) ==
  /\ saver[e].at = "write"
  /\ LET k == Kinds[saver[e].i] IN
     row' = IF Changed(saver[e].cfg, k, saver[e].path)
            THEN [row EXCEPT !.file[k] = saver[e].path] ELSE row
  /\ IF saver[e].i < Len(Kinds)
     THEN /\ saver' = [saver EXCEPT ![e] = [at |-> "render", alone |-> @.alone, cfg |-> @.cfg, i |-> @.i + 1]]
          /\ UNCHANGED settled
     ELSE SaveEnds(e, TRUE)
  /\ UNCHANGED <<keyed, disk, saves, upsets>>

(* A key is entered or removed; the server stops under a request.          *)
ChangeKey ==
  /\ upsets < MaxUpsets
  /\ keyed' = ~keyed /\ upsets' = upsets + 1
  /\ UNCHANGED <<row, disk, saver, saves, settled>>

Stop ==
  /\ upsets < MaxUpsets /\ \E e \in Savers : saver[e] # Rest
  /\ saver' = [e \in Savers |-> Rest] /\ upsets' = upsets + 1
  /\ UNCHANGED <<row, keyed, disk, saves, settled>>

HoldNext ==
  \/ \E e \in Savers :
       \/ Save(e) \/ ReadBack(e) \/ ClearPaths(e) \/ LookForKey(e) \/ RenderMessage(e) \/ WritePath(e)
  \/ ChangeKey \/ Stop

HoldSpec == HoldInit /\ [][HoldNext]_hvars

-----------------------------------------------------------------------------
(* "No way to leave yesterday's message playing" (holdaudio.py:23-26): once*)
(* a save has ended that had a key and no other beside it, waiting callers *)
(* hear what the page says in the voice it says, or nothing, whatever went *)
(* wrong in the saves before; and what Asterisk is to play is there.       *)
HoldSaysWhatIsWritten ==
  /\ settled => \A k \in Columns :
       row.file[k] = NoFile \/ (row.text[k] # "" /\ row.file[k] = <<row.text[k], row.voice>>)
  /\ \A k \in Columns : row.file[k] # NoFile => row.file[k] \in disk

-----------------------------------------------------------------------------
(* Why they do: a save with no other beside it knows the row it writes.    *)
Names == {Name(text, voice) : text \in Messages, voice \in Tongues}
HoldRows == [text : [Columns -> Messages], voice : Tongues, file : [Columns -> Names \cup {NoFile}]]
SaversAt ==
  {Rest} \cup [at : {"saved"}, alone : BOOLEAN] \cup [at : {"begun"}, alone : BOOLEAN, cfg : HoldRows]
    \cup [at : {"render"}, alone : BOOLEAN, cfg : HoldRows, i : DOMAIN Kinds]
    \cup [at : {"write"}, alone : BOOLEAN, cfg : HoldRows, i : DOMAIN Kinds, path : Names \cup {NoFile}]

HoldOK == row \in HoldRows /\ saver \in [Savers -> SaversAt]

Says(text, voice, file) == file = NoFile \/ (text # "" /\ file = Name(text, voice))

FilesAreThere ==
  /\ \A k \in Columns : row.file[k] # NoFile => row.file[k] \in disk
  /\ \A e \in Savers : saver[e].at = "write" /\ saver[e].path # NoFile => saver[e].path \in disk

KnowsTheRow(e) ==
  LET cfg == saver[e].cfg IN
  /\ \A f \in Savers \ {e} : saver[f] = Rest
  /\ saver[e].at # "saved" => row.text = cfg.text /\ row.voice = cfg.voice
  /\ saver[e].at = "begun" => row.file = cfg.file
  /\ saver[e].at \in {"render", "write"} => \A i \in DOMAIN Kinds :
       IF i < saver[e].i THEN Says(row.text[Kinds[i]], row.voice, row.file[Kinds[i]])
                         ELSE row.file[Kinds[i]] = cfg.file[Kinds[i]]
  /\ saver[e].at = "write" => Says(cfg.text[Kinds[saver[e].i]], cfg.voice, saver[e].path)

HoldInv ==
  /\ HoldOK /\ FilesAreThere
  /\ \A e \in Savers : saver[e] # Rest /\ saver[e].alone => KnowsTheRow(e)
  /\ settled => /\ \A e \in Savers : saver[e] = Rest
                /\ \A k \in Columns : Says(row.text[k], row.voice, row.file[k])
=============================================================================
