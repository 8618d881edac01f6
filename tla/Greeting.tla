------------------------------ MODULE Greeting ------------------------------
(***************************************************************************)
(* What the dialler sends of a caller, and the first words that caller     *)
(* hears: the attributes that arrive while the call is set up, the two     *)
(* greetings of a campaign and their placeholders, the message that tells  *)
(* the model of the caller, the recordings of greetings that all workers   *)
(* share, and the warnings the console shows to who wrote the greeting.    *)
(***************************************************************************)
EXTENDS Naturals, FiniteSets

CONSTANTS
  Calls,
  Fields,      \* the dialler's fields, without their prefix
  Safe,        \* PROMPT_SAFE: the fields that may be spoken or shown
  Sent,        \* Sent[c][f]: what the dialler sends for call c, "" if nothing
  Nothing,     \* the template that is not there
  Settings,    \* what a campaign may be set to
  MaxEdits     \* bound: edits of the campaign

(* A template is its words and its placeholders: a placeholder has a key,  *)
(* a default ("" for none), and is closed if the braces around it are as   *)
(* the agent wants them.  Others stay in the text as they are.             *)
Placeholders(t) == {p \in t.holes : p.closed}

(* What must not be said can be told from what may: from the fields that   *)
(* may be spoken, the defaults of the templates, and "not provided".       *)
Shown(s) == UNION {Placeholders(t) : t \in {s.greeting, s.fallback, s.prompt}}
ASSUME GreetingAssumption ==
  /\ Safe \subseteq Fields
  /\ \A c \in Calls, f \in Fields \ Safe : Sent[c][f] # "" =>
       /\ Sent[c][f] # "not provided"
       /\ \A g \in Safe : Sent[c][g] # Sent[c][f]
       /\ \A s \in Settings : \A p \in Shown(s) : p.default # Sent[c][f]

VARIABLES
  setting,   \* the campaign's row: greeting, fallback, notice (the recording
             \* disclosure), prompt, voice, spare (the voice behind it), speed
  edits,
  sent,      \* participant.attributes of each call so far
  call,      \* each call: where it is, and what it has read
  wavs,      \* the recordings in the directory, by the name of the file
  opened     \* what each call's caller heard first and its model was told

gvars == <<setting, edits, sent, call, wavs, opened>>

Silence == [text |-> "none"]
GreetingInit ==
  /\ setting \in Settings /\ edits = 0
  /\ sent = [c \in Calls |-> {}]
  /\ call = [c \in Calls |-> [at |-> "ringing", s |-> setting]]
  /\ wavs = {}
  /\ opened = [c \in Calls |-> [told |-> {}, heard |-> Silence]]

-----------------------------------------------------------------------------
(* prompt.py.  d is what a call has of the dialler: a function of fields.  *)

Spoken(p, d) == IF p.key \in Safe /\ d[p.key] # "" THEN d[p.key] ELSE p.default

Rendered(t, d) == [words |-> t.words, said |-> [p \in Placeholders(t) |-> Spoken(p, d)]]

Unfilled(t, d) == {p.key : p \in {p \in Placeholders(t) : p.key \notin Safe \/ d[p.key] = ""}}

(* One line for each key of the prompt that may be shown: the value, or a  *)
(* default of the prompt, or that it was not provided.                     *)
CallerDetails(t, d) ==
  LET shown == {p \in Placeholders(t) : p.key \in Safe}
      Defaults(k) == {p.default : p \in {p \in shown : p.key = k}} \ {""}
  IN {[key |-> k,
       value |-> IF d[k] # "" THEN d[k]
                 ELSE IF Defaults(k) = {} THEN "not provided"
                 ELSE CHOOSE v \in Defaults(k) : TRUE] : k \in {p.key : p \in shown}}

(* Which of the two greetings a call gets.                                 *)
Chosen(s, d) ==
  IF s.fallback # Nothing /\ Unfilled(s.greeting, d) # {} THEN s.fallback ELSE s.greeting

Opening(s, d) == [greeting |-> Rendered(Chosen(s, d), d), notice |-> s.notice]

(* Mutant: decided on the greeting of the campaign, not on the one chosen. *)
CacheableAlways(s, d) == TRUE
Cacheable(s, d) == Chosen(s, d).holes = {}

(* path_for, a digest of what it names.                                    *)
Path(text, voice) == [text |-> text, voice |-> voice]

-----------------------------------------------------------------------------
(* A placeholder is found by its braces and letters alone.                 *)
Used(t) == {p.key : p \in t.holes}

(* What _warnings says of greetings and placeholders, as a set of reasons. *)
Warnings(s) ==
  {w \in {"no alternative", "alternative has a hole", "not spoken"} :
    \/ w = "no alternative" /\ Used(s.greeting) # {} /\ s.fallback = Nothing
    \/ w = "alternative has a hole" /\ s.fallback.holes # {}
    \/ w = "not spoken" /\ (Used(s.greeting) \cup Used(s.fallback) \cup Used(s.prompt)) \ Safe # {}}

EditGreeting ==
  /\ edits < MaxEdits
  /\ setting' \in Settings \ {setting}
  /\ edits' = edits + 1
  /\ UNCHANGED <<sent, call, wavs, opened>>

-----------------------------------------------------------------------------
(* External: headers become attributes when they do.                       *)
Arrive(c) ==
  /\ call[c].at # "over"
  /\ \E f \in Fields \ sent[c] : Sent[c][f] # "" /\ sent' = [sent EXCEPT ![c] = @ \cup {f}]
  /\ UNCHANGED <<setting, edits, call, wavs, opened>>

(* The configuration is read first, the attributes last: _dialler_attrs.   *)
LoadConfig(c) ==
  /\ call[c].at = "ringing"
  /\ call' = [call EXCEPT ![c] = [at |-> "setup", s |-> setting]]
  /\ UNCHANGED <<setting, edits, sent, wavs, opened>>

Dialler(c) == [f \in Fields |-> IF f \in sent[c] THEN Sent[c][f] ELSE ""]

ReadAttributes(c) ==
  /\ call[c].at = "setup"
  /\ call' = [call EXCEPT ![c] = [at |-> "started", s |-> @.s, d |-> Dialler(c)]]
  /\ opened' = [opened EXCEPT ![c].told = CallerDetails(call[c].s.prompt, Dialler(c))]
  /\ UNCHANGED <<setting, edits, sent, wavs>>

(* A recording is played, read in full before it is, or the greeting is    *)
(* spoken by the provider or the one behind it, and recorded afterwards if *)
(* it is for everybody.  With nothing to say the call is open at once.     *)
Voices(s) == {s.voice, s.spare} \ {""}
Audio(s, text, voice) == [text |-> text, voice |-> voice, speed |-> s.speed]
Goes(c, to) == call' = [call EXCEPT ![c].at = to]
Hears(c, audio) == opened' = [opened EXCEPT ![c].heard = audio]

IsSilence(text) ==
  /\ text.greeting.words = "" /\ text.notice = ""
  /\ \A p \in DOMAIN text.greeting.said : text.greeting.said[p] = ""

Recorded(c) ==
  {w \in wavs : /\ Cacheable(call[c].s, call[c].d)
                /\ w.path = Path(Opening(call[c].s, call[c].d), call[c].s.voice)}

SpeakGreeting(c) ==
  /\ call[c].at = "started"
  /\ LET s == call[c].s
         text == Opening(s, call[c].d)
     IN \/ /\ IsSilence(text)
           /\ Goes(c, "talking") /\ UNCHANGED opened
        \/ /\ ~IsSilence(text)
           /\ \E w \in Recorded(c) : Hears(c, w.audio)
           /\ Goes(c, "talking")
        \/ /\ ~IsSilence(text) /\ Recorded(c) = {}
           /\ \E voice \in Voices(s) : Hears(c, Audio(s, text, voice))
           /\ Goes(c, IF Cacheable(s, call[c].d) THEN "rendering" ELSE "talking")
  /\ UNCHANGED <<setting, edits, sent, wavs>>

(* greeting_cache.store, on a task of its own: behind a fallback adapter   *)
(* it may be the spare voice that is recorded.  What fails or is too short *)
(* is left out.                                                            *)
Render(c) ==
  /\ call[c].at = "rendering"
  /\ \/ \E voice \in Voices(call[c].s) :
          LET s == call[c].s
              text == Opening(s, call[c].d)
          IN call' = [call EXCEPT ![c] = [at |-> "written", s |-> s, d |-> @.d,
                        wav |-> [path |-> Path(text, s.voice), audio |-> Audio(s, text, voice)]]]
     \/ Goes(c, "talking")
  /\ UNCHANGED <<setting, edits, sent, wavs, opened>>

(* Written aside, under the worker's own name, and renamed.                *)
Publish(c) ==
  /\ call[c].at = "written"
  /\ wavs' = {w \in wavs : w.path # call[c].wav.path} \cup {call[c].wav}
  /\ Goes(c, "talking")
  /\ UNCHANGED <<setting, edits, sent, opened>>

(* The caller leaves or the job dies, and what was not renamed is never    *)
(* looked at.                                                              *)
EndOfCall(c) ==
  /\ call[c].at # "over"
  /\ Goes(c, "over")
  /\ UNCHANGED <<setting, edits, sent, wavs, opened>>

GreetingNext ==
  \/ EditGreeting
  \/ \E c \in Calls :
       \/ Arrive(c) \/ LoadConfig(c) \/ ReadAttributes(c) \/ SpeakGreeting(c)
       \/ Render(c) \/ Publish(c) \/ EndOfCall(c)

GreetingSpec == GreetingInit /\ [][GreetingNext]_gvars

-----------------------------------------------------------------------------
Talked(c) == opened[c].heard # Silence
Filled(text) == {text.greeting.said[p] : p \in DOMAIN text.greeting.said}

(* What a caller hears first is what this call was to be opened with, in   *)
(* the voice of the campaign or the one behind it; neither the caller nor  *)
(* the model is told anything of the dialler's but this call's own fields  *)
(* that may be spoken (render_spoken, prompt.py:152, caller_details, :106);*)
(* no recording that other callers get holds anything of one               *)
(* (voice_agent.py:3013); and a caller who hears a gap in the text belongs *)
(* to a campaign whose page says that this can happen: the console reads   *)
(* templates with a pattern and reasons of its own (_warnings,             *)
(* agent_config.py:208-257), the agent with another (unfilled).            *)
GreetingIsTheCallers ==
  /\ \A c \in Calls : Talked(c) =>
       opened[c].heard.text = Opening(call[c].s, call[c].d)
  /\ \A c \in Calls, f \in Fields \ Safe : Sent[c][f] # "" =>
       /\ Talked(c) => Sent[c][f] \notin Filled(opened[c].heard.text)
       /\ \A line \in opened[c].told : line.value # Sent[c][f]
  /\ \A w \in wavs : Filled(w.audio.text) = {}
  /\ \A c \in Calls :
       Talked(c) /\ "" \in Filled(opened[c].heard.text) => Warnings(call[c].s) # {}

-----------------------------------------------------------------------------
(* Why it is: what a call has read of its caller is what was sent of him,  *)
(* and what is recorded is the same for everybody.                         *)
Received(c) == {[f \in Fields |-> IF f \in arrived THEN Sent[c][f] ELSE ""] : arrived \in SUBSET Fields}
Take(s, d) == {[path |-> Path(Opening(s, d), s.voice), audio |-> Audio(s, Opening(s, d), v)] : v \in Voices(s)}

Unanswered == [at : {"ringing", "setup", "over"}, s : Settings]
Read(c) == [at : {"started", "talking", "rendering", "over"}, s : Settings, d : Received(c)]
Taped(c) ==
  [at : {"written", "talking", "over"}, s : Settings, d : Received(c),
   wav : UNION {Take(s, d) : s \in Settings, d \in Received(c)}]

CallIsItsOwn(c) ==
  /\ call[c] \in Unanswered \cup Read(c) \cup Taped(c)
  /\ call[c].at \in {"rendering", "written"} => Cacheable(call[c].s, call[c].d)
  /\ call[c].at = "written" => call[c].wav \in Take(call[c].s, call[c].d)

SaidIsItsOwn(c) ==
  /\ DOMAIN opened[c] = {"told", "heard"}
  /\ call[c].at \in {"ringing", "setup", "started"} => ~Talked(c)
  /\ call[c].at \in {"ringing", "setup"} => opened[c].told = {}
  /\ Talked(c) => /\ call[c] \in Read(c) \cup Taped(c)
                  /\ opened[c].heard.text = Opening(call[c].s, call[c].d)
  /\ opened[c].told = {} \/ \E d \in Received(c) : opened[c].told = CallerDetails(call[c].s.prompt, d)

GreetingInv ==
  /\ setting \in Settings /\ DOMAIN call = Calls /\ DOMAIN opened = Calls
  /\ \A c \in Calls : CallIsItsOwn(c) /\ SaidIsItsOwn(c)
  /\ \A w \in wavs : w.audio.text = w.path.text /\ Filled(w.audio.text) = {}
=============================================================================
