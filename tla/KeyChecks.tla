------------------------------ MODULE KeyChecks ------------------------------
(***************************************************************************)
(* What a provider is asked before a key of it is kept, and what its       *)
(* answer is taken to mean (app/provider_keys.py, validate).  An account   *)
(* is what lies behind the key that was entered: is it known, may it pay,  *)
(* may it do what calls will ask of it, and in which region is it at home. *)
(***************************************************************************)
EXTENDS Naturals

Checked == {"openai", "openrouter", "sarvam", "soniox", "gemini", "google", "raya"}

(* A region that is not set is the first one.                              *)
Behind == [known : BOOLEAN, funded : BOOLEAN, granted : BOOLEAN, home : {"us", "in"}]
Entered == {"unset", "us", "in"}

(* External: the status a request comes back with; 0 is no answer.         *)
Weathers == {"fair", "busy", "broken", "unreachable"}
Refusal(p) == IF p = "gemini" THEN 400 ELSE 401
OutOfCredit(p) ==
  CASE p \in {"sarvam", "soniox", "raya"} -> 402
    [] p = "gemini" -> 429
    [] OTHER -> 200

SonioxHost(region) == IF region = "in" THEN "api.in.soniox.com" ELSE "api.soniox.com"

StatusOf(p, account, region, weather) ==
  IF weather = "unreachable" THEN 0
  ELSE IF weather = "broken" THEN 500
  ELSE IF ~account.known THEN Refusal(p)
  ELSE IF p = "soniox" /\ SonioxHost(region) # SonioxHost(account.home) THEN Refusal(p)
  ELSE IF weather = "busy" THEN 429
  ELSE IF ~account.funded THEN OutOfCredit(p)
  ELSE IF p = "google" /\ ~account.granted THEN 403
  ELSE 200

(* External: one word embedded, asked after the list of models.            *)
EmbedStatus(account, weather) ==
  IF weather = "unreachable" THEN 0
  ELSE IF weather = "broken" THEN 500
  ELSE IF weather = "busy" \/ ~account.funded THEN 429
  ELSE IF ~account.granted THEN 403
  ELSE 200

-----------------------------------------------------------------------------
Rejected == [ok |-> FALSE, no_credits |-> FALSE, warning |-> FALSE]
Accepted == [ok |-> TRUE, no_credits |-> FALSE, warning |-> FALSE]
Broke == [Accepted EXCEPT !.no_credits = TRUE]

(* _openai_can_embed: only a clear answer is a warning.                    *)
CanEmbed(code) == IF code \in {403, 404} THEN [Accepted EXCEPT !.warning = TRUE] ELSE Accepted

CheckOpenai(code, embed) ==
  CASE code = 200 -> CanEmbed(embed)
    [] code = 429 -> Broke
    [] OTHER -> Rejected

(* A limit of null means unlimited.                                        *)
CheckOpenrouter(code, left) ==
  IF code # 200 THEN Rejected ELSE IF left = 0 THEN Broke ELSE Accepted

(* Mutant of CheckPaid: what is not refused is accepted.                   *)
CheckPaidLoosely(p, code) == IF code \in {0, 401, 403} THEN Rejected ELSE Accepted

CheckPaid(p, code) ==
  CASE code = 200 -> Accepted
    [] code = 402 -> Broke
    [] p = "soniox" /\ code = 429 -> Broke
    [] OTHER -> Rejected

CheckGemini(code) ==
  CASE code = 200 -> Accepted
    [] code = 429 -> Broke
    [] OTHER -> Rejected

(* A credential that cannot be read or mints no token is not asked about.  *)
CheckGoogle(minted, code) == IF minted /\ code = 200 THEN Accepted ELSE Rejected

Verdict(p, account, region, first, then) ==
  LET code == StatusOf(p, account, region, first) IN
  CASE p = "openai" -> CheckOpenai(code, EmbedStatus(account, then))
    [] p = "openrouter" -> CheckOpenrouter(code, IF account.funded THEN 1 ELSE 0)
    [] p = "gemini" -> CheckGemini(code)
    [] p = "google" -> CheckGoogle(account.known /\ first = "fair", StatusOf(p, account, region, then))
    [] OTHER -> CheckPaid(p, code)

-----------------------------------------------------------------------------
(* Nothing is kept that is not a key of the provider, in the region it was *)
(* entered for, or that the provider did not answer to; a key that is and  *)
(* does is kept though its account be empty, which is said wherever the    *)
(* provider's answer tells, and a key that cannot embed is kept with a     *)
(* warning (validate, provider_keys.py:419, _openai_can_embed, :126).      *)
OnlyKeysAreKept(p, account, region, first, then, verdict) ==
  LET genuine == account.known /\ (p = "soniox" => SonioxHost(region) = SonioxHost(account.home)) IN
  /\ verdict.ok => genuine /\ first \in {"fair", "busy"}
  /\ genuine /\ first = "fair" /\ then = "fair" /\ (p = "google" => account.granted) => verdict.ok
  /\ first = "fair" /\ verdict.ok /\ p \notin {"openai", "google"} =>
       (verdict.no_credits <=> ~account.funded)
  /\ verdict.warning => p = "openai" /\ ~account.granted
  /\ p = "openai" /\ genuine /\ account.funded /\ first = "fair" /\ then = "fair" =>
       (verdict.warning <=> ~account.granted)
=============================================================================
