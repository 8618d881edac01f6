----------------------------- MODULE MCMetering -----------------------------
(* Bounds for the model checking of Metering: one campaign with a model's  *)
(* fallback, one behind a gateway, one with a fallback that cannot be      *)
(* built; a rate for everything, and tables that lack one, two or all.     *)
EXTENDS Metering

Layer(p, model, fallback, fbmodel) ==
  [provider |-> p, model |-> model, fallback |-> fallback, fbmodel |-> fbmodel]
Own == [llm |-> Layer("openai", "mini", "openrouter", "or/mini"),
        tts |-> Layer("sarvam", "v3", "openai", Unknown),
        stt |-> Layer("sarvam", Unknown, Unknown, Unknown), voiced |-> TRUE]
Gateway == [llm |-> Layer("openrouter", "or/mini", "openai", Unknown),
            tts |-> Layer("raya", "m1", "sarvam", Unknown),
            stt |-> Layer("sarvam", "saarika", "openai", Unknown), voiced |-> TRUE]
Rash == [Own EXCEPT !.tts = Layer("sarvam", Unknown, "raya", Unknown), !.llm.model = "big"]
ThreePlans == {Own, Gateway, Rash}
Rings == {{"openai", "sarvam", "openrouter"}, {"openai", "sarvam", "openrouter", "raya"}}
Defaults == [llm |-> [p \in {"openai", "openrouter"} |-> "none"],
             tts |-> [p \in {"sarvam", "openai", "raya"} |-> p],
             stt |-> [p \in {"sarvam", "openai"} |-> p]]
Abc == <<"openai", "openrouter", "raya", "sarvam">>
Rate(p, model, kind, currency) == [provider |-> p, model |-> model, kind |-> kind, currency |-> currency]
OtherStt == Rate("sarvam", "other", "stt_seconds", "INR")
OwnVoice == Rate("sarvam", "v3", "tts_characters", "INR")
AllRates ==
  {Rate("openai", "mini", "llm_input", "USD"), Rate("openai", "big", "llm_input", "USD"),
   Rate("openai", Unknown, "llm_cached", "USD"), Rate("openrouter", "or/mini", "llm_output", "USD"),
   Rate("openrouter", Unknown, "llm_input", "USD"), Rate("openai", Unknown, "tts_seconds", "USD"),
   Rate("sarvam", "saarika", "stt_seconds", "INR"), OwnVoice, OtherStt}
Sheets == {AllRates \ S : S \in {{}, {OtherStt, OwnVoice}, AllRates} \cup {{r} : r \in AllRates}}
=============================================================================
