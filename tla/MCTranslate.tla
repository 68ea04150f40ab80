------------------------------ MODULE MCTranslate ------------------------------
(* Turns of each surface, chosen so that every rule of Build has something to do. *)
EXTENDS Translate

Turn(role, text, calls, results, image, thoughts) ==
    [role |-> role, text |-> text, calls |-> calls, results |-> results,
     image |-> image, thoughts |-> thoughts]
Result(id, image) == [id |-> id, image |-> image]

MCOpenAITurns ==
    {Turn("system", TRUE, <<>>, <<>>, FALSE, <<>>),
     Turn("user", TRUE, <<>>, <<>>, FALSE, <<>>),
     Turn("user", FALSE, <<>>, <<>>, TRUE, <<>>),
     Turn("user", FALSE, <<>>, <<>>, FALSE, <<>>),
     Turn("assistant", FALSE, <<>>, <<>>, FALSE, <<>>),
     Turn("assistant", FALSE, <<"a">>, <<>>, TRUE, <<>>),
     Turn("assistant", TRUE, <<"b">>, <<>>, FALSE, <<"unsigned">>),
     Turn("assistant", TRUE, <<"a", "b">>, <<>>, FALSE, <<"signed">>),
     Turn("tool", FALSE, <<>>, <<Result("a", TRUE)>>, FALSE, <<>>),
     Turn("tool", FALSE, <<>>, <<Result("b", FALSE)>>, FALSE, <<>>),
     Turn("tool", FALSE, <<>>, <<Result("", FALSE)>>, FALSE, <<>>)}

MCAnthropicTurns ==
    {Turn("user", TRUE, <<>>, <<>>, FALSE, <<>>),
     Turn("user", FALSE, <<>>, <<>>, TRUE, <<>>),
     Turn("user", TRUE, <<"a">>, <<>>, FALSE, <<>>),
     Turn("user", FALSE, <<>>, <<Result("a", TRUE), Result("b", FALSE)>>, FALSE, <<>>),
     Turn("user", TRUE, <<>>, <<Result("b", FALSE)>>, TRUE, <<>>),
     Turn("user", FALSE, <<>>, <<Result("", TRUE)>>, FALSE, <<>>),
     Turn("assistant", TRUE, <<>>, <<>>, FALSE, <<"redacted", "signed">>),
     Turn("assistant", FALSE, <<"a">>, <<>>, FALSE, <<"signed">>),
     Turn("assistant", FALSE, <<"a", "b">>, <<>>, FALSE, <<"signed", "signed">>),
     Turn("assistant", FALSE, <<>>, <<Result("a", TRUE)>>, FALSE, <<>>)}

Setting(surface, field, system, tools) ==
    [surface |-> surface, field |-> field, system |-> system, tools |-> tools]

MCSettings ==
    {Setting("openai", FALSE, FALSE, {}),
     Setting("openai", FALSE, FALSE, {"plain"}),
     Setting("openai", TRUE, FALSE, {"wordy"}),
     Setting("anthropic", FALSE, TRUE, {}),
     Setting("anthropic", FALSE, FALSE, {"plain"}),
     Setting("anthropic", FALSE, TRUE, {"plain", "wordy"}),
     Setting("anthropic", TRUE, TRUE, {"overlong"})}
=============================================================================
