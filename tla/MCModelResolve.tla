--------------------------- MODULE MCModelResolve ---------------------------
(* Lists of up to five models, and calls with names of every kind.           *)
EXTENDS ModelResolve

MCValue ==
    [number \in {"1", "4", "5", "36", "20250514"} |->
        CASE number = "1" -> 1 [] number = "4" -> 4 [] number = "5" -> 5
          [] number = "36" -> 36 [] number = "20250514" -> 20250514]
MCDigits ==
    [number \in DOMAIN MCValue |->
        CASE number = "36" -> 2 [] number = "20250514" -> 8 [] OTHER -> 1]

Opus(version) == <<"claude", "-", "opus", "-">> \o version
Opus45 == Opus(<<"4", ".", "5">>)
Opus436 == Opus(<<"4", ".", "36">>)
Opus5 == Opus(<<"5">>)
Codex == <<"gpt", "-", "5", ".", "1", "-", "codex">>
CodexMax == Codex \o <<"-", "max">>

Effort(levels, default) == [levels |-> levels, default |-> default]
Plain == Effort(<<>>, "")

\* What each model advertises; one of them changes.
Support(id, changed) ==
    CASE id = Opus45   -> Effort(<<"high", "low">>, IF changed THEN "low" ELSE "high")
      [] id = Opus5    -> Effort(<<"none", "high", "xhigh">>, "high")
      [] id = Codex    -> Effort(<<"low", "max">>, "")
      [] id = CodexMax -> Effort(<<"high">>, "high")
      [] OTHER         -> Effort(<<"high">>, "")

Offered(ids, changed) ==
    [id \in ids \cup {AutoModelID} |-> Support(id, changed)]
MCLists ==
    {Offered(ids, FALSE) : ids \in SUBSET {Opus45, Opus5, Codex, CodexMax}}
        \cup {Offered(ids, TRUE) : ids \in SUBSET {Opus45, Opus436, Codex}}

Names ==
    { Opus45, Opus45 \o <<"-", "high">>, Opus45 \o <<":", "low">>, Opus45 \o <<"[1m]">>,
      Opus(<<"4", "-", "5", "-", "20250514">>), Opus45 \o <<"-", "20250514">>,
      Opus(<<"5", "-", "20250514">>), Opus(<<"4", "-", "36">>),
      <<"claude", "-", "4", ".", "5", "-", "opus", "-", "high">>,
      <<"claude", "-", "4", "-", "5", "-", "opus">>,
      <<"opus">>, <<"opus", "-", "high">>, <<"opus", ":", "none">>, <<"5">>,
      Codex, CodexMax, Codex \o <<":", "max">>, CodexMax \o <<":", "high">>,
      <<"codex">>, <<"codex", "-", "max">>,
      AutoModelID, Aliases[1], Aliases[1] \o <<":", "high">> }

MCAsks ==
    [name : Names, effort : {"none", "minimal"}, operator : {"xhigh"},
     disable : {FALSE}]
    \cup [name : Names, effort : {"low"}, operator : {""}, disable : BOOLEAN]

\* The ids of these lists are such as the properties suppose.
ASSUME IdsAreOrdinary
=============================================================================
