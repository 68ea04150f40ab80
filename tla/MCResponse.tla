------------------------------ MODULE MCResponse ------------------------------
(* Events chosen so that every kind of block, cut and fragment occurs. *)
EXTENDS Response

Event(kind, runes, signature, redacted, id, piece, said) ==
    [kind |-> kind, runes |-> runes, signature |-> signature, redacted |-> redacted,
     id |-> id, piece |-> piece, reason |-> said]

Text(kind, runes, signature, redacted) == Event(kind, runes, signature, redacted, "", "", "")
Tool(id, piece) == Event("tool", 0, FALSE, FALSE, id, piece, "")
Other(kind, said) == Event(kind, 0, FALSE, FALSE, "", "", said)

MCEvents ==
    {Text("content", 5, FALSE, FALSE),
     Text("reasoning", 2, TRUE, FALSE),
     Text("reasoning", 0, TRUE, FALSE),
     Text("reasoning", 0, FALSE, TRUE),
     Tool("a", "head"), Tool("a", "tail"), Tool("b", "head"), Tool("", "tail"),
     Other("accounting", ""), Other("stop", "stop_sequence"), Other("exception", "")}
=============================================================================
