----------------------------- MODULE FrameChannel -----------------------------
(***************************************************************************)
(* What a session may rely on when it reads a response body through        *)
(* kiro.Reader: events come out as upstream wrote them, from the first on, *)
(* none twice and none skipped. The channel ends cleanly only when nothing *)
(* is left over; what cannot be trusted is refused, after everything that  *)
(* was whole before it; and nothing comes out after that.                  *)
(***************************************************************************)
EXTENDS Naturals, Sequences

CONSTANTS Events        \* what a frame can mean to a session

VARIABLES
    written,        \* the events that leave upstream whole and reach the body whole
    spoiled,        \* something that is not a whole frame follows them
    delivered,      \* the events handed to the session
    status          \* "open", or how the channel came to its end

vars == <<written, spoiled, delivered, status>>

Init ==
    /\ written = <<>> /\ delivered = <<>>
    /\ spoiled = FALSE
    /\ status = "open"

Write ==
    /\ ~spoiled
    /\ \E event \in Events : written' = Append(written, event)
    /\ UNCHANGED <<spoiled, delivered, status>>

\* The body is damaged, or ends early, behind the event delivered last. What
\* spoiled it may itself be cut off.
Spoil ==
    /\ \E n \in Len(delivered) .. Len(written) : written' = SubSeq(written, 1, n)
    /\ spoiled' \in BOOLEAN
    /\ UNCHANGED <<delivered, status>>

Deliver ==
    /\ status = "open"
    /\ Len(delivered) < Len(written)
    /\ delivered' = Append(delivered, written[Len(delivered) + 1])
    /\ UNCHANGED <<written, spoiled, status>>

Finish ==
    /\ status = "open"
    /\ delivered = written
    /\ status' = IF spoiled THEN "refused" ELSE "end"
    /\ UNCHANGED <<written, spoiled, delivered>>

\* The network fails, at any moment.
Fail ==
    /\ status = "open"
    /\ status' = "failed"
    /\ UNCHANGED <<written, spoiled, delivered>>

Next == Write \/ Spoil \/ Deliver \/ Finish \/ Fail

Spec == Init /\ [][Next]_vars
=============================================================================
