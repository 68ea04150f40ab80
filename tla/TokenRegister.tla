--------------------------- MODULE TokenRegister ---------------------------
(***************************************************************************)
(* What internal/auth promises its callers: one access token that moves    *)
(* forward as it is renewed, and callers that are handed a token which was *)
(* current at some moment while they were asking, or an error.             *)
(*                                                                         *)
(* TokenManager implements this: single-flight refreshes, a credentials    *)
(* file and crashes are its business, not the callers'.                    *)
(***************************************************************************)
EXTENDS Naturals

CONSTANTS Callers   \* the goroutines serving client requests

VARIABLES
    current,        \* the token the process holds, 0 when it holds none
    window,         \* window[c]: the tokens current since c began to ask,
                    \* empty when c is not asking
    answer          \* answer[c]: the token c was last handed, 0 for none

vars == <<current, window, answer>>

Init ==
    /\ current \in Nat
    /\ window = [c \in Callers |-> {}]
    /\ answer = [c \in Callers |-> 0]

Asking(c) == window[c] # {}

\* The token is good enough to be handed over on the spot.
AnswerAtOnce(c) ==
    /\ ~Asking(c)
    /\ current # 0
    /\ answer' = [answer EXCEPT ![c] = current]
    /\ UNCHANGED <<current, window>>

Ask(c) ==
    /\ ~Asking(c)
    /\ window' = [window EXCEPT ![c] = {current}]
    /\ answer' = [answer EXCEPT ![c] = 0]
    /\ UNCHANGED current

\* A newer token replaces the current one, and everyone asking may now get it.
Renew ==
    /\ current' \in Nat /\ current' > current
    /\ window' = [c \in Callers |->
                     IF Asking(c) THEN window[c] \cup {current'} ELSE {}]
    /\ UNCHANGED answer

Answer(c) ==
    /\ \E t \in window[c] \ {0} : answer' = [answer EXCEPT ![c] = t]
    /\ window' = [window EXCEPT ![c] = {}]
    /\ UNCHANGED current

\* The refresh failed for good, or the caller's own request was cancelled.
Refuse(c) ==
    /\ Asking(c)
    /\ answer' = [answer EXCEPT ![c] = 0]
    /\ window' = [window EXCEPT ![c] = {}]
    /\ UNCHANGED current

\* The caller has used its token and is done with it.
Leave(c) ==
    /\ ~Asking(c)
    /\ answer' = [answer EXCEPT ![c] = 0]
    /\ UNCHANGED <<current, window>>

\* The process restarts: its callers are gone, the token is whatever was stored.
Restart ==
    /\ current' \in Nat
    /\ window' = [c \in Callers |-> {}]
    /\ answer' = [c \in Callers |-> 0]

Next ==
    \/ \E c \in Callers :
          AnswerAtOnce(c) \/ Ask(c) \/ Answer(c) \/ Refuse(c) \/ Leave(c)
    \/ Renew
    \/ Restart

Spec == Init /\ [][Next]_vars
=============================================================================
