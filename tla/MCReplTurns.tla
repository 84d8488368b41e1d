----------------------------- MODULE MCReplTurns -----------------------------
(***************************************************************************)
(* Small instances of ReplTurns: typed prompts p and q, a slash command s, *)
(* a hidden system prompt m, task notifications n and a.                   *)
(***************************************************************************)
EXTENDS ReplTurns

CONSTANTS p, q, s, m, n, a

MCMode == [c \in Commands |->
             CASE c \in {p, q, m} -> "prompt"
               [] c = s -> "slash"
               [] c \in {n, a} -> "notification"]

(* The commands still to come: the others were dealt with earlier in the   *)
(* conversation, so a behaviour meets any of these combinations and the    *)
(* instance stays small.                                                   *)
Conversations == {{p, s, n}, {p, s, a}, {p, m, a}, {p, n, a}, {m, n, a}}

MCInit ==
  \E coming \in Conversations :
    /\ guard = NewGuard
    /\ queue = {}
    /\ arrivals = 0
    /\ halted = FALSE
    /\ dirty = TRUE
    /\ urgent = FALSE
    /\ controller = None
    /\ turn = [t \in Turns |-> FreeTurn]
    /\ localJsx = FALSE
    /\ sent = Commands \ coming
    /\ fate = [c \in Commands |-> IF c \in coming THEN {} ELSE {"model"}]
    /\ cancels = 0

MCSpec == MCInit /\ [][Next]_vars /\ Fairness
=============================================================================
