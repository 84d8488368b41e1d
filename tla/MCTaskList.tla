----------------------------- MODULE MCTaskList -----------------------------
(***************************************************************************)
(* Small instances of TaskList: agents a and b, who complete tasks.        *)
(***************************************************************************)
EXTENDS TaskList, TLC

CONSTANTS a, b

Completes == [fields |-> {"status"}, new |-> [NoTask EXCEPT !.status = "completed"]]
MCChanges == {Completes}

Symmetry == Permutations(Callers)
=============================================================================
