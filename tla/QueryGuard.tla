----------------------------- MODULE QueryGuard -----------------------------
(***************************************************************************)
(* The guard of utils/QueryGuard.ts as a value and its five transitions.   *)
(* A guard is a record [status, gen]: the private fields _status and       *)
(* _generation.  _notify() has no counterpart here: whoever holds a guard  *)
(* compares the value before and after.                                    *)
(***************************************************************************)
EXTENDS Naturals

Status == {"idle", "dispatching", "running"}

Guard == [status : Status, gen : Nat]

NewGuard == [status |-> "idle", gen |-> 0]

IsActive(g) == g.status # "idle"

(* reserve(): idle -> dispatching; on any other status the call returns    *)
(* false, which its only caller ignores.                                   *)
Reserve(g) == IF IsActive(g) THEN g ELSE [g EXCEPT !.status = "dispatching"]

(* cancelReservation(): dispatching -> idle, whoever made the reservation. *)
CancelReservation(g) ==
  IF g.status = "dispatching" THEN [g EXCEPT !.status = "idle"] ELSE g

(* tryStart() answers null exactly when a query is running.                *)
CanStart(g) == g.status # "running"
(* Mutant: the generation is not advanced.                                 *)
SameGenerationStart(g) == [status |-> "running", gen |-> g.gen]
TryStart(g) == [status |-> "running", gen |-> g.gen + 1]

(* end(n): whether the caller's generation is still the running one.       *)
IsCurrent(g, n) == g.gen = n /\ g.status = "running"
(* Mutant: the caller's generation is not compared.                        *)
EndAnyway(g, n) ==
  IF g.status = "running" THEN [g EXCEPT !.status = "idle"] ELSE g
End(g, n) == IF IsCurrent(g, n) THEN [g EXCEPT !.status = "idle"] ELSE g

(* forceEnd(): drop whatever holds the guard and outdate its generation.   *)
ForceEnd(g) ==
  IF IsActive(g) THEN [status |-> "idle", gen |-> g.gen + 1] ELSE g
=============================================================================
