------------------------------ MODULE TurnLease ------------------------------
(***************************************************************************)
(* What the query guard promises to a running turn: a lease held by at     *)
(* most one turn, never passed on directly, numbered by an epoch that      *)
(* grows whenever the lease is taken or revoked, so that a revoked holder  *)
(* can no longer give back what is not its own.                            *)
(***************************************************************************)
EXTENDS Naturals

CONSTANTS Turns, None

VARIABLES holder, epoch

lease == <<holder, epoch>>

Init == holder = None /\ epoch = 0

Take(t) == holder = None /\ holder' = t /\ epoch' = epoch + 1

GiveBack == holder # None /\ holder' = None /\ epoch' = epoch

(* ESC revokes the lease, or a reservation for it; a turn that answers     *)
(* without a query takes the lease and gives it back in one step.          *)
Revoke == holder' = None /\ epoch' = epoch + 1
Pass == holder = None /\ Revoke

Next == (\E t \in Turns : Take(t)) \/ GiveBack \/ Revoke \/ Pass

Spec == Init /\ [][Next]_lease

FairSpec == Spec /\ WF_lease(GiveBack \/ (holder # None /\ Revoke))
=============================================================================
