----------------------------- MODULE MCBookings -----------------------------
(***************************************************************************)
(* Small instances of Bookings for TLC: the first user provides every      *)
(* service.                                                                *)
(***************************************************************************)
EXTENDS Bookings, TLC

CONSTANT Provider

MCCreatedBy == [s \in Services |-> Provider]

\* Request slots are interchangeable.
Symmetry == Permutations(Tasks)
=============================================================================
