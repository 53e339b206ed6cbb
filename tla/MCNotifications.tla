-------------------------- MODULE MCNotifications --------------------------
(***************************************************************************)
(* A small instance of Notifications for TLC.                              *)
(***************************************************************************)
EXTENDS Notifications, TLC

\* Devices and request slots are interchangeable; requests are numbered.
Symmetry == Permutations(Devices) \cup Permutations(Tasks)

\* Bound: at the start one device is a reader's and no other is theirs.  Every other
\* distribution is one RegisterDeviceToken or RemoveDeviceToken away.
MCInit == ServiceInit /\ \E u \in Readers : Cardinality({d \in Devices : owner[d] = u}) = 1
MCSpec == MCInit /\ [][Next]_vars
=============================================================================
