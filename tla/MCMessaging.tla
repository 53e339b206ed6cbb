---------------------------- MODULE MCMessaging ----------------------------
(***************************************************************************)
(* Small instances of Messaging for TLC.                                   *)
(***************************************************************************)
EXTENDS Messaging, TLC

\* Ids are UUIDs, and request slots are interchangeable; so are users, where all
\* of them connect to the notifications namespace.
IdSymmetry ==
    Permutations(Conversations) \cup Permutations(Messages)
        \cup Permutations(Sockets) \cup Permutations(Tasks)
Symmetry == IdSymmetry \cup Permutations(Users)
=============================================================================
