----------------------------- MODULE MCAccounts -----------------------------
(***************************************************************************)
(* A small instance of Accounts for TLC.                                   *)
(***************************************************************************)
EXTENDS Accounts, TLC

\* Request slots and addresses are interchangeable; codes count up.
Symmetry == Permutations(Tasks) \cup Permutations(Emails)
=============================================================================
