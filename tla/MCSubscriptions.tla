-------------------------- MODULE MCSubscriptions --------------------------
(***************************************************************************)
(* Small instances of Subscriptions for TLC.                               *)
(***************************************************************************)
EXTENDS Subscriptions, TLC

CONSTANT YearlyPlans

MCInterval == [p \in Plans |-> IF p \in YearlyPlans THEN "yearly" ELSE "monthly"]
MCTrialDays == [p \in Plans |-> 1]
NoTrials == [p \in Plans |-> 0]

\* Users, references and task slots are interchangeable; row ids are ordered.
UserSymmetry == Permutations(Users)
RefSymmetry == Permutations(Refs)
TaskSymmetry == Permutations(Tasks)
LoopSymmetry == Permutations(Loops)
Symmetry == RefSymmetry \cup LoopSymmetry
=============================================================================
