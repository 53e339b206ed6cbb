---------------------------- MODULE PrivateTalk ----------------------------
(***************************************************************************)
(* What messaging promises its users, with checks, awaits, sockets and     *)
(* failures left out: each change is one atomic step.  A talk starts once, *)
(* between two people, and keeps them; only they speak in it and hear it;  *)
(* what was said stays as it is and is told to the other one; what was     *)
(* seen or taken back stays so.                                            *)
(***************************************************************************)
CONSTANTS People, Talks, Messages, Unsaid

VARIABLES
    between,   \* talk -> its two people; {}: they have not met yet
    said,      \* message -> its talk and speaker, or Unsaid
    told,      \* who was told of which message, by a push or by being online
    heard,     \* who heard which message live
    marked,    \* messages marked as read
    removed    \* messages taken back by their speaker

tvars == <<between, said, told, heard, marked, removed>>

Init ==
    /\ between = [c \in Talks |-> {}]
    /\ said = [m \in Messages |-> Unsaid]
    /\ told = {}
    /\ heard = {}
    /\ marked = {}
    /\ removed = {}

Meet(c, u, other) ==
    /\ u # other
    /\ between[c] = {}
    /\ between' = [between EXCEPT ![c] = {u, other}]
    /\ UNCHANGED <<said, told, heard, marked, removed>>

Say(m, c, u) ==
    /\ said[m] = Unsaid
    /\ u \in between[c]
    /\ said' = [said EXCEPT ![m] = [conversation |-> c, sender |-> u]]
    /\ UNCHANGED <<between, told, heard, marked, removed>>

Side(m) == between[said[m].conversation]
Each(m, people) == {[message |-> m, to |-> u] : u \in people}

\* The other side is told, whoever listens; a listener belongs to the talk.
Tell(m, listeners) ==
    /\ said[m] # Unsaid
    /\ listeners \subseteq Side(m)
    /\ told' = told \cup Each(m, Side(m) \ {said[m].sender})
    /\ heard' = heard \cup Each(m, listeners)
    /\ UNCHANGED <<between, said, marked, removed>>

See(m) ==
    /\ said[m] # Unsaid
    /\ marked' = marked \cup {m}
    /\ UNCHANGED <<between, said, told, heard, removed>>

Remove(m) ==
    /\ said[m] # Unsaid
    /\ removed' = removed \cup {m}
    /\ UNCHANGED <<between, said, told, heard, marked>>

Next ==
    \/ \E c \in Talks, u, other \in People : Meet(c, u, other)
    \/ \E m \in Messages, c \in Talks, u \in People : Say(m, c, u)
    \/ \E m \in Messages, listeners \in SUBSET People : Tell(m, listeners)
    \/ \E m \in Messages : See(m) \/ Remove(m)

Spec == Init /\ [][Next]_tvars
=============================================================================
