---------------------------- MODULE Classification ----------------------------
(***************************************************************************)
(* What the four processes promise together, with no process in sight:     *)
(* every query is answered once, and every data item of it with a class    *)
(* whose score no other class exceeds, or it is lost with a process that   *)
(* ends.                                                                   *)
(***************************************************************************)
EXTENDS Integers

CONSTANTS Queries, Classes, Items, Score, NoAnswer

VARIABLES answer, lost

absVars == <<answer, lost>>

\* The classes a data item k of query q may be put in.
Best(q, k) ==
    {a \in Classes : \A b \in Classes : Score[q][k][b] <= Score[q][k][a]}

Init ==
    /\ answer = [q \in Queries |-> NoAnswer]
    /\ lost = {}

Open(q) == answer[q] = NoAnswer /\ q \notin lost

Answer(q) ==
    /\ Open(q)
    /\ \E classes \in [Items[q] -> Classes] :
         /\ \A k \in Items[q] : classes[k] \in Best(q, k)
         /\ answer' = [answer EXCEPT ![q] = classes]
    /\ UNCHANGED lost

\* A process takes all the queries with it that depend on it.
Lose(Q) ==
    /\ Q # {} /\ \A q \in Q : Open(q)
    /\ lost' = lost \cup Q
    /\ UNCHANGED answer

Next ==
    \/ \E q \in Queries : Answer(q)
    \/ \E Q \in SUBSET Queries : Lose(Q)

Spec == Init /\ [][Next]_absVars

\* Every query is answered in the end, unless it is lost.
Ending(q) == Answer(q) \/ \E Q \in SUBSET Queries : q \in Q /\ Lose(Q)

FairSpec == Spec /\ \A q \in Queries : WF_absVars(Ending(q))
=============================================================================
