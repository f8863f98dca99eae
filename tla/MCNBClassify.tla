----------------------------- MODULE MCNBClassify -----------------------------
(***************************************************************************)
(* NBClassify on a small instance: two clients, the first with two queries *)
(* of one and two data items, three classes with ties among the scores,    *)
(* and permutations that move every class.                                 *)
(***************************************************************************)
EXTENDS Outages

CONSTANTS c1, c2, q1, q2, q3

\* Scores of the three classes, 0 .. 3, so that twice a difference stays below
\* half of a modulus of 16.
Row(a, b, c) == [x \in 0 .. 2 |-> IF x = 0 THEN a ELSE IF x = 1 THEN b ELSE c]

MCScore ==
    [q \in Queries |->
        CASE q = q1 -> [k \in Slots |-> Row(3, 1, 2)]
          [] q = q2 -> [k \in Slots |-> IF k = 1 THEN Row(0, 3, 3) ELSE Row(2, 0, 1)]
          [] OTHER -> [k \in Slots |-> Row(1, 2, 0)]]

MCUnit == [q \in Queries |-> IF q = q2 THEN 2 ELSE 1]

MCOwner == [q \in Queries |-> IF q = q3 THEN c2 ELSE c1]

MCPermVecs == {Row(0, 1, 2), Row(2, 0, 1), Row(1, 2, 0)}

\* No two queries of a client draw the same permutation.
MCDraws ==
    [q \in Queries |->
        IF q = q2 THEN {Row(1, 2, 0)} ELSE {Row(2, 0, 1)}]
=============================================================================
