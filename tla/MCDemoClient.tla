----------------------------- MODULE MCDemoClient -----------------------------
(***************************************************************************)
(* DemoClient on small files: three classes, rows with different best      *)
(* classes and one with a tie, two permutations that differ everywhere.    *)
(***************************************************************************)
EXTENDS DemoClient

Three(a, b, c) == [x \in 0 .. 2 |-> IF x = 0 THEN a ELSE IF x = 1 THEN b ELSE c]

MCPermVecs == {Three(1, 2, 0), Three(2, 0, 1)}

\* With one that is its own inverse.
MCMorePermVecs == MCPermVecs \cup {Three(0, 2, 1)}

MCRowScore ==
    [r \in 1 .. 6 |->
        CASE r = 1 -> Three(5, 1, 2)
          [] r = 2 -> Three(0, 4, 4)
          [] r = 3 -> Three(1, 2, 5)
          [] OTHER -> Three(2, 3, 1)]

\* Emptied, and longer than the permutations of the largest file with an element
\* that is no index.
MCTornVectors == {<<>>, <<2, 77, 1, 0, 2>>}
=============================================================================
