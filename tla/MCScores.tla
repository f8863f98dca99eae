------------------------------- MODULE MCScores -------------------------------
(***************************************************************************)
(* Scores on small files: two classes, info files of one to three          *)
(* attributes, probabilities that differ from one another so that a value  *)
(* in the wrong place changes a score, and so close that either class may  *)
(* be the best for a row.  The files of one attribute make data items of   *)
(* every size that fits the slots.                                         *)
(***************************************************************************)
EXTENDS Scores

MCClassProb(c) == 1000 + 12 * c

MCCondProb(c, a, v) == 100 * a + IF c = 0 THEN 11 * v ELSE 41 - 14 * v

\* The files given are the ones the provider has built in, or it has others.
MCGiven(a) == a
MCOther(a) == <<2, 1>>

MCAttrChoices ==
    {<<2>>, <<1, 2>>, <<3, 1>>, <<2, 2>>, <<2, 1, 2>>, <<5, 2>>}
        \cup {<<v>> : v \in 1 .. NumSlots - 1}
=============================================================================
