------------------------------ MODULE MCKeyFiles ------------------------------
(***************************************************************************)
(* KeyFiles on a small instance: two peers, three starts.                  *)
(***************************************************************************)
EXTENDS KeyFiles

CONSTANTS p1, p2

MCDefaults == [k \in Keys |-> IF k = "fheP" THEN 2 ELSE 3]

\* Both parameters, the first of them twice.
Complete == << <<"fheP", 3>>, <<"fheR", 2>>, <<"fheP", 2>> >>

\* fheR is left out.
Partial == << <<"fheP", 2>> >>

MCFiles == {Complete, Partial, NoConfig}

MCPartial == {Partial, NoConfig}
=============================================================================
