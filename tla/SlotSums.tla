------------------------------- MODULE SlotSums -------------------------------
(***************************************************************************)
(* modifiedTotalSums: the computation server turns a ciphertext whose      *)
(* slots hold products of probabilities and inputs into one whose slot s   *)
(* holds the sum of the n slots that end at s, with as many rotations as n *)
(* has bits.  n is the number of probabilities per data item, and the last *)
(* slot of each item's block then holds the item's score.  The loop is in  *)
(* the builds with USE_MULTI or USE_SINGLE_OPT.                            *)
(*                                                                         *)
(* Rotation and addition are linear, so a ciphertext is a formal sum of    *)
(* the slots it started from: ctxt[s][t] says how many times slot s counts *)
(* the original slot t.  What holds of formal sums holds of all contents.  *)
(***************************************************************************)
EXTENDS Integers

CONSTANT NumSlots       \* slots of a ciphertext

SlotIds == 0 .. NumSlots - 1

\* Two facts of arithmetic are stated for the numbers a ciphertext's slots need:
\* a power of two doubles from one exponent to the next, and a number lies
\* between two of them.  TLC evaluates them, the proofs use them.
ASSUME SlotAssumption ==
    /\ NumSlots \in Nat \ {0}
    /\ \A j \in 0 .. NumSlots : 2^j \in Nat \ {0} /\ 2^(j + 1) = 2 * 2^j
    /\ \A m \in 1 .. NumSlots : \E k \in 1 .. NumSlots : 2^(k - 1) <= m /\ m < 2^k

VARIABLES
    n,          \* slots to sum
    i,          \* index of the bit of n the loop is at
    e,          \* slots summed so far
    ctxt

slotVars == <<n, i, e, ctxt>>

FormalSums == [SlotIds -> [SlotIds -> Nat]]

orig == [s \in SlotIds |-> [t \in SlotIds |-> IF s = t THEN 1 ELSE 0]]

\* The array as a cycle: slot s receives what stands "by" slots before it.
Rotate(c, by) == [s \in SlotIds |-> c[(s - by) % NumSlots]]

Plus(c, d) == [s \in SlotIds |-> [t \in SlotIds |-> c[s][t] + d[s][t]]]

Bit(m, j) == (m \div 2^j) % 2

NumBits(m) == CHOOSE k \in 1 .. NumSlots : 2^(k - 1) <= m /\ m < 2^k

-----------------------------------------------------------------------------
\* For n = 1 the code returns at once; the loop would make no turn either.
SumsInit ==
    /\ n \in 1 .. NumSlots
    /\ i = NumBits(n) - 2
    /\ e = 1
    /\ ctxt = orig

\* Mutant: it is the original that is rotated.
DoubledByOrig == Plus(ctxt, Rotate(orig, e))

Doubled == Plus(ctxt, Rotate(ctxt, e))

\* Mutant: the odd slot is taken one rotation short.
TurnRotatesByOld ==
    /\ i >= 0
    /\ \/ /\ Bit(n, i) = 0
          /\ ctxt' = Doubled
          /\ e' = 2 * e
       \/ /\ Bit(n, i) = 1
          /\ ctxt' = Plus(Doubled, Rotate(orig, e))
          /\ e' = 2 * e + 1
    /\ i' = i - 1
    /\ UNCHANGED n

\* Mutant: the odd slot is added whatever the bit is.
TurnAlwaysOdd ==
    /\ i >= 0
    /\ ctxt' = Plus(Doubled, Rotate(orig, 2 * e))
    /\ e' = 2 * e + 1
    /\ i' = i - 1
    /\ UNCHANGED n

\* One turn of the loop: twice as many slots, and one more where n has a bit.
Turn ==
    /\ i >= 0
    /\ \/ /\ Bit(n, i) = 0
          /\ ctxt' = Doubled
          /\ e' = 2 * e
       \/ /\ Bit(n, i) = 1
          /\ ctxt' = Plus(Doubled, Rotate(orig, 2 * e))
          /\ e' = 2 * e + 1
    /\ i' = i - 1
    /\ UNCHANGED n

Done == i < 0

SumsNext == Turn \/ (Done /\ UNCHANGED slotVars)

SumsSpec == SumsInit /\ [][SumsNext]_slotVars

-----------------------------------------------------------------------------
SumsTypeOK ==
    /\ n \in 1 .. NumSlots
    /\ i \in -1 .. NumSlots
    /\ e \in 1 .. NumSlots
    /\ ctxt \in FormalSums

\* The loop invariant of modifiedTotalSums: e is what the bits of n above i
\* spell, and each slot counts each of the e slots that end at it exactly once,
\* around the cycle, and no other.
WindowSums ==
    /\ e = n \div 2^(i + 1)
    /\ \A s, t \in SlotIds :
          ctxt[s][t] = IF (s - t) % NumSlots < e THEN 1 ELSE 0

\* When the loop ends, the slot that the authority reads for data item k, the
\* last of the item's block, counts the slots of that block and no slot of
\* another item: blocks do not leak into each other, for every block size and
\* every number of items that fit.
BlocksSeparate ==
    Done => \A k \in 1 .. NumSlots \div n : \A t \in SlotIds :
        ctxt[n * k - 1][t] = IF t \in n * (k - 1) .. n * k - 1 THEN 1 ELSE 0
=============================================================================
