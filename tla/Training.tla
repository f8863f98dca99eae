------------------------------- MODULE Training -------------------------------
(***************************************************************************)
(* train.py: from labelled rows to the integer model the system encrypts.  *)
(* Rows are grouped by label, values are counted per class and attribute,  *)
(* and the logarithm of a frequency is lifted, scaled and truncated to an  *)
(* integer.  The model file is written class by class in the order of the  *)
(* info file.                                                              *)
(*                                                                         *)
(* Rows come in blocks of equal rows.  Numbers are in thousandths where    *)
(* the program has floats.                                                 *)
(***************************************************************************)
EXTENDS Integers, SequencesExt, FiniteSetsExt

CONSTANTS
    Labels,             \* labels rows may have
    ClassNames,         \* classes of the info file, in its order
    AttrValues,         \* attribute -> its values, in the order of the info file
    Blocks,             \* blocks of rows: [row, label, times]
    MaxBlocks,          \* bound on the blocks of a training file
    N,                  \* the scale the user types in
    Lift,               \* c: -int(log(3.7e-4) * 10)
    Log(_)              \* ten times the logarithm, in thousandths

ASSUME TrainAssumption ==
    /\ N \in Nat \ {0} /\ Lift \in Nat \ {0}
    /\ Len(ClassNames) \in Nat /\ DOMAIN ClassNames = 1 .. Len(ClassNames)
    /\ Len(AttrValues) \in Nat /\ DOMAIN AttrValues = 1 .. Len(AttrValues)
    /\ \A b \in Blocks :
          /\ b.label \in Labels /\ b.times \in Nat \ {0}
          /\ DOMAIN b.row = DOMAIN AttrValues

VARIABLES
    pc,
    train,          \* blocks loaded so far
    todo,           \* labels still to train, in the order they first occurred
    class_prob,     \* label -> integer probability
    cond_prob,      \* label -> attribute -> value -> integer probability
    written         \* lines of the model file

trainVars == <<pc, train, todo, class_prob, cond_prob, written>>

Attrs == DOMAIN AttrValues
ValuesOf(a) == {AttrValues[a][j] : j \in DOMAIN AttrValues[a]}

RowsWhere(P(_)) ==
    SumFunction([j \in DOMAIN train |-> IF P(train[j]) THEN train[j].times ELSE 0])

\* Rows of a label, and those among them with a value.
RowsOf(l) == RowsWhere(LAMBDA b : b.label = l)
Count(l, a, v) == RowsWhere(LAMBDA b : b.label = l /\ b.row[a] = v)

\* int() cuts towards zero.
Truncate(num, den) == IF num >= 0 THEN num \div den ELSE -((-num) \div den)

\* Mutant: the lift is forgotten.
ScaledUnlifted(k, n) == Truncate((Log(k) - Log(n)) * N, Lift * 1000)

Scaled(k, n) == Truncate((Log(k) - Log(n) + Lift * 1000) * N, Lift * 1000)

Init ==
    /\ pc = "load"
    /\ train = <<>> /\ todo = <<>>
    /\ class_prob = [l \in {} |-> 0]
    /\ cond_prob = [l \in {} |-> <<>>]
    /\ written = <<>>

LoadRows ==
    /\ pc = "load" /\ Len(train) < MaxBlocks
    /\ \E b \in Blocks :
         /\ train' = Append(train, b)
         /\ todo' = IF Contains(todo, b.label) THEN todo ELSE Append(todo, b.label)
    /\ UNCHANGED <<pc, class_prob, cond_prob, written>>

\* Class probabilities of all labels that occur.
ClassProbs ==
    /\ pc = "load" /\ train # <<>>
    /\ class_prob' = [l \in ToSet(todo) |->
                         Scaled(RowsOf(l), RowsWhere(LAMBDA b : TRUE))]
    /\ pc' = "train"
    /\ UNCHANGED <<train, todo, cond_prob, written>>

\* Mutant: an attribute's values are counted over the rows of all labels.
CondProbsAll(l) ==
    [a \in Attrs |-> [v \in ValuesOf(a) |->
        LET k == RowsWhere(LAMBDA b : b.row[a] = v)
        IN IF k > 0 THEN Scaled(k, RowsOf(l)) ELSE 0]]

\* Mutant: a value the label never has is left out.
CondProbsSeen(l) ==
    [a \in Attrs |-> [v \in {w \in ValuesOf(a) : Count(l, a, w) > 0} |->
        Scaled(Count(l, a, v), RowsOf(l))]]

\* Conditional probabilities of one label: 0 for a value it never has.  A line of
\* the info file lists a value once: the script would scale a repeated one twice.
CondProbs(l) ==
    [a \in Attrs |-> [v \in ValuesOf(a) |->
        LET k == Count(l, a, v) IN IF k > 0 THEN Scaled(k, RowsOf(l)) ELSE 0]]

TrainClass ==
    /\ pc = "train" /\ todo # <<>>
    /\ LET l == Head(todo) IN
         cond_prob' = [x \in DOMAIN cond_prob \cup {l} |->
                          IF x = l THEN CondProbs(l) ELSE cond_prob[x]]
    /\ todo' = Tail(todo)
    /\ UNCHANGED <<pc, train, class_prob, written>>

\* The lines of the model file: the class probabilities, then for each class an
\* empty line and a line per attribute with its values in info order.
NumLines == 1 + Len(ClassNames) * (Len(AttrValues) + 1)

\* What is looked up for line m, and what the line is when all of it is found.
Found(m) ==
    LET c == ClassNames[(m - 2) \div (Len(AttrValues) + 1) + 1]
        a == (m - 2) % (Len(AttrValues) + 1)
    IN IF m = 1 THEN ToSet(ClassNames) \subseteq DOMAIN class_prob
       ELSE c \in DOMAIN cond_prob /\ (a > 0 => ValuesOf(a) \subseteq DOMAIN cond_prob[c][a])

LineOf(m) ==
    LET c == ClassNames[(m - 2) \div (Len(AttrValues) + 1) + 1]
        a == (m - 2) % (Len(AttrValues) + 1)
    IN IF m = 1 THEN [j \in DOMAIN ClassNames |-> class_prob[ClassNames[j]]]
       ELSE IF a = 0 THEN <<>>
       ELSE [j \in DOMAIN AttrValues[a] |-> cond_prob[c][a][AttrValues[a][j]]]

\* The script ends at a line for which a key is not found, with the ones before it
\* in the file.
WriteLine ==
    /\ pc = "train" /\ todo = <<>>
    /\ LET m == Len(written) + 1 IN
         \/ /\ m <= NumLines /\ Found(m)
            /\ written' = Append(written, LineOf(m))
            /\ UNCHANGED pc
         \/ /\ m <= NumLines /\ ~Found(m)
            /\ pc' = "failed"
            /\ UNCHANGED written
         \/ /\ m > NumLines
            /\ pc' = "done"
            /\ UNCHANGED written
    /\ UNCHANGED <<train, todo, class_prob, cond_prob>>

Ended == pc \in {"done", "failed"}

Next ==
    \/ LoadRows \/ ClassProbs \/ TrainClass \/ WriteLine
    \/ (Ended /\ UNCHANGED trainVars)

Spec == Init /\ [][Next]_trainVars

-----------------------------------------------------------------------------
\* The number the model file has for a value: line and column as the model
\* provider counts them.
Line(c) == (c - 1) * (Len(AttrValues) + 1) + 2
Written(c, a, j) == written[Line(c) + a][j]

\* No frequency of the file is so small that the lift leaves its logarithm
\* negative: none is below 3.7e-4.
LiftSuffices ==
    LET Above(k, n) == k > 0 => Log(k) - Log(n) + Lift * 1000 >= 0
        all == RowsWhere(LAMBDA b : TRUE)
    IN \A l \in DOMAIN class_prob :
          /\ Above(RowsOf(l), all)
          /\ \A a \in Attrs : \A v \in ValuesOf(a) : Above(Count(l, a, v), RowsOf(l))

\* Within a class, a value that occurs more often than another never stands in
\* the model file with a smaller number, whether it occurs at all or not: the
\* truncation, the lift and the 0 of a value that never occurs keep the order of
\* frequencies, across the layout of the file, if the lift suffices.
FrequencyOrder ==
    pc = "done" /\ LiftSuffices =>
        \A c \in DOMAIN ClassNames, a \in Attrs :
            \A j, h \in DOMAIN AttrValues[a] :
                LET l == ClassNames[c]
                IN  Count(l, a, AttrValues[a][j]) >= Count(l, a, AttrValues[a][h])
                        => Written(c, a, j) >= Written(c, a, h)

\* The numbers of the model file are integers from 0 to N, as the script tells its
\* user, if the lift suffices: truncation puts none outside at either end.
ZeroToN ==
    LiftSuffices => \A j \in DOMAIN written : \A h \in DOMAIN written[j] : written[j][h] \in 0 .. N

\* A training file that does not fit the info file ends the script, but never with
\* a part of the model written: whatever labels and values the rows have, the file
\* it leaves is whole, or has no line that the model provider could read.  (Rows
\* have a value for every attribute: TrainAssumption.)
WholeModelOrNone ==
    Ended => Len(written) \in {0, NumLines}
=============================================================================
