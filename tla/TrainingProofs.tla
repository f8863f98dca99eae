---------------------------- MODULE TrainingProofs ----------------------------
(***************************************************************************)
(* Proofs about train.py: what the model file holds, for any rows, classes *)
(* and attributes, any scale and any lift.                                 *)
(***************************************************************************)
EXTENDS Training, DataTheorems

\* The labels of the rows loaded so far.
Seen == {train[j].label : j \in DOMAIN train}

AllRows == RowsWhere(LAMBDA b : TRUE)

TypeInv ==
    /\ pc \in {"load", "train", "done", "failed"}
    /\ train \in Seq(Blocks)
    /\ todo \in Seq(Labels)

\* While rows are loaded nothing else has been made; then todo and cond_prob share
\* the labels seen, and the lines written are those the script looks up.
PhaseInv ==
    /\ pc = "load" => /\ ToSet(todo) = Seen /\ written = <<>>
                      /\ DOMAIN cond_prob = {}
    /\ pc # "load" => /\ class_prob = [l \in Seen |-> Scaled(RowsOf(l), AllRows)]
                      /\ DOMAIN cond_prob \cup ToSet(todo) = Seen
    /\ \A l \in DOMAIN cond_prob : cond_prob[l] = CondProbs(l)
    /\ written # <<>> \/ pc = "done" => todo = <<>>

LinesInv ==
    /\ Len(written) \in 0 .. NumLines
    /\ \E Lines : written \in Seq(Lines)
    /\ \A m \in 1 .. Len(written) : Found(m) /\ written[m] = LineOf(m)
    /\ pc = "done" => Len(written) = NumLines
    /\ pc = "failed" => written = <<>>

TrainInv == TypeInv /\ PhaseInv /\ LinesInv

LEMMA NumLinesNat == NumLines \in Nat \ {0} /\ Len(AttrValues) + 1 \in Nat \ {0}
  BY TrainAssumption DEF NumLines

LEMMA InitTrain == Init => TrainInv
  <1> SUFFICES ASSUME Init PROVE TrainInv
    OBVIOUS
  <1>1. TypeInv
    BY DEF Init, TypeInv
  <1>2. PhaseInv
    BY DEF Init, PhaseInv, ToSet, Seen
  <1>3. LinesInv
    BY NumLinesNat DEF Init, LinesInv
  <1> QED BY <1>1, <1>2, <1>3 DEF TrainInv

\* What depends on the rows only.
LEMMA SameRows ==
    ASSUME train' = train
    PROVE  /\ Seen' = Seen /\ AllRows' = AllRows
           /\ \A l : RowsOf(l)' = RowsOf(l)
           /\ \A l : CondProbs(l)' = CondProbs(l)
  BY DEF Seen, AllRows, RowsOf, RowsWhere, CondProbs, Count

\* The place of a line after the first in the file: class and attribute.
LEMMA LinePlace ==
    ASSUME NEW m \in 2 .. NumLines
    PROVE  /\ (m - 2) \div (Len(AttrValues) + 1) + 1 \in DOMAIN ClassNames
           /\ (m - 2) % (Len(AttrValues) + 1) \in 0 .. Len(AttrValues)
  <1> DEFINE d == Len(AttrValues) + 1
             x == m - 2
             z == Len(ClassNames)
  <1>1. d \in Nat \ {0} /\ z \in Nat /\ x \in Nat /\ x < z * d
    <2>1. d \in Nat \ {0} /\ z \in Nat
      BY TrainAssumption
    <2>2. NumLines = 1 + z * d
      BY DEF NumLines
    <2> HIDE DEF z, d
    <2>3. z * d \in Nat
      BY <2>1
    <2> QED BY <2>1, <2>2, <2>3
  <1> HIDE DEF d, x, z
  <1>2. x \div d \in 0 .. z - 1 /\ x % d \in 0 .. d - 1
    BY <1>1, DivBelow
  <1>3. x \div d + 1 \in 1 .. z
    BY <1>1, <1>2
  <1>4. DOMAIN ClassNames = 1 .. z
    BY TrainAssumption DEF z
  <1>5. d - 1 = Len(AttrValues)
    BY TrainAssumption DEF d
  <1> QED BY <1>2, <1>3, <1>4, <1>5 DEF d, x

\* Once the first line is found, all others are.
LEMMA AllFound ==
    ASSUME TrainInv, pc = "train", todo = <<>>, Found(1), NEW m \in 2 .. NumLines
    PROVE  Found(m)
  <1> DEFINE c == ClassNames[(m - 2) \div (Len(AttrValues) + 1) + 1]
             a == (m - 2) % (Len(AttrValues) + 1)
  <1>1. c \in ToSet(ClassNames) /\ a \in 0 .. Len(AttrValues)
    BY LinePlace DEF ToSet
  <1>2. ToSet(ClassNames) \subseteq DOMAIN class_prob
    BY DEF Found
  <1>3. ToSet(todo) = {}
    BY DEF ToSet
  <1>4. DOMAIN cond_prob = DOMAIN class_prob
    BY <1>3 DEF TrainInv, PhaseInv
  <1>5. c \in DOMAIN cond_prob /\ cond_prob[c] = CondProbs(c)
    BY <1>1, <1>2, <1>4 DEF TrainInv, PhaseInv
  <1>6. ASSUME a > 0 PROVE ValuesOf(a) \subseteq DOMAIN cond_prob[c][a]
    <2>1. a \in Attrs
      BY <1>1, <1>6, TrainAssumption DEF Attrs
    <2> QED BY <1>5, <2>1 DEF CondProbs
  <1>7. m # 1
    OBVIOUS
  <1> QED BY <1>5, <1>6, <1>7 DEF Found

LEMMA NextTrain == TrainInv /\ [Next]_trainVars => TrainInv'
  <1> SUFFICES ASSUME TrainInv, [Next]_trainVars PROVE TrainInv'
    OBVIOUS
  <1>0. TypeInv /\ PhaseInv /\ LinesInv
    BY DEF TrainInv
  <1>1. CASE LoadRows
    <2>1. PICK b \in Blocks :
            /\ train' = Append(train, b)
            /\ todo' = IF Contains(todo, b.label) THEN todo ELSE Append(todo, b.label)
      BY <1>1 DEF LoadRows
    <2>2. pc = "load" /\ UNCHANGED <<pc, class_prob, cond_prob, written>>
      BY <1>1 DEF LoadRows
    <2>3. train \in Seq(Blocks) /\ todo \in Seq(Labels) /\ b.label \in Labels
      BY <1>0, TrainAssumption DEF TypeInv
    <2>4. TypeInv'
      BY <1>0, <2>1, <2>2, <2>3 DEF TypeInv
    <2>5. Seen' = Seen \cup {b.label}
      <3>1. train' \in Seq(Blocks) /\ Len(train') = Len(train) + 1
            /\ train'[Len(train) + 1] = b
            /\ \A j \in 1 .. Len(train) : train'[j] = train[j]
        BY <2>1, <2>3
      <3>2. DOMAIN train' = DOMAIN train \cup {Len(train) + 1}
        BY <2>3, <3>1
      <3> QED BY <2>3, <3>1, <3>2 DEF Seen
    <2>6. ToSet(todo') = ToSet(todo) \cup {b.label}
      <3>1. CASE Contains(todo, b.label)
        BY <2>1, <2>3, <3>1 DEF Contains, ToSet
      <3>2. CASE ~Contains(todo, b.label)
        <4>1. todo' = Append(todo, b.label)
          BY <2>1, <3>2
        <4>2. todo' \in Seq(Labels) /\ Len(todo') = Len(todo) + 1
              /\ todo'[Len(todo) + 1] = b.label
              /\ \A j \in 1 .. Len(todo) : todo'[j] = todo[j]
          BY <2>3, <4>1
        <4>3. DOMAIN todo' = DOMAIN todo \cup {Len(todo) + 1}
          BY <2>3, <4>2
        <4> QED BY <2>3, <4>2, <4>3 DEF ToSet
      <3> QED BY <3>1, <3>2
    <2>7. PhaseInv'
      BY <1>0, <2>2, <2>5, <2>6 DEF PhaseInv
    <2>8. LinesInv'
      BY <1>0, <2>2 DEF LinesInv, PhaseInv
    <2> QED BY <2>4, <2>7, <2>8 DEF TrainInv
  <1>2. CASE ClassProbs
    <2>1. /\ pc = "load" /\ pc' = "train"
          /\ class_prob' = [l \in ToSet(todo) |-> Scaled(RowsOf(l), AllRows)]
          /\ UNCHANGED <<train, todo, cond_prob, written>>
      BY <1>2 DEF ClassProbs, AllRows
    <2>2. TypeInv'
      BY <1>0, <2>1 DEF TypeInv
    <2>3. PhaseInv'
      <3>1. ToSet(todo) = Seen /\ DOMAIN cond_prob = {} /\ written = <<>>
        BY <1>0, <2>1 DEF PhaseInv
      <3>2. class_prob' = [l \in Seen |-> Scaled(RowsOf(l), AllRows)]
        BY <2>1, <3>1
      <3>3. class_prob' = [l \in Seen' |-> Scaled(RowsOf(l)', AllRows')]
        BY <2>1, <3>2, SameRows
      <3> QED BY <2>1, <3>1, <3>3, SameRows DEF PhaseInv, Scaled
    <2>4. LinesInv'
      BY <1>0, <2>1 DEF LinesInv, PhaseInv
    <2> QED BY <2>2, <2>3, <2>4 DEF TrainInv
  <1>3. CASE TrainClass
    <2> DEFINE l == Head(todo)
    <2>1. /\ pc = "train" /\ todo # <<>> /\ todo' = Tail(todo)
          /\ DOMAIN cond_prob' = DOMAIN cond_prob \cup {l}
          /\ \A x \in DOMAIN cond_prob' :
                cond_prob'[x] = IF x = l THEN CondProbs(l) ELSE cond_prob[x]
          /\ UNCHANGED <<pc, train, class_prob, written>>
      BY <1>3 DEF TrainClass
    <2>2. TypeInv'
      BY <1>0, <2>1 DEF TypeInv
    <2>3. ToSet(todo) = ToSet(todo') \cup {l}
      <3>1. /\ todo \in Seq(Labels) /\ todo # <<>>
            /\ todo' \in Seq(Labels) /\ Len(todo') = Len(todo) - 1
            /\ l = todo[1]
            /\ \A j \in 1 .. Len(todo') : todo'[j] = todo[j + 1]
            /\ Len(todo) \in Nat \ {0}
        BY <1>0, <2>1 DEF TypeInv
      <3>2. ASSUME NEW x \in ToSet(todo)
            PROVE  x \in ToSet(todo') \cup {l}
        <4>1. PICK j \in 1 .. Len(todo) : x = todo[j]
          BY <3>1 DEF ToSet
        <4>2. CASE j = 1
          BY <3>1, <4>1, <4>2
        <4>3. CASE j # 1
          <5>1. j - 1 \in 1 .. Len(todo') /\ todo'[j - 1] = x
            BY <3>1, <4>1, <4>3
          <5> QED BY <3>1, <5>1 DEF ToSet
        <4> QED BY <4>2, <4>3
      <3>3. ASSUME NEW x \in ToSet(todo')
            PROVE  x \in ToSet(todo)
        <4>1. PICK j \in 1 .. Len(todo') : x = todo'[j]
          BY <3>1 DEF ToSet
        <4>2. j + 1 \in 1 .. Len(todo) /\ x = todo[j + 1]
          BY <3>1, <4>1
        <4> QED BY <3>1, <4>2 DEF ToSet
      <3>4. l \in ToSet(todo)
        BY <3>1 DEF ToSet
      <3> QED BY <3>2, <3>3, <3>4
    <2>4. PhaseInv'
      <3>1. \A x \in DOMAIN cond_prob' : cond_prob'[x] = CondProbs(x)'
        BY <1>0, <2>1, SameRows DEF PhaseInv
      <3>2. class_prob' = [x \in Seen' |-> Scaled(RowsOf(x)', AllRows')]
        BY <1>0, <2>1, SameRows DEF PhaseInv
      <3>3. DOMAIN cond_prob' \cup ToSet(todo') = Seen'
        BY <1>0, <2>1, <2>3, SameRows DEF PhaseInv
      <3>4. written' = <<>>
        BY <1>0, <2>1 DEF PhaseInv
      <3> QED BY <2>1, <3>1, <3>2, <3>3, <3>4 DEF PhaseInv, Scaled
    <2>5. LinesInv'
      BY <1>0, <2>1 DEF LinesInv, PhaseInv
    <2> QED BY <2>2, <2>4, <2>5 DEF TrainInv
  <1>4. CASE WriteLine
    <2> DEFINE m == Len(written) + 1
    <2>1. /\ pc = "train" /\ todo = <<>>
          /\ UNCHANGED <<train, todo, class_prob, cond_prob>>
          /\ \/ m <= NumLines /\ Found(m) /\ written' = Append(written, LineOf(m)) /\ pc' = pc
             \/ m <= NumLines /\ ~Found(m) /\ pc' = "failed" /\ written' = written
             \/ m > NumLines /\ pc' = "done" /\ written' = written
      BY <1>4 DEF WriteLine
    <2>2. TypeInv'
      BY <1>0, <2>1 DEF TypeInv
    <2>3. PhaseInv'
      <3>1. pc' # "load"
        BY <2>1
      <3>2. class_prob' = [x \in Seen' |-> Scaled(RowsOf(x)', AllRows')]
        BY <1>0, <2>1, SameRows DEF PhaseInv
      <3>3. \A x \in DOMAIN cond_prob' : cond_prob'[x] = CondProbs(x)'
        BY <1>0, <2>1, SameRows DEF PhaseInv
      <3> QED BY <1>0, <2>1, <3>1, <3>2, <3>3, SameRows DEF PhaseInv, Scaled
    <2>4. \A j : Found(j)' = Found(j) /\ LineOf(j)' = LineOf(j)
      BY <2>1 DEF Found, LineOf
    <2>5. m \in Nat \ {0} /\ NumLines \in Nat \ {0} /\ Len(written) \in 0 .. NumLines
      <3>1. Len(written) \in 0 .. NumLines
        BY <1>0 DEF LinesInv
      <3> QED BY <3>1, NumLinesNat
    <2>9. PICK Lines : written \in Seq(Lines)
      BY <1>0 DEF LinesInv
    <2>6. CASE m <= NumLines /\ Found(m) /\ written' = Append(written, LineOf(m)) /\ pc' = pc
      <3> DEFINE line == LineOf(m)
      <3>0. Found(m) /\ written' = Append(written, line)
        BY <2>6
      <3> HIDE DEF line
      <3>1. /\ written' \in Seq(Lines \cup {line})
            /\ Len(written') = m /\ written'[m] = line
            /\ \A j \in 1 .. Len(written) : written'[j] = written[j]
        BY <2>9, <3>0
      <3>2. ASSUME NEW j \in 1 .. m PROVE Found(j) /\ written'[j] = LineOf(j)
        <4>1. CASE j = m
          BY <3>0, <3>1, <4>1 DEF line
        <4>2. CASE j # m
          <5>1. j \in 1 .. Len(written)
            BY <2>5, <4>2
          <5> QED BY <1>0, <3>1, <5>1 DEF LinesInv
        <4> QED BY <4>1, <4>2
      <3> QED BY <2>1, <2>2, <2>3, <2>4, <2>5, <2>6, <3>1, <3>2 DEF TrainInv, LinesInv
    <2>7. CASE m <= NumLines /\ ~Found(m) /\ pc' = "failed" /\ written' = written
      <3>1. Len(written) = 0
        <4> SUFFICES ASSUME Len(written) # 0 PROVE FALSE
          OBVIOUS
        <4>1. 1 \in 1 .. Len(written) /\ m \in 2 .. NumLines
          BY <2>5, <2>7
        <4>2. Found(1)
          BY <1>0, <4>1 DEF LinesInv
        <4> QED BY <2>1, <2>7, <4>1, <4>2, AllFound
      <3>2. written = <<>>
        BY <1>0, <3>1 DEF LinesInv
      <3>3. LinesInv'
        BY <1>0, <2>5, <2>7, <3>2 DEF LinesInv
      <3> QED BY <2>2, <2>3, <3>3 DEF TrainInv
    <2>8. CASE m > NumLines /\ pc' = "done" /\ written' = written
      <3>1. Len(written) = NumLines
        BY <2>5, <2>8
      <3>2. LinesInv'
        BY <1>0, <2>4, <2>8, <3>1 DEF LinesInv
      <3> QED BY <2>2, <2>3, <3>2 DEF TrainInv
    <2> QED BY <2>1, <2>6, <2>7, <2>8
  <1>5. CASE UNCHANGED trainVars
    <2>1. UNCHANGED <<pc, train, todo, class_prob, cond_prob, written>>
      BY <1>5 DEF trainVars
    <2>2. TypeInv'
      BY <1>0, <2>1 DEF TypeInv
    <2>3. PhaseInv'
      <3>1. class_prob' = class_prob /\ cond_prob' = cond_prob /\ todo' = todo
        BY <2>1
      <3>2. pc # "load" => class_prob' = [l \in Seen' |-> Scaled(RowsOf(l)', AllRows')]
        BY <1>0, <2>1, SameRows DEF PhaseInv
      <3>3. \A x \in DOMAIN cond_prob' : cond_prob'[x] = CondProbs(x)'
        BY <1>0, <2>1, SameRows DEF PhaseInv
      <3> QED BY <1>0, <2>1, <3>2, <3>3, SameRows DEF PhaseInv, Scaled
    <2>4. \A j : Found(j)' = Found(j) /\ LineOf(j)' = LineOf(j)
      BY <2>1 DEF Found, LineOf
    <2>5. LinesInv'
      BY <1>0, <2>1, <2>4 DEF LinesInv
    <2> QED BY <2>2, <2>3, <2>5 DEF TrainInv
  <1> QED BY <1>1, <1>2, <1>3, <1>4, <1>5 DEF Next

LEMMA TrainAlways == Spec => []TrainInv
  BY InitTrain, NextTrain, PTL DEF Spec

\* The script leaves a whole model file or none that could be read, for any rows,
\* labels, classes and attributes.
THEOREM WholeModelOrNoneCorrect == Spec => []WholeModelOrNone
  <1>1. TrainInv => WholeModelOrNone
    BY DEF TrainInv, LinesInv, WholeModelOrNone, Ended
  <1> QED BY <1>1, TrainAlways, PTL

-----------------------------------------------------------------------------
(* The numbers of the model file.                                            *)

\* What is used of the logarithm: it is a number and grows with its argument.
LogGrows ==
    \A j, k \in Nat \ {0} : Log(j) \in Int /\ (j <= k => Log(j) <= Log(k))

LEMMA LiftScale == Lift * 1000 \in Nat \ {0}
  <1>1. Lift \in Nat \ {0}
    BY TrainAssumption
  <1> QED BY <1>1

\* A frequency that the lift brings to 0 or above is scaled to 0 .. N.
LEMMA ScaledRange ==
    ASSUME LogGrows, NEW k \in Nat \ {0}, NEW n \in Nat \ {0}, k <= n,
           Log(k) - Log(n) + Lift * 1000 >= 0
    PROVE  Scaled(k, n) \in 0 .. N
  <1> DEFINE d == Lift * 1000
             x == Log(k) - Log(n) + d
  <1>1. d \in Nat \ {0} /\ N \in Nat \ {0}
    BY LiftScale, TrainAssumption
  <1>2. Log(k) \in Int /\ Log(n) \in Int /\ Log(k) <= Log(n)
    BY DEF LogGrows
  <1>3. x \in 0 .. d
    BY <1>1, <1>2
  <1>4. Scaled(k, n) = Truncate(x * N, d)
    BY DEF Scaled
  <1> HIDE DEF d, x
  <1>5. x * N \in Nat /\ (x * N) \div d \in 0 .. N
    BY <1>1, <1>3, ShareBounds
  <1>6. Truncate(x * N, d) = (x * N) \div d
    BY <1>5 DEF Truncate
  <1> QED BY <1>4, <1>5, <1>6

\* The higher frequency is not scaled lower.
LEMMA ScaledMonotone ==
    ASSUME LogGrows, NEW j \in Nat \ {0}, NEW k \in Nat \ {0}, NEW n \in Nat \ {0},
           j <= k, Log(j) - Log(n) + Lift * 1000 >= 0
    PROVE  Scaled(j, n) <= Scaled(k, n)
  <1> DEFINE d == Lift * 1000
             x == Log(j) - Log(n) + d
             y == Log(k) - Log(n) + d
  <1>1. d \in Nat \ {0} /\ N \in Nat \ {0}
    BY LiftScale, TrainAssumption
  <1>2. Log(j) \in Int /\ Log(k) \in Int /\ Log(n) \in Int /\ Log(j) <= Log(k)
    BY DEF LogGrows
  <1>3. x \in Nat /\ y \in Nat /\ x <= y
    BY <1>1, <1>2
  <1>4. Scaled(j, n) = Truncate(x * N, d) /\ Scaled(k, n) = Truncate(y * N, d)
    BY DEF Scaled
  <1> HIDE DEF d, x, y
  <1>5. x * N >= 0 /\ y * N >= 0
    BY <1>1, <1>3
  <1>6. Truncate(x * N, d) = (x * N) \div d /\ Truncate(y * N, d) = (y * N) \div d
    BY <1>5 DEF Truncate
  <1> QED BY <1>1, <1>3, <1>4, <1>6, ShareMonotone

\* Rows with a label and a value are some of the rows with the label, and these
\* are some of all rows; a label that was seen has a row.
LEMMA Frequencies ==
    ASSUME TypeInv, NEW l \in Seen
    PROVE  /\ AllRows \in Nat \ {0} /\ RowsOf(l) \in Nat \ {0} /\ RowsOf(l) <= AllRows
           /\ \A a, v : Count(l, a, v) \in Nat /\ Count(l, a, v) <= RowsOf(l)
  <1> DEFINE D == DOMAIN train
             all == [j \in D |-> train[j].times]
             of == [j \in D |-> IF train[j].label = l THEN train[j].times ELSE 0]
             with(a, v) == [j \in D |-> IF train[j].label = l /\ train[j].row[a] = v
                                        THEN train[j].times ELSE 0]
  <1>1. D = 1 .. Len(train) /\ IsFiniteSet(D) /\ Len(train) \in Nat
    <2>1. D = 1 .. Len(train) /\ Len(train) \in Nat
      BY DEF TypeInv
    <2> QED BY <2>1, FS_Interval
  <1>2. \A j \in D : train[j].times \in Nat \ {0}
    BY <1>1, TrainAssumption DEF TypeInv
  <1>3. /\ AllRows = SumFunctionOnSet(all, D)
        /\ RowsOf(l) = SumFunctionOnSet(of, D)
        /\ \A a, v : Count(l, a, v) = SumFunctionOnSet(with(a, v), D)
    BY DEF AllRows, RowsOf, Count, RowsWhere, SumFunction
  <1>4. /\ \A j \in D : all[j] = train[j].times /\ of[j] \in {0, all[j]}
        /\ \A a, v : \A j \in D : with(a, v)[j] \in {0, of[j]}
    OBVIOUS
  <1>5. \A j \in D : /\ all[j] \in Nat /\ of[j] \in Nat /\ of[j] <= all[j]
                    /\ \A a, v : with(a, v)[j] \in Nat /\ with(a, v)[j] <= of[j]
    BY <1>2, <1>4
  <1>6. PICK j \in D : train[j].label = l
    BY DEF Seen
  <1>7. of[j] \in Nat \ {0}
    BY <1>2, <1>6
  <1> HIDE DEF D, all, of, with
  <1>8. /\ AllRows \in Nat /\ RowsOf(l) \in Nat /\ RowsOf(l) <= AllRows
    BY <1>1, <1>3, <1>5, SumNat, SumMonotone
  <1>9. of[j] <= RowsOf(l)
    BY <1>1, <1>3, <1>5, SumNat
  <1>10. ASSUME NEW a, NEW v
         PROVE  Count(l, a, v) \in Nat /\ Count(l, a, v) <= RowsOf(l)
    <2> DEFINE g == with(a, v)
    <2>1. \A x \in D : g[x] \in Nat /\ g[x] <= of[x] /\ of[x] \in Nat
      BY <1>5
    <2>2. Count(l, a, v) = SumFunctionOnSet(g, D)
      BY <1>3
    <2> HIDE DEF g
    <2>3. SumFunctionOnSet(g, D) \in Nat
      BY <1>1, <2>1, SumNat
    <2>4. SumFunctionOnSet(g, D) <= SumFunctionOnSet(of, D)
      BY <1>1, <2>1, SumMonotone
    <2> QED BY <1>3, <2>2, <2>3, <2>4
  <1> QED BY <1>7, <1>8, <1>9, <1>10

\* Line m of the model file, as it was written, is what was computed for its class
\* and attribute.
LEMMA WrittenLines ==
    ASSUME TrainInv, written # <<>>
    PROVE  /\ pc # "load" /\ ToSet(ClassNames) \subseteq Seen
           /\ DOMAIN written[1] = DOMAIN ClassNames
           /\ \A j \in DOMAIN ClassNames :
                 written[1][j] = Scaled(RowsOf(ClassNames[j]), AllRows)
           /\ \A l \in Seen : l \in DOMAIN cond_prob /\ cond_prob[l] = CondProbs(l)
  <1>0. TypeInv /\ PhaseInv /\ LinesInv
    BY DEF TrainInv
  <1>1. pc # "load" /\ todo = <<>> /\ 1 \in 1 .. Len(written)
    <2>1. Len(written) # 0
      BY <1>0 DEF LinesInv
    <2>2. Len(written) \in Nat
      BY <1>0, NumLinesNat DEF LinesInv
    <2> QED BY <1>0, <2>1, <2>2 DEF PhaseInv
  <1>2. class_prob = [l \in Seen |-> Scaled(RowsOf(l), AllRows)]
    BY <1>0, <1>1 DEF PhaseInv
  <1>3. ToSet(ClassNames) \subseteq Seen
    BY <1>0, <1>1, <1>2 DEF LinesInv, Found
  <1>4. written[1] = [j \in DOMAIN ClassNames |-> class_prob[ClassNames[j]]]
    BY <1>0, <1>1 DEF LinesInv, LineOf
  <1>5. \A j \in DOMAIN ClassNames : ClassNames[j] \in Seen
    BY <1>3 DEF ToSet
  <1>6. DOMAIN cond_prob = Seen
    BY <1>0, <1>1 DEF PhaseInv, ToSet
  <1> QED BY <1>0, <1>1, <1>2, <1>3, <1>4, <1>5, <1>6 DEF PhaseInv

\* A line of an attribute.
LEMMA AttributeLine ==
    ASSUME TrainInv, NEW m \in 2 .. Len(written),
           NEW c \in DOMAIN ClassNames, NEW a \in DOMAIN AttrValues,
           (m - 2) \div (Len(AttrValues) + 1) + 1 = c,
           (m - 2) % (Len(AttrValues) + 1) = a
    PROVE  /\ DOMAIN written[m] = DOMAIN AttrValues[a]
           /\ \A j \in DOMAIN AttrValues[a] :
                 written[m][j] = LET k == Count(ClassNames[c], a, AttrValues[a][j])
                                 IN IF k > 0 THEN Scaled(k, RowsOf(ClassNames[c])) ELSE 0
  <1> DEFINE l == ClassNames[c]
  <1>1. Len(written) \in Nat /\ m \in 1 .. Len(written) /\ m # 1 /\ a # 0
        /\ written # <<>>
    <2>1. Len(written) \in Nat
      BY NumLinesNat DEF TrainInv, LinesInv
    <2>2. written # <<>>
      BY <2>1
    <2> QED BY <2>1, <2>2, TrainAssumption
  <1>2. written[m] = [j \in DOMAIN AttrValues[a] |-> cond_prob[l][a][AttrValues[a][j]]]
    BY <1>1 DEF TrainInv, LinesInv, LineOf
  <1>3. l \in Seen /\ cond_prob[l] = CondProbs(l)
    BY <1>1, WrittenLines DEF ToSet
  <1>4. a \in Attrs /\ \A j \in DOMAIN AttrValues[a] : AttrValues[a][j] \in ValuesOf(a)
    BY DEF Attrs, ValuesOf
  <1> HIDE DEF l
  <1>5. \A v \in ValuesOf(a) :
           cond_prob[l][a][v] = LET k == Count(l, a, v)
                                IN IF k > 0 THEN Scaled(k, RowsOf(l)) ELSE 0
    BY <1>3, <1>4 DEF CondProbs
  <1> QED BY <1>2, <1>4, <1>5 DEF l

\* Under the lift, both scaled numbers of a label that was seen are in range.
LEMMA SeenInRange ==
    ASSUME LogGrows, TrainInv, LiftSuffices, pc # "load", NEW l \in Seen
    PROVE  /\ Scaled(RowsOf(l), AllRows) \in 0 .. N
           /\ \A a \in Attrs : \A v \in ValuesOf(a) :
                 Count(l, a, v) > 0 => /\ Scaled(Count(l, a, v), RowsOf(l)) \in 0 .. N
                                       /\ Log(Count(l, a, v)) - Log(RowsOf(l)) + Lift * 1000 >= 0
  <1>1. TypeInv /\ l \in DOMAIN class_prob
    BY DEF TrainInv, PhaseInv
  <1>2. /\ AllRows \in Nat \ {0} /\ RowsOf(l) \in Nat \ {0} /\ RowsOf(l) <= AllRows
        /\ \A a, v : Count(l, a, v) \in Nat /\ Count(l, a, v) <= RowsOf(l)
    BY <1>1, Frequencies
  <1>3. /\ RowsOf(l) > 0 => Log(RowsOf(l)) - Log(AllRows) + Lift * 1000 >= 0
        /\ \A a \in Attrs : \A v \in ValuesOf(a) : Count(l, a, v) > 0 =>
              Log(Count(l, a, v)) - Log(RowsOf(l)) + Lift * 1000 >= 0
    BY <1>1 DEF LiftSuffices, AllRows
  <1>4. Scaled(RowsOf(l), AllRows) \in 0 .. N
    BY <1>2, <1>3, ScaledRange
  <1>5. ASSUME NEW a \in Attrs, NEW v \in ValuesOf(a), Count(l, a, v) > 0
        PROVE  /\ Scaled(Count(l, a, v), RowsOf(l)) \in 0 .. N
               /\ Log(Count(l, a, v)) - Log(RowsOf(l)) + Lift * 1000 >= 0
    <2> DEFINE k == Count(l, a, v)
    <2>1. k \in Nat \ {0} /\ k <= RowsOf(l)
      BY <1>2, <1>5
    <2>2. Log(k) - Log(RowsOf(l)) + Lift * 1000 >= 0
      BY <1>3, <1>5
    <2> HIDE DEF k
    <2> QED BY <1>2, <2>1, <2>2, ScaledRange DEF k
  <1> QED BY <1>4, <1>5

\* The integers of the model file lie between 0 and N.
THEOREM ZeroToNCorrect ==
    ASSUME LogGrows
    PROVE  Spec => []ZeroToN
  <1>1. TrainInv => ZeroToN
    <2> SUFFICES ASSUME TrainInv, LiftSuffices,
                        NEW m \in DOMAIN written, NEW h \in DOMAIN written[m]
                 PROVE  written[m][h] \in 0 .. N
      BY DEF ZeroToN
    <2>1. m \in 1 .. Len(written) /\ written # <<>> /\ Len(written) <= NumLines
          /\ Len(written) \in Nat
      BY NumLinesNat DEF TrainInv, LinesInv
    <2>2. pc # "load"
      BY <2>1, WrittenLines
    <2>3. CASE m = 1
      <3>1. h \in DOMAIN ClassNames /\ ClassNames[h] \in Seen
        BY <2>1, <2>3, WrittenLines DEF ToSet
      <3>2. written[1][h] = Scaled(RowsOf(ClassNames[h]), AllRows)
        BY <2>1, <3>1, WrittenLines
      <3> QED BY <2>2, <2>3, <3>1, <3>2, SeenInRange
    <2>4. CASE m # 1
      <3> DEFINE c == (m - 2) \div (Len(AttrValues) + 1) + 1
                 a == (m - 2) % (Len(AttrValues) + 1)
      <3>0. m \in 2 .. NumLines /\ m \in 2 .. Len(written)
        BY <2>1, <2>4, NumLinesNat
      <3>1. c \in DOMAIN ClassNames /\ a \in 0 .. Len(AttrValues)
        BY <3>0, LinePlace
      <3>2. a # 0
        <4> SUFFICES ASSUME a = 0 PROVE FALSE
          OBVIOUS
        <4>1. written[m] = <<>>
          BY <2>1, <2>4 DEF TrainInv, LinesInv, LineOf
        <4> QED BY <4>1
      <3>3. a \in DOMAIN AttrValues
        BY <3>1, <3>2, TrainAssumption
      <3>4. ClassNames[c] \in Seen
        BY <2>1, <3>1, WrittenLines DEF ToSet
      <3>5. /\ h \in DOMAIN AttrValues[a]
            /\ written[m][h] = LET k == Count(ClassNames[c], a, AttrValues[a][h])
                               IN IF k > 0 THEN Scaled(k, RowsOf(ClassNames[c])) ELSE 0
        <4>0. /\ (m - 2) \div (Len(AttrValues) + 1) + 1 = c
              /\ (m - 2) % (Len(AttrValues) + 1) = a
          OBVIOUS
        <4> HIDE DEF a, c
        <4>1. /\ DOMAIN written[m] = DOMAIN AttrValues[a]
              /\ \A j \in DOMAIN AttrValues[a] :
                    written[m][j] = LET k == Count(ClassNames[c], a, AttrValues[a][j])
                                    IN IF k > 0 THEN Scaled(k, RowsOf(ClassNames[c])) ELSE 0
          BY <3>0, <3>1, <3>3, <4>0, AttributeLine
        <4> QED BY <4>1
      <3>6. a \in Attrs /\ AttrValues[a][h] \in ValuesOf(a)
        BY <3>3, <3>5 DEF Attrs, ValuesOf
      <3> HIDE DEF a, c
      <3>7. 0 \in 0 .. N
        BY TrainAssumption
      <3> QED BY <2>2, <3>4, <3>5, <3>6, <3>7, SeenInRange
    <2> QED BY <2>3, <2>4
  <1> QED BY <1>1, TrainAlways, PTL

\* The line with the values of attribute a of class c.
LEMMA PlaceInFile ==
    ASSUME NEW d \in Nat \ {0}, NEW z \in Nat, NEW c \in 1 .. z, NEW a \in 1 .. d - 1,
           NEW m, m = (c - 1) * d + a + 2
    PROVE  m \in 2 .. 1 + (z * d) /\ (m - 2) \div d + 1 = c /\ (m - 2) % d = a
  <1>1. PICK q \in Nat : c - 1 = q /\ q + 1 <= z
    <2>1. c - 1 \in Nat /\ (c - 1) + 1 <= z
      OBVIOUS
    <2> QED BY <2>1
  <1>2. PICK x \in Nat : x = d * q /\ x = q * d
    <2>1. d * q \in Nat /\ d * q = q * d
      OBVIOUS
    <2> QED BY <2>1
  <1>3. PICK y \in Nat : y = d * z /\ y = z * d
    <2>1. d * z \in Nat /\ d * z = z * d
      OBVIOUS
    <2> QED BY <2>1
  <1>4. x + d <= y
    <2>1. d * (q + 1) <= d * z
      BY <1>1, TimesMonotone
    <2>2. d * (q + 1) = d * q + d
      OBVIOUS
    <2> QED BY <1>2, <1>3, <2>1, <2>2
  <1>5. m = x + a + 2
    BY <1>1, <1>2
  <1>6. m \in 2 .. 1 + y /\ m - 2 = x + a
    BY <1>4, <1>5
  <1>7. (d * q + a) \div d = q /\ (d * q + a) % d = a
    BY DivUnique
  <1> QED BY <1>1, <1>2, <1>3, <1>6, <1>7

\* Within a class a value that occurs more often never stands in the model file
\* with a smaller number, at the place where the model provider reads it.
THEOREM FrequencyOrderCorrect ==
    ASSUME LogGrows
    PROVE  Spec => []FrequencyOrder
  <1>1. TrainInv => FrequencyOrder
    <2> SUFFICES ASSUME TrainInv, pc = "done", LiftSuffices,
                        NEW c \in DOMAIN ClassNames, NEW a \in Attrs,
                        NEW j \in DOMAIN AttrValues[a], NEW h \in DOMAIN AttrValues[a],
                        Count(ClassNames[c], a, AttrValues[a][j])
                            >= Count(ClassNames[c], a, AttrValues[a][h])
                 PROVE  Written(c, a, j) >= Written(c, a, h)
      BY DEF FrequencyOrder
    <2> DEFINE l == ClassNames[c]
               d == Len(AttrValues) + 1
               m == Line(c) + a
               k(x) == Count(l, a, AttrValues[a][x])
               number(x) == IF k(x) > 0 THEN Scaled(k(x), RowsOf(l)) ELSE 0
    <2>1. /\ d \in Nat \ {0} /\ a \in 1 .. d - 1 /\ c \in 1 .. Len(ClassNames)
          /\ Len(ClassNames) \in Nat /\ a \in DOMAIN AttrValues
          /\ NumLines = 1 + Len(ClassNames) * d /\ Len(written) = NumLines
          /\ Line(c) = (c - 1) * d + 2
      BY TrainAssumption DEF Attrs, NumLines, TrainInv, LinesInv, Line
    <2> HIDE DEF d
    <2>2. m = (c - 1) * d + a + 2
      BY <2>1
    <2> HIDE DEF m
    <2>3. m \in 2 .. Len(written) /\ (m - 2) \div d + 1 = c /\ (m - 2) % d = a
      <3>0. d \in Nat \ {0} /\ Len(ClassNames) \in Nat /\ c \in 1 .. Len(ClassNames)
            /\ a \in 1 .. d - 1
        BY <2>1, Zenon
      <3>1. m \in 2 .. 1 + (Len(ClassNames) * d) /\ (m - 2) \div d + 1 = c /\ (m - 2) % d = a
        <4> HIDE DEF k, l, number
        <4>1. \A x \in 1 .. Len(ClassNames), y \in 1 .. d - 1 : \A o :
                 o = (x - 1) * d + y + 2 =>
                     o \in 2 .. 1 + (Len(ClassNames) * d) /\ (o - 2) \div d + 1 = x /\ (o - 2) % d = y
          BY <3>0, PlaceInFile
        <4>2. \A o :
                 o = (c - 1) * d + a + 2 =>
                     o \in 2 .. 1 + (Len(ClassNames) * d) /\ (o - 2) \div d + 1 = c /\ (o - 2) % d = a
          BY ONLY <3>0, <4>1, Zenon
        <4> QED BY <2>2, <4>2, Zenon
      <3>2. Len(written) = 1 + (Len(ClassNames) * d)
        BY <2>1, Zenon
      <3> QED BY <3>1, <3>2, Zenon
    <2>4. \A x \in DOMAIN AttrValues[a] : written[m][x] = number(x)
      <3>1. (m - 2) \div (Len(AttrValues) + 1) + 1 = c /\ (m - 2) % (Len(AttrValues) + 1) = a
        BY <2>3 DEF d
      <3>2. \A x \in DOMAIN AttrValues[a] :
               written[m][x] = LET n == Count(ClassNames[c], a, AttrValues[a][x])
                               IN IF n > 0 THEN Scaled(n, RowsOf(ClassNames[c])) ELSE 0
        <4> HIDE DEF k, l, number
        <4>1. a \in DOMAIN AttrValues
          BY <2>1
        <4> QED BY <2>3, <3>1, <4>1, AttributeLine
      <3> QED BY <3>2
    <2>5. Written(c, a, j) = number(j) /\ Written(c, a, h) = number(h)
      BY <2>4 DEF Written, m
    <2>6. written # <<>> /\ l \in Seen
      <3>1. written # <<>>
        BY <2>1, NumLinesNat
      <3> QED BY <3>1, WrittenLines DEF ToSet
    <2>7. \A x \in DOMAIN AttrValues[a] : AttrValues[a][x] \in ValuesOf(a)
      BY DEF ValuesOf
    <2>8. \A x \in DOMAIN AttrValues[a] :
             /\ k(x) \in Nat
             /\ k(x) > 0 => /\ Scaled(k(x), RowsOf(l)) \in 0 .. N
                            /\ Log(k(x)) - Log(RowsOf(l)) + Lift * 1000 >= 0
      BY <2>6, <2>7, SeenInRange, Frequencies DEF TrainInv
    <2>9. RowsOf(l) \in Nat \ {0}
      BY <2>6, Frequencies DEF TrainInv
    <2>10. k(j) >= k(h)
      OBVIOUS
    <2> HIDE DEF k, l
    <2>11. CASE k(h) = 0
      BY <2>5, <2>8, <2>11, TrainAssumption
    <2>12. CASE k(h) # 0
      <3>1. k(h) \in Nat \ {0} /\ k(j) \in Nat \ {0} /\ k(h) <= k(j)
        BY <2>8, <2>10, <2>12
      <3>2. Scaled(k(h), RowsOf(l)) <= Scaled(k(j), RowsOf(l))
        BY <2>8, <2>9, <3>1, ScaledMonotone
      <3>3. Scaled(k(h), RowsOf(l)) \in Int /\ Scaled(k(j), RowsOf(l)) \in Int
        BY <2>8, <3>1
      <3> QED BY <2>5, <3>1, <3>2, <3>3
    <2> QED BY <2>8, <2>11, <2>12
  <1> QED BY <1>1, TrainAlways, PTL
=============================================================================
