------------------------------ MODULE ScoresProofs ------------------------------
(***************************************************************************)
(* First the loop invariant of modifiedTotalSums, for every number of      *)
(* slots and every number of probabilities per item, and what it gives the *)
(* authority in the slots it reads.  Then the files: where every line of   *)
(* the model file ends up, that the slot of a data item holds its naive    *)
(* Bayes score, and that the class createData.py finds best is best.       *)
(***************************************************************************)
EXTENDS Scores, DataTheorems

-----------------------------------------------------------------------------
(* modifiedTotalSums.                                                        *)

USE SlotAssumption

\* A remainder of a number less than one modulus away from the range.
LEMMA ModNear ==
    ASSUME NEW x \in Int, -NumSlots <= x, x < NumSlots
    PROVE  /\ x % NumSlots = IF x >= 0 THEN x ELSE x + NumSlots
           /\ x % NumSlots \in Int
  <1>1. CASE x >= 0
    <2>1. x % NumSlots = x
      BY <1>1
    <2> QED BY <1>1, <2>1
  <1>2. CASE x < 0
    <2>1. x % NumSlots = x + NumSlots
      BY <1>2
    <2> QED BY <1>2, <2>1
  <1> QED BY <1>1, <1>2

\* Rotating by "by" makes every slot count what is "by" slots further back:
\* a window of w slots becomes the window of w slots that ends "by" before.
LEMMA RotatedWindow ==
    ASSUME NEW by \in 0 .. NumSlots, NEW w \in 0 .. NumSlots,
           by + w <= NumSlots,
           NEW s \in SlotIds, NEW t \in SlotIds
    PROVE  /\ (s - by) % NumSlots \in SlotIds
           /\ (((s - by) % NumSlots) - t) % NumSlots < w
                 <=> (s - t) % NumSlots \in by .. by + w - 1
  <1>1. s \in Int /\ t \in Int /\ 0 <= s /\ s < NumSlots /\ 0 <= t /\ t < NumSlots
    BY DEF SlotIds
  <1>2. (s - by) % NumSlots = IF s - by >= 0 THEN s - by ELSE s - by + NumSlots
    BY <1>1, ModNear
  <1>3. (s - t) % NumSlots = IF s - t >= 0 THEN s - t ELSE s - t + NumSlots
    BY <1>1, ModNear
  <1> DEFINE r == (s - by) % NumSlots
  <1>4. r \in Int /\ 0 <= r /\ r < NumSlots
    BY <1>1, <1>2
  <1>5. (r - t) % NumSlots = IF r - t >= 0 THEN r - t ELSE r - t + NumSlots
    <2> HIDE DEF r
    <2> QED BY <1>1, <1>4, ModNear
  <1>6. r = IF s - by >= 0 THEN s - by ELSE s - by + NumSlots
    BY <1>2
  <1> HIDE DEF r
  <1>7. (r - t) % NumSlots < w <=> (s - t) % NumSlots \in by .. by + w - 1
    BY <1>1, <1>3, <1>4, <1>5, <1>6
  <1> QED BY <1>1, <1>4, <1>7 DEF r, SlotIds

\* The bits of m above j are those above j + 1, shifted, with bit j appended.
LEMMA Shift ==
    ASSUME NEW m \in Nat, NEW j \in 0 .. NumSlots
    PROVE  m \div 2^j = 2 * (m \div 2^(j + 1)) + Bit(m, j)
  <1> DEFINE p == 2^j
             q == m \div p
             h == m \div (2 * p)
  <1>1. p \in Nat \ {0} /\ 2^(j + 1) = 2 * p
    OBVIOUS
  <1> HIDE DEF p
  <1>2. q \in Nat /\ p * q <= m /\ m < p * q + p
    BY <1>1
  <1>3. h \in Nat /\ 2 * p * h <= m /\ m < 2 * p * h + 2 * p
    BY <1>1
  <1> HIDE DEF q, h
  <1>4. 2 * h <= q
    BY <1>1, <1>2, <1>3
  <1>5. q < 2 * h + 2
    BY <1>1, <1>2, <1>3
  <1>6. q % 2 = q - 2 * h
    BY <1>2, <1>3, <1>4, <1>5
  <1>7. m \div 2^(j + 1) = h
    BY <1>1 DEF h
  <1>8. m \div 2^j = q /\ Bit(m, j) = q % 2
    BY DEF q, p, Bit
  <1> QED BY <1>2, <1>3, <1>6, <1>7, <1>8

LEMMA Quotient ==
    ASSUME NEW m \in Nat, NEW p \in Nat \ {0}
    PROVE  /\ m \div p \in Nat
           /\ m \div p <= m
           /\ p = 1 => m \div p = m
           /\ p <= m /\ m < 2 * p => m \div p = 1
  <1> DEFINE q == m \div p
  <1>1. q \in Nat /\ p * q <= m /\ m < p * q + p
    OBVIOUS
  <1> HIDE DEF q
  <1>2. q <= p * q
    BY <1>1
  <1>3. p = 1 => q = m
    BY <1>1
  <1>4. ASSUME p <= m, m < 2 * p PROVE q = 1
    <2>1. CASE q = 0
      BY <1>1, <1>4, <2>1
    <2>2. CASE q >= 2
      <3>1. p * q >= p * 2
        BY <1>1, <2>2
      <3> QED BY <1>1, <1>4, <3>1
    <2> QED BY <1>1, <2>1, <2>2
  <1> QED BY <1>1, <1>2, <1>3, <1>4 DEF q

\* The invariant of the loop.
LoopInv == SumsTypeOK /\ WindowSums

LEMMA LoopInvInit == SumsInit => LoopInv
  <1> SUFFICES ASSUME SumsInit PROVE LoopInv
    OBVIOUS
  <1> USE DEF SumsInit
  <1>1. /\ NumBits(n) \in 1 .. NumSlots
        /\ 2^(NumBits(n) - 1) <= n /\ n < 2^NumBits(n)
    <2>1. \E k \in 1 .. NumSlots : 2^(k - 1) <= n /\ n < 2^k
      OBVIOUS
    <2> QED BY <2>1 DEF NumBits
  <1> DEFINE k == NumBits(n)
  <1> HIDE DEF k
  <1>2. k \in 1 .. NumSlots /\ 2^(k - 1) <= n /\ n < 2^k /\ i = k - 2
    BY <1>1 DEF k
  <1>3. k - 1 \in 0 .. NumSlots /\ (k - 1) + 1 = k
    BY <1>2
  <1>4. 2^(k - 1) \in Nat \ {0} /\ 2^k = 2 * 2^(k - 1)
    BY <1>3
  <1>5. n \in Nat /\ n \div 2^(k - 1) = 1
    BY <1>2, <1>4, Quotient
  <1>6. i + 1 = k - 1 /\ i \in -1 .. NumSlots
    BY <1>2
  <1>7. e = n \div 2^(i + 1)
    BY <1>5, <1>6
  <1>8. ASSUME NEW s \in SlotIds, NEW t \in SlotIds
        PROVE  ctxt[s][t] = IF (s - t) % NumSlots < e THEN 1 ELSE 0
    <2>1. (s - t) % NumSlots = IF s - t >= 0 THEN s - t ELSE s - t + NumSlots
      BY ModNear DEF SlotIds
    <2>2. (s - t) % NumSlots < 1 <=> s = t
      BY <2>1 DEF SlotIds
    <2> QED BY <2>2 DEF orig
  <1>9. SumsTypeOK
    BY <1>6 DEF SumsTypeOK, FormalSums, orig
  <1> QED BY <1>7, <1>8, <1>9 DEF LoopInv, WindowSums

LEMMA LoopInvNext == LoopInv /\ [SumsNext]_slotVars => LoopInv'
  <1> SUFFICES ASSUME LoopInv, [SumsNext]_slotVars PROVE LoopInv'
    OBVIOUS
  <1> USE DEF LoopInv
  <1>1. CASE UNCHANGED slotVars
    BY <1>1 DEF slotVars, SumsTypeOK, WindowSums
  <1>2. CASE Turn
    <2>1. /\ n \in 1 .. NumSlots /\ n' = n
          /\ i \in 0 .. NumSlots /\ i' = i - 1
          /\ ctxt \in FormalSums /\ e \in Nat
      BY <1>2 DEF Turn, SumsTypeOK
    <2>2. e = n \div 2^(i + 1)
      BY DEF WindowSums
    <2>3. e' = 2 * e + Bit(n, i) /\ Bit(n, i) \in {0, 1}
      BY <1>2, <2>1 DEF Turn
    <2>4. i' + 1 = i
      BY <2>1
    <2>5. e' = n' \div 2^(i' + 1)
      <3>1. n \div 2^i = 2 * e + Bit(n, i)
        <4>1. n \in Nat /\ i \in 0 .. NumSlots
          BY <2>1
        <4>2. n \div 2^i = 2 * (n \div 2^(i + 1)) + Bit(n, i)
          BY <4>1, Shift, Zenon
        <4> QED BY <2>2, <4>2, Zenon
      <3> QED BY <2>1, <2>3, <2>4, <3>1
    <2>6. e' \in 1 .. NumSlots
      <3>1. n \div 2^i <= n
        BY <2>1, Quotient
      <3>2. e >= 1
        BY DEF SumsTypeOK
      <3> QED BY <2>1, <2>3, <2>4, <2>5, <3>1, <3>2
    <2>7. ASSUME NEW s \in SlotIds, NEW t \in SlotIds
          PROVE  /\ Doubled[s][t] = IF (s - t) % NumSlots < 2 * e THEN 1 ELSE 0
                 /\ Doubled[s][t] \in Nat
      <3> DEFINE r == (s - e) % NumSlots
                 d == (s - t) % NumSlots
      <3>1. r \in SlotIds /\ ((r - t) % NumSlots < e <=> d \in e .. e + e - 1)
        BY <2>1, <2>3, <2>6, RotatedWindow
      <3>2. d \in Int
        BY ModNear DEF SlotIds
      <3>3. Doubled[s][t] = ctxt[s][t] + ctxt[r][t]
        BY DEF Doubled, Plus, Rotate
      <3>4. /\ ctxt[s][t] = IF d < e THEN 1 ELSE 0
            /\ ctxt[r][t] = IF (r - t) % NumSlots < e THEN 1 ELSE 0
        BY <3>1 DEF WindowSums
      <3> HIDE DEF r, d
      <3>5. Doubled[s][t] = IF d < 2 * e THEN 1 ELSE 0
        BY <2>1, <3>1, <3>2, <3>3, <3>4
      <3> QED BY <3>5 DEF d
    <2>8. ASSUME Bit(n, i) = 1, NEW s \in SlotIds, NEW t \in SlotIds
          PROVE  Rotate(orig, 2 * e)[s][t] =
                    IF (s - t) % NumSlots = 2 * e THEN 1 ELSE 0
      <3> DEFINE r == (s - 2 * e) % NumSlots
                 d == (s - t) % NumSlots
      <3>1. 2 * e \in 0 .. NumSlots /\ 2 * e + 1 <= NumSlots /\ 1 \in 0 .. NumSlots
        BY <2>1, <2>3, <2>6, <2>8
      <3>2. r \in SlotIds /\ ((r - t) % NumSlots < 1 <=> d \in 2 * e .. 2 * e + 1 - 1)
        BY <3>1, RotatedWindow
      <3>3. d \in Int
        BY ModNear DEF SlotIds
      <3>4. (r - t) % NumSlots = IF r - t >= 0 THEN r - t ELSE r - t + NumSlots
        <4> HIDE DEF r
        <4> QED BY <3>2, ModNear DEF SlotIds
      <3>5. Rotate(orig, 2 * e)[s][t] = IF r = t THEN 1 ELSE 0
        BY <3>2 DEF Rotate, orig
      <3> HIDE DEF r, d
      <3>6. (r - t) % NumSlots < 1 <=> r = t
        BY <3>2, <3>4 DEF SlotIds
      <3>7. (r = t) <=> (d = 2 * e)
        BY <2>1, <3>2, <3>3, <3>6
      <3> QED BY <3>5, <3>7 DEF d
    <2>9. ctxt' = IF Bit(n, i) = 0 THEN Doubled ELSE Plus(Doubled, Rotate(orig, 2 * e))
      BY <1>2 DEF Turn
    <2>10. ASSUME NEW s \in SlotIds, NEW t \in SlotIds
           PROVE  /\ ctxt'[s][t] = IF (s - t) % NumSlots < e' THEN 1 ELSE 0
                  /\ ctxt'[s][t] \in Nat
      <3>1. (s - t) % NumSlots \in Int
        BY ModNear DEF SlotIds
      <3>2. CASE Bit(n, i) = 0
        <4>1. ctxt' = Doubled /\ e' = 2 * e
          BY <2>1, <2>3, <2>9, <3>2
        <4> QED BY <2>7, <4>1, Zenon
      <3>3. CASE Bit(n, i) = 1
        <4>1. ctxt'[s][t] = Doubled[s][t] + Rotate(orig, 2 * e)[s][t]
          BY <2>9, <3>3 DEF Plus
        <4> DEFINE d == (s - t) % NumSlots
        <4>2. Doubled[s][t] = IF d < 2 * e THEN 1 ELSE 0
          BY <2>7
        <4>3. Rotate(orig, 2 * e)[s][t] = IF d = 2 * e THEN 1 ELSE 0
          BY <2>8, <3>3
        <4>4. d \in Int
          BY <3>1
        <4> HIDE DEF d
        <4>5. ctxt'[s][t] = IF d < e' THEN 1 ELSE 0
          BY <2>1, <2>3, <3>3, <4>1, <4>2, <4>3, <4>4
        <4> QED BY <4>5 DEF d
      <3> QED BY <2>3, <3>2, <3>3
    <2>11. ctxt' \in FormalSums
      <3>1. /\ Doubled = [s \in SlotIds |-> [t \in SlotIds |-> Doubled[s][t]]]
            /\ Plus(Doubled, Rotate(orig, 2 * e)) = [s \in SlotIds |->
                  [t \in SlotIds |-> Plus(Doubled, Rotate(orig, 2 * e))[s][t]]]
        BY DEF Doubled, Plus
      <3>2. ctxt' = [s \in SlotIds |-> [t \in SlotIds |-> ctxt'[s][t]]]
        BY <2>9, <3>1
      <3> QED BY <2>10, <3>2 DEF FormalSums
    <2>12. SumsTypeOK'
      BY <2>1, <2>6, <2>11 DEF SumsTypeOK
    <2>13. WindowSums'
      BY <2>5, <2>10 DEF WindowSums
    <2> QED BY <2>12, <2>13
  <1> QED BY <1>1, <1>2 DEF SumsNext

\* The loop invariant holds for all numbers of slots and of probabilities: no
\* number of features makes modifiedTotalSums sum a slot twice or miss one.
THEOREM WindowSumsCorrect == SumsSpec => []WindowSums
  <1>1. SumsSpec => []LoopInv
    BY LoopInvInit, LoopInvNext, PTL DEF SumsSpec
  <1> QED BY <1>1, PTL DEF LoopInv

\* The rotations stay inside the array and the loop inside the bits of n.
THEOREM SumsTypeCorrect == SumsSpec => []SumsTypeOK
  <1>1. SumsSpec => []LoopInv
    BY LoopInvInit, LoopInvNext, PTL DEF SumsSpec
  <1> QED BY <1>1, PTL DEF LoopInv

\* At the end of the loop every block is summed.
LEMMA LoopInvBlocks == LoopInv => BlocksSeparate
  <1> SUFFICES ASSUME LoopInv, Done, NEW k \in 1 .. NumSlots \div n, NEW t \in SlotIds
               PROVE  ctxt[n * k - 1][t] =
                          IF t \in n * (k - 1) .. n * k - 1 THEN 1 ELSE 0
    BY DEF BlocksSeparate
  <1>1. n \in 1 .. NumSlots /\ i = -1
    BY DEF LoopInv, SumsTypeOK, Done
  <1>2. 0 \in 0 .. NumSlots /\ 2^0 \in Nat \ {0}
    OBVIOUS
  <1>3. e = n
    BY <1>1 DEF LoopInv, WindowSums
  <1> DEFINE s == n * k - 1
             u == NumSlots \div n
  <1>4. k \in Nat /\ 1 <= k /\ n * k <= NumSlots /\ n <= n * k
    <2>1. u \in Nat /\ n * u <= NumSlots
      BY <1>1
    <2> HIDE DEF u
    <2>2. k \in Nat /\ 1 <= k /\ k <= u
      BY <2>1 DEF u
    <2>3. n * k <= n * u /\ n <= n * k
      BY <1>1, <2>1, <2>2
    <2> QED BY <1>1, <2>1, <2>2, <2>3
  <1>5. s \in SlotIds /\ n * (k - 1) = s + 1 - n
    BY <1>1, <1>4 DEF SlotIds
  <1>6. (s - t) % NumSlots = IF s - t >= 0 THEN s - t ELSE s - t + NumSlots
    <2> HIDE DEF s
    <2> QED BY <1>5, ModNear DEF SlotIds
  <1>7. ctxt[s][t] = IF (s - t) % NumSlots < n THEN 1 ELSE 0
    BY <1>3, <1>5 DEF LoopInv, WindowSums
  <1>8. s + 1 >= n
    BY <1>1, <1>4
  <1> HIDE DEF s
  <1>9. (s - t) % NumSlots < n <=> t \in s + 1 - n .. s
    BY <1>1, <1>5, <1>6, <1>8 DEF SlotIds
  <1>10. ctxt[s][t] = IF t \in s + 1 - n .. s THEN 1 ELSE 0
    BY <1>7, <1>9
  <1> QED BY <1>5, <1>10 DEF s

\* What the authority reads for a data item is the sum over the item's block.
THEOREM BlocksSeparateCorrect == SumsSpec => []BlocksSeparate
  <1>1. SumsSpec => []LoopInv
    BY LoopInvInit, LoopInvNext, PTL DEF SumsSpec
  <1> QED BY <1>1, LoopInvBlocks, PTL

HIDE SlotAssumption

-----------------------------------------------------------------------------
(* The model file.  Line c of attribute a is the a-th of the block of c.     *)

\* What ScoreAssumption says of an info file.
InfoOK(b) ==
    /\ b \in Seq(Nat \ {0})
    /\ \A c \in Classes, j \in DOMAIN b : \A v \in 1 .. b[j] : CondProb(c, j, v) \in Int

Line(b, c, a) == [v \in 1 .. b[a] |-> CondProb(c, a, v)]
Lines(b, c, r) == [a \in 1 .. r |-> Line(b, c, a)]
Block(b, c) == << <<>> >> \o Lines(b, c, Len(b))
Blocks(b) == [c \in 1 .. ClassNum |-> Block(b, c - 1)]
Heads == [c \in 1 .. ClassNum |-> ClassProb(c - 1)]

\* Where the lines of class c stand among those of file f.
BlockAt(f, b, c) ==
    LET d == (Len(b) + 1) * c + 2
    IN  f[d] = <<>> /\ \A a \in 1 .. Len(b) : f[d + a] = Line(b, c, a)

LEMMA InfoFilesOK ==
    ASSUME NEW a \in AttrChoices
    PROVE  InfoOK(a) /\ InfoOK(DefaultAttrs(a)) /\ num_features(a) < NumSlots
  BY ScoreAssumption DEF InfoOK

LEMMA LineType ==
    ASSUME NEW b, InfoOK(b), NEW c \in Classes
    PROVE  /\ Len(b) \in Nat /\ \A a \in 1 .. Len(b) : b[a] \in Nat \ {0}
           /\ \A a \in 1 .. Len(b) :
                /\ Line(b, c, a) \in Seq(Int) /\ Len(Line(b, c, a)) = b[a]
                /\ Line(b, c, a) # <<>>
           /\ \A r \in 0 .. Len(b) : Lines(b, c, r) \in [1 .. r -> Seq(Int)]
  <1>1. Len(b) \in Nat /\ DOMAIN b = 1 .. Len(b) /\ \A a \in 1 .. Len(b) : b[a] \in Nat \ {0}
    BY SeqElements DEF InfoOK
  <1>2. ASSUME NEW a \in 1 .. Len(b)
        PROVE  /\ Line(b, c, a) \in Seq(Int) /\ Len(Line(b, c, a)) = b[a]
               /\ Line(b, c, a) # <<>>
    <2>1. PICK m \in Nat \ {0} : m = b[a]
      BY <1>1
    <2>2. Line(b, c, a) \in [1 .. m -> Int]
      BY <1>1, <2>1 DEF Line, InfoOK
    <2>3. Line(b, c, a) \in Seq(Int) /\ Len(Line(b, c, a)) = m
      BY <2>2, FunctionIsSeq
    <2>4. Len(<<>>) = 0
      OBVIOUS
    <2> QED BY <2>1, <2>3, <2>4
  <1>3. ASSUME NEW r \in 0 .. Len(b)
        PROVE  Lines(b, c, r) \in [1 .. r -> Seq(Int)]
    <2>1. \A a \in 1 .. r : a \in 1 .. Len(b)
      BY <1>1
    <2> QED BY <1>2, <2>1 DEF Lines
  <1> QED BY <1>1, <1>2, <1>3

LEMMA BlockType ==
    ASSUME NEW b, InfoOK(b), NEW c \in Classes
    PROVE  /\ Block(b, c) \in Seq(Seq(Int)) /\ Len(Block(b, c)) = Len(b) + 1
           /\ Block(b, c)[1] = <<>>
           /\ \A a \in 1 .. Len(b) : Block(b, c)[a + 1] = Line(b, c, a)
  <1> DEFINE T == Seq(Int)
             s == << <<>> >>
             t == Lines(b, c, Len(b))
             m == Len(b)
  <1>1. m \in Nat /\ t \in [1 .. m -> T]
    <2>1. m \in Nat
      BY LineType
    <2>2. m \in 0 .. m
      BY <2>1
    <2> QED BY <2>1, <2>2, LineType
  <1>2. s \in Seq(T) /\ Len(s) = 1 /\ s[1] = <<>>
    OBVIOUS
  <1>3. \A a \in 1 .. m : t[a] = Line(b, c, a)
    BY DEF Lines
  <1>4. Block(b, c) = s \o t
    BY DEF Block
  <1> HIDE DEF s, t, T, m
  <1>5. t \in Seq(T) /\ Len(t) = m
    BY <1>1, FunctionIsSeq
  <1>6. /\ s \o t \in Seq(T) /\ Len(s \o t) = Len(s) + Len(t)
        /\ \A j \in 1 .. Len(s) : (s \o t)[j] = s[j]
        /\ \A j \in 1 .. Len(t) : (s \o t)[Len(s) + j] = t[j]
    <2>1. s \in Seq(T) /\ t \in Seq(T)
      BY <1>2, <1>5
    <2> QED BY ONLY <2>1, ConcatIs
  <1>7. /\ Block(b, c) \in Seq(T) /\ Len(Block(b, c)) = m + 1
        /\ Block(b, c)[1] = <<>>
        /\ \A a \in 1 .. m : Block(b, c)[a + 1] = Line(b, c, a)
    <2>1. PICK B : B = Block(b, c)
      OBVIOUS
    <2>2. B \in Seq(T) /\ Len(B) = 1 + m /\ B[1] = <<>> /\ \A a \in 1 .. m : B[1 + a] = t[a]
      BY <1>2, <1>4, <1>5, <1>6, <2>1
    <2>3. 1 + m = m + 1 /\ \A a \in 1 .. m : 1 + a = a + 1
      BY <1>1
    <2> QED BY <1>3, <2>1, <2>2, <2>3
  <1> QED BY <1>7 DEF T, m

LEMMA FilePlaces ==
    ASSUME InfoOK(mp_attrs)
    PROVE  /\ Len(ModelFile) = 1 + (feature_num + 1) * ClassNum
           /\ ModelFile[1] = Heads
           /\ \A c \in Classes : BlockAt(ModelFile, mp_attrs, c)
  <1> DEFINE T == Seq(Int)
             s == << Heads >>
             ss == Blocks(mp_attrs)
             t == FlattenSeq(ss)
             w == feature_num + 1
  <1>1. ModelFile = s \o t
    <2>1. DOMAIN mp_attrs = 1 .. Len(mp_attrs)
      BY SeqElements DEF InfoOK
    <2> QED BY <2>1, Zenon DEF ModelFile, Blocks, Block, Lines, Line, Heads
  <1>2. ClassNum \in Nat /\ Heads \in T /\ feature_num \in Nat /\ w \in Nat
    <2>1. ClassNum \in Nat
      BY ScoreAssumption
    <2>2. Heads \in [1 .. ClassNum -> Int]
      <3>1. \A c \in 1 .. ClassNum : c - 1 \in Classes
        BY <2>1 DEF Classes
      <3> QED BY <3>1, ScoreAssumption DEF Heads
    <2>3. feature_num \in Nat
      BY SeqElements DEF InfoOK, feature_num
    <2> QED BY <2>1, <2>2, <2>3, FunctionIsSeq
  <1>3. ss \in [1 .. ClassNum -> Seq(T)] /\ \A j \in 1 .. ClassNum : Len(ss[j]) = w
    <2>1. \A j \in 1 .. ClassNum : j - 1 \in Classes
      BY <1>2 DEF Classes
    <2> QED BY <2>1, BlockType DEF Blocks, feature_num
  <1>4. s \in Seq(T) /\ Len(s) = 1 /\ s[1] = Heads
    BY <1>2
  <1>5. \A c \in Classes : ss[c + 1] = Block(mp_attrs, c)
    BY <1>2 DEF Blocks, Classes
  <1> HIDE DEF T, s, ss, t, w
  <1>6. t \in Seq(T) /\ InBlocks(t, ss, ClassNum, w)
    <2>1. AllLong(ss, ClassNum, w)
      BY <1>3 DEF AllLong
    <2> QED BY ONLY <1>2, <1>3, <2>1, FlattenUniform DEF t
  <1>7. /\ Len(s \o t) = Len(s) + Len(t)
        /\ \A j \in 1 .. Len(s) : (s \o t)[j] = s[j]
        /\ \A j \in 1 .. Len(t) : (s \o t)[Len(s) + j] = t[j]
    BY ONLY <1>4, <1>6, ConcatIs
  <1>8. PICK f, L : f = ModelFile /\ L = Len(t)
    OBVIOUS
  <1>9. /\ Len(f) = 1 + L /\ f[1] = Heads /\ \A j \in 1 .. L : f[1 + j] = t[j]
        /\ L = w * ClassNum
    BY <1>1, <1>4, <1>6, <1>7, <1>8 DEF InBlocks
  <1>10. ASSUME NEW c \in Classes
         PROVE  BlockAt(f, mp_attrs, c)
    <2>1. c + 1 \in 1 .. ClassNum /\ (c + 1) - 1 = c /\ c \in Nat
      BY <1>2 DEF Classes
    <2>2. PICK x \in Nat : x = w * c
      BY <1>2, <2>1
    <2>3. ASSUME NEW r \in 1 .. w
          PROVE  f[x + 1 + r] = Block(mp_attrs, c)[r]
      <3>1. w * ((c + 1) - 1) + r \in 1 .. L /\ t[w * ((c + 1) - 1) + r] = ss[c + 1][r]
        BY <1>6, <1>9, <2>1, <2>3 DEF InBlocks
      <3>2. x + r \in 1 .. L /\ t[x + r] = ss[c + 1][r]
        BY <2>1, <2>2, <3>1
      <3>3. 1 + (x + r) = x + 1 + r
        BY <1>2
      <3>4. f[1 + (x + r)] = t[x + r]
        BY <1>9, <3>2, Zenon
      <3> QED BY <1>5, <3>2, <3>3, <3>4, Zenon
    <2>4. f[x + 2] = <<>>
      <3>1. 1 \in 1 .. w /\ x + 1 + 1 = x + 2
        BY <1>2 DEF w
      <3> QED BY <2>3, <3>1, BlockType, Zenon
    <2>5. ASSUME NEW a \in 1 .. Len(mp_attrs)
          PROVE  f[(x + 2) + a] = Line(mp_attrs, c, a)
      <3>1. a + 1 \in 1 .. w /\ x + 1 + (a + 1) = (x + 2) + a
        BY <1>2 DEF w, feature_num
      <3>2. f[x + 1 + (a + 1)] = Block(mp_attrs, c)[a + 1]
        BY <2>3, <3>1, Zenon
      <3>3. Block(mp_attrs, c)[a + 1] = Line(mp_attrs, c, a)
        BY BlockType
      <3> QED BY <3>1, <3>2, <3>3, Zenon
    <2>6. (Len(mp_attrs) + 1) * c + 2 = x + 2
      BY <2>2 DEF w, feature_num
    <2> QED BY <2>4, <2>5, <2>6 DEF BlockAt
  <1> QED BY <1>8, <1>9, <1>10 DEF w

-----------------------------------------------------------------------------
(* Reading it.                                                               *)

\* What class c has after r of its lines.
Having(b, c, r) == << ClassProb(c) >> \o FlattenSeq(Lines(b, c, r))

LEMMA HavingType ==
    ASSUME NEW b, InfoOK(b), NEW c \in Classes, NEW r \in 0 .. Len(b)
    PROVE  /\ << ClassProb(c) >> \in Seq(Int) /\ FlattenSeq(Lines(b, c, r)) \in Seq(Int)
           /\ Having(b, c, r) \in Seq(Int)
           /\ Joined(Having(b, c, r), << ClassProb(c) >>, FlattenSeq(Lines(b, c, r)))
  <1>1. Len(b) \in Nat /\ r \in Nat /\ Lines(b, c, r) \in [1 .. r -> Seq(Int)]
    <2>1. Len(b) \in Nat
      BY LineType
    <2> QED BY <2>1, LineType
  <1>2. FlattenSeq(Lines(b, c, r)) \in Seq(Int)
    BY <1>1, FlattenType
  <1>3. << ClassProb(c) >> \in Seq(Int)
    <2>1. ClassProb(c) \in Int
      BY ScoreAssumption
    <2> QED BY <2>1
  <1>4. PICK p, q : p = << ClassProb(c) >> /\ q = FlattenSeq(Lines(b, c, r))
    OBVIOUS
  <1>5. Having(b, c, r) = p \o q
    BY <1>4 DEF Having
  <1>6. p \in Seq(Int) /\ q \in Seq(Int)
    BY <1>2, <1>3, <1>4
  <1>7. p \o q \in Seq(Int)
    BY <1>6
  <1> QED BY <1>2, <1>3, <1>4, <1>5, <1>7, Zenon DEF Joined

LEMMA HavingNone ==
    ASSUME NEW b, InfoOK(b), NEW c \in Classes
    PROVE  Having(b, c, 0) = << ClassProb(c) >> /\ Len(Having(b, c, 0)) = 1
  <1>1. Lines(b, c, 0) = <<>>
    BY DEF Lines
  <1>2. 0 \in 0 .. Len(b)
    BY LineType
  <1>3. << ClassProb(c) >> \in Seq(Int)
    BY <1>2, HavingType
  <1>4. Having(b, c, 0) = << ClassProb(c) >> \o <<>>
    BY <1>1, FlattenEmpty DEF Having
  <1>5. << ClassProb(c) >> \o <<>> = << ClassProb(c) >>
    BY <1>3, EmptyConcat
  <1> QED BY <1>4, <1>5

LEMMA HavingNext ==
    ASSUME NEW b, InfoOK(b), NEW c \in Classes, NEW r \in Nat, r + 1 \in 1 .. Len(b)
    PROVE  Having(b, c, r + 1) = Having(b, c, r) \o Line(b, c, r + 1)
  <1>1. Len(b) \in Nat /\ r \in 0 .. Len(b) /\ r + 1 \in 0 .. Len(b) /\ r + 1 \in Nat
    <2>1. Len(b) \in Nat
      BY LineType
    <2> QED BY <2>1
  <1>2. PICK ss, tt : ss = Lines(b, c, r) /\ tt = Lines(b, c, r + 1)
    OBVIOUS
  <1>3. ss \in [1 .. r -> Seq(Int)] /\ tt \in [1 .. r + 1 -> Seq(Int)]
    BY <1>1, <1>2, LineType
  <1>4. (\A k \in 1 .. r : tt[k] = ss[k]) /\ tt[r + 1] = Line(b, c, r + 1)
    BY <1>2 DEF Lines
  <1>5. FlattenSeq(tt) = FlattenSeq(ss) \o tt[r + 1]
    BY <1>3, <1>4, FlattenAppend
  <1>6. PICK p, u, t, st, tu : /\ p = << ClassProb(c) >> /\ u = Line(b, c, r + 1)
                               /\ t = FlattenSeq(ss) /\ st = Having(b, c, r)
                               /\ tu = FlattenSeq(tt)
    OBVIOUS
  <1>7. /\ p \in Seq(Int) /\ t \in Seq(Int) /\ u \in Seq(Int)
    BY <1>1, <1>2, <1>6, HavingType, LineType
  <1>8. Joined(st, p, t) /\ Joined(tu, t, u)
    BY <1>1, <1>2, <1>4, <1>5, <1>6, HavingType, Zenon DEF Joined
  <1>9. PICK z : Joined(z, st, u)
    BY Zenon DEF Joined
  <1>10. Joined(z, p, tu)
    BY ONLY <1>7, <1>8, <1>9, ConcatAssoc, Zenon
  <1>11. Joined(Having(b, c, r + 1), p, tu)
    BY <1>1, <1>2, <1>6, HavingType, Zenon
  <1> QED BY <1>6, <1>9, <1>10, <1>11, Zenon DEF Joined

LEMMA HavingAll == ASSUME NEW c, InfoOK(mp_attrs) PROVE ModelOf(c) = Having(mp_attrs, c, feature_num)
  <1>1. DOMAIN mp_attrs = 1 .. Len(mp_attrs)
    BY SeqElements DEF InfoOK
  <1> QED BY <1>1, Zenon DEF ModelOf, Having, Lines, Line, feature_num

LEMMA HavingPrefix ==
    ASSUME NEW b, InfoOK(b), NEW c \in Classes, NEW r \in 0 .. Len(b)
    PROVE  IsPrefix(Having(b, c, r), Having(b, c, Len(b)))
  <1>1. Len(b) \in Nat /\ r \in Nat /\ Len(b) \in 0 .. Len(b)
    <2>1. Len(b) \in Nat
      BY LineType
    <2> QED BY <2>1
  <1>2. PICK z, ss, tt : z = Len(b) /\ ss = Lines(b, c, r) /\ tt = Lines(b, c, z)
    OBVIOUS
  <1>3. z \in Nat /\ r \in 0 .. z /\ ss \in [1 .. r -> Seq(Int)] /\ tt \in [1 .. z -> Seq(Int)]
    BY <1>1, <1>2, LineType
  <1>4. \A k \in 1 .. r : ss[k] = tt[k]
    BY <1>2, <1>3 DEF Lines
  <1>5. Begins(FlattenSeq(ss), FlattenSeq(tt))
    <2> HIDE <1>2
    <2> QED BY <1>3, <1>4, FlattenBegins
  <1>6. PICK p, s, t, x, y : /\ p = << ClassProb(c) >> /\ s = FlattenSeq(ss) /\ t = FlattenSeq(tt)
                             /\ x = Having(b, c, r) /\ y = Having(b, c, Len(b))
    OBVIOUS
  <1>7. /\ p \in Seq(Int) /\ s \in Seq(Int) /\ t \in Seq(Int) /\ x \in Seq(Int) /\ y \in Seq(Int)
        /\ Joined(x, p, s) /\ Joined(y, p, t)
    BY <1>1, <1>2, <1>6, HavingType, Zenon
  <1>8. Begins(x, y)
    <2>1. x = p \o s /\ y = p \o t
      BY <1>7 DEF Joined
    <2>2. /\ Len(x) = Len(p) + Len(s)
          /\ \A j \in 1 .. Len(p) : x[j] = p[j]
          /\ \A j \in 1 .. Len(s) : x[Len(p) + j] = s[j]
      BY ONLY <1>7, <2>1, ConcatIs
    <2>3. /\ Len(y) = Len(p) + Len(t)
          /\ \A j \in 1 .. Len(p) : y[j] = p[j]
          /\ \A j \in 1 .. Len(t) : y[Len(p) + j] = t[j]
      BY ONLY <1>7, <2>1, ConcatIs
    <2>4. Len(p) \in Nat /\ Len(s) \in Nat /\ Len(t) \in Nat /\ Len(s) <= Len(t)
          /\ \A j \in 1 .. Len(s) : s[j] = t[j]
      BY <1>5, <1>6, <1>7 DEF Begins
    <2>5. PICK m, l, k : m = Len(p) /\ l = Len(s) /\ k = Len(t)
      OBVIOUS
    <2>6. Len(x) <= Len(y)
      BY <2>2, <2>3, <2>4
    <2>7. ASSUME NEW j \in 1 .. Len(x)
          PROVE  x[j] = y[j]
      <3>1. CASE j <= m
        <4>1. j \in 1 .. m
          BY <2>2, <2>4, <2>5, <3>1
        <4> QED BY <2>2, <2>3, <2>5, <4>1
      <3>2. CASE ~ (j <= m)
        <4>1. j - m \in 1 .. l /\ j - m \in 1 .. k /\ m + (j - m) = j
          BY <2>2, <2>4, <2>5, <3>2
        <4>2. x[m + (j - m)] = s[j - m] /\ y[m + (j - m)] = t[j - m]
          BY <2>2, <2>3, <2>5, <4>1, Zenon
        <4> QED BY <2>4, <2>5, <4>1, <4>2, Zenon
      <3> QED BY <3>1, <3>2
    <2> QED BY <2>6, <2>7 DEF Begins
  <1>9. IsPrefix(x, y)
    BY ONLY <1>7, <1>8, BeginsIsPrefix
  <1> QED BY <1>6, <1>9

width == feature_num + 1

\* Lines of class c that have been read.
LinesRead(c) == IF c < class_count THEN feature_num
                ELSE IF c = class_count THEN count - 2 - width * c ELSE 0

FileInv ==
    /\ attrs \in AttrChoices
    /\ mp_attrs = DefaultAttrs(attrs)

\* class_count is the class whose block the line before was in.
PlaceInv ==
    /\ count \in 0 .. 1 + width * ClassNum
    /\ count <= 1 => class_count = -1
    /\ count > 1 => class_count \in Classes /\ LinesRead(class_count) \in 0 .. feature_num

ProbsInv == count > 0 => probs = [c \in Classes |-> Having(mp_attrs, c, LinesRead(c))]

ReadInv == FileInv /\ PlaceInv /\ ProbsInv

LEMMA FileFacts ==
    ASSUME FileInv
    PROVE  /\ InfoOK(mp_attrs) /\ feature_num = Len(mp_attrs) /\ feature_num \in Nat
           /\ width \in Nat \ {0} /\ ClassNum \in Nat \ {0}
           /\ Len(ModelFile) = 1 + width * ClassNum /\ width * ClassNum \in Nat
  <1>1. InfoOK(mp_attrs)
    BY InfoFilesOK DEF FileInv
  <1>2. feature_num = Len(mp_attrs) /\ feature_num \in Nat
    BY <1>1, SeqElements DEF feature_num, InfoOK
  <1>3. width \in Nat \ {0} /\ ClassNum \in Nat \ {0}
    BY <1>2, ScoreAssumption DEF width
  <1>4. Len(ModelFile) = 1 + width * ClassNum
    BY <1>1, FilePlaces DEF width
  <1>5. width * ClassNum \in Nat
    BY <1>3
  <1> QED BY <1>1, <1>2, <1>3, <1>4, <1>5

LEMMA ReadInvInit == DataInit => ReadInv
  <1> SUFFICES ASSUME DataInit PROVE ReadInv
    OBVIOUS
  <1>1. FileInv /\ count = 0 /\ class_count = -1
    BY DEF DataInit, FileInv
  <1>2. 0 <= 1 + width * ClassNum /\ 1 + width * ClassNum \in Nat
    BY <1>1, FileFacts
  <1> QED BY <1>1, <1>2 DEF ReadInv, PlaceInv, ProbsInv

\* The condition of the code finds the class of a line by its number alone.
LEMMA ReadLinePlace ==
    ASSUME ReadInv, ReadLine, count > 0
    PROVE  \/ /\ OfClass /\ class_count \in Classes /\ class_count' = class_count
              /\ LinesRead(class_count) \in 0 .. feature_num - 1
              /\ ModelFile[count + 1]
                    = Line(mp_attrs, class_count, LinesRead(class_count) + 1)
           \/ /\ ~ OfClass /\ class_count' = class_count + 1 /\ class_count' \in Classes
              /\ count + 1 = width * class_count' + 2
              /\ \/ class_count = -1
                 \/ class_count \in Classes /\ LinesRead(class_count) = feature_num
  <1>1. FileInv /\ PlaceInv
    BY DEF ReadInv
  <1>2. /\ InfoOK(mp_attrs) /\ feature_num = Len(mp_attrs) /\ feature_num \in Nat
        /\ width = feature_num + 1 /\ ClassNum \in Nat \ {0}
        /\ Len(ModelFile) = 1 + width * ClassNum
    BY <1>1, FileFacts DEF width
  <1>3. /\ count \in Nat /\ count < 1 + width * ClassNum
        /\ class_count' = IF OfClass THEN class_count ELSE class_count + 1
    <2>1. count \in Nat /\ count # 0 /\ count < Len(ModelFile)
      BY <1>1 DEF PlaceInv, ReadLine
    <2>2. class_count' = IF OfClass THEN class_count ELSE class_count + 1
      BY <2>1, Zenon DEF ReadLine
    <2> QED BY <1>2, <2>1, <2>2
  <1>4. CASE count = 1
    <2>1. class_count = -1
      BY <1>1, <1>4 DEF PlaceInv
    <2>2. ~ OfClass
      BY <1>2, <1>4, <2>1 DEF OfClass
    <2>3. class_count' = 0 /\ 0 \in Classes
      BY <1>2, <1>3, <2>1, <2>2 DEF Classes
    <2>4. width * 0 = 0
      BY <1>2
    <2>5. count + 1 = width * class_count' + 2 /\ class_count' = class_count + 1
      BY <1>4, <2>1, <2>3, <2>4
    <2>6. class_count' \in Classes
      BY <2>3
    <2> QED BY <2>1, <2>2, <2>5, <2>6
  <1>5. CASE count # 1
    <2> DEFINE k == class_count
    <2>1. PICK r : r = LinesRead(k)
      OBVIOUS
    <2>2. k \in Classes /\ k \in Nat /\ r \in 0 .. feature_num
      BY <1>1, <1>3, <1>5, <2>1 DEF PlaceInv, Classes
    <2>3. PICK x \in Nat : x = width * k
      BY <1>2, <2>2
    <2>4. r = count - 2 - x
      BY <2>1, <2>2, <2>3 DEF LinesRead, Classes
    <2>5. feature_num * k + k = x
      BY <1>2, <2>2, <2>3
    <2>6. OfClass <=> r < feature_num
      <3>1. PICK y \in Nat : y = feature_num * k
        BY <1>2, <2>2
      <3>2. OfClass <=> y + 2 + k <= count /\ count <= y + 1 + k + feature_num
        BY <3>1 DEF OfClass
      <3> HIDE DEF k
      <3> QED BY <1>2, <1>3, <2>2, <2>3, <2>4, <2>5, <3>1, <3>2
    <2>7. CASE OfClass
      <3>1. BlockAt(ModelFile, mp_attrs, k)
        BY <1>2, <2>2, FilePlaces
      <3>2. r + 1 \in 1 .. Len(mp_attrs) /\ r \in 0 .. feature_num - 1
        BY <1>2, <2>2, <2>6, <2>7
      <3>3. ModelFile[((Len(mp_attrs) + 1) * k + 2) + (r + 1)] = Line(mp_attrs, k, r + 1)
        BY <3>1, <3>2 DEF BlockAt
      <3>4. ((Len(mp_attrs) + 1) * k + 2) + (r + 1) = count + 1
        <4>1. (Len(mp_attrs) + 1) * k = x
          BY <1>2, <2>3
        <4> HIDE DEF k
        <4> QED BY <1>3, <2>2, <2>4, <4>1
      <3> QED BY <1>3, <2>1, <2>2, <2>7, <3>2, <3>3, <3>4, Zenon
    <2>8. CASE ~ OfClass
      <3>1. r = feature_num
        BY <1>2, <2>2, <2>6, <2>8
      <3>2. PICK q \in Nat : q = k + 1
        BY <2>2
      <3>3. width * q = x + width
        BY <1>2, <2>2, <2>3, <3>2
      <3>4. count + 1 = width * q + 2
        BY <1>2, <1>3, <2>4, <3>1, <3>3
      <3>5. q < ClassNum
        <4> SUFFICES ASSUME ClassNum <= q PROVE FALSE
          BY <1>2
        <4>1. width * ClassNum <= width * q
          BY <1>2, TimesMonotone
        <4>2. PICK u, v : u = width * ClassNum /\ v = width * q
          OBVIOUS
        <4>3. u \in Nat /\ v \in Nat
          BY <1>2, <4>2
        <4> QED BY <1>3, <3>4, <4>1, <4>2, <4>3
      <3>6. class_count' = q /\ q \in Classes
        BY <1>2, <1>3, <2>8, <3>2, <3>5 DEF Classes
      <3> QED BY <2>1, <2>2, <2>8, <3>1, <3>2, <3>4, <3>6
    <2> QED BY <2>7, <2>8
  <1> QED BY <1>4, <1>5

LEMMA ReadLineInv == ReadInv /\ ReadLine => ReadInv'
  <1> SUFFICES ASSUME ReadInv, ReadLine PROVE ReadInv'
    OBVIOUS
  <1>1. /\ attrs' = attrs /\ mp_attrs' = mp_attrs /\ count' = count + 1
        /\ width' = width /\ feature_num' = feature_num /\ count < Len(ModelFile)
    BY DEF ReadLine, width, feature_num
  <1>2. FileInv' /\ FileInv
    BY <1>1 DEF ReadInv, FileInv
  <1>3. /\ InfoOK(mp_attrs) /\ feature_num = Len(mp_attrs) /\ feature_num \in Nat
        /\ width \in Nat \ {0} /\ width = feature_num + 1 /\ ClassNum \in Nat \ {0}
        /\ Len(ModelFile) = 1 + width * ClassNum /\ width * ClassNum \in Nat
    BY <1>2, FileFacts DEF width
  <1>4. count \in Nat /\ count' \in 0 .. 1 + width * ClassNum
    <2>1. PICK u \in Nat : u = width * ClassNum
      BY <1>3
    <2>2. count \in 0 .. 1 + u
      BY <2>1 DEF ReadInv, PlaceInv
    <2> QED BY <1>1, <1>3, <2>1, <2>2
  <1>5. CASE count = 0
    <2>1. /\ class_count = -1 /\ class_count' = -1
          /\ probs' = [c \in 0 .. Len(Heads) - 1 |-> << Heads[c + 1] >>]
      <3>1. class_count = -1
        BY <1>5 DEF ReadInv, PlaceInv
      <3>2. ModelFile[1] = Heads /\ count + 1 = 1 /\ ~ (count > 0)
        BY <1>3, <1>5, FilePlaces
      <3>3. /\ class_count' = class_count
            /\ LET line == ModelFile[count + 1]
               IN  probs' = [c \in 0 .. Len(line) - 1 |-> << line[c + 1] >>]
        BY <3>2, Zenon DEF ReadLine
      <3> QED BY <3>1, <3>2, <3>3, Zenon
    <2>2. Len(Heads) = ClassNum /\ \A c \in Classes : Heads[c + 1] = ClassProb(c)
      BY <1>3 DEF Heads, Classes
    <2>3. probs' = [c \in Classes |-> << ClassProb(c) >>]
      <3>1. 0 .. Len(Heads) - 1 = Classes
        BY <2>2 DEF Classes
      <3>2. probs' = [c \in Classes |-> << Heads[c + 1] >>]
        BY <2>1, <3>1, Zenon
      <3> QED BY <2>2, <3>2
    <2>4. \A c \in Classes : LinesRead(c)' = 0
      BY <2>1 DEF LinesRead, Classes
    <2>5. \A c \in Classes : Having(mp_attrs, c, 0) = << ClassProb(c) >>
      BY <1>3, HavingNone
    <2>6. ProbsInv'
      BY <1>1, <2>3, <2>4, <2>5 DEF ProbsInv
    <2>7. PlaceInv'
      <3>1. ~ (count' > 1)
        BY <1>1, <1>5
      <3>2. count' \in 0 .. 1 + (width * ClassNum)'
        BY <1>1, <1>4
      <3> QED BY <2>1, <3>1, <3>2 DEF PlaceInv
    <2> QED BY <1>2, <2>6, <2>7 DEF ReadInv
  <1>6. CASE count # 0
    <2>1. count > 0 /\ count' > 1 /\ ~ (count' <= 1)
      BY <1>1, <1>4, <1>6
    <2>2. probs = [c \in Classes |-> Having(mp_attrs, c, LinesRead(c))]
      BY <2>1 DEF ReadInv, ProbsInv
    <2>3. CASE /\ OfClass /\ class_count \in Classes /\ class_count' = class_count
               /\ LinesRead(class_count) \in 0 .. feature_num - 1
               /\ ModelFile[count + 1]
                     = Line(mp_attrs, class_count, LinesRead(class_count) + 1)
      <3>1. PICK k, r, g : /\ k = class_count /\ r = LinesRead(k)
                           /\ g = [c \in Classes |-> Having(mp_attrs, c, LinesRead(c))]
        OBVIOUS
      <3>2. k \in Classes /\ k \in Nat /\ r \in Nat /\ r + 1 \in 1 .. feature_num
        BY <1>3, <2>3, <3>1 DEF Classes
      <3>3. probs' = [g EXCEPT ![k] = g[k] \o Line(mp_attrs, k, r + 1)]
        <4>1. probs' = [probs EXCEPT ![class_count] = @ \o ModelFile[count + 1]]
          BY <1>6, <2>3, Zenon DEF ReadLine
        <4> QED BY <2>2, <2>3, <3>1, <4>1, Zenon
      <3>4. \A c \in Classes : LinesRead(c)' = IF c = k THEN r + 1 ELSE LinesRead(c)
        <4> SUFFICES ASSUME NEW c \in Classes
                     PROVE  LinesRead(c)' = IF c = k THEN r + 1 ELSE LinesRead(c)
          OBVIOUS
        <4>1. class_count' = k /\ class_count = k
          BY <2>3, <3>1
        <4>2. PICK x \in Int : x = width * c
          BY <1>3 DEF Classes
        <4>3. LinesRead(c)' = IF c < k THEN feature_num
                              ELSE IF c = k THEN count + 1 - 2 - x ELSE 0
          <5>1. LinesRead(c)' = IF c < class_count' THEN feature_num'
                                ELSE IF c = class_count' THEN count' - 2 - width' * c ELSE 0
            BY DEF LinesRead
          <5>2. width' * c = x
            BY <1>1, <4>2
          <5>3. count' - 2 - width' * c = count + 1 - 2 - x
            BY <1>1, <1>4, <5>2
          <5> QED BY <1>1, <4>1, <5>1, <5>3
        <4>4. LinesRead(c) = IF c < k THEN feature_num
                             ELSE IF c = k THEN count - 2 - x ELSE 0
          BY <4>1, <4>2 DEF LinesRead
        <4>5. c \in Int
          BY DEF Classes
        <4>6. CASE c = k
          <5>1. r = count - 2 - x
            BY <3>1, <4>4, <4>5, <4>6
          <5> QED BY <1>4, <4>2, <4>3, <4>5, <4>6, <5>1
        <4>7. CASE c # k
          BY <4>3, <4>4, <4>7
        <4> QED BY <4>6, <4>7
      <3>5. Having(mp_attrs, k, r + 1) = g[k] \o Line(mp_attrs, k, r + 1)
        <4>1. g[k] = Having(mp_attrs, k, r)
          BY <3>1, <3>2
        <4>2. Having(mp_attrs, k, r + 1) = Having(mp_attrs, k, r) \o Line(mp_attrs, k, r + 1)
          BY <1>3, <3>2, HavingNext
        <4> QED BY <4>1, <4>2, Zenon
      <3>6. ProbsInv'
        <4>1. \A c \in Classes : g[c] = Having(mp_attrs, c, LinesRead(c))
          BY <3>1
        <4>2. ASSUME NEW c \in Classes
              PROVE  probs'[c] = Having(mp_attrs, c, LinesRead(c)')
          <5>1. CASE c = k
            BY <3>1, <3>3, <3>4, <3>5, <5>1
          <5>2. CASE c # k
            BY <3>1, <3>3, <3>4, <4>1, <5>2
          <5> QED BY <5>1, <5>2
        <4>3. probs' = [c \in Classes |-> probs'[c]]
          BY <3>1, <3>3
        <4>4. probs' = [c \in Classes |-> Having(mp_attrs', c, LinesRead(c)')]
          BY <1>1, <4>2, <4>3
        <4> QED BY <4>4 DEF ProbsInv
      <3>7. PlaceInv'
        <4>1. class_count' \in Classes /\ LinesRead(class_count)' \in 0 .. feature_num'
          <5>1. LinesRead(class_count)' = r + 1
            BY <2>3, <3>1, <3>2, <3>4
          <5> QED BY <1>1, <1>3, <2>3, <3>2, <5>1
        <4>2. count' \in 0 .. 1 + (width * ClassNum)'
          BY <1>1, <1>4
        <4> QED BY <2>1, <4>1, <4>2 DEF PlaceInv
      <3> QED BY <1>2, <3>6, <3>7 DEF ReadInv
    <2>4. CASE /\ ~ OfClass /\ class_count' = class_count + 1 /\ class_count' \in Classes
               /\ count + 1 = width * class_count' + 2
               /\ \/ class_count = -1
                  \/ class_count \in Classes /\ LinesRead(class_count) = feature_num
      <3>1. probs' = probs
        BY <1>6, <2>4, Zenon DEF ReadLine
      <3>2. PICK k, q : k = class_count /\ q = class_count'
        OBVIOUS
      <3>3. q \in Nat /\ q = k + 1 /\ k \in Int
        BY <2>4, <3>2 DEF Classes
      <3>4. PICK y \in Int : y = width * q
        BY <1>3, <3>3
      <3>5. ASSUME NEW c \in Classes
            PROVE  LinesRead(c)' = LinesRead(c) /\ (c = q => LinesRead(c)' = 0)
        <4>1. c \in Nat
          BY DEF Classes
        <4>2. PICK x \in Int : x = width * c
          BY <1>3, <4>1
        <4>3. LinesRead(c)' = IF c < q THEN feature_num
                              ELSE IF c = q THEN count + 1 - 2 - x ELSE 0
          <5>1. LinesRead(c)' = IF c < class_count' THEN feature_num'
                                ELSE IF c = class_count' THEN count' - 2 - width' * c ELSE 0
            BY DEF LinesRead
          <5>2. width' * c = x
            BY <1>1, <4>2
          <5>3. count' - 2 - width' * c = count + 1 - 2 - x
            BY <1>1, <1>4, <5>2
          <5> QED BY <1>1, <3>2, <5>1, <5>3
        <4>4. LinesRead(c) = IF c < k THEN feature_num
                             ELSE IF c = k THEN count - 2 - x ELSE 0
          BY <3>2, <4>2 DEF LinesRead
        <4>5. CASE c = q
          <5>1. count + 1 = x + 2
            BY <2>4, <3>2, <4>2, <4>5
          <5> QED BY <1>4, <3>3, <4>1, <4>3, <4>4, <4>5, <5>1
        <4>6. CASE c = k
          <5>1. LinesRead(c) = feature_num
            BY <2>4, <3>2, <4>1, <4>6
          <5> QED BY <3>3, <4>1, <4>3, <4>6, <5>1
        <4>7. CASE c # q /\ c # k
          BY <3>3, <4>1, <4>3, <4>4, <4>7
        <4> QED BY <4>5, <4>6, <4>7
      <3>6. ProbsInv'
        BY <1>1, <2>2, <3>1, <3>5 DEF ProbsInv
      <3>7. PlaceInv'
        <4>1. class_count' \in Classes /\ LinesRead(class_count)' \in 0 .. feature_num'
          <5>1. LinesRead(class_count)' = count' - 2 - width' * class_count'
            BY <2>4 DEF LinesRead, Classes
          <5>2. LinesRead(class_count)' = count + 1 - 2 - y
            <6>1. width' * class_count' = y
              BY <1>1, <3>2, <3>4
            <6>2. count' - 2 - width' * class_count' = count + 1 - 2 - y
              BY <1>1, <1>4, <6>1
            <6> QED BY <5>1, <6>2
          <5>3. LinesRead(class_count)' = 0
            BY <1>4, <2>4, <3>2, <3>4, <5>2
          <5> QED BY <1>1, <1>3, <2>4, <5>3
        <4>2. count' \in 0 .. 1 + (width * ClassNum)'
          BY <1>1, <1>4
        <4> QED BY <2>1, <4>1, <4>2 DEF PlaceInv
      <3> QED BY <1>2, <3>6, <3>7 DEF ReadInv
    <2> QED BY <2>1, <2>3, <2>4, ReadLinePlace
  <1> QED BY <1>5, <1>6

LEMMA ReadInvNext == ReadInv /\ [Next]_scoreVars => ReadInv'
  <1>1. CASE UNCHANGED dataVars
    BY <1>1 DEF ReadInv, FileInv, PlaceInv, ProbsInv, LinesRead, width, feature_num, dataVars
  <1> QED BY <1>1, ReadLineInv DEF Next, ComputeSums, scoreVars

LEMMA ReadInvPlaces == ReadInv => LinesInPlace
  <1> SUFFICES ASSUME ReadInv, count > 0, NEW c \in Classes
               PROVE  /\ IsPrefix(probs[c], ModelOf(c))
                      /\ c < class_count \/ ModelRead => probs[c] = ModelOf(c)
                      /\ c > class_count /\ ~ ModelRead => Len(probs[c]) = 1
    BY DEF LinesInPlace
  <1>1. FileInv
    BY DEF ReadInv
  <1>2. /\ InfoOK(mp_attrs) /\ feature_num = Len(mp_attrs) /\ feature_num \in Nat
        /\ width \in Nat \ {0} /\ width = feature_num + 1 /\ ClassNum \in Nat \ {0}
        /\ Len(ModelFile) = 1 + width * ClassNum /\ width * ClassNum \in Nat
    BY <1>1, FileFacts DEF width
  <1>3. probs[c] = Having(mp_attrs, c, LinesRead(c))
    BY DEF ReadInv, ProbsInv
  <1>4. ModelOf(c) = Having(mp_attrs, c, feature_num)
    BY <1>2, HavingAll
  <1>5. class_count \in Int /\ c \in Nat /\ c < ClassNum
        /\ \/ class_count = -1
           \/ class_count \in Classes /\ LinesRead(class_count) \in 0 .. feature_num
    <2>1. PlaceInv
      BY DEF ReadInv
    <2>2. c \in Nat /\ c < ClassNum /\ \A k \in Classes : k \in Int
      BY <1>2 DEF Classes
    <2>3. PICK u \in Nat : u = width * ClassNum
      BY <1>2
    <2>4. count \in 0 .. 1 + u
      BY <2>1, <2>3 DEF PlaceInv
    <2>5. CASE count <= 1
      BY <2>1, <2>2, <2>5 DEF PlaceInv
    <2>6. CASE count > 1
      BY <2>1, <2>2, <2>6 DEF PlaceInv
    <2> QED BY <2>4, <2>5, <2>6
  <1>6. LinesRead(c) \in 0 .. feature_num
    BY <1>2, <1>5 DEF LinesRead
  <1>7. IsPrefix(probs[c], ModelOf(c))
    BY <1>2, <1>3, <1>4, <1>6, HavingPrefix
  <1>8. ASSUME c < class_count
        PROVE  probs[c] = ModelOf(c)
    BY <1>3, <1>4, <1>8 DEF LinesRead
  <1>9. ASSUME c > class_count
        PROVE  Len(probs[c]) = 1
    <2>1. LinesRead(c) = 0
      BY <1>5, <1>9 DEF LinesRead
    <2> QED BY <1>2, <1>3, <2>1, HavingNone
  <1>10. ASSUME ModelRead
         PROVE  probs[c] = ModelOf(c)
    <2>1. count = 1 + width * ClassNum
      BY <1>2, <1>10 DEF ModelRead
    <2>2. width * ClassNum > 0
      BY <1>2
    <2>3. class_count \in Classes /\ LinesRead(class_count) \in 0 .. feature_num
      BY <1>2, <2>1, <2>2 DEF ReadInv, PlaceInv
    <2>4. LinesRead(class_count) = count - 2 - width * class_count
      BY <2>3 DEF LinesRead, Classes
    <2>5. PICK k \in Nat : k = class_count /\ k < ClassNum
      BY <1>2, <2>3 DEF Classes
    <2>6. k + 1 = ClassNum
      <3> SUFFICES ASSUME k + 2 <= ClassNum PROVE FALSE
        BY <1>2, <2>5
      <3>1. width * (k + 2) <= width * ClassNum
        BY <1>2, <2>5, TimesMonotone
      <3>2. width * (k + 2) = width * k + 2 * width
        BY <1>2
      <3>3. PICK x \in Nat : x = width * k
        BY <1>2
      <3>4. PICK y \in Nat : y = width * ClassNum
        BY <1>2
      <3>5. count - 2 - x <= feature_num
        BY <2>3, <2>4, <2>5, <3>3
      <3> QED BY <1>2, <2>1, <3>1, <3>2, <3>3, <3>4, <3>5
    <2>7. width * ClassNum = width * k + width
      BY <1>2, <2>6
    <2>8. LinesRead(class_count) = feature_num
      <3>1. PICK x \in Nat : x = width * k
        BY <1>2
      <3> QED BY <1>2, <2>1, <2>4, <2>5, <2>7, <3>1
    <2>9. CASE c = k
      BY <1>3, <1>4, <2>5, <2>8, <2>9
    <2>10. CASE c # k
      <3>1. c < class_count
        BY <1>5, <2>5, <2>6, <2>10
      <3> QED BY <1>8, <3>1
    <2> QED BY <2>9, <2>10
  <1> QED BY <1>7, <1>8, <1>9, <1>10

\* Every line of the model file ends up with the class it was written for, whatever
\* the numbers of classes, attributes and values.
THEOREM LinesInPlaceCorrect == Spec => []LinesInPlace
  BY ReadInvPlaces, ReadInvInit, ReadInvNext, PTL DEF Spec

-----------------------------------------------------------------------------
(* A row and the probabilities of a class, place by place.                   *)

\* The 0s and 1s of a sample.
Marks(b, s) == [a \in 1 .. Len(b) |-> [v \in 1 .. b[a] |-> IF v = s[a] THEN 1 ELSE 0]]
RowOf(b, s) == << 1 >> \o FlattenSeq(Marks(b, s))
Model(b, c) == Having(b, c, Len(b))

\* A sample has one of the values of each attribute.
IsSample(b, s) == \A a \in 1 .. Len(b) : s[a] \in 1 .. b[a]

LEMMA MarksType ==
    ASSUME NEW b, InfoOK(b), NEW s
    PROVE  /\ Len(b) \in Nat /\ Marks(b, s) \in [1 .. Len(b) -> Seq(Int)]
           /\ \A a \in 1 .. Len(b) : /\ Len(Marks(b, s)[a]) = b[a]
                                     /\ OneAt(Marks(b, s)[a], s[a])
  <1>1. Len(b) \in Nat /\ \A a \in 1 .. Len(b) : b[a] \in Nat
    BY SeqElements DEF InfoOK
  <1>2. ASSUME NEW a \in 1 .. Len(b)
        PROVE  /\ Marks(b, s)[a] \in Seq(Int) /\ Len(Marks(b, s)[a]) = b[a]
               /\ OneAt(Marks(b, s)[a], s[a])
    <2> DEFINE m == b[a]
               q == [v \in 1 .. m |-> IF v = s[a] THEN 1 ELSE 0]
    <2>1. Marks(b, s)[a] = q
      BY DEF Marks
    <2>2. m \in Nat /\ q \in [1 .. m -> Int] /\ \A x \in 1 .. m : q[x] = IF x = s[a] THEN 1 ELSE 0
      BY <1>1
    <2> HIDE DEF m, q
    <2>3. q \in Seq(Int) /\ Len(q) = m
      BY <2>2, FunctionIsSeq
    <2> QED BY <2>1, <2>2, <2>3 DEF OneAt, m
  <1>3. Marks(b, s) = [a \in 1 .. Len(b) |-> Marks(b, s)[a]]
    BY DEF Marks
  <1>4. Marks(b, s) \in [1 .. Len(b) -> Seq(Int)]
    BY <1>2, <1>3
  <1> QED BY <1>1, <1>2, <1>4

\* As many slots as there are values, and the one for the class.
LEMMA RowLength ==
    ASSUME NEW b, InfoOK(b), NEW c \in Classes, NEW s
    PROVE  /\ num_features(b) \in Nat
           /\ Model(b, c) \in Seq(Int) /\ Len(Model(b, c)) = num_features(b) + 1
           /\ RowOf(b, s) \in Seq(Int) /\ Len(RowOf(b, s)) = num_features(b) + 1
           /\ Joined(RowOf(b, s), << 1 >>, FlattenSeq(Marks(b, s)))
           /\ << 1 >> \in Seq(Int) /\ FlattenSeq(Marks(b, s)) \in Seq(Int)
           /\ Len(FlattenSeq(Marks(b, s))) = num_features(b)
           /\ Len(FlattenSeq(Lines(b, c, Len(b)))) = num_features(b)
  <1>1. Len(b) \in Nat /\ DOMAIN b = 1 .. Len(b) /\ Len(b) \in 0 .. Len(b)
        /\ \A a \in 1 .. Len(b) : b[a] \in Nat
    <2>1. Len(b) \in Nat /\ DOMAIN b = 1 .. Len(b) /\ \A a \in 1 .. Len(b) : b[a] \in Nat
      BY SeqElements DEF InfoOK
    <2> QED BY <2>1
  <1>2. num_features(b) = SumFunctionOnSet(b, 1 .. Len(b))
    BY <1>1 DEF num_features
  <1>3. num_features(b) \in Nat
    <2>1. IsFiniteSet(1 .. Len(b))
      BY <1>1, IntervalFinite
    <2> QED BY <1>1, <1>2, <2>1, SumNat
  <1>4. PICK z, ss, tt : z = Len(b) /\ ss = Lines(b, c, z) /\ tt = Marks(b, s)
    OBVIOUS
  <1>5. z \in Nat /\ ss \in [1 .. z -> Seq(Int)] /\ tt \in [1 .. z -> Seq(Int)]
    BY <1>1, <1>4, LineType, MarksType
  <1>6. Lengths(b, ss, z) /\ Lengths(b, tt, z)
    <2>1. \A a \in 1 .. z : ss[a] = Line(b, c, a) /\ Len(Line(b, c, a)) = b[a]
      BY <1>4, LineType DEF Lines
    <2>2. \A a \in 1 .. z : Len(tt[a]) = b[a]
      BY <1>4, MarksType
    <2> QED BY <2>1, <2>2 DEF Lengths
  <1>7. /\ Len(FlattenSeq(ss)) = SumFunctionOnSet(b, 1 .. z)
        /\ Len(FlattenSeq(tt)) = SumFunctionOnSet(b, 1 .. z)
    <2>1. z \in Nat
      BY <1>5
    <2> QED BY ONLY <1>5, <1>6, <2>1, FlattenLength
  <1>8. FlattenSeq(ss) \in Seq(Int) /\ FlattenSeq(tt) \in Seq(Int)
    BY <1>5, FlattenType
  <1>9. PICK p, o, x, y, X, Y : /\ p = << ClassProb(c) >> /\ o = << 1 >>
                                /\ x = FlattenSeq(ss) /\ y = FlattenSeq(tt)
                                /\ X = Model(b, c) /\ Y = RowOf(b, s)
    OBVIOUS
  <1>10. /\ p \in Seq(Int) /\ Len(p) = 1 /\ o \in Seq(Int) /\ Len(o) = 1
         /\ x \in Seq(Int) /\ y \in Seq(Int)
    <2>1. p \in Seq(Int) /\ Len(p) = 1
      BY <1>1, <1>9, HavingType
    <2>2. o \in Seq(Int) /\ Len(o) = 1
      BY <1>9
    <2> QED BY <1>8, <1>9, <2>1, <2>2
  <1>11. X = p \o x /\ Y = o \o y
    <2>1. X = p \o x
      BY <1>4, <1>9, Zenon DEF Model, Having
    <2>2. Y = o \o y
      BY <1>4, <1>9, Zenon DEF RowOf
    <2> QED BY <2>1, <2>2
  <1>12. X \in Seq(Int) /\ Len(X) = Len(p) + Len(x)
    BY ONLY <1>10, <1>11, ConcatIs
  <1>13. Y \in Seq(Int) /\ Len(Y) = Len(o) + Len(y)
    BY ONLY <1>10, <1>11, ConcatIs
  <1>14. PICK w \in Nat : w = num_features(b)
    BY <1>3
  <1>15. Len(x) = w /\ Len(y) = w
    BY <1>2, <1>4, <1>7, <1>9, <1>14, Zenon
  <1>16. Len(X) = w + 1 /\ Len(Y) = w + 1
    <2>1. 1 + w = w + 1
      BY <1>14
    <2> QED BY <1>10, <1>12, <1>13, <1>15, <2>1, Zenon
  <1> QED BY <1>3, <1>4, <1>9, <1>10, <1>11, <1>12, <1>13, <1>14, <1>15, <1>16, Zenon DEF Joined

\* The products of a class and a sample add up to the naive Bayes score.
LEMMA RowScore ==
    ASSUME NEW b, InfoOK(b), NEW c \in Classes, NEW s, IsSample(b, s)
    PROVE  /\ Dot(Model(b, c), RowOf(b, s))
                = ClassProb(c)
                    + SumFunctionOnSet([a \in 1 .. Len(b) |-> CondProb(c, a, s[a])], 1 .. Len(b))
           /\ Dot(Model(b, c), RowOf(b, s)) \in Int
  <1> DEFINE d == [a \in 1 .. Len(b) |-> CondProb(c, a, s[a])]
  <1>1. Len(b) \in Nat /\ Len(b) \in 0 .. Len(b)
    <2>1. Len(b) \in Nat
      BY LineType
    <2> QED BY <2>1
  <1>2. PICK z, ss, tt : z = Len(b) /\ ss = Lines(b, c, z) /\ tt = Marks(b, s)
    OBVIOUS
  <1>3. z \in Nat /\ ss \in [1 .. z -> Seq(Int)] /\ tt \in [1 .. z -> Seq(Int)]
    BY <1>1, <1>2, LineType, MarksType
  <1>4. \A a \in 1 .. z : /\ ss[a] = Line(b, c, a) /\ Len(ss[a]) = b[a] /\ ss[a] \in Seq(Int)
                         /\ Len(tt[a]) = b[a] /\ OneAt(tt[a], s[a]) /\ s[a] \in 1 .. b[a]
    <2>1. \A a \in 1 .. z : /\ ss[a] = Line(b, c, a) /\ Len(Line(b, c, a)) = b[a]
                            /\ Line(b, c, a) \in Seq(Int)
      BY <1>2, LineType DEF Lines
    <2>2. \A a \in 1 .. z : Len(tt[a]) = b[a] /\ OneAt(tt[a], s[a])
      BY <1>2, MarksType
    <2>3. \A a \in 1 .. z : s[a] \in 1 .. b[a]
      BY <1>2 DEF IsSample
    <2> QED BY <2>1, <2>2, <2>3, Zenon
  <1>5. SameLengths(ss, tt, z)
    BY <1>4 DEF SameLengths
  <1>6. Dots(d, ss, tt, z)
    <2> SUFFICES ASSUME NEW a \in 1 .. z PROVE d[a] = Dot(ss[a], tt[a])
      BY DEF Dots
    <2>1. PICK p, q, v : p = ss[a] /\ q = tt[a] /\ v = s[a]
      OBVIOUS
    <2>2. p \in Seq(Int) /\ Len(p) = Len(q) /\ v \in 1 .. Len(p) /\ OneAt(q, v)
      BY <1>4, <2>1
    <2>3. Dot(p, q) = p[v]
      BY ONLY <2>2, DotPicks
    <2>4. p[v] = CondProb(c, a, v)
      <3>1. p = Line(b, c, a) /\ v \in 1 .. b[a]
        BY <1>4, <2>1
      <3> QED BY <3>1 DEF Line
    <2>5. d[a] = CondProb(c, a, v)
      BY <1>2, <2>1
    <2> QED BY <2>1, <2>3, <2>4, <2>5, Zenon
  <1> HIDE DEF d
  <1>7. /\ Dot(FlattenSeq(ss), FlattenSeq(tt)) = SumFunctionOnSet(d, 1 .. z)
        /\ Len(FlattenSeq(ss)) = Len(FlattenSeq(tt))
        /\ \A a \in 1 .. z : d[a] \in Int
    <2>1. z \in Nat
      BY <1>3
    <2> QED BY ONLY <1>3, <1>5, <1>6, <2>1, FlattenDot
  <1>8. PICK p, o, x, y, X, Y : /\ p = << ClassProb(c) >> /\ o = << 1 >>
                                /\ x = FlattenSeq(ss) /\ y = FlattenSeq(tt)
                                /\ X = Model(b, c) /\ Y = RowOf(b, s)
    OBVIOUS
  <1>9. /\ p \in Seq(Int) /\ o \in Seq(Int) /\ x \in Seq(Int) /\ y \in Seq(Int)
        /\ Joined(X, p, x) /\ Joined(Y, o, y)
    <2>1. p \in Seq(Int) /\ x \in Seq(Int) /\ Joined(X, p, x)
      BY <1>1, <1>2, <1>8, HavingType, Zenon DEF Model
    <2>2. o \in Seq(Int) /\ y \in Seq(Int) /\ Joined(Y, o, y)
      BY <1>2, <1>8, RowLength, Zenon
    <2> QED BY <2>1, <2>2
  <1>10. Len(p) = Len(o) /\ Len(x) = Len(y)
    BY <1>7, <1>8
  <1>11. Dot(X, Y) = Dot(p, o) + Dot(x, y) /\ Dot(p, o) \in Int /\ Dot(x, y) \in Int
    BY ONLY <1>9, <1>10, DotConcat
  <1>12. Dot(p, o) = ClassProb(c)
    <2>1. ClassProb(c) \in Int
      BY ScoreAssumption
    <2> QED BY <1>8, <2>1, DotSingle
  <1>13. Dot(x, y) = SumFunctionOnSet(d, 1 .. z)
    BY <1>7, <1>8
  <1>14. Dot(X, Y) \in Int
    BY <1>11
  <1>15. Dot(X, Y) = ClassProb(c) + SumFunctionOnSet(d, 1 .. z)
    BY <1>11, <1>12, <1>13, Zenon
  <1> QED BY <1>2, <1>8, <1>14, <1>15, Zenon DEF d

-----------------------------------------------------------------------------
(* The slots.                                                                *)

\* With blocks of w slots, place r of block k is slot w * (k - 1) + r - 1.
InSlots(sl, ss, u, w) ==
    /\ \A k \in 1 .. u, r \in 1 .. w : /\ w * (k - 1) + r - 1 \in SlotIds
                                       /\ sl[w * (k - 1) + r - 1] = ss[k][r]
    /\ \A t \in SlotIds : sl[t] \in Int

LEMMA SlotPlaces ==
    ASSUME NEW w \in Nat, w # 0, NEW u \in Nat, w * u <= NumSlots,
           NEW ss \in [1 .. u -> Seq(Int)], AllLong(ss, u, w),
           NEW sl, sl = Padded(FlattenSeq(ss))
    PROVE  InSlots(sl, ss, u, w)
  <1>1. PICK s : s = FlattenSeq(ss)
    OBVIOUS
  <1>2. s \in Seq(Int) /\ InBlocks(s, ss, u, w)
    <2>1. FlattenSeq(ss) \in Seq(Int) /\ InBlocks(FlattenSeq(ss), ss, u, w)
      BY FlattenUniform
    <2> QED BY <1>1, <2>1
  <1>3. sl = [t \in SlotIds |-> IF t < Len(s) THEN s[t + 1] ELSE 0]
    BY <1>1 DEF Padded
  <1>4. PICK m \in Nat : m = w * u
    OBVIOUS
  <1>5. Len(s) = m /\ m <= NumSlots /\ NumSlots \in Nat
    BY <1>2, <1>4, SlotAssumption DEF InBlocks
  <1>6. ASSUME NEW k \in 1 .. u, NEW r \in 1 .. w
        PROVE  w * (k - 1) + r - 1 \in SlotIds /\ sl[w * (k - 1) + r - 1] = ss[k][r]
    <2>1. PICK x \in Int : x = w * (k - 1)
      OBVIOUS
    <2>2. x + r \in 1 .. m /\ s[x + r] = ss[k][r]
      BY <1>2, <1>4, <2>1 DEF InBlocks
    <2>3. x + r - 1 \in SlotIds /\ x + r - 1 < Len(s) /\ (x + r - 1) + 1 = x + r
      BY <1>5, <2>2 DEF SlotIds
    <2>4. sl[x + r - 1] = s[x + r]
      BY <1>3, <2>3
    <2> QED BY <2>1, <2>2, <2>3, <2>4
  <1>7. ASSUME NEW t \in SlotIds
        PROVE  sl[t] \in Int
    <2>1. t \in Nat
      BY <1>5 DEF SlotIds
    <2>2. CASE t < Len(s)
      <3>1. t + 1 \in 1 .. Len(s)
        BY <1>5, <2>1, <2>2
      <3>2. s[t + 1] \in Int
        BY <1>2, <3>1, SeqElements
      <3> QED BY <1>3, <2>2, <3>2
    <2>3. CASE ~ (t < Len(s))
      BY <1>3, <2>3
    <2> QED BY <2>2, <2>3
  <1> QED BY <1>6, <1>7 DEF InSlots

ScoreInv ==
    /\ ReadInv
    /\ LoopInv
    /\ n = num_features(attrs) + 1
    /\ ends \in LineEnds
    /\ samples \in [1 .. unit -> {r \in [DOMAIN attrs -> 1 .. NumSlots] :
                                     \A a \in DOMAIN attrs : r[a] <= attrs[a]}]

LEMMA ScoreInvInit == DataInit => ScoreInv
  <1> SUFFICES ASSUME DataInit PROVE ScoreInv
    OBVIOUS
  <1>1. ReadInv
    BY ReadInvInit
  <1>2. n = num_features(attrs) + 1 /\ attrs \in AttrChoices
    BY DEF DataInit
  <1>3. 0 \in Classes
    BY ScoreAssumption DEF Classes
  <1>4. num_features(attrs) \in Nat /\ num_features(attrs) < NumSlots
    BY <1>2, <1>3, InfoFilesOK, RowLength
  <1>5. n \in 1 .. NumSlots
    BY <1>2, <1>4, SlotAssumption
  <1>6. LoopInv
    BY <1>5, LoopInvInit DEF DataInit, SumsInit
  <1> QED BY <1>1, <1>2, <1>6 DEF ScoreInv, DataInit

LEMMA ScoreInvNext == ScoreInv /\ [Next]_scoreVars => ScoreInv'
  <1> SUFFICES ASSUME ScoreInv, [Next]_scoreVars PROVE ScoreInv'
    OBVIOUS
  <1>1. ReadInv'
    BY ReadInvNext DEF ScoreInv
  <1>2. [SumsNext]_slotVars
    BY DEF Next, ReadLine, ComputeSums, SumsNext, scoreVars
  <1>3. LoopInv'
    BY <1>2, LoopInvNext DEF ScoreInv
  <1>4. UNCHANGED << attrs, ends, samples, n >>
    BY DEF Next, ReadLine, ComputeSums, Turn, scoreVars, dataVars, slotVars
  <1> QED BY <1>1, <1>3, <1>4 DEF ScoreInv, unit

\* The files given are those the provider has built in, and end their lines with a
\* newline alone.
FilesMatch == LineEnds = {"LF"} /\ \A a \in AttrChoices : DefaultAttrs(a) = a

\* A row of the data file, encoded: a value is compared with those of the info file.
LEMMA RowIs ==
    ASSUME InfoOK(attrs), ends = "LF", NEW s
    PROVE  Row(s) = RowOf(attrs, s)
  <1>1. DOMAIN attrs = 1 .. Len(attrs)
    BY SeqElements DEF InfoOK
  <1>2. \A a \in 1 .. Len(attrs) : \A v \in 1 .. attrs[a] :
           attr_values[a][v] = [value |-> s[a], cr |-> FALSE] <=> v = s[a]
    <2> SUFFICES ASSUME NEW a \in 1 .. Len(attrs), NEW v \in 1 .. attrs[a]
                 PROVE  attr_values[a][v] = [value |-> s[a], cr |-> FALSE] <=> v = s[a]
      OBVIOUS
    <2>1. attr_values[a][v] = [value |-> v, cr |-> FALSE]
      <3>1. attr_values[a][v] = [value |-> v, cr |-> ends = "CRLF" /\ v = attrs[a]]
        BY <1>1 DEF attr_values
      <3>2. (ends = "CRLF" /\ v = attrs[a]) = FALSE
        OBVIOUS
      <3> QED BY <3>1, <3>2
    <2>2. PICK x : x = s[a]
      OBVIOUS
    <2>3. [value |-> v, cr |-> FALSE] = [value |-> x, cr |-> FALSE] => v = x
      <3>1. [value |-> v, cr |-> FALSE].value = v /\ [value |-> x, cr |-> FALSE].value = x
        OBVIOUS
      <3> QED BY <3>1, Zenon
    <2> QED BY <2>1, <2>2, <2>3, Zenon
  <1>3. [a \in DOMAIN attrs |->
            [v \in 1 .. attrs[a] |->
                IF attr_values[a][v] = [value |-> s[a], cr |-> FALSE] THEN 1 ELSE 0]]
        = Marks(attrs, s)
    BY <1>1, <1>2 DEF Marks
  <1> QED BY <1>3, Zenon DEF Row, RowOf

LEMMA ScoredFacts ==
    ASSUME ScoreInv, Scored, FilesMatch, NEW c \in Classes
    PROVE  /\ mp_attrs = attrs /\ InfoOK(attrs) /\ ends = "LF"
           /\ n \in Nat /\ n # 0 /\ n = num_features(attrs) + 1
           /\ unit \in Nat /\ n * unit <= NumSlots /\ unit = NumSlots \div n
           /\ probs[c] = Model(attrs, c)
           /\ \A k \in 1 .. unit : IsSample(attrs, samples[k])
  <1>1. mp_attrs = attrs /\ InfoOK(attrs) /\ ends = "LF"
    BY InfoFilesOK DEF ScoreInv, ReadInv, FileInv, FilesMatch
  <1>2. n \in Nat /\ n # 0 /\ n = num_features(attrs) + 1
    BY SlotAssumption DEF ScoreInv, LoopInv, SumsTypeOK
  <1>3. unit \in Nat /\ n * unit <= NumSlots /\ unit = NumSlots \div n
    BY <1>2, SlotAssumption DEF unit
  <1>4. probs[c] = Model(attrs, c)
    <2>1. count > 0
      <3>1. FileInv
        BY DEF ScoreInv, ReadInv
      <3>2. Len(ModelFile) = 1 + width * ClassNum /\ width * ClassNum \in Nat
        BY <3>1, FileFacts
      <3>3. count = Len(ModelFile)
        BY DEF Scored, ModelRead
      <3> QED BY <3>2, <3>3
    <2>2. probs[c] = ModelOf(c)
      BY <2>1, ReadInvPlaces DEF ScoreInv, LinesInPlace, Scored
    <2>3. ModelOf(c) = Having(mp_attrs, c, feature_num)
      BY <1>1, HavingAll
    <2> QED BY <1>1, <2>2, <2>3, Zenon DEF Model, feature_num
  <1>5. ASSUME NEW k \in 1 .. unit
        PROVE  IsSample(attrs, samples[k])
    <2>1. DOMAIN attrs = 1 .. Len(attrs) /\ \A a \in 1 .. Len(attrs) : attrs[a] \in Nat
      BY <1>1, SeqElements DEF InfoOK
    <2>2. samples[k] \in [DOMAIN attrs -> 1 .. NumSlots]
          /\ \A a \in DOMAIN attrs : samples[k][a] <= attrs[a]
      BY DEF ScoreInv
    <2> QED BY <2>1, <2>2, SlotAssumption DEF IsSample
  <1> QED BY <1>1, <1>2, <1>3, <1>4, <1>5

\* f has the products of p and q in block k of w slots, and nothing elsewhere.
Products(f, p, q, w, k) ==
    /\ \A t \in SlotIds : f[t] \in Int
    /\ \A t \in SlotIds : t \notin w * (k - 1) .. w * k - 1 => f[t] = 0
    /\ \A r \in 1 .. w : f[w * (k - 1) + r - 1] = p[r] * q[r]

\* The sum over a block is the sum over its places.
LEMMA BlockSum ==
    ASSUME NEW w \in Nat, w # 0, NEW k \in Nat, k # 0, w * k <= NumSlots,
           NEW p \in Seq(Int), NEW q \in Seq(Int), Len(p) = w, Len(q) = w,
           NEW f, Products(f, p, q, w, k)
    PROVE  SumFunctionOnSet(f, SlotIds) = Dot(p, q)
  <1> USE DEF Products
  <1> DEFINE g == [x \in 1 .. w |-> p[x] * q[x]]
  <1>1. PICK x \in Int : x = w * (k - 1)
    OBVIOUS
  <1>2. w * k = x + w /\ x >= 0
    BY <1>1
  <1> DEFINE d == x - 1
             B == d + 1 .. d + w
             R == SlotIds \ B
  <1>3. /\ NumSlots \in Nat /\ B = x .. x + w - 1 /\ B \subseteq SlotIds
        /\ SlotIds = B \cup R /\ B \cap R = {} /\ d \in Int
    <2>1. NumSlots \in Nat /\ x + w <= NumSlots
      BY <1>2, SlotAssumption
    <2> QED BY <1>2, <2>1 DEF SlotIds
  <1>4. IsFiniteSet(SlotIds) /\ IsFiniteSet(B) /\ IsFiniteSet(R)
    <2>1. 0 \in Int /\ NumSlots - 1 \in Int
      BY <1>3
    <2>2. IsFiniteSet(SlotIds)
      BY <2>1, FS_Interval DEF SlotIds
    <2> HIDE DEF B
    <2> QED BY <1>3, <2>2, FS_Subset
  <1>5. \A r \in 1 .. w : g[r] \in Int /\ f[d + r] = g[r]
    <2> SUFFICES ASSUME NEW r \in 1 .. w PROVE g[r] \in Int /\ f[d + r] = g[r]
      OBVIOUS
    <2>1. p[r] \in Int /\ q[r] \in Int /\ g[r] = p[r] * q[r]
      OBVIOUS
    <2>2. x + r - 1 = d + r
      OBVIOUS
    <2>3. f[x + r - 1] = p[r] * q[r]
      BY <1>1
    <2> HIDE DEF g, d
    <2>4. g[r] \in Int
      BY <2>1
    <2> QED BY <2>1, <2>2, <2>3, <2>4, Zenon
  <1>6. Dot(p, q) = SumFunctionOnSet(g, 1 .. w)
    BY DEF Dot
  <1> HIDE DEF g, d
  <1>7. SumFunctionOnSet(f, B) = SumFunctionOnSet(g, 1 .. w)
        /\ SumFunctionOnSet(g, 1 .. w) \in Int
    <2>1. w \in Nat /\ d \in Int
      BY <1>3
    <2> QED BY ONLY <1>5, <2>1, SumShift
  <1>8. \A t \in R : f[t] = 0
    <2>1. \A t \in R : t \in SlotIds /\ t \notin x .. x + w - 1
      BY <1>3
    <2>2. w * (k - 1) .. w * k - 1 = x .. x + w - 1
      BY <1>1, <1>2
    <2> HIDE DEF B, R
    <2> QED BY <2>1, <2>2
  <1> HIDE DEF B, R
  <1>9. SumFunctionOnSet(f, R) = 0
    BY <1>4, <1>8, SumZero
  <1>10. SumFunctionOnSet(f, B \cup R) = SumFunctionOnSet(f, B) + SumFunctionOnSet(f, R)
    <2>1. \A t \in B \cup R : f[t] \in Int
      BY <1>3
    <2> QED BY <1>3, <1>4, <2>1, SumUnion
  <1>11. PICK y \in Int : y = SumFunctionOnSet(g, 1 .. w)
    BY <1>7
  <1>12. SumFunctionOnSet(f, B \cup R) = y + 0
    BY <1>7, <1>9, <1>10, <1>11, Zenon
  <1> QED BY <1>3, <1>6, <1>11, <1>12

LEMMA ScoreSlotIs ==
    ASSUME ScoreInv, Scored, FilesMatch, NEW c \in Classes, NEW k \in 1 .. unit
    PROVE  ScoreSlot(c, n * k - 1) = Dot(Model(attrs, c), RowOf(attrs, samples[k]))
  <1>1. /\ mp_attrs = attrs /\ InfoOK(attrs) /\ ends = "LF"
        /\ n \in Nat /\ n # 0 /\ n = num_features(attrs) + 1
        /\ unit \in Nat /\ n * unit <= NumSlots /\ unit = NumSlots \div n
        /\ probs[c] = Model(attrs, c)
    BY ScoredFacts
  <1>2. PICK w, u, p : w = n /\ u = unit /\ p = Model(attrs, c)
    OBVIOUS
  <1>3. w \in Nat /\ w # 0 /\ u \in Nat /\ w * u <= NumSlots /\ k \in 1 .. u
    BY <1>1, <1>2
  <1>4. p \in Seq(Int) /\ Len(p) = w
    BY <1>1, <1>2, RowLength
  <1> DEFINE ss == [j \in 1 .. u |-> p]
             tt == [j \in 1 .. u |-> RowOf(attrs, samples[j])]
             s == n * k - 1
             f == [t \in SlotIds |-> ctxt[s][t] * ModelSlots(c)[t] * InputSlots[t]]
  <1>5. ModelSlots(c) = Padded(FlattenSeq(ss))
    <2>1. NumSlots \div (num_features(mp_attrs) + 1) = u /\ probs[c] = p
      BY <1>1, <1>2
    <2> QED BY <2>1, Zenon DEF ModelSlots
  <1>6. InputSlots = Padded(FlattenSeq(tt))
    <2>1. \A j \in 1 .. u : Row(samples[j]) = RowOf(attrs, samples[j])
      BY <1>1, RowIs
    <2>2. [j \in 1 .. unit |-> Row(samples[j])] = tt
      BY <1>2, <2>1
    <2> HIDE DEF tt
    <2> QED BY <2>2, Zenon DEF InputSlots
  <1>7. ss \in [1 .. u -> Seq(Int)] /\ AllLong(ss, u, w)
    BY <1>4 DEF AllLong
  <1>8. tt \in [1 .. u -> Seq(Int)] /\ AllLong(tt, u, w)
    <2>1. \A j \in 1 .. u : RowOf(attrs, samples[j]) \in Seq(Int)
                           /\ Len(RowOf(attrs, samples[j])) = w
      BY <1>1, <1>2, RowLength
    <2> QED BY <2>1 DEF AllLong
  <1>9. ss[k] = p /\ tt[k] = RowOf(attrs, samples[k])
    BY <1>3
  <1> HIDE DEF ss, tt
  <1>10. PICK M, I : M = ModelSlots(c) /\ I = InputSlots
    OBVIOUS
  <1>11. InSlots(M, ss, u, w)
    <2>1. M = Padded(FlattenSeq(ss))
      BY <1>5, <1>10
    <2> QED BY ONLY <1>3, <1>7, <2>1, SlotPlaces
  <1>12. InSlots(I, tt, u, w)
    <2>1. I = Padded(FlattenSeq(tt))
      BY <1>6, <1>10
    <2> QED BY ONLY <1>3, <1>8, <2>1, SlotPlaces
  <1>13. \A t \in SlotIds : ctxt[s][t] = IF t \in w * (k - 1) .. w * k - 1 THEN 1 ELSE 0
    <2>1. BlocksSeparate /\ Done
      BY LoopInvBlocks DEF ScoreInv, Scored
    <2> QED BY <1>1, <1>2, <2>1 DEF BlocksSeparate
  <1>14. \A t \in SlotIds : f[t] = ctxt[s][t] * M[t] * I[t]
    BY <1>10
  <1>15. ScoreSlot(c, s) = SumFunctionOnSet(f, SlotIds)
    <2>1. DOMAIN f = SlotIds
      OBVIOUS
    <2>2. ScoreSlot(c, s) = SumFunctionOnSet(f, DOMAIN f)
      BY DEF ScoreSlot, SumFunction
    <2> HIDE DEF f
    <2> QED BY <2>1, <2>2
  <1> HIDE DEF f, s
  <1>16. \A t \in SlotIds : f[t] \in Int
    <2> SUFFICES ASSUME NEW t \in SlotIds PROVE f[t] \in Int
      OBVIOUS
    <2>1. M[t] \in Int /\ I[t] \in Int /\ ctxt[s][t] \in Int
      BY <1>11, <1>12, <1>13 DEF InSlots
    <2> QED BY <1>14, <2>1
  <1>17. \A t \in SlotIds : t \notin w * (k - 1) .. w * k - 1 => f[t] = 0
    <2> SUFFICES ASSUME NEW t \in SlotIds, t \notin w * (k - 1) .. w * k - 1 PROVE f[t] = 0
      OBVIOUS
    <2>1. M[t] \in Int /\ I[t] \in Int /\ ctxt[s][t] = 0
      BY <1>11, <1>12, <1>13 DEF InSlots
    <2> QED BY <1>14, <2>1
  <1>18. PICK q : q = RowOf(attrs, samples[k])
    OBVIOUS
  <1>19. q \in Seq(Int) /\ Len(q) = w
    BY <1>8, <1>9, <1>18, <1>3 DEF AllLong
  <1>20. \A r \in 1 .. w : f[w * (k - 1) + r - 1] = p[r] * q[r]
    <2> SUFFICES ASSUME NEW r \in 1 .. w PROVE f[w * (k - 1) + r - 1] = p[r] * q[r]
      OBVIOUS
    <2>1. PICK t : t = w * (k - 1) + r - 1
      OBVIOUS
    <2>2. t \in SlotIds /\ M[t] = p[r] /\ I[t] = q[r]
      BY <1>3, <1>9, <1>11, <1>12, <1>18, <2>1, Zenon DEF InSlots
    <2>3. t \in w * (k - 1) .. w * k - 1
      <3>1. PICK x \in Int : x = w * (k - 1)
        BY <1>3
      <3>2. w * k = x + w
        BY <1>3, <3>1
      <3> QED BY <1>3, <2>1, <3>1, <3>2
    <2>4. ctxt[s][t] = 1 /\ p[r] \in Int /\ q[r] \in Int
      BY <1>4, <1>13, <1>19, <2>2, <2>3
    <2>5. f[t] = 1 * p[r] * q[r]
      BY <1>14, <2>2, <2>4, Zenon
    <2> QED BY <2>1, <2>4, <2>5
  <1>21. SumFunctionOnSet(f, SlotIds) = Dot(p, q)
    <2>1. k \in Nat /\ k # 0 /\ w * k <= NumSlots
      <3>1. k \in Nat /\ k # 0 /\ k <= u
        BY <1>3
      <3>2. w * k <= w * u
        BY <1>3, <3>1, TimesMonotone
      <3> QED BY <1>3, <3>1, <3>2, SlotAssumption
    <2>2. Products(f, p, q, w, k)
      BY <1>16, <1>17, <1>20 DEF Products
    <2> QED BY ONLY <1>3, <1>4, <1>19, <2>1, <2>2, BlockSum
  <1> QED BY <1>2, <1>15, <1>18, <1>21, Zenon DEF s

LEMMA ScoreInvScores == ASSUME FilesMatch, ScoreInv PROVE ScoresAreNaiveBayes
  <1> SUFFICES ASSUME Scored, NEW c \in Classes, NEW k \in 1 .. unit
               PROVE  ScoreSlot(c, n * k - 1) = NaiveBayes(c, samples[k])
    BY DEF ScoresAreNaiveBayes
  <1>1. InfoOK(attrs) /\ IsSample(attrs, samples[k])
    BY ScoredFacts
  <1>2. DOMAIN attrs = 1 .. Len(attrs)
    BY <1>1, SeqElements DEF InfoOK
  <1> QED BY <1>1, <1>2, ScoreSlotIs, RowScore DEF NaiveBayes, SumFunction

\* The slot of every data item holds the naive Bayes score of its row, for every
\* model, info file and number of slots, once the files match.
THEOREM ScoresCorrect == ASSUME FilesMatch PROVE Spec => []ScoresAreNaiveBayes
  BY ScoreInvScores, ScoreInvInit, ScoreInvNext, PTL DEF Spec

-----------------------------------------------------------------------------
(* createData.py finds the classes by the empty lines.                       *)

\* The blocks after q whole ones and r lines of the next.
Built(b, q, r) == [j \in 1 .. q + 1 |-> Lines(b, j - 1, IF j <= q THEN Len(b) ELSE r)]

AfterLine(blocks, line) ==
    IF line = <<>> THEN Append(blocks, <<>>)
    ELSE [blocks EXCEPT ![Len(blocks)] = Append(@, line)]

Reads(f, L, g) ==
    g = [m \in 0 .. L |-> IF m = 0 THEN << <<>> >> ELSE AfterLine(g[m - 1], f[m + 2])]

LEMMA LinesNone == ASSUME NEW b, NEW c PROVE Lines(b, c, 0) = <<>>
  BY DEF Lines

LEMMA LinesNext ==
    ASSUME NEW b, InfoOK(b), NEW c \in Classes, NEW r \in Nat, r + 1 \in 1 .. Len(b)
    PROVE  Lines(b, c, r + 1) = Append(Lines(b, c, r), Line(b, c, r + 1))
  <1>1. Len(b) \in Nat
    BY LineType
  <1>2. PICK s, t, x : s = Lines(b, c, r) /\ t = Lines(b, c, r + 1) /\ x = Line(b, c, r + 1)
    OBVIOUS
  <1>3. r \in 0 .. Len(b) /\ r + 1 \in 0 .. Len(b) /\ r + 1 \in Nat
    BY <1>1
  <1>4. s \in [1 .. r -> Seq(Int)] /\ t \in [1 .. r + 1 -> Seq(Int)] /\ x \in Seq(Int)
    BY <1>2, <1>3, LineType
  <1>5. (\A k \in 1 .. r : s[k] = t[k]) /\ t[r + 1] = x
    BY <1>2 DEF Lines
  <1>6. PICK T : T = Seq(Int)
    OBVIOUS
  <1>7. s \in Seq(T) /\ Len(s) = r /\ t \in Seq(T) /\ Len(t) = r + 1 /\ x \in T
    BY <1>3, <1>4, <1>6, FunctionIsSeq
  <1>8. PICK y : y = Append(s, x)
    OBVIOUS
  <1>9. y \in Seq(T) /\ Len(y) = r + 1 /\ y[r + 1] = x /\ \A k \in 1 .. r : y[k] = s[k]
    BY ONLY <1>7, <1>8
  <1>10. \A k \in 1 .. r + 1 : t[k] = y[k]
    <2> SUFFICES ASSUME NEW k \in 1 .. r + 1 PROVE t[k] = y[k]
      OBVIOUS
    <2>1. k \in 1 .. r \/ k = r + 1
      OBVIOUS
    <2> QED BY <1>5, <1>9, <2>1, Zenon
  <1>11. t = y
    BY ONLY <1>7, <1>9, <1>10, SeqEqual
  <1> QED BY <1>2, <1>8, <1>11

LEMMA BuiltStart == ASSUME NEW b PROVE Built(b, 0, 0) = << <<>> >>
  <1> DEFINE g == [j \in 1 .. 0 + 1 |-> Lines(b, j - 1, IF j <= 0 THEN Len(b) ELSE 0)]
  <1>1. Built(b, 0, 0) = g
    BY Zenon DEF Built
  <1>2. \A j \in 1 .. 0 + 1 : g[j] = <<>>
    BY LinesNone
  <1>3. g = [j \in 1 .. 0 + 1 |-> g[j]]
    OBVIOUS
  <1> HIDE DEF g
  <1>4. g = [j \in 1 .. 1 |-> <<>>]
    BY <1>2, <1>3
  <1>5. [j \in 1 .. 1 |-> <<>>] = << <<>> >>
    OBVIOUS
  <1> QED BY <1>1, <1>4, <1>5

LEMMA BuiltType ==
    ASSUME NEW b, InfoOK(b), NEW q \in Classes, NEW r \in 0 .. Len(b)
    PROVE  /\ q \in Nat /\ Built(b, q, r) \in Seq(Seq(Seq(Int))) /\ Len(Built(b, q, r)) = q + 1
           /\ \A j \in 1 .. q + 1 :
                 Built(b, q, r)[j] = Lines(b, j - 1, IF j <= q THEN Len(b) ELSE r)
           /\ \A j \in 1 .. q + 1 : Built(b, q, r)[j] \in Seq(Seq(Int))
  <1>1. q \in Nat /\ q < ClassNum /\ ClassNum \in Nat /\ Len(b) \in Nat
    BY ScoreAssumption, LineType DEF Classes
  <1>2. \A j \in 1 .. q + 1 :
           Built(b, q, r)[j] = Lines(b, j - 1, IF j <= q THEN Len(b) ELSE r)
    BY DEF Built
  <1>3. ASSUME NEW j \in 1 .. q + 1
        PROVE  Built(b, q, r)[j] \in Seq(Seq(Int))
    <2>1. j - 1 \in Classes
      BY <1>1 DEF Classes
    <2>2. PICK m \in 0 .. Len(b) : m = IF j <= q THEN Len(b) ELSE r
      BY <1>1
    <2>3. Lines(b, j - 1, m) \in [1 .. m -> Seq(Int)] /\ m \in Nat
      BY <1>1, <2>1, LineType
    <2>4. Lines(b, j - 1, m) \in Seq(Seq(Int))
      BY <2>3, FunctionIsSeq
    <2> QED BY <1>2, <2>2, <2>4
  <1>4. PICK T : T = Seq(Seq(Int))
    OBVIOUS
  <1>5. Built(b, q, r) \in [1 .. q + 1 -> T]
    BY <1>3, <1>4 DEF Built
  <1>6. q + 1 \in Nat
    BY <1>1
  <1>7. Built(b, q, r) \in Seq(T) /\ Len(Built(b, q, r)) = q + 1
    BY <1>5, <1>6, FunctionIsSeq
  <1> QED BY <1>1, <1>2, <1>3, <1>4, <1>7

\* A line of probabilities goes to the last block, an empty one starts another.
LEMMA BuiltLine ==
    ASSUME NEW b, InfoOK(b), NEW q \in Classes, NEW r \in Nat, r + 1 \in 1 .. Len(b)
    PROVE  AfterLine(Built(b, q, r), Line(b, q, r + 1)) = Built(b, q, r + 1)
  <1>1. Len(b) \in Nat /\ r \in 0 .. Len(b) /\ r + 1 \in 0 .. Len(b)
    <2>1. Len(b) \in Nat
      BY LineType
    <2> QED BY <2>1
  <1>2. PICK s, t, x : s = Built(b, q, r) /\ t = Built(b, q, r + 1) /\ x = Line(b, q, r + 1)
    OBVIOUS
  <1>3. PICK T : T = Seq(Seq(Int))
    OBVIOUS
  <1>4. /\ q \in Nat /\ s \in Seq(T) /\ Len(s) = q + 1 /\ t \in Seq(T) /\ Len(t) = q + 1
        /\ \A j \in 1 .. q + 1 : s[j] = Lines(b, j - 1, IF j <= q THEN Len(b) ELSE r)
        /\ \A j \in 1 .. q + 1 : t[j] = Lines(b, j - 1, IF j <= q THEN Len(b) ELSE r + 1)
    BY <1>1, <1>2, <1>3, BuiltType
  <1>5. x # <<>>
    BY <1>2, LineType
  <1>6. q + 1 \in 1 .. q + 1 /\ (q + 1) - 1 = q /\ ~ (q + 1 <= q)
    BY <1>4
  <1>7. s[q + 1] = Lines(b, q, r) /\ t[q + 1] = Lines(b, q, r + 1)
    BY <1>4, <1>6, Zenon
  <1>8. t[q + 1] = Append(s[q + 1], x)
    BY <1>2, <1>7, LinesNext
  <1>9. ASSUME NEW j \in 1 .. q + 1, j # q + 1
        PROVE  t[j] = s[j]
    <2>1. j <= q
      BY <1>4, <1>9
    <2> QED BY <1>4, <2>1
  <1>10. AfterLine(s, x) = [s EXCEPT ![q + 1] = Append(@, x)]
    BY <1>4, <1>5, Zenon DEF AfterLine
  <1>11. PICK y, z : z = Append(s[q + 1], x) /\ y = [s EXCEPT ![q + 1] = z]
    OBVIOUS
  <1>12. AfterLine(s, x) = y
    BY <1>10, <1>11
  <1>13. /\ DOMAIN s = 1 .. q + 1 /\ DOMAIN t = 1 .. q + 1 /\ t = [j \in 1 .. q + 1 |-> t[j]]
    BY <1>3, <1>4
  <1>14. y = [j \in 1 .. q + 1 |-> IF j = q + 1 THEN z ELSE s[j]]
    BY <1>11, <1>13
  <1>15. \A j \in 1 .. q + 1 : t[j] = IF j = q + 1 THEN z ELSE s[j]
    BY <1>8, <1>9, <1>11, Zenon
  <1>16. y = t
    BY <1>13, <1>14, <1>15
  <1> QED BY <1>2, <1>12, <1>16

LEMMA BuiltClass ==
    ASSUME NEW b, InfoOK(b), NEW q \in Classes, q + 1 \in Classes
    PROVE  AfterLine(Built(b, q, Len(b)), <<>>) = Built(b, q + 1, 0)
  <1>1. Len(b) \in Nat /\ Len(b) \in 0 .. Len(b) /\ 0 \in 0 .. Len(b)
    <2>1. Len(b) \in Nat
      BY LineType
    <2> QED BY <2>1
  <1>2. PICK s, t : s = Built(b, q, Len(b)) /\ t = Built(b, q + 1, 0)
    OBVIOUS
  <1>3. PICK T : T = Seq(Seq(Int))
    OBVIOUS
  <1>4. /\ q \in Nat /\ s \in Seq(T) /\ Len(s) = q + 1
        /\ \A j \in 1 .. q + 1 : s[j] = Lines(b, j - 1, IF j <= q THEN Len(b) ELSE Len(b))
    BY <1>1, <1>2, <1>3, BuiltType
  <1>5. /\ t \in Seq(T) /\ Len(t) = (q + 1) + 1
        /\ \A j \in 1 .. (q + 1) + 1 : t[j] = Lines(b, j - 1, IF j <= q + 1 THEN Len(b) ELSE 0)
    BY <1>1, <1>2, <1>3, BuiltType
  <1>6. PICK y, x : x = <<>> /\ y = Append(s, x)
    OBVIOUS
  <1>7. x \in T
    <2>1. <<>> \in Seq(Seq(Int))
      OBVIOUS
    <2> QED BY <1>3, <1>6, <2>1
  <1>8. /\ y \in Seq(T) /\ Len(y) = (q + 1) + 1 /\ y[(q + 1) + 1] = x
        /\ \A j \in 1 .. q + 1 : y[j] = s[j]
    <2>1. q + 1 \in Nat
      BY <1>4
    <2> HIDE <1>6
    <2>2. s \in Seq(T) /\ Len(s) = q + 1
      BY <1>4
    <2>3. y = Append(s, x)
      BY <1>6
    <2> QED BY ONLY <1>7, <2>1, <2>2, <2>3
  <1>9. \A j \in 1 .. (q + 1) + 1 : t[j] = y[j]
    <2> SUFFICES ASSUME NEW j \in 1 .. (q + 1) + 1 PROVE t[j] = y[j]
      OBVIOUS
    <2>1. CASE j = (q + 1) + 1
      <3>1. ~ (j <= q + 1)
        BY <1>4, <2>1
      <3>2. t[j] = Lines(b, j - 1, 0)
        BY <1>5, <3>1
      <3> QED BY <1>6, <1>8, <2>1, <3>2, LinesNone, Zenon
    <2>2. CASE j # (q + 1) + 1
      <3>1. j \in 1 .. q + 1 /\ j <= q + 1
        BY <1>4, <2>2
      <3>2. t[j] = Lines(b, j - 1, Len(b)) /\ s[j] = Lines(b, j - 1, Len(b))
        BY <1>4, <1>5, <3>1
      <3> QED BY <1>8, <3>1, <3>2
    <2> QED BY <2>1, <2>2
  <1>10. t = y
    <2>1. t \in Seq(T) /\ Len(t) = Len(y) /\ \A j \in 1 .. Len(t) : t[j] = y[j]
      BY <1>5, <1>8, <1>9
    <2>2. y \in Seq(T)
      BY <1>8
    <2> QED BY ONLY <2>1, <2>2, SeqEqual
  <1>11. AfterLine(s, x) = y
    BY <1>6, Zenon DEF AfterLine
  <1> QED BY <1>2, <1>6, <1>10, <1>11, Zenon

\* What stands in the file behind m lines of probabilities and classes.
LEMMA LineAfter ==
    ASSUME FileInv, NEW m \in Nat, m + 2 < Len(ModelFile)
    PROVE  \E q \in Classes, r \in 0 .. feature_num :
              /\ m \div width = q /\ m % width = r
              /\ \/ /\ r < feature_num /\ (m + 1) \div width = q /\ (m + 1) % width = r + 1
                    /\ ModelFile[(m + 1) + 2] = Line(mp_attrs, q, r + 1)
                 \/ /\ r = feature_num /\ (m + 1) \div width = q + 1 /\ (m + 1) % width = 0
                    /\ q + 1 \in Classes /\ ModelFile[(m + 1) + 2] = <<>>
  <1>1. /\ InfoOK(mp_attrs) /\ feature_num = Len(mp_attrs) /\ feature_num \in Nat
        /\ width \in Nat \ {0} /\ width = feature_num + 1 /\ ClassNum \in Nat \ {0}
        /\ Len(ModelFile) = 1 + width * ClassNum
    BY FileFacts DEF width
  <1>2. PICK w : w = width
    OBVIOUS
  <1>3. w \in Nat \ {0} /\ w = feature_num + 1 /\ feature_num \in Nat
    BY <1>1, <1>2
  <1>0. PICK q, r : q = m \div w /\ r = (m % w)
    OBVIOUS
  <1>4. q \in Int /\ r \in 0 .. w - 1 /\ m = w * q + r
    <2>1. m \in Int
      OBVIOUS
    <2>2. m \div w \in Int /\ m % w \in 0 .. w - 1 /\ m = w * (m \div w) + (m % w)
      BY <1>3, <2>1, DivMod
    <2> QED BY <1>0, <2>2, Zenon
  <1>5. PICK x \in Int : x = w * q
    BY <1>3, <1>4
  <1>6. m = x + r /\ r \in 0 .. feature_num
    BY <1>3, <1>4, <1>5
  <1>7. PICK y \in Nat : y = w * ClassNum
    BY <1>1, <1>3
  <1>8. m + 2 < 1 + y
    BY <1>1, <1>2, <1>7
  <1>9. q >= 0
    <2> SUFFICES ASSUME q <= -1 PROVE FALSE
      BY <1>4
    <2>1. w * q <= w * (-1)
      BY <1>3, <1>4, TimesMonotone
    <2>2. w * (-1) = -w
      BY <1>3
    <2> QED BY <1>3, <1>5, <1>6, <2>1, <2>2
  <1>10. ASSUME NEW p \in Int, w * p < y
         PROVE  p < ClassNum
    <2> SUFFICES ASSUME ClassNum <= p PROVE FALSE
      BY <1>1, <1>10
    <2>1. w * ClassNum <= w * p
      BY <1>1, <1>3, TimesMonotone
    <2>2. PICK z \in Int : z = w * p
      BY <1>3
    <2> QED BY <1>7, <1>10, <2>1, <2>2
  <1>11. q \in Classes
    <2>1. w * q < y
      BY <1>5, <1>6, <1>7, <1>8
    <2> QED BY <1>1, <1>4, <1>9, <1>10, <2>1 DEF Classes
  <1>12. CASE r < feature_num
    <2>1. m + 1 = w * q + (r + 1) /\ r + 1 \in 0 .. w - 1
      BY <1>3, <1>5, <1>6, <1>12
    <2>2. (m + 1) \div w = q /\ (m + 1) % w = r + 1
      <3>1. (w * q + (r + 1)) \div w = q /\ (w * q + (r + 1)) % w = r + 1
        BY <1>3, <1>4, <2>1, DivUnique
      <3> QED BY <2>1, <3>1, Zenon
    <2>3. BlockAt(ModelFile, mp_attrs, q)
      BY <1>1, <1>11, FilePlaces
    <2>4. r + 1 \in 1 .. Len(mp_attrs)
      BY <1>1, <1>6, <1>12
    <2>5. ModelFile[((Len(mp_attrs) + 1) * q + 2) + (r + 1)] = Line(mp_attrs, q, r + 1)
      BY <2>3, <2>4 DEF BlockAt
    <2>6. ((Len(mp_attrs) + 1) * q + 2) + (r + 1) = (m + 1) + 2
      <3>1. (Len(mp_attrs) + 1) * q = x
        BY <1>1, <1>3, <1>5
      <3> QED BY <1>4, <1>5, <1>6, <3>1
    <2> QED BY <1>0, <1>2, <1>6, <1>11, <1>12, <2>2, <2>5, <2>6
  <1>13. CASE ~ (r < feature_num)
    <2>1. r = feature_num
      BY <1>1, <1>6, <1>13
    <2>2. m + 1 = x + w /\ w * (q + 1) = x + w /\ 0 \in 0 .. w - 1
      BY <1>3, <1>4, <1>5, <1>6, <2>1
    <2>3. m + 1 = w * (q + 1) + 0 /\ q + 1 \in Int
      BY <1>4, <2>2
    <2>4. (m + 1) \div w = q + 1 /\ (m + 1) % w = 0
      <3>1. (w * (q + 1) + 0) \div w = q + 1 /\ (w * (q + 1) + 0) % w = 0
        BY <1>3, <2>2, <2>3, DivUnique
      <3> QED BY <2>3, <3>1, Zenon
    <2>5. q + 1 \in Classes
      <3>1. w * (q + 1) < y
        BY <1>5, <1>7, <1>8, <2>2
      <3> QED BY <1>1, <1>4, <1>9, <1>10, <3>1 DEF Classes
    <2>6. BlockAt(ModelFile, mp_attrs, q + 1)
      BY <1>1, <2>5, FilePlaces
    <2>7. ModelFile[(Len(mp_attrs) + 1) * (q + 1) + 2] = <<>>
      BY <2>6 DEF BlockAt
    <2>8. (Len(mp_attrs) + 1) * (q + 1) + 2 = (m + 1) + 2
      <3>1. (Len(mp_attrs) + 1) * (q + 1) = x + w
        BY <1>1, <1>3, <2>2
      <3> QED BY <2>2, <3>1
    <2> QED BY <1>0, <1>2, <1>6, <1>11, <2>1, <2>4, <2>5, <2>7, <2>8
  <1> QED BY <1>12, <1>13

LEMMA ReadsBuilt ==
    ASSUME FileInv
    PROVE  Reads(ModelFile, Len(ModelFile) - 2,
                 [m \in 0 .. Len(ModelFile) - 2 |-> Built(mp_attrs, m \div width, m % width)])
  <1>1. /\ InfoOK(mp_attrs) /\ feature_num = Len(mp_attrs) /\ feature_num \in Nat
        /\ width \in Nat \ {0} /\ width = feature_num + 1 /\ ClassNum \in Nat \ {0}
        /\ Len(ModelFile) = 1 + width * ClassNum /\ width * ClassNum \in Nat
    BY FileFacts DEF width
  <1>2. PICK f, L : f = ModelFile /\ L = Len(ModelFile) - 2
    OBVIOUS
  <1>3. L \in Int
    BY <1>1, <1>2
  <1> DEFINE At(m) == Built(mp_attrs, m \div width, m % width)
             h == [m \in 0 .. L |-> At(m)]
  <1>4. ASSUME NEW m \in 0 .. L
        PROVE  At(m) = IF m = 0 THEN << <<>> >> ELSE AfterLine(h[m - 1], f[m + 2])
    <2>1. CASE m = 0
      <3>1. 0 = width * 0 + 0 /\ 0 \in 0 .. width - 1
        BY <1>1
      <3>2. 0 \div width = 0 /\ 0 % width = 0
        BY <1>1, <3>1, DivUnique
      <3>3. At(0) = << <<>> >>
        BY <3>2, BuiltStart, Zenon
      <3> HIDE DEF At, h
      <3> QED BY <2>1, <3>3
    <2>2. CASE m # 0
      <3>1. PICK k \in Nat : m = k + 1 /\ k + 2 < Len(ModelFile) /\ k \in 0 .. L
        <4>1. m - 1 \in Nat /\ m = (m - 1) + 1 /\ m - 1 \in 0 .. L /\ (m - 1) + 2 < Len(ModelFile)
          BY <1>1, <1>2, <1>3, <2>2
        <4> QED BY <4>1, Zenon
      <3>2. m - 1 = k /\ m + 2 = (k + 1) + 2
        BY <3>1
      <3>3. h[m - 1] = At(k)
        BY <3>1, <3>2
      <3>4. PICK q \in Classes, r \in 0 .. feature_num :
              /\ k \div width = q /\ k % width = r
              /\ \/ /\ r < feature_num /\ (k + 1) \div width = q /\ (k + 1) % width = r + 1
                    /\ ModelFile[(k + 1) + 2] = Line(mp_attrs, q, r + 1)
                 \/ /\ r = feature_num /\ (k + 1) \div width = q + 1 /\ (k + 1) % width = 0
                    /\ q + 1 \in Classes /\ ModelFile[(k + 1) + 2] = <<>>
        BY <3>1, LineAfter
      <3>5. At(k) = Built(mp_attrs, q, r)
        BY <3>4, Zenon
      <3>6. At(m) = Built(mp_attrs, (k + 1) \div width, (k + 1) % width)
        BY <3>1, Zenon
      <3> HIDE DEF At, h
      <3>7. CASE r < feature_num
        <4>1. /\ (k + 1) \div width = q /\ (k + 1) % width = r + 1
              /\ ModelFile[(k + 1) + 2] = Line(mp_attrs, q, r + 1)
          BY <1>1, <3>4, <3>7
        <4>2. AfterLine(Built(mp_attrs, q, r), Line(mp_attrs, q, r + 1))
                = Built(mp_attrs, q, r + 1)
          <5>1. r \in Nat /\ r + 1 \in 1 .. Len(mp_attrs)
            BY <1>1, <3>7
          <5> QED BY <1>1, <5>1, BuiltLine
        <4>3. At(m) = AfterLine(h[m - 1], f[m + 2])
          BY <1>2, <3>2, <3>3, <3>5, <3>6, <4>1, <4>2, Zenon
        <4> QED BY <2>2, <4>3
      <3>8. CASE ~ (r < feature_num)
        <4>1. /\ (k + 1) \div width = q + 1 /\ (k + 1) % width = 0 /\ r = Len(mp_attrs)
              /\ q + 1 \in Classes /\ ModelFile[(k + 1) + 2] = <<>>
          BY <1>1, <3>4, <3>8
        <4>2. AfterLine(Built(mp_attrs, q, Len(mp_attrs)), <<>>) = Built(mp_attrs, q + 1, 0)
          BY <1>1, <4>1, BuiltClass
        <4>3. At(m) = AfterLine(h[m - 1], f[m + 2])
          BY <1>2, <3>2, <3>3, <3>5, <3>6, <4>1, <4>2, Zenon
        <4> QED BY <2>2, <4>3
      <3> QED BY <3>7, <3>8
    <2> QED BY <2>1, <2>2
  <1>5. Reads(f, L, h)
    <2> HIDE DEF At
    <2>1. h = [m \in 0 .. L |-> IF m = 0 THEN << <<>> >> ELSE AfterLine(h[m - 1], f[m + 2])]
      <3>1. \A m \in 0 .. L : At(m) = IF m = 0 THEN << <<>> >> ELSE AfterLine(h[m - 1], f[m + 2])
        BY <1>4
      <3> QED BY <3>1, Zenon
    <2> HIDE DEF h
    <2> QED BY <2>1 DEF Reads
  <1> QED BY <1>2, <1>5, Zenon

\* Whatever satisfies the recursion has the blocks of the classes at the end.
LEMMA CondProbIs ==
    ASSUME FileInv
    PROVE  cond_prob = Built(mp_attrs, ClassNum - 1, feature_num)
  <1>1. /\ InfoOK(mp_attrs) /\ feature_num = Len(mp_attrs) /\ feature_num \in Nat
        /\ width \in Nat \ {0} /\ width = feature_num + 1 /\ ClassNum \in Nat \ {0}
        /\ Len(ModelFile) = 1 + width * ClassNum /\ width * ClassNum \in Nat
    BY FileFacts DEF width
  <1>2. PICK f, L : f = ModelFile /\ L = Len(ModelFile) - 2
    OBVIOUS
  <1> DEFINE g == CHOOSE x : Reads(f, L, x)
             h == [m \in 0 .. L |-> Built(mp_attrs, m \div width, m % width)]
  <1>3. cond_prob = g[L]
    BY <1>2, Zenon DEF cond_prob, Reads, AfterLine
  <1>4. Reads(f, L, h)
    BY <1>2, ReadsBuilt, Zenon
  <1>5. Reads(f, L, g)
    <2> HIDE DEF h
    <2> QED BY <1>4, Zenon
  <1>6. L \in Nat /\ L = width * (ClassNum - 1) + feature_num
    <2>1. PICK p \in Nat : p = ClassNum - 1
      BY <1>1
    <2>2. width * ClassNum = width * p + width
      BY <1>1, <2>1
    <2>3. PICK x \in Nat : x = width * p
      BY <1>1
    <2>4. L = x + feature_num
      BY <1>1, <1>2, <2>2, <2>3
    <2> QED BY <1>1, <2>1, <2>3, <2>4
  <1>7. h[L] = Built(mp_attrs, ClassNum - 1, feature_num)
    <2>1. ClassNum - 1 \in Int /\ feature_num \in 0 .. width - 1
      BY <1>1
    <2>2. L \div width = ClassNum - 1 /\ L % width = feature_num
      BY <1>1, <1>6, <2>1, DivUnique
    <2>3. h[L] = Built(mp_attrs, L \div width, L % width)
      BY <1>6
    <2> QED BY <2>2, <2>3, Zenon
  <1> HIDE DEF g, h
  <1> DEFINE Good == {k \in Nat : k <= L => g[k] = h[k]}
  <1>8. 0 \in Good
    <2>1. 0 \in 0 .. L
      BY <1>6
    <2>2. g[0] = h[0]
      BY <1>4, <1>5, <2>1, Zenon DEF Reads
    <2> QED BY <2>2
  <1>9. ASSUME NEW k \in Nat, k \in Good
        PROVE  k + 1 \in Good
    <2> SUFFICES ASSUME k + 1 <= L PROVE g[k + 1] = h[k + 1]
      OBVIOUS
    <2>1. k + 1 \in 0 .. L /\ k + 1 # 0 /\ (k + 1) - 1 = k /\ k <= L
      BY <1>6
    <2>2. g[k] = h[k]
      BY <1>9, <2>1
    <2>3. g[k + 1] = AfterLine(g[(k + 1) - 1], f[(k + 1) + 2])
      BY <1>5, <2>1, Zenon DEF Reads
    <2>4. h[k + 1] = AfterLine(h[(k + 1) - 1], f[(k + 1) + 2])
      BY <1>4, <2>1, Zenon DEF Reads
    <2> QED BY <2>1, <2>2, <2>3, <2>4, Zenon
  <1>10. L \in Good
    <2> HIDE DEF Good
    <2> QED BY <1>6, <1>8, <1>9, NatSetInduction
  <1>11. g[L] = h[L]
    BY <1>6, <1>10
  <1> QED BY <1>3, <1>7, <1>11, Zenon

LEMMA ClassifyIs ==
    ASSUME FileInv, mp_attrs = attrs, NEW c \in Classes, NEW s, IsSample(attrs, s)
    PROVE  classify(c, s) = NaiveBayes(c, s) /\ NaiveBayes(c, s) \in Int
  <1>1. /\ InfoOK(attrs) /\ feature_num = Len(attrs) /\ feature_num \in Nat
        /\ ClassNum \in Nat \ {0} /\ ModelFile[1] = Heads
    BY FileFacts, FilePlaces
  <1>2. c \in Nat /\ c + 1 \in 1 .. ClassNum /\ (c + 1) - 1 = c /\ ClassNum - 1 \in Classes
        /\ (ClassNum - 1) + 1 = ClassNum
    BY <1>1 DEF Classes
  <1>3. ModelFile[1][c + 1] = ClassProb(c)
    BY <1>1, <1>2 DEF Heads
  <1>4. ASSUME NEW a \in DOMAIN attrs
        PROVE  cond_prob[c + 1][a][s[a]] = CondProb(c, a, s[a])
    <2>1. a \in 1 .. Len(attrs) /\ s[a] \in 1 .. attrs[a]
      BY <1>1, SeqElements DEF InfoOK, IsSample
    <2>2. cond_prob = Built(attrs, ClassNum - 1, feature_num)
      BY CondProbIs
    <2>3. cond_prob[c + 1] = Lines(attrs, c, Len(attrs))
      <3>1. PICK p \in Classes : p = ClassNum - 1
        BY <1>2
      <3>2. feature_num \in 0 .. Len(attrs)
        BY <1>1
      <3>3. c + 1 \in 1 .. p + 1
        BY <1>2, <3>1
      <3>4. Built(attrs, p, feature_num)[c + 1]
                = Lines(attrs, (c + 1) - 1, IF c + 1 <= p THEN Len(attrs) ELSE feature_num)
        BY <1>1, <3>2, <3>3, BuiltType
      <3> QED BY <1>1, <1>2, <2>2, <3>1, <3>4
    <2>4. Lines(attrs, c, Len(attrs))[a] = Line(attrs, c, a)
      BY <2>1 DEF Lines
    <2>5. Line(attrs, c, a)[s[a]] = CondProb(c, a, s[a])
      BY <2>1 DEF Line
    <2> QED BY <2>3, <2>4, <2>5, Zenon
  <1>5. [a \in DOMAIN attrs |-> cond_prob[c + 1][a][s[a]]]
            = [a \in DOMAIN attrs |-> CondProb(c, a, s[a])]
    BY <1>4, Zenon
  <1>6. classify(c, s) = NaiveBayes(c, s)
    BY <1>3, <1>5, Zenon DEF classify, NaiveBayes
  <1>7. NaiveBayes(c, s) \in Int
    <2>1. DOMAIN attrs = 1 .. Len(attrs)
      BY <1>1, SeqElements DEF InfoOK
    <2> QED BY <1>1, <2>1, RowScore DEF NaiveBayes, SumFunction
  <1> QED BY <1>6, <1>7

\* Of the classes there is a first one with the largest score.
LEMMA BestExists ==
    ASSUME NEW sc \in [Classes -> Int]
    PROVE  \E c \in Classes : \A d \in Classes :
              sc[d] <= sc[c] /\ (sc[d] = sc[c] => c <= d)
  <1> DEFINE Best(k, c) == \A d \in 0 .. k : sc[d] <= sc[c] /\ (sc[d] = sc[c] => c <= d)
             Good == {k \in Nat : k < ClassNum => \E c \in 0 .. k : Best(k, c)}
  <1>1. ClassNum \in Nat \ {0}
    BY ScoreAssumption
  <1>2. 0 \in Good
    <2>1. 0 \in Classes /\ sc[0] \in Int
      BY <1>1 DEF Classes
    <2>2. Best(0, 0)
      BY <2>1
    <2> HIDE DEF Best
    <2>3. 0 \in 0 .. 0
      OBVIOUS
    <2> QED BY <2>2, <2>3
  <1>3. ASSUME NEW k \in Nat, k \in Good
        PROVE  k + 1 \in Good
    <2> SUFFICES ASSUME k + 1 < ClassNum PROVE \E c \in 0 .. k + 1 : Best(k + 1, c)
      OBVIOUS
    <2>1. PICK c \in 0 .. k : Best(k, c)
      <3>1. k < ClassNum
        BY <1>1
      <3> HIDE DEF Best
      <3> QED BY <1>3, <3>1
    <2>2. \A d \in 0 .. k + 1 : d \in Classes /\ sc[d] \in Int
      BY <1>1 DEF Classes
    <2>3. \A d \in 0 .. k + 1 : d \in 0 .. k \/ d = k + 1
      OBVIOUS
    <2>4. c \in 0 .. k + 1 /\ k + 1 \in 0 .. k + 1
      OBVIOUS
    <2>5. CASE sc[k + 1] <= sc[c]
      <3>1. Best(k + 1, c)
        BY <2>1, <2>2, <2>3, <2>4, <2>5
      <3> HIDE DEF Best
      <3> QED BY <2>4, <3>1
    <2>6. CASE ~ (sc[k + 1] <= sc[c])
      <3>1. Best(k + 1, k + 1)
        BY <2>1, <2>2, <2>3, <2>4, <2>6
      <3> HIDE DEF Best
      <3> QED BY <2>4, <3>1
    <2> QED BY <2>5, <2>6
  <1>4. ClassNum - 1 \in Good
    <2>1. ClassNum - 1 \in Nat
      BY <1>1
    <2> HIDE DEF Good
    <2> QED BY <1>2, <1>3, <2>1, NatSetInduction
  <1>5. \E c \in 0 .. ClassNum - 1 : Best(ClassNum - 1, c)
    <2>1. ClassNum - 1 < ClassNum
      BY <1>1
    <2> HIDE DEF Best
    <2> QED BY <1>4, <2>1
  <1> QED BY <1>5 DEF Classes

\* The label of a row is a class the authority may answer for it.
THEOREM LabelsAreBestCorrect == ASSUME FilesMatch PROVE Spec => []LabelsAreBest
  <1>1. ScoreInv => LabelsAreBest
    <2> SUFFICES ASSUME ScoreInv, Scored, NEW k \in 1 .. unit, NEW c \in Classes
                 PROVE  ScoreSlot(c, n * k - 1)
                            <= ScoreSlot(classified(samples[k]), n * k - 1)
      BY DEF LabelsAreBest
    <2>1. PICK s : s = samples[k]
      OBVIOUS
    <2>2. FileInv /\ mp_attrs = attrs /\ IsSample(attrs, s) /\ InfoOK(attrs)
      BY <2>1, ScoredFacts DEF ScoreInv, ReadInv
    <2>3. \A d \in Classes : classify(d, s) = NaiveBayes(d, s) /\ NaiveBayes(d, s) \in Int
      BY <2>2, ClassifyIs
    <2>4. \A d \in Classes : ScoreSlot(d, n * k - 1) = NaiveBayes(d, s)
      <3>1. ScoresAreNaiveBayes
        BY ScoreInvScores
      <3> QED BY <2>1, <3>1 DEF ScoresAreNaiveBayes
    <2> DEFINE sc == [d \in Classes |-> NaiveBayes(d, s)]
    <2>5. PICK x \in Classes : \A d \in Classes :
              sc[d] <= sc[x] /\ (sc[d] = sc[x] => x <= d)
      <3>1. sc \in [Classes -> Int]
        BY <2>3
      <3> HIDE DEF sc
      <3> QED BY <3>1, BestExists
    <2>6. \A d \in Classes : sc[d] = classify(d, s)
      BY <2>3
    <2> HIDE DEF sc
    <2> DEFINE First(z) == \A d \in Classes :
                  /\ classify(d, s) <= classify(z, s)
                  /\ classify(d, s) = classify(z, s) => z <= d
    <2>7. First(x)
      BY <2>5, <2>6
    <2>8. classified(s) = CHOOSE z \in Classes : First(z)
      BY Zenon DEF classified
    <2>8a. PICK y : y = classified(s)
      OBVIOUS
    <2>8b. y \in Classes /\ First(y)
      <3> HIDE DEF First
      <3> QED BY ONLY x \in Classes, <2>7, <2>8, <2>8a
    <2>9. y \in Classes /\ \A d \in Classes : classify(d, s) <= classify(y, s)
      BY <2>8b
    <2>10. NaiveBayes(c, s) <= NaiveBayes(y, s)
      BY <2>3, <2>9
    <2> QED BY <2>1, <2>4, <2>8a, <2>9, <2>10
  <1> QED BY <1>1, ScoreInvInit, ScoreInvNext, PTL DEF Spec
=============================================================================
