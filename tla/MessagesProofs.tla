---------------------------- MODULE MessagesProofs ----------------------------
(***************************************************************************)
(* What a sender saves, a receiver loads: for every number of classes, any *)
(* ciphertexts and sessions, and every message.                            *)
(***************************************************************************)
EXTENDS Messages, DataTheorems

\* Numbers and ciphertexts in a stream.
Token == Int \cup Ctxts \cup Sessions \cup {SizeMax}

Classes == {"EncData", "PermVec", "ComputeParam"}

ElementsOf(class) == IF class = "ComputeParam" THEN ComputeParams ELSE Int \cup Ctxts

\* An object that a receiver can load: some elements, no more than it allows.
IsObject(class, obj) ==
    /\ Len(obj) \in 1 .. MaxCtxts
    /\ obj \in [1 .. Len(obj) -> ElementsOf(class)]

ClassOf(m, j) == Objects[m][j]

ObjectNum(m) == Len(Objects[m])

\* What the objects from number k + 1 on are in a stream.
SavedEach(m, objs, k) ==
    [j \in 1 .. Len(objs) - k |-> save_to_stream(ClassOf(m, k + j), objs[k + j])]

Saved(m, objs, k) == FlattenSeq(SavedEach(m, objs, k))

\* Objects a message may carry, the first ones or all.
AreObjects(m, objs) ==
    /\ \E S : objs \in Seq(S)
    /\ Len(objs) \in 0 .. ObjectNum(m)
    /\ \A j \in 1 .. Len(objs) : IsObject(ClassOf(m, j), objs[j])

SenderInv ==
    /\ pc \in {"save", "load", "done"}
    /\ message \in DOMAIN Objects
    /\ AreObjects(message, sent)
    /\ size = Len(Saved(message, sent, 0))

\* The stream holds the objects that are still to load, one after another.
ReceiverInv ==
    /\ \E S : loaded \in Seq(S)
    /\ pc = "save" => loaded = <<>> /\ stream = <<>>
    /\ pc # "save" =>
          /\ Len(sent) = ObjectNum(message)
          /\ Len(loaded) \in 0 .. Len(sent)
          /\ \A j \in 1 .. Len(loaded) : loaded[j] = sent[j]
          /\ stream = Saved(message, sent, Len(loaded))
    /\ pc = "done" => Len(loaded) = Len(sent)

MessageInv == SenderInv /\ ReceiverInv

-----------------------------------------------------------------------------
(* One object.                                                               *)

LEMMA MessageClasses ==
    ASSUME NEW m \in DOMAIN Objects
    PROVE  /\ ObjectNum(m) \in Nat
           /\ \A j \in 1 .. ObjectNum(m) : ClassOf(m, j) \in Classes
  BY DEF Objects, ObjectNum, ClassOf, Classes

LEMMA TokensOfElement ==
    ASSUME NEW class \in Classes, NEW x \in ElementsOf(class)
    PROVE  /\ Tokens(class, x) \in Seq(Token) /\ Len(Tokens(class, x)) = Width(class)
           /\ Width(class) \in Nat \ {0}
  <1>1. CASE class = "ComputeParam"
    <2>1. x \in ComputeParams
      BY <1>1 DEF ElementsOf
    <2>2. /\ x.compute_index \in Token /\ x.class_num \in Token /\ x.num_features \in Token
          /\ x.compute_unit \in Token /\ x.session_id \in Token
      BY <2>1, MessageAssumption DEF ComputeParams, Token, NoIndex
    <2> QED BY <1>1, <2>2 DEF Tokens, Width
  <1>2. CASE class # "ComputeParam"
    <2>1. x \in Token
      BY <1>2 DEF ElementsOf, Token
    <2> QED BY <1>2, <2>1 DEF Tokens, Width
  <1> QED BY <1>1, <1>2

\* operator>> undoes operator<<.
LEMMA ElementOfTokens ==
    ASSUME NEW class \in Classes, NEW x \in ElementsOf(class), NEW t,
           \A r \in 1 .. Width(class) : t[r] = Tokens(class, x)[r]
    PROVE  Element(class, t) = x
  <1>1. CASE class = "ComputeParam"
    <2>1. x \in ComputeParams
      BY <1>1 DEF ElementsOf
    <2>2. /\ t[1] = x.compute_index /\ t[2] = x.class_num /\ t[3] = x.num_features
          /\ t[4] = x.compute_unit /\ t[5] = x.session_id
      BY <1>1 DEF Tokens, Width
    <2> QED BY <1>1, <2>1, <2>2 DEF Element, ComputeParams
  <1>2. CASE class # "ComputeParam"
    BY <1>2 DEF Tokens, Width, Element
  <1> QED BY <1>1, <1>2

\* A saved object: its number of elements, then their tokens.
LEMMA SavedForm ==
    ASSUME NEW class \in Classes, NEW obj, IsObject(class, obj)
    PROVE  LET w == Width(class)
               s == save_to_stream(class, obj)
           IN  /\ s \in Seq(Token) /\ Len(s) = 1 + w * Len(obj) /\ s[1] = Len(obj)
               /\ \A j \in 1 .. Len(obj), r \in 1 .. w :
                     /\ w * (j - 1) + r \in 1 .. w * Len(obj)
                     /\ s[1 + (w * (j - 1) + r)] = Tokens(class, obj[j])[r]
  <1> DEFINE w == Width(class)
             z == Len(obj)
             tokens == [j \in 1 .. z |-> Tokens(class, obj[j])]
             flat == FlattenSeq(tokens)
  <1>1. z \in Nat \ {0} /\ w \in Nat \ {0} /\ obj \in [1 .. z -> ElementsOf(class)]
    <2>1. z \in Nat \ {0} /\ obj \in [1 .. z -> ElementsOf(class)]
      BY MessageAssumption DEF IsObject
    <2>2. w \in Nat \ {0}
      BY DEF Width
    <2> QED BY <2>1, <2>2
  <1>2. \A j \in 1 .. z : Tokens(class, obj[j]) \in Seq(Token) /\ Len(Tokens(class, obj[j])) = w
    BY <1>1, TokensOfElement
  <1> HIDE DEF z, w
  <1>3. /\ tokens \in [1 .. z -> Seq(Token)]
        /\ \A j \in 1 .. z : tokens[j] = Tokens(class, obj[j]) /\ Len(tokens[j]) = w
    BY <1>2
  <1> HIDE DEF tokens
  <1>4. /\ flat \in Seq(Token) /\ Len(flat) = w * z
        /\ \A j \in 1 .. z, r \in 1 .. w :
              w * (j - 1) + r \in 1 .. w * z /\ flat[w * (j - 1) + r] = tokens[j][r]
    <2>1. w \in Nat /\ z \in Nat /\ tokens \in [1 .. z -> Seq(Token)] /\ AllLong(tokens, z, w)
      BY <1>1, <1>3 DEF AllLong
    <2>2. flat \in Seq(Token) /\ InBlocks(flat, tokens, z, w)
      BY ONLY <2>1, FlattenUniform
    <2> QED BY <2>2, Zenon DEF InBlocks
  <1>5. save_to_stream(class, obj) = <<z>> \o flat
    <2>1. obj # <<>> /\ DOMAIN obj = 1 .. z
      BY <1>1
    <2> QED BY <2>1, Zenon DEF save_to_stream, tokens, z
  <1>6. <<z>> \in Seq(Token) /\ Len(<<z>>) = 1 /\ <<z>>[1] = z
    BY <1>1 DEF Token
  <1> HIDE DEF flat
  <1> DEFINE s == <<z>> \o flat
  <1>7. /\ s \in Seq(Token) /\ Len(s) = 1 + Len(flat) /\ s[1] = z
        /\ \A y \in 1 .. Len(flat) : s[1 + y] = flat[y]
    BY <1>4, <1>6, ConcatIs
  <1> HIDE DEF s
  <1>8. ASSUME NEW j \in 1 .. z, NEW r \in 1 .. w
        PROVE  /\ w * (j - 1) + r \in 1 .. w * z
               /\ s[1 + (w * (j - 1) + r)] = Tokens(class, obj[j])[r]
    BY <1>3, <1>4, <1>7
  <1> QED BY <1>4, <1>5, <1>7, <1>8 DEF s, z, w

\* What stands in front of a stream is what was saved, and the rest is left.
Loads(class, s, obj, rest) ==
    Readable(class, s) /\ load_from_stream(class, s) = obj /\ Rest(class, s) = rest

LEMMA LoadOfSaved ==
    ASSUME NEW class \in Classes, NEW obj, IsObject(class, obj), NEW rest \in Seq(Token),
           NEW s, s = save_to_stream(class, obj) \o rest
    PROVE  Loads(class, s, obj, rest)
  <1> DEFINE w == Width(class)
             z == Len(obj)
             saved == save_to_stream(class, obj)
  <1>1. /\ z \in Nat \ {0} /\ w \in Nat \ {0} /\ z \in 1 .. MaxCtxts
        /\ obj \in [1 .. z -> ElementsOf(class)]
    <2>1. z \in 1 .. MaxCtxts /\ obj \in [1 .. z -> ElementsOf(class)]
      BY DEF IsObject
    <2>2. w \in Nat \ {0}
      BY DEF Width
    <2> QED BY <2>1, <2>2, MessageAssumption
  <1>2. /\ saved \in Seq(Token) /\ Len(saved) = 1 + w * z /\ saved[1] = z
        /\ \A j \in 1 .. z, r \in 1 .. w :
              /\ w * (j - 1) + r \in 1 .. w * z
              /\ saved[1 + (w * (j - 1) + r)] = Tokens(class, obj[j])[r]
    BY SavedForm
  <1> HIDE DEF saved, z
  <1> DEFINE l == w * z
  <1>3. l \in Nat /\ l = z * w /\ Len(saved) = 1 + l
    BY <1>1, <1>2
  <1>4. /\ s \in Seq(Token) /\ Len(s) = 1 + l + Len(rest) /\ Len(rest) \in Nat
        /\ \A y \in 1 .. 1 + l : s[y] = saved[y]
        /\ \A y \in 1 .. Len(rest) : s[1 + l + y] = rest[y]
    <2>1. s = saved \o rest
      BY DEF saved
    <2>2. saved \in Seq(Token)
      BY <1>2
    <2>3. /\ s \in Seq(Token) /\ Len(s) = Len(saved) + Len(rest)
          /\ \A y \in 1 .. Len(saved) : s[y] = saved[y]
          /\ \A y \in 1 .. Len(rest) : s[Len(saved) + y] = rest[y]
      BY <2>1, <2>2, ConcatIs
    <2> QED BY <1>3, <2>3
  <1> HIDE DEF l
  <1>5. s # <<>> /\ Head(s) = z
    <2>1. 1 \in 1 .. 1 + l /\ Len(s) \in Nat \ {0}
      BY <1>3, <1>4
    <2>2. s[1] = z
      BY <1>2, <1>4, <2>1
    <2> QED BY <1>4, <2>1, <2>2
  <1>6. Readable(class, s)
    <2>1. Len(s) > z * w
      BY <1>3, <1>4
    <2> QED BY <1>1, <1>5, <2>1 DEF Readable
  <1>7. \A j \in 1 .. z : Element(class, SubSeq(s, 2 + (j - 1) * w, 1 + j * w)) = obj[j]
    <2> TAKE j \in 1 .. z
    <2> DEFINE p == w * (j - 1)
               t == SubSeq(s, 2 + (j - 1) * w, 1 + j * w)
    <2>1. p \in Nat /\ (j - 1) * w = p /\ j * w = p + w
      BY <1>1
    <2>2. p + w <= l
      <3>1. w \in Nat /\ j \in Int /\ z \in Int /\ j <= z
        BY <1>1
      <3>2. w * j <= w * z
        BY ONLY <3>1, TimesMonotone
      <3>3. w * j = j * w
        BY <1>1
      <3> QED BY <2>1, <3>2, <3>3 DEF l
    <2> HIDE DEF p, t
    <2>3. t = SubSeq(s, 2 + p, 1 + (p + w))
      BY <2>1 DEF t
    <2> HIDE DEF w
    <2>4. \A r \in 1 .. w : t[r] = s[1 + (p + r)] /\ p + r \in 1 .. l
      <3>1. 1 + p \in Nat /\ w \in Nat /\ (1 + p) + w <= Len(s)
        BY <1>1, <1>3, <1>4, <2>1, <2>2
      <3>2. 2 + p = (1 + p) + 1 /\ 1 + (p + w) = (1 + p) + w
        BY <1>1, <2>1
      <3>3. \A r \in 1 .. w : t[r] = s[(1 + p) + r]
        <4>1. s \in Seq(Token)
          BY <1>4
        <4>2. IsPart(t, s, 1 + p, w)
          BY ONLY <2>3, <3>1, <3>2, <4>1, SubSeqIs
        <4> QED BY <4>2, Zenon DEF IsPart
      <3>4. ASSUME NEW r \in 1 .. w PROVE (1 + p) + r = 1 + (p + r) /\ p + r \in 1 .. l
        BY <1>1, <1>3, <2>1, <2>2
      <3> QED BY <3>3, <3>4
    <2>5. \A r \in 1 .. w : t[r] = Tokens(class, obj[j])[r]
      <3> TAKE r \in 1 .. w
      <3>1. saved[1 + (p + r)] = Tokens(class, obj[j])[r]
        BY <1>2 DEF p
      <3>2. s[1 + (p + r)] = saved[1 + (p + r)]
        <4>1. 1 + (p + r) \in 1 .. 1 + l
          BY <1>3, <2>4
        <4> QED BY <1>4, <4>1
      <3> QED BY <2>4, <3>1, <3>2
    <2>6. obj[j] \in ElementsOf(class)
      BY <1>1
    <2>7. Element(class, t) = obj[j]
      BY <2>5, <2>6, ElementOfTokens DEF w
    <2> QED BY <2>7 DEF t
  <1>8. load_from_stream(class, s) = obj
    <2>1. load_from_stream(class, s)
             = [j \in 1 .. z |-> Element(class, SubSeq(s, 2 + (j - 1) * w, 1 + j * w))]
      BY <1>5, Zenon DEF load_from_stream
    <2> QED BY <1>1, <1>7, <2>1
  <1>9. Rest(class, s) = rest
    <2> DEFINE t == SubSeq(s, 2 + z * w, Len(s))
    <2>1. t = SubSeq(s, 2 + l, Len(s))
      BY <1>3
    <2>2. Rest(class, s) = t
      BY <1>5, Zenon DEF Rest
    <2> HIDE DEF t
    <2>3. /\ t \in Seq(Token) /\ Len(t) = Len(rest)
          /\ \A y \in 1 .. Len(rest) : t[y] = s[1 + l + y]
      <3>1. 1 + l \in Nat /\ (1 + l) + Len(rest) <= Len(s) /\ 2 + l = (1 + l) + 1
            /\ Len(s) = (1 + l) + Len(rest)
        BY <1>3, <1>4
      <3>2. s \in Seq(Token) /\ Len(rest) \in Nat
        BY <1>4
      <3>3. t \in Seq(Token) /\ IsPart(t, s, 1 + l, Len(rest))
        BY ONLY <2>1, <3>1, <3>2, SubSeqIs
      <3> QED BY <3>3, Zenon DEF IsPart
    <2>4. \A y \in 1 .. Len(rest) : t[y] = rest[y]
      BY <1>4, <2>3
    <2>5. t = rest
      BY <2>3, <2>4, SeqEqual
    <2> QED BY <2>2, <2>5
  <1> QED BY <1>6, <1>8, <1>9 DEF Loads

-----------------------------------------------------------------------------
(* The objects of a message.                                                 *)

\* Each of the objects behind the first k is saved to some tokens.
LEMMA SavedTokens ==
    ASSUME NEW m \in DOMAIN Objects, NEW objs, AreObjects(m, objs), NEW k \in 0 .. Len(objs)
    PROVE  /\ SavedEach(m, objs, k) \in [1 .. Len(objs) - k -> Seq(Token)]
           /\ Saved(m, objs, k) \in Seq(Token)
  <1> DEFINE ss == SavedEach(m, objs, k)
  <1>1. /\ Len(objs) \in Nat /\ Len(objs) - k \in Nat
        /\ \A j \in 1 .. Len(objs) : /\ ClassOf(m, j) \in Classes
                                     /\ IsObject(ClassOf(m, j), objs[j])
    BY MessageClasses DEF AreObjects
  <1>2. ss \in [1 .. Len(objs) - k -> Seq(Token)]
    <2> SUFFICES ASSUME NEW j \in 1 .. Len(objs) - k
                 PROVE  save_to_stream(ClassOf(m, k + j), objs[k + j]) \in Seq(Token)
      BY DEF SavedEach
    <2>1. k + j \in 1 .. Len(objs)
      BY <1>1
    <2> QED BY <1>1, <2>1, SavedForm
  <1> HIDE DEF ss
  <1>3. FlattenSeq(ss) \in Seq(Token)
    BY ONLY <1>1, <1>2, FlattenType
  <1> QED BY <1>2, <1>3, Zenon DEF ss, Saved

LEMMA SavedPush ==
    ASSUME NEW m \in DOMAIN Objects, NEW objs, AreObjects(m, objs),
           Len(objs) < ObjectNum(m), NEW obj, IsObject(ClassOf(m, Len(objs) + 1), obj),
           NEW all, all = Append(objs, obj)
    PROVE  /\ AreObjects(m, all)
           /\ Saved(m, all, 0)
                 = Saved(m, objs, 0) \o save_to_stream(ClassOf(m, Len(objs) + 1), obj)
  <1> DEFINE z == Len(objs)
  <1>1. PICK S : objs \in Seq(S)
    BY DEF AreObjects
  <1>2. /\ z \in Nat /\ all \in Seq(S \cup {obj}) /\ Len(all) = z + 1
        /\ \A j \in 1 .. z : all[j] = objs[j]
        /\ all[z + 1] = obj
    BY <1>1
  <1>3. AreObjects(m, all)
    <2>1. Len(all) \in 0 .. ObjectNum(m)
      BY <1>2, MessageClasses
    <2>2. ASSUME NEW j \in 1 .. Len(all) PROVE IsObject(ClassOf(m, j), all[j])
      <3>1. CASE j = z + 1
        BY <1>2, <3>1
      <3>2. CASE j # z + 1
        <4>1. j \in 1 .. z
          BY <1>2, <3>2
        <4> QED BY <1>2, <4>1 DEF AreObjects
      <3> QED BY <3>1, <3>2
    <2> QED BY <1>2, <2>1, <2>2 DEF AreObjects
  <1> DEFINE ss == SavedEach(m, objs, 0)
             tt == SavedEach(m, all, 0)
  <1>4. /\ ss \in [1 .. z -> Seq(Token)] /\ Saved(m, objs, 0) = FlattenSeq(ss)
    <2>1. 0 \in 0 .. Len(objs) /\ z - 0 = z
      BY <1>2
    <2>2. ss \in [1 .. z - 0 -> Seq(Token)] /\ Saved(m, objs, 0) = FlattenSeq(ss)
      BY <2>1, SavedTokens, Zenon DEF Saved
    <2> QED BY <2>1, <2>2, Zenon
  <1>5. /\ tt \in [1 .. z + 1 -> Seq(Token)] /\ Saved(m, all, 0) = FlattenSeq(tt)
    <2>1. 0 \in 0 .. Len(all) /\ Len(all) - 0 = z + 1
      BY <1>2
    <2>2. tt \in [1 .. Len(all) - 0 -> Seq(Token)] /\ Saved(m, all, 0) = FlattenSeq(tt)
      BY <1>3, <2>1, SavedTokens, Zenon DEF Saved
    <2> QED BY <2>1, <2>2, Zenon
  <1>6. \A j \in 1 .. z : tt[j] = ss[j]
    BY <1>2 DEF SavedEach
  <1>7. tt[z + 1] = save_to_stream(ClassOf(m, z + 1), obj)
    <2>1. z + 1 \in 1 .. Len(all) - 0 /\ 0 + (z + 1) = z + 1
      BY <1>2
    <2>2. tt[z + 1] = save_to_stream(ClassOf(m, 0 + (z + 1)), all[0 + (z + 1)])
      BY <2>1, Zenon DEF SavedEach
    <2> QED BY <1>2, <2>1, <2>2, Zenon
  <1> HIDE DEF ss, tt, z
  <1>8. FlattenSeq(tt) = FlattenSeq(ss) \o tt[z + 1]
    BY ONLY <1>2, <1>4, <1>5, <1>6, FlattenAppend
  <1> QED BY <1>3, <1>4, <1>5, <1>7, <1>8, Zenon DEF z

\* The next object to load stands in front of the others.
LEMMA SavedNext ==
    ASSUME NEW m \in DOMAIN Objects, NEW objs, AreObjects(m, objs),
           NEW k \in Nat, k < Len(objs)
    PROVE  Saved(m, objs, k)
              = save_to_stream(ClassOf(m, k + 1), objs[k + 1]) \o Saved(m, objs, k + 1)
  <1> DEFINE z == Len(objs) - (k + 1)
             ss == SavedEach(m, objs, k)
             tt == SavedEach(m, objs, k + 1)
  <1>1. /\ Len(objs) \in Nat /\ z \in Nat /\ z + 1 = Len(objs) - k
        /\ k \in 0 .. Len(objs) /\ k + 1 \in 0 .. Len(objs)
    <2>1. Len(objs) \in Nat
      BY DEF AreObjects
    <2> QED BY <2>1
  <1>2. ss \in [1 .. z + 1 -> Seq(Token)] /\ Saved(m, objs, k) = FlattenSeq(ss)
    <2>1. ss \in [1 .. Len(objs) - k -> Seq(Token)] /\ Saved(m, objs, k) = FlattenSeq(ss)
      BY <1>1, SavedTokens, Zenon DEF Saved
    <2> QED BY <1>1, <2>1, Zenon
  <1>3. tt \in [1 .. z -> Seq(Token)] /\ Saved(m, objs, k + 1) = FlattenSeq(tt)
    BY <1>1, SavedTokens, Zenon DEF Saved
  <1>4. ASSUME NEW j \in 1 .. z PROVE tt[j] = ss[j + 1]
    <2>1. j + 1 \in 1 .. Len(objs) - k /\ k + (j + 1) = (k + 1) + j
      BY <1>1
    <2>2. ss[j + 1] = save_to_stream(ClassOf(m, k + (j + 1)), objs[k + (j + 1)])
      BY <2>1, Zenon DEF SavedEach
    <2>3. tt[j] = save_to_stream(ClassOf(m, (k + 1) + j), objs[(k + 1) + j])
      BY Zenon DEF SavedEach
    <2> QED BY <2>1, <2>2, <2>3, Zenon
  <1>5. ss[1] = save_to_stream(ClassOf(m, k + 1), objs[k + 1])
    <2>1. 1 \in 1 .. Len(objs) - k
      BY <1>1
    <2> QED BY <2>1 DEF SavedEach
  <1> HIDE DEF ss, tt, z
  <1>6. FlattenSeq(ss) = ss[1] \o FlattenSeq(tt)
    BY ONLY <1>1, <1>2, <1>3, <1>4, FlattenPrepend
  <1> QED BY <1>2, <1>3, <1>5, <1>6, Zenon

LEMMA SavedNone ==
    ASSUME NEW m \in DOMAIN Objects, NEW objs, AreObjects(m, objs)
    PROVE  Saved(m, objs, Len(objs)) = <<>>
  <1>1. Len(objs) \in Nat
    BY DEF AreObjects
  <1>2. SavedEach(m, objs, Len(objs)) = <<>>
    BY <1>1 DEF SavedEach
  <1> QED BY <1>2, FlattenEmpty, Zenon DEF Saved

-----------------------------------------------------------------------------
(* The invariant.                                                            *)

LEMMA ContentsAreObjects ==
    ASSUME NEW m \in DOMAIN Objects, NEW j \in 1 .. ObjectNum(m),
           NEW obj \in Contents(m, ClassOf(m, j))
    PROVE  IsObject(ClassOf(m, j), obj)
  <1> DEFINE class == ClassOf(m, j)
  <1>1. class \in Classes
    BY MessageClasses
  <1> HIDE DEF class
  <1>2. \A n \in 1 .. MaxCtxts : \A S : \A v \in Vectors(S, n) :
           n \in Nat /\ Len(v) = n /\ v \in [1 .. n -> S]
    BY MessageAssumption DEF Vectors
  <1>3. 1 \in 1 .. MaxCtxts
    BY MessageAssumption
  <1>4. CASE class = "ComputeParam"
    <2>1. obj \in Vectors(ComputeParams, 1)
      BY <1>4 DEF Contents, class
    <2> QED BY <1>2, <1>3, <1>4, <2>1 DEF IsObject, ElementsOf, class
  <1>5. CASE class = "PermVec"
    <2>1. PICK n \in 1 .. MaxCtxts : obj \in Vectors(0 .. n - 1, n)
      BY <1>5 DEF Contents, class
    <2>2. Len(obj) = n /\ obj \in [1 .. n -> 0 .. n - 1]
      BY <1>2, <2>1
    <2>3. obj \in [1 .. n -> Int \cup Ctxts]
      BY <2>2
    <2> QED BY <1>5, <2>2, <2>3 DEF IsObject, ElementsOf, class
  <1>6. CASE class = "EncData"
    <2>1. PICK n \in 1 .. MaxCtxts : obj \in Vectors(Ctxts, n)
      <3>1. CASE m = "model"
        BY <1>6, <3>1 DEF Contents, class
      <3>2. CASE m # "model"
        BY <1>3, <1>6, <3>2 DEF Contents, class
      <3> QED BY <3>1, <3>2
    <2>2. Len(obj) = n /\ obj \in [1 .. n -> Ctxts]
      BY <1>2, <2>1
    <2>3. obj \in [1 .. n -> Int \cup Ctxts]
      BY <2>2
    <2> QED BY <1>6, <2>2, <2>3 DEF IsObject, ElementsOf, class
  <1> QED BY <1>1, <1>4, <1>5, <1>6 DEF Classes

LEMMA InitMessages == Init => MessageInv
  <1> SUFFICES ASSUME Init PROVE MessageInv
    OBVIOUS
  <1>1. /\ pc = "save" /\ message \in DOMAIN Objects /\ size = 0
        /\ sent = <<>> /\ loaded = <<>> /\ stream = <<>>
    BY DEF Init
  <1>2. ObjectNum(message) \in Nat
    BY <1>1, MessageClasses
  <1>3. AreObjects(message, sent)
    <2>1. sent \in Seq({}) /\ Len(sent) = 0
      BY <1>1
    <2> QED BY <1>2, <2>1 DEF AreObjects
  <1>4. Saved(message, sent, 0) = <<>>
    <2>1. Len(sent) = 0
      BY <1>1
    <2>2. Saved(message, sent, Len(sent)) = <<>>
      BY <1>1, <1>3, SavedNone
    <2> QED BY <2>1, <2>2
  <1>5. loaded \in Seq({})
    BY <1>1
  <1> QED BY <1>1, <1>3, <1>4, <1>5 DEF MessageInv, SenderInv, ReceiverInv

LEMMA NextMessages == MessageInv /\ [Next]_msgVars => MessageInv'
  <1> SUFFICES ASSUME MessageInv, [Next]_msgVars
               PROVE  MessageInv'
    OBVIOUS
  <1>0. /\ pc \in {"save", "load", "done"} /\ message \in DOMAIN Objects
        /\ AreObjects(message, sent) /\ size = Len(Saved(message, sent, 0))
        /\ ReceiverInv
    BY DEF MessageInv, SenderInv
  <1> DEFINE k == Len(loaded)
             z == Len(sent)
  <1>1. ObjectNum(message) \in Nat /\ z \in Nat /\ z <= ObjectNum(message)
    BY <1>0, MessageClasses DEF AreObjects
  <1>2. CASE Push
    <2>1. /\ pc = "save" /\ z < ObjectNum(message)
          /\ UNCHANGED <<pc, message, stream, loaded>>
      BY <1>2 DEF Push, ObjectNum
    <2> DEFINE class == ClassOf(message, z + 1)
    <2>2. PICK obj \in Contents(message, class) :
             sent' = Append(sent, obj) /\ size' = size + stream_size(class, obj)
      BY <1>2 DEF Push, ClassOf
    <2>3. IsObject(class, obj) /\ class \in Classes
      <3>1. z + 1 \in 1 .. ObjectNum(message)
        BY <1>1, <2>1
      <3> QED BY <1>0, <2>2, <3>1, ContentsAreObjects, MessageClasses
    <2> HIDE DEF z
    <2>4. /\ AreObjects(message, sent')
          /\ Saved(message, sent', 0) = Saved(message, sent, 0) \o save_to_stream(class, obj)
      BY <1>0, <2>1, <2>2, <2>3, SavedPush, Zenon DEF z
    <2> HIDE DEF class
    <2>5. size' = Len(Saved(message, sent', 0))
      <3> DEFINE s == Saved(message, sent, 0)
                 t == save_to_stream(class, obj)
      <3>1. s \in Seq(Token)
        <4>1. 0 \in 0 .. Len(sent)
          BY <1>1 DEF z
        <4> QED BY <1>0, <4>1, SavedTokens
      <3>2. t \in Seq(Token)
        BY <2>3, SavedForm
      <3> HIDE DEF s, t
      <3>3. Len(s \o t) = Len(s) + Len(t)
        BY ONLY <3>1, <3>2, ConcatIs
      <3>4. Saved(message, sent', 0) = s \o t /\ size' = Len(s) + Len(t)
        BY <1>0, <2>2, <2>4, Zenon DEF stream_size, s, t
      <3> QED BY <3>3, <3>4, Zenon
    <2>6. ReceiverInv'
      BY <1>0, <2>1 DEF ReceiverInv
    <2> QED BY <1>0, <2>1, <2>4, <2>5, <2>6 DEF MessageInv, SenderInv
  <1>3. CASE Send
    <2>1. /\ pc = "save" /\ z = ObjectNum(message) /\ pc' = "load"
          /\ stream' = FlattenSeq([j \in DOMAIN sent |-> save_to_stream(Objects[message][j], sent[j])])
          /\ UNCHANGED <<message, sent, size, loaded>>
      BY <1>3 DEF Send, ObjectNum
    <2>2. stream' = Saved(message, sent, 0)
      <3>1. DOMAIN sent = 1 .. Len(sent) - 0 /\ Len(sent) \in Nat
        BY <1>0 DEF AreObjects
      <3>2. [j \in DOMAIN sent |-> save_to_stream(Objects[message][j], sent[j])]
               = SavedEach(message, sent, 0)
        <4>1. \A j \in 1 .. Len(sent) - 0 : 0 + j = j
          BY <3>1
        <4> QED BY <3>1, <4>1 DEF SavedEach, ClassOf
      <3> QED BY <2>1, <3>2, Zenon DEF Saved
    <2>3. loaded = <<>> /\ Len(loaded) = 0
      BY <1>0, <2>1 DEF ReceiverInv
    <2>4. ReceiverInv'
      <3>1. \E S : loaded' \in Seq(S)
        BY <1>0, <2>1 DEF ReceiverInv
      <3>2. /\ Len(sent') = ObjectNum(message') /\ Len(loaded') \in 0 .. Len(sent')
            /\ \A j \in 1 .. Len(loaded') : loaded'[j] = sent'[j]
        BY <1>1, <2>1, <2>3
      <3>3. stream' = Saved(message', sent', Len(loaded'))
        BY <2>1, <2>2, <2>3
      <3> QED BY <2>1, <3>1, <3>2, <3>3 DEF ReceiverInv
    <2> QED BY <1>0, <2>1, <2>4 DEF MessageInv, SenderInv
  <1>4. CASE Load
    <2>1. /\ pc = "load" /\ k < ObjectNum(message)
          /\ UNCHANGED <<message, sent, size>>
      BY <1>4 DEF Load, ObjectNum
    <2>2. /\ z = ObjectNum(message) /\ k \in Nat /\ k < z
          /\ \A j \in 1 .. k : loaded[j] = sent[j]
          /\ stream = Saved(message, sent, k)
      BY <1>0, <2>1 DEF ReceiverInv
    <2> DEFINE class == ClassOf(message, k + 1)
               obj == sent[k + 1]
               rest == Saved(message, sent, k + 1)
    <2>3. class \in Classes /\ IsObject(class, obj)
      <3>1. k + 1 \in 1 .. Len(sent) /\ k + 1 \in 1 .. ObjectNum(message)
        BY <1>1, <2>2
      <3> QED BY <1>0, <3>1, MessageClasses DEF AreObjects
    <2>4. rest \in Seq(Token)
      <3>1. k + 1 \in 0 .. Len(sent)
        BY <2>2
      <3> QED BY <1>0, <3>1, SavedTokens
    <2>5. stream = save_to_stream(class, obj) \o rest
      BY <1>0, <2>2, SavedNext
    <2> HIDE DEF rest, class, obj
    <2>6. /\ Readable(class, stream) /\ load_from_stream(class, stream) = obj
          /\ Rest(class, stream) = rest
      <3>1. Loads(class, stream, obj, rest)
        BY ONLY <2>3, <2>4, <2>5, LoadOfSaved, Zenon
      <3> QED BY <3>1, Zenon DEF Loads
    <2>7. loaded' = Append(loaded, obj) /\ stream' = rest /\ pc' = pc
      BY <1>4, <2>6, Zenon DEF Load, class, ClassOf
    <2>8. PICK S : loaded \in Seq(S)
      BY <1>0 DEF ReceiverInv
    <2>9. /\ loaded' \in Seq(S \cup {obj}) /\ Len(loaded') = k + 1
          /\ loaded'[k + 1] = obj /\ \A j \in 1 .. k : loaded'[j] = loaded[j]
      BY <2>7, <2>8
    <2>10. ReceiverInv'
      <3>1. /\ Len(sent') = ObjectNum(message') /\ Len(loaded') \in 0 .. Len(sent')
        BY <2>1, <2>2, <2>9
      <3>2. ASSUME NEW j \in 1 .. Len(loaded') PROVE loaded'[j] = sent'[j]
        <4>1. CASE j = k + 1
          BY <2>1, <2>9, <4>1 DEF obj
        <4>2. CASE j # k + 1
          <5>1. j \in 1 .. k
            BY <2>2, <2>9, <4>2
          <5> QED BY <2>1, <2>2, <2>9, <5>1
        <4> QED BY <4>1, <4>2
      <3>3. stream' = Saved(message', sent', Len(loaded'))
        BY <2>1, <2>7, <2>9 DEF rest
      <3>4. pc' = "load"
        BY <2>1, <2>7
      <3> QED BY <2>9, <3>1, <3>2, <3>3, <3>4 DEF ReceiverInv
    <2> QED BY <1>0, <2>1, <2>7, <2>10 DEF MessageInv, SenderInv
  <1>5. CASE Received
    <2>1. /\ pc = "load" /\ pc' = "done" /\ k = ObjectNum(message)
          /\ UNCHANGED <<message, sent, size, stream, loaded>>
      BY <1>5 DEF Received, ObjectNum
    <2>2. ReceiverInv'
      BY <1>0, <2>1 DEF ReceiverInv
    <2> QED BY <1>0, <2>1, <2>2 DEF MessageInv, SenderInv
  <1>6. CASE UNCHANGED msgVars
    BY <1>6 DEF msgVars, MessageInv, SenderInv, ReceiverInv
  <1> QED BY <1>2, <1>3, <1>4, <1>5, <1>6 DEF Next

LEMMA MessagesAlways == Spec => []MessageInv
  BY InitMessages, NextMessages, PTL DEF Spec

\* Every message fills its buffer to the end and is loaded as what it was saved
\* from, object after object and with nothing left over, whatever the number of
\* classes.
THEOREM RoundTripCorrect == Spec => []RoundTrip
  <1>1. MessageInv => RoundTrip
    <2> SUFFICES ASSUME MessageInv PROVE RoundTrip
      OBVIOUS
    <2>0. SenderInv /\ ReceiverInv
      BY DEF MessageInv
    <2>1. pc # "failed"
      BY <2>0 DEF SenderInv
    <2>2. ASSUME pc = "load", loaded = <<>> PROVE Len(stream) = size
      <3>1. Len(loaded) = 0
        BY <2>2
      <3>2. stream = Saved(message, sent, 0)
        BY <2>0, <2>2, <3>1 DEF ReceiverInv
      <3> QED BY <2>0, <3>2 DEF SenderInv
    <2>3. ASSUME pc = "done" PROVE loaded = sent /\ stream = <<>>
      <3>1. Len(loaded) = Len(sent) /\ stream = Saved(message, sent, Len(sent))
            /\ \A j \in 1 .. Len(loaded) : loaded[j] = sent[j]
        BY <2>0, <2>3 DEF ReceiverInv
      <3>2. PICK S, R : loaded \in Seq(S) /\ sent \in Seq(R)
        BY <2>0 DEF SenderInv, ReceiverInv, AreObjects
      <3>3. loaded \in Seq(S \cup R) /\ sent \in Seq(S \cup R)
        BY <3>2
      <3>4. loaded = sent
        BY ONLY <3>1, <3>3, SeqEqual
      <3>5. stream = <<>>
        BY <2>0, <3>1, SavedNone DEF SenderInv
      <3> QED BY <3>4, <3>5
    <2> QED BY <2>1, <2>2, <2>3 DEF RoundTrip
  <1> QED BY <1>1, MessagesAlways, PTL
=============================================================================
