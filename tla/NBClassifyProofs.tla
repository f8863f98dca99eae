--------------------------- MODULE NBClassifyProofs ---------------------------
(***************************************************************************)
(* Theorems of NBClassify, for every number of clients, queries, classes   *)
(* and data items, every score and every set of permutations.              *)
(***************************************************************************)
EXTENDS NBClassify, TLAPS

-----------------------------------------------------------------------------
(* Types.  TypeOK alone is not inductive: reading a result needs a session, *)
(* and computing scores needs an input and a bound on the loop index.       *)

SupportOK ==
    /\ \A q \in Queries :
         /\ call[q] # "new" => sid[q] \in SessionIds
         /\ thr[q] # "none" => call[q] \notin {"new", "session"}
    /\ \A c \in Clients :
         /\ csPc[c] # "idle" \/ conn[c].input \/ conn[c].name \in {"Computable", "Computing"}
              => input[c] # NoInput
         /\ csPc[c] \in {"begin", "loop"} =>
              /\ job[c].session \in SessionIds
              /\ job[c].unit \in Slots
              /\ job[c].index \in 1 .. ClassNum

TypeInv == TypeOK /\ SupportOK

USE DEF SessionIds, Slots, Classes

\* The bounds of the model are positive.
LEMMA Bounds ==
    /\ MaxTime \in Nat \ {0}
    /\ CreatesPerSecond \in Nat \ {0}
    /\ NumData \in Nat \ {0}
    /\ ClassNum \in Nat \ {0}
  BY TAAssumption, CSAssumption

\* Resizing a sequence of naturals gives one of the new length.
LEMMA ResizeType ==
    ASSUME NEW s \in Seq(Nat), NEW n \in Nat
    PROVE  /\ Resize(s, n) \in Seq(Nat)
           /\ Len(Resize(s, n)) = n
  BY DEF Resize

\* The state machine of Server#2 stays within its states.
LEMMA TASetType ==
    ASSUME NEW st \in TAStates, NEW e \in TAEvents
    PROVE  TASet(st, e) \in TAStates
  BY DEF TASet, TAStates, TAEvents

\* The state machine of a connection stays within its states.
LEMMA CSSetType ==
    ASSUME NEW st \in ConnRecord, NEW e
    PROVE  CSSet(st, e) \in ConnRecord
  BY DEF CSSet, CSStates, CSState, ConnRecord

\* Beginning, writing and ending keep a session a session.
LEMMA InitializeType ==
    ASSUME NEW ses \in SessionRecord, NEW n \in Nat
    PROVE  Initialize(ses, n) \in SessionRecord
  BY ResizeType DEF Initialize, SessionRecord

LEMMA WriteType ==
    ASSUME NEW ses \in SessionRecord, NEW v \in Seq(Nat)
    PROVE  [ses EXCEPT !.indexes = v] \in SessionRecord
  BY DEF SessionRecord

LEMMA EndType ==
    ASSUME NEW ses \in SessionRecord
    PROVE  [ses EXCEPT !.known = TRUE, !.computed = TRUE] \in SessionRecord
  BY DEF SessionRecord

\* The permuted scores of a held input are integers.
LEMMA PermedType ==
    ASSUME CSTypeOK, NEW c \in Clients, input[c] # NoInput, NEW j \in Classes
    PROVE  Permed(c, j) \in [Slots -> Int]
  <1>1. input[c] \in InputRecord
    BY DEF CSTypeOK
  <1>2. input[c].permvec \in [Classes -> Classes] /\ input[c].query \in Queries
    BY <1>1, CSAssumption DEF InputRecord
  <1>3. Score[input[c].query] \in [Slots -> [Classes -> Int]]
    BY <1>2, CSAssumption
  <1> QED BY <1>2, <1>3 DEF Permed

LEMMA CompareType ==
    ASSUME NEW v, NEW k
    PROVE  Compare(v, k) \in {0, 1}
  BY DEF Compare

\* What a turn of the loop writes, with every update in full.
LEMMA TurnWrites ==
    ASSUME TypeInv, NEW c \in Clients, ComputeOnTA(c)
    PROVE  \E coeff \in [Slots -> 1 .. MaxCoeff] :
             LET cand == Permed(c, job[c].index)
                 vdiff == Mask(c, [k \in Slots |-> cand[k] - job[c].max[k]], coeff)
                 ses == sessions[job[c].session]
             IN /\ job' = [job EXCEPT ![c] = [job[c] EXCEPT
                     !.index = job[c].index + 1,
                     !.max = [k \in Slots |->
                        cand[k] * Compare(vdiff, k) - (Compare(vdiff, k) - 1) * job[c].max[k]]]]
                /\ sessions' = [sessions EXCEPT ![job[c].session] = [ses EXCEPT
                     !.indexes = [k \in 1 .. Len(ses.indexes) |->
                        IF Compare(vdiff, k) = 1 THEN job[c].index ELSE ses.indexes[k]]]]
                /\ UNCHANGED <<now, minted, taState, taUnit>>
  <1>1. PICK coeff \in [Slots -> 1 .. MaxCoeff] :
          LET cand == Permed(c, job[c].index)
              vdiff == Mask(c, [k \in Slots |-> cand[k] - job[c].max[k]], coeff)
          IN /\ Compute(job[c].session, job[c].index, vdiff)
             /\ job' = [job EXCEPT
                  ![c].index = @ + 1,
                  ![c].max = [k \in Slots |->
                      cand[k] * Compare(vdiff, k) - (Compare(vdiff, k) - 1) * @[k]]]
    BY DEF ComputeOnTA
  <1>2. /\ job \in [Clients -> JobRecord]
        /\ sessions \in [SessionIds -> SessionRecord]
        /\ job[c].session \in SessionIds
    BY DEF TypeInv, TypeOK, CSTypeOK, TATypeOK, SupportOK, ComputeOnTA
  <1> DEFINE cand == Permed(c, job[c].index)
             vdiff == Mask(c, [k \in Slots |-> cand[k] - job[c].max[k]], coeff)
             ses == sessions[job[c].session]
  <1>3. job' = [job EXCEPT ![c] = [job[c] EXCEPT
                     !.index = job[c].index + 1,
                     !.max = [k \in Slots |->
                        cand[k] * Compare(vdiff, k) - (Compare(vdiff, k) - 1) * job[c].max[k]]]]
    <2>1. job' = [job EXCEPT ![c].index = @ + 1,
                             ![c].max = [k \in Slots |->
                                cand[k] * Compare(vdiff, k) - (Compare(vdiff, k) - 1) * @[k]]]
      BY <1>1
    <2> HIDE DEF cand, vdiff
    <2> QED BY <1>2, <2>1
  <1>4. sessions' = [sessions EXCEPT ![job[c].session] = [ses EXCEPT
                     !.indexes = [k \in 1 .. Len(ses.indexes) |->
                        IF Compare(vdiff, k) = 1 THEN job[c].index ELSE ses.indexes[k]]]]
    <2>1. sessions' = [sessions EXCEPT ![job[c].session].indexes =
                [k \in 1 .. Len(@) |-> IF Compare(vdiff, k) = 1 THEN job[c].index ELSE @[k]]]
      BY <1>1 DEF Compute
    <2> HIDE DEF vdiff
    <2> QED BY <1>2, <2>1
  <1>5. UNCHANGED <<now, minted, taState, taUnit>>
    BY <1>1 DEF Compute
  <1> QED BY <1>3, <1>4, <1>5

\* A turn of the loop keeps the types, the job's parameters and the number of
\* indexes.
LEMMA TurnType ==
    ASSUME TypeInv, NEW c \in Clients, ComputeOnTA(c)
    PROVE  /\ sessions' \in [SessionIds -> SessionRecord]
           /\ job' \in [Clients -> JobRecord]
           /\ \A d \in Clients :
                /\ job'[d].session = job[d].session
                /\ job'[d].unit = job[d].unit
                /\ job'[d].index = IF d = c THEN job[c].index + 1 ELSE job[d].index
                /\ d # c => job'[d] = job[d]
           /\ UNCHANGED <<now, minted, taState, taUnit>>
           /\ \E v \in Seq(Nat) :
                /\ Len(v) = Len(sessions[job[c].session].indexes)
                /\ sessions' = [sessions EXCEPT ![job[c].session] =
                                   [sessions[job[c].session] EXCEPT !.indexes = v]]
  <1> USE Bounds
  <1>1. /\ input[c] # NoInput
        /\ job[c].index \in 1 .. ClassNum - 1
        /\ job[c].session \in SessionIds
        /\ job[c] \in JobRecord
        /\ CSTypeOK
    BY DEF TypeInv, TypeOK, CSTypeOK, SupportOK, ComputeOnTA
  <1>2. Permed(c, job[c].index) \in [Slots -> Int]
    BY <1>1, PermedType
  <1>3. PICK coeff \in [Slots -> 1 .. MaxCoeff] :
          LET cand == Permed(c, job[c].index)
              vdiff == Mask(c, [k \in Slots |-> cand[k] - job[c].max[k]], coeff)
              ses == sessions[job[c].session]
          IN /\ job' = [job EXCEPT ![c] = [job[c] EXCEPT
                  !.index = job[c].index + 1,
                  !.max = [k \in Slots |->
                     cand[k] * Compare(vdiff, k) - (Compare(vdiff, k) - 1) * job[c].max[k]]]]
             /\ sessions' = [sessions EXCEPT ![job[c].session] = [ses EXCEPT
                  !.indexes = [k \in 1 .. Len(ses.indexes) |->
                     IF Compare(vdiff, k) = 1 THEN job[c].index ELSE ses.indexes[k]]]]
             /\ UNCHANGED <<now, minted, taState, taUnit>>
    BY TurnWrites
  <1> DEFINE cand == Permed(c, job[c].index)
             vdiff == Mask(c, [k \in Slots |-> cand[k] - job[c].max[k]], coeff)
             max == [k \in Slots |->
                       cand[k] * Compare(vdiff, k) - (Compare(vdiff, k) - 1) * job[c].max[k]]
             ses == sessions[job[c].session]
             indexes == [k \in 1 .. Len(ses.indexes) |->
                           IF Compare(vdiff, k) = 1 THEN job[c].index ELSE ses.indexes[k]]
  <1>4. max \in [Slots -> Int]
    <2>1. \A k \in Slots : job[c].max[k] \in Int
      BY <1>1 DEF JobRecord
    <2> SUFFICES ASSUME NEW k \in Slots
                 PROVE  cand[k] * Compare(vdiff, k) - (Compare(vdiff, k) - 1) * job[c].max[k] \in Int
      OBVIOUS
    <2> HIDE DEF cand, vdiff
    <2>2. Compare(vdiff, k) \in {0, 1}
      BY CompareType
    <2>3. cand[k] \in Int
      BY <1>2 DEF cand
    <2> QED BY <2>1, <2>2, <2>3
  <1>5. job' = [job EXCEPT ![c] = [job[c] EXCEPT !.index = job[c].index + 1, !.max = max]]
    BY <1>3
  <1>6. /\ ses \in SessionRecord
        /\ indexes \in Seq(Nat)
        /\ Len(indexes) = Len(ses.indexes)
    <2>1. ses \in SessionRecord
      BY <1>1 DEF CSTypeOK, TATypeOK
    <2> HIDE DEF vdiff, ses
    <2> QED BY <2>1, <1>1 DEF SessionRecord
  <1>7. sessions' = [sessions EXCEPT ![job[c].session] = [ses EXCEPT !.indexes = indexes]]
    BY <1>3
  <1>8. UNCHANGED <<now, minted, taState, taUnit>>
    BY <1>3
  <1> HIDE DEF max, indexes
  <1>9. \E v \in Seq(Nat) :
            /\ Len(v) = Len(sessions[job[c].session].indexes)
            /\ sessions' = [sessions EXCEPT ![job[c].session] =
                               [sessions[job[c].session] EXCEPT !.indexes = v]]
    BY <1>6, <1>7
  <1> HIDE DEF ses
  <1>10. sessions' \in [SessionIds -> SessionRecord]
    BY <1>1, <1>6, <1>7, WriteType DEF CSTypeOK, TATypeOK
  <1>11. [job[c] EXCEPT !.index = job[c].index + 1, !.max = max] \in JobRecord
    <2>1. job[c].index + 1 \in 0 .. ClassNum
      BY <1>1
    <2> QED BY <1>1, <1>4, <2>1 DEF JobRecord
  <1>12. job' \in [Clients -> JobRecord]
    BY <1>1, <1>5, <1>11 DEF CSTypeOK
  <1>13. \A d \in Clients :
            /\ job'[d].session = job[d].session
            /\ job'[d].unit = job[d].unit
            /\ job'[d].index = IF d = c THEN job[c].index + 1 ELSE job[d].index
            /\ d # c => job'[d] = job[d]
    <2> SUFFICES ASSUME NEW d \in Clients
                 PROVE  /\ job'[d].session = job[d].session
                        /\ job'[d].unit = job[d].unit
                        /\ job'[d].index = IF d = c THEN job[c].index + 1 ELSE job[d].index
                        /\ d # c => job'[d] = job[d]
      OBVIOUS
    <2>1. CASE d = c
      <3>1. job'[c] = [job[c] EXCEPT !.index = job[c].index + 1, !.max = max]
        BY <1>1, <1>5 DEF CSTypeOK
      <3> QED BY <1>1, <2>1, <3>1 DEF JobRecord
    <2>2. CASE d # c
      BY <1>1, <1>5, <2>2 DEF CSTypeOK
    <2> QED BY <2>1, <2>2
  <1> QED BY <1>8, <1>9, <1>10, <1>12, <1>13

LEMMA InitType == Init => TypeInv
  <1> SUFFICES ASSUME Init PROVE TypeInv
    OBVIOUS
  <1> USE Bounds
  <1>1. TATypeOK
    <2>1. NewSession \in SessionRecord
      BY DEF NewSession, SessionRecord
    <2> QED BY <2>1 DEF Init, CSInit, TAInit, TATypeOK, TAStates
  <1>2. NoJob \in JobRecord
    BY DEF NoJob, JobRecord
  <1>3. CSTypeOK
    BY <1>1, <1>2 DEF Init, CSInit, CSTypeOK, CSState, CSStates, ConnRecord
  <1>4. TypeOK
    BY <1>3 DEF Init, TypeOK
  <1>5. SupportOK
    BY DEF Init, CSInit, SupportOK, CSState
  <1> QED BY <1>4, <1>5 DEF TypeInv

\* Every step keeps to the types.
LEMMA NextType == TypeInv /\ [Next]_vars => TypeInv'
  <1> SUFFICES ASSUME TypeInv, [Next]_vars PROVE TypeInv'
    OBVIOUS
  <1> USE Bounds
  <1> USE DEF TypeInv, TypeOK, SupportOK, CSTypeOK, TATypeOK
  <1>1. ASSUME NEW c \in Clients, WaitModel(c), UNCHANGED clientVars
        PROVE  TypeInv'
    <2>1. conn' \in [Clients -> ConnRecord]
      BY <1>1 DEF WaitModel, CSState, CSStates, ConnRecord
    <2> QED BY <1>1, <2>1 DEF WaitModel, taVars, clientVars
  <1>2. ASSUME NEW c \in Clients, BeginOnTA(c), UNCHANGED clientVars
        PROVE  TypeInv'
    <2>1. job[c].session \in SessionIds /\ job[c].unit \in Slots
      BY <1>2 DEF BeginOnTA
    <2>2. sessions' \in [SessionIds -> SessionRecord]
      <3>1. Initialize(sessions[job[c].session], job[c].unit) \in SessionRecord
        BY <2>1, InitializeType
      <3> QED BY <1>2, <2>1, <3>1 DEF BeginOnTA, BeginComputation
    <2>3. taState' \in TAStates
      BY <1>2, TASetType DEF BeginOnTA, BeginComputation, TAEvents
    <2>4. TATypeOK'
      BY <1>2, <2>1, <2>2, <2>3 DEF BeginOnTA, BeginComputation
    <2> QED
      BY <1>2, <2>4 DEF BeginOnTA, clientVars
  <1>3. ASSUME NEW c \in Clients, ComputeOnTA(c), UNCHANGED clientVars
        PROVE  TypeInv'
    <2>1. UNCHANGED <<conn, input, csPc, encmodel, modelReceived>>
      BY <1>3 DEF ComputeOnTA
    <2>2. csPc[c] = "loop" /\ job[c].index < ClassNum
      BY <1>3 DEF ComputeOnTA
    <2>3. /\ sessions' \in [SessionIds -> SessionRecord]
          /\ job' \in [Clients -> JobRecord]
          /\ \A d \in Clients :
                /\ job'[d].session = job[d].session
                /\ job'[d].unit = job[d].unit
                /\ job'[d].index = IF d = c THEN job[c].index + 1 ELSE job[d].index
          /\ UNCHANGED <<now, minted, taState, taUnit>>
      BY <1>3, TurnType
    <2>4. TypeOK'
      BY <1>3, <2>1, <2>3 DEF clientVars
    <2>5. \A d \in Clients : csPc[d] \in {"begin", "loop"} =>
              /\ job'[d].session \in SessionIds
              /\ job'[d].unit \in Slots
              /\ job'[d].index \in 1 .. ClassNum
      <3> SUFFICES ASSUME NEW d \in Clients, csPc[d] \in {"begin", "loop"}
                   PROVE  /\ job'[d].session \in SessionIds
                          /\ job'[d].unit \in Slots
                          /\ job'[d].index \in 1 .. ClassNum
        OBVIOUS
      <3>1. /\ job[d].session \in SessionIds /\ job[d].unit \in Slots
            /\ job[d].index \in 1 .. ClassNum
        OBVIOUS
      <3>2. d = c => job[d].index < ClassNum
        BY <2>2
      <3> HIDE DEF TypeInv, TypeOK, SupportOK, CSTypeOK, TATypeOK
      <3> QED BY <2>3, <3>1, <3>2
    <2>6. SupportOK'
      BY <1>3, <2>1, <2>5 DEF clientVars
    <2> QED BY <2>4, <2>6
  <1>4. ASSUME NEW c \in Clients, EndOnTA(c), UNCHANGED clientVars
        PROVE  TypeInv'
    <2>1. taState' \in TAStates
      BY <1>4, TASetType DEF EndOnTA, EndComputation, TAEvents
    <2>2. sessions' \in [SessionIds -> SessionRecord]
      <3>1. job[c].session \in SessionIds
        BY <1>4 DEF EndOnTA
      <3>2. [sessions[job[c].session] EXCEPT !.known = TRUE, !.computed = TRUE]
              \in SessionRecord
        BY <3>1, EndType
      <3> QED BY <1>4, <3>1, <3>2 DEF EndOnTA, EndComputation
    <2>3. TATypeOK'
      BY <1>4, <2>1, <2>2 DEF EndOnTA, EndComputation
    <2>4. NoJob \in JobRecord
      BY DEF NoJob, JobRecord
    <2>5. job' \in [Clients -> JobRecord]
      BY <1>4, <2>4 DEF EndOnTA
    <2> QED
      BY <1>4, <2>3, <2>5 DEF EndOnTA, clientVars
  <1>5. ASSUME NEW q \in Queries, CreateSession(q)
        PROVE  TypeInv'
    <2> USE ClientAssumption
    <2>1. taState' \in TAStates
      BY <1>5, TASetType DEF CreateSession, RecvSessionCreate, SessionCreate, TAEvents
    <2>2. conn' \in [Clients -> ConnRecord]
      BY <1>5, CSSetType DEF CreateSession, RecvSessionCreate
    <2>3. TypeOK'
      BY <1>5, <2>1, <2>2 DEF CreateSession, RecvSessionCreate, SessionCreate
    <2>4. \A c \in Clients : conn'[c].input \/ conn'[c].name \in {"Computable", "Computing"}
             => conn[c].input \/ conn[c].name \in {"Computable", "Computing"}
      BY <1>5 DEF CreateSession, RecvSessionCreate, CSSet, CSState, ConnRecord
    <2>5. SupportOK'
      BY <1>5, <2>4 DEF CreateSession, RecvSessionCreate, SessionCreate
    <2> QED BY <2>3, <2>5
  <1>6. ASSUME NEW q \in Queries, StartResultThread(q)
        PROVE  TypeInv'
    BY <1>6 DEF StartResultThread, taVars, csVars
  <1>7. ASSUME NEW q \in Queries, SendInput(q)
        PROVE  TypeInv'
    <2>1. PICK p \in PermVecs : RecvEncInput(Owner[q], q, p)
                              /\ permvec' = [permvec EXCEPT ![q] = p]
      BY <1>7, ClientAssumption DEF SendInput
    <2>2. conn' \in [Clients -> ConnRecord]
      BY <2>1, CSSetType DEF RecvEncInput
    <2>3. [query |-> q, permvec |-> p] \in InputRecord
      BY DEF InputRecord
    <2>4. NoInput \notin InputRecord
      BY CSAssumption DEF InputRecord
    <2>5. TypeOK'
      BY <1>7, <2>1, <2>2, <2>3 DEF SendInput, RecvEncInput, taVars
    <2>6. input'[Owner[q]] # NoInput
      BY <2>1, <2>3, <2>4, ClientAssumption DEF RecvEncInput
    <2>7. SupportOK'
      BY <1>7, <2>1, <2>6, ClientAssumption DEF SendInput, RecvEncInput, taVars
    <2> QED BY <2>5, <2>7
  <1>8. ASSUME NEW q \in Queries, SendComputeRequest(q)
        PROVE  TypeInv'
    <2>1. Owner[q] \in Clients /\ Unit[q] \in Slots
      BY ClientAssumption, CSAssumption
    <2>2. input[Owner[q]] # NoInput /\ 0 \in Classes
      BY <1>8, <2>1 DEF SendComputeRequest, RecvComputeRequest
    <2>3. Permed(Owner[q], 0) \in [Slots -> Int]
      BY <2>1, <2>2, PermedType
    <2>4. sid[q] \in SessionIds
      BY <1>8 DEF SendComputeRequest
    <2> DEFINE new == [session |-> sid[q], unit |-> Unit[q], index |-> 1,
                       max |-> Permed(Owner[q], 0)]
    <2>5. new \in JobRecord
      BY <2>1, <2>3, <2>4 DEF JobRecord
    <2>6. job' = [job EXCEPT ![Owner[q]] = new]
      BY <1>8 DEF SendComputeRequest, RecvComputeRequest
    <2>7. new.session = sid[q] /\ new.unit = Unit[q] /\ new.index = 1
      OBVIOUS
    <2> HIDE DEF new
    <2>8. TypeOK'
      <3>1. job' \in [Clients -> JobRecord]
        BY <2>5, <2>6
      <3>2. csPc' \in [Clients -> {"idle", "wait_model", "begin", "loop"}]
        BY <1>8 DEF SendComputeRequest, RecvComputeRequest
      <3> QED
        BY <1>8, <3>1, <3>2 DEF SendComputeRequest, RecvComputeRequest, taVars
    <2>9. SupportOK'
      BY <1>8, <2>1, <2>2, <2>4, <2>6, <2>7 DEF SendComputeRequest, RecvComputeRequest, taVars
    <2> QED BY <2>8, <2>9
  <1>9. ASSUME NEW q \in Queries, ResultCheck(q)
        PROVE  TypeInv'
    BY <1>9 DEF ResultCheck, taVars, csVars
  <1>10. ASSUME NEW q \in Queries, ResultRead(q)
         PROVE  TypeInv'
    <2>1. sessions[sid[q]].indexes \in Seq(Nat)
      BY <1>10 DEF ResultRead, SessionRecord
    <2> QED BY <1>10, <2>1 DEF ResultRead, taVars, csVars
  <1>11. ASSUME ProviderStep, UNCHANGED clientVars
         PROVE  TypeInv'
    BY <1>11 DEF ProviderStep, StoreModel, RaiseEncModel, taVars, clientVars
  <1>12. ASSUME Tick, UNCHANGED <<csVars, clientVars>>
         PROVE  TypeInv'
    BY <1>12 DEF Tick, csVars, clientVars
  <1>13. CASE UNCHANGED vars
    BY <1>13 DEF vars, taVars, csVars, clientVars
  <1> QED
    BY <1>1, <1>2, <1>3, <1>4, <1>5, <1>6, <1>7, <1>8, <1>9, <1>10, <1>11, <1>12, <1>13
    DEF Next, ServerStep, ClientStep, ResultStep, Waited

\* The type invariant of the run.
THEOREM TypeCorrect == Spec => []TypeOK
  <1>1. Spec => []TypeInv
    BY InitType, NextType, PTL DEF Spec
  <1>2. TypeInv => TypeOK
    BY DEF TypeInv
  <1> QED BY <1>1, <1>2, PTL

-----------------------------------------------------------------------------
(* One computation at a time.  The authority never reaches Computing, so    *)
(* begin is accepted only when no handler is between begin and end; this    *)
(* holds whether or not session identifiers are unique.                     *)

AuthorityInv ==
    /\ taState # "Computing"
    /\ OneComputation
    /\ AuthorityServesCaller

LEMMA InitAuthority == Init => AuthorityInv
  BY DEF Init, CSInit, TAInit, AuthorityInv, OneComputation, AuthorityServesCaller

LEMMA NextAuthority ==
    TypeInv /\ AuthorityInv /\ [Next]_vars => AuthorityInv'
  <1> SUFFICES ASSUME TypeInv, AuthorityInv, [Next]_vars PROVE AuthorityInv'
    OBVIOUS
  <1> USE DEF AuthorityInv, OneComputation, AuthorityServesCaller
  <1>0. /\ csPc \in [Clients -> {"idle", "wait_model", "begin", "loop"}]
        /\ job \in [Clients -> JobRecord]
        /\ sessions \in [SessionIds -> SessionRecord]
        /\ taState \in TAStates
    BY DEF TypeInv, TypeOK, CSTypeOK, TATypeOK
  \* What a step does to handlers outside of the loop does not matter.
  <1>a. ASSUME UNCHANGED <<taState, taUnit, sessions>>,
               \A c \in Clients : csPc'[c] = "loop" <=> csPc[c] = "loop",
               \A c \in Clients : csPc[c] = "loop" => job'[c] = job[c]
        PROVE  AuthorityInv'
    BY <1>a
  <1>1. ASSUME NEW c \in Clients, WaitModel(c)
        PROVE  AuthorityInv'
    BY <1>0, <1>1, <1>a DEF WaitModel, taVars
  <1>2. ASSUME NEW c \in Clients, BeginOnTA(c)
        PROVE  AuthorityInv'
    <2>1. /\ taState = "SessionCreated" /\ taState' = "Computable"
          /\ taUnit' = job[c].unit /\ job' = job
          /\ csPc' = [csPc EXCEPT ![c] = "loop"]
          /\ sessions' = [sessions EXCEPT ![job[c].session] =
                             Initialize(sessions[job[c].session], job[c].unit)]
      BY <1>0, <1>2 DEF BeginOnTA, BeginComputation, TASet, TAStates
    <2>2. \A d \in Clients : csPc[d] # "loop"
      BY <2>1
    <2>3. job[c].session \in SessionIds /\ job[c].unit \in Nat
      BY <1>2, Bounds DEF BeginOnTA, TypeInv, SupportOK
    <2>4. sessions[job[c].session].indexes \in Seq(Nat)
      BY <1>0, <2>3 DEF SessionRecord
    <2>5. Len(Resize(sessions[job[c].session].indexes, job[c].unit)) = job[c].unit
      BY <2>3, <2>4, ResizeType
    <2>6. LET s == sessions'[job[c].session]
          IN s.known /\ ~s.computed /\ Len(s.indexes) = job[c].unit
      BY <1>0, <2>1, <2>3, <2>5 DEF Initialize
    <2> QED BY <1>0, <2>1, <2>2, <2>6
  <1>3. ASSUME NEW c \in Clients, ComputeOnTA(c)
        PROVE  AuthorityInv'
    <2>1. csPc[c] = "loop" /\ csPc' = csPc
      BY <1>3 DEF ComputeOnTA
    <2>2. UNCHANGED <<taState, taUnit>>
      BY <1>3, TurnType
    <2>3. job'[c].session = job[c].session /\ job'[c].unit = job[c].unit
      BY <1>3, TurnType
    <2>4. LET s == sessions[job[c].session]
              t == sessions'[job[c].session]
          IN t.known = s.known /\ t.computed = s.computed /\ Len(t.indexes) = Len(s.indexes)
      <3>1. PICK v \in Seq(Nat) :
              /\ Len(v) = Len(sessions[job[c].session].indexes)
              /\ sessions' = [sessions EXCEPT ![job[c].session] =
                                 [sessions[job[c].session] EXCEPT !.indexes = v]]
        BY <1>3, TurnType
      <3>2. job[c].session \in SessionIds
        BY <2>1 DEF TypeInv, SupportOK
      <3> QED BY <1>0, <3>1, <3>2 DEF SessionRecord
    <2> QED BY <2>1, <2>2, <2>3, <2>4
  <1>4. ASSUME NEW c \in Clients, EndOnTA(c)
        PROVE  AuthorityInv'
    <2>1. /\ csPc[c] = "loop" /\ csPc' = [csPc EXCEPT ![c] = "idle"]
          /\ taState' = TASet(taState, "EndRequest")
      BY <1>4 DEF EndOnTA, EndComputation
    <2>2. taState = "Computable"
      BY <2>1
    <2>3. taState' = "SessionCreated"
      BY <2>1, <2>2 DEF TASet
    <2>4. \A d \in Clients : csPc'[d] # "loop"
      BY <1>0, <2>1
    <2> QED BY <2>3, <2>4
  <1>5. ASSUME NEW q \in Queries, CreateSession(q)
        PROVE  AuthorityInv'
    <2>1. /\ taState' = TASet(taState, "SessionCreate")
          /\ UNCHANGED <<taUnit, sessions, csPc, job>>
      BY <1>5 DEF CreateSession, RecvSessionCreate, SessionCreate
    <2>2. /\ taState' # "Computing"
          /\ taState' = "Computable" <=> taState = "Computable"
      BY <1>0, <2>1 DEF TASet, TAStates
    <2> QED BY <2>1, <2>2
  <1>6. ASSUME NEW q \in Queries, SendInput(q)
        PROVE  AuthorityInv'
    BY <1>0, <1>6, <1>a, ClientAssumption DEF SendInput, RecvEncInput, taVars
  <1>7. ASSUME NEW q \in Queries, SendComputeRequest(q)
        PROVE  AuthorityInv'
    BY <1>0, <1>7, <1>a, ClientAssumption DEF SendComputeRequest, RecvComputeRequest, taVars
  <1>8. ASSUME NEW q \in Queries, StartResultThread(q) \/ ResultStep(q)
        PROVE  AuthorityInv'
    BY <1>8 DEF StartResultThread, ResultStep, ResultCheck, ResultRead, taVars, csVars
  <1>9. CASE ProviderStep
    BY <1>9 DEF ProviderStep, StoreModel, RaiseEncModel, taVars
  <1>10. CASE Tick /\ UNCHANGED <<csVars, clientVars>>
    BY <1>10 DEF Tick, csVars
  <1>11. CASE UNCHANGED vars
    BY <1>11 DEF vars, taVars, csVars
  <1> QED
    BY <1>1, <1>2, <1>3, <1>4, <1>5, <1>6, <1>7, <1>8, <1>9, <1>10, <1>11
    DEF Next, ServerStep, ClientStep, ResultStep, Waited

\* The types and the authority's invariant together, for the theorems below.
LEMMA AuthorityAlways == Spec => [](TypeInv /\ AuthorityInv)
  BY InitType, NextType, InitAuthority, NextAuthority, PTL DEF Spec

\* At most one computation is between begin and end, whatever the clients do
\* and however long a second is.
THEOREM OneComputationCorrect == Spec => []OneComputation
  <1>1. TypeInv /\ AuthorityInv => OneComputation
    BY DEF AuthorityInv
  <1> QED BY AuthorityAlways, <1>1, PTL

\* The unit and the session the authority works with are its caller's.
THEOREM AuthorityServesCallerCorrect == Spec => []AuthorityServesCaller
  <1>1. TypeInv /\ AuthorityInv => AuthorityServesCaller
    BY DEF AuthorityInv
  <1> QED BY AuthorityAlways, <1>1, PTL

-----------------------------------------------------------------------------
(* The model is there when it is needed.                                    *)

ModelInv ==
    /\ modelReceived => encmodel
    /\ \A c \in Clients :
         conn[c].name \in {"Computable", "Computing"} \/ csPc[c] \in {"begin", "loop"}
           => modelReceived

LEMMA InitModel == Init => ModelInv
  BY DEF Init, CSInit, ModelInv, CSState

LEMMA NextModel == TypeInv /\ ModelInv /\ [Next]_vars => ModelInv'
  <1> SUFFICES ASSUME TypeInv, ModelInv, [Next]_vars PROVE ModelInv'
    OBVIOUS
  <1> USE DEF ModelInv
  <1>0. /\ csPc \in [Clients -> {"idle", "wait_model", "begin", "loop"}]
        /\ conn \in [Clients -> ConnRecord]
        /\ Owner \in [Queries -> Clients]
    BY ClientAssumption DEF TypeInv, TypeOK, CSTypeOK
  <1>1. ASSUME NEW c \in Clients, ServerStep(c)
        PROVE  ModelInv'
    <2>1. CASE WaitModel(c)
      BY <1>0, <2>1 DEF WaitModel
    <2>2. CASE BeginOnTA(c)
      BY <1>0, <2>2 DEF BeginOnTA
    <2>3. CASE ComputeOnTA(c)
      <3>1. UNCHANGED <<conn, csPc, encmodel, modelReceived>>
        BY <2>3 DEF ComputeOnTA
      <3> QED BY <3>1
    <2>4. CASE EndOnTA(c)
      BY <1>0, <2>4 DEF EndOnTA
    <2> QED BY <1>1, <2>1, <2>2, <2>3, <2>4 DEF ServerStep
  <1>2. ASSUME NEW q \in Queries, CreateSession(q)
        PROVE  ModelInv'
    BY <1>0, <1>2 DEF CreateSession, RecvSessionCreate, CSSet, CSState, ConnRecord
  <1>3. ASSUME NEW q \in Queries, SendInput(q)
        PROVE  ModelInv'
    <2>1. PICK p \in PermVecs : RecvEncInput(Owner[q], q, p)
      BY <1>3, ClientAssumption DEF SendInput
    <2>2. CSSet(CSSet(conn[Owner[q]], "EncInput"), "PermVec").name = conn[Owner[q]].name
      BY <1>0, <2>1 DEF RecvEncInput, CSSet, ConnRecord
    <2> QED BY <1>0, <2>1, <2>2 DEF RecvEncInput
  <1>4. ASSUME NEW q \in Queries, SendComputeRequest(q)
        PROVE  ModelInv'
    BY <1>0, <1>4 DEF SendComputeRequest, RecvComputeRequest
  <1>5. ASSUME NEW q \in Queries, StartResultThread(q) \/ ResultStep(q)
        PROVE  ModelInv'
    BY <1>5 DEF StartResultThread, ResultStep, ResultCheck, ResultRead, csVars
  <1>6. CASE ProviderStep
    BY <1>6 DEF ProviderStep, StoreModel, RaiseEncModel
  <1>7. CASE Tick /\ UNCHANGED <<csVars, clientVars>>
    BY <1>7 DEF csVars
  <1>8. CASE UNCHANGED vars
    BY <1>8 DEF vars, csVars
  <1> QED
    BY <1>1, <1>2, <1>3, <1>4, <1>5, <1>6, <1>7, <1>8
    DEF Next, ClientStep, Waited

\* No handler computes without a model, although nothing but the order of the
\* provider's two steps and a polled flag says so.
THEOREM ModelBeforeComputeCorrect == Spec => []ModelBeforeCompute
  <1>1. Spec => [](TypeInv /\ ModelInv)
    BY InitType, NextType, InitModel, NextModel, PTL DEF Spec
  <1>2. TypeInv /\ ModelInv => ModelBeforeCompute
    BY DEF ModelInv, ModelBeforeCompute
  <1> QED BY <1>1, <1>2, PTL

-----------------------------------------------------------------------------
(* Identifiers of one second are the same.  Only a new session changes      *)
(* which identifiers are shared, and it can only make one of them shared.   *)

LEMMA UnsharedKept ==
    ASSUME UNCHANGED sid
    PROVE  Unshared' = Unshared
  BY DEF Unshared

LEMMA UnsharedShrinks ==
    ASSUME TypeInv, NEW q \in Queries, sid[q] = 0, now \in SessionIds,
           sid' = [sid EXCEPT ![q] = now]
    PROVE  /\ Unshared' \subseteq Unshared
           /\ now \in Unshared' => \A r \in Queries : sid[r] # now
  <1>1. sid \in [Queries -> 0 .. MaxTime]
    BY DEF TypeInv, TypeOK
  <1>2. ASSUME NEW id \in Unshared' PROVE id \in Unshared
    <2> SUFFICES ASSUME NEW r \in Queries, NEW s \in Queries, sid[r] = id, sid[s] = id
                 PROVE  r = s
      BY <1>2 DEF Unshared
    <2>1. id \in SessionIds /\ \A t, u \in Queries : sid'[t] = id /\ sid'[u] = id => t = u
      BY <1>2 DEF Unshared
    <2>2. r # q /\ s # q
      BY <2>1
    <2>3. sid'[r] = id /\ sid'[s] = id
      BY <1>1, <2>2
    <2> QED BY <2>1, <2>3
  <1>3. ASSUME now \in Unshared', NEW r \in Queries, sid[r] = now
        PROVE  FALSE
    <2>1. \A t, u \in Queries : sid'[t] = now /\ sid'[u] = now => t = u
      BY <1>3 DEF Unshared
    <2>2. r # q
      BY <1>3
    <2>3. sid'[q] = now /\ sid'[r] = now
      BY <1>1, <1>3, <2>2
    <2> QED BY <2>1, <2>2, <2>3
  <1> QED BY <1>2, <1>3

-----------------------------------------------------------------------------
(* Results.  The handler of a connection works for exactly one query of its *)
(* client; a session that only one query has stays as it was made until its *)
(* computation begins, and holds the best indexes of that query once it is  *)
(* computed, whatever happens to the sessions that are shared.              *)

\* The handler of connection c computes for query q.
Serves(c, q) ==
    /\ Owner[q] = c
    /\ call[q] = "requested"
    /\ job[c].session = sid[q]
    /\ job[c].unit = Unit[q]
    /\ input[c] = [query |-> q, permvec |-> permvec[q]]

\* indexes are, through the permutation perm, best classes of q.
IsBest(q, perm, indexes) ==
    /\ Len(indexes) = Unit[q]
    /\ \A k \in 1 .. Unit[q] :
         /\ indexes[k] \in Classes
         /\ \A b \in Classes : Score[q][k][b] <= Score[q][k][perm[indexes[k]]]

HandlerInv ==
    \A c \in Clients :
        /\ csPc[c] \in {"begin", "loop"} => \E q \in Queries : Serves(c, q)
        /\ csPc[c] = "begin" =>
             /\ job[c].index = 1
             /\ job[c].max = Permed(c, 0)
             /\ job[c].session \in Unshared => sessions[job[c].session] = NewSession

QueryInv ==
    \A q \in Queries :
        /\ call[q] \in {"session", "created", "input"} /\ sid[q] \in Unshared =>
             sessions[sid[q]] = NewSession
        /\ call[q] = "input" => input[Owner[q]] = [query |-> q, permvec |-> permvec[q]]
        /\ call[q] \in {"input", "requested"} => permvec[q] \in PermVecs
        /\ call[q] = "new" => sid[q] = 0

FreshInv ==
    \A id \in SessionIds : (\A q \in Queries : sid[q] # id) => sessions[id] = NewSession

ComputedInv ==
    \A q \in Queries : sid[q] \in Unshared =>
        /\ sessions[sid[q]].computed =>
             call[q] = "requested" /\ IsBest(q, permvec[q], sessions[sid[q]].indexes)
        /\ thr[q] \in {"read", "done"} => sessions[sid[q]].computed
        /\ thr[q] = "done" => result[q] = sessions[sid[q]].indexes

ResultInv == HandlerInv /\ QueryInv /\ FreshInv /\ ComputedInv /\ RunningMaximum

\* A permutation takes classes to classes.
LEMMA PermVecType == \A p \in PermVecs : p \in [Classes -> Classes]
  BY CSAssumption

\* Every data item of a query has an integer score for every class.
LEMMA ScoreType ==
    ASSUME NEW q \in Queries, NEW k \in Slots
    PROVE  Score[q][k] \in [Classes -> Int]
  <1>1. Score[q] \in [Slots -> [Classes -> Int]]
    BY CSAssumption
  <1> QED BY <1>1

\* Below half of the modulus means not negative, for numbers within half of it.
LEMMA ModSign ==
    ASSUME NEW M \in Nat \ {0, 1}, NEW x \in Int, -x <= M \div 2, x < M \div 2
    PROVE  x % M < M \div 2 <=> x >= 0
  <1>1. 2 * (M \div 2) <= M /\ M \div 2 \in Nat
    OBVIOUS
  <1>2. CASE x >= 0
    <2>1. x % M = x
      BY <1>1, <1>2
    <2> QED BY <1>2, <2>1
  <1>3. CASE x < 0
    <2>1. x % M = x + M
      BY <1>1, <1>3
    <2> QED BY <1>1, <1>3, <2>1
  <1> QED BY <1>2, <1>3

\* The authority's bit is the sign of the difference the server masked.
LEMMA CompareIsSign ==
    ASSUME NEW v, NEW k \in Slots, k <= taUnit,
           NEW f \in 1 .. MaxCoeff, NEW a \in Int, NEW b \in Int,
           v[k] = (f * (a - b)) % PlainMod,
           f * (a - b) < PlainMod \div 2,
           f * (b - a) < PlainMod \div 2
    PROVE  Compare(v, k) = IF a >= b THEN 1 ELSE 0
  <1>1. f \in Nat \ {0} /\ PlainMod \in Nat \ {0, 1}
    BY CSAssumption, TAAssumption
  <1> DEFINE x == f * (a - b)
  <1>2. x \in Int /\ f * (b - a) = -x
    BY <1>1
  <1>3. x >= 0 <=> a >= b
    BY <1>1
  <1>4. -x <= PlainMod \div 2
    BY <1>1, <1>2
  <1> HIDE DEF x
  <1>5. x % PlainMod < PlainMod \div 2 <=> x >= 0
    BY <1>1, <1>2, <1>4, ModSign DEF x
  <1>6. v[k] = x % PlainMod
    BY DEF x
  <1> QED BY <1>3, <1>5, <1>6 DEF Compare

\* A turn of the loop leaves in each slot of the unit the better of the
\* candidate and the maximum so far, in both processes.
LEMMA TurnKeepsBetter ==
    ASSUME TypeInv, AuthorityInv, HandlerInv, QueryInv, RunningMaximum,
           NEW c \in Clients, ComputeOnTA(c), job[c].session \in Unshared,
           NEW k \in 1 .. job[c].unit
    PROVE  LET cand == Permed(c, job[c].index)
               better == cand[k] >= job[c].max[k]
           IN /\ job'[c].max[k] = IF better THEN cand[k] ELSE job[c].max[k]
              /\ sessions'[job[c].session].indexes[k] =
                    IF better THEN job[c].index
                    ELSE sessions[job[c].session].indexes[k]
  <1> USE Bounds
  <1>1. csPc[c] = "loop" /\ job[c].index \in 1 .. ClassNum - 1
    BY DEF ComputeOnTA, TypeInv, SupportOK
  <1>2. /\ job \in [Clients -> JobRecord]
        /\ sessions \in [SessionIds -> SessionRecord]
        /\ job[c].session \in SessionIds
        /\ job[c].unit \in Slots
    BY <1>1 DEF TypeInv, TypeOK, CSTypeOK, TATypeOK, SupportOK
  <1>3. /\ taUnit = job[c].unit
        /\ Len(sessions[job[c].session].indexes) = taUnit
    BY <1>1 DEF AuthorityInv, AuthorityServesCaller
  <1>4. PICK coeff \in [Slots -> 1 .. MaxCoeff] :
          LET cand == Permed(c, job[c].index)
              vdiff == Mask(c, [n \in Slots |-> cand[n] - job[c].max[n]], coeff)
              ses == sessions[job[c].session]
          IN /\ job' = [job EXCEPT ![c] = [job[c] EXCEPT
                  !.index = job[c].index + 1,
                  !.max = [n \in Slots |->
                     cand[n] * Compare(vdiff, n) - (Compare(vdiff, n) - 1) * job[c].max[n]]]]
             /\ sessions' = [sessions EXCEPT ![job[c].session] = [ses EXCEPT
                  !.indexes = [n \in 1 .. Len(ses.indexes) |->
                     IF Compare(vdiff, n) = 1 THEN job[c].index ELSE ses.indexes[n]]]]
    BY TurnWrites
  <1> DEFINE cand == Permed(c, job[c].index)
             vdiff == Mask(c, [n \in Slots |-> cand[n] - job[c].max[n]], coeff)
             ses == sessions[job[c].session]
             i == ses.indexes[k]
  <1>5. k \in Slots
    BY <1>2
  <1>6. PICK q \in Queries : Serves(c, q)
    BY <1>1 DEF HandlerInv
  <1>7. /\ input[c].query = q /\ input[c].permvec = permvec[q]
        /\ permvec[q] \in [Classes -> Classes]
    <2>1. /\ input[c] = [query |-> q, permvec |-> permvec[q]]
          /\ call[q] = "requested"
      BY <1>6 DEF Serves
    <2>2. permvec[q] \in PermVecs
      BY <2>1 DEF QueryInv
    <2> QED BY <2>1, <2>2, PermVecType
  <1>8. i \in 0 .. job[c].index - 1 /\ job[c].max[k] = Permed(c, i)[k]
    BY <1>1 DEF RunningMaximum
  <1>9. i \in Classes /\ job[c].index \in Classes
    BY <1>1, <1>8
  <1>10. /\ cand[k] = Score[q][k][permvec[q][job[c].index]]
         /\ job[c].max[k] = Score[q][k][permvec[q][i]]
    BY <1>5, <1>7, <1>8 DEF Permed
  <1>11. /\ permvec[q][job[c].index] \in Classes
         /\ permvec[q][i] \in Classes
         /\ coeff[k] \in 1 .. MaxCoeff
    BY <1>5, <1>7, <1>9
  <1>12. cand[k] \in Int /\ job[c].max[k] \in Int
    <2>1. Score[q][k] \in [Classes -> Int]
      BY <1>5, ScoreType
    <2> HIDE DEF cand, i
    <2> QED BY <1>10, <1>11, <2>1
  <1>13. /\ coeff[k] * (cand[k] - job[c].max[k]) < PlainMod \div 2
         /\ coeff[k] * (job[c].max[k] - cand[k]) < PlainMod \div 2
    BY <1>5, <1>10, <1>11, ScoresFit
  <1>14. vdiff[k] = (coeff[k] * (cand[k] - job[c].max[k])) % PlainMod
    BY <1>2, <1>5 DEF Mask
  <1> HIDE DEF cand, vdiff, i
  <1>15. Compare(vdiff, k) = IF cand[k] >= job[c].max[k] THEN 1 ELSE 0
    <2> DEFINE a == cand[k]
               b == job[c].max[k]
               f == coeff[k]
    <2>1. /\ a \in Int /\ b \in Int /\ f \in 1 .. MaxCoeff /\ k <= taUnit
          /\ vdiff[k] = (f * (a - b)) % PlainMod
          /\ f * (a - b) < PlainMod \div 2
          /\ f * (b - a) < PlainMod \div 2
      BY <1>3, <1>11, <1>12, <1>13, <1>14
    <2> HIDE DEF a, b, f
    <2>2. Compare(vdiff, k) = IF a >= b THEN 1 ELSE 0
      BY <1>5, <2>1, CompareIsSign
    <2> QED BY <2>2 DEF a, b
  <1>16. job'[c].max[k] =
            cand[k] * Compare(vdiff, k) - (Compare(vdiff, k) - 1) * job[c].max[k]
    <2>1. job'[c] = [job[c] EXCEPT
                  !.index = job[c].index + 1,
                  !.max = [n \in Slots |->
                     cand[n] * Compare(vdiff, n) - (Compare(vdiff, n) - 1) * job[c].max[n]]]
      BY <1>2, <1>4 DEF cand, vdiff
    <2> QED BY <1>2, <1>5, <2>1 DEF JobRecord
  <1>17. sessions'[job[c].session].indexes[k] =
            IF Compare(vdiff, k) = 1 THEN job[c].index ELSE i
    <2>1. sessions'[job[c].session] = [ses EXCEPT
                  !.indexes = [n \in 1 .. Len(ses.indexes) |->
                     IF Compare(vdiff, n) = 1 THEN job[c].index ELSE ses.indexes[n]]]
      BY <1>2, <1>4 DEF cand, vdiff
    <2>2. ses \in SessionRecord
      BY <1>2
    <2> QED BY <1>2, <1>3, <2>1, <2>2 DEF SessionRecord, i
  <1>18. CASE cand[k] >= job[c].max[k]
    BY <1>12, <1>15, <1>16, <1>17, <1>18 DEF cand, i
  <1>19. CASE ~(cand[k] >= job[c].max[k])
    BY <1>12, <1>15, <1>16, <1>17, <1>19 DEF cand, i
  <1> QED BY <1>18, <1>19

\* Everything the preservation of the results rests on.
AllInv == TypeInv /\ AuthorityInv /\ ResultInv

\* The types of what the results are about.
LEMMA ResultTypes ==
    ASSUME TypeInv
    PROVE  /\ sessions \in [SessionIds -> SessionRecord]
           /\ job \in [Clients -> JobRecord]
           /\ csPc \in [Clients -> {"idle", "wait_model", "begin", "loop"}]
           /\ input \in [Clients -> InputRecord \cup {NoInput}]
           /\ call \in [Queries -> {"new", "session", "created", "input", "requested", "failed"}]
           /\ sid \in [Queries -> 0 .. MaxTime]
           /\ permvec \in [Queries -> PermVecs \cup {NoInput}]
           /\ thr \in [Queries -> {"none", "poll", "read", "done"}]
           /\ result \in [Queries -> Seq(Nat)]
           /\ Owner \in [Queries -> Clients]
  BY ClientAssumption DEF TypeInv, TypeOK, CSTypeOK, TATypeOK

\* Handlers of two connections work on two sessions, unless theirs are shared.
LEMMA OwnJobs ==
    ASSUME HandlerInv,
           NEW c \in Clients, NEW d \in Clients, c # d,
           csPc[c] \in {"begin", "loop"}, csPc[d] \in {"begin", "loop"},
           job[d].session \in Unshared
    PROVE  job[c].session # job[d].session
  <1>1. PICK q \in Queries : Owner[q] = c /\ job[c].session = sid[q]
    BY DEF HandlerInv, Serves
  <1>2. PICK r \in Queries : Owner[r] = d /\ job[d].session = sid[r]
    BY DEF HandlerInv, Serves
  <1>3. q # r
    BY <1>1, <1>2
  <1> QED BY <1>1, <1>2, <1>3 DEF Unshared

\* No session has been written when nothing has happened.
LEMMA InitResult == Init => ResultInv
  <1> SUFFICES ASSUME Init PROVE ResultInv
    OBVIOUS
  <1>1. HandlerInv /\ RunningMaximum
    BY DEF Init, CSInit, HandlerInv, RunningMaximum
  <1>2. QueryInv /\ FreshInv
    BY DEF Init, CSInit, TAInit, QueryInv, FreshInv
  <1>3. ComputedInv
    <2>1. \A q \in Queries : sid[q] \notin Unshared
      BY DEF Init, Unshared
    <2> QED BY <2>1 DEF ComputedInv
  <1> QED BY <1>1, <1>2, <1>3 DEF ResultInv

\* A handler whose job, session and input a step leaves alone keeps its maximum.
LEMMA KeepMaximum ==
    ASSUME RunningMaximum,
           \A c \in Clients : csPc'[c] = "loop" /\ job'[c].session \in Unshared' =>
              /\ csPc[c] = "loop"
              /\ job'[c] = job[c]
              /\ job[c].session \in Unshared
              /\ sessions'[job[c].session] = sessions[job[c].session]
              /\ \A j : Permed(c, j)' = Permed(c, j)
    PROVE  RunningMaximum'
  <1> SUFFICES ASSUME NEW c \in Clients, csPc'[c] = "loop", job'[c].session \in Unshared',
                      NEW k \in 1 .. job'[c].unit,
                      NEW i, i = sessions'[job'[c].session].indexes[k]
               PROVE  /\ i \in 0 .. job'[c].index - 1
                      /\ job'[c].max[k] = Permed(c, i)'[k]
                      /\ \A j \in 0 .. job'[c].index - 1 :
                            Permed(c, j)'[k] <= job'[c].max[k]
    BY DEF RunningMaximum
  <1>1. /\ job'[c] = job[c] /\ csPc[c] = "loop" /\ job[c].session \in Unshared
        /\ i = sessions[job[c].session].indexes[k]
        /\ \A j : Permed(c, j)' = Permed(c, j)
    OBVIOUS
  <1>2. /\ i \in 0 .. job[c].index - 1
        /\ job[c].max[k] = Permed(c, i)[k]
        /\ \A j \in 0 .. job[c].index - 1 : Permed(c, j)[k] <= job[c].max[k]
    BY <1>1 DEF RunningMaximum
  <1> QED BY <1>1, <1>2

\* A step that touches neither the sessions, the handlers, nor the queries'
\* sessions and permutations keeps the results, if no result is read too early.
LEMMA QuietResult ==
    ASSUME AllInv, UNCHANGED <<sessions, job, input, sid, permvec>>,
           \A c \in Clients : csPc'[c] \in {"begin", "loop"} => csPc'[c] = csPc[c],
           \A q \in Queries : call'[q] = call[q] \/ (call[q] = "session" /\ call'[q] = "created"),
           \A q \in Queries : sid[q] \in Unshared =>
              /\ thr'[q] \in {"read", "done"} => sessions[sid[q]].computed
              /\ thr'[q] = "done" => result'[q] = sessions[sid[q]].indexes
    PROVE  ResultInv'
  <1> USE UnsharedKept DEF AllInv, ResultInv
  <1>1. \A c \in Clients, q \in Queries : Serves(c, q) => Serves(c, q)'
    BY DEF Serves
  <1>2. \A c \in Clients : csPc'[c] \in {"begin", "loop"} => \E q \in Queries : Serves(c, q)'
    BY <1>1 DEF HandlerInv
  <1>3. \A c \in Clients : Permed(c, 0)' = Permed(c, 0)
    BY DEF Permed
  <1>4. HandlerInv'
    BY <1>2, <1>3 DEF HandlerInv
  <1>5. QueryInv'
    BY DEF QueryInv
  <1>6. FreshInv'
    BY DEF FreshInv
  <1>7. ComputedInv'
    BY DEF ComputedInv
  <1>8. RunningMaximum'
    <2>1. \A c \in Clients : \A j : Permed(c, j)' = Permed(c, j)
      BY DEF Permed
    <2> QED BY <2>1, KeepMaximum
  <1> QED BY <1>4, <1>5, <1>6, <1>7, <1>8

\* A new session is one nothing has written to, or it is another query's too.
LEMMA CreateSessionResult ==
    ASSUME AllInv, NEW q \in Queries, CreateSession(q)
    PROVE  ResultInv'
  <1> USE ResultTypes DEF AllInv, ResultInv
  <1>1. /\ call[q] = "new" /\ call' = [call EXCEPT ![q] = "session"]
        /\ sid' = [sid EXCEPT ![q] = now]
        /\ now \in SessionIds
        /\ UNCHANGED <<sessions, input, csPc, job, permvec, thr, result>>
    BY Bounds DEF CreateSession, RecvSessionCreate, SessionCreate, gen_uuid,
                  TypeInv, TypeOK, CSTypeOK, TATypeOK
  <1>2. /\ sid[q] = 0
        /\ Unshared' \subseteq Unshared
        /\ now \in Unshared' => \A r \in Queries : sid[r] # now
    <2>1. sid[q] = 0
      BY <1>1 DEF QueryInv
    <2> QED BY <1>1, <2>1, UnsharedShrinks
  <1>3. now \in Unshared' => sessions[now] = NewSession
    BY <1>1, <1>2 DEF FreshInv
  <1>4. thr[q] = "none"
    BY <1>1 DEF TypeInv, SupportOK
  <1>5. \A c \in Clients, r \in Queries : Serves(c, r) => Serves(c, r)'
    BY <1>1 DEF Serves
  <1>6. \A c \in Clients : \A j : Permed(c, j)' = Permed(c, j)
    BY <1>1 DEF Permed
  <1>7. HandlerInv'
    BY <1>1, <1>2, <1>5, <1>6 DEF HandlerInv
  <1>8. QueryInv'
    BY <1>1, <1>2, <1>3 DEF QueryInv
  <1>9. FreshInv'
    BY <1>1, <1>2 DEF FreshInv
  <1>10. ComputedInv'
    <2>1. \A r \in Queries \ {q} : sid'[r] = sid[r] /\ call'[r] = call[r]
      BY <1>1
    <2>2. sid'[q] \in Unshared' => ~sessions'[sid'[q]].computed /\ thr'[q] = "none"
      BY <1>1, <1>3, <1>4 DEF NewSession
    <2> QED BY <1>1, <1>2, <2>1, <2>2 DEF ComputedInv
  <1>11. RunningMaximum'
    BY <1>1, <1>2, <1>6, KeepMaximum
  <1> QED BY <1>7, <1>8, <1>9, <1>10, <1>11

\* Sending an input replaces what the connection held for an earlier query,
\* whose handler has returned.
LEMMA SendInputResult ==
    ASSUME AllInv, NEW q \in Queries, SendInput(q)
    PROVE  ResultInv'
  <1> USE ResultTypes DEF AllInv, ResultInv
  <1>1. PICK p \in PermVecs :
          /\ permvec' = [permvec EXCEPT ![q] = p]
          /\ input' = [input EXCEPT ![Owner[q]] = [query |-> q, permvec |-> p]]
          /\ csPc[Owner[q]] = "idle"
          /\ \A c \in Clients : csPc'[c] \in {"begin", "loop"} => csPc'[c] = csPc[c]
          /\ csPc'[Owner[q]] \in {"idle", "wait_model"}
    BY ClientAssumption DEF SendInput, RecvEncInput
  <1>2. /\ call[q] = "created" /\ call' = [call EXCEPT ![q] = "input"]
        /\ \A r \in Queries : Owner[r] = Owner[q] => call[r] # "input"
        /\ UNCHANGED <<sessions, job, sid, thr, result>>
        /\ Unshared' = Unshared
    BY UnsharedKept DEF SendInput, RecvEncInput, Free, Own, taVars
  <1>3. sid[q] \in Unshared => sessions[sid[q]] = NewSession
    BY <1>2 DEF QueryInv
  <1>4. \A c \in Clients \ {Owner[q]} :
            /\ input'[c] = input[c]
            /\ \A r \in Queries : Serves(c, r) => Serves(c, r)'
    BY <1>1, <1>2 DEF Serves
  <1>5. \A c \in Clients \ {Owner[q]} : \A j : Permed(c, j)' = Permed(c, j)
    BY <1>4 DEF Permed
  <1>6. \A c \in Clients : csPc'[c] \in {"begin", "loop"} =>
            c # Owner[q] /\ csPc[c] = csPc'[c]
    BY <1>1
  <1>7. HandlerInv'
    BY <1>2, <1>4, <1>5, <1>6 DEF HandlerInv
  <1>8. QueryInv'
    <2>1. \A r \in Queries \ {q} : permvec'[r] = permvec[r] /\ call'[r] = call[r]
      BY <1>1, <1>2
    <2>2. \A r \in Queries \ {q} : call[r] = "input" => input'[Owner[r]] = input[Owner[r]]
      BY <1>1, <1>2
    <2>3. /\ permvec'[q] = p /\ call'[q] = "input"
          /\ input'[Owner[q]] = [query |-> q, permvec |-> p]
      BY <1>1, <1>2
    <2> QED BY <1>2, <1>3, <2>1, <2>2, <2>3 DEF QueryInv
  <1>9. FreshInv'
    BY <1>2 DEF FreshInv
  <1>10. ComputedInv'
    <2>1. \A r \in Queries \ {q} : permvec'[r] = permvec[r] /\ call'[r] = call[r]
      BY <1>1, <1>2
    <2>2. sid[q] \in Unshared => ~sessions[sid[q]].computed
      BY <1>3 DEF NewSession
    <2> QED BY <1>2, <2>1, <2>2 DEF ComputedInv
  <1>11. RunningMaximum'
    BY <1>2, <1>5, <1>6, KeepMaximum
  <1> QED BY <1>7, <1>8, <1>9, <1>10, <1>11

\* A compute request starts a handler on the input that was sent before it.
LEMMA SendComputeRequestResult ==
    ASSUME AllInv, NEW q \in Queries, SendComputeRequest(q)
    PROVE  ResultInv'
  <1> USE ResultTypes DEF AllInv, ResultInv
  <1> DEFINE c == Owner[q]
  <1>1. /\ call[q] = "input" /\ call' = [call EXCEPT ![q] = "requested"]
        /\ csPc[c] = "idle" /\ csPc' = [csPc EXCEPT ![c] = "begin"]
        /\ job' = [job EXCEPT ![c] = [session |-> sid[q], unit |-> Unit[q], index |-> 1,
                                      max |-> Permed(c, 0)]]
        /\ UNCHANGED <<sessions, input, sid, permvec, thr, result>>
        /\ Unshared' = Unshared
    BY UnsharedKept DEF SendComputeRequest, RecvComputeRequest, taVars
  <1>2. \A d : \A j : Permed(d, j)' = Permed(d, j)
    BY <1>1 DEF Permed
  <1>3. /\ sid[q] \in Unshared => sessions[sid[q]] = NewSession
        /\ input[c] = [query |-> q, permvec |-> permvec[q]]
    BY <1>1 DEF QueryInv
  <1>4. Serves(c, q)'
    BY <1>1, <1>3 DEF Serves
  <1>5. \A d \in Clients \ {c} : \A r \in Queries : Serves(d, r) => Serves(d, r)'
    BY <1>1 DEF Serves
  <1>6. HandlerInv'
    <2>1. /\ job'[c].session = sid[q] /\ job'[c].index = 1 /\ job'[c].max = Permed(c, 0)
          /\ \A d \in Clients \ {c} : job'[d] = job[d] /\ csPc'[d] = csPc[d]
      BY <1>1
    <2> HIDE DEF c
    <2> QED BY <1>1, <1>2, <1>3, <1>4, <1>5, <2>1 DEF HandlerInv
  <1>7. QueryInv'
    BY <1>1 DEF QueryInv
  <1>8. FreshInv'
    BY <1>1 DEF FreshInv
  <1>9. ComputedInv'
    <2>1. sid[q] \in Unshared => ~sessions[sid[q]].computed
      BY <1>3 DEF NewSession
    <2> QED BY <1>1, <2>1 DEF ComputedInv
  <1>10. RunningMaximum'
    <2>1. \A d \in Clients : csPc'[d] = "loop" => csPc[d] = "loop" /\ job'[d] = job[d]
      BY <1>1
    <2> QED BY <1>1, <1>2, <2>1, KeepMaximum
  <1> QED BY <1>6, <1>7, <1>8, <1>9, <1>10

\* Writing to the session a handler works for disturbs no query with another
\* session.
LEMMA WriteOwnSession ==
    ASSUME AllInv, NEW c \in Clients, csPc[c] \in {"begin", "loop"},
           NEW q \in Queries, Serves(c, q),
           \A id \in SessionIds \ {sid[q]} : sessions'[id] = sessions[id],
           UNCHANGED <<input, call, sid, permvec, thr, result>>,
           sid[q] \in Unshared =>
              /\ sessions[sid[q]].computed = FALSE
              /\ sessions'[sid[q]].computed =>
                    IsBest(q, permvec[q], sessions'[sid[q]].indexes)
    PROVE  /\ QueryInv'
           /\ FreshInv'
           /\ ComputedInv'
           /\ \A d \in Clients \ {c} :
                 csPc[d] \in {"begin", "loop"} /\ job[d].session \in Unshared =>
                    sessions'[job[d].session] = sessions[job[d].session]
  <1>0. /\ TypeInv /\ HandlerInv /\ QueryInv /\ FreshInv /\ ComputedInv
        /\ Unshared' = Unshared
    BY UnsharedKept DEF AllInv, ResultInv
  <1>1. call[q] = "requested" /\ job[c].session = sid[q]
    BY DEF Serves
  <1>2. \A r \in Queries \ {q} :
            sid[r] \in Unshared => sid[r] # sid[q] /\ sessions'[sid[r]] = sessions[sid[r]]
    BY DEF Unshared
  <1>3. QueryInv'
    <2> SUFFICES ASSUME NEW r \in Queries, call[r] \in {"session", "created", "input"},
                        sid[r] \in Unshared
                 PROVE  sessions'[sid[r]] = NewSession
      BY <1>0 DEF QueryInv
    <2> QED BY <1>0, <1>1, <1>2 DEF QueryInv
  <1>4. FreshInv'
    <2> SUFFICES ASSUME NEW id \in SessionIds, \A r \in Queries : sid[r] # id
                 PROVE  sessions'[id] = NewSession
      BY DEF FreshInv
    <2> QED BY <1>0 DEF FreshInv
  <1>5. ComputedInv'
    <2> SUFFICES ASSUME NEW r \in Queries, sid[r] \in Unshared
                 PROVE  /\ sessions'[sid[r]].computed =>
                             /\ call[r] = "requested"
                             /\ IsBest(r, permvec[r], sessions'[sid[r]].indexes)
                        /\ thr[r] \in {"read", "done"} => sessions'[sid[r]].computed
                        /\ thr[r] = "done" => result[r] = sessions'[sid[r]].indexes
      BY <1>0 DEF ComputedInv
    <2>1. CASE r = q
      BY <1>0, <1>1, <2>1 DEF ComputedInv
    <2>2. CASE r # q
      BY <1>0, <1>2, <2>2 DEF ComputedInv
    <2> QED BY <2>1, <2>2
  <1>6. ASSUME NEW d \in Clients \ {c}, csPc[d] \in {"begin", "loop"},
               job[d].session \in Unshared
        PROVE  sessions'[job[d].session] = sessions[job[d].session]
    <2>1. job[d].session \in SessionIds
      BY <1>6 DEF Unshared
    <2>2. job[d].session # sid[q]
      BY <1>0, <1>1, <1>6, OwnJobs
    <2> QED BY <2>1, <2>2
  <1> QED BY <1>3, <1>4, <1>5, <1>6

\* Beginning fills a session that holds one zero index with zeros: class 0 of
\* the permutation is the maximum so far.
LEMMA BeginResult ==
    ASSUME AllInv, NEW c \in Clients, BeginOnTA(c), UNCHANGED clientVars
    PROVE  ResultInv'
  <1> USE Bounds
  <1>0. /\ TypeInv /\ AuthorityInv /\ HandlerInv /\ QueryInv
        /\ ComputedInv /\ RunningMaximum
    BY DEF AllInv, ResultInv
  <1> DEFINE ses == Initialize(sessions[job[c].session], job[c].unit)
  <1>1. /\ csPc[c] = "begin" /\ csPc' = [csPc EXCEPT ![c] = "loop"]
        /\ sessions' = [sessions EXCEPT ![job[c].session] = ses]
        /\ taState # "Computable" /\ UNCHANGED <<input, job>>
    BY DEF BeginOnTA, BeginComputation
  <1>2. PICK q \in Queries : Serves(c, q)
    BY <1>0, <1>1 DEF HandlerInv
  <1>3. /\ job[c].session = sid[q]
        /\ sid[q] \in Unshared => sessions[sid[q]] = NewSession
        /\ job[c].index = 1 /\ job[c].max = Permed(c, 0)
    BY <1>0, <1>1, <1>2 DEF HandlerInv, Serves
  <1>4. /\ sid[q] \in SessionIds /\ job[c].unit \in Slots
    BY <1>0, <1>1, <1>3 DEF TypeInv, SupportOK
  <1>5. /\ ses.computed = FALSE
        /\ sid[q] \in Unshared => ses.indexes = [k \in 1 .. job[c].unit |-> 0]
    BY <1>0, <1>3, <1>4 DEF Initialize, Resize, NewSession
  <1> HIDE DEF ses
  <1>6. /\ \A id \in SessionIds \ {sid[q]} : sessions'[id] = sessions[id]
        /\ sessions'[sid[q]] = ses
        /\ sid[q] \in Unshared => sessions[sid[q]].computed = FALSE
    BY <1>0, <1>1, <1>3, <1>4, ResultTypes DEF NewSession
  <1>7. UNCHANGED <<input, call, sid, permvec, thr, result>> /\ Unshared' = Unshared
    BY <1>0, <1>1, UnsharedKept DEF clientVars
  <1>8. /\ QueryInv'
        /\ FreshInv'
        /\ ComputedInv'
        /\ \A d \in Clients \ {c} :
              csPc[d] \in {"begin", "loop"} /\ job[d].session \in Unshared =>
              sessions'[job[d].session] = sessions[job[d].session]
    BY <1>1, <1>2, <1>5, <1>6, <1>7, WriteOwnSession
  <1>9. /\ \A d, r : Serves(d, r)' = Serves(d, r)
        /\ \A d, j : Permed(d, j)' = Permed(d, j)
    BY <1>0, <1>1, <1>7 DEF Serves, Permed
  <1>10. csPc'[c] = "loop" /\ \A d \in Clients \ {c} : csPc'[d] = csPc[d]
    BY <1>0, <1>1, ResultTypes
  <1>11. HandlerInv'
    <2>1. \A d \in Clients : csPc'[d] \in {"begin", "loop"} => csPc[d] \in {"begin", "loop"}
      BY <1>0, <1>1, <1>10
    <2> QED BY <1>0, <1>1, <1>7, <1>8, <1>9, <1>10, <2>1 DEF HandlerInv
  <1>12. RunningMaximum'
    <2>1. \A d \in Clients : csPc[d] # "loop"
      BY <1>0, <1>1 DEF AuthorityInv, OneComputation
    <2>2. \A k \in 1 .. job[c].unit : Permed(c, 0)[k] \in Int
      <3>1. CSTypeOK /\ input[c] # NoInput /\ 0 \in Classes
        BY <1>0, <1>1 DEF TypeInv, TypeOK, SupportOK
      <3>2. Permed(c, 0) \in [Slots -> Int]
        BY <3>1, PermedType
      <3> QED BY <1>4, <3>2
    <2>3. sid[q] \in Unshared => sessions'[job[c].session].indexes = [k \in 1 .. job[c].unit |-> 0]
      BY <1>0, <1>3, <1>4, <1>5, <1>6, ResultTypes
    <2> SUFFICES ASSUME sid[q] \in Unshared, NEW k \in 1 .. job[c].unit,
                        NEW i, i = sessions'[job[c].session].indexes[k]
                 PROVE  /\ i \in 0 .. job[c].index - 1
                        /\ job[c].max[k] = Permed(c, i)'[k]
                        /\ \A j \in 0 .. job[c].index - 1 : Permed(c, j)'[k] <= job[c].max[k]
      BY <1>1, <1>3, <1>7, <1>10, <2>1 DEF RunningMaximum
    <2>4. i = 0
      BY <2>3
    <2>5. \A j \in 0 .. job[c].index - 1 : j = 0
      BY <1>3
    <2> QED BY <1>3, <1>9, <2>2, <2>4, <2>5
  <1> QED BY <1>8, <1>11, <1>12 DEF ResultInv

\* Ending: every candidate has been compared, and the permutation reaches every
\* class, so that no class at all exceeds the maximum.
LEMMA EndResult ==
    ASSUME AllInv, NEW c \in Clients, EndOnTA(c), UNCHANGED clientVars
    PROVE  ResultInv'
  <1> USE Bounds
  <1>0. /\ TypeInv /\ AuthorityInv /\ HandlerInv /\ QueryInv
        /\ ComputedInv /\ RunningMaximum
    BY DEF AllInv, ResultInv
  <1> DEFINE ses == [sessions[job[c].session] EXCEPT !.known = TRUE, !.computed = TRUE]
  <1>1. /\ csPc[c] = "loop" /\ csPc' = [csPc EXCEPT ![c] = "idle"]
        /\ sessions' = [sessions EXCEPT ![job[c].session] = ses]
        /\ job[c].index >= ClassNum
        /\ job' = [job EXCEPT ![c] = NoJob]
        /\ UNCHANGED input
    BY DEF EndOnTA, EndComputation
  <1>2. PICK q \in Queries : Serves(c, q)
    BY <1>0, <1>1 DEF HandlerInv
  <1>3. /\ job[c].session = sid[q] /\ job[c].unit = Unit[q]
        /\ input[c].query = q /\ input[c].permvec = permvec[q]
        /\ permvec[q] \in PermVecs
    BY <1>0, <1>2 DEF Serves, QueryInv
  <1>4. job[c].index = ClassNum /\ job[c].session \in SessionIds /\ Unit[q] \in Slots
    BY <1>0, <1>1, <1>3 DEF TypeInv, SupportOK
  <1>5. /\ sessions[sid[q]].computed = FALSE
        /\ Len(sessions[sid[q]].indexes) = Unit[q]
    <2>1. sessions[sid[q]] \in SessionRecord
      BY <1>0, <1>3, <1>4, ResultTypes
    <2> QED BY <1>0, <1>1, <1>3, <2>1 DEF AuthorityInv, AuthorityServesCaller, SessionRecord
  <1>6. ses.indexes = sessions[sid[q]].indexes
    BY <1>0, <1>3, <1>4, ResultTypes DEF SessionRecord
  <1>7. sid[q] \in Unshared => IsBest(q, permvec[q], sessions[sid[q]].indexes)
    <2> SUFFICES ASSUME sid[q] \in Unshared, NEW k \in 1 .. Unit[q]
                 PROVE  LET i == sessions[sid[q]].indexes[k]
                        IN /\ i \in Classes
                           /\ \A b \in Classes : Score[q][k][b] <= Score[q][k][permvec[q][i]]
      BY <1>0, <1>5 DEF IsBest
    <2> DEFINE i == sessions[sid[q]].indexes[k]
    <2>1. /\ i \in Classes
          /\ job[c].max[k] = Permed(c, i)[k]
          /\ \A j \in Classes : Permed(c, j)[k] <= job[c].max[k]
      BY <1>0, <1>1, <1>3, <1>4 DEF RunningMaximum
    <2> HIDE DEF i
    <2>2. k \in Slots
      BY <1>0, <1>4
    <2>3. \A j : Permed(c, j)[k] = Score[q][k][permvec[q][j]]
      BY <1>0, <1>3, <2>2 DEF Permed
    <2>4. \A b \in Classes : \E j \in Classes : permvec[q][j] = b
      BY <1>0, <1>3, CSAssumption
    <2>5. \A b \in Classes : Score[q][k][b] <= Score[q][k][permvec[q][i]]
      BY <2>1, <2>3, <2>4
    <2> QED BY <2>1, <2>5 DEF i
  <1> HIDE DEF ses
  <1>8. /\ \A id \in SessionIds \ {sid[q]} : sessions'[id] = sessions[id]
        /\ sessions'[sid[q]] = ses
    BY <1>0, <1>1, <1>3, <1>4, ResultTypes
  <1>9. UNCHANGED <<input, call, sid, permvec, thr, result>> /\ Unshared' = Unshared
    BY <1>0, <1>1, UnsharedKept DEF clientVars
  <1>10. /\ QueryInv'
         /\ FreshInv'
         /\ ComputedInv'
         /\ \A d \in Clients \ {c} :
               csPc[d] \in {"begin", "loop"} /\ job[d].session \in Unshared =>
               sessions'[job[d].session] = sessions[job[d].session]
    BY <1>1, <1>2, <1>5, <1>6, <1>7, <1>8, <1>9, WriteOwnSession
  <1>11. /\ csPc'[c] = "idle"
         /\ \A d \in Clients \ {c} : csPc'[d] = csPc[d] /\ job'[d] = job[d]
    BY <1>0, <1>1, ResultTypes
  <1>12. \A d \in Clients \ {c} : \A r \in Queries : Serves(d, r) => Serves(d, r)'
    BY <1>0, <1>9, <1>11 DEF Serves
  <1>13. \A d, j : Permed(d, j)' = Permed(d, j)
    BY <1>0, <1>9 DEF Permed
  <1>14. HandlerInv'
    BY <1>0, <1>9, <1>10, <1>11, <1>12, <1>13 DEF HandlerInv
  <1>15. RunningMaximum'
    BY <1>0, <1>9, <1>10, <1>11, <1>13, KeepMaximum
  <1> QED BY <1>10, <1>14, <1>15 DEF ResultInv

\* A turn of the loop extends the running maximum by one candidate.
LEMMA TurnResult ==
    ASSUME AllInv, NEW c \in Clients, ComputeOnTA(c), UNCHANGED clientVars
    PROVE  ResultInv'
  <1> USE Bounds
  <1>0. /\ TypeInv /\ AuthorityInv /\ HandlerInv /\ QueryInv
        /\ ComputedInv /\ RunningMaximum
    BY DEF AllInv, ResultInv
  <1>1. /\ csPc[c] = "loop" /\ job[c].index \in 1 .. ClassNum - 1
        /\ UNCHANGED <<csPc, input>>
    BY <1>0 DEF ComputeOnTA, TypeInv, SupportOK
  <1>2. PICK q \in Queries : Serves(c, q)
    BY <1>0, <1>1 DEF HandlerInv
  <1>3. job[c].session = sid[q] /\ sid[q] \in SessionIds
    BY <1>0, <1>1, <1>2 DEF Serves, TypeInv, SupportOK
  <1>4. \A d \in Clients :
            /\ job'[d].session = job[d].session
            /\ job'[d].unit = job[d].unit
            /\ job'[d].index = IF d = c THEN job[c].index + 1 ELSE job[d].index
            /\ d # c => job'[d] = job[d]
    BY <1>0, TurnType
  <1>5. /\ sessions[sid[q]].computed = FALSE
        /\ sessions'[sid[q]].computed = FALSE
        /\ \A id \in SessionIds \ {sid[q]} : sessions'[id] = sessions[id]
    <2>1. PICK v \in Seq(Nat) :
            /\ Len(v) = Len(sessions[job[c].session].indexes)
            /\ sessions' = [sessions EXCEPT ![job[c].session] =
                               [sessions[job[c].session] EXCEPT !.indexes = v]]
      BY <1>0, TurnType
    <2>2. sessions \in [SessionIds -> SessionRecord] /\ sessions[sid[q]] \in SessionRecord
      BY <1>0, <1>3, ResultTypes
    <2>3. sessions[sid[q]].computed = FALSE
      BY <1>0, <1>1, <1>3, <2>2 DEF AuthorityInv, AuthorityServesCaller, SessionRecord
    <2> QED BY <1>3, <2>1, <2>2, <2>3 DEF SessionRecord
  <1>6. UNCHANGED <<input, call, sid, permvec, thr, result>> /\ Unshared' = Unshared
    BY <1>1, UnsharedKept DEF clientVars
  <1>7. /\ QueryInv'
        /\ FreshInv'
        /\ ComputedInv'
        /\ \A d \in Clients \ {c} :
              csPc[d] \in {"begin", "loop"} /\ job[d].session \in Unshared =>
              sessions'[job[d].session] = sessions[job[d].session]
    BY <1>1, <1>2, <1>5, <1>6, WriteOwnSession
  <1>8. \A d, j : Permed(d, j)' = Permed(d, j)
    BY <1>6 DEF Permed
  <1>9. HandlerInv'
    <2>1. \A d \in Clients, r \in Queries : Serves(d, r) => Serves(d, r)'
      BY <1>4, <1>6 DEF Serves
    <2> QED BY <1>0, <1>1, <1>4, <1>6, <1>7, <1>8, <2>1 DEF HandlerInv
  <1>10. \A j \in Classes : \A k \in 1 .. job[c].unit : Permed(c, j)[k] \in Int
    <2>1. CSTypeOK /\ input[c] # NoInput
      BY <1>0, <1>1 DEF TypeInv, TypeOK, SupportOK
    <2>2. \A j \in Classes : Permed(c, j) \in [Slots -> Int]
      BY <2>1, PermedType
    <2>3. job[c].unit \in Slots
      BY <1>0, <1>1 DEF TypeInv, SupportOK
    <2> QED BY <2>2, <2>3
  <1>11. RunningMaximum'
    <2>1. \A d \in Clients : csPc[d] = "loop" => d = c
      BY <1>0, <1>1 DEF AuthorityInv, OneComputation
    <2> SUFFICES ASSUME sid[q] \in Unshared, NEW k \in 1 .. job[c].unit,
                        NEW n, n = sessions'[sid[q]].indexes[k]
                 PROVE  /\ n \in 0 .. job[c].index
                        /\ job'[c].max[k] = Permed(c, n)[k]
                        /\ \A j \in 0 .. job[c].index : Permed(c, j)[k] <= job'[c].max[k]
      <3>1. /\ job'[c].session = sid[q] /\ job'[c].unit = job[c].unit
            /\ job'[c].index - 1 = job[c].index
        BY <1>1, <1>3, <1>4
      <3>2. SUFFICES ASSUME sid[q] \in Unshared, NEW k \in 1 .. job[c].unit,
                            NEW n, n = sessions'[sid[q]].indexes[k]
                     PROVE  /\ n \in 0 .. job[c].index
                            /\ job'[c].max[k] = Permed(c, n)'[k]
                            /\ \A j \in 0 .. job[c].index : Permed(c, j)'[k] <= job'[c].max[k]
        BY <1>1, <1>6, <3>1, <2>1 DEF RunningMaximum
      <3> QED BY <1>8, <3>2
    <2> DEFINE cand == Permed(c, job[c].index)[k]
               max == job[c].max[k]
               i == sessions[sid[q]].indexes[k]
    <2>2. /\ i \in 0 .. job[c].index - 1
          /\ max = Permed(c, i)[k]
          /\ \A j \in 0 .. job[c].index - 1 : Permed(c, j)[k] <= max
      BY <1>0, <1>1, <1>3 DEF RunningMaximum
    <2>3. /\ job'[c].max[k] = IF cand >= max THEN cand ELSE max
          /\ n = IF cand >= max THEN job[c].index ELSE i
      BY <1>0, <1>3, TurnKeepsBetter
    <2>4. cand \in Int /\ max \in Int
      <3>1. i \in Classes /\ job[c].index \in Classes
        BY <1>1, <2>2
      <3> HIDE DEF i
      <3> QED BY <1>10, <2>2, <3>1
    <2>5. \A j \in 0 .. job[c].index - 1 : Permed(c, j)[k] \in Int
      BY <1>1, <1>10
    <2>6. \A j \in 0 .. job[c].index : j = job[c].index \/ j \in 0 .. job[c].index - 1
      BY <1>1
    <2>7. cand = Permed(c, job[c].index)[k] /\ job[c].index \in Nat
      BY <1>1
    <2> HIDE DEF cand, max, i
    <2>8. CASE cand >= max
      BY <2>2, <2>3, <2>4, <2>5, <2>6, <2>7, <2>8
    <2>9. CASE ~(cand >= max)
      BY <2>2, <2>3, <2>4, <2>5, <2>6, <2>7, <2>9
    <2> QED BY <2>8, <2>9
  <1> QED BY <1>7, <1>9, <1>11 DEF ResultInv

LEMMA NextResult ==
    AllInv /\ [Next]_vars => ResultInv'
  <1> SUFFICES ASSUME AllInv, [Next]_vars PROVE ResultInv'
    OBVIOUS
  <1>0. /\ TypeInv /\ ComputedInv
        /\ csPc \in [Clients -> {"idle", "wait_model", "begin", "loop"}]
        /\ call \in [Queries -> {"new", "session", "created", "input", "requested", "failed"}]
        /\ thr \in [Queries -> {"none", "poll", "read", "done"}]
        /\ result \in [Queries -> Seq(Nat)]
    BY ResultTypes DEF AllInv, ResultInv
  <1>1. ASSUME NEW c \in Clients, ServerStep(c), UNCHANGED clientVars
        PROVE  ResultInv'
    <2>1. CASE WaitModel(c)
      BY <1>0, <1>1, <2>1, QuietResult DEF WaitModel, taVars, clientVars, ComputedInv
    <2> QED BY <1>1, <2>1, BeginResult, TurnResult, EndResult DEF ServerStep
  <1>2. ASSUME NEW q \in Queries, ClientStep(q)
        PROVE  ResultInv'
    <2>1. CASE StartResultThread(q)
      <3>1. /\ UNCHANGED <<sessions, job, input, csPc, sid, permvec, result>>
            /\ call[q] = "session" /\ call' = [call EXCEPT ![q] = "created"]
            /\ thr' = [thr EXCEPT ![q] = "poll"]
        BY <2>1 DEF StartResultThread, taVars, csVars
      <3> QED BY <1>0, <3>1, QuietResult DEF ComputedInv
    <2> QED
      BY <1>2, <2>1, CreateSessionResult, SendInputResult, SendComputeRequestResult
      DEF ClientStep
  <1>3. ASSUME NEW q \in Queries, ResultStep(q)
        PROVE  ResultInv'
    <2>1. CASE ResultCheck(q)
      BY <1>0, <2>1, QuietResult DEF ResultCheck, HasResult, taVars, csVars, ComputedInv
    <2>2. CASE ResultRead(q)
      BY <1>0, <2>2, QuietResult DEF ResultRead, taVars, csVars, ComputedInv
    <2> QED BY <1>3, <2>1, <2>2 DEF ResultStep
  <1>4. ASSUME UNCHANGED <<sessions, job, input, csPc, clientVars>>
        PROVE  ResultInv'
    BY <1>0, <1>4, QuietResult DEF clientVars, ComputedInv
  <1>5. CASE ProviderStep /\ UNCHANGED clientVars
    BY <1>4, <1>5 DEF ProviderStep, StoreModel, RaiseEncModel, taVars
  <1>6. CASE Tick /\ UNCHANGED <<csVars, clientVars>>
    BY <1>4, <1>6 DEF Tick, csVars
  <1>7. CASE UNCHANGED vars
    BY <1>4, <1>7 DEF vars, taVars, csVars
  <1> QED BY <1>1, <1>2, <1>3, <1>5, <1>6, <1>7 DEF Next, Waited

LEMMA ResultAlways == Spec => []AllInv
  <1>1. Init => AllInv
    BY InitType, InitAuthority, InitResult DEF AllInv
  <1>2. AllInv /\ [Next]_vars => AllInv'
    BY NextType, NextAuthority, NextResult DEF AllInv
  <1> QED BY <1>1, <1>2, PTL DEF Spec

\* The encrypted maximum and the index in the clear are about the same best
\* candidate, for every number of handlers in flight and of sessions that share
\* other identifiers.
THEOREM RunningMaximumCorrect == Spec => []RunningMaximum
  <1>1. AllInv => RunningMaximum
    BY DEF AllInv, ResultInv
  <1> QED BY ResultAlways, <1>1, PTL

\* What the results invariant says of the callbacks.
LEMMA AllGivesBest == AllInv => ResultsAreBest
  <1> SUFFICES ASSUME AllInv, NEW q \in Queries, thr[q] = "done", sid[q] \in Unshared
               PROVE  /\ Len(result[q]) = Unit[q]
                      /\ \A k \in 1 .. Unit[q] :
                           /\ ClassOf(q, k) \in Classes
                           /\ \A b \in Classes :
                                Score[q][k][b] <= Score[q][k][ClassOf(q, k)]
    BY DEF ResultsAreBest
  <1>1. IsBest(q, permvec[q], result[q]) /\ permvec[q] \in PermVecs
    BY DEF AllInv, ResultInv, ComputedInv, QueryInv
  <1>2. permvec[q] \in [Classes -> Classes]
    BY <1>1, PermVecType
  <1> QED BY <1>1, <1>2 DEF IsBest, ClassOf

\* Every result a callback receives for a session of one query is a best class
\* of its data.
THEOREM ResultsAreBestCorrect == Spec => []ResultsAreBest
  BY ResultAlways, AllGivesBest, PTL

\* Only begin, a turn of the loop and end write to a session, each to the one
\* its handler works for, and that one is not computed before end unless
\* another query has it too.
LEMMA NextFinal ==
    AllInv /\ [Next]_vars =>
        \A id \in Unshared : sessions[id].computed => sessions'[id] = sessions[id]
  <1> SUFFICES ASSUME AllInv, [Next]_vars,
                      NEW id \in Unshared, sessions[id].computed
               PROVE  sessions'[id] = sessions[id]
    OBVIOUS
  <1>0. /\ TypeInv /\ AuthorityInv /\ HandlerInv
        /\ sessions \in [SessionIds -> SessionRecord]
        /\ id \in SessionIds
    BY ResultTypes DEF AllInv, ResultInv, Unshared
  <1>1. ASSUME NEW c \in Clients, ServerStep(c), UNCHANGED clientVars
        PROVE  sessions'[id] = sessions[id]
    <2>1. csPc[c] \in {"begin", "loop"} => job[c].session # id
      BY <1>0 DEF HandlerInv, NewSession, AuthorityInv, AuthorityServesCaller
    <2>2. CASE WaitModel(c)
      BY <2>2 DEF WaitModel, taVars
    <2>3. CASE BeginOnTA(c)
      BY <1>0, <2>1, <2>3 DEF BeginOnTA, BeginComputation
    <2>4. CASE ComputeOnTA(c)
      <3>1. csPc[c] = "loop"
        BY <2>4 DEF ComputeOnTA
      <3>2. PICK v \in Seq(Nat) :
              /\ Len(v) = Len(sessions[job[c].session].indexes)
              /\ sessions' = [sessions EXCEPT ![job[c].session] =
                                 [sessions[job[c].session] EXCEPT !.indexes = v]]
        BY <1>0, <2>4, TurnType
      <3> QED BY <1>0, <2>1, <3>1, <3>2
    <2>5. CASE EndOnTA(c)
      BY <1>0, <2>1, <2>5 DEF EndOnTA, EndComputation
    <2> QED BY <1>1, <2>2, <2>3, <2>4, <2>5 DEF ServerStep
  <1>2. ASSUME NEW q \in Queries, ClientStep(q) \/ ResultStep(q)
        PROVE  sessions'[id] = sessions[id]
    BY <1>2 DEF ClientStep, CreateSession, RecvSessionCreate, SessionCreate,
                StartResultThread, SendInput, RecvEncInput, SendComputeRequest,
                RecvComputeRequest, ResultStep, ResultCheck, ResultRead, taVars
  <1>3. CASE ProviderStep /\ UNCHANGED clientVars
    BY <1>3 DEF ProviderStep, StoreModel, RaiseEncModel, taVars
  <1>4. CASE Tick /\ UNCHANGED <<csVars, clientVars>>
    BY <1>4 DEF Tick
  <1>5. CASE UNCHANGED vars
    BY <1>5 DEF vars, taVars
  <1> QED BY <1>1, <1>2, <1>3, <1>4, <1>5 DEF Next, Waited

\* The check and the copy of a result request need no lock between them: what
\* was computed stays as it is.
THEOREM ComputedIsFinalCorrect == Spec => ComputedIsFinal
  <1>1. AllInv /\ [Next]_vars =>
            [\A id \in Unshared :
                sessions[id].computed => sessions'[id] = sessions[id]]_vars
    BY NextFinal
  <1> QED BY ResultAlways, <1>1, PTL DEF Spec, ComputedIsFinal

=============================================================================
