----------------------------- MODULE OutagesProofs -----------------------------
(***************************************************************************)
(* What outages leave standing.  A step of a process that runs is a step   *)
(* of NBClassify, so the invariants proved there only have to survive a    *)
(* restart of the computation server and the end of a client.              *)
(***************************************************************************)
EXTENDS Outages, NBClassifyProofs

\* Every step is a step of NBClassify, a restart, or the end of a client.
LEMMA StepKinds ==
    ASSUME [OutageNext]_allVars
    PROVE  \/ [Next]_vars /\ UNCHANGED <<outages, cut, dead>>
           \/ CSRestarts
           \/ \E c \in Clients : ClientEnds(c)
  <1> USE DEF outageVars
  <1>1. ASSUME ServersStep
        PROVE  [Next]_vars /\ UNCHANGED <<outages, cut, dead>>
    BY <1>1 DEF ServersStep, Next
  <1>2. ASSUME NEW q \in Queries, LiveClientStep(q) \/ LiveResultStep(q)
        PROVE  [Next]_vars /\ UNCHANGED <<outages, cut, dead>>
    BY <1>2 DEF LiveClientStep, LiveResultStep, Next
  <1>3. ASSUME Tick, UNCHANGED <<csVars, clientVars, outageVars>>
        PROVE  [Next]_vars /\ UNCHANGED <<outages, cut, dead>>
    BY <1>3 DEF Next
  <1>4. ASSUME UNCHANGED allVars
        PROVE  [Next]_vars /\ UNCHANGED <<outages, cut, dead>>
    BY <1>4 DEF allVars
  <1> QED BY <1>1, <1>2, <1>3, <1>4 DEF OutageNext, Over

\* Only a client's step adds to the queries nothing is promised to.
LEMMA ConfusedKinds ==
    ASSUME [OutageNext]_allVars
    PROVE  \/ confused' = confused
           \/ \E q \in Queries : LiveClientStep(q) /\ confused' = confused \cup Confusion'
  BY DEF OutageNext, ServersStep, LiveClientStep, LiveResultStep, CSRestarts, ClientEnds,
         Over, outageVars, allVars

-----------------------------------------------------------------------------
(* A restart.                                                               *)

\* Calls that were answered stay as they are.
LEMMA RestartCalls ==
    ASSUME CSRestarts, NEW q \in Queries
    PROVE  call'[q] = IF Interrupted(q) THEN "failed" ELSE call[q]
  BY DEF CSRestarts

LEMMA RestartType == TypeInv /\ CSRestarts => TypeInv'
  <1> SUFFICES ASSUME TypeInv, CSRestarts PROVE TypeInv'
    OBVIOUS
  <1> USE Bounds
  <1>1. TATypeOK'
    BY DEF TypeInv, TypeOK, CSTypeOK, TATypeOK, CSRestarts, FreshConnection, TAStates
  <1>2. /\ CSState("Ready", FALSE, FALSE) \in ConnRecord
        /\ NoJob \in JobRecord
    BY DEF CSState, ConnRecord, CSStates, NoJob, JobRecord
  <1>3. CSTypeOK'
    BY <1>1, <1>2 DEF CSTypeOK, CSRestarts, FreshServer
  <1>4. TypeOK'
    <2>1. call' \in [Queries -> {"new", "session", "created", "input", "requested", "failed"}]
      BY DEF TypeInv, TypeOK, CSRestarts
    <2>2. UNCHANGED <<sid, permvec, thr, result>>
      BY DEF CSRestarts
    <2> QED BY <1>3, <2>1, <2>2 DEF TypeInv, TypeOK
  <1>5. ASSUME NEW q \in Queries
        PROVE  /\ call'[q] # "new" => sid'[q] \in SessionIds
               /\ thr'[q] # "none" => call'[q] \notin {"new", "session"}
    <2>1. /\ call[q] # "new" => sid[q] \in SessionIds
          /\ thr[q] # "none" => call[q] \notin {"new", "session"}
      BY DEF TypeInv, SupportOK
    <2>2. UNCHANGED <<sid, thr>>
      BY DEF CSRestarts
    <2>3. call'[q] = call[q] \/ (call'[q] = "failed" /\ call[q] # "new")
      BY RestartCalls DEF Interrupted
    <2> QED BY <2>1, <2>2, <2>3
  <1>6. ASSUME NEW c \in Clients
        PROVE  csPc'[c] = "idle" /\ conn'[c].input = FALSE /\ conn'[c].name = "Ready"
    BY DEF CSRestarts, FreshServer, CSState
  <1>7. SupportOK'
    BY <1>5, <1>6 DEF SupportOK
  <1> QED BY <1>4, <1>7 DEF TypeInv

LEMMA RestartAuthority == CSRestarts => AuthorityInv'
  BY DEF CSRestarts, FreshServer, FreshConnection, AuthorityInv, OneComputation,
         AuthorityServesCaller

LEMMA RestartModel == CSRestarts => ModelInv'
  BY DEF CSRestarts, FreshServer, ModelInv, CSState

\* A query whose call was cut short has no computed session of its own.
LEMMA InterruptedNotComputed ==
    ASSUME AllInv, NEW q \in Queries, Interrupted(q), sid[q] \in Unshared
    PROVE  ~sessions[sid[q]].computed
  <1>0. /\ AuthorityInv /\ HandlerInv /\ QueryInv /\ Owner[q] \in Clients
    BY ClientAssumption DEF AllInv, ResultInv
  <1>1. CASE call[q] = "input"
    <2>1. sessions[sid[q]] = NewSession
      BY <1>0, <1>1 DEF QueryInv
    <2> QED BY <2>1 DEF NewSession
  <1>2. CASE csPc[Owner[q]] \in {"begin", "loop"} /\ input[Owner[q]].query = q
    <2>1. PICK r \in Queries : Serves(Owner[q], r)
      BY <1>0, <1>2 DEF HandlerInv
    <2>2. r = q
      BY <1>2, <2>1 DEF Serves
    <2>3. job[Owner[q]].session = sid[q]
      BY <2>1, <2>2 DEF Serves
    <2> QED
      BY <1>0, <1>2, <2>3 DEF HandlerInv, NewSession, AuthorityInv, AuthorityServesCaller
  <1> QED BY <1>1, <1>2 DEF Interrupted

LEMMA RestartResult == AllInv /\ CSRestarts => ResultInv'
  <1> SUFFICES ASSUME AllInv, CSRestarts PROVE ResultInv'
    OBVIOUS
  <1>0. /\ UNCHANGED <<sessions, sid, permvec, thr, result>>
        /\ \A c \in Clients : csPc'[c] = "idle"
        /\ QueryInv /\ FreshInv /\ ComputedInv
        /\ Unshared' = Unshared
    BY UnsharedKept DEF CSRestarts, FreshServer, AllInv, ResultInv
  <1>1. HandlerInv' /\ RunningMaximum'
    BY <1>0 DEF HandlerInv, RunningMaximum
  <1>2. QueryInv'
    BY <1>0, RestartCalls DEF QueryInv, Interrupted
  <1>3. FreshInv'
    BY <1>0 DEF FreshInv
  <1>4. ASSUME NEW q \in Queries, sid[q] \in Unshared, sessions[sid[q]].computed
        PROVE  call'[q] = "requested"
    <2>1. ~Interrupted(q)
      BY <1>4, InterruptedNotComputed
    <2> QED BY <1>0, <1>4, <2>1, RestartCalls DEF ComputedInv
  <1>5. ComputedInv'
    BY <1>0, <1>4 DEF ComputedInv, IsBest
  <1> QED BY <1>1, <1>2, <1>3, <1>5 DEF ResultInv

LEMMA RestartAll == AllInv /\ CSRestarts => AllInv'
  BY RestartType, RestartAuthority, RestartResult DEF AllInv

-----------------------------------------------------------------------------
(* The invariants under outages.                                            *)

\* The end of a client changes nothing that another process reads.
LEMMA EndsQuietly ==
    ASSUME NEW c \in Clients, ClientEnds(c)
    PROVE  UNCHANGED vars
  BY DEF ClientEnds

OutageTypeInv == TypeInv /\ OutageTypeOK

LEMMA NextOutageType == OutageTypeInv /\ [OutageNext]_allVars => OutageTypeInv'
  <1> SUFFICES ASSUME OutageTypeInv, [OutageNext]_allVars PROVE OutageTypeInv'
    OBVIOUS
  <1> USE OutageAssumption
  <1>0. /\ TypeInv
        /\ outages \in 0 .. MaxOutages /\ cut \subseteq Clients /\ dead \subseteq Clients
        /\ confused \subseteq Queries
    BY DEF OutageTypeInv, OutageTypeOK
  <1>1. confused' \subseteq Queries
    BY <1>0, ConfusedKinds DEF Confusion
  <1>2. TypeInv'
    BY <1>0, StepKinds, NextType, RestartType, EndsQuietly
  <1>3. CASE UNCHANGED <<outages, cut, dead>>
    BY <1>0, <1>1, <1>2, <1>3 DEF OutageTypeInv, OutageTypeOK, TypeInv
  <1>4. CASE CSRestarts
    <2>1. outages' \in 0 .. MaxOutages /\ cut' \subseteq Clients /\ dead' = dead
      BY <1>0, <1>4 DEF CSRestarts
    <2> QED BY <1>0, <1>1, <1>2, <2>1 DEF OutageTypeInv, OutageTypeOK, TypeInv
  <1>5. ASSUME NEW c \in Clients, ClientEnds(c)
        PROVE  OutageTypeInv'
    <2>1. outages' = outages /\ cut' = cut /\ dead' \subseteq Clients
      BY <1>0, <1>5 DEF ClientEnds
    <2> QED BY <1>0, <1>1, <1>2, <2>1 DEF OutageTypeInv, OutageTypeOK, TypeInv
  <1> QED BY <1>3, <1>4, <1>5, StepKinds

\* Types are kept, with any number of restarts and ends.
THEOREM OutageTypeCorrect == OutageSpec => []OutageTypeOK
  <1>1. OutageInit => OutageTypeInv
    BY InitType, OutageAssumption DEF OutageInit, OutageTypeInv, OutageTypeOK, TypeInv
  <1>2. OutageTypeInv => OutageTypeOK
    BY DEF OutageTypeInv
  <1> QED BY <1>1, <1>2, NextOutageType, PTL DEF OutageSpec

\* One computation at a time, also when a server was stopped inside of one: its
\* successor has a connection, and so a state, of its own at the authority.
THEOREM OneComputationUnderOutages ==
    OutageSpec => [](OneComputation /\ AuthorityServesCaller)
  <1>1. OutageInit => TypeInv /\ AuthorityInv
    BY InitType, InitAuthority DEF OutageInit
  <1>2. TypeInv /\ AuthorityInv /\ [OutageNext]_allVars => (TypeInv /\ AuthorityInv)'
    <2> SUFFICES ASSUME TypeInv, AuthorityInv, [OutageNext]_allVars
                 PROVE  TypeInv' /\ AuthorityInv'
      OBVIOUS
    <2>1. CASE [Next]_vars
      BY <2>1, NextType, NextAuthority
    <2> QED BY <2>1, StepKinds, EndsQuietly, RestartType, RestartAuthority
  <1>3. AuthorityInv => OneComputation /\ AuthorityServesCaller
    BY DEF AuthorityInv
  <1> QED BY <1>1, <1>2, <1>3, PTL DEF OutageSpec

\* A server that was started again computes only after a model was sent to it.
THEOREM ModelBeforeComputeUnderOutages == OutageSpec => []ModelBeforeCompute
  <1>1. OutageInit => TypeInv /\ ModelInv
    BY InitType, InitModel DEF OutageInit
  <1>2. TypeInv /\ ModelInv /\ [OutageNext]_allVars => (TypeInv /\ ModelInv)'
    <2> SUFFICES ASSUME TypeInv, ModelInv, [OutageNext]_allVars
                 PROVE  TypeInv' /\ ModelInv'
      OBVIOUS
    <2>1. CASE [Next]_vars
      BY <2>1, NextType, NextModel
    <2> QED BY <2>1, StepKinds, EndsQuietly, RestartType, RestartModel
  <1>3. ModelInv => ModelBeforeCompute
    BY DEF ModelInv, ModelBeforeCompute
  <1> QED BY <1>1, <1>2, <1>3, PTL DEF OutageSpec

LEMMA NextAll == AllInv /\ [OutageNext]_allVars => AllInv'
  <1> SUFFICES ASSUME AllInv, [OutageNext]_allVars PROVE AllInv'
    OBVIOUS
  <1>1. CASE [Next]_vars
    BY <1>1, NextType, NextAuthority, NextResult DEF AllInv
  <1> QED BY <1>1, StepKinds, EndsQuietly, RestartAll

LEMMA AllUnderOutages == OutageSpec => []AllInv
  <1>1. OutageInit => AllInv
    BY InitType, InitAuthority, InitResult DEF AllInv, OutageInit
  <1> QED BY <1>1, NextAll, PTL DEF OutageSpec

-----------------------------------------------------------------------------
(* What is computed, delivered and lost.                                    *)

\* No outage and no session that is shared turns a computation into a result it
\* is not: the two halves of the maximum agree in every computation that runs
\* for a session of one query, and what its callback receives is best.
THEOREM ResultsUnderOutages == OutageSpec => [](RunningMaximum /\ ResultsAreBest)
  <1>1. AllInv => RunningMaximum /\ ResultsAreBest
    BY AllGivesBest DEF AllInv, ResultInv
  <1> QED BY <1>1, AllUnderOutages, PTL

\* A step never writes to a session that is computed, and a restart to none.
LEMMA OutageNextFinal ==
    ASSUME AllInv, [OutageNext]_allVars, NEW id \in Unshared, sessions[id].computed
    PROVE  sessions'[id] = sessions[id]
  <1>1. CASE [Next]_vars
    BY <1>1, NextFinal DEF vars, taVars
  <1>2. CASE CSRestarts
    BY <1>2 DEF CSRestarts
  <1>3. CASE UNCHANGED vars
    BY <1>3 DEF vars, taVars
  <1> QED BY <1>1, <1>2, <1>3, StepKinds, EndsQuietly

\* A session that was computed outlives the server that computed it, as it is.
THEOREM ComputedIsFinalUnderOutages == OutageSpec => ComputedIsFinal
  <1>1. AllInv /\ [OutageNext]_allVars =>
            [\A id \in Unshared :
                sessions[id].computed => sessions'[id] = sessions[id]]_vars
    BY OutageNextFinal
  <1> QED BY AllUnderOutages, <1>1, PTL DEF OutageSpec, ComputedIsFinal

-----------------------------------------------------------------------------
(* The refinement.  A result that is read is an answer, a step of a client  *)
(* may confuse queries, a restart and the end of a client may lose some.    *)
(* It has to be seen that what is lost stays lost: the handler of a client  *)
(* that was cut stays idle, so nothing computes its sessions any more; and  *)
(* that a query that is not confused has a session of its own until it is   *)
(* answered, and is never sent again after it.                              *)

CutInv == \A c \in cut : csPc[c] = "idle"

ConfInv ==
    \A q \in Queries \ confused :
        /\ thr[q] # "done" => sid[q] = 0 \/ sid[q] \in Unshared
        /\ thr[q] = "done" => call[q] \in {"requested", "failed"}

LossInv == AllInv /\ OutageTypeInv /\ CutInv /\ ConfInv

\* A live client whose connection was cut makes no call.
LEMMA CutClientIsQuiet ==
    ASSUME NEW q \in Queries, LiveClientStep(q), Owner[q] \in cut
    PROVE  StartResultThread(q)
  BY DEF LiveClientStep, ClientStep, CreateSession, SendInput, SendComputeRequest

LEMMA NextCut == OutageTypeInv /\ CutInv /\ [OutageNext]_allVars => CutInv'
  <1> SUFFICES ASSUME OutageTypeInv, CutInv, [OutageNext]_allVars PROVE CutInv'
    OBVIOUS
  <1>0. /\ csPc \in [Clients -> {"idle", "wait_model", "begin", "loop"}]
        /\ cut \subseteq Clients
    BY ResultTypes DEF OutageTypeInv, OutageTypeOK
  <1>1. ASSUME NEW c \in Clients, ServerStep(c), UNCHANGED outageVars
        PROVE  CutInv'
    <2>1. csPc[c] # "idle"
      BY <1>1 DEF ServerStep, WaitModel, BeginOnTA, ComputeOnTA, EndOnTA
    <2>2. \A d \in Clients \ {c} : csPc'[d] = csPc[d]
      BY <1>0, <1>1 DEF ServerStep, WaitModel, BeginOnTA, ComputeOnTA, EndOnTA
    <2>3. cut' = cut /\ c \notin cut
      BY <1>1, <2>1 DEF CutInv, outageVars
    <2> QED BY <1>0, <2>2, <2>3 DEF CutInv
  <1>2. ASSUME NEW q \in Queries, LiveClientStep(q)
        PROVE  CutInv'
    <2>1. CASE Owner[q] \in cut
      <3>1. UNCHANGED <<csPc, cut>>
        BY <1>2, <2>1, CutClientIsQuiet
        DEF StartResultThread, csVars, LiveClientStep, outageVars
      <3> QED BY <3>1 DEF CutInv
    <2>2. CASE Owner[q] \notin cut
      <3>1. cut' = cut
        BY <1>2 DEF LiveClientStep, outageVars
      <3>2. \A d \in Clients \ {Owner[q]} : csPc'[d] = csPc[d]
        <4>1. ClientStep(q)
          BY <1>2 DEF LiveClientStep
        <4>2. CASE CreateSession(q) \/ StartResultThread(q)
          BY <4>2 DEF CreateSession, RecvSessionCreate, StartResultThread, csVars
        <4>3. CASE SendInput(q)
          BY <1>0, <4>3 DEF SendInput, RecvEncInput
        <4>4. CASE SendComputeRequest(q)
          BY <1>0, <4>4 DEF SendComputeRequest, RecvComputeRequest
        <4> QED BY <4>1, <4>2, <4>3, <4>4 DEF ClientStep
      <3> QED BY <1>0, <2>2, <3>1, <3>2 DEF CutInv
    <2> QED BY <2>1, <2>2
  <1>3. ASSUME UNCHANGED <<csPc, cut>> PROVE CutInv'
    BY <1>3 DEF CutInv
  <1>4. ASSUME NEW q \in Queries, LiveResultStep(q) PROVE CutInv'
    BY <1>3, <1>4 DEF LiveResultStep, ResultStep, ResultCheck, ResultRead, csVars, outageVars
  <1>5. CASE ProviderStep /\ UNCHANGED outageVars
    BY <1>3, <1>5 DEF ProviderStep, StoreModel, RaiseEncModel, outageVars
  <1>6. CASE Tick /\ UNCHANGED <<csVars, clientVars, outageVars>>
    BY <1>3, <1>6 DEF csVars, outageVars
  <1>7. CASE CSRestarts
    <2>1. \A c \in Clients : csPc'[c] = "idle"
      BY <1>7 DEF CSRestarts, FreshServer
    <2>2. cut' \subseteq Clients
      BY <1>0, <1>7 DEF CSRestarts
    <2> QED BY <2>1, <2>2 DEF CutInv
  <1>8. ASSUME NEW c \in Clients, ClientEnds(c) PROVE CutInv'
    BY <1>3, <1>8 DEF ClientEnds, vars, csVars
  <1>9. CASE UNCHANGED allVars
    BY <1>3, <1>9 DEF allVars, vars, csVars, outageVars
  <1> QED
    BY <1>1, <1>2, <1>4, <1>5, <1>6, <1>7, <1>8, <1>9
    DEF OutageNext, ServersStep, Over

\* What the authority holds for an unanswered query of a client that was cut
\* stays as it is.
LEMMA CutUntouched ==
    ASSUME LossInv, [OutageNext]_allVars,
           NEW q \in Queries, Owner[q] \in cut, q \notin confused, thr[q] # "done"
    PROVE  /\ sid'[q] = sid[q]
           /\ sid[q] # 0 => sessions'[sid[q]] = sessions[sid[q]]
  <1>0. /\ TypeInv /\ AuthorityInv /\ HandlerInv
        /\ sessions \in [SessionIds -> SessionRecord]
        /\ sid \in [Queries -> 0 .. MaxTime]
        /\ csPc[Owner[q]] = "idle"
        /\ sid[q] = 0 \/ sid[q] \in Unshared
    BY ResultTypes DEF LossInv, CutInv, ConfInv, AllInv, ResultInv
  <1>1. ASSUME NEW c \in Clients, ServerStep(c), UNCHANGED clientVars,
               sid[q] # 0
        PROVE  sessions'[sid[q]] = sessions[sid[q]]
    <2>1. csPc[c] \in {"begin", "loop"} => job[c].session # sid[q]
      <3> SUFFICES ASSUME csPc[c] \in {"begin", "loop"}
                   PROVE  job[c].session # sid[q]
        OBVIOUS
      <3>1. PICK r \in Queries : Owner[r] = c /\ job[c].session = sid[r]
        BY <1>0 DEF HandlerInv, Serves
      <3>2. r # q
        BY <1>0, <3>1
      <3> QED BY <1>0, <1>1, <3>1, <3>2 DEF Unshared
    <2>2. CASE WaitModel(c)
      BY <2>2 DEF WaitModel, taVars
    <2>3. CASE BeginOnTA(c)
      BY <1>0, <2>1, <2>3 DEF BeginOnTA, BeginComputation
    <2>4. CASE ComputeOnTA(c)
      <3>1. csPc[c] = "loop"
        BY <2>4 DEF ComputeOnTA
      <3>2. PICK v \in Seq(Nat) :
              /\ Len(v) = Len(sessions[job[c].session].indexes)
              /\ sessions' = [sessions EXCEPT ![job[c].session] =
                                 [sessions[job[c].session] EXCEPT !.indexes = v]]
        BY <1>0, <2>4, TurnType
      <3> QED BY <1>0, <2>1, <3>1, <3>2
    <2>5. CASE EndOnTA(c)
      BY <1>0, <2>1, <2>5 DEF EndOnTA, EndComputation
    <2> QED BY <1>1, <2>2, <2>3, <2>4, <2>5 DEF ServerStep
  <1>2. ASSUME NEW c \in Clients, ServerStep(c), UNCHANGED clientVars
        PROVE  sid'[q] = sid[q]
    BY <1>2 DEF clientVars
  <1>3. ASSUME NEW r \in Queries, LiveClientStep(r)
        PROVE  sid'[q] = sid[q] /\ sessions' = sessions
    <2>1. ClientStep(r)
      BY <1>3 DEF LiveClientStep
    <2>2. sessions' = sessions
      BY <2>1 DEF ClientStep, CreateSession, RecvSessionCreate, SessionCreate,
                  StartResultThread, SendInput, RecvEncInput, SendComputeRequest,
                  RecvComputeRequest, taVars
    <2>3. CASE CreateSession(r)
      <3>1. r # q
        BY <1>3, <2>3 DEF LiveClientStep, CreateSession
      <3> QED BY <1>0, <2>2, <2>3, <3>1 DEF CreateSession
    <2>4. CASE StartResultThread(r) \/ SendInput(r) \/ SendComputeRequest(r)
      BY <2>2, <2>4 DEF StartResultThread, SendInput, SendComputeRequest
    <2> QED BY <2>1, <2>3, <2>4 DEF ClientStep
  <1>4. ASSUME NEW r \in Queries, LiveResultStep(r)
        PROVE  UNCHANGED <<sid, sessions>>
    BY <1>4 DEF LiveResultStep, ResultStep, ResultCheck, ResultRead, taVars
  <1>5. CASE ProviderStep /\ UNCHANGED clientVars
    BY <1>5 DEF ProviderStep, StoreModel, RaiseEncModel, taVars, clientVars
  <1>6. CASE Tick /\ UNCHANGED clientVars
    BY <1>6 DEF Tick, clientVars
  <1>7. CASE CSRestarts
    BY <1>7 DEF CSRestarts
  <1>8. ASSUME NEW c \in Clients, ClientEnds(c)
        PROVE  UNCHANGED <<sid, sessions>>
    BY <1>8 DEF ClientEnds, vars, taVars, clientVars
  <1>9. CASE UNCHANGED allVars
    BY <1>9 DEF allVars, vars, taVars, clientVars
  <1> QED
    BY <1>1, <1>2, <1>3, <1>4, <1>5, <1>6, <1>7, <1>8, <1>9
    DEF OutageNext, ServersStep, Over

LEMMA CutComputed ==
    ASSUME LossInv, [OutageNext]_allVars,
           NEW q \in Queries, Owner[q] \in cut, q \notin confused, thr[q] # "done"
    PROVE  Computed(q)' <=> Computed(q)
  <1>1. CASE sid[q] = 0
    BY <1>1, CutUntouched DEF Computed
  <1>2. CASE sid[q] # 0
    BY <1>2, CutUntouched DEF Computed
  <1> QED BY <1>1, <1>2

\* The steps of a result thread: it ends once, by reading a result.
LEMMA ThreadSteps ==
    ASSUME LossInv, [OutageNext]_allVars, NEW q \in Queries
    PROVE  \/ thr'[q] = thr[q]
           \/ thr[q] # "done" /\ thr'[q] # "done"
           \/ thr[q] # "done" /\ LiveResultStep(q) /\ ResultRead(q)
  <1>0. /\ TypeInv
        /\ thr \in [Queries -> {"none", "poll", "read", "done"}]
    BY ResultTypes DEF LossInv, AllInv
  <1>1. ASSUME NEW r \in Queries, LiveResultStep(r), ResultRead(r)
        PROVE  thr'[q] = thr[q] \/ (thr[q] # "done" /\ LiveResultStep(q) /\ ResultRead(q))
    <2>1. thr' = [thr EXCEPT ![r] = "done"] /\ thr[r] = "read"
      BY <1>1 DEF ResultRead
    <2> QED BY <1>0, <1>1, <2>1
  <1>2. ASSUME NEW r \in Queries, ResultCheck(r)
        PROVE  thr'[q] = thr[q] \/ (thr[q] # "done" /\ thr'[q] # "done")
    BY <1>0, <1>2 DEF ResultCheck
  <1>3. ASSUME NEW r \in Queries, StartResultThread(r)
        PROVE  thr'[q] = thr[q] \/ (thr[q] # "done" /\ thr'[q] # "done")
    BY <1>0, <1>3 DEF StartResultThread, TypeInv, SupportOK
  <1>4. ASSUME NEW r \in Queries, CreateSession(r) \/ SendInput(r) \/ SendComputeRequest(r)
        PROVE  thr'[q] = thr[q]
    BY <1>4 DEF CreateSession, SendInput, SendComputeRequest
  <1>5. CASE UNCHANGED clientVars
    BY <1>5 DEF clientVars
  <1>6. CASE CSRestarts
    BY <1>6 DEF CSRestarts
  <1>7. ASSUME NEW c \in Clients, ClientEnds(c)
        PROVE  thr'[q] = thr[q]
    BY <1>7 DEF ClientEnds, vars, clientVars
  <1>8. CASE UNCHANGED allVars
    BY <1>8 DEF allVars, vars, clientVars
  <1> QED
    BY <1>1, <1>2, <1>3, <1>4, <1>5, <1>6, <1>7, <1>8
    DEF OutageNext, ServersStep, LiveClientStep, LiveResultStep, ClientStep,
        ResultStep, Over

\* What a result thread reads for a query that is not confused.
LEMMA ReadIsBest ==
    ASSUME LossInv, NEW q \in Queries, q \notin confused, ResultRead(q)
    PROVE  /\ thr[q] = "read" /\ call[q] = "requested" /\ Computed(q)
           /\ permvec[q] \in [Classes -> Classes]
           /\ IsBest(q, permvec[q], sessions[sid[q]].indexes)
  <1>0. TypeInv /\ ComputedInv /\ QueryInv /\ ConfInv
    BY DEF LossInv, AllInv, ResultInv
  <1>1. thr[q] = "read"
    BY DEF ResultRead
  <1>2. call[q] # "new" /\ sid[q] \in SessionIds
    BY <1>0, <1>1 DEF TypeInv, SupportOK
  <1>3. sid[q] # 0 /\ sid[q] \in Unshared
    BY <1>0, <1>1, <1>2 DEF ConfInv, SessionIds
  <1>4. /\ Computed(q) /\ call[q] = "requested"
        /\ IsBest(q, permvec[q], sessions[sid[q]].indexes)
    BY <1>0, <1>1, <1>3 DEF ComputedInv, Computed
  <1>5. permvec[q] \in PermVecs
    BY <1>0, <1>4 DEF QueryInv
  <1> QED BY <1>1, <1>4, <1>5, PermVecType

\* Only a client's step changes sessions and permutations.
LEMMA SessionKinds ==
    ASSUME [OutageNext]_allVars
    PROVE  \/ UNCHANGED <<confused, sid, permvec>>
           \/ \E q \in Queries : LiveClientStep(q)
  BY DEF OutageNext, ServersStep, LiveResultStep, ResultStep, ResultCheck, ResultRead,
         CSRestarts, ClientEnds, Over, outageVars, allVars, vars, clientVars

\* A query whose request was sent is not sent again.
LEMMA RequestedStays ==
    ASSUME LossInv, [OutageNext]_allVars,
           NEW q \in Queries, call[q] \in {"requested", "failed"}
    PROVE  call'[q] \in {"requested", "failed"}
  <1>0. call \in [Queries -> {"new", "session", "created", "input", "requested", "failed"}]
    BY ResultTypes DEF LossInv, AllInv
  <1>1. ASSUME NEW r \in Queries, LiveClientStep(r)
        PROVE  call'[q] \in {"requested", "failed"}
    BY <1>0, <1>1 DEF LiveClientStep, ClientStep, CreateSession, StartResultThread, SendInput,
                      SendComputeRequest
  <1>2. CASE CSRestarts
    BY <1>2, RestartCalls
  <1>3. CASE call' = call
    BY <1>3
  <1> QED
    BY <1>1, <1>2, <1>3
    DEF OutageNext, ServersStep, LiveResultStep, ResultStep, ResultCheck, ResultRead,
        ClientEnds, Over, allVars, vars, clientVars

LEMMA NextConf ==
    ASSUME LossInv, [OutageNext]_allVars
    PROVE  ConfInv'
  <1>0. ConfInv
    BY DEF LossInv
  <1>1. confused \subseteq confused'
    BY ConfusedKinds
  <1>2. ASSUME NEW q \in Queries \ confused', thr'[q] # "done"
        PROVE  sid'[q] = 0 \/ sid'[q] \in Unshared'
    <2>1. CASE UNCHANGED <<confused, sid, permvec>>
      <3>1. thr[q] # "done"
        BY <1>2, ThreadSteps
      <3> QED BY <1>0, <1>2, <2>1, <3>1, UnsharedKept DEF ConfInv
    <2>2. CASE \E r \in Queries : LiveClientStep(r)
      <3>1. q \notin Confusion'
        BY <1>2, <2>2 DEF LiveClientStep
      <3> QED BY <1>2, <3>1 DEF Confusion
    <2> QED BY <2>1, <2>2, SessionKinds
  <1>3. ASSUME NEW q \in Queries \ confused', thr'[q] = "done"
        PROVE  call'[q] \in {"requested", "failed"}
    <2>1. CASE thr[q] = "done"
      BY <1>0, <1>1, <1>3, <2>1, RequestedStays DEF ConfInv
    <2>2. CASE ResultRead(q)
      BY <1>1, <1>3, <2>2, ReadIsBest, RequestedStays
    <2> QED BY <1>3, <2>1, <2>2, ThreadSteps
  <1> QED BY <1>2, <1>3 DEF ConfInv

\* What is lost is lost for good.
LEMMA LostStays ==
    ASSUME LossInv, [OutageNext]_allVars
    PROVE  Lost \subseteq Lost'
  <1> SUFFICES ASSUME NEW q \in Lost PROVE q \in Lost'
    OBVIOUS
  <1>1. confused \subseteq confused'
    BY ConfusedKinds
  <1>2. CASE q \in confused
    BY <1>1, <1>2 DEF Lost
  <1>3. CASE q \notin confused
    <2>1. /\ q \in Queries /\ thr[q] # "done"
          /\ Owner[q] \in dead \/ (Owner[q] \in cut /\ ~Computed(q))
      BY <1>3 DEF Lost
    <2>2. dead \subseteq dead' /\ cut \subseteq cut'
      BY StepKinds DEF CSRestarts, ClientEnds
    <2>3. ~(LiveResultStep(q) /\ ResultRead(q))
      BY <1>3, <2>1, ReadIsBest DEF LiveResultStep
    <2>4. thr'[q] # "done"
      BY <2>1, <2>3, ThreadSteps
    <2>5. Owner[q] \in cut => (Computed(q)' <=> Computed(q))
      BY <1>3, <2>1, CutComputed
    <2> QED BY <2>1, <2>2, <2>4, <2>5 DEF Lost
  <1> QED BY <1>2, <1>3

\* Only queries that are not answered are lost.
LEMMA LostAreOpen ==
    ASSUME LossInv, [OutageNext]_allVars, NEW q \in Lost' \ Lost
    PROVE  q \in Queries /\ thr[q] # "done"
  <1>1. q \notin confused /\ q \in Queries
    <2>1. confused \subseteq Queries
      BY DEF LossInv, OutageTypeInv, OutageTypeOK
    <2>2. q \in confused \/ q \in Confusion' \/ q \in Queries
      BY ConfusedKinds DEF Lost
    <2> QED BY <2>1, <2>2 DEF Lost, Confusion
  <1>2. thr'[q] # "done"
    <2>1. CASE q \in confused'
      <3>1. q \in Confusion'
        BY <1>1, <2>1, ConfusedKinds
      <3> QED BY <3>1 DEF Confusion
    <2>2. CASE q \notin confused'
      BY <2>2 DEF Lost
    <2> QED BY <2>1, <2>2
  <1> QED BY <1>1, <1>2, ThreadSteps

\* A step that leaves every answer as it is is a loss, or nothing.
LEMMA QuietLoss ==
    ASSUME LossInv, [OutageNext]_allVars, UNCHANGED answerOf
    PROVE  [Failing!Next]_(Failing!absVars)
  <1>1. CASE Lost' = Lost
    BY <1>1 DEF Failing!absVars
  <1>2. CASE Lost' # Lost
    <2> DEFINE new == Lost' \ Lost
    <2>1. new # {} /\ Lost' = Lost \cup new /\ new \in SUBSET Queries
      BY <1>2, LostStays, LostAreOpen
    <2>2. ASSUME NEW q \in new PROVE Failing!Open(q)
      <3>1. q \in Queries /\ thr[q] # "done" /\ q \notin Lost
        BY LostAreOpen
      <3> QED BY <3>1 DEF Failing!Open, answerOf
    <2> HIDE DEF new
    <2>3. Failing!Lose(new)
      BY <2>1, <2>2 DEF Failing!Lose
    <2> QED BY <2>1, <2>3 DEF Failing!Next
  <1> QED BY <1>1, <1>2

\* Reading a result answers the query.
LEMMA ReadAnswers ==
    ASSUME LossInv, [OutageNext]_allVars,
           NEW q \in Queries, q \notin confused, LiveResultStep(q), ResultRead(q)
    PROVE  Failing!Answer(q)
  <1> DEFINE ix == sessions[sid[q]].indexes
             classes == [k \in 1 .. Unit[q] |-> permvec[q][ix[k]]]
  <1>0. /\ thr \in [Queries -> {"none", "poll", "read", "done"}]
        /\ result \in [Queries -> Seq(Nat)]
    BY ResultTypes DEF LossInv, AllInv
  <1>1. /\ thr[q] = "read" /\ thr' = [thr EXCEPT ![q] = "done"]
        /\ result' = [result EXCEPT ![q] = ix]
        /\ UNCHANGED <<permvec, sid, sessions, confused, cut, dead>>
        /\ Owner[q] \notin dead
    BY DEF ResultRead, LiveResultStep, outageVars, taVars
  <1>2. /\ IsBest(q, permvec[q], ix) /\ permvec[q] \in [Classes -> Classes]
        /\ Computed(q)
    BY ReadIsBest
  <1>3. answerOf[q] = NoInput /\ q \notin Lost
    BY <1>1, <1>2 DEF answerOf, Lost
  <1>4. classes \in [1 .. Unit[q] -> Classes]
    BY <1>2 DEF IsBest
  <1>5. \A k \in 1 .. Unit[q] : classes[k] \in Failing!Best(q, k)
    BY <1>2 DEF IsBest, Failing!Best
  <1>6. answerOf' = [answerOf EXCEPT ![q] = classes]
    <2>1. \A r \in Queries \ {q} :
              /\ thr'[r] = thr[r]
              /\ \A k : ClassOf(r, k)' = ClassOf(r, k)
      BY <1>1 DEF ClassOf
    <2>2. thr'[q] = "done" /\ \A k : ClassOf(q, k)' = permvec[q][ix[k]]
      BY <1>0, <1>1 DEF ClassOf
    <2> HIDE DEF ix
    <2>3. \A r \in Queries \ {q} : answerOf'[r] = answerOf[r]
      BY <1>1, <2>1 DEF answerOf
    <2>4. answerOf'[q] = classes
      BY <1>1, <2>2 DEF answerOf
    <2> HIDE DEF classes
    <2> QED BY <2>3, <2>4 DEF answerOf
  <1>7. Lost' = Lost
    <2>1. \A r \in Queries : Computed(r)' <=> Computed(r)
      BY <1>1 DEF Computed
    <2>2. \A r \in Queries \ {q} : thr'[r] = thr[r]
      BY <1>1
    <2>3. q \notin Lost'
      BY <1>0, <1>1 DEF Lost
    <2> QED BY <1>1, <1>3, <2>1, <2>2, <2>3 DEF Lost
  <1> HIDE DEF classes
  <1> QED BY <1>3, <1>4, <1>5, <1>6, <1>7 DEF Failing!Answer, Failing!Open

\* A step in which no result of a query that is not confused is read, and none
\* that was read is touched, answers nothing.
LEMMA QuietAnswer ==
    ASSUME \A q \in Queries :
              (thr'[q] = "done" /\ q \notin confused') <=> (thr[q] = "done" /\ q \notin confused),
           \A q \in Queries : thr[q] = "done" /\ q \notin confused =>
              permvec'[q] = permvec[q] /\ result'[q] = result[q]
    PROVE  UNCHANGED answerOf
  <1>1. \A q \in Queries : thr[q] = "done" /\ q \notin confused =>
            \A k : ClassOf(q, k)' = ClassOf(q, k)
    BY DEF ClassOf
  <1> QED BY <1>1 DEF answerOf

\* Every other step leaves the answers as they are.
LEMMA OthersAreQuiet ==
    ASSUME LossInv, [OutageNext]_allVars,
           \A q \in Queries \ confused : ~(thr[q] # "done" /\ LiveResultStep(q) /\ ResultRead(q))
    PROVE  UNCHANGED answerOf
  <1>0. /\ permvec \in [Queries -> PermVecs \cup {NoInput}]
        /\ result \in [Queries -> Seq(Nat)]
        /\ thr \in [Queries -> {"none", "poll", "read", "done"}]
        /\ ConfInv
    BY ResultTypes DEF LossInv, AllInv
  <1>1. ASSUME NEW q \in Queries, thr[q] = "done", q \notin confused
        PROVE  permvec'[q] = permvec[q] /\ result'[q] = result[q]
    <2>1. call[q] \in {"requested", "failed"}
      BY <1>0, <1>1 DEF ConfInv
    <2>2. permvec'[q] = permvec[q]
      <3>1. ASSUME NEW r \in Queries, LiveClientStep(r)
            PROVE  permvec'[q] = permvec[q]
        BY <1>0, <2>1, <3>1 DEF LiveClientStep, ClientStep, CreateSession, StartResultThread,
                                SendInput, SendComputeRequest
      <3> QED BY <3>1, SessionKinds
    <2>3. result'[q] = result[q]
      <3>1. ASSUME NEW r \in Queries, LiveResultStep(r), ResultRead(r)
            PROVE  result'[q] = result[q]
        <4>1. thr[r] = "read" /\ result' = [result EXCEPT ![r] = sessions[sid[r]].indexes]
          BY <3>1 DEF ResultRead
        <4> QED BY <1>0, <1>1, <4>1
      <3>2. CASE result' = result
        BY <3>2
      <3> QED
        BY <3>1, <3>2
        DEF OutageNext, ServersStep, LiveClientStep, LiveResultStep, ClientStep, CreateSession,
            StartResultThread, SendInput, SendComputeRequest, ResultStep, ResultCheck,
            CSRestarts, ClientEnds, Over, allVars, vars, clientVars
    <2> QED BY <2>2, <2>3
  <1>2. ASSUME NEW q \in Queries
        PROVE  (thr'[q] = "done" /\ q \notin confused') <=> (thr[q] = "done" /\ q \notin confused)
    <2>1. confused \subseteq confused'
      BY ConfusedKinds
    <2>2. q \in confused' \ confused => thr'[q] # "done"
      BY ConfusedKinds DEF Confusion
    <2>3. q \notin confused => (thr'[q] = "done" <=> thr[q] = "done")
      BY ThreadSteps
    <2> QED BY <2>1, <2>2, <2>3
  <1> QED BY <1>1, <1>2, QuietAnswer

LEMMA StepAnswersOrLoses ==
    ASSUME LossInv, [OutageNext]_allVars
    PROVE  [Failing!Next]_(Failing!absVars)
  <1>1. CASE \E q \in Queries \ confused : LiveResultStep(q) /\ ResultRead(q)
    BY <1>1, ReadAnswers DEF Failing!Next
  <1>2. CASE ~\E q \in Queries \ confused : LiveResultStep(q) /\ ResultRead(q)
    BY <1>2, OthersAreQuiet, QuietLoss
  <1> QED BY <1>1, <1>2

\* The safety part of the refinement: with any number of restarts, of clients
\* that end and of sessions within one second, the processes together do nothing
\* but answer queries, each once and with a best class, and lose queries for good.
THEOREM ImplementsWithLossesSafety == OutageSpec => Failing!Spec
  <1>1. OutageInit => LossInv /\ Failing!Init
    <2> SUFFICES ASSUME OutageInit PROVE LossInv /\ Failing!Init
      OBVIOUS
    <2>1. Init /\ outages = 0 /\ cut = {} /\ dead = {} /\ confused = {}
      BY DEF OutageInit
    <2>2. AllInv /\ OutageTypeInv
      BY <2>1, InitType, InitAuthority, InitResult, OutageAssumption
      DEF AllInv, OutageTypeInv, OutageTypeOK, TypeInv
    <2>3. CutInv /\ ConfInv
      BY <2>1 DEF Init, CutInv, ConfInv
    <2>4. Failing!Init
      BY <2>1 DEF Init, Failing!Init, Lost, answerOf
    <2> QED BY <2>2, <2>3, <2>4 DEF LossInv
  <1>2. LossInv /\ [OutageNext]_allVars => LossInv'
    BY NextAll, NextOutageType, NextCut, NextConf DEF LossInv
  <1>3. OutageSpec => Failing!Init /\ [][Failing!Next]_(Failing!absVars)
    BY <1>1, <1>2, StepAnswersOrLoses, PTL DEF OutageSpec
  <1> QED BY <1>3, PTL DEF Failing!Spec
=============================================================================
