-------------------------- MODULE ComputationServer --------------------------
(***************************************************************************)
(* The computation server (CS): one connection and one handler thread per  *)
(* client, the model that all connections share, and the calls a handler   *)
(* makes on Server#2 of the trusted authority.  A handler that calls the   *)
(* authority, or waits, is a sequence of steps that the handlers of other  *)
(* connections interleave with.                                            *)
(***************************************************************************)
EXTENDS TrustedAuthority

CONSTANTS
    Clients,    \* one connection each
    Queries,    \* encrypted inputs, one per session
    ClassNum,   \* number of classes
    Score,      \* Score[q][k][a]: score of class a for data item k of query q
    Unit,       \* Unit[q]: data items the query packs (compute_unit)
    PermVecs,   \* permutations of the classes
    MaxCoeff,   \* masking coefficients are 1 .. MaxCoeff
    NoInput     \* stands for callback parameters that hold no input yet

Classes == 0 .. ClassNum - 1

ASSUME CSAssumption ==
    /\ ClassNum \in Nat \ {0}
    /\ MaxCoeff \in Nat \ {0}
    /\ Score \in [Queries -> [Slots -> [Classes -> Int]]]
    /\ Unit \in [Queries -> Slots]
    /\ PermVecs \subseteq [Classes -> Classes]
    /\ \A p \in PermVecs : \A a \in Classes : \E j \in Classes : p[j] = a
    /\ NoInput \notin [query : Queries, permvec : PermVecs]

\* A masked difference of two scores stays within half of the modulus.
ASSUME ScoresFit ==
    \A q \in Queries, k \in Slots, a, b \in Classes, f \in 1 .. MaxCoeff :
        f * (Score[q][k][a] - Score[q][k][b]) < PlainMod \div 2

VARIABLES
    conn,           \* state of each connection's state machine
    input,          \* query and permutation held by each connection
    csPc,           \* where the handler thread of each connection is
    job,            \* local variables of the compute-request handler
    encmodel,       \* the shared model pointer is set
    modelReceived   \* the static flag the connections wait for

csVars == <<conn, input, csPc, job, encmodel, modelReceived>>

CSStates == {"Ready", "SessionCreated", "Computable", "Computing"}

ConnRecord == [name : CSStates, input : BOOLEAN, permvec : BOOLEAN]

InputRecord == [query : Queries, permvec : PermVecs]

JobRecord == [session : 0 .. MaxTime, unit : 0 .. NumData,
              index : 0 .. ClassNum, max : [Slots -> Int]]

CSState(name, in, perm) == [name |-> name, input |-> in, permvec |-> perm]

NoJob == [session |-> 0, unit |-> 0, index |-> 0, max |-> [k \in Slots |-> 0]]

-----------------------------------------------------------------------------
(* The state machine of a connection.  In SessionCreated the events only    *)
(* set flags; leaving it, which waits for the model, is WaitModel.          *)

CSSet(st, e) ==
    CASE st.name = "Ready" /\ e = "SessionCreate" ->
             CSState("SessionCreated", FALSE, FALSE)
      [] st.name = "SessionCreated" /\ e = "EncInput" ->
             [st EXCEPT !.input = TRUE]
      [] st.name = "SessionCreated" /\ e = "PermVec" ->
             [st EXCEPT !.permvec = TRUE]
      [] st.name \in {"Computable", "Computing"} /\ e = "SessionCreate" ->
             CSState("SessionCreated", FALSE, TRUE)
      [] st.name = "Computable" /\ e = "ComputeRequest" ->
             CSState("Computing", FALSE, FALSE)
      [] OTHER -> st

Complete(st) == st.name = "SessionCreated" /\ st.input /\ st.permvec

\* Mutant: the scores are left in the order of the model.
PermedInModelOrder(c, j) == [k \in Slots |-> Score[input[c].query][k][j]]

\* The scores of the connection's input under the j-th class of its permutation.
Permed(c, j) ==
    [k \in Slots |-> Score[input[c].query][k][input[c].permvec[j]]]

\* What is sent for comparison: the masked difference with the maximum so far,
\* modulo the plaintext modulus; the mask is zero past the unit.
Mask(c, diff, coeff) ==
    [k \in Slots |-> IF k <= job[c].unit THEN (coeff[k] * diff[k]) % PlainMod ELSE 0]

-----------------------------------------------------------------------------
(* Handlers.  RecvX is the arrival of X on connection c.                    *)

RecvSessionCreate(c, id) ==
    /\ csPc[c] = "idle"
    /\ SessionCreate(id)
    /\ conn' = [conn EXCEPT ![c] = CSSet(@, "SessionCreate")]
    /\ UNCHANGED <<input, csPc, job, encmodel, modelReceived>>

RecvEncInput(c, q, p) ==
    /\ csPc[c] = "idle"
    /\ conn[c].name \in {"SessionCreated", "Computable"}
    /\ input' = [input EXCEPT ![c] = [query |-> q, permvec |-> p]]
    /\ LET st == CSSet(CSSet(conn[c], "EncInput"), "PermVec")
       IN /\ conn' = [conn EXCEPT ![c] = st]
          /\ csPc' = [csPc EXCEPT ![c] = IF Complete(st) THEN "wait_model" ELSE @]
    /\ UNCHANGED <<taVars, job, encmodel, modelReceived>>

\* The loop that polls the flag inside the state machine.
WaitModel(c) ==
    /\ csPc[c] = "wait_model"
    /\ modelReceived
    /\ conn' = [conn EXCEPT ![c] = CSState("Computable", FALSE, FALSE)]
    /\ csPc' = [csPc EXCEPT ![c] = "idle"]
    /\ UNCHANGED <<taVars, input, job, encmodel, modelReceived>>

\* Mutant: the unit of the request is one too many.
RecvComputeRequestUnitPlusOne(c, id, unit) ==
    /\ csPc[c] = "idle"
    /\ conn[c].name = "Computable"
    /\ csPc' = [csPc EXCEPT ![c] = "begin"]
    /\ job' = [job EXCEPT ![c] = [session |-> id, unit |-> unit + 1, index |-> 1,
                                  max |-> Permed(c, 0)]]
    /\ UNCHANGED <<taVars, conn, input, encmodel, modelReceived>>

\* Up to the call of begin_computation: the scores of the held input against
\* the model, permuted; the first one is the maximum so far.
RecvComputeRequest(c, id, unit) ==
    /\ csPc[c] = "idle"
    /\ conn[c].name = "Computable"
    /\ csPc' = [csPc EXCEPT ![c] = "begin"]
    /\ job' = [job EXCEPT ![c] =
                  [session |-> id, unit |-> unit, index |-> 1, max |-> Permed(c, 0)]]
    /\ UNCHANGED <<taVars, conn, input, encmodel, modelReceived>>

BeginOnTA(c) ==
    /\ csPc[c] = "begin"
    /\ BeginComputation(job[c].session, job[c].unit)
    /\ csPc' = [csPc EXCEPT ![c] = "loop"]
    /\ UNCHANGED <<conn, input, job, encmodel, modelReceived>>

\* One turn of the loop: the authority compares, then the maximum is
\* updated with the bit it answers.
ComputeOnTA(c) ==
    /\ csPc[c] = "loop"
    /\ job[c].index < ClassNum
    /\ \E coeff \in [Slots -> 1 .. MaxCoeff] :
         LET cand == Permed(c, job[c].index)
             vdiff == Mask(c, [k \in Slots |-> cand[k] - job[c].max[k]], coeff)
         IN /\ Compute(job[c].session, job[c].index, vdiff)
            /\ job' = [job EXCEPT
                 ![c].index = @ + 1,
                 ![c].max = [k \in Slots |->
                     cand[k] * Compare(vdiff, k) - (Compare(vdiff, k) - 1) * @[k]]]
    /\ UNCHANGED <<conn, input, csPc, encmodel, modelReceived>>

EndOnTA(c) ==
    /\ csPc[c] = "loop"
    /\ job[c].index >= ClassNum
    /\ EndComputation(job[c].session)
    /\ csPc' = [csPc EXCEPT ![c] = "idle"]
    /\ job' = [job EXCEPT ![c] = NoJob]
    /\ UNCHANGED <<conn, input, encmodel, modelReceived>>

\* The model arrives on the provider's connection: the handler stores it and
\* then raises the event that sets the flag the other connections poll.
StoreModel ==
    /\ ~encmodel
    /\ encmodel' = TRUE
    /\ UNCHANGED <<taVars, conn, input, csPc, job, modelReceived>>

\* Mutant: the flag is raised before the model is stored.
RaiseBeforeStore ==
    /\ ~modelReceived
    /\ modelReceived' = TRUE
    /\ UNCHANGED <<taVars, conn, input, csPc, job, encmodel>>

RaiseEncModel ==
    /\ encmodel
    /\ ~modelReceived
    /\ modelReceived' = TRUE
    /\ UNCHANGED <<taVars, conn, input, csPc, job, encmodel>>

-----------------------------------------------------------------------------

CSInit ==
    /\ TAInit
    /\ conn = [c \in Clients |-> CSState("Ready", FALSE, FALSE)]
    /\ input = [c \in Clients |-> NoInput]
    /\ csPc = [c \in Clients |-> "idle"]
    /\ job = [c \in Clients |-> NoJob]
    /\ encmodel = FALSE
    /\ modelReceived = FALSE

CSTypeOK ==
    /\ TATypeOK
    /\ conn \in [Clients -> ConnRecord]
    /\ input \in [Clients -> InputRecord \cup {NoInput}]
    /\ csPc \in [Clients -> {"idle", "wait_model", "begin", "loop"}]
    /\ job \in [Clients -> JobRecord]
    /\ encmodel \in BOOLEAN
    /\ modelReceived \in BOOLEAN
=============================================================================
