-------------------------------- MODULE Outages --------------------------------
(***************************************************************************)
(* NBClassify with processes that end.  The computation server may stop at *)
(* any step and be started again: what it keeps in memory is gone, all of  *)
(* its connections are cut, and its new connection to Server#2 of the      *)
(* authority starts from the initial state, while the authority's sessions *)
(* stay as they are.  A client may stop at any step, by itself or because  *)
(* a call on a connection that was cut fails; its result threads end with  *)
(* it, the handler it has called goes on.                                  *)
(***************************************************************************)
EXTENDS NBClassify, FiniteSets

CONSTANTS
    MaxOutages,     \* bound on the restarts of the computation server
    MaxQuits        \* bound on the clients that stop by themselves

ASSUME OutageAssumption == MaxOutages \in Nat /\ MaxQuits \in Nat

VARIABLES
    outages,    \* restarts so far
    cut,        \* clients whose connection to the server an outage has cut
    dead,       \* clients that have ended
    confused    \* queries nothing is promised to, see Confusion; a history
                \* variable no step depends on

outageVars == <<outages, cut, dead, confused>>
allVars == <<vars, outageVars>>

\* The call of query q is one that the server has not answered.
Interrupted(q) ==
    \/ call[q] = "input"
    \/ /\ call[q] = "requested"
       /\ csPc[Owner[q]] \in {"begin", "loop"}
       /\ input[Owner[q]].query = q

Started(c) == \E q \in Own(c) : call[q] # "new"

-----------------------------------------------------------------------------

\* A new computation server: what its constructors and the ones of its
\* connections leave.
FreshServer ==
    /\ conn' = [c \in Clients |-> CSState("Ready", FALSE, FALSE)]
    /\ input' = [c \in Clients |-> NoInput]
    /\ csPc' = [c \in Clients |-> "idle"]
    /\ job' = [c \in Clients |-> NoJob]
    /\ encmodel' = FALSE
    /\ modelReceived' = FALSE

\* Mutant: the authority has one state for all connections of Server#2.
FreshConnectionSharedState == UNCHANGED <<taState, taUnit>>

\* The state and the callback parameters of a new connection of Server#2.
FreshConnection ==
    /\ taState' = "Ready"
    /\ taUnit' = 0

\* Clients that have made no call may have been connected or not.
CSRestarts ==
    /\ outages < MaxOutages
    /\ outages' = outages + 1
    /\ \E idle \in SUBSET {c \in Clients : ~Started(c)} :
         cut' = cut \cup ((idle \cup {c \in Clients : Started(c)}) \ dead)
    /\ call' = [q \in Queries |-> IF Interrupted(q) THEN "failed" ELSE call[q]]
    /\ FreshServer
    /\ FreshConnection
    /\ UNCHANGED <<now, minted, sessions, sid, permvec, thr, result, dead, confused>>

\* The end of a client whose callbacks have all run is of no consequence and is
\* left out.
ClientEnds(c) ==
    /\ c \notin dead
    /\ \E q \in Own(c) : thr[q] # "done"
    /\ c \in cut \/ Cardinality(dead \ cut) < MaxQuits
    /\ dead' = dead \cup {c}
    /\ UNCHANGED <<vars, outages, cut, confused>>

\* Queries that got the identifier of another one before they were answered; and
\* when a client has one identifier twice, all that it still waits for: its call
\* may wait for the result of a session it is to compute itself afterwards.
Confusion ==
    {q \in Queries :
        /\ thr[q] # "done"
        /\ \/ sid[q] # 0 /\ sid[q] \notin Unshared
           \/ \E r \in Own(Owner[q]) : \E s \in Own(Owner[q]) \ {r} :
                sid[r] # 0 /\ sid[r] = sid[s]}

\* A client that runs makes calls while its connection stands; the start of a
\* result thread is no call.
LiveClientStep(q) ==
    /\ Owner[q] \notin dead
    /\ ClientStep(q)
    /\ Owner[q] \in cut => call[q] = "session"
    /\ confused' = confused \cup Confusion'
    /\ UNCHANGED <<outages, cut, dead>>

LiveResultStep(q) ==
    /\ Owner[q] \notin dead
    /\ ResultStep(q)
    /\ UNCHANGED outageVars

-----------------------------------------------------------------------------

\* The authority has all of the indexes of q.
Computed(q) == sid[q] # 0 /\ sessions[sid[q]].computed

\* Queries no result callback will be called for.
Lost ==
    confused \cup
    {q \in Queries :
        /\ thr[q] # "done"
        /\ Owner[q] \in dead \/ (Owner[q] \in cut /\ ~Computed(q))}

Over ==
    /\ \A q \in Queries : thr[q] = "done" \/ q \in Lost
    /\ UNCHANGED allVars

OutageInit == Init /\ outages = 0 /\ cut = {} /\ dead = {} /\ confused = {}

ServersStep ==
    /\ \/ \E c \in Clients : ServerStep(c)
       \/ ProviderStep
    /\ UNCHANGED <<clientVars, outageVars>>

OutageNext ==
    \/ ServersStep
    \/ \E q \in Queries : LiveClientStep(q) \/ LiveResultStep(q)
    \/ (Tick /\ UNCHANGED <<csVars, clientVars, outageVars>>)
    \/ CSRestarts
    \/ \E c \in Clients : ClientEnds(c)
    \/ Over

OutageSpec == OutageInit /\ [][OutageNext]_allVars

\* As in NBClassify; a model is sent to every server that is started.  That
\* processes end is never something to rely on.
FairOutageSpec ==
    /\ OutageSpec
    /\ \A c \in Clients :
         WF_allVars(ServerStep(c) /\ UNCHANGED <<clientVars, outageVars>>)
    /\ WF_allVars(ProviderStep /\ UNCHANGED <<clientVars, outageVars>>)
    /\ WF_allVars(Tick /\ UNCHANGED <<csVars, clientVars, outageVars>>)
    /\ \A q \in Queries :
         WF_allVars(LiveClientStep(q)) /\ WF_allVars(LiveResultStep(q))

-----------------------------------------------------------------------------
(* Properties. *)

\* Every variable keeps to its type.
OutageTypeOK ==
    /\ TypeOK
    /\ outages \in 0 .. MaxOutages
    /\ cut \subseteq Clients
    /\ dead \subseteq Clients
    /\ confused \subseteq Queries

\* A client that neither ends nor has its connection cut has every query
\* answered, whatever becomes of the others and of an earlier server; and a
\* client that was cut has every query answered that was computed before.
EveryQueryEnds == \A q \in Queries : <>(thr[q] = "done" \/ q \in Lost)

answerOf ==
    [q \in Queries |-> IF thr[q] = "done" /\ q \notin confused
                       THEN [k \in 1 .. Unit[q] |-> ClassOf(q, k)]
                       ELSE NoInput]

\* The system with outages implements its abstract specification with losses.
Failing == INSTANCE Classification WITH
    Items <- [q \in Queries |-> 1 .. Unit[q]],
    NoAnswer <- NoInput,
    answer <- answerOf,
    lost <- Lost

\* Every query is answered once and with a best class, or lost for good: no
\* outage makes a result of a computation that was cut short.
ImplementsClassificationWithLosses == Failing!FairSpec
=============================================================================
