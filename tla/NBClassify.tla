----------------------------- MODULE NBClassify -----------------------------
(***************************************************************************)
(* The whole system: clients that create sessions, send inputs and compute *)
(* requests to the computation server and poll the trusted authority for   *)
(* the results, one result thread per session, and the model provider.     *)
(*                                                                         *)
(* A client's calls block until the server has handled them, so a client   *)
(* calls only while the handler of its connection is idle, and compute,    *)
(* which sends an input and then the request, is not interleaved with      *)
(* other calls of the same client.                                         *)
(***************************************************************************)
EXTENDS ComputationServer

CONSTANTS
    Owner,      \* Owner[q]: the client that classifies q
    Draws       \* Draws[q]: what gen_permvec may draw for q

ASSUME ClientAssumption ==
    /\ Owner \in [Queries -> Clients]
    /\ Draws \in [Queries -> SUBSET PermVecs]
    /\ NoInput \notin PermVecs

VARIABLES
    call,       \* how far the client's calls for each query are ("failed"
                \* when the server ended in one, see Outages)
    sid,        \* the session of each query, 0 when it has none
    permvec,    \* the permutation the client drew for each query
    thr,        \* the result thread of each query
    result      \* the indexes handed to the result callback

clientVars == <<call, sid, permvec, thr, result>>
vars == <<taVars, csVars, clientVars>>

Own(c) == {q \in Queries : Owner[q] = c}

\* Client c's thread is outside of create_session and compute.
Free(c) ==
    /\ csPc[c] = "idle"
    /\ \A q \in Own(c) : call[q] \notin {"session", "input"}

-----------------------------------------------------------------------------
(* Client::create_session: the session, then its result thread.             *)

CreateSession(q) ==
    /\ Free(Owner[q])
    /\ call[q] = "new"
    /\ \E id \in SessionIds :
         /\ RecvSessionCreate(Owner[q], id)
         /\ sid' = [sid EXCEPT ![q] = id]
    /\ call' = [call EXCEPT ![q] = "session"]
    /\ UNCHANGED <<permvec, thr, result>>

\* The callback table is keyed by session: storing the new entry destroys the
\* old one of the same session, which joins its thread.
StartResultThread(q) ==
    /\ call[q] = "session"
    /\ \A r \in Own(Owner[q]) \ {q} : sid[r] = sid[q] => thr[r] \in {"none", "done"}
    /\ call' = [call EXCEPT ![q] = "created"]
    /\ thr' = [thr EXCEPT ![q] = "poll"]
    /\ UNCHANGED <<taVars, csVars, sid, permvec, result>>

-----------------------------------------------------------------------------
(* Client::compute: the input with a fresh permutation, then the request.   *)

SendInput(q) ==
    /\ Free(Owner[q])
    /\ call[q] = "created"
    /\ \E p \in Draws[q] :
         /\ RecvEncInput(Owner[q], q, p)
         /\ permvec' = [permvec EXCEPT ![q] = p]
    /\ call' = [call EXCEPT ![q] = "input"]
    /\ UNCHANGED <<sid, thr, result>>

\* Mutant: the client sends its request again, as if the first were lost.
SendComputeRequestAgain(q) ==
    /\ call[q] \in {"input", "requested"}
    /\ RecvComputeRequest(Owner[q], sid[q], Unit[q])
    /\ call' = [call EXCEPT ![q] = "requested"]
    /\ UNCHANGED <<sid, permvec, thr, result>>

SendComputeRequest(q) ==
    /\ call[q] = "input"
    /\ RecvComputeRequest(Owner[q], sid[q], Unit[q])
    /\ call' = [call EXCEPT ![q] = "requested"]
    /\ UNCHANGED <<sid, permvec, thr, result>>

-----------------------------------------------------------------------------
(* The result thread: TA's handler first checks the session and then,       *)
(* without a lock, copies its indexes.                                      *)

ResultCheck(q) ==
    /\ thr[q] = "poll"
    /\ HasResult(sid[q])
    /\ thr' = [thr EXCEPT ![q] = "read"]
    /\ UNCHANGED <<taVars, csVars, call, sid, permvec, result>>

ResultRead(q) ==
    /\ thr[q] = "read"
    /\ result' = [result EXCEPT ![q] = sessions[sid[q]].indexes]
    /\ thr' = [thr EXCEPT ![q] = "done"]
    /\ UNCHANGED <<taVars, csVars, call, sid, permvec>>

-----------------------------------------------------------------------------

Init ==
    /\ CSInit
    /\ call = [q \in Queries |-> "new"]
    /\ sid = [q \in Queries |-> 0]
    /\ permvec = [q \in Queries |-> NoInput]
    /\ thr = [q \in Queries |-> "none"]
    /\ result = [q \in Queries |-> <<>>]

ServerStep(c) == WaitModel(c) \/ BeginOnTA(c) \/ ComputeOnTA(c) \/ EndOnTA(c)

ClientStep(q) ==
    \/ CreateSession(q) \/ StartResultThread(q)
    \/ SendInput(q) \/ SendComputeRequest(q)

ResultStep(q) == ResultCheck(q) \/ ResultRead(q)

ProviderStep == StoreModel \/ RaiseEncModel

Finished == \A q \in Queries : thr[q] = "done"

\* Every callback has run: Client::wait returns and the processes stay up.
Waited == Finished /\ UNCHANGED vars

Next ==
    \/ \E c \in Clients : (ServerStep(c) /\ UNCHANGED clientVars)
    \/ \E q \in Queries : ClientStep(q) \/ ResultStep(q)
    \/ (ProviderStep /\ UNCHANGED clientVars)
    \/ (Tick /\ UNCHANGED <<csVars, clientVars>>)
    \/ Waited

Spec == Init /\ [][Next]_vars

\* A handler thread runs and its blocking calls retry; a client's thread goes
\* through its queries; a result thread asks again every few seconds; the
\* provider sends its model; time passes.  Weak fairness is enough: a handler
\* that is refused by the authority is refused only while one of finitely many
\* other computations is under way.
Fairness ==
    /\ \A c \in Clients : WF_vars(ServerStep(c) /\ UNCHANGED clientVars)
    /\ \A q \in Queries : WF_vars(ClientStep(q)) /\ WF_vars(ResultStep(q))
    /\ WF_vars(ProviderStep /\ UNCHANGED clientVars)
    /\ WF_vars(Tick /\ UNCHANGED <<csVars, clientVars>>)

FairSpec == Spec /\ Fairness

-----------------------------------------------------------------------------
(* Properties.                                                              *)

\* Every variable keeps to its type.
TypeOK ==
    /\ CSTypeOK
    /\ call \in [Queries -> {"new", "session", "created", "input", "requested", "failed"}]
    /\ sid \in [Queries -> 0 .. MaxTime]
    /\ permvec \in [Queries -> PermVecs \cup {NoInput}]
    /\ thr \in [Queries -> {"none", "poll", "read", "done"}]
    /\ result \in [Queries -> Seq(Nat)]

\* The handlers of all clients share one connection to the authority, and
\* nothing in the server serialises them: only the guards of begin and end
\* do.  At most one computation is between begin and end, and the authority
\* is computable exactly then, so no end is lost and none is early.
OneComputation ==
    /\ \A c, d \in Clients : csPc[c] = "loop" /\ csPc[d] = "loop" => c = d
    /\ taState = "Computable" <=> \E c \in Clients : csPc[c] = "loop"

\* compute_unit is kept per connection of the authority, the indexes per
\* session: while a handler is in its loop both are the ones it began with, so
\* every index the comparison writes is in bounds and the session it writes to
\* is one whose results no result request is answered with yet.
AuthorityServesCaller ==
    \A c \in Clients : csPc[c] = "loop" =>
        LET s == sessions[job[c].session]
        IN /\ s.known /\ ~s.computed
           /\ taUnit = job[c].unit
           /\ Len(s.indexes) = taUnit

\* The flag the connections poll is raised by another thread than theirs: a
\* handler that computes finds the model pointer set.
ModelBeforeCompute ==
    \A c \in Clients : csPc[c] \in {"begin", "loop"} => encmodel

\* Identifiers that at most one query has: those of one second are the same.
Unshared == {id \in SessionIds :
                \A q, r \in Queries : sid[q] = id /\ sid[r] = id => q = r}

\* The invariant of the comparison loop, split over two processes: the maximum
\* the server holds encrypted and the index the authority holds in the clear
\* are about the same candidate, which no candidate seen so far exceeds.  It is
\* no other than a query of the same identifier that can break it, whatever
\* else runs beside the handler or has run into that session's second.
RunningMaximum ==
    \A c \in Clients : csPc[c] = "loop" /\ job[c].session \in Unshared =>
        \A k \in 1 .. job[c].unit :
            LET i == sessions[job[c].session].indexes[k]
            IN /\ i \in 0 .. job[c].index - 1
               /\ job[c].max[k] = Permed(c, i)[k]
               /\ \A j \in 0 .. job[c].index - 1 : Permed(c, j)[k] <= job[c].max[k]

\* Two queries never share a session identifier.
UniqueSessions ==
    \A q, r \in Queries : q # r /\ sid[q] # 0 => sid[q] # sid[r]

\* The classes of a query's data items: its indexes through its permutation.
ClassOf(q, k) == permvec[q][result[q][k]]

\* The indexes a result callback receives are, through the permutation the
\* client drew for that query, classes of maximal score of that query's data,
\* also while other queries share identifiers and compute into one session.
ResultsAreBest ==
    \A q \in Queries : thr[q] = "done" /\ sid[q] \in Unshared =>
        /\ Len(result[q]) = Unit[q]
        /\ \A k \in 1 .. Unit[q] :
             /\ ClassOf(q, k) \in Classes
             /\ \A b \in Classes : Score[q][k][b] <= Score[q][k][ClassOf(q, k)]

\* Checking a session and copying its indexes are two steps without a lock:
\* once the session of one query has been computed, nothing changes it any more.
ComputedIsFinal ==
    [][\A id \in Unshared :
          sessions[id].computed => sessions'[id] = sessions[id]]_vars

\* Every query's callback runs in the end.
EveryQueryAnswered == \A q \in Queries : <>(thr[q] = "done")
=============================================================================
