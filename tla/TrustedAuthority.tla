--------------------------- MODULE TrustedAuthority ---------------------------
(***************************************************************************)
(* The trusted authority (TA): the session container behind both of its    *)
(* servers, the state machine of the connection of Server#2 that the       *)
(* computation server holds, and the handlers of the two servers.          *)
(*                                                                         *)
(* There is one connection to Server#2: the computation server opens it    *)
(* once and all of its own connections share it.  A handler whose guard    *)
(* fails throws and its caller asks again (the blocking calls of stdsc),   *)
(* so a rejected request changes nothing and is a disabled action here.    *)
(***************************************************************************)
EXTENDS Integers, Sequences

CONSTANTS
    MaxTime,            \* bound on the clock
    CreatesPerSecond,   \* bound on the sessions created within one second
    NumData,            \* data items packed in one ciphertext (slots / probs)
    PlainMod            \* plaintext modulus p^r

ASSUME TAAssumption ==
    /\ MaxTime \in Nat \ {0}
    /\ CreatesPerSecond \in Nat \ {0}
    /\ NumData \in Nat \ {0}
    /\ PlainMod \in Nat \ {0, 1}

VARIABLES
    now,        \* the second std::time returns
    minted,     \* sessions created within this second
    taState,    \* state of the connection of Server#2
    taUnit,     \* compute_unit of the connection's callback parameters
    sessions    \* session container, shared by the two servers

taVars == <<now, minted, taState, taUnit, sessions>>

SessionIds == 1 .. MaxTime
Slots == 1 .. NumData

TAStates == {"Ready", "SessionCreated", "Computable", "Computing"}

TAEvents == {"SessionCreate", "BeginRequest", "ComputeRequest", "EndRequest"}

SessionRecord == [known : BOOLEAN, indexes : Seq(Nat), computed : BOOLEAN]

\* A session as the constructor leaves it: one index, not computed.  "known"
\* says whether the map holds the identifier.
NewSession == [known |-> FALSE, indexes |-> <<0>>, computed |-> FALSE]

-----------------------------------------------------------------------------
(* Server#2's state machine: events a state does not handle are ignored.    *)

\* Mutant: an end request does not leave Computable.
TASetKeepsComputable(st, e) ==
    CASE st = "Ready" /\ e = "SessionCreate" -> "SessionCreated"
      [] st = "SessionCreated" /\ e = "BeginRequest" -> "Computable"
      [] st = "Computing" /\ e = "EndRequest" -> "SessionCreated"
      [] OTHER -> st

TASet(st, e) ==
    CASE st = "Ready" /\ e = "SessionCreate" -> "SessionCreated"
      [] st = "SessionCreated" /\ e = "BeginRequest" -> "Computable"
      [] st = "Computable" /\ e = "ComputeRequest" -> "Computing"
      [] st = "Computing" /\ e = "BeginRequest" -> "Computable"
      [] st \in {"Computable", "Computing"} /\ e = "EndRequest" -> "SessionCreated"
      [] OTHER -> st

\* std::vector::resize(n, 0): keeps what is there and fills only what is new.
Resize(seq, n) == [k \in 1 .. n |-> IF k <= Len(seq) THEN seq[k] ELSE 0]

\* Session::initialize through SessionContainer::initialize.
Initialize(ses, unit) ==
    [known |-> TRUE, indexes |-> Resize(ses.indexes, unit), computed |-> FALSE]

\* The generator is seeded with the second and its first number is returned:
\* the identifier is a function of the second.
gen_uuid == now

\* Mutant: the whole modulus counts as not negative.
CompareWholeModulus(vdiff, k) == IF k <= taUnit /\ vdiff[k] < PlainMod THEN 1 ELSE 0

\* The comparison for one data item: 1 iff the masked difference is not negative,
\* that is, below half of the plaintext modulus.  Slots past the unit stay 0.  The
\* unit is 1 in builds without USE_MULTI.
Compare(vdiff, k) == IF k <= taUnit /\ vdiff[k] < PlainMod \div 2 THEN 1 ELSE 0

-----------------------------------------------------------------------------
(* Handlers of Server#2.                                                    *)

SessionCreate(id) ==
    /\ minted < CreatesPerSecond
    /\ id = gen_uuid
    /\ minted' = minted + 1
    /\ taState' = TASet(taState, "SessionCreate")
    /\ UNCHANGED <<now, taUnit, sessions>>

\* Mutant: begin is accepted in every state.
BeginUnguarded(id, unit) ==
    /\ sessions' = [sessions EXCEPT ![id] = Initialize(@, unit)]
    /\ taUnit' = unit
    /\ taState' = TASet(taState, "BeginRequest")
    /\ UNCHANGED <<now, minted>>

\* Mutant: the connection keeps the first unit it was given.
BeginKeepsUnit(id, unit) ==
    /\ taState \in {"SessionCreated", "Computing"}
    /\ sessions' = [sessions EXCEPT ![id] = Initialize(@, unit)]
    /\ taUnit' = IF taUnit = 0 THEN unit ELSE taUnit
    /\ taState' = TASet(taState, "BeginRequest")
    /\ UNCHANGED <<now, minted>>

BeginComputation(id, unit) ==
    /\ taState \in {"SessionCreated", "Computing"}
    /\ sessions' = [sessions EXCEPT ![id] = Initialize(@, unit)]
    /\ taUnit' = unit
    /\ taState' = TASet(taState, "BeginRequest")
    /\ UNCHANGED <<now, minted>>

\* Replaces the index of every slot whose candidate is at least the maximum.
\* No event is raised: the state stays what it is.
Compute(id, index, vdiff) ==
    /\ taState \in {"Computable", "Computing"}
    /\ sessions[id].known
    /\ sessions' = [sessions EXCEPT ![id].indexes =
                        [k \in 1 .. Len(@) |->
                            IF Compare(vdiff, k) = 1 THEN index ELSE @[k]]]
    /\ UNCHANGED <<now, minted, taState, taUnit>>

EndComputation(id) ==
    /\ taState \in {"Computable", "Computing"}
    /\ sessions' = [sessions EXCEPT ![id] = [@ EXCEPT !.known = TRUE,
                                                      !.computed = TRUE]]
    /\ taState' = TASet(taState, "EndRequest")
    /\ UNCHANGED <<now, minted, taUnit>>

\* Mutant: a session that is known is taken for computed.
HasResultOnceKnown(id) == sessions[id].known

\* Server#1's result request goes on only when the container holds the session
\* and its computation has ended.
HasResult(id) == sessions[id].known /\ sessions[id].computed

-----------------------------------------------------------------------------

\* The clock.  A second in which nothing was created is of no consequence and
\* is left out, so that the bound is never used up by waiting.
Tick ==
    /\ minted > 0
    /\ now < MaxTime
    /\ now' = now + 1
    /\ minted' = 0
    /\ UNCHANGED <<taState, taUnit, sessions>>

TAInit ==
    /\ now = 1
    /\ minted = 0
    /\ taState = "Ready"
    /\ taUnit = 0
    /\ sessions = [id \in SessionIds |-> NewSession]

TATypeOK ==
    /\ now \in SessionIds
    /\ minted \in 0 .. CreatesPerSecond
    /\ taState \in TAStates
    /\ taUnit \in 0 .. NumData
    /\ sessions \in [SessionIds -> SessionRecord]
=============================================================================
