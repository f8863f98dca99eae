------------------------------ MODULE DemoClient ------------------------------
(***************************************************************************)
(* The demo client: its main thread opens a session per group of rows,     *)
(* remembers the permutation of each row, waits for all result threads and *)
(* prints the class of each row.  The result threads call result_cb, which *)
(* pushes to a vector they all share, with no lock: once two pushes have   *)
(* met, the vector may be anything.  The rest of the system is its         *)
(* abstract specification: a request is answered once, or lost with the    *)
(* computation server.  When a call or a result thread fails the main      *)
(* thread leaves exec by an exception, with threads still running.         *)
(***************************************************************************)
EXTENDS Integers, Sequences

CONSTANTS
    RowCounts,      \* numbers of rows test files have
    Unit,           \* rows that fit in a ciphertext
    Classes,        \* classes, 0 .. class_num - 1
    PermVecs,       \* permutations gen_permvec may draw
    RowScore,       \* row -> class -> score
    TornVectors,    \* what the vector may read as after a race of two pushes
    NoAnswer

ASSUME DemoAssumption ==
    /\ RowCounts \subseteq Nat /\ Unit \in Nat \ {0}
    /\ Classes \subseteq Nat
    /\ PermVecs \subseteq [Classes -> Classes]
    /\ \A p \in PermVecs, c \in Classes : \E j \in Classes : p[j] = c
    /\ TornVectors \subseteq Seq(Int)

VARIABLES
    num_rows,       \* rows of the test file
    pc,             \* of the main thread
    thrown,         \* it has left exec by an exception
    cs_up, ta_up,   \* the connections of the client stand
    args,           \* the object the callbacks push to exists
    group,          \* the group it is at
    permvecs,       \* a permutation per row, in the order of the rows
    drawn,          \* group -> permutation sent with its request
    answer,         \* group -> classes of its rows, once the service has them
    lost,           \* groups the server took with it
    thr,            \* group -> its result thread
    fetched,        \* group -> indexes the thread has still to push
    torn,           \* two pushes have met, in a build a data race
    indexes,        \* the vector all callbacks push to
    origin,         \* the row each of its indexes is of: in no program variable,
                    \* for the properties only
    result_classes  \* what the main thread has printed

loopVars == <<num_rows, group, permvecs, drawn>>
linkVars == <<cs_up, ta_up>>
mainVars == <<pc, thrown, loopVars, result_classes>>
serviceVars == <<answer, lost>>
vector == <<torn, indexes, origin>>
threadVars == <<thr, fetched, vector>>
demoVars == <<mainVars, linkVars, args, serviceVars, threadVars>>

NumGroups == num_rows \div Unit
Groups == UNION {0 .. r \div Unit - 1 : r \in RowCounts}  \* of the largest file

RowOf(g, k) == g * Unit + k

Service == INSTANCE Classification WITH
    Queries <- Groups,
    Items <- [g \in Groups |-> 1 .. Unit],
    Score <- [g \in Groups |-> [k \in 1 .. Unit |-> RowScore[RowOf(g, k)]]]

Init ==
    /\ num_rows \in RowCounts
    /\ pc = "loop" /\ thrown = FALSE
    /\ cs_up = TRUE /\ ta_up = TRUE
    /\ args = TRUE
    /\ group = 0
    /\ permvecs = <<>>
    /\ drawn = [g \in Groups |-> NoAnswer]
    /\ Service!Init
    /\ thr = [g \in Groups |-> "none"]
    /\ fetched = [g \in Groups |-> <<>>]
    /\ torn = FALSE
    /\ indexes = <<>>
    /\ origin = <<>>
    /\ result_classes = <<>>

-----------------------------------------------------------------------------
(* The main thread. *)

CreateSession ==
    /\ pc = "loop" /\ group < NumGroups
    /\ cs_up
    /\ thr' = [thr EXCEPT ![group] = "poll"]
    /\ pc' = "compute"
    /\ UNCHANGED <<thrown, loopVars, result_classes, linkVars, args, serviceVars,
                   fetched, vector>>

\* Mutant: a permutation is drawn per row, and the request goes with the last.
ComputePermvecPerRow ==
    /\ pc = "compute"
    /\ \E ps \in [1 .. Unit -> PermVecs] :
         /\ permvecs' = permvecs \o ps
         /\ drawn' = IF cs_up THEN [drawn EXCEPT ![group] = ps[Unit]] ELSE drawn
    /\ pc' = "sent"
    /\ UNCHANGED <<thrown, num_rows, group, result_classes, linkVars, args,
                   serviceVars, threadVars>>

\* One permutation is drawn and remembered for each row, then the group is sent.
Compute ==
    /\ pc = "compute"
    /\ \E p \in PermVecs :
         /\ permvecs' = permvecs \o [k \in 1 .. Unit |-> p]
         /\ drawn' = IF cs_up THEN [drawn EXCEPT ![group] = p] ELSE drawn
    /\ pc' = "sent"
    /\ UNCHANGED <<thrown, num_rows, group, result_classes, linkVars, args,
                   serviceVars, threadVars>>

\* compute blocks until the server has handled the request.
ComputeReturns ==
    /\ pc = "sent"
    /\ answer[group] # NoAnswer
    /\ group' = group + 1
    /\ pc' = "loop"
    /\ UNCHANGED <<thrown, num_rows, permvecs, drawn, result_classes, linkVars, args,
                   serviceVars, threadVars>>

Throw ==
    /\ thrown' = TRUE
    /\ pc' = "leave"
    /\ UNCHANGED <<loopVars, result_classes, linkVars, args, serviceVars, threadVars>>

\* create_session or compute fails on a connection that was cut.
CallFails ==
    /\ (pc = "loop" /\ group < NumGroups) \/ pc = "sent"
    /\ ~cs_up
    /\ Throw

\* Mutant: only the thread of the last session is joined.
WaitLast ==
    /\ pc = "loop" /\ group = NumGroups
    /\ NumGroups > 0 => thr[NumGroups - 1] = "done"
    /\ pc' = "results"
    /\ UNCHANGED <<thrown, loopVars, result_classes, linkVars, args, serviceVars,
                   threadVars>>

\* client.wait() joins the result threads of all sessions.
Wait ==
    /\ pc = "loop" /\ group = NumGroups
    /\ \A g \in 0 .. NumGroups - 1 : thr[g] = "done"
    /\ pc' = "results"
    /\ UNCHANGED <<thrown, loopVars, result_classes, linkVars, args, serviceVars,
                   threadVars>>

\* It throws what the first thread that failed has left, before it has joined
\* the ones behind it.
WaitThrows ==
    /\ pc = "loop" /\ group = NumGroups
    /\ \E g \in 0 .. NumGroups - 1 : thr[g] = "failed"
    /\ Throw

\* Neither vector is read past its end.
Inside(r) == r \in DOMAIN permvecs /\ indexes[r] \in Classes

\* Mutant: the index is printed without going through the permutation.
PrintNextIndex ==
    /\ pc = "results"
    /\ \/ /\ Len(result_classes) < Len(indexes)
          /\ LET r == Len(result_classes) + 1
             IN result_classes' = Append(result_classes, indexes[r])
          /\ UNCHANGED pc
       \/ /\ Len(result_classes) = Len(indexes)
          /\ pc' = "leave"
          /\ UNCHANGED result_classes
    /\ UNCHANGED <<thrown, loopVars, linkVars, args, serviceVars, threadVars>>

\* The i-th index goes through the i-th permutation.
PrintNext ==
    /\ pc = "results"
    /\ \/ /\ Len(result_classes) < Len(indexes)
          /\ Inside(Len(result_classes) + 1)
          /\ LET r == Len(result_classes) + 1
             IN result_classes' = Append(result_classes, permvecs[r][indexes[r]])
          /\ UNCHANGED pc
       \/ /\ Len(result_classes) = Len(indexes)
          /\ pc' = "leave"
          /\ UNCHANGED result_classes
    /\ UNCHANGED <<thrown, loopVars, linkVars, args, serviceVars, threadVars>>

\* A vector that a race has left too long, or with an element that is no index: what
\* is read beyond the permutations may be any name or none, for which NoAnswer stands.
PrintStray ==
    /\ pc = "results" /\ Len(result_classes) < Len(indexes)
    /\ ~Inside(Len(result_classes) + 1)
    /\ result_classes' = Append(result_classes, NoAnswer)
    /\ UNCHANGED <<pc, thrown, loopVars, linkVars, args, serviceVars, threadVars>>

-----------------------------------------------------------------------------
(* Leaving exec, by an exception or at its end: the locals go in the reverse *)
(* order of their declaration, the client and then args.                     *)

\* Mutant: the connections are left to the members' destructors.
DisconnectLater ==
    /\ pc = "leave"
    /\ pc' = "join"
    /\ UNCHANGED <<thrown, loopVars, result_classes, linkVars, args, serviceVars,
                   threadVars>>

\* The body of the client's destructor.
Disconnect ==
    /\ pc = "leave"
    /\ cs_up' = FALSE /\ ta_up' = FALSE
    /\ pc' = "join"
    /\ UNCHANGED <<thrown, loopVars, result_classes, args, serviceVars, threadVars>>

\* Mutant: a result thread that goes is not joined.
DetachThreads ==
    /\ pc = "join"
    /\ pc' = "args"
    /\ UNCHANGED <<thrown, loopVars, result_classes, linkVars, args, serviceVars,
                   threadVars>>

\* The callback table is the last member, so the first to go: each of its
\* threads is joined.
JoinThreads ==
    /\ pc = "join"
    /\ \A g \in Groups : thr[g] \in {"none", "failed", "done"}
    /\ pc' = "args"
    /\ UNCHANGED <<thrown, loopVars, result_classes, linkVars, args, serviceVars,
                   threadVars>>

DestroyArgs ==
    /\ pc = "args"
    /\ args' = FALSE
    /\ pc' = "done"
    /\ UNCHANGED <<thrown, loopVars, result_classes, linkVars, serviceVars, threadVars>>

-----------------------------------------------------------------------------
(* The connections: the computation server ends with the requests it has     *)
(* not answered, and the connection to the authority may be cut.             *)

ServerEnds ==
    /\ cs_up /\ cs_up' = FALSE
    /\ LET open == {g \in Groups : drawn[g] # NoAnswer /\ Service!Open(g)}
       IN Service!Lose(open) \/ (open = {} /\ UNCHANGED serviceVars)
    /\ UNCHANGED <<mainVars, ta_up, args, threadVars>>

AuthorityCut ==
    /\ ta_up /\ ta_up' = FALSE
    /\ UNCHANGED <<mainVars, cs_up, args, serviceVars, threadVars>>

-----------------------------------------------------------------------------
(* The service answers a request it has received, and the result threads. *)

Serve(g) ==
    /\ drawn[g] # NoAnswer
    /\ Service!Answer(g)
    /\ UNCHANGED <<mainVars, linkVars, args, threadVars>>

\* The authority returns places in the permuted order.
GetResults(g) ==
    /\ thr[g] = "poll" /\ ta_up
    /\ answer[g] # NoAnswer
    /\ fetched' = [fetched EXCEPT ![g] =
         [k \in 1 .. Unit |-> CHOOSE j \in Classes : drawn[g][j] = answer[g][k]]]
    /\ thr' = [thr EXCEPT ![g] = "callback"]
    /\ UNCHANGED <<mainVars, linkVars, args, serviceVars, vector>>

\* The request fails, the thread keeps the exception and ends without a callback.
GetFails(g) ==
    /\ thr[g] = "poll" /\ ~ta_up
    /\ thr' = [thr EXCEPT ![g] = "failed"]
    /\ UNCHANGED <<mainVars, linkVars, args, serviceVars, fetched, vector>>

\* push_back takes no lock: it may begin while another thread is in the middle of
\* its own.
PushBegin(g) ==
    /\ thr[g] = "callback" /\ fetched[g] # <<>>
    /\ thr' = [thr EXCEPT ![g] = "push"]
    /\ torn' = (torn \/ \E h \in Groups : thr[h] = "push")
    /\ UNCHANGED <<mainVars, linkVars, args, serviceVars, fetched, indexes, origin>>

\* A push that met no other appends its index.  After two that met, the start, the
\* end and the elements of the vector may be of either, or of neither.
PushEnd(g) ==
    /\ thr[g] = "push"
    /\ LET item == Head(fetched[g])
           row == RowOf(g, Unit - Len(fetched[g]) + 1)
       IN \/ /\ ~torn
             /\ indexes' = Append(indexes, item)
             /\ origin' = Append(origin, row)
          \/ /\ torn
             /\ indexes' \in TornVectors \cup {indexes, Append(indexes, item)}
             /\ UNCHANGED origin
    /\ fetched' = [fetched EXCEPT ![g] = Tail(@)]
    /\ thr' = [thr EXCEPT ![g] = "callback"]
    /\ UNCHANGED <<mainVars, linkVars, args, serviceVars, torn>>

\* After two pushes have met, memory that was freed twice or written to after it
\* was freed may end the program, then or later.
RaceAborts ==
    /\ torn /\ pc \notin {"done", "aborted"}
    /\ pc' = "aborted"
    /\ thr' = [g \in Groups |-> "none"]
    /\ UNCHANGED <<thrown, loopVars, result_classes, linkVars, args, serviceVars,
                   fetched, vector>>

CallbackReturns(g) ==
    /\ thr[g] = "callback" /\ fetched[g] = <<>>
    /\ thr' = [thr EXCEPT ![g] = "done"]
    /\ UNCHANGED <<mainVars, linkVars, args, serviceVars, fetched, vector>>

-----------------------------------------------------------------------------

MainStep ==
    \/ CreateSession \/ Compute \/ ComputeReturns \/ CallFails
    \/ Wait \/ WaitThrows \/ PrintNext \/ PrintStray
    \/ Disconnect \/ JoinThreads \/ DestroyArgs

ThreadStep(g) ==
    GetResults(g) \/ GetFails(g) \/ PushBegin(g) \/ PushEnd(g) \/ CallbackReturns(g)

Ended == pc \in {"done", "aborted"}

Next ==
    \/ MainStep
    \/ \E g \in Groups : (~Ended /\ Serve(g)) \/ ThreadStep(g)
    \/ RaceAborts
    \/ (~Ended /\ (ServerEnds \/ AuthorityCut))
    \/ (Ended /\ UNCHANGED demoVars)

Spec == Init /\ [][Next]_demoVars

\* Threads run, and the service answers what it does not lose (EveryQueryEnds
\* of Outages).
FairSpec ==
    /\ Spec
    /\ WF_demoVars(MainStep)
    /\ \A g \in Groups : WF_demoVars(~Ended /\ Serve(g)) /\ WF_demoVars(ThreadStep(g))

-----------------------------------------------------------------------------
(* Properties. *)

\* The vector is read without a lock: no callback changes it once the results
\* are being printed.
StableWhilePrinting == [][pc = "results" => indexes' = indexes]_demoVars

\* A callback may run while an exception takes the main thread out of exec: the
\* object it pushes to, a local of exec, outlives every thread.
CallbackHasArgs ==
    \A g \in Groups : thr[g] \in {"callback", "push"} => args

\* The program comes to its end, whichever connection is cut at whichever point:
\* no join waits for a result that nobody computes any more.
Ends == <>Ended

BestOfRow(r) ==
    Service!Best((r - 1) \div Unit, ((r - 1) % Unit) + 1)

\* In whatever order the callbacks run, as long as no two pushes meet: the vector
\* has each row at most once and, when it is printed, every row of the groups that
\* were sent; each index, taken through the permutation remembered for its own
\* row, is a class of maximal score for that row.  Only its place may be another's.
EveryRowOnce ==
    ~torn =>
        /\ Len(origin) = Len(indexes) /\ Len(indexes) <= Len(permvecs)
        /\ \A r, s \in DOMAIN origin : origin[r] = origin[s] => r = s
        /\ \A r \in DOMAIN origin :
             /\ origin[r] \in DOMAIN permvecs /\ indexes[r] \in Classes
             /\ permvecs[origin[r]][indexes[r]] \in BestOfRow(origin[r])
        /\ pc = "results" =>
             {origin[r] : r \in DOMAIN origin} = 1 .. NumGroups * Unit

\* Of a file that fills one group, or one and part of another, every row of the
\* group is printed in its place, with a class of maximal score: index and
\* permutation undo each other.  A run that fails prints nothing.
OneGroupIsRight ==
    NumGroups = 1 =>
        /\ \A r \in DOMAIN result_classes : result_classes[r] \in BestOfRow(r)
        /\ pc = "done" => Len(result_classes) = IF thrown THEN 0 ELSE Unit

\* The i-th line printed is a class of maximal score for the i-th row: said of runs
\* in which no two pushes meet.
PrintedIsRight ==
    ~torn => \A r \in DOMAIN result_classes : result_classes[r] \in BestOfRow(r)
=============================================================================
