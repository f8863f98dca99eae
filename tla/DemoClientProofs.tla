--------------------------- MODULE DemoClientProofs ---------------------------
(***************************************************************************)
(* Proofs about the demo client: what its threads do to each other holds   *)
(* for every number of rows, unit and set of permutations, and wherever a  *)
(* connection is cut.                                                      *)
(***************************************************************************)
EXTENDS DemoClient, DataTheorems, FunctionTheorems

ThreadStates == {"none", "poll", "callback", "push", "done", "failed"}

\* The threads that have been answered.
Answered == {"callback", "push", "done"}

TypeInv ==
    /\ num_rows \in RowCounts
    /\ group \in Nat
    /\ permvecs \in Seq(PermVecs)
    /\ drawn \in [Groups -> PermVecs \cup {NoAnswer}]
    /\ answer \in [Groups -> [1 .. Unit -> Classes] \cup {NoAnswer}]
    /\ thr \in [Groups -> ThreadStates]
    /\ fetched \in [Groups -> Seq(Classes)]
    /\ torn \in BOOLEAN
    /\ indexes \in Seq(Int)
    /\ origin \in Seq(Int)

LEMMA ClassesNat == Classes \subseteq Nat
  BY DemoAssumption

\* Groups are natural numbers.
LEMMA GroupsNat == Groups \subseteq Nat
  BY DemoAssumption DEF Groups

\* A permutation takes a place to every class.
LEMMA PlaceOf ==
    ASSUME NEW p \in PermVecs, NEW c \in Classes
    PROVE  /\ (CHOOSE j \in Classes : p[j] = c) \in Classes
           /\ p[CHOOSE j \in Classes : p[j] = c] = c
  <1>1. \E j \in Classes : p[j] = c
    BY DemoAssumption
  <1> QED BY <1>1

\* A row is in one place of one group.
LEMMA RowIsIn ==
    ASSUME NEW g \in Nat, NEW k \in 1 .. Unit
    PROVE  /\ RowOf(g, k) \in Nat
           /\ (RowOf(g, k) - 1) \div Unit = g
           /\ (RowOf(g, k) - 1) % Unit = k - 1
  <1>1. Unit \in Nat \ {0} /\ k - 1 \in 0 .. Unit - 1
    BY DemoAssumption
  <1>2. (Unit * g + (k - 1)) \div Unit = g /\ (Unit * g + (k - 1)) % Unit = k - 1
    BY <1>1, DivUnique
  <1>3. RowOf(g, k) - 1 = Unit * g + (k - 1) /\ RowOf(g, k) \in Nat
    <2>1. g * Unit = Unit * g /\ g * Unit \in Nat
      BY <1>1
    <2> QED BY <2>1 DEF RowOf
  <1> QED BY <1>2, <1>3

\* The rows of the groups before n are the first n * Unit.
LEMMA RowsBefore ==
    ASSUME NEW g \in Nat, NEW k \in 1 .. Unit, NEW n \in Nat, g < n
    PROVE  RowOf(g, k) \in 1 .. n * Unit
  <1>1. Unit \in Nat
    BY DemoAssumption
  <1>2. Unit * (g + 1) <= Unit * n
    BY <1>1, TimesMonotone
  <1>3. Unit * (g + 1) = g * Unit + Unit /\ Unit * n = n * Unit /\ g * Unit \in Nat
    BY <1>1
  <1> QED BY <1>1, <1>2, <1>3 DEF RowOf

-----------------------------------------------------------------------------
(* The invariant: what is remembered, what the threads have still to push,   *)
(* and, as long as no two pushes have met, what the vector holds.            *)

\* Permutations are remembered group by group, and only for a group that has
\* one a request was sent.
CoverInv ==
    \E n \in Nat :
        /\ Len(permvecs) = n * Unit
        /\ pc \in {"loop", "compute"} => n = group
        /\ pc = "sent" => n = group + 1
        /\ \A g \in Groups : drawn[g] # NoAnswer =>
             g < n /\ \A k \in 1 .. Unit : permvecs[RowOf(g, k)] = drawn[g]

\* An index stands for the class answered for row k of its group.
Stands(g, k, i) == i \in Classes /\ drawn[g][i] = answer[g][k]

\* What thread g has left to push.
Rest(g) ==
    /\ Len(fetched[g]) <= Unit
    /\ \A j \in 1 .. Len(fetched[g]) :
         Stands(g, Unit - Len(fetched[g]) + j, fetched[g][j])

ThreadInv ==
    \A g \in Groups :
        /\ answer[g] # NoAnswer =>
             drawn[g] # NoAnswer /\ \A k \in 1 .. Unit : answer[g][k] \in Service!Best(g, k)
        /\ thr[g] \in Answered => answer[g] # NoAnswer /\ Rest(g)
        /\ thr[g] = "push" => fetched[g] # <<>>
        /\ thr[g] = "done" => fetched[g] = <<>>

\* Thread g has pushed its k-th index.
Pushed(g, k) == thr[g] \in Answered /\ k <= Unit - Len(fetched[g])

\* The r-th index of the vector is of a row that was pushed.
Holds(r) ==
    \E g \in Groups, k \in 1 .. Unit :
        Pushed(g, k) /\ origin[r] = RowOf(g, k) /\ Stands(g, k, indexes[r])

RowsInv ==
    ~torn =>
        /\ Len(origin) = Len(indexes)
        /\ \A g, h \in Groups : thr[g] = "push" /\ thr[h] = "push" => g = h
        /\ \A r, s \in 1 .. Len(origin) : origin[r] = origin[s] => r = s
        /\ \A r \in 1 .. Len(origin) : Holds(r)
        /\ \A g \in Groups, k \in 1 .. Unit :
             Pushed(g, k) => \E r \in 1 .. Len(origin) : origin[r] = RowOf(g, k)

AbortInv == pc = "aborted" => torn

IndexInv == TypeInv /\ CoverInv /\ ThreadInv /\ RowsInv /\ AbortInv

LEMMA InitIndex == Init => IndexInv
  <1> SUFFICES ASSUME Init PROVE IndexInv
    OBVIOUS
  <1>1. TypeInv
    <2>1. torn \in BOOLEAN
      BY DEF Init
    <2>2. indexes \in Seq(Int) /\ origin \in Seq(Int)
      BY SMT DEF Init
    <2> QED BY <2>1, <2>2 DEF Init, Service!Init, TypeInv, ThreadStates
  <1>2. CoverInv
    <2>1. Len(permvecs) = 0 * Unit /\ group = 0
      BY DemoAssumption DEF Init
    <2>2. \A g \in Groups : drawn[g] = NoAnswer
      BY DEF Init
    <2>3. pc = "loop"
      BY DEF Init
    <2> QED BY <2>1, <2>2, <2>3 DEF CoverInv
  <1>3. ThreadInv
    BY DemoAssumption DEF Init, Service!Init, ThreadInv, Answered
  <1>4. RowsInv
    BY DEF Init, RowsInv, Pushed, Answered
  <1> QED BY <1>1, <1>2, <1>3, <1>4 DEF IndexInv, AbortInv, Init

-----------------------------------------------------------------------------
(* The steps. *)

\* The vector stays, and with it what the answered threads have pushed of what.
LEMMA RowsKept ==
    ASSUME RowsInv, UNCHANGED vector,
           \A g \in Groups : thr'[g] = "push" => thr[g] = "push",
           \A g \in Groups, k \in 1 .. Unit : Pushed(g, k)' <=> Pushed(g, k),
           \A g \in Groups : thr[g] \in Answered =>
             drawn'[g] = drawn[g] /\ answer'[g] = answer[g]
    PROVE  RowsInv'
  <1> SUFFICES ASSUME ~torn PROVE RowsInv'
    BY DEF RowsInv, vector
  <1>1. ASSUME NEW r \in 1 .. Len(origin) PROVE Holds(r)'
    <2>1. PICK g \in Groups, k \in 1 .. Unit :
            Pushed(g, k) /\ origin[r] = RowOf(g, k) /\ Stands(g, k, indexes[r])
      BY DEF RowsInv, Holds
    <2>2. drawn'[g] = drawn[g] /\ answer'[g] = answer[g]
      BY <2>1 DEF Pushed
    <2>3. Stands(g, k, indexes[r])' /\ Pushed(g, k)' /\ origin'[r] = RowOf(g, k)
      BY <2>1, <2>2 DEF Stands, vector
    <2> QED BY <2>3 DEF Holds, RowOf
  <1>2. Len(origin') = Len(origin) /\ origin' = origin /\ indexes' = indexes
    BY DEF vector
  <1>3. \A g \in Groups, k \in 1 .. Unit :
          Pushed(g, k)' => \E r \in 1 .. Len(origin') : origin'[r] = RowOf(g, k)
    BY <1>2 DEF RowsInv
  <1>4. \A g, h \in Groups : thr'[g] = "push" /\ thr'[h] = "push" => g = h
    BY DEF RowsInv
  <1> QED BY <1>1, <1>2, <1>3, <1>4 DEF RowsInv, RowOf

\* The service and the requests stay, and the threads may fail or end.
LEMMA ThreadKept ==
    ASSUME TypeInv, ThreadInv, UNCHANGED <<drawn, answer, fetched>>,
           \A g \in Groups : \/ thr'[g] = thr[g] \/ thr'[g] \in {"none", "failed"}
                             \/ thr[g] = "callback" /\ thr'[g] = "done" /\ fetched[g] = <<>>
                             \/ thr[g] = "callback" /\ thr'[g] = "push" /\ fetched[g] # <<>>
    PROVE  ThreadInv'
  <1> SUFFICES ASSUME NEW g \in Groups
               PROVE  /\ answer[g] # NoAnswer =>
                           drawn[g] # NoAnswer
                           /\ \A k \in 1 .. Unit : answer[g][k] \in Service!Best(g, k)
                      /\ thr'[g] \in Answered => answer[g] # NoAnswer /\ Rest(g)'
                      /\ thr'[g] = "push" => fetched[g] # <<>>
                      /\ thr'[g] = "done" => fetched[g] = <<>>
    BY DEF ThreadInv
  <1>1. Rest(g)' = Rest(g)
    BY DEF Rest, Stands
  <1> QED BY <1>1 DEF ThreadInv, Answered

\* A step that leaves the threads, the service and the requests as they are.
LEMMA QuietIndex ==
    ASSUME IndexInv, pc' = "aborted" => pc = "aborted",
           UNCHANGED <<num_rows, permvecs, drawn, answer, threadVars>>,
           group' = group \/ (pc = "sent" /\ group' = group + 1),
           pc' \in {"loop", "compute", "sent"} =>
             \/ pc \in {"loop", "compute"} /\ pc' \in {"loop", "compute"} /\ group' = group
             \/ pc = "sent" /\ pc' = "sent" /\ group' = group
             \/ pc = "sent" /\ pc' = "loop" /\ group' = group + 1
    PROVE  IndexInv'
  <1>1. TypeInv'
    BY DEF IndexInv, TypeInv, threadVars, vector
  <1>2. CoverInv'
    <2>1. PICK n \in Nat :
            /\ Len(permvecs) = n * Unit
            /\ pc \in {"loop", "compute"} => n = group
            /\ pc = "sent" => n = group + 1
            /\ \A g \in Groups : drawn[g] # NoAnswer =>
                 g < n /\ \A k \in 1 .. Unit : permvecs[RowOf(g, k)] = drawn[g]
      BY DEF IndexInv, CoverInv
    <2>2. /\ Len(permvecs') = n * Unit
          /\ pc' \in {"loop", "compute"} => n = group'
          /\ pc' = "sent" => n = group' + 1
      BY <2>1
    <2>3. \A g \in Groups : drawn'[g] # NoAnswer =>
            g < n /\ \A k \in 1 .. Unit : permvecs'[RowOf(g, k)] = drawn'[g]
      BY <2>1
    <2> QED BY <2>2, <2>3 DEF CoverInv, RowOf
  <1>3. ThreadInv'
    BY ThreadKept DEF IndexInv, threadVars
  <1>4. RowsInv'
    BY RowsKept DEF IndexInv, threadVars, Pushed
  <1> QED BY <1>1, <1>2, <1>3, <1>4 DEF IndexInv, AbortInv, threadVars, vector

\* The main thread and the requests stay.
LEMMA CoverKept ==
    ASSUME CoverInv, UNCHANGED <<pc, group, permvecs, drawn>>
    PROVE  CoverInv'
  BY DEF CoverInv, RowOf

LEMMA SessionIndex == IndexInv /\ CreateSession => IndexInv'
  <1> SUFFICES ASSUME IndexInv, CreateSession PROVE IndexInv'
    OBVIOUS
  <1>0. /\ pc = "loop" /\ pc' = "compute" /\ thr' = [thr EXCEPT ![group] = "poll"]
        /\ UNCHANGED <<num_rows, group, permvecs, drawn, answer, fetched, vector>>
        /\ TypeInv /\ CoverInv /\ ThreadInv /\ RowsInv
    BY DEF CreateSession, loopVars, serviceVars, IndexInv
  <1>1. TypeInv'
    BY <1>0 DEF TypeInv, ThreadStates, vector
  <1>2. CoverInv'
    BY <1>0 DEF CoverInv, RowOf
  <1>3. group \in Groups => thr[group] \notin Answered
    <2>1. group \in Groups => drawn[group] = NoAnswer
      BY <1>0 DEF CoverInv, TypeInv
    <2> QED BY <1>0, <2>1 DEF ThreadInv
  <1>4. ASSUME NEW g \in Groups
        PROVE  /\ thr'[g] = thr[g] \/ (thr'[g] = "poll" /\ thr[g] \notin Answered)
               /\ thr'[g] \in Answered <=> thr[g] \in Answered
    BY <1>0, <1>3 DEF TypeInv, Answered
  <1>5. ThreadInv'
    <2>1. \A g \in Groups : Rest(g)' = Rest(g)
      BY <1>0 DEF Rest, Stands
    <2> QED BY <1>0, <1>4, <2>1 DEF ThreadInv
  <1>6. RowsInv'
    <2>1. \A g \in Groups, k \in 1 .. Unit : Pushed(g, k)' <=> Pushed(g, k)
      BY <1>0, <1>4 DEF Pushed
    <2>2. \A g \in Groups : thr'[g] = "push" => thr[g] = "push"
      BY <1>4
    <2> QED BY <1>0, <2>1, <2>2, RowsKept
  <1> QED BY <1>0, <1>1, <1>2, <1>5, <1>6 DEF IndexInv, AbortInv

LEMMA ComputeIndex == IndexInv /\ Compute => IndexInv'
  <1> SUFFICES ASSUME IndexInv, Compute PROVE IndexInv'
    OBVIOUS
  <1>0. /\ pc = "compute" /\ pc' = "sent"
        /\ UNCHANGED <<num_rows, group, answer, thr, fetched, vector>>
        /\ TypeInv /\ CoverInv /\ ThreadInv /\ RowsInv
        /\ Unit \in Nat \ {0}
    BY DemoAssumption DEF Compute, serviceVars, threadVars, IndexInv
  <1>1. PICK p \in PermVecs :
          /\ permvecs' = permvecs \o [k \in 1 .. Unit |-> p]
          /\ drawn' = IF cs_up THEN [drawn EXCEPT ![group] = p] ELSE drawn
    BY DEF Compute
  <1>a. PICK more : more = [k \in 1 .. Unit |-> p]
    OBVIOUS
  <1>2. more \in Seq(PermVecs) /\ Len(more) = Unit /\ \A k \in 1 .. Unit : more[k] = p
    BY <1>0, <1>a
  <1>3. /\ permvecs' \in Seq(PermVecs) /\ Len(permvecs') = Len(permvecs) + Unit
        /\ \A r \in 1 .. Len(permvecs) : permvecs'[r] = permvecs[r]
        /\ \A k \in 1 .. Unit : permvecs'[Len(permvecs) + k] = p
    <2>1. permvecs' = permvecs \o more /\ permvecs \in Seq(PermVecs)
      BY <1>0, <1>1, <1>a DEF TypeInv
    <2>2. /\ permvecs' \in Seq(PermVecs) /\ Len(permvecs') = Len(permvecs) + Unit
          /\ \A r \in 1 .. Len(permvecs) : permvecs'[r] = permvecs[r]
          /\ \A k \in 1 .. Unit : permvecs'[Len(permvecs) + k] = more[k]
      <3>1. /\ permvecs \o more \in Seq(PermVecs)
            /\ Len(permvecs \o more) = Len(permvecs) + Len(more)
            /\ \A r \in 1 .. Len(permvecs) : (permvecs \o more)[r] = permvecs[r]
            /\ \A k \in 1 .. Len(more) : (permvecs \o more)[Len(permvecs) + k] = more[k]
        <4>1. permvecs \in Seq(PermVecs) /\ more \in Seq(PermVecs)
          BY <1>2, <2>1
        <4> QED BY ONLY <4>1, ConcatIs
      <3> QED BY ONLY <1>2, <2>1, <3>1
    <2> QED BY <1>2, <2>2
  <1>4. \A g \in Groups : g # group => drawn'[g] = drawn[g]
    BY <1>0, <1>1 DEF TypeInv
  <1>5. drawn' \in [Groups -> PermVecs \cup {NoAnswer}]
    BY <1>0, <1>1 DEF TypeInv
  <1>6. TypeInv'
    BY <1>0, <1>3, <1>5 DEF TypeInv, vector
  <1>7. /\ group \in Nat /\ Len(permvecs) = group * Unit
        /\ \A g \in Groups : drawn[g] # NoAnswer =>
             g < group /\ \A k \in 1 .. Unit : permvecs[RowOf(g, k)] = drawn[g]
    BY <1>0 DEF CoverInv, TypeInv
  <1>8. CoverInv'
    <2>1. Len(permvecs') = (group + 1) * Unit
      BY <1>0, <1>3, <1>7
    <2>2. ASSUME NEW g \in Groups, drawn'[g] # NoAnswer
          PROVE  g < group + 1 /\ \A k \in 1 .. Unit : permvecs'[RowOf(g, k)] = drawn'[g]
      <3>1. CASE g = group
        <4>1. drawn'[g] = p
          BY <1>0, <1>1, <1>5, <1>7, <2>2, <3>1 DEF TypeInv
        <4>2. \A k \in 1 .. Unit : RowOf(g, k) = Len(permvecs) + k
          BY <1>7, <3>1 DEF RowOf
        <4> QED BY <1>3, <1>7, <3>1, <4>1, <4>2
      <3>2. CASE g # group
        <4>1. g < group /\ drawn'[g] = drawn[g] /\ g \in Nat
          BY <1>4, <1>7, <2>2, <3>2, GroupsNat
        <4>2. \A k \in 1 .. Unit : permvecs[RowOf(g, k)] = drawn[g]
          BY <1>7, <2>2, <4>1
        <4>3. \A k \in 1 .. Unit : RowOf(g, k) \in 1 .. group * Unit
          BY <1>7, <4>1, RowsBefore
        <4> QED BY <1>3, <1>7, <4>1, <4>2, <4>3
      <3> QED BY <3>1, <3>2
    <2>3. group + 1 \in Nat
      BY <1>7
    <2> QED BY <1>0, <2>1, <2>2, <2>3 DEF CoverInv, RowOf
  <1>9. group \in Groups => drawn[group] = NoAnswer
    BY <1>7
  <1>10. ASSUME NEW g \in Groups, answer[g] # NoAnswer PROVE drawn'[g] = drawn[g]
    BY <1>0, <1>4, <1>9, <1>10 DEF ThreadInv
  <1>11. ThreadInv'
    <2>1. ASSUME NEW g \in Groups, answer[g] # NoAnswer PROVE Rest(g)' = Rest(g)
      BY <1>0, <1>10, <2>1 DEF Rest, Stands
    <2> QED BY <1>0, <1>10, <2>1 DEF ThreadInv
  <1>12. RowsInv'
    <2>1. \A g \in Groups : thr[g] \in Answered => drawn'[g] = drawn[g]
      BY <1>0, <1>10 DEF ThreadInv
    <2> QED BY <1>0, <2>1, RowsKept DEF Pushed
  <1> QED BY <1>0, <1>6, <1>8, <1>11, <1>12 DEF IndexInv, AbortInv

LEMMA ServeIndex ==
    ASSUME NEW g \in Groups, IndexInv, Serve(g)
    PROVE  IndexInv'
  <1>0. /\ drawn[g] # NoAnswer
        /\ UNCHANGED <<pc, num_rows, group, permvecs, drawn, thr, fetched, vector>>
        /\ TypeInv /\ CoverInv /\ ThreadInv /\ RowsInv
    BY DEF Serve, mainVars, loopVars, threadVars, IndexInv
  <1>1. PICK classes \in [1 .. Unit -> Classes] :
          /\ answer[g] = NoAnswer
          /\ \A k \in 1 .. Unit : classes[k] \in Service!Best(g, k)
          /\ answer' = [answer EXCEPT ![g] = classes]
    BY DEF Serve, Service!Answer, Service!Open
  <1>2. TypeInv'
    BY <1>0, <1>1 DEF TypeInv, vector
  <1>3. CoverInv'
    BY <1>0, CoverKept
  <1>4. /\ answer'[g] = classes
        /\ \A h \in Groups : h # g => answer'[h] = answer[h]
        /\ thr[g] \notin Answered
    BY <1>0, <1>1 DEF TypeInv, ThreadInv
  <1>5. ThreadInv'
    <2>1. ASSUME NEW h \in Groups, h # g PROVE Rest(h)' = Rest(h)
      BY <1>0, <1>4, <2>1 DEF Rest, Stands
    <2>2. ASSUME NEW h \in Groups, h # g
          PROVE  /\ answer'[h] # NoAnswer =>
                      drawn'[h] # NoAnswer
                      /\ \A k \in 1 .. Unit : answer'[h][k] \in Service!Best(h, k)
                 /\ thr'[h] \in Answered => answer'[h] # NoAnswer /\ Rest(h)'
                 /\ thr'[h] = "push" => fetched'[h] # <<>>
                 /\ thr'[h] = "done" => fetched'[h] = <<>>
      BY <1>0, <1>4, <2>1, <2>2 DEF ThreadInv
    <2>3. \A k \in 1 .. Unit : answer'[g][k] \in Service!Best(g, k)
      BY <1>1, <1>4
    <2>4. thr'[g] \notin Answered
      BY <1>0, <1>4
    <2> QED BY <1>0, <2>2, <2>3, <2>4 DEF ThreadInv, Answered
  <1>6. RowsInv'
    <2>1. \A h \in Groups : thr[h] \in Answered => answer'[h] = answer[h]
      BY <1>4
    <2> QED BY <1>0, <2>1, RowsKept DEF Pushed
  <1> QED BY <1>0, <1>2, <1>3, <1>5, <1>6 DEF IndexInv, AbortInv, vector

LEMMA GetResultsIndex ==
    ASSUME NEW g \in Groups, IndexInv, GetResults(g)
    PROVE  IndexInv'
  <1> DEFINE places == [k \in 1 .. Unit |-> CHOOSE j \in Classes : drawn[g][j] = answer[g][k]]
  <1>0. /\ thr[g] = "poll" /\ thr' = [thr EXCEPT ![g] = "callback"]
        /\ answer[g] # NoAnswer
        /\ fetched' = [fetched EXCEPT ![g] = places]
        /\ UNCHANGED <<pc, num_rows, group, permvecs, drawn, answer, vector>>
        /\ TypeInv /\ CoverInv /\ ThreadInv /\ RowsInv
        /\ Unit \in Nat \ {0}
    BY DemoAssumption
    DEF GetResults, mainVars, loopVars, serviceVars, IndexInv
  <1>1. drawn[g] # NoAnswer /\ drawn[g] \in PermVecs /\ answer[g] \in [1 .. Unit -> Classes]
    BY <1>0 DEF ThreadInv, TypeInv
  <1>2. /\ places \in Seq(Classes) /\ Len(places) = Unit
        /\ \A k \in 1 .. Unit : Stands(g, k, places[k])
    <2>1. ASSUME NEW k \in 1 .. Unit
          PROVE  /\ (CHOOSE j \in Classes : drawn[g][j] = answer[g][k]) \in Classes
                 /\ drawn[g][CHOOSE j \in Classes : drawn[g][j] = answer[g][k]] = answer[g][k]
      BY <1>1, PlaceOf
    <2> QED BY <1>0, <2>1 DEF Stands
  <1> HIDE DEF places
  <1>3. TypeInv'
    BY <1>0, <1>2 DEF TypeInv, ThreadStates, vector
  <1>4. CoverInv'
    BY <1>0, CoverKept
  <1>5. fetched'[g] = places /\ thr'[g] = "callback"
        /\ \A h \in Groups : h # g => fetched'[h] = fetched[h] /\ thr'[h] = thr[h]
    BY <1>0 DEF TypeInv
  <1>6. ThreadInv'
    <2>1. ASSUME NEW h \in Groups, h # g
          PROVE  /\ answer'[h] # NoAnswer =>
                      drawn'[h] # NoAnswer
                      /\ \A k \in 1 .. Unit : answer'[h][k] \in Service!Best(h, k)
                 /\ thr'[h] \in Answered => answer'[h] # NoAnswer /\ Rest(h)'
                 /\ thr'[h] = "push" => fetched'[h] # <<>>
                 /\ thr'[h] = "done" => fetched'[h] = <<>>
      <3>1. Rest(h)' = Rest(h)
        BY <1>0, <1>5, <2>1 DEF Rest, Stands
      <3> QED BY <1>0, <1>5, <2>1, <3>1 DEF ThreadInv
    <2>2. Rest(g)'
      <3>a. Len(fetched'[g]) = Unit
        BY <1>2, <1>5
      <3>b. Len(fetched'[g]) <= Unit
        BY ONLY <3>a, DemoAssumption
      <3> SUFFICES ASSUME NEW j \in 1 .. Len(fetched'[g])
                   PROVE  /\ fetched'[g][j] \in Classes
                          /\ drawn'[g][fetched'[g][j]] =
                               answer'[g][Unit - Len(fetched'[g]) + j]
        BY <3>b DEF Rest, Stands
      <3>1. j \in 1 .. Unit /\ Unit - Len(fetched'[g]) + j = j
        BY <1>0, <3>a
      <3>2. places[j] \in Classes /\ drawn[g][places[j]] = answer[g][j]
        BY <1>2, <3>1 DEF Stands
      <3> QED BY <1>0, <1>5, <3>1, <3>2
    <2>3. \A k \in 1 .. Unit : answer'[g][k] \in Service!Best(g, k)
      BY <1>0 DEF ThreadInv
    <2> QED BY <1>0, <1>1, <1>5, <2>1, <2>2, <2>3 DEF ThreadInv
  <1>7. RowsInv'
    <2>1. ASSUME NEW h \in Groups, NEW k \in 1 .. Unit
          PROVE  Pushed(h, k)' <=> Pushed(h, k)
      <3>1. CASE h = g
        <4>1. Len(fetched'[h]) = Unit /\ thr[h] \notin Answered
          BY <1>0, <1>2, <1>5, <3>1 DEF Answered
        <4> QED BY <1>0, <4>1 DEF Pushed
      <3>2. CASE h # g
        BY <1>5, <3>2 DEF Pushed
      <3> QED BY <3>1, <3>2
    <2>2. \A h \in Groups : thr'[h] = "push" => thr[h] = "push"
      BY <1>5
    <2> QED BY <1>0, <2>1, <2>2, RowsKept
  <1> QED BY <1>0, <1>3, <1>4, <1>6, <1>7 DEF IndexInv, AbortInv, vector

\* The steps of a thread that moves on without a push.
LEMMA ThreadMovesIndex ==
    ASSUME NEW g \in Groups, IndexInv, GetFails(g) \/ CallbackReturns(g)
    PROVE  IndexInv'
  <1>0. /\ \/ thr[g] = "poll" /\ thr' = [thr EXCEPT ![g] = "failed"]
           \/ /\ thr[g] = "callback" /\ thr' = [thr EXCEPT ![g] = "done"]
              /\ fetched[g] = <<>>
        /\ UNCHANGED <<pc, num_rows, group, permvecs, drawn, answer, fetched, vector>>
        /\ TypeInv /\ CoverInv /\ ThreadInv /\ RowsInv
    BY DEF GetFails, CallbackReturns, mainVars, loopVars, serviceVars, IndexInv
  <1>1. TypeInv'
    BY <1>0 DEF TypeInv, ThreadStates, vector
  <1>2. CoverInv'
    BY <1>0, CoverKept
  <1>3. \A h \in Groups : thr'[h] \in Answered <=> thr[h] \in Answered
    BY <1>0 DEF TypeInv, Answered
  <1>4. \A h \in Groups : \/ thr'[h] = thr[h] \/ thr'[h] \in {"none", "failed"}
                          \/ thr[h] = "callback" /\ thr'[h] = "done" /\ fetched[h] = <<>>
    BY <1>0 DEF TypeInv
  <1>5. ThreadInv'
    BY <1>0, <1>4, ThreadKept
  <1>6. RowsInv'
    <2>1. \A h \in Groups : thr'[h] = "push" => thr[h] = "push"
      BY <1>4
    <2> QED BY <1>0, <1>3, <2>1, RowsKept DEF Pushed
  <1> QED BY <1>0, <1>1, <1>2, <1>5, <1>6 DEF IndexInv, AbortInv, vector

LEMMA PushBeginIndex ==
    ASSUME NEW g \in Groups, IndexInv, PushBegin(g)
    PROVE  IndexInv'
  <1>0. /\ thr[g] = "callback" /\ fetched[g] # <<>>
        /\ thr' = [thr EXCEPT ![g] = "push"]
        /\ torn' = (torn \/ \E h \in Groups : thr[h] = "push")
        /\ UNCHANGED <<pc, num_rows, group, permvecs, drawn, answer, fetched, indexes, origin>>
        /\ TypeInv /\ CoverInv /\ ThreadInv /\ RowsInv
    BY DEF PushBegin, mainVars, loopVars, serviceVars, IndexInv
  <1>1. TypeInv'
    BY <1>0 DEF TypeInv, ThreadStates
  <1>2. CoverInv'
    BY <1>0, CoverKept
  <1>3. \A h \in Groups : thr'[h] \in Answered <=> thr[h] \in Answered
    BY <1>0 DEF TypeInv, Answered
  <1>4. \A h \in Groups : h # g => thr'[h] = thr[h]
    BY <1>0 DEF TypeInv
  <1>5. ThreadInv'
    <2>1. thr'[g] = "push"
      BY <1>0 DEF TypeInv
    <2> QED BY <1>0, <1>4, <2>1, ThreadKept
  <1>6. RowsInv'
    <2> SUFFICES ASSUME ~torn' PROVE RowsInv'
      BY DEF RowsInv
    <2>1. ~torn /\ \A h \in Groups : thr[h] # "push"
      BY <1>0
    <2>2. \A h, i \in Groups : thr'[h] = "push" /\ thr'[i] = "push" => h = i
      BY <1>4, <2>1
    <2>3. \A h \in Groups, k \in 1 .. Unit : Pushed(h, k)' <=> Pushed(h, k)
      BY <1>0, <1>3 DEF Pushed
    <2>4. \A r : Holds(r)' <=> Holds(r)
      BY <1>0, <2>3 DEF Holds, Stands, RowOf
    <2> QED BY <1>0, <2>1, <2>2, <2>3, <2>4 DEF RowsInv, RowOf
  <1>7. AbortInv'
    BY <1>0 DEF IndexInv, AbortInv
  <1> QED BY <1>1, <1>2, <1>5, <1>6, <1>7 DEF IndexInv

\* A push that meets no other appends the next index of its thread.
LEMMA PushAppends ==
    ASSUME NEW g \in Groups, IndexInv, PushEnd(g), ~torn
    PROVE  RowsInv'
  <1>a. PICK n, item, next, row :
          /\ n = Len(origin)
          /\ item = Head(fetched[g])
          /\ next = Unit - Len(fetched[g]) + 1
          /\ row = RowOf(g, next)
    OBVIOUS
  <1>0. /\ thr[g] = "push" /\ thr' = [thr EXCEPT ![g] = "callback"]
        /\ indexes' = Append(indexes, item) /\ origin' = Append(origin, row)
        /\ fetched' = [fetched EXCEPT ![g] = Tail(fetched[g])]
        /\ UNCHANGED <<drawn, answer, torn>>
        /\ TypeInv /\ ThreadInv /\ RowsInv
        /\ Unit \in Nat \ {0}
    BY <1>a, DemoAssumption DEF PushEnd, mainVars, loopVars, serviceVars, IndexInv
  <1>1. /\ fetched[g] \in Seq(Classes) /\ fetched[g] # <<>>
        /\ Len(fetched[g]) \in 1 .. Unit /\ Rest(g)
        /\ thr'[g] = "callback" /\ fetched'[g] = Tail(fetched[g])
        /\ \A h \in Groups : h # g => thr'[h] = thr[h] /\ fetched'[h] = fetched[h]
    BY <1>0 DEF ThreadInv, TypeInv, Answered, Rest
  <1>2. /\ item = fetched[g][1] /\ item \in Classes /\ Len(Tail(fetched[g])) = Len(fetched[g]) - 1
        /\ next \in 1 .. Unit
    BY <1>a, <1>0, <1>1
  <1>3. Stands(g, next, item)
    BY <1>a, <1>1, <1>2 DEF Rest
  <1>4. g \in Nat /\ row \in Nat
    BY <1>a, <1>2, GroupsNat, RowIsIn
  <1>5. ASSUME NEW h \in Groups, NEW k \in 1 .. Unit
        PROVE  Pushed(h, k)' <=> (Pushed(h, k) \/ (h = g /\ k = next))
    <2>1. CASE h = g
      <3>1. Len(fetched'[h]) = Len(fetched[h]) - 1 /\ {thr[h], thr'[h]} \subseteq Answered
        BY <1>0, <1>1, <1>2, <2>1 DEF Answered
      <3>2. k <= Unit - (Len(fetched[g]) - 1) <=> k <= Unit - Len(fetched[g]) \/ k = next
        <4>1. Len(fetched[g]) \in Int /\ Unit \in Int /\ k \in Int
          BY <1>0, <1>1
        <4> QED BY <1>a, <4>1
      <3> QED BY <2>1, <3>1, <3>2 DEF Pushed
    <2>2. CASE h # g
      BY <1>1, <2>2 DEF Pushed
    <2> QED BY <2>1, <2>2
  <1>6. ~Pushed(g, next)
    BY <1>a, <1>0, <1>1 DEF Pushed
  <1>7. /\ Len(indexes) = n /\ n \in Nat /\ Len(origin') = n + 1 /\ Len(indexes') = n + 1
        /\ \A r \in 1 .. n : origin'[r] = origin[r] /\ indexes'[r] = indexes[r]
        /\ origin'[n + 1] = row /\ indexes'[n + 1] = item
    BY <1>a, <1>0, <1>2, <1>4 DEF RowsInv, TypeInv
  <1>8. \A h, i \in Groups : thr'[h] = "push" /\ thr'[i] = "push" => h = i
    BY <1>0, <1>1 DEF RowsInv
  <1>9. ASSUME NEW r \in 1 .. n PROVE Holds(r)' /\ origin[r] # row
    <2>1. PICK h \in Groups, k \in 1 .. Unit :
            Pushed(h, k) /\ origin[r] = RowOf(h, k) /\ Stands(h, k, indexes[r])
      BY <1>a, <1>0 DEF RowsInv, Holds
    <2>2. Holds(r)'
      <3>1. Pushed(h, k)' /\ origin'[r] = RowOf(h, k) /\ Stands(h, k, indexes[r])'
        BY <1>0, <1>5, <1>7, <2>1 DEF Stands
      <3>2. indexes'[r] = indexes[r]
        BY <1>7
      <3> QED BY <3>1, <3>2 DEF Holds, RowOf, Stands
    <2>3. origin[r] = row => FALSE
      <3> SUFFICES ASSUME RowOf(h, k) = RowOf(g, next) PROVE FALSE
        BY <1>a, <2>1
      <3>1. h = g /\ k - 1 = next - 1
        BY <1>2, <1>4, GroupsNat, RowIsIn
      <3>2. k = next
        BY <1>2, <3>1
      <3> QED BY <1>6, <2>1, <3>1, <3>2
    <2> QED BY <2>2, <2>3
  <1>10. Holds(n + 1)'
    <2>1. Pushed(g, next)'
      BY <1>2, <1>5
    <2>2. Stands(g, next, item)' /\ origin'[n + 1] = RowOf(g, next)
      BY <1>a, <1>0, <1>3, <1>7 DEF Stands
    <2> QED BY <1>2, <1>7, <2>1, <2>2 DEF Holds, RowOf, Stands
  <1>11. \A r \in 1 .. n + 1 : Holds(r)'
    BY <1>7, <1>9, <1>10
  <1>12. \A r, s \in 1 .. n + 1 : origin'[r] = origin'[s] => r = s
    <2>1. \A r, s \in 1 .. n : origin[r] = origin[s] => r = s
      BY <1>a, <1>0 DEF RowsInv
    <2> QED BY <1>7, <1>9, <2>1
  <1>13. ASSUME NEW h \in Groups, NEW k \in 1 .. Unit, Pushed(h, k)'
         PROVE  \E r \in 1 .. n + 1 : origin'[r] = RowOf(h, k)
    <2>1. CASE Pushed(h, k)
      <3>1. PICK r \in 1 .. n : origin[r] = RowOf(h, k)
        BY <1>a, <1>0, <2>1 DEF RowsInv
      <3> QED BY <1>7, <3>1
    <2>2. CASE h = g /\ k = next
      BY <1>a, <1>7, <2>2
    <2> QED BY <1>5, <1>13, <2>1, <2>2
  <1> QED BY <1>7, <1>8, <1>11, <1>12, <1>13 DEF RowsInv, RowOf

LEMMA PushEndIndex ==
    ASSUME NEW g \in Groups, IndexInv, PushEnd(g)
    PROVE  IndexInv'
  <1> DEFINE item == Head(fetched[g])
             row == RowOf(g, Unit - Len(fetched[g]) + 1)
  <1>0. /\ thr[g] = "push" /\ thr' = [thr EXCEPT ![g] = "callback"]
        /\ \/ indexes' = Append(indexes, item) /\ origin' = Append(origin, row)
           \/ /\ indexes' \in TornVectors \cup {indexes, Append(indexes, item)}
              /\ UNCHANGED origin
        /\ fetched' = [fetched EXCEPT ![g] = Tail(fetched[g])]
        /\ UNCHANGED <<pc, num_rows, group, permvecs, drawn, answer, torn>>
        /\ TypeInv /\ CoverInv /\ ThreadInv /\ RowsInv
        /\ Unit \in Nat \ {0}
    BY DemoAssumption DEF PushEnd, mainVars, loopVars, serviceVars, IndexInv
  <1>1. /\ fetched[g] \in Seq(Classes) /\ fetched[g] # <<>>
        /\ Len(fetched[g]) \in 1 .. Unit /\ Rest(g) /\ answer[g] # NoAnswer
        /\ thr'[g] = "callback" /\ fetched'[g] = Tail(fetched[g])
        /\ \A h \in Groups : h # g => thr'[h] = thr[h] /\ fetched'[h] = fetched[h]
    BY <1>0 DEF ThreadInv, TypeInv, Answered, Rest
  <1>2. /\ item \in Int /\ row \in Int
        /\ Tail(fetched[g]) \in Seq(Classes)
        /\ Len(Tail(fetched[g])) = Len(fetched[g]) - 1
        /\ \A j \in 1 .. Len(fetched[g]) - 1 : Tail(fetched[g])[j] = fetched[g][j + 1]
    <2>1. item \in Int
      <3>1. item \in Classes
        <4>1. item = fetched[g][1] /\ 1 \in 1 .. Len(fetched[g])
          BY <1>1
        <4> HIDE DEF item
        <4> QED BY <1>1, <4>1
      <3>2. item \in Nat
        BY <3>1, ClassesNat, Zenon
      <3> QED BY <3>2
    <2>2. row \in Int
      <3>1. Unit - Len(fetched[g]) + 1 \in 1 .. Unit /\ g \in Nat
        BY <1>0, <1>1, GroupsNat
      <3> QED BY <3>1, RowIsIn
    <2> QED BY <1>1, <2>1, <2>2
  <1> HIDE DEF item, row
  <1>3. TypeInv'
    <2>1. indexes' \in Seq(Int) /\ origin' \in Seq(Int)
      <3>1. Append(indexes, item) \in Seq(Int) /\ Append(origin, row) \in Seq(Int)
        BY <1>0, <1>2 DEF TypeInv
      <3> QED BY <1>0, <3>1, DemoAssumption DEF TypeInv
    <2> QED BY <1>0, <1>2, <2>1 DEF TypeInv, ThreadStates
  <1>4. CoverInv'
    BY <1>0, CoverKept
  <1>5. ThreadInv'
    <2>1. ASSUME NEW h \in Groups, h # g
          PROVE  /\ answer'[h] # NoAnswer =>
                      drawn'[h] # NoAnswer
                      /\ \A k \in 1 .. Unit : answer'[h][k] \in Service!Best(h, k)
                 /\ thr'[h] \in Answered => answer'[h] # NoAnswer /\ Rest(h)'
                 /\ thr'[h] = "push" => fetched'[h] # <<>>
                 /\ thr'[h] = "done" => fetched'[h] = <<>>
      <3>1. Rest(h)' = Rest(h)
        BY <1>0, <1>1, <2>1 DEF Rest, Stands
      <3> QED BY <1>0, <1>1, <2>1, <3>1 DEF ThreadInv
    <2>2. Rest(g)'
      <3>1. PICK len : len = Len(fetched[g])
        OBVIOUS
      <3>2. /\ len \in 1 .. Unit /\ Unit \in Nat
            /\ Len(fetched'[g]) = len - 1
            /\ \A j \in 1 .. len - 1 : fetched'[g][j] = fetched[g][j + 1]
        BY ONLY <1>0, <1>1, <1>2, <3>1
      <3>3. Len(fetched'[g]) <= Unit
        BY ONLY <3>2
      <3> SUFFICES ASSUME NEW j \in 1 .. Len(fetched'[g])
                   PROVE  /\ fetched'[g][j] \in Classes
                          /\ drawn'[g][fetched'[g][j]] =
                               answer'[g][Unit - Len(fetched'[g]) + j]
        BY <3>3 DEF Rest, Stands
      <3>4. /\ j + 1 \in 1 .. len /\ j \in 1 .. len - 1
            /\ Unit - Len(fetched'[g]) + j = Unit - len + (j + 1)
        BY ONLY <3>2
      <3>5. Stands(g, Unit - len + (j + 1), fetched[g][j + 1])
        BY <1>1, <3>1, <3>4 DEF Rest
      <3>6. fetched'[g][j] = fetched[g][j + 1]
        BY ONLY <3>2, <3>4
      <3> QED BY ONLY <1>0, <3>4, <3>5, <3>6 DEF Stands
    <2>3. /\ drawn'[g] # NoAnswer
          /\ \A k \in 1 .. Unit : answer'[g][k] \in Service!Best(g, k)
      BY <1>0, <1>1 DEF ThreadInv
    <2> QED BY <1>0, <1>1, <2>1, <2>2, <2>3 DEF ThreadInv
  <1>6. RowsInv'
    <2>1. CASE torn
      BY <1>0, <2>1 DEF RowsInv
    <2>2. CASE ~torn
      BY <2>2, PushAppends
    <2> QED BY <2>1, <2>2
  <1>7. AbortInv'
    BY <1>0 DEF IndexInv, AbortInv
  <1> QED BY <1>3, <1>4, <1>5, <1>6, <1>7 DEF IndexInv

LEMMA AbortIndex == IndexInv /\ RaceAborts => IndexInv'
  <1> SUFFICES ASSUME IndexInv, RaceAborts PROVE IndexInv'
    OBVIOUS
  <1>0. /\ torn /\ pc' = "aborted" /\ thr' = [g \in Groups |-> "none"]
        /\ UNCHANGED <<num_rows, group, permvecs, drawn, answer, fetched, vector>>
        /\ TypeInv /\ CoverInv /\ ThreadInv
    BY DEF RaceAborts, loopVars, serviceVars, IndexInv
  <1>1. TypeInv'
    BY <1>0 DEF TypeInv, ThreadStates, vector
  <1>2. CoverInv'
    BY <1>0 DEF CoverInv, RowOf
  <1>3. ThreadInv'
    BY <1>0, ThreadKept
  <1>4. RowsInv' /\ AbortInv'
    BY <1>0 DEF RowsInv, AbortInv, vector
  <1> QED BY <1>1, <1>2, <1>3, <1>4 DEF IndexInv

LEMMA NextIndex == IndexInv /\ [Next]_demoVars => IndexInv'
  <1> SUFFICES ASSUME IndexInv, [Next]_demoVars PROVE IndexInv'
    OBVIOUS
  <1> USE DEF mainVars, loopVars, serviceVars
  <1>1. CASE CreateSession
    BY <1>1, SessionIndex
  <1>2. CASE Compute
    BY <1>2, ComputeIndex
  <1>3. CASE ComputeReturns
    BY <1>3, QuietIndex DEF ComputeReturns
  <1>4. CASE CallFails \/ WaitThrows
    BY <1>4, QuietIndex DEF CallFails, WaitThrows, Throw
  <1>5. CASE Wait
    BY <1>5, QuietIndex DEF Wait
  <1>6. CASE PrintNext \/ PrintStray
    BY <1>6, QuietIndex DEF PrintNext, PrintStray
  <1>7. CASE Disconnect \/ JoinThreads \/ DestroyArgs
    BY <1>7, QuietIndex DEF Disconnect, JoinThreads, DestroyArgs
  <1>8. ASSUME NEW g \in Groups, Serve(g) \/ ThreadStep(g)
        PROVE  IndexInv'
    BY <1>8, ServeIndex, GetResultsIndex, ThreadMovesIndex, PushBeginIndex, PushEndIndex
    DEF ThreadStep
  <1>9. CASE RaceAborts
    BY <1>9, AbortIndex
  <1>10. CASE ServerEnds
    <2>1. UNCHANGED answer
      BY <1>10 DEF ServerEnds, Service!Lose
    <2>2. UNCHANGED <<mainVars, threadVars>>
      BY <1>10 DEF ServerEnds
    <2> QED BY <2>1, <2>2, QuietIndex
  <1>11. CASE AuthorityCut
    BY <1>11, QuietIndex DEF AuthorityCut
  <1>12. CASE UNCHANGED demoVars
    BY <1>12, QuietIndex DEF demoVars
  <1> QED
    BY <1>1, <1>2, <1>3, <1>4, <1>5, <1>6, <1>7, <1>8, <1>9, <1>10, <1>11, <1>12
    DEF Next, MainStep

-----------------------------------------------------------------------------
(* Who still runs when the main thread reads the vector, or destroys it. *)

LifeInv ==
    /\ thr \in [Groups -> ThreadStates]
    /\ \A g \in Groups : thr[g] # "none" => g < NumGroups
    /\ pc = "results" => \A g \in Groups : thr[g] = IF g < NumGroups THEN "done" ELSE "none"
    /\ pc \in {"args", "done"} => \A g \in Groups : thr[g] \in {"none", "failed", "done"}
    /\ pc = "aborted" => \A g \in Groups : thr[g] = "none"
    /\ pc \notin {"done", "aborted"} => args

LEMMA NextLife == LifeInv /\ [Next]_demoVars => LifeInv'
  <1> SUFFICES ASSUME LifeInv, [Next]_demoVars PROVE LifeInv'
    OBVIOUS
  <1> USE DEF LifeInv, ThreadStates
  <1>0. num_rows' = num_rows /\ NumGroups' = NumGroups
    BY DEF Next, MainStep, CreateSession, Compute, ComputeReturns, CallFails, Wait,
           WaitThrows, Throw, PrintNext, PrintStray, Disconnect, JoinThreads, DestroyArgs,
           ThreadStep, Serve, GetResults, GetFails, PushBegin, PushEnd, CallbackReturns,
           RaceAborts, ServerEnds, AuthorityCut, demoVars, mainVars, loopVars, NumGroups
  <1>1. CASE CreateSession
    BY <1>0, <1>1 DEF CreateSession
  <1>2. CASE Compute \/ ComputeReturns
    BY <1>0, <1>2 DEF Compute, ComputeReturns, threadVars
  <1>3. CASE CallFails \/ WaitThrows
    BY <1>0, <1>3 DEF CallFails, WaitThrows, Throw, threadVars
  <1>4. CASE Wait
    <2>1. NumGroups \in Int
      BY <1>4, DemoAssumption DEF Wait, NumGroups
    <2>2. ASSUME NEW g \in Groups
          PROVE  thr[g] = IF g < NumGroups THEN "done" ELSE "none"
      <3>1. CASE g < NumGroups
        <4>1. g \in 0 .. NumGroups - 1
          BY <2>1, <3>1, GroupsNat
        <4> QED BY <1>4, <3>1, <4>1 DEF Wait
      <3>2. CASE ~(g < NumGroups)
        BY <3>2
      <3> QED BY <3>1, <3>2
    <2> QED BY <1>0, <1>4, <2>2 DEF Wait, threadVars
  <1>5. CASE PrintNext \/ PrintStray
    BY <1>0, <1>5 DEF PrintNext, PrintStray, threadVars
  <1>6. CASE Disconnect \/ JoinThreads \/ DestroyArgs
    BY <1>0, <1>6 DEF Disconnect, JoinThreads, DestroyArgs, threadVars
  <1>7. ASSUME NEW g \in Groups, ThreadStep(g)
        PROVE  LifeInv'
    <2>1. /\ thr[g] \in {"poll", "callback", "push"}
          /\ \E t \in {"callback", "push", "done", "failed"} : thr' = [thr EXCEPT ![g] = t]
          /\ UNCHANGED <<pc, args>>
      BY <1>7 DEF ThreadStep, GetResults, GetFails, PushBegin, PushEnd, CallbackReturns,
                  mainVars
    <2> QED BY <1>0, <2>1
  <1>8. ASSUME NEW g \in Groups, Serve(g)
        PROVE  LifeInv'
    BY <1>0, <1>8 DEF Serve, mainVars, threadVars
  <1>9. CASE RaceAborts
    BY <1>0, <1>9 DEF RaceAborts
  <1>10. CASE ServerEnds \/ AuthorityCut
    BY <1>0, <1>10 DEF ServerEnds, AuthorityCut, mainVars, threadVars
  <1>11. CASE UNCHANGED demoVars
    BY <1>0, <1>11 DEF demoVars, mainVars, threadVars
  <1> QED
    BY <1>1, <1>2, <1>3, <1>4, <1>5, <1>6, <1>7, <1>8, <1>9, <1>10, <1>11
    DEF Next, MainStep

LEMMA LifeAlways == Spec => []LifeInv
  <1>1. Init => LifeInv
    BY DEF Init, LifeInv, ThreadStates
  <1> QED BY <1>1, NextLife, PTL DEF Spec

\* The object the callbacks push to outlives every thread that may run one,
\* whether exec is left at its end or by an exception.
THEOREM CallbackHasArgsCorrect == Spec => []CallbackHasArgs
  <1>1. LifeInv => CallbackHasArgs
    BY DEF LifeInv, CallbackHasArgs
  <1> QED BY <1>1, LifeAlways, PTL

\* No callback writes to the vector while the main thread reads it.
THEOREM StableWhilePrintingCorrect == Spec => StableWhilePrinting
  <1>1. LifeInv /\ [Next]_demoVars => [pc = "results" => indexes' = indexes]_demoVars
    <2> SUFFICES ASSUME LifeInv, Next, pc = "results"
                 PROVE  indexes' = indexes
      BY DEF demoVars
    <2>1. \A g \in Groups : thr[g] \in {"none", "done"}
      BY DEF LifeInv
    <2>2. UNCHANGED indexes
      BY <2>1
      DEF Next, MainStep, CreateSession, Compute, ComputeReturns, CallFails, Wait,
          WaitThrows, Throw, PrintNext, PrintStray, Disconnect, JoinThreads, DestroyArgs,
          ThreadStep, Serve, GetResults, GetFails, PushBegin, PushEnd, CallbackReturns,
          RaceAborts, ServerEnds, AuthorityCut, Ended, demoVars, threadVars, vector
    <2> QED BY <2>2
  <1> QED BY <1>1, LifeAlways, PTL DEF Spec, StableWhilePrinting

-----------------------------------------------------------------------------
(* Every row once, in whatever order.                                        *)

\* An index of the vector, taken through the permutation of its row, is best.
LEMMA HeldIsBest ==
    ASSUME TypeInv, CoverInv, ThreadInv, NEW r, Holds(r)
    PROVE  /\ origin[r] \in DOMAIN permvecs /\ indexes[r] \in Classes
           /\ permvecs[origin[r]][indexes[r]] \in BestOfRow(origin[r])
  <1>1. PICK g \in Groups, k \in 1 .. Unit :
          Pushed(g, k) /\ origin[r] = RowOf(g, k) /\ Stands(g, k, indexes[r])
    BY DEF Holds
  <1>2. drawn[g] # NoAnswer /\ answer[g][k] \in Service!Best(g, k)
    BY <1>1 DEF Pushed, ThreadInv
  <1>3. PICK n \in Nat : Len(permvecs) = n * Unit /\ g < n /\ permvecs[RowOf(g, k)] = drawn[g]
    BY <1>2 DEF CoverInv
  <1>4. g \in Nat /\ k - 1 + 1 = k
    BY GroupsNat
  <1>5. RowOf(g, k) \in 1 .. n * Unit
    BY <1>3, <1>4, RowsBefore
  <1>6. BestOfRow(RowOf(g, k)) = Service!Best(g, k)
    <2>1. (RowOf(g, k) - 1) \div Unit = g /\ (RowOf(g, k) - 1) % Unit = k - 1
      BY <1>4, RowIsIn
    <2> QED BY <1>4, <2>1 DEF BestOfRow
  <1>7. origin[r] \in DOMAIN permvecs
    BY <1>1, <1>3, <1>5 DEF TypeInv
  <1>8. permvecs[origin[r]][indexes[r]] = answer[g][k]
    BY <1>1, <1>3 DEF Stands
  <1> QED BY <1>1, <1>2, <1>6, <1>7, <1>8 DEF Stands

\* The place of a row.
LEMMA RowIsOf ==
    ASSUME NEW n \in Nat, NEW x \in 1 .. n * Unit
    PROVE  \E g \in 0 .. n - 1, k \in 1 .. Unit : x = RowOf(g, k)
  <1>0. Unit \in Nat \ {0} /\ x - 1 \in Nat
    BY DemoAssumption
  <1>1. PICK q, m : q = (x - 1) \div Unit /\ m = (x - 1) % Unit
    OBVIOUS
  <1>2. q \in Int /\ m \in 0 .. Unit - 1 /\ x - 1 = Unit * q + m
    BY <1>0, <1>1, DivMod
  <1>3. q >= 0
    <2> SUFFICES ASSUME q + 1 <= 0 PROVE FALSE
      BY <1>2
    <2>1. Unit * (q + 1) <= Unit * 0
      BY <1>0, <1>2, TimesMonotone
    <2>2. Unit * (q + 1) = Unit * q + Unit /\ Unit * 0 = 0 /\ Unit * q \in Int
      BY <1>0, <1>2
    <2> QED BY <1>0, <1>2, <2>1, <2>2
  <1>4. q < n
    <2> SUFFICES ASSUME n <= q PROVE FALSE
      BY <1>2
    <2>1. Unit * n <= Unit * q
      BY <1>0, <1>2, TimesMonotone
    <2>2. Unit * n = n * Unit /\ n * Unit \in Int /\ Unit * q \in Int
      BY <1>0, <1>2
    <2> QED BY <1>0, <1>2, <2>1, <2>2
  <1>5. x = RowOf(q, m + 1)
    <2>1. Unit * q = q * Unit /\ q * Unit \in Int
      BY <1>0, <1>2
    <2> QED BY <1>0, <1>2, <2>1 DEF RowOf
  <1> QED BY <1>0, <1>2, <1>3, <1>4, <1>5

LEMMA RowsAreOnce == IndexInv /\ LifeInv => EveryRowOnce
  <1> SUFFICES ASSUME IndexInv, LifeInv, ~torn
               PROVE  /\ Len(origin) = Len(indexes) /\ Len(indexes) <= Len(permvecs)
                      /\ \A r, s \in DOMAIN origin : origin[r] = origin[s] => r = s
                      /\ \A r \in DOMAIN origin :
                           /\ origin[r] \in DOMAIN permvecs /\ indexes[r] \in Classes
                           /\ permvecs[origin[r]][indexes[r]] \in BestOfRow(origin[r])
                      /\ pc = "results" =>
                           {origin[r] : r \in DOMAIN origin} = 1 .. NumGroups * Unit
    BY DEF EveryRowOnce
  <1>0. /\ origin \in Seq(Int) /\ DOMAIN origin = 1 .. Len(origin) /\ Len(origin) \in Nat
        /\ permvecs \in Seq(PermVecs) /\ DOMAIN permvecs = 1 .. Len(permvecs)
        /\ Len(permvecs) \in Nat
    BY DEF IndexInv, TypeInv
  <1>1. /\ Len(origin) = Len(indexes)
        /\ \A r, s \in DOMAIN origin : origin[r] = origin[s] => r = s
        /\ \A r \in DOMAIN origin : Holds(r)
    BY <1>0 DEF IndexInv, RowsInv
  <1>2. \A r \in DOMAIN origin :
          /\ origin[r] \in DOMAIN permvecs /\ indexes[r] \in Classes
          /\ permvecs[origin[r]][indexes[r]] \in BestOfRow(origin[r])
    BY <1>1, HeldIsBest DEF IndexInv
  <1>3. Len(indexes) <= Len(permvecs)
    <2>1. origin \in Injection(1 .. Len(origin), 1 .. Len(permvecs))
      <3>1. origin \in [1 .. Len(origin) -> 1 .. Len(permvecs)]
        BY <1>0, <1>2
      <3> QED BY <1>0, <1>1, <3>1 DEF Injection, IsInjective
    <2>2. /\ IsFiniteSet(1 .. Len(permvecs)) /\ Cardinality(1 .. Len(permvecs)) = Len(permvecs)
          /\ Cardinality(1 .. Len(origin)) = Len(origin)
      <3>1. ASSUME NEW z \in Nat PROVE IsFiniteSet(1 .. z) /\ Cardinality(1 .. z) = z
        <4>1. /\ IsFiniteSet(1 .. z)
              /\ Cardinality(1 .. z) = IF 1 > z THEN 0 ELSE z - 1 + 1
          BY FS_Interval
        <4> QED BY <4>1
      <3> QED BY ONLY <1>0, <3>1
    <2>3. Cardinality(1 .. Len(origin)) <= Cardinality(1 .. Len(permvecs))
      BY <2>1, <2>2, FS_Injection
    <2> QED BY <1>1, <2>2, <2>3
  <1>4. ASSUME pc = "results"
        PROVE  {origin[r] : r \in DOMAIN origin} = 1 .. NumGroups * Unit
    <2>1. NumGroups \in Nat
      <3>1. num_rows \in Nat /\ Unit \in Nat \ {0}
        BY DemoAssumption DEF IndexInv, TypeInv
      <3> QED BY <3>1 DEF NumGroups
    <2>2. ASSUME NEW r \in DOMAIN origin PROVE origin[r] \in 1 .. NumGroups * Unit
      <3>1. PICK g \in Groups, k \in 1 .. Unit : Pushed(g, k) /\ origin[r] = RowOf(g, k)
        BY <1>1 DEF Holds
      <3>2. g < NumGroups /\ g \in Nat
        BY <3>1, GroupsNat DEF LifeInv, Pushed, Answered
      <3> QED BY <2>1, <3>1, <3>2, RowsBefore
    <2>3. ASSUME NEW x \in 1 .. NumGroups * Unit PROVE \E r \in DOMAIN origin : origin[r] = x
      <3>1. PICK g \in 0 .. NumGroups - 1, k \in 1 .. Unit : x = RowOf(g, k)
        BY <2>1, RowIsOf
      <3>2. g \in Groups
        BY DEF IndexInv, TypeInv, Groups, NumGroups
      <3>3. thr[g] = "done"
        BY <1>4, <2>1, <3>2 DEF LifeInv
      <3>4. Pushed(g, k)
        <4>1. fetched[g] = <<>> /\ Unit \in Nat
          BY <3>2, <3>3, DemoAssumption DEF IndexInv, ThreadInv
        <4> QED BY <3>3, <4>1 DEF Pushed, Answered
      <3>5. \E r \in 1 .. Len(origin) : origin[r] = RowOf(g, k)
        BY <3>2, <3>4 DEF IndexInv, RowsInv
      <3> QED BY <1>0, <3>1, <3>5
    <2> QED BY <2>2, <2>3
  <1> QED BY <1>1, <1>2, <1>3, <1>4

\* In whatever order the callbacks of any number of sessions run, while no two of
\* their pushes meet, the vector holds every row at most once, and in the end all
\* of them, each with an index that its own permutation turns into a best class.
THEOREM EveryRowOnceCorrect == Spec => []EveryRowOnce
  BY InitIndex, NextIndex, LifeAlways, RowsAreOnce, PTL DEF Spec

-----------------------------------------------------------------------------
(* A file of one group: one session, whose thread pushes alone.             *)

\* The vector has the rows of the group in their order, up to the next to push.
SoloThread ==
    /\ ~torn
    /\ \A r \in 1 .. Len(origin) : origin[r] = r
    /\ Len(origin) = IF thr[0] \in Answered THEN Unit - Len(fetched[0]) ELSE 0

\* Rows are printed in their order, once the thread is done.
SoloPrint ==
    /\ pc \in {"loop", "compute", "sent", "results", "leave", "join", "args", "done"}
    /\ result_classes \in Seq(Classes)
    /\ Len(result_classes) <= Len(origin)
    /\ pc \in {"loop", "compute", "sent", "results"} => ~thrown
    /\ pc \in {"loop", "compute", "sent"} \/ thrown => result_classes = <<>>
    /\ pc = "results" => thr[0] = "done"
    /\ pc \in {"leave", "join", "args", "done"} /\ ~thrown =>
         thr[0] = "done" /\ Len(result_classes) = Len(origin)
    /\ \A r \in 1 .. Len(result_classes) : result_classes[r] \in BestOfRow(r)

Alone == NumGroups = 1 /\ 0 \in Groups

SoloInv == Alone => SoloThread /\ SoloPrint

\* With one group, thread 0 is the only one.
LEMMA OnlyThread ==
    ASSUME LifeInv, Alone, NEW g \in Groups, thr[g] # "none"
    PROVE  g = 0
  BY GroupsNat DEF LifeInv, Alone

LEMMA InitSolo == Init => SoloInv
  <1> SUFFICES ASSUME Init, Alone
               PROVE  SoloThread /\ SoloPrint
    BY DEF SoloInv
  <1>1. SoloThread
    BY DEF Init, SoloThread, Answered, Alone
  <1>2. SoloPrint
    BY DEF Init, SoloPrint
  <1> QED BY <1>1, <1>2

\* Steps that leave the threads alone.
LEMMA SoloThreadKept ==
    ASSUME SoloThread, UNCHANGED threadVars
    PROVE  SoloThread'
  BY DEF SoloThread, threadVars, vector

\* Main-thread steps, with what they preserve of the loop and of the print.
LEMMA MainSolo ==
    ASSUME IndexInv, LifeInv, Alone, SoloThread, SoloPrint, MainStep
    PROVE  SoloThread' /\ SoloPrint'
  <1>0. /\ 0 \in Groups /\ NumGroups = 1 /\ TypeInv /\ ThreadInv /\ RowsInv
        /\ Len(origin) = Len(indexes) /\ origin \in Seq(Int)
    BY DEF Alone, IndexInv, TypeInv, RowsInv, SoloThread
  <1>1. CASE CreateSession
    <2>1. /\ pc = "loop" /\ pc' = "compute"
          /\ group < 1 /\ thr' = [thr EXCEPT ![group] = "poll"]
          /\ UNCHANGED <<thrown, result_classes, fetched, vector>>
      BY <1>0, <1>1 DEF CreateSession
    <2>2. group = 0
      BY <1>0, <2>1 DEF TypeInv
    <2>3. thr[0] \notin Answered /\ thr'[0] = "poll"
      <3>1. drawn[0] = NoAnswer
        BY <1>0, <2>1, <2>2 DEF IndexInv, CoverInv
      <3> QED BY <1>0, <2>1, <2>2, <3>1 DEF ThreadInv, TypeInv
    <2>4. SoloThread'
      BY <2>1, <2>3 DEF SoloThread, Answered, vector
    <2>5. SoloPrint'
      BY <2>1, <2>3 DEF SoloPrint, vector, BestOfRow, Service!Best
    <2> QED BY <2>4, <2>5
  <1>2. CASE Compute \/ ComputeReturns
    <2>1. /\ pc \in {"compute", "sent"} /\ pc' \in {"sent", "loop"}
          /\ UNCHANGED <<thrown, result_classes, threadVars>>
      BY <1>2 DEF Compute, ComputeReturns
    <2>2. SoloPrint'
      BY <2>1 DEF SoloPrint, threadVars, vector
    <2> QED BY <2>1, <2>2, SoloThreadKept
  <1>3. CASE CallFails \/ WaitThrows
    <2>1. /\ pc \in {"loop", "sent"} /\ pc' = "leave" /\ thrown'
          /\ UNCHANGED <<result_classes, threadVars>>
      BY <1>3 DEF CallFails, WaitThrows, Throw
    <2>2. SoloPrint'
      BY <2>1 DEF SoloPrint, threadVars, vector
    <2> QED BY <2>1, <2>2, SoloThreadKept
  <1>4. CASE Wait
    <2>1. /\ pc = "loop" /\ pc' = "results" /\ thr[0] = "done"
          /\ UNCHANGED <<thrown, result_classes, threadVars>>
      BY <1>0, <1>4 DEF Wait
    <2>2. SoloPrint'
      BY <2>1 DEF SoloPrint, threadVars, vector
    <2> QED BY <2>1, <2>2, SoloThreadKept
  <1>5. CASE PrintNext \/ PrintStray
    <2>1. pc = "results" /\ ~thrown /\ thr[0] = "done" /\ UNCHANGED <<thrown, threadVars>>
      BY <1>5 DEF PrintNext, PrintStray, SoloPrint
    <2>2. CASE /\ Len(result_classes) = Len(indexes) /\ pc' = "leave"
               /\ UNCHANGED result_classes
      <3>1. SoloPrint'
        BY <1>0, <2>1, <2>2 DEF SoloPrint, threadVars, vector
      <3> QED BY <2>1, <3>1, SoloThreadKept
    <2>3. CASE Len(result_classes) < Len(indexes)
      <3>1. PICK r : r = Len(result_classes) + 1
        OBVIOUS
      <3>2. r \in 1 .. Len(origin) /\ result_classes \in Seq(Classes)
        BY <1>0, <2>3, <3>1 DEF SoloPrint
      <3>3. origin[r] = r /\ Holds(r)
        BY <1>0, <3>2 DEF SoloThread, RowsInv
      <3>4. /\ r \in DOMAIN permvecs /\ indexes[r] \in Classes
            /\ permvecs[r][indexes[r]] \in BestOfRow(r)
        BY <3>3, HeldIsBest DEF IndexInv
      <3>5. PICK cls : cls = permvecs[r][indexes[r]]
        OBVIOUS
      <3>6. cls \in Classes
        <4>1. permvecs[r] \in [Classes -> Classes]
          BY <1>0, <3>4, DemoAssumption DEF TypeInv
        <4> QED BY <3>4, <3>5, <4>1
      <3>7. result_classes' = Append(result_classes, cls) /\ pc' = pc
        BY <1>5, <2>3, <3>1, <3>4, <3>5 DEF PrintNext, PrintStray, Inside
      <3>8. /\ result_classes' \in Seq(Classes) /\ Len(result_classes') = r
            /\ \A x \in 1 .. r - 1 : result_classes'[x] = result_classes[x]
            /\ result_classes'[r] = cls
        BY <3>1, <3>2, <3>6, <3>7
      <3>9. \A x \in 1 .. r : result_classes'[x] \in BestOfRow(x)
        <4>1. \A x \in 1 .. r - 1 : result_classes'[x] \in BestOfRow(x)
          BY <3>1, <3>2, <3>8 DEF SoloPrint
        <4> QED BY <3>2, <3>4, <3>5, <3>8, <4>1
      <3>10. SoloPrint'
        BY <2>1, <3>2, <3>7, <3>8, <3>9 DEF SoloPrint, threadVars, vector
      <3> QED BY <2>1, <3>10, SoloThreadKept
    <2> QED BY <1>5, <2>2, <2>3 DEF PrintNext, PrintStray
  <1>6. CASE Disconnect \/ JoinThreads \/ DestroyArgs
    <2>1. /\ pc \in {"leave", "join", "args"} /\ pc' \in {"join", "args", "done"}
          /\ UNCHANGED <<thrown, result_classes, threadVars>>
      BY <1>6 DEF Disconnect, JoinThreads, DestroyArgs
    <2>2. SoloPrint'
      BY <2>1 DEF SoloPrint, threadVars, vector
    <2> QED BY <2>1, <2>2, SoloThreadKept
  <1> QED BY <1>1, <1>2, <1>3, <1>4, <1>5, <1>6 DEF MainStep

\* The steps of the thread.
LEMMA ThreadSolo ==
    ASSUME IndexInv, LifeInv, Alone, SoloThread, SoloPrint,
           NEW g \in Groups, ThreadStep(g)
    PROVE  SoloThread' /\ SoloPrint'
  <1>0. /\ 0 \in Groups /\ Unit \in Nat \ {0} /\ TypeInv /\ ThreadInv
        /\ origin \in Seq(Int)
    BY DemoAssumption DEF Alone, IndexInv, TypeInv
  <1>1. UNCHANGED mainVars
    BY DEF ThreadStep, GetResults, GetFails, PushBegin, PushEnd, CallbackReturns
  <1>2. g = 0 /\ thr[0] \in {"poll", "callback", "push"}
    <2>1. thr[g] \in {"poll", "callback", "push"}
      BY DEF ThreadStep, GetResults, GetFails, PushBegin, PushEnd, CallbackReturns
    <2> QED BY <2>1, OnlyThread
  <1>3. result_classes = <<>> /\ (pc \in {"leave", "join", "args", "done"} => thrown)
        /\ pc # "results"
    BY <1>2 DEF SoloPrint
  <1>4. ASSUME Len(origin') \in Nat PROVE SoloPrint'
    BY <1>1, <1>3, <1>4 DEF SoloPrint, mainVars
  <1>5. CASE GetResults(0)
    <2>1. PICK places : places = [k \in 1 .. Unit |->
                                     CHOOSE j \in Classes : drawn[0][j] = answer[0][k]]
      OBVIOUS
    <2>2. Len(places) = Unit
      BY <1>0, <2>1
    <2>3. /\ thr[0] = "poll" /\ thr'[0] = "callback" /\ fetched'[0] = places
          /\ UNCHANGED vector
      BY <1>0, <1>5, <2>1 DEF GetResults, TypeInv
    <2>4. SoloThread'
      BY <1>0, <2>2, <2>3 DEF SoloThread, Answered, vector
    <2> QED BY <1>0, <1>4, <2>3, <2>4 DEF vector
  <1>6. CASE GetFails(0) \/ CallbackReturns(0)
    <2>1. /\ thr'[0] \in Answered <=> thr[0] \in Answered
          /\ UNCHANGED <<fetched, vector>>
      BY <1>0, <1>6 DEF GetFails, CallbackReturns, TypeInv, Answered
    <2>2. SoloThread'
      BY <2>1 DEF SoloThread, vector
    <2> QED BY <1>0, <1>4, <2>1, <2>2 DEF vector
  <1>7. CASE PushBegin(0)
    <2>1. thr[0] = "callback" /\ \A h \in Groups : thr[h] # "push"
      <3>1. thr[0] = "callback"
        BY <1>7 DEF PushBegin
      <3> QED BY <3>1, OnlyThread
    <2>2. /\ thr'[0] = "push" /\ torn' = torn
          /\ UNCHANGED <<fetched, indexes, origin>>
      BY <1>0, <1>7, <2>1 DEF PushBegin, TypeInv
    <2>3. SoloThread'
      BY <2>1, <2>2 DEF SoloThread, Answered
    <2> QED BY <1>0, <1>4, <2>2, <2>3
  <1>8. CASE PushEnd(0)
    <2>1. PICK n, len : n = Len(origin) /\ len = Len(fetched[0])
      OBVIOUS
    <2>2. /\ thr[0] = "push" /\ thr'[0] = "callback" /\ torn' = torn
          /\ fetched'[0] = Tail(fetched[0])
          /\ fetched[0] \in Seq(Classes) /\ fetched[0] # <<>>
          /\ len \in 1 .. Unit /\ n = Unit - len
          /\ origin' = Append(origin, RowOf(0, Unit - len + 1))
      BY <1>0, <1>8, <2>1
      DEF PushEnd, TypeInv, ThreadInv, SoloThread, Answered, Rest
    <2>3. RowOf(0, Unit - len + 1) = n + 1
      BY <1>0, <2>2 DEF RowOf
    <2>4. Len(fetched'[0]) = len - 1
      BY <2>1, <2>2
    <2>5. /\ Len(origin') = n + 1 /\ origin'[n + 1] = n + 1
          /\ \A r \in 1 .. n : origin'[r] = origin[r]
      <3>1. origin' = Append(origin, n + 1)
        BY <2>2, <2>3
      <3>2. n \in Nat /\ origin \in Seq(Int) /\ n = Len(origin)
        BY <1>0, <2>1
      <3> QED BY ONLY <3>1, <3>2
    <2>6. \A r \in 1 .. n + 1 : origin'[r] = r
      <3>1. n \in Nat /\ \A r \in 1 .. n : origin[r] = r
        BY <1>0, <2>1 DEF SoloThread
      <3> QED BY ONLY <2>5, <3>1
    <2>7. n + 1 = Unit - (len - 1)
      BY <1>0, <2>2
    <2>8. SoloThread'
      BY <2>2, <2>4, <2>5, <2>6, <2>7 DEF SoloThread, Answered
    <2>9. n + 1 \in Nat
      BY <1>0, <2>1
    <2> QED BY <1>4, <2>5, <2>8, <2>9
  <1> QED BY <1>2, <1>5, <1>6, <1>7, <1>8 DEF ThreadStep

LEMMA NextSolo == IndexInv /\ LifeInv /\ SoloInv /\ [Next]_demoVars => SoloInv'
  <1> SUFFICES ASSUME IndexInv, LifeInv, SoloInv, [Next]_demoVars, Alone'
               PROVE  SoloThread' /\ SoloPrint'
    BY DEF SoloInv
  <1>1. num_rows' = num_rows
    BY DEF Next, MainStep, CreateSession, Compute, ComputeReturns, CallFails, Wait,
           WaitThrows, Throw, PrintNext, PrintStray, Disconnect, JoinThreads, DestroyArgs,
           ThreadStep, Serve, GetResults, GetFails, PushBegin, PushEnd, CallbackReturns,
           RaceAborts, ServerEnds, AuthorityCut, demoVars, mainVars, loopVars
  <1>2. Alone
    BY <1>1 DEF Alone, NumGroups
  <1>3. SoloThread /\ SoloPrint
    BY <1>2 DEF SoloInv
  <1>4. CASE MainStep
    BY <1>2, <1>3, <1>4, MainSolo
  <1>5. ASSUME NEW g \in Groups, ThreadStep(g)
        PROVE  SoloThread' /\ SoloPrint'
    BY <1>2, <1>3, <1>5, ThreadSolo
  <1>6. CASE RaceAborts
    BY <1>3, <1>6 DEF RaceAborts, SoloThread
  <1>7. ASSUME UNCHANGED <<mainVars, threadVars>>
        PROVE  SoloThread' /\ SoloPrint'
    <2>1. SoloPrint'
      BY <1>3, <1>7 DEF SoloPrint, mainVars, threadVars, vector
    <2> QED BY <1>3, <1>7, <2>1, SoloThreadKept
  <1>8. ASSUME NEW g \in Groups, Serve(g)
        PROVE  SoloThread' /\ SoloPrint'
    BY <1>7, <1>8 DEF Serve
  <1>9. CASE ServerEnds \/ AuthorityCut \/ UNCHANGED demoVars
    BY <1>7, <1>9 DEF ServerEnds, AuthorityCut, demoVars
  <1> QED BY <1>4, <1>5, <1>6, <1>8, <1>9 DEF Next

LEMMA SoloIsRight == IndexInv /\ SoloInv => OneGroupIsRight
  <1> SUFFICES ASSUME IndexInv, SoloInv, NumGroups = 1
               PROVE  /\ \A r \in DOMAIN result_classes : result_classes[r] \in BestOfRow(r)
                      /\ pc = "done" => Len(result_classes) = IF thrown THEN 0 ELSE Unit
    BY DEF OneGroupIsRight
  <1>1. num_rows \in RowCounts /\ Unit \in Nat \ {0}
    BY DemoAssumption DEF IndexInv, TypeInv
  <1>2. 0 \in Groups
    <2>1. 0 \in 0 .. num_rows \div Unit - 1
      BY DEF NumGroups
    <2> QED BY <1>1, <2>1 DEF Groups
  <1>3. SoloThread /\ SoloPrint
    BY <1>2 DEF SoloInv, Alone
  <1>4. \A r \in DOMAIN result_classes : result_classes[r] \in BestOfRow(r)
    BY <1>3 DEF SoloPrint
  <1>5. ASSUME pc = "done", thrown PROVE Len(result_classes) = 0
    BY <1>3, <1>5 DEF SoloPrint
  <1>6. ASSUME pc = "done", ~thrown PROVE Len(result_classes) = Unit
    <2>1. thr[0] = "done" /\ Len(result_classes) = Len(origin)
      BY <1>3, <1>6 DEF SoloPrint
    <2>2. fetched[0] = <<>> /\ Len(origin) = Unit - Len(fetched[0])
      BY <1>2, <1>3, <2>1 DEF SoloThread, Answered, IndexInv, ThreadInv
    <2> QED BY <1>1, <2>1, <2>2
  <1> QED BY <1>4, <1>5, <1>6

\* A file that fills one group is printed whole and in order, every row with a
\* class of maximal score; a run that an exception ends prints nothing.
THEOREM OneGroupIsRightCorrect == Spec => []OneGroupIsRight
  <1>1. Spec => []IndexInv
    BY InitIndex, NextIndex, PTL DEF Spec
  <1>2. Spec => []SoloInv
    BY <1>1, LifeAlways, InitSolo, NextSolo, PTL DEF Spec
  <1> QED BY <1>1, <1>2, SoloIsRight, PTL
=============================================================================
