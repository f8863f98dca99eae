---------------------------- MODULE KeyFilesProofs ----------------------------
(***************************************************************************)
(* The key files for any number of peers and of starts: files are as old   *)
(* as the order they are written in says, an authority with the latest     *)
(* secret key has the rest of its generation, and peers hold the keys the  *)
(* authority has in memory.                                                *)
(***************************************************************************)
EXTENDS KeyFiles, TLAPS

USE KeyAssumption

Pos(k) == CASE k = "context" -> 1 [] k = "pubkey" -> 2 [] k = "seckey" -> 3

\* What the files hold while a generation is written, and after it was cut short.
FileInv ==
    /\ \A k \in Kinds : file[k] <= made
    /\ pc \in {"open", "write"} =>
          /\ made > 0
          /\ \A k \in Kinds : IF Pos(k) < at THEN file[k] = made
                                             ELSE file[k] < made
    /\ pc = "write" => file[WriteOrder[at]] = Torn
    /\ OldestLast
    /\ \A k, l \in Kinds :
          Pos(k) < Pos(l) /\ file[l] = made => file[k] = made

\* A connection belongs to one start, and a start is up only once.
PeerInv ==
    /\ pc = "up" => loaded = file
    /\ \A x \in Peers :
          /\ peer[x].life <= life
          /\ pc \in {"open", "write", "load"} => peer[x].life < life
          /\ Connected(x) =>
                /\ peer[x].state \in {"context", "ready"} => peer[x].context = file["context"]
                /\ peer[x].state = "ready" => peer[x].pubkey = file["pubkey"]

KeyInv == TypeOK /\ FileInv /\ PeerInv

LEMMA Order ==
    /\ DOMAIN WriteOrder = 1 .. 3 /\ Len(WriteOrder) = 3
    /\ WriteOrder[1] = "context" /\ WriteOrder[2] = "pubkey" /\ WriteOrder[3] = "seckey"
    /\ \A j \in 1 .. 3 : WriteOrder[j] \in Kinds /\ Pos(WriteOrder[j]) = j
    /\ \A k \in Kinds : Pos(k) \in 1 .. 3 /\ WriteOrder[Pos(k)] = k
  BY DEF WriteOrder, Pos, Kinds

\* A constructor leaves parameters of the right type, whatever memory held.
LEMMA ParamsType ==
    ASSUME NEW f \in ConfigFiles \cup {NoConfig}
    PROVE  ParamsOf(f) \subseteq [Keys -> Values]
  BY DEF ParamsOf

LEMMA TypeInit == Init => TypeOK
  BY Order DEF Init, TypeOK, Contents, NoPeer, Missing, Torn

LEMMA TypeNext == TypeOK /\ FileInv /\ [Next]_vars => TypeOK'
  <1> SUFFICES ASSUME TypeOK, FileInv, [Next]_vars PROVE TypeOK'
    OBVIOUS
  <1> USE DEF TypeOK
  <1>1. CASE Start
    <2>1. config' \in ConfigFiles /\ params' \in [Keys -> Values]
      BY <1>1, ParamsType DEF Start
    <2>2. made' = made + 1 \/ made' = made
      BY <1>1 DEF Start
    <2>3. life' = life + 1 /\ life' \in 0 .. MaxLives /\ made' \in 0 .. life'
      BY <1>1, <2>2 DEF Start
    <2>4. pc' \in {"open", "load"} /\ at' = 1
      BY <1>1 DEF Start
    <2>5. UNCHANGED <<file, loaded, peer>> /\ at' \in DOMAIN WriteOrder
      BY <1>1, <2>4, Order DEF Start
    <2> QED BY <2>1, <2>2, <2>3, <2>4, <2>5
  <1>2. CASE OpenFile
    <2>1. file' \in [Kinds -> Contents]
      BY <1>2 DEF OpenFile, Contents
    <2> QED BY <1>2, <2>1 DEF OpenFile
  <1>3. CASE WriteFile
    <2>1. made \in 1 .. MaxLives
      BY <1>3 DEF WriteFile, FileInv
    <2>2. made \in Contents
      BY <2>1 DEF Contents, Torn
    <2>3. file' \in [Kinds -> Contents]
      BY <1>3, <2>2 DEF WriteFile
    <2>4. at' \in DOMAIN WriteOrder /\ pc' \in {"open", "load"}
      BY <1>3, Order DEF WriteFile
    <2> QED BY <1>3, <2>3, <2>4 DEF WriteFile
  <1>4. CASE Load
    BY <1>4 DEF Load
  <1>5. CASE Stop
    BY <1>5 DEF Stop
  <1>6. ASSUME NEW x \in Peers, PeerStep(x) PROVE TypeOK'
    <2>1. UNCHANGED taVars
      BY <1>6 DEF PeerStep, Connect, GetContext, GetPubkey, PeerStops
    <2>2. NoPeer \in [state : {"off", "connected", "context", "ready"},
                      life : 0 .. MaxLives, context : Contents, pubkey : Contents]
      BY DEF NoPeer, Contents
    <2>3. peer' \in [Peers -> [state : {"off", "connected", "context", "ready"},
                           life : 0 .. MaxLives, context : Contents, pubkey : Contents]]
      <3>1. CASE Connect(x)
        BY <3>1 DEF Connect, NoPeer, Contents
      <3>2. file["context"] \in Contents /\ file["pubkey"] \in Contents
        BY DEF Kinds
      <3>3. CASE GetContext(x)
        BY <3>2, <3>3 DEF GetContext
      <3>4. CASE GetPubkey(x)
        BY <3>2, <3>4 DEF GetPubkey
      <3>5. CASE PeerStops(x)
        BY <2>2, <3>5 DEF PeerStops
      <3> QED BY <1>6, <3>1, <3>3, <3>4, <3>5 DEF PeerStep
    <2> QED BY <2>1, <2>3 DEF taVars
  <1>7. CASE UNCHANGED vars
    BY <1>7 DEF vars, taVars
  <1> QED BY <1>1, <1>2, <1>3, <1>4, <1>5, <1>6, <1>7 DEF Next, Over

LEMMA FileInit == Init => FileInv
  BY DEF Init, FileInv, OldestLast, Kinds, Pos, Missing, Torn

\* Files change only in OpenFile and WriteFile, and generations are begun by Start.
LEMMA FileNext == TypeOK /\ FileInv /\ [Next]_vars => FileInv'
  <1> SUFFICES ASSUME TypeOK, FileInv, [Next]_vars PROVE FileInv'
    OBVIOUS
  <1>0. /\ made \in Nat /\ at \in 1 .. 3
        /\ file \in [Kinds -> Int]
    BY Order DEF TypeOK, Contents, Missing, Torn
  <1>1. CASE Start
    <2>1. file' = file /\ at' = 1 /\ pc' \in {"open", "load"}
      BY <1>1 DEF Start
    <2>2. CASE made' = made /\ pc' = "load"
      BY <2>1, <2>2 DEF FileInv, OldestLast
    <2>3. CASE made' = made + 1 /\ pc' = "open"
      <3>1. \A k \in Kinds : file[k] < made' /\ Pos(k) \in 1 .. 3
        BY <1>0, <2>3, Order DEF FileInv
      <3> QED BY <1>0, <2>1, <2>3, <3>1 DEF FileInv, OldestLast
    <2> QED BY <1>1, <2>2, <2>3 DEF Start
  <1>2. CASE OpenFile
    <2>1. /\ pc = "open" /\ pc' = "write" /\ made' = made /\ at' = at
          /\ file' = [file EXCEPT ![WriteOrder[at]] = Torn]
      BY <1>2 DEF OpenFile
    <2>2. /\ made > 0
          /\ \A k \in Kinds : IF Pos(k) < at THEN file[k] = made
                                             ELSE file[k] < made
      BY <2>1 DEF FileInv
    <2>3. \A k \in Kinds : file'[k] = IF Pos(k) = at THEN Torn ELSE file[k]
      BY <1>0, <2>1, Order DEF Pos, Kinds
    <2>4. \A k \in Kinds : IF Pos(k) < at THEN file'[k] = made
                                          ELSE file'[k] < made
      BY <1>0, <2>2, <2>3, Order DEF Torn
    <2>5. file'[WriteOrder[at]] = Torn
      BY <1>0, <2>3, Order
    <2>6. OldestLast'
      BY <1>0, <2>3 DEF FileInv, OldestLast, Kinds, Torn
    <2>7. \A k, l \in Kinds :
             Pos(k) < Pos(l) /\ file'[l] = made => file'[k] = made
      BY <1>0, <2>4, Order
    <2>8. \A k \in Kinds : file'[k] <= made
      BY <1>0, <2>4, <2>3 DEF FileInv, Torn
    <2> QED BY <2>1, <2>2, <2>4, <2>5, <2>6, <2>7, <2>8 DEF FileInv
  <1>3. CASE WriteFile
    <2>1. /\ pc = "write" /\ made' = made
          /\ file' = [file EXCEPT ![WriteOrder[at]] = made]
          /\ \/ at < 3 /\ at' = at + 1 /\ pc' = "open"
             \/ at = 3 /\ pc' = "load" /\ at' = at
      BY <1>3, Order DEF WriteFile
    <2>2. /\ made > 0
          /\ \A k \in Kinds : IF Pos(k) < at THEN file[k] = made
                                             ELSE file[k] < made
      BY <2>1 DEF FileInv
    <2>3. \A k \in Kinds : file'[k] = IF Pos(k) = at THEN made ELSE file[k]
      BY <1>0, <2>1, Order DEF Pos, Kinds
    <2>4. \A k \in Kinds : IF Pos(k) < at + 1 THEN file'[k] = made
                                              ELSE file'[k] < made
      BY <1>0, <2>2, <2>3, Order
    <2>5. \A k \in Kinds : file'[k] <= made /\ file'[k] \in Int
      BY <1>0, <2>2, <2>3 DEF FileInv
    <2>6. OldestLast'
      <3>1. OldestLast
        BY DEF FileInv
      <3>2. at \in {1, 2, 3}
        BY <1>0
      <3> QED BY <1>0, <2>2, <2>3, <2>5, <3>1, <3>2 DEF OldestLast, Kinds, Pos, Torn
    <2>7. \A k, l \in Kinds :
             Pos(k) < Pos(l) /\ file'[l] = made => file'[k] = made
      BY <1>0, <2>4, <2>5, Order
    <2> QED BY <2>1, <2>2, <2>4, <2>5, <2>6, <2>7 DEF FileInv
  <1>4. CASE Load \/ Stop \/ (\E x \in Peers : PeerStep(x)) \/ UNCHANGED vars
    <2>1. /\ file' = file /\ made' = made /\ at' = at
          /\ pc' \in {"open", "write"} => pc' = pc
      BY <1>4 DEF Load, Stop, PeerStep, Connect, GetContext, GetPubkey, PeerStops,
                  taVars, vars
    <2> QED BY <2>1 DEF FileInv, OldestLast
  <1> QED BY <1>1, <1>2, <1>3, <1>4 DEF Next, Over

LEMMA PeerInit == Init => PeerInv
  BY DEF Init, PeerInv, NoPeer, Connected

LEMMA PeerNext == TypeOK /\ PeerInv /\ [Next]_vars => PeerInv'
  <1> SUFFICES ASSUME TypeOK, PeerInv, [Next]_vars PROVE PeerInv'
    OBVIOUS
  <1>0. life \in Nat /\ \A x \in Peers : peer[x].life \in Nat
    BY DEF TypeOK
  <1>1. CASE Start
    BY <1>0, <1>1 DEF Start, PeerInv, Connected
  <1>2. CASE OpenFile \/ WriteFile
    BY <1>0, <1>2 DEF OpenFile, WriteFile, PeerInv, Connected
  <1>3. CASE Load
    <2>1. /\ pc = "load" /\ life' = life /\ peer' = peer /\ file' = file
          /\ pc' \in {"up", "down"}
          /\ pc' = "up" => loaded' = file
      BY <1>3 DEF Load
    <2>2. \A x \in Peers : peer[x].life < life
      BY <2>1 DEF PeerInv
    <2>3. \A x \in Peers : ~Connected(x)'
      BY <1>0, <2>1, <2>2 DEF Connected
    <2> QED BY <2>1, <2>2, <2>3, <1>0 DEF PeerInv
  <1>4. CASE Stop
    BY <1>4 DEF Stop, PeerInv, Connected
  <1>5. ASSUME NEW x \in Peers, PeerStep(x) PROVE PeerInv'
    <2>1. UNCHANGED taVars
      BY <1>5 DEF PeerStep, Connect, GetContext, GetPubkey, PeerStops
    <2>2. /\ \A y \in Peers \ {x} : peer'[y] = peer[y]
          /\ \/ peer'[x] = NoPeer
             \/ pc = "up" /\ peer'[x].life = life /\ peer'[x].state = "connected"
             \/ /\ Connected(x) /\ peer'[x].life = life /\ peer'[x].state = "context"
                /\ peer'[x].context = file["context"]
             \/ /\ Connected(x) /\ peer'[x].life = life /\ peer'[x].state = "ready"
                /\ peer'[x].context = peer[x].context /\ peer[x].state = "context"
                /\ peer'[x].pubkey = file["pubkey"]
      <3>1. CASE Connect(x)
        BY <3>1 DEF Connect, TypeOK, NoPeer
      <3>2. CASE GetContext(x)
        BY <3>2 DEF GetContext, Connected, TypeOK
      <3>3. CASE GetPubkey(x)
        BY <3>3 DEF GetPubkey, Connected, TypeOK
      <3>4. CASE PeerStops(x)
        BY <3>4 DEF PeerStops, TypeOK
      <3> QED BY <1>5, <3>1, <3>2, <3>3, <3>4 DEF PeerStep
    <2>3. /\ pc' = pc /\ life' = life /\ file' = file /\ loaded' = loaded
      BY <2>1 DEF taVars
    <2>4. /\ peer'[x].life <= life
          /\ pc \in {"open", "write", "load"} => peer'[x].life < life
      <3>1. CASE peer'[x] = NoPeer
        <4>1. peer'[x].life = 0 /\ peer[x].life <= life
          BY <3>1 DEF NoPeer, PeerInv
        <4>2. pc \in {"open", "write", "load"} => peer[x].life < life
          BY DEF PeerInv
        <4> QED BY <1>0, <4>1, <4>2
      <3> QED BY <1>0, <2>2, <3>1 DEF Connected
    <2>5. Connected(x)' =>
            /\ peer'[x].state \in {"context", "ready"} => peer'[x].context = file["context"]
            /\ peer'[x].state = "ready" => peer'[x].pubkey = file["pubkey"]
      BY <2>2 DEF NoPeer, PeerInv
    <2> QED BY <2>2, <2>3, <2>4, <2>5 DEF PeerInv, Connected
  <1>6. CASE UNCHANGED vars
    BY <1>6 DEF vars, taVars, PeerInv, Connected
  <1> QED BY <1>1, <1>2, <1>3, <1>4, <1>5, <1>6 DEF Next, Over

LEMMA KeyInvHolds == Spec => []KeyInv
  <1>1. Init => KeyInv
    BY TypeInit, FileInit, PeerInit DEF KeyInv
  <1>2. KeyInv /\ [Next]_vars => KeyInv'
    BY TypeNext, FileNext, PeerNext DEF KeyInv
  <1> QED BY <1>1, <1>2, PTL DEF Spec

\* Every variable keeps to its type.
THEOREM KeyTypeCorrect == Spec => []TypeOK
  BY KeyInvHolds, PTL DEF KeyInv

\* After any number of generations cut short, files are aged in the order they
\* are written.
THEOREM OldestLastCorrect == Spec => []OldestLast
  <1>1. KeyInv => OldestLast
    BY DEF KeyInv, FileInv
  <1> QED BY <1>1, KeyInvHolds, PTL

\* The latest secret key comes with the context and public key made with it.
THEOREM WholeGenerationCorrect == Spec => []WholeGeneration
  <1>1. KeyInv => WholeGeneration
    <2> SUFFICES ASSUME KeyInv, pc = "up", loaded["seckey"] = made
                 PROVE  loaded["context"] = made /\ loaded["pubkey"] = made
      BY DEF WholeGeneration
    <2>1. loaded = file
      BY DEF KeyInv, PeerInv
    <2>2. file["seckey"] = made
      BY <2>1
    <2> QED BY <2>1, <2>2 DEF KeyInv, FileInv, Pos, Kinds
  <1> QED BY <1>1, KeyInvHolds, PTL

\* Serving from files is as good as serving from memory, for every peer that is
\* connected to the start it asks.
THEOREM PeersHoldAuthorityKeysCorrect == Spec => []PeersHoldAuthorityKeys
  <1>1. KeyInv => PeersHoldAuthorityKeys
    BY DEF KeyInv, PeerInv, PeersHoldAuthorityKeys, Connected
  <1> QED BY <1>1, KeyInvHolds, PTL
=============================================================================
