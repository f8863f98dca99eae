------------------------------- MODULE KeyFiles -------------------------------
(***************************************************************************)
(* The trusted authority's key files: a start reads its parameters from a  *)
(* configuration file, writes new context, public key and secret key if    *)
(* asked to (-g), loads the three files and then serves context and public *)
(* key, each from its file at the time of the request.  The authority may  *)
(* stop at any step and be started again in another way.  Its peers are    *)
(* the model provider, the computation server and the clients, which fetch *)
(* the context and then the public key over one connection.                *)
(*                                                                         *)
(* A file holds the number of the generation it was written in.  The       *)
(* program checks that a file is there, never what is in it: whether the   *)
(* homomorphic library loads files that are torn, or that do not belong    *)
(* together, is left open.                                                 *)
(***************************************************************************)
EXTENDS Integers, Sequences

CONSTANTS
    Peers,
    MaxLives,       \* bound on the starts of the authority
    Values,         \* values of parameters
    Defaults,       \* parameter -> default of the constructor
    ConfigFiles,    \* what a start may be given: files, NoConfig
    NoConfig

Keys == {"fheP", "fheR"}

\* A configuration file is a sequence of lines, each a key and its value.
ASSUME KeyAssumption ==
    /\ MaxLives \in Nat \ {0}
    /\ Values \subseteq Nat
    /\ Defaults \in [Keys -> Values]
    /\ \A f \in ConfigFiles \ {NoConfig} : f \in Seq(Keys \X Values)

Missing == -2
Torn == -1
Kinds == {"context", "pubkey", "seckey"}

VARIABLES
    pc,         \* of the authority's main thread
    life,       \* starts of the authority so far
    config,     \* configuration file of this start
    params,     \* parameters of this start
    made,       \* generations of keys begun so far
    at,         \* which of the files is being written
    file,       \* kind -> generation, Torn or Missing
    loaded,     \* kind -> generation in the authority's memory
    peer        \* peer -> its connection and what it has fetched

taVars == <<pc, life, config, params, made, at, file, loaded>>
vars == <<taVars, peer>>

NoPeer == [state |-> "off", life |-> 0, context |-> Missing, pubkey |-> Missing]

\* Mutant: the secret key is saved first.
WriteOrderSecretFirst == <<"seckey", "context", "pubkey">>

\* The order in which initialize() writes the files.
WriteOrder == <<"context", "pubkey", "seckey">>

-----------------------------------------------------------------------------
\* The map of a configuration file: emplace keeps the first value of a key.
load_from_file(f) ==
    [k \in {f[j][1] : j \in DOMAIN f} |->
        LET first == CHOOSE j \in DOMAIN f :
                        f[j][1] = k /\ \A h \in 1 .. j - 1 : f[h][1] # k
        IN f[first][2]]

\* The parameters a constructor may leave.  The one that takes a configuration
\* file assigns the keys of the file and no other: members it does not assign
\* keep whatever is in memory.
ParamsOf(f) ==
    IF f = NoConfig THEN {Defaults}
    ELSE LET map == load_from_file(f)
         IN {p \in [Keys -> Values] : \A k \in DOMAIN map : p[k] = map[k]}

Init ==
    /\ pc = "down" /\ life = 0
    /\ config = NoConfig /\ params = Defaults
    /\ made = 0 /\ at = 1
    /\ file = [k \in Kinds |-> Missing]
    /\ loaded = [k \in Kinds |-> Missing]
    /\ peer = [x \in Peers |-> NoPeer]

-----------------------------------------------------------------------------
(* The authority. *)

\* A start, with or without -g.
Start ==
    /\ pc = "down" /\ life < MaxLives
    /\ life' = life + 1
    /\ config' \in ConfigFiles
    /\ params' \in ParamsOf(config')
    /\ \/ pc' = "open" /\ made' = made + 1
       \/ pc' = "load" /\ UNCHANGED made
    /\ at' = 1
    /\ UNCHANGED <<file, loaded, peer>>

\* Opening a file for writing empties it.
OpenFile ==
    /\ pc = "open"
    /\ file' = [file EXCEPT ![WriteOrder[at]] = Torn]
    /\ pc' = "write"
    /\ UNCHANGED <<life, config, params, made, at, loaded, peer>>

\* Mutant: the place in the order moves on after the last file too.
WriteFilePastEnd ==
    /\ pc = "write"
    /\ file' = [file EXCEPT ![WriteOrder[at]] = made]
    /\ at' = at + 1
    /\ pc' = IF at < Len(WriteOrder) THEN "open" ELSE "load"
    /\ UNCHANGED <<life, config, params, made, loaded, peer>>

WriteFile ==
    /\ pc = "write"
    /\ file' = [file EXCEPT ![WriteOrder[at]] = made]
    /\ \/ at < Len(WriteOrder) /\ at' = at + 1 /\ pc' = "open"
       \/ at = Len(WriteOrder) /\ pc' = "load" /\ UNCHANGED at
    /\ UNCHANGED <<life, config, params, made, loaded, peer>>

\* Loading throws when a file is missing.
Existing == \A k \in Kinds : file[k] # Missing

OneGeneration == \A k, l \in Kinds : file[k] > Torn /\ file[k] = file[l]

\* Files of one generation load.  Others may come up as they are, or throw.
Load ==
    /\ pc = "load"
    /\ \/ Existing /\ loaded' = file /\ pc' = "up"
       \/ ~OneGeneration /\ pc' = "down" /\ UNCHANGED loaded
    /\ UNCHANGED <<life, config, params, made, at, file, peer>>

\* The authority is stopped from outside, wherever it is.
Stop ==
    /\ pc # "down"
    /\ pc' = "down"
    /\ UNCHANGED <<life, config, params, made, at, file, loaded, peer>>

-----------------------------------------------------------------------------
(* Peers.  A connection ends with the process it leads to.                  *)

Connected(x) == pc = "up" /\ peer[x].life = life

Connect(x) ==
    /\ pc = "up" /\ peer[x].state = "off"
    /\ peer' = [peer EXCEPT ![x] = [NoPeer EXCEPT !.state = "connected", !.life = life]]
    /\ UNCHANGED taVars

\* The handlers of Server#1 read the file on each request.
GetContext(x) ==
    /\ Connected(x) /\ peer[x].state = "connected"
    /\ peer' = [peer EXCEPT ![x].state = "context", ![x].context = file["context"]]
    /\ UNCHANGED taVars

\* Mutant: the second request may go to another start of the authority.
GetPubkeyReconnect(x) ==
    /\ pc = "up" /\ peer[x].state = "context"
    /\ peer' = [peer EXCEPT ![x].state = "ready", ![x].pubkey = file["pubkey"], ![x].life = life]
    /\ UNCHANGED taVars

GetPubkey(x) ==
    /\ Connected(x) /\ peer[x].state = "context"
    /\ peer' = [peer EXCEPT ![x].state = "ready", ![x].pubkey = file["pubkey"]]
    /\ UNCHANGED taVars

\* A peer ends, by itself or because its connection is gone.
PeerStops(x) ==
    /\ peer[x].state # "off"
    /\ peer' = [peer EXCEPT ![x] = NoPeer]
    /\ UNCHANGED taVars

PeerStep(x) == Connect(x) \/ GetContext(x) \/ GetPubkey(x) \/ PeerStops(x)

Over == life = MaxLives /\ pc = "down" /\ UNCHANGED vars

Next ==
    \/ Start \/ OpenFile \/ WriteFile \/ Load \/ Stop
    \/ \E x \in Peers : PeerStep(x)
    \/ Over

Spec == Init /\ [][Next]_vars

-----------------------------------------------------------------------------
(* Properties. *)

Contents == {Missing, Torn} \cup 1 .. MaxLives

TypeOK ==
    /\ pc \in {"down", "open", "write", "load", "up"}
    /\ life \in 0 .. MaxLives
    /\ config \in ConfigFiles \cup {NoConfig}
    /\ params \in [Keys -> Values]
    /\ made \in 0 .. life
    /\ at \in DOMAIN WriteOrder
    /\ file \in [Kinds -> Contents]
    /\ loaded \in [Kinds -> Contents]
    /\ peer \in [Peers -> [state : {"off", "connected", "context", "ready"},
                           life : 0 .. MaxLives, context : Contents, pubkey : Contents]]

\* However often a generation of keys is cut short and however the authority is
\* started again, a file is never older than one that is written after it.
OldestLast ==
    LET Whole(k) == file[k] > Torn
    IN /\ Whole("context") /\ Whole("pubkey") => file["context"] >= file["pubkey"]
       /\ Whole("pubkey") /\ Whole("seckey") => file["pubkey"] >= file["seckey"]
       /\ Whole("context") /\ Whole("seckey") => file["context"] >= file["seckey"]

\* An authority whose secret key is of the latest generation has the context and
\* the public key of that generation, although nothing checks what it loads: keys
\* that do not belong together are those of a generation that was cut short, and
\* then it is the secret key that is old or torn.
WholeGeneration ==
    pc = "up" /\ loaded["seckey"] = made =>
        loaded["context"] = made /\ loaded["pubkey"] = made

\* A peer that has its keys encrypts with what the authority it is connected to
\* has in memory, although the authority answers from its files.
PeersHoldAuthorityKeys ==
    \A x \in Peers : Connected(x) /\ peer[x].state = "ready" =>
        /\ peer[x].context = loaded["context"]
        /\ peer[x].pubkey = loaded["pubkey"]

\* A parameter the configuration file does not mention has its default.
DefaultsApply ==
    pc # "down" /\ config # NoConfig =>
        \A k \in Keys \ DOMAIN load_from_file(config) : params[k] = Defaults[k]
=============================================================================
