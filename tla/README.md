# A verification development of NB-Classify

NB-Classify classifies data with a naive Bayes model without showing the data to
the model's owner or the model to the data's owner. Four processes take part.

- The **trusted authority** (TA, `nbc/nbc_ta`) owns the keys. Server#1 hands out
  the public key and the context and answers result requests; Server#2 compares
  encrypted scores for the computation server.
- The **computation server** (CS, `nbc/nbc_cs`) holds the encrypted model, takes
  encrypted inputs from clients, computes one encrypted score per class, and finds
  the best class by a loop in which the TA decrypts masked differences.
- The **model provider** (MP, `nbc/nbc_mp`) sends the encrypted model to the CS.
- The **client** (`nbc/nbc_client`, `demo/client`) opens a session per group of
  data items, sends the input under a random permutation of the classes, and polls
  the TA for the index of the best class, which it maps back.

This directory models what these processes do together, and the parts around
them: key files, model files, slots of a ciphertext, messages, the demo client and
the training script. TLC checks the models on small instances; TLAPS proves the
most important results for every instance.

## Inventory

| component | state | operations | what makes it correct |
|---|---|---|---|
| TA Server#2 | connection state (`taState`), `compute_unit` (`taUnit`), session container shared with Server#1 (`sessions`) | session create, begin, compute, end | one computation at a time; writes go to the caller's session with the caller's unit; the index is that of the maximum so far |
| TA Server#1 | key files, session container | public key, context, result request | a result is copied only after it is final |
| CS | per connection: state (`conn`), input and permutation (`input`), a handler thread (`csPc`, `job`); shared: model (`encmodel`) and a static flag (`modelReceived`) | session create, model, input, compute request; calls on TA; end and start of the process | computes only with a model; the encrypted maximum agrees with TA's index; a computation cut short leaves no trace that a later one meets |
| client library | table of result threads by session, one connection to each server | `create_session`, `compute`, `wait`; result thread; failing calls, destructors | every session's callback runs, with the result of that session, unless a process it depends on has ended |
| model provider | model | send the model | the model arrives once, stored before the flag is raised |
| key files, configuration | three files, seven parameters | generate, load, serve | which generations can stand side by side; peers use the keys the authority has in memory |
| slots of a ciphertext | one ciphertext per class | `modifiedTotalSums` | the slot TA reads for a data item sums that item's slots and no other |
| data, model, info files | rows, lines | parse, encode, lay out over slots | each slot read by TA is the naive Bayes score of its row |
| messages | buffer, stream | save, send, load | what is loaded is what was saved |
| demo client | vector of indexes all callbacks share, vector of permutations | loop over groups of rows, wait, print; leaving `exec` by an exception | row *i* is printed with the class of row *i*; no callback outlives what it writes to; the program ends |
| training scripts | counts per label, attribute and value | load, count, scale, write | integers keep the order of frequencies and stand where the provider reads them; rows are labelled with a class the service may answer |

The parts talk over `stdsc` connections (an external library; its submodule
directory is empty). What the code relies on: one handler thread per connection,
handlers of one connection run one at a time, a blocking call sends its request
again when the handler throws. So a handler whose check fails changes nothing and
its caller comes back: in the models a refused request is a disabled action.

Hard behaviours, listed line by line in `PROJECT.json` under `hazards`: handlers of
all clients share one connection to TA Server#2; per-connection state at TA is used
with per-session state; the model flag is written by one thread and polled by
others; a result is checked and copied in two steps; identifiers depend on the
clock; the comparison is modular arithmetic that decides on a sign; key files are
written one after another and can be cut short; a loop over bits must sum exactly
*n* slots; result callbacks push to a vector without a lock; the computation server
or a client may end in the middle of a computation, and an exception may take the
demo client's main thread away from threads that still run.

## Modules

| module | models | extends |
|---|---|---|
| `TrustedAuthority` | Server#2's state machine and handlers, the session container, the check of Server#1's result request, the clock behind session identifiers | |
| `ComputationServer` | the state machine and handlers of a client's connection, the model's arrival, the calls on the TA | `TrustedAuthority` |
| `NBClassify` | the whole system: clients, result threads, provider; the safety properties | `ComputationServer` |
| `Outages` | the system with ends and starts of the computation server and ends of clients | `NBClassify` |
| `Classification` | abstract specification: each query is answered once, with a best class for each data item, or lost for good | |
| `MCNBClassify` | constants of the model-checked instance | `Outages` |
| `NBClassifyProofs` | inductive invariants and theorems of the system | `NBClassify`, `TLAPS` |
| `OutagesProofs` | the same invariants across outages, the refinement with losses | `Outages`, `NBClassifyProofs` |
| `SlotSums` | the loop of `modifiedTotalSums` over formal sums of slots | |
| `Scores`, `MCScores` | model file, info file and data file to the slots TA reads | `SlotSums` |
| `ScoresProofs` | the invariants of the loops of `modifiedTotalSums` and `Model::read`, what the slots hold | `Scores`, `DataTheorems` |
| `DemoClient`, `MCDemoClient` | the demo client's main thread, result callbacks and ways out, over an instance of `Classification` | |
| `DemoClientProofs` | what the shared vector holds, the order of the destructors, what one group prints | `DemoClient`, `TLAPS` |
| `KeyFiles`, `MCKeyFiles` | starts and stops of TA, its configuration and key files, peers that fetch keys | |
| `KeyFilesProofs` | inductive invariant of the key files | `KeyFiles`, `TLAPS` |
| `Messages`, `MCMessages` | saving and loading of the objects of each message | |
| `MessagesProofs` | what is in the stream while a message is loaded | `Messages`, `DataTheorems` |
| `Training`, `MCTraining` | `train.py` up to the model file, line by line | |
| `TrainingProofs` | the script's loops, and what the numbers it writes keep of the frequencies | `Training`, `DataTheorems` |
| `DataTheorems` | lemmas about sums, flattened sequences and quotients that the last three share | `TLAPS` |

`NBClassify` composes `TrustedAuthority` and `ComputationServer`; its scores are a
constant, and `Scores` (with `SlotSums` under it) says what the code computes there.
`Outages` implements `Classification`, with losses; `DemoClient` uses it, losses
included, as the service it calls.

Builds. `cmake -DALGO=Multi` (`USE_MULTI`) packs several data items into a ciphertext;
the default of `CMakeLists.txt:20-22` is `Single`, and there is `SingleOpt`, each with
one data item per ciphertext. `SlotSums` and `Scores` are the `USE_MULTI` build only:
its packing of rows, copies of the model, `modifiedTotalSums` and one slot per item
for the authority to read. (`Single` calls HElib's `totalSums` and reads slot 0;
`SingleOpt` runs the same loop for one item.) The other modules have no slots in them
and stand for the other builds too, with a unit of 1 for every query.

### How the code is read

*Handlers.* `RecvSessionCreate`, `RecvEncInput` and `RecvComputeRequest` of
`ComputationServer` are the `CallbackFunction...` of
`nbc_cs_srv1_callback_function.cpp`. A handler that calls TA or waits is split
where other threads can come in between: input is `RecvEncInput` then `WaitModel`
(the polling loop inside `StateSessionCreated::set`), and a compute request is
`RecvComputeRequest`, `BeginOnTA`, `ComputeOnTA` once per class after the first,
`EndOnTA`. Each of the last three contains TA's whole handler
(`BeginComputation`, `Compute`, `EndComputation`), because the caller blocks on it.
Server#2's session-create handler runs inside CS's.

*States.* `TASet` and `CSSet` are the `set` functions of the two state machines;
an event a state does not handle is ignored. The compute handlers raise no event,
so neither machine ever enters `Computing`.

*Encrypted values* are the numbers they encrypt. The score of class `a` for data
item `k` of query `q` is a constant, `Score[q][k][a]`; `Permed(c, j)` is the
ciphertext vector after the permutation the client sent. Masking is multiplication
by a coefficient in `1 .. MaxCoeff` modulo `PlainMod`, and `Compare` is TA's test
against half of the modulus. `ScoresFit`, an assumption on the constants, says that
a masked difference stays within half of the modulus; the sample models of the
repository satisfy it with the code's coefficient of at most 100 and modulus 2^18.
`max - ct_temp` of the loop is written as the code computes it,
`cand * b - (b - 1) * max`.

*Session identifiers.* `gen_uuid` seeds the generator with the second and returns
its first number: the identifier is the second. `CreatesPerSecond` bounds how many
sessions are created within a second, and nothing in the code bounds it to 1, so
identifiers do collide. What two queries of one identifier get is not promised to
anyone: the properties speak of the queries whose identifier no other has
(`Unshared`), while the others run beside them, begin their common session twice,
read each other's results and wait for one another. `Confusion` collects the queries
that are let down: those that share an identifier before they are answered, and all
that a client still waits for once it has one identifier twice (`create_session` then
joins the result thread of the older session, which may wait for a request that the
same thread has still to send). `confused` remembers them; no step depends on it.

*Client.* `CreateSession` and `StartResultThread` are the two halves of
`create_session`; `SendInput` and `SendComputeRequest` of `compute`; `ResultCheck`
and `ResultRead` are the result thread's request as Server#1 handles it, a check
and then an unlocked copy. `Waited` is `wait` returning. `Draws` is what
`gen_permvec` may draw for a query: all of `PermVecs` in the proofs' most general
instance, one permutation per query in the model-checked one.

*Outages.* `CSRestarts` is the end of the computation server at any step and its
next start: `FreshServer` is what the constructors leave, `FreshConnection` the
state and parameters that TA keeps for the new connection (they are per connection,
as `start_srv2_async` hands them to `stdsc`), while TA's sessions live on. All
clients of the old server are `cut`; a call it has not answered is `"failed"`.
`ClientEnds` is a client that stops, by itself or since a call failed; a handler it
has called goes on. `Lost` says which queries have nobody left to answer them: those
of a client that ended, those of a cut client that TA has not computed, and the
confused ones. A cut client still receives what was computed before the outage,
since it asks TA for it. The program has no reconnect, and neither has the model.

*Slots.* Rotation and addition of ciphertexts are linear. In `SlotSums` a ciphertext
is therefore a formal sum: `ctxt[s][t]` counts how often slot `s` holds the original
slot `t`. `Turn` is one turn of the loop over the bits of *n*. `Scores` puts contents
into the slots: `ReadLine` is one turn of `Model::read` with its arithmetic on line
counts, `Row` is `parseData`, `ModelSlots` and `InputSlots` are the layouts of
provider and client, `ScoreSlot` is the product and sum of one class; `cond_prob`,
`classify` and `classified` are what `createData.py` makes of the same model file.
`mp_attrs` is the info file the provider reads, which in the demo is a built-in one.

*Key files.* A file holds the number of the generation that wrote it; `OpenFile`
empties it and `WriteFile` fills it, in the order of `initialize`. `Stop`, from
outside, may happen at any step. `Load` is what the program checks: that the files
are there. Whether HElib's readers take a torn file or a secret key for another
context is not in the repository, so `Load` may come up with such files or throw.
The parameters of keys are reduced to `fheP` and `fheR`, the two that decide the
modulus. `ParamsOf` is the constructor that takes a configuration file: it assigns
the keys the file has and leaves the other members as memory has them.

*Messages.* A stream is a sequence of numbers and ciphertexts; a message is the
sequence of the classes of its objects, in the order in which sender and receiver
both go through them.

*Demo client.* `push_back` is two steps, `PushBegin` and `PushEnd`, because
callbacks run in the threads of their sessions without a lock. Two pushes that meet
are a data race: `torn` says that it has happened, and from then on a push may leave
any of `TornVectors` behind (any vectors at all in the proofs, a shorter and a longer
one with an element that is no index in the run), lose its index, or end the program
(`RaceAborts`). The loop that prints has no bounds check: `PrintStray` is a turn of it
outside of the vectors, which prints whatever is there. `Serve` is the
abstract system. `compute` returns once the handler has ended, by which time TA has
the result: `ComputeReturns` waits for the answer. Either connection may be cut at
any step (`ServerEnds`, with the requests the server has not answered, and
`AuthorityCut`). A call on a cut connection throws (`CallFails`), a result thread
keeps the exception and ends (`GetFails`), and `wait` throws it (`WaitThrows`). All
ways out go through `Disconnect`, `JoinThreads` and `DestroyArgs`: the destructor of
`client` first closes the connections, then its last member, the table of result
threads, joins each of them, and `args`, declared before `client`, goes after it.

*Training.* Floats are integers in thousandths and the logarithm is a table (`Log`),
so that truncation, the lift and the scale can be followed exactly. The lift 79 is
`-int(log(3.7e-4) * 10)`. The model file is written line by line (`WriteLine`), and a
class or value that is looked up and not found ends the script (`Found`). Rows have a
value for each attribute (`TrainAssumption`). A line of the info file lists a value
once; train.py:52-54 would scale a repeated one twice.

## Runs

| run | question | result |
|---|---|---|
| `system` | do the safety properties hold in every interleaving of two clients, three queries, the provider, a restart of the server and the end of a client, with a second for each session; is every query answered that is not lost with its process; does the system implement `Classification` with losses | they hold; the last two under weak fairness |
| `same_second` | are identifiers unique when two sessions fall in one second, as README.md:68 ("generate UUID") suggests | no |
| `collisions` | what do sessions of one second do to each other and to the queries beside them: is a query whose identifier no other has compared, answered and kept right, and answered at all | yes; the queries that collide are lost |
| `scores` | does the loop sum exactly the window, for every size of a data item; do lines, layouts and sums give the score `classify.py` computes, and the label `createData.py` gives | yes |
| `crlf_info` | also with CRLF line ends, which two shipped info files have | no: the last value of an attribute is left out |
| `mp_options` | also when `-i` and `-m` name other files than the built-in ones (README.md:111) | no: the provider ignores them |
| `demo_client` | with up to two sessions and either connection cut anywhere, does the vector get every row once with the right class unless two pushes meet, is it printed when no callback still changes it, does every callback find the object it pushes to, does the program end, and is a file of one group printed right | yes |
| `demo_order` | with two sessions, is line *i* the class of row *i* | no |
| `key_files` | which generations of keys can stand side by side, what peers hold | as the properties say |
| `missing_parameter` | does a parameter left out of the configuration file get its default | no: it is uninitialised |
| `messages` | is what is loaded what was saved, for every message | yes |
| `training` | do the integers keep the order of frequencies, at the provider's lines, between 0 and N; is a model file ever left with a part of a model | yes, if no frequency is below 3.7e-4; never |

Every run that finds a property violated has an entry under `findings` in
`PROJECT.json` with the line of code and the line of the documentation. Three more
disagreements are visible in the models and have no run of their own:

- the compute handlers raise no event, so neither state machine ever enters
  `Computing`, where the state diagrams (README.md:93, README.md:106) take it
  (`AuthorityInv` of the proofs says TA is never `Computing`);
- the demo client sends whole groups only: rows past the last whole group are not
  classified, and a file shorter than a group yields nothing (`OneGroupIsRight`
  counts the rows that are printed);
- a frequency below 3.7e-4 gets a negative number, less than the 0 of a value that
  never occurs, where train.py:83 promises "an integer from 0 to N"
  (`LiftSuffices` is the condition of `FrequencyOrder` and `ZeroToN`).

Bounds. Two clients are what it takes for handlers to meet at TA; the first has two
queries, so that a connection is used twice and a result thread of an earlier
session runs during a later one. The queries pack one and two data items, so that
`compute_unit` changes between computations. Three classes give the comparison loop
two turns, with scores that rise, fall and tie; permutations move every class, and
the two queries of one client draw different ones. `MaxOutages = 1` restarts the
server once, at every step, so that a computation cut short is followed by others on
the same authority; `MaxQuits = 1` lets one client stop by itself, while any client
that was cut may end. This gives 129,510 distinct states. `MaxTime = 3` gives each
query its own second. A modulus of 16 with coefficients up to 2 puts masked
differences on both sides of the half and next to it. No variable grows otherwise.
`collisions` is the same instance with two sessions a second and without restarts
(95,063 distinct states): every pattern of collisions of three queries occurs, two
of one client, two of different clients, and one query left alone beside them. After
every query has been answered or lost the model stutters (`Over`), so that deadlock
stays checked: no reachable state of the system is stuck before that. `same_second`
is the same instance without outages and with two sessions a second.

The other runs:

- `scores`: 20 slots. *n*, the slots to sum, is one more than the values of the info
  file: files of one attribute let it run from 2 to 20, with bit patterns of up to
  five bits and block sizes that do and do not divide the number of slots. Files of
  up to three attributes give one to six rows, most with slots of padding;
  probabilities differ pairwise, so a value in the wrong place changes a score, and
  are so close that either class is the best of some rows; every row of every data
  file of that size is tried.
- `demo_client`: files of one, two, three and five rows in groups of two: none, one
  or two sessions, with and without a row left over; three permutations of three
  classes, one its own inverse and two not; one row of the first group has a tie;
  both connections may be cut at every step: 280,035 distinct states.
  `demo_order` is the smallest case in which lines can be swapped: two sessions of
  one row.
- `key_files`: three starts are what it takes to write a generation, cut the next
  one short, and load what is left; two peers, one of which may be connected since
  an earlier start. A start is given a complete configuration, one that leaves a
  parameter out, or none, with and without `-g`. `MaxLives` bounds the starts.
- `messages`: up to three ciphertexts or classes, both values of each field that the
  code tells apart, the index that is not set. `SizeMax` stands for the largest
  `size_t`.
- `training`: every file of up to three blocks of equal rows, with a label and a
  value the info file does not list. Blocks of 1300 rows bring frequencies next to
  the smallest one the lift allows (1 in 2601), one of 3000 rows brings smaller ones,
  where `LiftSuffices` fails. `MaxBlocks` bounds the file. Files without a row of one of
  the classes end the script.

Programs that come to an end stutter there in these models, so that
deadlock stays checked everywhere.

Fairness is weak fairness of each handler thread, of each client's calls, of each
result thread, of the provider and of the clock. Threads run and blocking calls
retry, which is what weak fairness says of an action that stays enabled. `begin` may
be disabled while another computation runs, but there are finitely many queries and
each computes once, so it is not disabled for ever and needs no strong fairness.
The provider's fairness says that somebody sends a model, to a server that was started
again too: without one the server waits for ever, by design. Nothing is assumed of
restarts and of clients that end: they need never happen.

`DemoClient` assumes weak fairness of the main thread and of each result thread, and
of the answer to a request that was sent and not lost: the last is what
`EveryQueryEnds` of `Outages` shows of the system. That connections are cut is never
assumed. The modules without liveness state no fairness.

## What is proved

`NBClassifyProofs` and `OutagesProofs` hold for all constants that satisfy the
assumptions (`TAAssumption`, `CSAssumption`, `ScoresFit`, `ClientAssumption`,
`OutageAssumption`): any number of restarts, of clients that end, of clients,
queries, classes and data items, any scores that fit the modulus, any set of
permutations, any number of sessions in a second.

| theorem | statement |
|---|---|
| `TypeCorrect` | `Spec => []TypeOK` |
| `OneComputationCorrect` | `Spec => []OneComputation` |
| `AuthorityServesCallerCorrect` | `Spec => []AuthorityServesCaller` |
| `ModelBeforeComputeCorrect` | `Spec => []ModelBeforeCompute` |
| `RunningMaximumCorrect` | `Spec => []RunningMaximum` |
| `ResultsAreBestCorrect` | `Spec => []ResultsAreBest` |
| `ComputedIsFinalCorrect` | `Spec => ComputedIsFinal` |

The argument goes in layers, each an inductive invariant over the ones before.

1. `TypeInv` adds to `TypeOK` what makes it inductive: a query past its creation has
   a session, a connection past its input holds one, and a handler that computes has
   a session, a unit and an index in range.
2. `AuthorityInv`: TA is never `Computing`, at most one handler is in its loop and TA
   is `Computable` exactly then. Begin is accepted only in `SessionCreated`, so the
   guards of begin and end alone serialise the handlers, whatever the identifiers.
   This also gives that the size check of `set_results` cannot fail.
3. `ModelInv`: the flag implies the model; `Computable` implies the flag.
4. A query keeps its identifier, so an identifier that two queries have is theirs for
   good: a step only takes from `Unshared`.
5. `ResultInv`, said of the identifiers in `Unshared`: each handler serves one query
   of its client, with that query's input, permutation, session and unit
   (`HandlerInv`); a session is as it was made until its computation begins
   (`QueryInv`, `FreshInv`), which is what makes `resize(unit, 0)` a reset;
   `RunningMaximum` is the loop invariant; a computed session holds best indexes and
   is what a result thread reads (`ComputedInv`). The arithmetic is in `ModSign`,
   `CompareIsSign` and `TurnKeepsBetter`; that no class is missed at the end uses
   that a permutation reaches every class.

`OutagesProofs`, for the system with outages:

| theorem | statement |
|---|---|
| `OutageTypeCorrect` | `OutageSpec => []OutageTypeOK` |
| `OneComputationUnderOutages` | `OutageSpec => [](OneComputation /\ AuthorityServesCaller)` |
| `ModelBeforeComputeUnderOutages` | `OutageSpec => []ModelBeforeCompute` |
| `ResultsUnderOutages` | `OutageSpec => [](RunningMaximum /\ ResultsAreBest)` |
| `ComputedIsFinalUnderOutages` | `OutageSpec => ComputedIsFinal` |
| `ImplementsWithLossesSafety` | `OutageSpec => Failing!Spec` |

Every step but a restart is a step of `NBClassify` or leaves its variables alone, so
the layers above carry over, and only `CSRestarts` needs a new step in each: a fresh
server has no handler in its loop and no model, and a fresh connection is in `Ready`,
which is `AuthorityInv` and `ModelInv`; the sessions are as they were, and a query
whose call failed keeps what `QueryInv` says of it except that it is no longer served.
For the refinement, `CutInv` (no handler serves a client that was cut) and `ConfInv`
(a query that is not confused shares its identifier with no other while it waits, and
once answered never asks again) are inductive with them. `CutUntouched` and
`CutComputed` say that a query of a cut client is computed by no one if it was not
computed before, so what is lost stays lost (`LostStays`); what is lost by a step was
open before it (`LostAreOpen`, `QuietLoss`), and a query answered was not lost
(`ReadAnswers`, by `ReadIsBest`).

`ScoresProofs`, for every number of slots (`SlotAssumption`), every model, info file
and data file (`ScoreAssumption`: there is a class, probabilities are integers, every
attribute has a value, and a data item fits in the slots):

| theorem | statement | needs |
|---|---|---|
| `WindowSumsCorrect` | `SumsSpec => []WindowSums` | |
| `SumsTypeCorrect` | `SumsSpec => []SumsTypeOK` | |
| `BlocksSeparateCorrect` | `SumsSpec => []BlocksSeparate` | |
| `LinesInPlaceCorrect` | `Spec => []LinesInPlace` | |
| `ScoresCorrect` | `Spec => []ScoresAreNaiveBayes` | `FilesMatch` |
| `LabelsAreBestCorrect` | `Spec => []LabelsAreBest` | `FilesMatch` |

`LoopInv`, type and window invariant together, is inductive for the loop of
`modifiedTotalSums`. `ModNear` and `RotatedWindow` reduce the cycle of slots to linear
arithmetic, `Shift` says how the bits above *j* follow from those above *j + 1*; at
the end the window of *n* slots that ends at the last slot of a block is that block.
Two facts about powers of two (each doubles the one before; a number lies between two
of them) are part of `SlotAssumption`, stated for the numbers a ciphertext needs: the
provers know only powers of numerals. TLC evaluates them in every run of the module.

`ReadInv` is inductive for the loop of `Model::read`. It says where the loop is
(`PlaceInv`: the line before belongs to the block of `class_count`, of which
`LinesRead` lines are read) and what it has stored (`ProbsInv`: each class has its
first probability and those of the lines of its block read so far). `FilePlaces`
says which line of the model file stands where, and `ReadLinePlace` that the
provider's arithmetic on line counts finds exactly the lines of a block.

`ScoreInv` puts both together with the rows. When the loops are done, the sum of a slot
is that of its block (`LoopInvBlocks`), the block holds the class's probabilities
beside the encoded row (`SlotPlaces`, `RowIs`), and the product of the two picks the
probability of each of the row's values (`RowScore`). `FilesMatch` is what the run
`scores` gives its constants and what the code does not check: line ends are LF, and
the provider's built-in info file is the one the client was given. Runs `crlf_info` and
`mp_options` show the score wrong without the one and without the other. The last
theorem needs a second account of the same file, that of `createData.py`:
`ReadsBuilt` says in closed form what its loop has after each line, so that
`CondProbIs` finds every probability where `classify` looks for it.

`KeyFilesProofs`, for any peers, starts, parameters and configuration files
(`KeyAssumption`): `KeyTypeCorrect`, `OldestLastCorrect`, `WholeGenerationCorrect`
and `PeersHoldAuthorityKeysCorrect`. The inductive invariant `KeyInv` is `TypeOK`,
`FileInv` (files before the one being written are of the new generation, files after
it of earlier ones, and never younger than those written before them) and `PeerInv`
(while the authority is up its memory equals its files, and a peer connected to this
start read them then). The authority answers from files that it does not write while
it is up, which is why reading them late does no harm. Nothing is claimed of a start
that loads files of two generations but which those can be: the program lets it come
up.

`DemoClientProofs`, for any number of sessions, rows per group, classes, permutations
and scores (`DemoAssumption`):

| theorem | statement |
|---|---|
| `EveryRowOnceCorrect` | `Spec => []EveryRowOnce` |
| `CallbackHasArgsCorrect` | `Spec => []CallbackHasArgs` |
| `StableWhilePrintingCorrect` | `Spec => StableWhilePrinting` |
| `OneGroupIsRightCorrect` | `Spec => []OneGroupIsRight` |

`EveryRowOnce` speaks of the runs in which no two pushes have met, in whatever order
whole callbacks run. `CoverInv` says that the permutations remembered are one per
row of the groups that were sent, in their order; `ThreadInv` that what a thread has
still to push are the last of its group's indexes; `RowsInv` that the vector has the
rows that were pushed, each once, with an index that the permutation sent takes to
the class answered. What the vector holds after two pushes have met is undefined,
and nothing is proved of it; the other three theorems hold also then. The next two
rest on which threads can still run at each place of the main thread: none after the
join of `wait`, nor after the one in the destructor. The last adds `SoloInv` for a
file of one group: its thread is the only one, so that no two pushes meet; the
vector and what the thread has still to push are together the places of all rows,
the permutation sent is the one remembered for each row, and so the class printed is
the class the service answered. With two groups it does not hold, which the run
`demo_order` shows, also if no two pushes meet. That the service below the demo
client behaves as `Classification` allows is how it is modelled (its steps are the
steps of that module), and what `Outages` is proved to implement.

`TrainingProofs`, for any rows, labels, classes, attributes and scale
(`TrainAssumption`):

| theorem | statement | needs |
|---|---|---|
| `WholeModelOrNoneCorrect` | `Spec => []WholeModelOrNone` | |
| `ZeroToNCorrect` | `Spec => []ZeroToN` | `LogGrows` |
| `FrequencyOrderCorrect` | `Spec => []FrequencyOrder` | `LogGrows` |

`TrainInv` is `TypeInv`, `PhaseInv` (labels still to train and labels trained are
together the labels seen, and what was trained is computed of all rows) and
`LinesInv` (the lines written are those of the model so far, each found in the
tables). A model is whole or missing because a lookup that fails does so for the
first line or not at all: `AllFound` says that every later line is found once the
first is. The order of frequencies goes through a quotient, the logarithm, a lift, a
scale and a truncation, each of which grows (`ShareMonotone`, `ScaledMonotone`), and
through the places of lines (`LinePlace`, `PlaceInFile`). `LogGrows` says that the
logarithm of a count, in thousandths, is a number and is no smaller for a larger
count: it is a hypothesis of the two theorems and no assumption of the module
because TLC cannot evaluate it for all counts. `math.log` has it; so has the table
of the run, on the counts that occur there. `LiftSuffices` is part of the two
properties, as in the run.

`MessagesProofs`, for any classes, ciphertexts and sessions (`MessageAssumption`: the
bound on them is not 0): `RoundTripCorrect`, `Spec => []RoundTrip`. Of `MessageInv`,
`SenderInv` says that the size announced is that of everything saved so far, and
`ReceiverInv` that the stream holds exactly the objects still to load, one after another.
`LoadOfSaved` is one object: what load takes off a stream that begins with an object
saved is that object, and what it leaves is the rest.

`DataTheorems` makes these proofs possible. What a recursive definition computes for
every input needs induction, and the library's induction theorems take an operator
as parameter, which the provers cannot instantiate. `NatSetInduction` does the same
with a set, which they can: a set that has 0 and with each number the next has all
of them; it comes from `WFMin`, that a set of numbers has a least one. On it rest
existence and uniqueness of the functions by which the community modules define a
sum and a flattened sequence (`SummingExists`, `SummingAgrees`, `FlatteningExists`),
and on those the laws used here: sums split, shift, grow and vanish (`SumUnion`,
`SumShift`, `SumMonotone`, `SumZero`), a sequence of sequences flattens to one that
begins, ends, measures and multiplies as its parts do (`FlattenAppend`,
`FlattenBegins`, `FlattenLength`, `FlattenDot`).

Every invariant and every action property that a passing run checks is stated by a
theorem. Only model-checked: `EveryQueryEnds`, `Ends` and the fairness part of
`ImplementsClassificationWithLosses`, because the prover does not do liveness under
fairness; the five runs that find a violation, which are about instances.

## What is not modelled

HElib and stdsc (external): homomorphic operations are what they do to the numbers
encrypted, and noise is left out; the binary formats of keys and contexts; logging;
permutation files of test mode; the random draws of `createModel.py` and
`createData.py`, in whose place `Scores` takes any model and any rows. A data race
on the session map (`initialize`, `has_context` and `get` take no lock) has
undefined outcomes and is not enumerated: map operations are atomic here.
Identifiers of different seconds are taken as different. The slots of the builds
`Single` and `SingleOpt` (see Modules). Empty objects in messages: the programs send
none (an encrypted object has a ciphertext, a permutation a class).

A second model sent to a running server replaces and frees the one that computations
refer to: what they read then is undefined, no property of their results holds, and
nothing in the documentation says what should; the demo's provider sends one model
to each server. A client program that calls the library from two threads, and so
could send a second input before the request of the first; the programs of the
repository have one thread of calls. Also without a property: a start with other
parameters than its key files were made with, which then takes another modulus for
the comparison than the keys', and which nothing in the program looks at. A second
authority started beside a running one rewrites the key files before it finds its
ports taken; only one runs at a time here. The end of the authority is not modelled
with the system: with it end all sessions, and neither server nor clients connect
again. Rows of a training file that are shorter than the info file says are left out
(`TrainAssumption`), and so is the comparison of printed classes with an expected
file.

Assumptions the code does not check. `ScoresFit`: the largest difference of two
scores times the coefficient stays below half of the modulus; it depends on the
scale typed into the training script and on the authority's parameters, and the
shipped models meet it. A data item fits in the slots of a ciphertext
(`ScoreAssumption`): otherwise the
number of items is zero, the client divides by it and the provider's loop runs
from it downwards. A request and its answer are one exchange on a connection that
threads share.

## Order of the work

The system and its proofs came first, then slot sums and their proof, scores, the demo
client, key files and their proof, messages and training; then outages, with the
abstract specification that loses queries and the proofs of both, the failures of
the demo client with their proofs, and the failures of the training script; then the
lemmas about sums and sequences, and with them the proofs of training, messages
and scores. What could be added, most useful first: starts of the authority with
different configurations, and two authorities at once; a second model, once the server
keeps the first alive for the computations that use it; permutation files.
