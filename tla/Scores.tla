-------------------------------- MODULE Scores --------------------------------
(***************************************************************************)
(* From files to scores: the model provider reads the model file line by   *)
(* line and lays each class out over the slots, the client encodes the     *)
(* rows of its data file and lays them out over the slots, the computation *)
(* server multiplies slot by slot and sums with modifiedTotalSums.  The    *)
(* slot the authority reads for a data item must then hold the naive Bayes *)
(* score that classify.py computes of the same files.                      *)
(*                                                                         *)
(* createData.py reads the same model file, splitting it at its empty      *)
(* lines, and labels the rows it draws: its labels are what a client may   *)
(* expect to be answered.                                                  *)
(*                                                                         *)
(* The demo provider reads the files whose names it has built in, whatever *)
(* names its options give.                                                 *)
(*                                                                         *)
(* The programs are those of the build with ALGO=Multi (USE_MULTI), which  *)
(* packs several data items into a ciphertext.  The builds Single and      *)
(* SingleOpt put one item into it, and Single sums all of its slots.       *)
(*                                                                         *)
(* A value of an attribute is its number.  Lines are split at commas after *)
(* getline cut the newline, so a carriage return stays in the last field.  *)
(***************************************************************************)
EXTENDS SlotSums, SequencesExt

CONSTANTS
    ClassNum,
    ClassProb(_),           \* integer probability of a class
    CondProb(_, _, _),      \* of a class, an attribute and one of its values
    AttrChoices,            \* numbers of values per attribute of the info files
    DefaultAttrs(_),        \* those of the file the provider has built in, when
                            \* the info file given to all programs has these
    LineEnds                \* line ends of the info files: "LF", "CRLF"

VARIABLES
    attrs,          \* attribute -> number of values, in the info file given
    mp_attrs,       \* the same of the info file the provider reads
    ends,           \* line ends of the info file
    samples,        \* rows of the data file, their class label taken off
    count,          \* lines of the model file read so far
    class_count,    \* class whose lines are being read
    probs           \* class -> class probability, then conditional ones

dataVars == <<attrs, mp_attrs, ends, samples, count, class_count, probs>>
scoreVars == <<slotVars, dataVars>>

Classes == 0 .. ClassNum - 1
feature_num == Len(mp_attrs)
num_features(a) == SumFunctionOnSet(a, DOMAIN a)
unit == NumSlots \div n

\* Probabilities are the integers the scripts wrote, every attribute of an info
\* file has a value, and a data item fits the slots of a ciphertext.
ASSUME ScoreAssumption ==
    /\ ClassNum \in Nat \ {0}
    /\ \A c \in Classes : ClassProb(c) \in Int
    /\ \A a \in AttrChoices :
        /\ num_features(a) < NumSlots
        /\ \A b \in {a, DefaultAttrs(a)} :
            /\ b \in Seq(Nat \ {0})
            /\ \A c \in Classes, j \in DOMAIN b : \A v \in 1 .. b[j] : CondProb(c, j, v) \in Int

\* Line 0 has the class probabilities; an empty line precedes each class.
ModelFile ==
    LET ClassLines(c) ==
            << <<>> >> \o [a \in DOMAIN mp_attrs |->
                              [v \in 1 .. mp_attrs[a] |-> CondProb(c, a, v)]]
    IN  << [c \in 1 .. ClassNum |-> ClassProb(c - 1)] >>
            \o FlattenSeq([c \in 1 .. ClassNum |-> ClassLines(c - 1)])

\* The values of the info file as the program holds them.
attr_values ==
    [a \in DOMAIN attrs |->
        [v \in 1 .. attrs[a] |->
            [value |-> v, cr |-> ends = "CRLF" /\ v = attrs[a]]]]

-----------------------------------------------------------------------------
DataInit ==
    /\ attrs \in AttrChoices
    /\ mp_attrs = DefaultAttrs(attrs)
    /\ n = num_features(attrs) + 1
    /\ i = NumBits(n) - 2
    /\ e = 1
    /\ ctxt = orig
    /\ ends \in LineEnds
    /\ samples \in [1 .. unit -> {r \in [DOMAIN attrs -> 1 .. NumSlots] :
                                     \A a \in DOMAIN attrs : r[a] <= attrs[a]}]
    /\ count = 0
    /\ class_count = -1
    /\ probs = <<>>

\* Mutant: the block of a class ends a line early.
OfClassShort ==
    /\ feature_num * class_count + 2 + class_count <= count
    /\ count < feature_num * class_count + 1 + class_count + feature_num

\* Whether line "count" is one of class_count.
OfClass ==
    /\ feature_num * class_count + 2 + class_count <= count
    /\ count <= feature_num * class_count + 1 + class_count + feature_num

\* One turn of the loop of Model::read.
ReadLine ==
    /\ count < Len(ModelFile)
    /\ LET line == ModelFile[count + 1] IN
         \/ /\ count = 0
            /\ probs' = [c \in 0 .. Len(line) - 1 |-> << line[c + 1] >>]
            /\ UNCHANGED class_count
         \/ /\ count > 0 /\ OfClass
            /\ probs' = [probs EXCEPT ![class_count] = @ \o line]
            /\ UNCHANGED class_count
         \/ /\ count > 0 /\ ~OfClass
            /\ class_count' = class_count + 1
            /\ UNCHANGED probs
    /\ count' = count + 1
    /\ UNCHANGED <<attrs, mp_attrs, ends, samples, slotVars>>

ModelRead == count = Len(ModelFile)

-----------------------------------------------------------------------------
\* A row: 1 for the class probability, then one slot per value of each
\* attribute, 1 where the sample has the value.
Row(sample) ==
    << 1 >> \o FlattenSeq([a \in DOMAIN attrs |->
        [v \in 1 .. attrs[a] |->
            IF attr_values[a][v] = [value |-> sample[a], cr |-> FALSE] THEN 1 ELSE 0]])

\* The first slots hold s, the others 0: USE_MULTI packs as many rows and copies
\* of the model as fit.
Padded(s) == [t \in SlotIds |-> IF t < Len(s) THEN s[t + 1] ELSE 0]

InputSlots == Padded(FlattenSeq([k \in 1 .. unit |-> Row(samples[k])]))

\* Mutant: one copy fewer than items, from a loop that starts at 1.
ModelSlotsOneLess(c) ==
    Padded(FlattenSeq([k \in 1 .. NumSlots \div (num_features(mp_attrs) + 1) - 1 |-> probs[c]]))

ModelSlots(c) ==
    Padded(FlattenSeq([k \in 1 .. NumSlots \div (num_features(mp_attrs) + 1) |-> probs[c]]))

\* Slot s of the class's ciphertext after the product and the sums.  The authority
\* reads one slot per item in a build with USE_MULTI, and slot 0 in others.
ScoreSlot(c, s) ==
    SumFunction([t \in SlotIds |-> ctxt[s][t] * ModelSlots(c)[t] * InputSlots[t]])

\* The call of modifiedTotalSums, which USE_MULTI compiles in.
ComputeSums == ModelRead /\ Turn /\ UNCHANGED dataVars

Scored == ModelRead /\ Done

Next == ReadLine \/ ComputeSums \/ (Scored /\ UNCHANGED scoreVars)

Spec == DataInit /\ [][Next]_scoreVars

-----------------------------------------------------------------------------
(* createData.py.                                                            *)

\* The lines behind the class probabilities and the empty line after them, with
\* every empty line starting the block of another class.
cond_prob ==
    LET After(blocks, line) ==
            IF line = <<>> THEN Append(blocks, <<>>)
            ELSE [blocks EXCEPT ![Len(blocks)] = Append(@, line)]
        Read[m \in 0 .. Len(ModelFile) - 2] ==
            IF m = 0 THEN << <<>> >> ELSE After(Read[m - 1], ModelFile[m + 2])
    IN  Read[Len(ModelFile) - 2]

\* Mutant: the class probability is left out.
classify_cond(c, sample) ==
    SumFunction([a \in DOMAIN attrs |-> cond_prob[c + 1][a][sample[a]]])

classify(c, sample) ==
    ModelFile[1][c + 1]
        + SumFunction([a \in DOMAIN attrs |-> cond_prob[c + 1][a][sample[a]]])

\* The first class, in the order of the info file, that has the largest score.
classified(sample) ==
    CHOOSE c \in Classes : \A d \in Classes :
        /\ classify(d, sample) <= classify(c, sample)
        /\ classify(d, sample) = classify(c, sample) => c <= d

-----------------------------------------------------------------------------
ModelOf(c) ==
    << ClassProb(c) >> \o FlattenSeq([a \in DOMAIN mp_attrs |->
                             [v \in 1 .. mp_attrs[a] |-> CondProb(c, a, v)]])

\* While the model file is read, each class has a prefix of its probabilities in
\* the order of the info file, classes before class_count have all of them and
\* classes after it only their first: no line lands in another class, whatever
\* the number of attributes.
LinesInPlace ==
    count > 0 =>
        \A c \in Classes :
            /\ IsPrefix(probs[c], ModelOf(c))
            /\ c < class_count \/ ModelRead => probs[c] = ModelOf(c)
            /\ c > class_count /\ ~ModelRead => Len(probs[c]) = 1

\* The score of classify.py: class probability plus those of the sample's values.
NaiveBayes(c, sample) ==
    ClassProb(c) +
        SumFunction([a \in DOMAIN attrs |-> CondProb(c, a, sample[a])])

\* The slot of each data item holds the score of its own row for each class: file
\* parsing, the layout of model and input over the slots and the windowed sums
\* agree with each other on where every probability stands.
ScoresAreNaiveBayes ==
    Scored => \A c \in Classes, k \in 1 .. unit :
        ScoreSlot(c, n * k - 1) = NaiveBayes(c, samples[k])

\* The label createData.py gives a row is a class the authority may answer for it:
\* the script counts the lines of the model file by its empty lines, the provider
\* by their number, and both find the same class best.
LabelsAreBest ==
    Scored => \A k \in 1 .. unit, c \in Classes :
        ScoreSlot(c, n * k - 1) <= ScoreSlot(classified(samples[k]), n * k - 1)
=============================================================================
