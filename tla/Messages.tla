------------------------------- MODULE Messages -------------------------------
(***************************************************************************)
(* Objects in buffers: ciphertexts, permutations and compute parameters    *)
(* are saved one after another into a stream over a buffer whose size was  *)
(* computed beforehand, sent, and loaded one after another by the receiver.*)
(* There are no tags and no lengths but the number of elements in front of *)
(* each object, and an object without elements is not saved at all.        *)
(*                                                                         *)
(* A stream is a sequence of numbers and ciphertexts as they are extracted.*)
(***************************************************************************)
EXTENDS Integers, SequencesExt

CONSTANTS
    Ctxts,          \* ciphertexts
    MaxCtxts,       \* classes, and ciphertexts of an encrypted model
    Sessions,       \* session identifiers
    SizeMax         \* largest size_t

ASSUME MessageAssumption == MaxCtxts \in Nat \ {0}

\* compute_index as long as nobody sets it: -1 in a size_t.
NoIndex == SizeMax

ComputeParams ==
    [compute_index : 0 .. MaxCtxts \cup {NoIndex}, class_num : 1 .. MaxCtxts,
     num_features : {MaxCtxts}, compute_unit : 1 .. 2, session_id : Sessions]

\* The messages and the classes of the objects they carry.
Objects ==
    [ model   |-> <<"EncData">>,
      input   |-> <<"EncData", "PermVec">>,
      request |-> <<"ComputeParam">>,
      diff    |-> <<"EncData", "ComputeParam">>,
      ack     |-> <<"EncData">> ]

VARIABLES
    pc,
    message,        \* name of the message
    sent,           \* the objects the sender has, each a sequence of elements
    size,           \* size of the buffer
    stream,         \* what stands in the buffer
    loaded          \* the objects the receiver has loaded

msgVars == <<pc, message, sent, size, stream, loaded>>

-----------------------------------------------------------------------------
\* What operator<< writes for an element.
Tokens(class, x) ==
    IF class = "ComputeParam"
    THEN <<x.compute_index, x.class_num, x.num_features, x.compute_unit, x.session_id>>
    ELSE <<x>>

Width(class) == IF class = "ComputeParam" THEN 5 ELSE 1

\* Mutant: the number of elements is left out when there is one only.
save_to_streamBare(class, obj) ==
    LET elements == FlattenSeq([j \in DOMAIN obj |-> Tokens(class, obj[j])])
    IN IF Len(obj) <= 1 THEN elements ELSE <<Len(obj)>> \o elements

save_to_stream(class, obj) ==
    IF obj = <<>> THEN <<>>
    ELSE <<Len(obj)>> \o FlattenSeq([j \in DOMAIN obj |-> Tokens(class, obj[j])])

stream_size(class, obj) == Len(save_to_stream(class, obj))

\* What operator>> makes of the tokens of an element.
Element(class, t) ==
    IF class = "ComputeParam"
    THEN [compute_index |-> t[1], class_num |-> t[2], num_features |-> t[3],
          compute_unit |-> t[4], session_id |-> t[5]]
    ELSE t[1]

Readable(class, s) ==
    s # <<>> /\ Head(s) \in 1 .. MaxCtxts /\ Len(s) > Head(s) * Width(class)

load_from_stream(class, s) ==
    [j \in 1 .. Head(s) |->
        Element(class, SubSeq(s, 2 + (j - 1) * Width(class), 1 + j * Width(class)))]

Rest(class, s) == SubSeq(s, 2 + Head(s) * Width(class), Len(s))

-----------------------------------------------------------------------------
Vectors(S, n) == [1 .. n -> S]

\* What a sender puts into an object: an encrypted model has a ciphertext per
\* class, other encrypted data one, a permutation one number per class.
Contents(name, class) ==
    CASE class = "ComputeParam" -> Vectors(ComputeParams, 1)
      [] class = "PermVec" ->
            UNION {{p \in Vectors(0 .. n - 1, n) : IsInjective(p)} : n \in 1 .. MaxCtxts}
      [] class = "EncData" /\ name = "model" ->
            UNION {Vectors(Ctxts, n) : n \in 1 .. MaxCtxts}
      [] OTHER -> Vectors(Ctxts, 1)

Init ==
    /\ pc = "save"
    /\ message \in DOMAIN Objects
    /\ sent = <<>> /\ size = 0
    /\ stream = <<>> /\ loaded = <<>>

\* The sizes are added up before anything is saved.
Push ==
    /\ pc = "save" /\ Len(sent) < Len(Objects[message])
    /\ LET class == Objects[message][Len(sent) + 1] IN
         \E obj \in Contents(message, class) :
            /\ sent' = Append(sent, obj)
            /\ size' = size + stream_size(class, obj)
    /\ UNCHANGED <<pc, message, stream, loaded>>

\* All objects are saved to the stream over the buffer, and the buffer is sent.
Send ==
    /\ pc = "save" /\ Len(sent) = Len(Objects[message])
    /\ stream' = FlattenSeq([j \in DOMAIN sent |->
                     save_to_stream(Objects[message][j], sent[j])])
    /\ pc' = "load"
    /\ UNCHANGED <<message, sent, size, loaded>>

\* The receiver's next load: extraction fails where a number is expected and none
\* stands.
Load ==
    /\ pc = "load" /\ Len(loaded) < Len(Objects[message])
    /\ LET class == Objects[message][Len(loaded) + 1] IN
         IF Readable(class, stream)
         THEN /\ loaded' = Append(loaded, load_from_stream(class, stream))
              /\ stream' = Rest(class, stream)
              /\ UNCHANGED pc
         ELSE pc' = "failed" /\ UNCHANGED <<stream, loaded>>
    /\ UNCHANGED <<message, sent, size>>

Received ==
    /\ pc = "load" /\ Len(loaded) = Len(Objects[message])
    /\ pc' = "done"
    /\ UNCHANGED <<message, sent, size, stream, loaded>>

Next == Push \/ Send \/ Load \/ Received \/ (pc = "done" /\ UNCHANGED msgVars)

Spec == Init /\ [][Next]_msgVars

-----------------------------------------------------------------------------
\* A message fills its buffer to the end, and what the receiver loads, object
\* after object and with nothing between them, is what the sender had, with
\* nothing left over: the index that is not set, too.
RoundTrip ==
    /\ pc # "failed"
    /\ pc = "load" /\ loaded = <<>> => Len(stream) = size
    /\ pc = "done" => loaded = sent /\ stream = <<>>
=============================================================================
