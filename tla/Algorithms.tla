----------------------------- MODULE Algorithms -----------------------------
(***************************************************************************)
(* What the algorithms that keep no state promise, of any input out of     *)
(* given sets: a buffer, an object list, or the lengths of a message and   *)
(* of the datagram that arrives.                                           *)
(***************************************************************************)
EXTENDS PR6Codec, ObjectDispatch

CONSTANTS
    Sample, MaxLen,             \* bytes and length of a buffer
    ObjectIDs, MethodLists,     \* of an object list
    MaxObjects,                 \* length of an object list
    PayloadLens, LenErrors      \* of a message; bytes the network adds, less one

Roles == {"a", "b"}

\* An object has one method of an index.
OneOfAnIndex(methods) ==
    \A i, k \in 1..Len(methods) : methods[i].methodIndex = methods[k].methodIndex => i = k

ASSUME InputsAssumption ==
    /\ Sample \subseteq Bytes /\ MaxLen \in Nat /\ ObjectIDs \subseteq Nat /\ MaxObjects \in Nat
    /\ MethodLists \subseteq Seq([methodIndex : Nat, role : SUBSET Roles])
    /\ \A methods \in MethodLists : OneOfAnIndex(methods)
    /\ PayloadLens \subseteq Uint16 /\ LenErrors \subseteq Nat

W == INSTANCE PeerWrapper

\* The sequences of up to max elements of S.
Sequences(S, max) == {SubSeq(f, 1, n) : f \in [1..max -> S], n \in 0..max}

Buffers == Sequences(Sample, MaxLen)

\* Lists in the order the search needs.
Ascents ==
    {ids \in Sequences(ObjectIDs, MaxObjects) : \A i, j \in 1..Len(ids) : i < j => ids[i] < ids[j]}

ObjectLists ==
    {[i \in 1..Len(ids) |-> [objectID |-> ids[i], method |-> methods[i]]] :
        ids \in Ascents, methods \in [1..MaxObjects -> MethodLists]}

VARIABLES kind, input

Given ==
    \/ kind = "buffer" /\ input \in Buffers
    \/ kind = "objects" /\ input \in ObjectLists
    \/ kind = "datagram" /\ input \in PayloadLens \X LenErrors

-----------------------------------------------------------------------------
\* Read from any buffer, a length determinant is the one encoding of its value
\* (pr6_encoder_decoder.c:33-87): what decodes encodes to the same bytes.
OneEncoding == kind = "buffer" => Canonical(input)

\* The value of the first two bytes, encoded in front of the rest of the buffer,
\* is read back exactly: no byte of what follows is taken for a part of it (:89-126).
ReadBack ==
    kind = "buffer" /\ Len(input) >= 2
        => RoundTrip(256 * input[1] + input[2], SubSeq(input, 3, Len(input)))

\* A length determinant once read is read the same when more bytes are said to be
\* there: the server parses its method list with the right length and reads it again
\* with a wrong one, never below the right one (pr6_server.c:82, :243).
ReadsTheSame == kind = "buffer" => \A k \in 0..Len(input) : ReadsOn(input, k)

\* A datagram is taken as a whole, with the header and for the recipient it was made
\* for, or not at all (pr6_peer.c:101-192, :264-348).
UnpackedWhole ==
    kind = "datagram" =>
        \A tag \in W!RequestTags \cup {"METHOD_RES"} :
            W!Unpacked("here", "there", 1, tag, input[1], input[1] + input[2] + W!SizeOverhead - 1)

\* The two dispatchers give one verdict for every object, method and role, of every
\* list in the order the search needs (pr6_server_object.c:94-141, object_class.rb:123).
SameVerdict ==
    kind = "objects" =>
        \A id \in ObjectIDs, index \in 0..METHOD_INDEX_MAX, role \in SUBSET Roles :
            ServerObjectInterface(input, id, index, role)
                = serverObjectInterface(Hash(input), id, index, role)
=============================================================================
