------------------------------ MODULE PR6Codec ------------------------------
(***************************************************************************)
(* The variable length integers of pr6_encoder_decoder.c, the length       *)
(* determinants of arguments and return values. A buffer is a sequence of  *)
(* bytes and its byte length the length of the sequence.                   *)
(***************************************************************************)
EXTENDS Naturals, Sequences

Bytes == 0..255
Uint16 == {n \in Nat : n < 65536}

SizeofVint(n) == IF n < 128 THEN 1 ELSE IF n < 256 THEN 2 ELSE 3

\* Faulty variant: the shorter long form is used up to one value too far.
Encoded_OffByOne(n) ==
    IF n < 128 THEN <<n>>
    ELSE IF n <= 256 THEN <<129, n % 256>>
    ELSE <<130, n \div 256, n % 256>>

Encoded(n) ==
    IF SizeofVint(n) = 1 THEN <<n>>
    ELSE IF SizeofVint(n) = 2 THEN <<129, n>>
    ELSE <<130, n \div 256, n % 256>>

\* What is written, nothing if it does not fit.
PutVint(n, max) == IF SizeofVint(n) <= max THEN Encoded(n) ELSE <<>>

\* The bytes read (none if the input is refused) and the value they encode.
Nothing == [read |-> 0, value |-> 0]

\* Faulty variant: a value with a shorter encoding is accepted.
LongForm_AnyValue(bytes, value) == [read |-> bytes + 1, value |-> value]

\* One or two bytes after the first; a value with a shorter encoding is refused.
LongForm(bytes, value) ==
    IF (bytes = 1 /\ value > 127) \/ (bytes = 2 /\ value > 255)
    THEN [read |-> bytes + 1, value |-> value]
    ELSE Nothing

\* Faulty variant: a length determinant of two bytes must end the buffer.
GetVint_Whole(in) ==
    IF in = <<>> THEN Nothing
    ELSE IF in[1] < 128 THEN [read |-> 1, value |-> in[1]]
    ELSE IF in[1] = 129 /\ Len(in) = 2 THEN LongForm(1, in[2])
    ELSE IF in[1] = 130 /\ Len(in) > 2 THEN LongForm(2, 256 * in[2] + in[3])
    ELSE Nothing

GetVint(in) ==
    IF in = <<>> THEN Nothing
    ELSE IF in[1] < 128 THEN [read |-> 1, value |-> in[1]]
    ELSE IF in[1] = 129 /\ Len(in) > 1 THEN LongForm(1, in[2])
    ELSE IF in[1] = 130 /\ Len(in) > 2 THEN LongForm(2, 256 * in[2] + in[3])
    ELSE Nothing

\* Whatever is put is got back, whatever follows it in the buffer.
RoundTrip(n, rest) ==
    GetVint(PutVint(n, 3) \o rest) = [read |-> SizeofVint(n), value |-> n]

\* What is got is what would be put: a value has one encoding.
Canonical(in) ==
    LET got == GetVint(in)
        put == PutVint(got.value, got.read)
    IN  got.read > 0 => Len(put) = got.read /\ \A i \in 1..got.read : in[i] = put[i]

\* What was read from the first `k` bytes is read again from more of them.
ReadsOn(in, k) ==
    GetVint(SubSeq(in, 1, k)).read > 0 => GetVint(in) = GetVint(SubSeq(in, 1, k))
=============================================================================
