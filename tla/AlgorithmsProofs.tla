-------------------------- MODULE AlgorithmsProofs --------------------------
(***************************************************************************)
(* The algorithms without state for all inputs: the length determinants,   *)
(* the message wrapper and the two object dispatchers.                     *)
(***************************************************************************)
EXTENDS Algorithms, Integers, SequenceTheorems, WellFoundedInduction, TLAPS

-----------------------------------------------------------------------------
(* Length determinants *)

\* Base 256.
LEMMA TwoBytes ==
    ASSUME NEW n \in Uint16
    PROVE  /\ n \div 256 \in Bytes /\ n % 256 \in Bytes
           /\ 256 * (n \div 256) + (n % 256) = n
  BY DEF Uint16, Bytes

LEMMA ByteRange ==
    ASSUME NEW b \in Bytes
    PROVE  b \in Int /\ 0 <= b /\ b <= 255 /\ b \in Uint16
  BY DEF Bytes, Uint16

LEMMA InRange ==
    ASSUME NEW n \in Int, 0 <= n, n <= 65535
    PROVE  n \in Uint16
  BY DEF Uint16

LEMMA FromTwoBytes ==
    ASSUME NEW a \in Bytes, NEW b \in Bytes
    PROVE  /\ 256 * a + b \in Uint16
           /\ (256 * a + b) \div 256 = a /\ (256 * a + b) % 256 = b
<1>1. a \in Int /\ 0 <= a /\ a <= 255 /\ b \in Int /\ 0 <= b /\ b <= 255
  BY ByteRange
<1> DEFINE n == 256 * a + b
<1>2. n \in Int /\ 0 <= n /\ n <= 65535
  BY <1>1
<1>3. n \div 256 = a
  BY <1>1
<1>4. n % 256 = b
  BY <1>1
<1>5. n \in Uint16
  BY <1>2, InRange
<1> QED BY <1>3, <1>4, <1>5

\* What is written, by the size of its encoding.
LEMMA WrittenBytes ==
    ASSUME NEW n \in Uint16
    PROVE  PutVint(n, SizeofVint(n)) =
              IF n < 128 THEN <<n>>
              ELSE IF n < 256 THEN <<129, n>>
              ELSE <<130, n \div 256, n % 256>>
<1>1. PutVint(n, SizeofVint(n)) = Encoded(n)
  BY DEF PutVint, SizeofVint
<1> QED BY <1>1 DEF Encoded, SizeofVint, Uint16

LEMMA SizeFits ==
    ASSUME NEW n \in Uint16
    PROVE  PutVint(n, 3) = PutVint(n, SizeofVint(n))
  BY DEF PutVint, SizeofVint

\* Every value is read back from what was put, whatever bytes follow it.
THEOREM PutThenGet == \A n \in Uint16 : \A rest \in Seq(Bytes) : RoundTrip(n, rest)
<1> SUFFICES ASSUME NEW n \in Uint16, NEW rest \in Seq(Bytes)
             PROVE  GetVint(PutVint(n, 3) \o rest) = [read |-> SizeofVint(n), value |-> n]
  BY DEF RoundTrip
<1> DEFINE buf == PutVint(n, 3) \o rest
<1>1. n \in Nat /\ n <= 65535
  BY DEF Uint16
<1>2. CASE n < 128
  <2>1. PutVint(n, 3) = <<n>> /\ n \in Bytes
    BY <1>1, <1>2, WrittenBytes, SizeFits DEF Bytes
  <2>2. buf # <<>> /\ buf[1] = n
    BY <2>1
  <2> QED BY <1>2, <2>2 DEF GetVint, SizeofVint
<1>3. CASE 128 <= n /\ n < 256
  <2>1. PutVint(n, 3) = <<129, n>> /\ n \in Bytes /\ 129 \in Bytes
    BY <1>1, <1>3, WrittenBytes, SizeFits DEF Bytes
  <2>2. buf # <<>> /\ buf[1] = 129 /\ buf[2] = n /\ Len(buf) > 1
    BY <2>1
  <2> HIDE DEF buf
  <2>3. GetVint(buf) = LongForm(1, n)
    BY <2>2 DEF GetVint
  <2>4. GetVint(buf) = [read |-> 2, value |-> n] /\ SizeofVint(n) = 2
    BY <1>1, <1>3, <2>3 DEF LongForm, SizeofVint
  <2> QED BY <2>4 DEF buf
<1>4. CASE 256 <= n
  <2> DEFINE a == n \div 256
             b == n % 256
  <2>1. a \in Bytes /\ b \in Bytes /\ 130 \in Bytes /\ 256 * a + b = n
    BY TwoBytes DEF Bytes
  <2>2. PutVint(n, 3) = <<130, a, b>>
    BY <1>1, <1>4, WrittenBytes, SizeFits
  <2> HIDE DEF a, b
  <2>3. buf # <<>> /\ buf[1] = 130 /\ buf[2] = a /\ buf[3] = b /\ Len(buf) > 2
    BY <2>1, <2>2
  <2> HIDE DEF buf
  <2>4. GetVint(buf) = LongForm(2, n)
    BY <2>1, <2>3 DEF GetVint
  <2>5. GetVint(buf) = [read |-> 3, value |-> n] /\ SizeofVint(n) = 3
    BY <1>1, <1>4, <2>4 DEF LongForm, SizeofVint
  <2> QED BY <2>5 DEF buf
<1> QED BY <1>1, <1>2, <1>3, <1>4

\* What is read from any buffer encodes to exactly the bytes that were read.
THEOREM GetThenPut == \A buf \in Seq(Bytes) : Canonical(buf)
<1> SUFFICES ASSUME NEW buf \in Seq(Bytes), GetVint(buf).read > 0
             PROVE  LET put == PutVint(GetVint(buf).value, GetVint(buf).read)
                    IN  /\ Len(put) = GetVint(buf).read
                        /\ \A i \in 1..GetVint(buf).read : buf[i] = put[i]
  BY DEF Canonical
<1>1. buf # <<>> /\ Len(buf) \in Nat /\ Len(buf) >= 1 /\ buf[1] \in Bytes
  BY DEF GetVint, Nothing
<1>2. CASE buf[1] < 128
  <2>1. GetVint(buf) = [read |-> 1, value |-> buf[1]]
    BY <1>1, <1>2 DEF GetVint
  <2>2. buf[1] \in Uint16 /\ SizeofVint(buf[1]) = 1
    BY <1>1, <1>2, ByteRange DEF SizeofVint
  <2>3. PutVint(buf[1], 1) = <<buf[1]>>
    BY <1>2, <2>2, WrittenBytes
  <2> QED BY <2>1, <2>3
<1>3. CASE ~(buf[1] < 128) /\ buf[1] = 129
  <2>1. Len(buf) > 1 /\ GetVint(buf) = LongForm(1, buf[2])
    BY <1>1, <1>3 DEF GetVint, Nothing
  <2>2. buf[2] \in Bytes /\ buf[2] > 127 /\ GetVint(buf) = [read |-> 2, value |-> buf[2]]
    BY <1>1, <2>1 DEF LongForm, Nothing
  <2>3. buf[2] \in Uint16 /\ buf[2] < 256 /\ ~(buf[2] < 128) /\ SizeofVint(buf[2]) = 2
    BY <2>2, ByteRange DEF SizeofVint
  <2>4. PutVint(buf[2], 2) = <<129, buf[2]>>
    BY <2>3, WrittenBytes
  <2> QED BY <1>3, <2>2, <2>4
<1>4. CASE ~(buf[1] < 128) /\ buf[1] # 129
  <2> DEFINE n == 256 * buf[2] + buf[3]
  <2>1. Len(buf) > 2 /\ buf[1] = 130 /\ GetVint(buf) = LongForm(2, n)
    BY <1>1, <1>4 DEF GetVint, Nothing
  <2>2. buf[2] \in Bytes /\ buf[3] \in Bytes
    BY <2>1
  <2>3. n \in Uint16 /\ n \div 256 = buf[2] /\ n % 256 = buf[3]
    BY <2>2, FromTwoBytes
  <2> HIDE DEF n
  <2>4. n > 255 /\ GetVint(buf) = [read |-> 3, value |-> n]
    BY <2>1 DEF LongForm, Nothing
  <2>5. ~(n < 128) /\ ~(n < 256) /\ SizeofVint(n) = 3
    BY <2>3, <2>4 DEF SizeofVint, Uint16
  <2>6. PutVint(n, 3) = <<130, buf[2], buf[3]>>
    BY <2>3, <2>5, WrittenBytes
  <2>7. \A i \in 1..3 : i = 1 \/ i = 2 \/ i = 3
    OBVIOUS
  <2>8. Len(<<130, buf[2], buf[3]>>) = 3 /\ \A i \in 1..3 : buf[i] = <<130, buf[2], buf[3]>>[i]
    BY <2>1, <2>7
  <2> QED BY <2>4, <2>6, <2>8
<1> QED BY <1>2, <1>3, <1>4

\* A length determinant read from the beginning of a buffer is read again, the same,
\* from the whole of it (pr6_server.c:82, :243).
THEOREM ReadAgain == \A buf \in Seq(Bytes) : \A k \in 0..Len(buf) : ReadsOn(buf, k)
<1> SUFFICES ASSUME NEW buf \in Seq(Bytes), NEW k \in 0..Len(buf),
                    GetVint(SubSeq(buf, 1, k)).read > 0
             PROVE  GetVint(buf) = GetVint(SubSeq(buf, 1, k))
  BY DEF ReadsOn
<1> DEFINE head == SubSeq(buf, 1, k)
<1>1. /\ head \in Seq(Bytes) /\ Len(head) = k /\ k <= Len(buf) /\ k \in Nat /\ Len(buf) \in Nat
      /\ \A i \in 1..k : head[i] = buf[i]
  OBVIOUS
<1>2. head # <<>>
  BY DEF GetVint, Nothing
<1>3. k >= 1 /\ buf # <<>> /\ head[1] = buf[1]
  <2>1. k # 0
    BY <1>1, <1>2
  <2> QED BY <1>1, <2>1
<1>4. k > 1 => head[2] = buf[2] /\ Len(buf) > 1
  BY <1>1
<1>5. k > 2 => head[3] = buf[3] /\ head[2] = buf[2] /\ Len(buf) > 2
  BY <1>1
<1> HIDE DEF head
<1>6. GetVint(head).read > 0
  BY DEF head
<1>7. buf[1] \in Int
  <2>1. buf[1] \in Bytes
    BY <1>1, <1>3, ElementOfSeq
  <2> QED BY <2>1, ByteRange
<1>8. CASE buf[1] < 128
  BY <1>2, <1>3, <1>8 DEF GetVint, head
<1>9. CASE ~(buf[1] < 128) /\ buf[1] = 129
  <2>1. k > 1
    BY <1>1, <1>2, <1>3, <1>6, <1>9 DEF GetVint, Nothing
  <2> QED BY <1>1, <1>2, <1>3, <1>4, <1>9, <2>1 DEF GetVint, head
<1>10. CASE ~(buf[1] < 128) /\ buf[1] = 130
  <2>1. k > 2
    BY <1>1, <1>2, <1>3, <1>6, <1>10 DEF GetVint, Nothing
  <2> QED BY <1>1, <1>2, <1>3, <1>5, <1>10, <2>1 DEF GetVint, head
<1>11. CASE ~(buf[1] < 128) /\ buf[1] # 129 /\ buf[1] # 130
  BY <1>2, <1>3, <1>6, <1>11 DEF GetVint, Nothing
<1> QED BY <1>8, <1>9, <1>10, <1>11

-----------------------------------------------------------------------------
(* The message wrapper *)

\* However many bytes arrive of a datagram, its message is unpacked whole, for its
\* recipient, if they are its own and few enough for the buffers, and refused
\* otherwise (pr6_peer.c:101-192, :264-348, ext_pr6_peer.c:81-137, udp_node.rb:46).
THEOREM UnpackedAlwaysWhole ==
    \A entity, remote, counter : \A tag \in W!RequestTags \cup {"METHOD_RES"} :
        \A len, arrived \in Nat :
            len < 65536 => W!Unpacked(entity, remote, counter, tag, len, arrived)
<1> SUFFICES ASSUME NEW entity, NEW remote, NEW counter, NEW tag \in W!RequestTags \cup {"METHOD_RES"},
                    NEW len \in Nat, NEW arrived \in Nat, len < 65536
             PROVE  W!Unpacked(entity, remote, counter, tag, len, arrived)
  OBVIOUS
<1> DEFINE sent == W!packMessage(entity, remote, counter, tag, len)
           whole == [len |-> len, to |-> remote, from |-> entity, counter |-> counter,
                     recipient |-> IF tag = "METHOD_RES" THEN "CLIENT" ELSE "SERVER"]
<1>1. W!Uint16(len) = len
  BY DEF W!Uint16
<1>2. CASE len = 0
  BY <1>1, <1>2 DEF W!Unpacked, W!packMessage, W!PeerOutput
<1>3. CASE len > 0
  <2>1. sent = [to |-> remote, from |-> entity, counter |-> counter,
                payloadLen |-> len, tag |-> tag, len |-> 38 + len]
    BY <1>1, <1>3 DEF W!packMessage, W!PeerOutput, W!SizeOverhead, W!SizeHeader, W!SizeMac
  <2> DEFINE D(n) == [to |-> remote, from |-> entity, counter |-> counter,
                      payloadLen |-> len, tag |-> tag, len |-> n]
  <2>2. ASSUME NEW n \in Nat
        PROVE  W!unpackMessage(D(n)) = IF n < 65536 /\ n = len + 38 THEN whole ELSE W!Refused
    <3>1. W!getGCM(D(n)) = IF n > 38 /\ n >= 38 + len THEN 38 + len ELSE 0
      BY <2>2 DEF W!getGCM, W!SizeOverhead, W!SizeHeader, W!SizeMac
    <3>2. CASE n # len + 38
      <4>1. ~(W!getGCM(D(n)) > 0 /\ W!getGCM(D(n)) = n)
        BY <3>1, <3>2
      <4> QED BY <4>1, <3>2 DEF W!unpackMessage, W!PeerInput
    <3>3. CASE n = len + 38 /\ n >= 65536
      <4>1. W!Uint16(n) = n - 65536 /\ n - 65536 < len
        BY <3>3 DEF W!Uint16
      <4> QED BY <3>3, <4>1 DEF W!unpackMessage, W!PeerInput
    <3>4. CASE n = len + 38 /\ n < 65536
      <4>1. W!Uint16(n) = n /\ n >= len
        BY <3>4 DEF W!Uint16
      <4>2. W!getGCM(D(n)) = n /\ n > 0
        BY <3>1, <3>4, <1>3
      <4>3. (tag \in W!RequestTags) = (tag # "METHOD_RES")
        BY DEF W!RequestTags
      <4>4. W!PeerInput(D(n), n) = whole
        BY <4>1, <4>2, <4>3 DEF W!PeerInput
      <4> QED BY <3>4, <4>1, <4>4 DEF W!unpackMessage
    <3> QED BY <3>2, <3>3, <3>4
  <2>3. W!Arrived(sent, arrived) = D(arrived)
    BY <2>1 DEF W!Arrived
  <2>4. W!recvfrom(D(arrived)) = D(IF arrived > 1200 THEN 1200 ELSE arrived)
    BY DEF W!recvfrom, W!RECV_MAX
  <2>5. W!unpackMessage(W!Arrived(sent, arrived))
            = IF arrived < 65536 /\ arrived = len + 38 THEN whole ELSE W!Refused
    BY <2>2, <2>3
  <2>6. W!unpackMessage(W!recvfrom(W!Arrived(sent, arrived)))
            = IF (IF arrived > 1200 THEN 1200 ELSE arrived) = len + 38 THEN whole ELSE W!Refused
    <3>1. (IF arrived > 1200 THEN 1200 ELSE arrived) \in Nat
          /\ (IF arrived > 1200 THEN 1200 ELSE arrived) < 65536
      OBVIOUS
    <3> HIDE DEF D, whole
    <3> QED BY <2>2, <2>3, <2>4, <3>1
  <2>7. (IF arrived < 65536 THEN arrived ELSE 0) = len + 38
            <=> arrived < 65536 /\ arrived = len + 38
    OBVIOUS
  <2> HIDE DEF sent, whole, D
  <2>8. W!Unpacked(entity, remote, counter, tag, len, arrived) =
          (IF len = 0 THEN sent = W!Refused
           ELSE /\ W!unpackMessage(W!Arrived(sent, arrived)) =
                       (IF (IF arrived < 65536 THEN arrived ELSE 0) = len + 38 THEN whole ELSE W!Refused)
                /\ W!unpackMessage(W!recvfrom(W!Arrived(sent, arrived))) =
                       (IF (IF arrived > 1200 THEN 1200 ELSE arrived) = len + 38 THEN whole ELSE W!Refused))
    BY DEF W!Unpacked, W!SizeOverhead, W!SizeHeader, W!SizeMac, W!RECV_MAX, sent, whole
  <2> QED BY <1>3, <2>5, <2>6, <2>7, <2>8
<1> QED BY <1>2, <1>3

-----------------------------------------------------------------------------
(* The object list *)

\* Every nonempty set of numbers has a least one.
LEMMA LeastNumber ==
    ASSUME NEW K \in SUBSET Nat, K # {}
    PROVE  \E i \in K : \A k \in K : i <= k
<1>1. PICK i \in K : \A k \in K : <<k, i>> \notin OpToRel(<, Nat)
  BY NatLessThanWellFounded, WFMin
<1>2. \A k \in K : ~(k < i)
  BY <1>1 DEF OpToRel
<1> QED BY <1>2

\* The place of an object between two others.
Between(list, id, lower, upper) == {i \in (lower + 1)..upper : list[i].objectID = id}
Place(list, id, lower, upper) ==
    IF Between(list, id, lower, upper) = {} THEN 0
    ELSE CHOOSE i \in Between(list, id, lower, upper) : TRUE

\* A step of the search, with the search to go on with.
Searched(list, id, f, lower, upper) ==
    LET mid == (lower + upper) \div 2
    IN  IF lower >= upper THEN 0
        ELSE IF list[mid + 1].objectID > id THEN f[<<lower, mid>>]
        ELSE IF list[mid + 1].objectID < id THEN f[<<mid + 1, upper>>]
        ELSE mid + 1

LEMMA Halves ==
    ASSUME NEW n \in Nat, NEW lower \in 0..n, NEW upper \in 0..n, lower < upper
    PROVE  LET mid == (lower + upper) \div 2
           IN  /\ mid \in 0..n /\ mid + 1 \in 0..n /\ mid + 1 \in 1..n
               /\ lower <= mid /\ mid < upper
  OBVIOUS

\* In a list in ascending order the halves can be told by their middle.
LEMMA PlaceByHalves ==
    ASSUME NEW S, NEW list \in Seq(S), \A i \in 1..Len(list) : list[i].objectID \in Nat,
           Ascending(list), NEW id \in Nat,
           NEW lower \in 0..Len(list), NEW upper \in 0..Len(list)
    PROVE  LET mid == (lower + upper) \div 2
           IN  /\ lower >= upper => Place(list, id, lower, upper) = 0
               /\ lower < upper /\ list[mid + 1].objectID > id =>
                     Place(list, id, lower, upper) = Place(list, id, lower, mid)
               /\ lower < upper /\ list[mid + 1].objectID < id =>
                     Place(list, id, lower, upper) = Place(list, id, mid + 1, upper)
               /\ lower < upper /\ list[mid + 1].objectID = id =>
                     Place(list, id, lower, upper) = mid + 1
<1> DEFINE mid == (lower + upper) \div 2
<1>1. Len(list) \in Nat
  OBVIOUS
<1>2. ASSUME lower >= upper
      PROVE  Place(list, id, lower, upper) = 0
  BY <1>1, <1>2 DEF Place, Between
<1>3. ASSUME lower < upper
      PROVE  mid \in 0..Len(list) /\ mid + 1 \in 1..Len(list) /\ lower <= mid /\ mid < upper
  BY <1>1, <1>3, Halves
<1> HIDE DEF mid
<1>4. ASSUME lower < upper, list[mid + 1].objectID > id
      PROVE  Place(list, id, lower, upper) = Place(list, id, lower, mid)
  <2>1. Between(list, id, lower, upper) = Between(list, id, lower, mid)
    <3>1. ASSUME NEW i \in (lower + 1)..upper, list[i].objectID = id
          PROVE  i <= mid
      BY <1>1, <1>3, <1>4, <3>1 DEF Ascending
    <3> QED BY <1>1, <1>3, <1>4, <3>1 DEF Between
  <2> QED BY <2>1 DEF Place
<1>5. ASSUME lower < upper, list[mid + 1].objectID < id
      PROVE  Place(list, id, lower, upper) = Place(list, id, mid + 1, upper)
  <2>1. Between(list, id, lower, upper) = Between(list, id, mid + 1, upper)
    <3>1. ASSUME NEW i \in (lower + 1)..upper, list[i].objectID = id
          PROVE  i >= mid + 2
      <4>1. i \in 1..Len(list)
        BY <1>1, <3>1
      <4>2. i # mid + 1
        BY <1>3, <1>5, <3>1
      <4>3. ~(i < mid + 1)
        BY <1>3, <1>5, <3>1, <4>1 DEF Ascending
      <4> QED BY <1>3, <4>1, <4>2, <4>3
    <3> QED BY <1>1, <1>3, <1>5, <3>1 DEF Between
  <2> QED BY <2>1 DEF Place
<1>6. ASSUME lower < upper, list[mid + 1].objectID = id
      PROVE  Place(list, id, lower, upper) = mid + 1
  <2>1. Between(list, id, lower, upper) = {mid + 1}
    <3>1. ASSUME NEW i \in (lower + 1)..upper, list[i].objectID = id
          PROVE  i = mid + 1
      BY <1>1, <1>3, <1>6, <3>1 DEF Ascending
    <3> QED BY <1>1, <1>3, <1>6, <3>1 DEF Between
  <2> QED BY <2>1 DEF Place
<1> QED BY <1>2, <1>4, <1>5, <1>6 DEF mid

\* The search finds the place of an object, wherever it is.
LEMMA SearchFinds ==
    ASSUME NEW S, NEW list \in Seq(S), \A i \in 1..Len(list) : list[i].objectID \in Nat,
           Ascending(list), NEW id \in Nat
    PROVE  Found(list, id) = Place(list, id, 0, Len(list))
<1> DEFINE n == Len(list)
           Parts == (0..n) \X (0..n)
           search == CHOOSE f : f = [p \in Parts |-> Searched(list, id, f, p[1], p[2])]
           places == [p \in Parts |-> Place(list, id, p[1], p[2])]
<1>1. n \in Nat
  OBVIOUS
<1>2. Found(list, id) = search[<<0, n>>]
  BY DEF Found, Searched
<1> HIDE DEF search
<1>3. ASSUME NEW lower \in 0..n, NEW upper \in 0..n
      PROVE  Place(list, id, lower, upper) = Searched(list, id, places, lower, upper)
  <2> DEFINE mid == (lower + upper) \div 2
  <2>1. CASE lower >= upper
    BY <1>1, <2>1, PlaceByHalves DEF Searched
  <2>2. CASE lower < upper
    <3>1. mid \in 0..n /\ mid + 1 \in 0..n /\ mid + 1 \in 1..n
      BY <1>1, <2>2, Halves
    <3>2. places[<<lower, mid>>] = Place(list, id, lower, mid)
          /\ places[<<mid + 1, upper>>] = Place(list, id, mid + 1, upper)
      BY <3>1
    <3>3. list[mid + 1].objectID \in Nat
      BY <3>1
    <3>4. Searched(list, id, places, lower, upper) =
            IF list[mid + 1].objectID > id THEN Place(list, id, lower, mid)
            ELSE IF list[mid + 1].objectID < id THEN Place(list, id, mid + 1, upper)
            ELSE mid + 1
      BY <1>1, <2>2, <3>2 DEF Searched
    <3>5. /\ list[mid + 1].objectID > id =>
                     Place(list, id, lower, upper) = Place(list, id, lower, mid)
          /\ list[mid + 1].objectID < id =>
                     Place(list, id, lower, upper) = Place(list, id, mid + 1, upper)
          /\ list[mid + 1].objectID = id =>
                     Place(list, id, lower, upper) = mid + 1
      BY <2>2, PlaceByHalves
    <3> HIDE DEF mid, places
    <3> QED BY <3>3, <3>4, <3>5
  <2> QED BY <1>1, <2>1, <2>2
<1>4. places = [p \in Parts |-> Searched(list, id, places, p[1], p[2])]
  <2> HIDE DEF n
  <2> QED BY <1>3
<1>5. search = [p \in Parts |-> Searched(list, id, search, p[1], p[2])]
  BY <1>4 DEF search
<1>6. \A lower, upper \in 0..n :
          search[<<lower, upper>>] = Searched(list, id, search, lower, upper)
  BY <1>5
<1> HIDE DEF n, places
<1> DEFINE Wrong(lower, upper) == search[<<lower, upper>>] # Place(list, id, lower, upper)
           K == {d \in Nat : \E lower, upper \in 0..n :
                                lower < upper /\ d = upper - lower /\ Wrong(lower, upper)}
<1>7. ASSUME NEW lower \in 0..n, NEW upper \in 0..n, Wrong(lower, upper)
      PROVE  /\ lower < upper
             /\ LET mid == (lower + upper) \div 2
                IN  Wrong(lower, mid) \/ Wrong(mid + 1, upper)
  <2> DEFINE mid == (lower + upper) \div 2
  <2>1. search[<<lower, upper>>] = Searched(list, id, search, lower, upper)
    BY <1>6
  <2>2. lower < upper
    <3>1. CASE lower >= upper
      <4>1. Place(list, id, lower, upper) = 0
        BY <3>1, PlaceByHalves DEF n
      <4> QED BY <1>7, <2>1, <3>1, <4>1 DEF Searched
    <3> QED BY <1>1, <3>1
  <2>3. mid \in 0..n /\ mid + 1 \in 1..n /\ list[mid + 1].objectID \in Nat
    <3>1. mid \in 0..n /\ mid + 1 \in 1..n
      BY <1>1, <2>2, Halves
    <3> QED BY <3>1 DEF n
  <2>4. Searched(list, id, search, lower, upper) =
            IF list[mid + 1].objectID > id THEN search[<<lower, mid>>]
            ELSE IF list[mid + 1].objectID < id THEN search[<<mid + 1, upper>>]
            ELSE mid + 1
    BY <1>1, <2>2 DEF Searched
  <2>5. /\ list[mid + 1].objectID > id =>
                     Place(list, id, lower, upper) = Place(list, id, lower, mid)
        /\ list[mid + 1].objectID < id =>
                     Place(list, id, lower, upper) = Place(list, id, mid + 1, upper)
        /\ list[mid + 1].objectID = id =>
                     Place(list, id, lower, upper) = mid + 1
    BY <2>2, PlaceByHalves DEF n
  <2> HIDE DEF mid
  <2>6. Wrong(lower, mid) \/ Wrong(mid + 1, upper)
    BY <1>7, <2>1, <2>3, <2>4, <2>5
  <2> QED BY <2>2, <2>6 DEF mid
<1>8. K = {}
  <2> SUFFICES ASSUME K # {} PROVE FALSE
    OBVIOUS
  <2>1. PICK d \in K : \A k \in K : d <= k
    <3> HIDE DEF Wrong
    <3> QED BY LeastNumber
  <2>2. PICK lower \in 0..n, upper \in 0..n :
            lower < upper /\ d = upper - lower /\ Wrong(lower, upper)
    BY <2>1
  <2> DEFINE mid == (lower + upper) \div 2
  <2>3. mid \in 0..n /\ mid + 1 \in 0..n /\ lower <= mid /\ mid < upper
    BY <1>1, <2>2, Halves
  <2>4. Wrong(lower, mid) \/ Wrong(mid + 1, upper)
    BY <1>7, <2>2
  <2> HIDE DEF mid, Wrong
  <2>5. CASE Wrong(lower, mid)
    <3>1. lower < mid
      <4> USE DEF Wrong
      <4> QED BY <1>7, <2>3, <2>5
    <3>2. mid - lower \in K
      BY <1>1, <2>3, <2>5, <3>1
    <3> HIDE DEF K
    <3> QED BY <1>1, <2>1, <2>2, <2>3, <3>2
  <2>6. CASE Wrong(mid + 1, upper)
    <3>1. mid + 1 < upper
      <4> USE DEF Wrong
      <4> QED BY <1>7, <2>3, <2>6
    <3>2. upper - (mid + 1) \in K
      BY <1>1, <2>3, <2>6, <3>1
    <3> HIDE DEF K
    <3> QED BY <1>1, <2>1, <2>2, <2>3, <3>2
  <2> QED BY <2>4, <2>5, <2>6
<1>9. ~Wrong(0, n)
  <2> SUFFICES ASSUME Wrong(0, n) PROVE FALSE
    OBVIOUS
  <2>0. 0 \in 0..n /\ n \in 0..n
    BY <1>1
  <2>1. 0 < n
    BY <1>7, <2>0
  <2> HIDE DEF Wrong
  <2>2. n \in K
    BY <1>1, <2>0, <2>1
  <2> QED BY <1>8, <2>2
<1> QED BY <1>2, <1>9 DEF n

\* What the hash of a list holds of an object.
RolesOf(methods) ==
    [index \in {methods[i].methodIndex : i \in 1..Len(methods)} |->
        (CHOOSE m \in {methods[i] : i \in 1..Len(methods)} : m.methodIndex = index).role]

LEMMA HashOf ==
    ASSUME NEW S, NEW list \in Seq(S), \A i \in 1..Len(list) : list[i].objectID \in Nat,
           Ascending(list)
    PROVE  /\ DOMAIN Hash(list) = {list[i].objectID : i \in 1..Len(list)}
           /\ \A i \in 1..Len(list) : Hash(list)[list[i].objectID] = RolesOf(list[i].method)
<1> DEFINE ids == {list[i].objectID : i \in 1..Len(list)}
           Entry(id) == CHOOSE e \in {list[i] : i \in 1..Len(list)} : e.objectID = id
<1>1. Hash(list) = [id \in ids |-> RolesOf(Entry(id).method)]
  BY DEF Hash, RolesOf
<1>2. ASSUME NEW i \in 1..Len(list)
      PROVE  Entry(list[i].objectID) = list[i]
  <2>1. \A k \in 1..Len(list) : list[k].objectID = list[i].objectID => k = i
    <3> SUFFICES ASSUME NEW k \in 1..Len(list), list[k].objectID = list[i].objectID, k # i
                 PROVE  FALSE
      OBVIOUS
    <3>1. k < i \/ i < k
      OBVIOUS
    <3> QED BY <3>1 DEF Ascending
  <2>2. \A e \in {list[k] : k \in 1..Len(list)} : e.objectID = list[i].objectID => e = list[i]
    BY <2>1
  <2> QED BY <2>2
<1> HIDE DEF Entry
<1> QED BY <1>1, <1>2

LEMMA RolesByIndex ==
    ASSUME NEW S, NEW methods \in Seq(S), OneOfAnIndex(methods)
    PROVE  /\ DOMAIN RolesOf(methods) = {methods[i].methodIndex : i \in 1..Len(methods)}
           /\ \A i \in 1..Len(methods) : RolesOf(methods)[methods[i].methodIndex] = methods[i].role
<1> DEFINE indices == {methods[i].methodIndex : i \in 1..Len(methods)}
           Entry(index) == CHOOSE m \in {methods[i] : i \in 1..Len(methods)} : m.methodIndex = index
<1>1. RolesOf(methods) = [index \in indices |-> Entry(index).role]
  BY DEF RolesOf
<1>2. ASSUME NEW i \in 1..Len(methods)
      PROVE  Entry(methods[i].methodIndex) = methods[i]
  <2>1. \A m \in {methods[k] : k \in 1..Len(methods)} :
            m.methodIndex = methods[i].methodIndex => m = methods[i]
    BY DEF OneOfAnIndex
  <2> QED BY <2>1
<1> HIDE DEF Entry
<1> QED BY <1>1, <1>2

\* The two dispatchers give one verdict for every object, method and role, of every
\* list in the order the search needs, with one method of an index to an object
\* (pr6_server_object.c:94-141, object_class.rb:123).
THEOREM DispatchersAgree ==
    \A roles : \A list \in Seq([objectID : Nat, method : Seq([methodIndex : Nat, role : roles])]) :
        /\ Ascending(list)
        /\ \A i \in 1..Len(list) : OneOfAnIndex(list[i].method)
        => \A id, index \in Nat : \A role :
               ServerObjectInterface(list, id, index, role)
                 = serverObjectInterface(Hash(list), id, index, role)
<1> SUFFICES ASSUME NEW roles,
                    NEW list \in Seq([objectID : Nat, method : Seq([methodIndex : Nat, role : roles])]),
                    Ascending(list), \A i \in 1..Len(list) : OneOfAnIndex(list[i].method),
                    NEW id \in Nat, NEW index \in Nat, NEW role
             PROVE  ServerObjectInterface(list, id, index, role)
                      = serverObjectInterface(Hash(list), id, index, role)
  OBVIOUS
<1>1. /\ Len(list) \in Nat
      /\ \A i \in 1..Len(list) : /\ list[i].objectID \in Nat
                                 /\ list[i].method \in Seq([methodIndex : Nat, role : roles])
  <2>1. ASSUME NEW i \in 1..Len(list)
        PROVE  list[i] \in [objectID : Nat, method : Seq([methodIndex : Nat, role : roles])]
    BY ElementOfSeq
  <2> QED BY <2>1, LenProperties
<1>2. Found(list, id) = Place(list, id, 0, Len(list))
  BY <1>1, SearchFinds
<1>3. /\ DOMAIN Hash(list) = {list[i].objectID : i \in 1..Len(list)}
      /\ \A i \in 1..Len(list) : Hash(list)[list[i].objectID] = RolesOf(list[i].method)
  BY <1>1, HashOf
<1>4. CASE \A i \in 1..Len(list) : list[i].objectID # id
  <2>1. Found(list, id) = 0
    BY <1>1, <1>2, <1>4 DEF Place, Between
  <2>2. id \notin DOMAIN Hash(list)
    BY <1>3, <1>4
  <2> QED BY <2>1, <2>2 DEF ServerObjectInterface, serverObjectInterface
<1>5. ASSUME NEW p \in 1..Len(list), list[p].objectID = id
      PROVE  ServerObjectInterface(list, id, index, role)
               = serverObjectInterface(Hash(list), id, index, role)
  <2>1. Found(list, id) \in 1..Len(list) /\ list[Found(list, id)].objectID = id
    <3>1. p \in Between(list, id, 0, Len(list))
      BY <1>1, <1>5 DEF Between
    <3>2. Found(list, id) \in Between(list, id, 0, Len(list))
      BY <1>2, <3>1 DEF Place
    <3> QED BY <1>1, <3>2 DEF Between
  <2> DEFINE methods == list[Found(list, id)].method
             places == {i \in 1..Len(methods) : methods[i].methodIndex = index}
             first == CHOOSE i \in places : \A k \in places : i <= k
  <2>2. methods \in Seq([methodIndex : Nat, role : roles]) /\ OneOfAnIndex(methods)
    BY <1>1, <2>1
  <2>3. id \in DOMAIN Hash(list) /\ Hash(list)[id] = RolesOf(methods)
    BY <1>3, <2>1
  <2>4. Found(list, id) # 0
    BY <1>1, <2>1
  <2>5. ServerObjectInterface(list, id, index, role) =
          IF places = {} THEN "METHOD_UNDEFINED"
          ELSE IF methods[first].role \cap role = {} THEN "ACCESS_DENIED"
          ELSE "CALLED"
    BY <2>4 DEF ServerObjectInterface
  <2>6. serverObjectInterface(Hash(list), id, index, role) = invoke(RolesOf(methods), index, role)
    BY <2>3 DEF serverObjectInterface
  <2> HIDE DEF methods
  <2>7. /\ DOMAIN RolesOf(methods) = {methods[i].methodIndex : i \in 1..Len(methods)}
        /\ \A i \in 1..Len(methods) : RolesOf(methods)[methods[i].methodIndex] = methods[i].role
    BY <2>2, RolesByIndex
  <2>8. CASE places = {}
    BY <2>5, <2>6, <2>7, <2>8 DEF invoke
  <2>9. ASSUME NEW q \in places
        PROVE  ServerObjectInterface(list, id, index, role)
                 = serverObjectInterface(Hash(list), id, index, role)
    <3>0. \A k \in places : k = q
      BY <2>2, <2>9 DEF OneOfAnIndex
    <3>1. places = {q} /\ q \in Nat /\ q <= q
      BY <2>9, <3>0
    <3>2. first = q
      BY <3>1
    <3>3. index \in DOMAIN RolesOf(methods) /\ RolesOf(methods)[index] = methods[q].role
      BY <2>7, <2>9
    <3> HIDE DEF places, first
    <3> QED BY <2>5, <2>6, <3>1, <3>2, <3>3 DEF invoke
  <2> QED BY <2>8, <2>9
<1> QED BY <1>4, <1>5

-----------------------------------------------------------------------------
(* The inputs of the model *)

LEMMA InputSets ==
    /\ Sample \subseteq Bytes /\ MaxLen \in Nat /\ ObjectIDs \subseteq Nat /\ MaxObjects \in Nat
    /\ MethodLists \subseteq Seq([methodIndex : Nat, role : SUBSET Roles])
    /\ \A methods \in MethodLists : OneOfAnIndex(methods)
    /\ PayloadLens \subseteq Uint16 /\ LenErrors \subseteq Nat
  BY InputsAssumption

LEMMA SequencesAreTyped ==
    ASSUME NEW S, NEW T, S \subseteq T, NEW max \in Nat, NEW seq \in Sequences(S, max)
    PROVE  seq \in Seq(T) /\ Len(seq) \in 0..max
<1>1. PICK f \in [1..max -> S], n \in 0..max : seq = SubSeq(f, 1, n)
  BY DEF Sequences
<1>2. f \in Seq(T) /\ Len(f) = max
  BY <1>1
<1>3. n \in 0..Len(f)
  BY <1>1, <1>2
<1> QED BY <1>1, <1>2, <1>3

LEMMA BuffersAreBytes ==
    ASSUME Given, kind = "buffer"
    PROVE  input \in Seq(Bytes)
<1>1. input \in Buffers
  BY DEF Given
<1> QED BY <1>1, InputSets, SequencesAreTyped DEF Buffers

\* What decodes is the encoding of its value (pr6_encoder_decoder.c:33-87).
THEOREM LengthsHaveOneEncoding == Given => OneEncoding
  BY GetThenPut, BuffersAreBytes DEF OneEncoding

\* What is encoded decodes, whatever follows (pr6_encoder_decoder.c:33-126).
THEOREM LengthsAlwaysReadBack == Given => ReadBack
<1> SUFFICES ASSUME Given, kind = "buffer", Len(input) >= 2
             PROVE  RoundTrip(256 * input[1] + input[2], SubSeq(input, 3, Len(input)))
  BY DEF ReadBack
<1>1. input \in Seq(Bytes)
  BY BuffersAreBytes
<1>2. Len(input) \in Nat /\ input[1] \in Bytes /\ input[2] \in Bytes
  BY <1>1
<1>3. 256 * input[1] + input[2] \in Uint16
  BY <1>2, FromTwoBytes
<1>4. SubSeq(input, 3, Len(input)) \in Seq(Bytes)
  BY <1>1, <1>2
<1> QED BY <1>3, <1>4, PutThenGet

\* A length that is read is read the same when more bytes are said to follow
\* (pr6_encoder_decoder.c:33-87, pr6_server.c:82, :243).
THEOREM LengthsAlwaysReadTheSame == Given => ReadsTheSame
  BY ReadAgain, BuffersAreBytes DEF ReadsTheSame

\* A datagram is taken whole, for its recipient, or refused (pr6_peer.c:101-192, :264-348).
THEOREM DatagramsAlwaysWhole == Given => UnpackedWhole
<1> SUFFICES ASSUME Given, kind = "datagram", NEW tag \in W!RequestTags \cup {"METHOD_RES"}
             PROVE  W!Unpacked("here", "there", 1, tag, input[1], input[1] + input[2] + W!SizeOverhead - 1)
  BY DEF UnpackedWhole
<1>1. PICK n \in PayloadLens, e \in LenErrors : input[1] = n /\ input[2] = e
  BY DEF Given
<1>2. n \in Nat /\ n < 65536 /\ e \in Nat
  BY InputSets DEF Uint16
<1>3. n + e + W!SizeOverhead - 1 \in Nat
  BY <1>2 DEF W!SizeOverhead, W!SizeHeader, W!SizeMac
<1> QED BY <1>1, <1>2, <1>3, UnpackedAlwaysWhole

LEMMA ListsAreAscending ==
    ASSUME NEW list \in ObjectLists
    PROVE  /\ list \in Seq([objectID : Nat, method : Seq([methodIndex : Nat, role : SUBSET Roles])])
           /\ Ascending(list)
           /\ \A i \in 1..Len(list) : OneOfAnIndex(list[i].method)
<1> DEFINE S == [objectID : Nat, method : Seq([methodIndex : Nat, role : SUBSET Roles])]
<1>1. PICK ids \in Ascents, methods \in [1..MaxObjects -> MethodLists] :
          list = [i \in 1..Len(ids) |-> [objectID |-> ids[i], method |-> methods[i]]]
  BY DEF ObjectLists
<1>2. /\ ids \in Seq(Nat) /\ Len(ids) \in 0..MaxObjects
      /\ \A i, j \in 1..Len(ids) : i < j => ids[i] < ids[j]
  BY <1>1, InputSets, SequencesAreTyped DEF Ascents
<1> DEFINE n == Len(ids)
<1>3. n \in Nat /\ 1..n \subseteq 1..MaxObjects
  BY <1>2, InputSets
<1>4. ASSUME NEW i \in 1..n
      PROVE  ids[i] \in Nat /\ methods[i] \in MethodLists
  BY <1>1, <1>2, <1>3
<1>5. ASSUME NEW i \in 1..n
      PROVE  [objectID |-> ids[i], method |-> methods[i]] \in S
  BY <1>4, InputSets
<1> HIDE DEF S, n
<1>6. list = [i \in 1..n |-> [objectID |-> ids[i], method |-> methods[i]]]
  BY <1>1 DEF n
<1>7. list \in [1..n -> S]
  BY <1>5, <1>6
<1>8. list \in Seq(S) /\ Len(list) = n
  BY <1>3, <1>7
<1>9. Ascending(list)
  BY <1>2, <1>6, <1>8 DEF Ascending, n
<1>10. \A i \in 1..Len(list) : OneOfAnIndex(list[i].method)
  BY <1>4, <1>6, <1>8, InputSets
<1> QED BY <1>8, <1>9, <1>10 DEF S

\* The two dispatchers agree on every object list in ascending order
\* (pr6_server_object.c:94-141, object_class.rb:123).
THEOREM VerdictAlwaysSame == Given => SameVerdict
<1> SUFFICES ASSUME Given, kind = "objects", NEW id \in ObjectIDs,
                    NEW index \in 0..METHOD_INDEX_MAX, NEW role \in SUBSET Roles
             PROVE  ServerObjectInterface(input, id, index, role)
                      = serverObjectInterface(Hash(input), id, index, role)
  BY DEF SameVerdict
<1>1. input \in ObjectLists
  BY DEF Given
<1>2. id \in Nat
  BY InputSets
<1>3. index \in Nat
  BY DispatchAssumption
<1> QED BY <1>1, <1>2, <1>3, ListsAreAscending, DispatchersAgree
=============================================================================
