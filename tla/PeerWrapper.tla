---------------------------- MODULE PeerWrapper -----------------------------
(***************************************************************************)
(* The wrapper of pr6_peer.c around a message, and what the peer of rcore  *)
(* (ext_pr6_peer.c) calls it with.  A datagram is its header, the payload  *)
(* length written in it, the tag in front of its payload, and the number   *)
(* of bytes there are, to which the network may add, or take from them.    *)
(***************************************************************************)
EXTENDS Naturals

SizeHeader == 22        \* two addresses, counter, payload length
SizeMac == 16
SizeOverhead == SizeHeader + SizeMac
Uint16(n) == n % 65536

Refused == [len |-> 0]

\* PR6_PeerOutput, once a counter was given: a payload is never empty.
PeerOutput(entity, remote, count, tag, inLen, max) ==
    IF inLen > 0 /\ max >= SizeOverhead + inLen
    THEN [to |-> remote, from |-> entity, counter |-> count,
          payloadLen |-> inLen, tag |-> tag, len |-> SizeOverhead + inLen]
    ELSE Refused

packMessage(entity, remote, count, tag, len) ==
    PeerOutput(entity, remote, count, tag, Uint16(len), len + SizeOverhead)

\* The bytes read, none if there are too few for the length in the header.
getGCM(d) ==
    IF d.len > SizeOverhead /\ d.len - SizeHeader >= SizeMac + d.payloadLen
    THEN SizeOverhead + d.payloadLen
    ELSE 0

RequestTags == {"METHOD_REQ", "METHOD_NC_REQ", "METHOD_BOE_REQ", "METHOD_NC_BOE_REQ"}

\* Faulty variant: what follows the wrapper is ignored.
PeerInput_Padded(d, max) ==
    IF getGCM(d) > 0 /\ max >= d.payloadLen /\ d.tag \in RequestTags \cup {"METHOD_RES"}
    THEN [len |-> d.payloadLen, to |-> d.to, from |-> d.from, counter |-> d.counter,
          recipient |-> IF d.tag \in RequestTags THEN "SERVER" ELSE "CLIENT"]
    ELSE Refused

\* PR6_PeerInput of a datagram that decrypts and whose counter is let through.
PeerInput(d, max) ==
    IF getGCM(d) > 0 /\ getGCM(d) = d.len /\ max >= d.payloadLen
            /\ d.tag \in RequestTags \cup {"METHOD_RES"}
    THEN [len |-> d.payloadLen, to |-> d.to, from |-> d.from, counter |-> d.counter,
          recipient |-> IF d.tag \in RequestTags THEN "SERVER" ELSE "CLIENT"]
    ELSE Refused

\* The buffer has the size of the datagram, passed as a uint16_t.
unpackMessage(d) == PeerInput(d, Uint16(d.len))

\* UDPNode cuts what it takes from its socket.
RECV_MAX == 1200
recvfrom(d) == [d EXCEPT !.len = IF d.len > RECV_MAX THEN RECV_MAX ELSE d.len]

-----------------------------------------------------------------------------
\* What the network makes of a datagram of which it leaves `len` bytes.
Arrived(d, len) == [d EXCEPT !.len = len]

\* What is packed is unpacked, whole, with its header, for the right recipient, if no
\* byte was lost or added, and not at all otherwise. (Of a payload that makes the
\* datagram 65536 bytes or more the receiver's buffer length is a remainder, and
\* nothing is unpacked; of what a node receives what is beyond RECV_MAX counts as lost.)
Unpacked(entity, remote, count, tag, len, arrived) ==
    LET sent == packMessage(entity, remote, count, tag, len)
        whole == [len |-> len, to |-> remote, from |-> entity, counter |-> count,
                  recipient |-> IF tag = "METHOD_RES" THEN "CLIENT" ELSE "SERVER"]
        If(bytes) == IF bytes = len + SizeOverhead THEN whole ELSE Refused
    IN  IF len = 0 THEN sent = Refused
        ELSE /\ unpackMessage(Arrived(sent, arrived))
                    = If(IF arrived < 65536 THEN arrived ELSE 0)
             /\ unpackMessage(recvfrom(Arrived(sent, arrived)))
                    = If(IF arrived > RECV_MAX THEN RECV_MAX ELSE arrived)
=============================================================================
