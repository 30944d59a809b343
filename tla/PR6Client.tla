----------------------------- MODULE PR6Client ------------------------------
(***************************************************************************)
(* Client instances of pr6_client.c that share one association: the        *)
(* application creates requests, hands their messages to the peer, which   *)
(* numbers them (PR6_PeerOutput), confirms them with that number, and      *)
(* passes to an instance whatever response arrives.  Responses may arrive  *)
(* late, twice, in any order, at the wrong instance or never, and the      *)
(* application may time out, cancel, retransmit, or lose the instance and  *)
(* rebuild it from the stored message.                                     *)
(*                                                                         *)
(* A transmission is known by its full invocation counter, its index in    *)
(* `sent`; a response carries only counter % RES_MOD.                      *)
(***************************************************************************)
EXTENDS PR6ClientOps

CONSTANTS
    Clients,            \* client instances (structures the application owns)
    Methods,            \* method invocations an application may ask for
    ArgLens,            \* byte lengths of arguments
    PoolSizes,          \* values of poolMax
    OutMaxes,           \* sizes of the application's output buffer
    Modes,              \* <<confirmed, breakOnError>> of the requests
    Answers,            \* result lists a server may answer with
    MaxRequests,        \* bound: requests created
    MaxTransmissions    \* bound: messages packed by the peer

ASSUME ClientAssumption ==
    /\ ArgLens \subseteq Nat /\ PoolSizes \subseteq Nat /\ OutMaxes \subseteq Nat
    /\ Modes \subseteq BOOLEAN \X BOOLEAN
    /\ Answers \subseteq Seq(ServerResults \cup {"INVALID"})
    /\ MaxRequests \in Nat /\ MaxTransmissions \in Nat

VARIABLES
    client,     \* the instances
    request,    \* request[c]: number of the request instance c holds, 0 if none
    requests,   \* requests created so far
    outbox,     \* outbox[c]: the peer has still to pack an output of c
    packed,     \* packed[c]: counter to confirm to c, 0 if none
    confirmed,  \* confirmed[c]: full counter c was last given, 0 if none
    sent,       \* sent[n]: request and message of transmission n
    answer,     \* answer[n]: the set of result lists sent in answer to n
    delivered   \* delivered[c]: transmission whose answer c's results are from, 0 if none

vars == <<client, request, requests, outbox, packed, confirmed, sent, answer, delivered>>

Init ==
    /\ client = [c \in Clients |-> Unused]
    /\ request = [c \in Clients |-> 0]
    /\ requests = 0
    /\ outbox = [c \in Clients |-> FALSE]
    /\ packed = [c \in Clients |-> 0]
    /\ confirmed = [c \in Clients |-> 0]
    /\ sent = <<>>
    /\ answer = <<>>
    /\ delivered = [c \in Clients |-> 0]

\* Environment: the counter of a response identifies a transmission only while
\* fewer than RES_MOD later ones exist, so nothing older may still be alive.
Fresh(n, total) == total - n < RES_MOD

Waiting(c) == {packed[c], IF client[c].state = "SENT" THEN confirmed[c] ELSE 0} \ {0}

-----------------------------------------------------------------------------
\* A structure is used again only once its request is complete.
ClientInit(c) ==
    /\ client[c].state \in {"UNUSED", "COMPLETE"}
    /\ requests < MaxRequests
    /\ ~outbox[c] /\ packed[c] = 0
    /\ \E p \in PoolSizes, mode \in Modes, m \in Methods, n \in ArgLens :
          client' = [client EXCEPT ![c] = Initialised(p, mode[1], mode[2], m, n)]
    /\ requests' = requests + 1
    /\ request' = [request EXCEPT ![c] = requests + 1]
    /\ confirmed' = [confirmed EXCEPT ![c] = 0]
    /\ delivered' = [delivered EXCEPT ![c] = 0]
    /\ UNCHANGED <<outbox, packed, sent, answer>>

AddMethod(c) ==
    /\ CanAddMethod(client[c])
    /\ \E m \in Methods, n \in ArgLens :
          client' = [client EXCEPT ![c] = WithMethod(client[c], m, n)]
    /\ UNCHANGED <<request, requests, outbox, packed, confirmed, sent, answer, delivered>>

\* The application stored the message and lost the instance: it rebuilds it,
\* with or without the counter of a transmission it knows of.
FromOutput(c) ==
    /\ client[c].state \in {"PENDING", "SENT"}
    /\ \E p \in PoolSizes, n \in {0, packed[c], confirmed[c]} :
          /\ n # 0 => Fresh(n, Len(sent))
          /\ client' = [client EXCEPT ![c] = Rebuilt(Message(client[c]), p, n # 0, n)]
          /\ confirmed' = [confirmed EXCEPT ![c] = n]
    /\ outbox' = [outbox EXCEPT ![c] = FALSE]
    /\ packed' = [packed EXCEPT ![c] = 0]
    /\ UNCHANGED <<request, requests, sent, answer, delivered>>

ClientOutput(c) ==
    /\ \E outMax \in OutMaxes : CanOutput(client[c], outMax)
    /\ client' = [client EXCEPT ![c] = Pending(client[c])]
    /\ outbox' = [outbox EXCEPT ![c] = TRUE]
    /\ UNCHANGED <<request, requests, packed, confirmed, sent, answer, delivered>>

\* The peer numbers and sends the message. An instance has one message on its
\* way to the confirmation at a time.
PeerOutput(c) ==
    /\ outbox[c] /\ packed[c] = 0
    /\ Len(sent) < MaxTransmissions
    /\ \A d \in Clients : \A n \in Waiting(d) : Fresh(n, Len(sent) + 1)
    /\ sent' = Append(sent, [request |-> request[c], message |-> Message(client[c])])
    /\ answer' = Append(answer, {})
    /\ packed' = [packed EXCEPT ![c] = Len(sent) + 1]
    /\ outbox' = [outbox EXCEPT ![c] = FALSE]
    /\ UNCHANGED <<client, request, requests, confirmed, delivered>>

ClientOutputConfirm(c) ==
    /\ packed[c] # 0
    /\ packed' = [packed EXCEPT ![c] = 0]
    /\ IF CanConfirm(client[c])
       THEN /\ client' = [client EXCEPT ![c] = Confirmed(client[c], packed[c])]
            /\ confirmed' = [confirmed EXCEPT ![c] = packed[c]]
       ELSE UNCHANGED <<client, confirmed>>
    /\ UNCHANGED <<request, requests, outbox, sent, answer, delivered>>

\* A server answers a transmission that asks for a response, once.
Answer(n) ==
    /\ sent[n].message.confirmed
    /\ answer[n] = {}
    /\ \E results \in Answers : answer' = [answer EXCEPT ![n] = {results}]
    /\ UNCHANGED <<client, request, requests, outbox, packed, confirmed, sent, delivered>>

\* Faulty variant: results are written while the response is still being read,
\* and kept when it turns out too long.
ClientInput_Eager(c, n) ==
    /\ Fresh(n, Len(sent))
    /\ \E results \in answer[n] :
          /\ client[c].state = "SENT" /\ n % RES_MOD = client[c].counter /\ results # <<>>
          /\ client' = [client EXCEPT ![c] =
                IF Len(results) <= Len(client[c].list)
                THEN Answered(client[c], results)
                ELSE [Answered(client[c], results) EXCEPT !.state = "SENT"]]
    /\ UNCHANGED <<request, requests, outbox, packed, confirmed, sent, answer, delivered>>

ClientInput(c, n) ==
    /\ Fresh(n, Len(sent))
    /\ \E results \in answer[n] :
          /\ Accepts(client[c], n % RES_MOD, results)
          /\ client' = [client EXCEPT ![c] = Answered(client[c], results)]
    /\ delivered' = [delivered EXCEPT ![c] = n]
    /\ UNCHANGED <<request, requests, outbox, packed, confirmed, sent, answer>>

ClientTimeout(c) ==
    /\ CanAbandon(client[c])
    /\ client' = [client EXCEPT ![c] = TimedOut(client[c])]
    /\ delivered' = [delivered EXCEPT ![c] = 0]
    /\ UNCHANGED <<request, requests, outbox, packed, confirmed, sent, answer>>

ClientCancel(c) ==
    /\ CanAbandon(client[c])
    /\ client' = [client EXCEPT ![c] = Cancelled(client[c])]
    /\ delivered' = [delivered EXCEPT ![c] = 0]
    /\ UNCHANGED <<request, requests, outbox, packed, confirmed, sent, answer>>

\* Everything but the servers.
ClientSide ==
    \/ \E c \in Clients :
          \/ ClientInit(c) \/ AddMethod(c) \/ FromOutput(c)
          \/ ClientOutput(c) \/ PeerOutput(c) \/ ClientOutputConfirm(c)
          \/ ClientTimeout(c) \/ ClientCancel(c)
    \/ \E n \in 1..Len(sent), c \in Clients : ClientInput(c, n)

Next == ClientSide \/ \E n \in 1..Len(sent) : Answer(n)

Spec == Init /\ [][Next]_vars

-----------------------------------------------------------------------------
Invocations == [method : Methods, argLen : ArgLens, result : Results]
Instances == [state : States, list : Seq(Invocations), listMax : Nat,
              confirmed : BOOLEAN, breakOnError : BOOLEAN,
              reqLen : Nat, counter : Nat]
Messages == [confirmed : BOOLEAN, breakOnError : BOOLEAN,
             methods : Seq(Methods), argLens : Seq(ArgLens), len : Nat]

TypeOK ==
    /\ client \in [Clients -> Instances]
    /\ request \in [Clients -> Nat]
    /\ requests \in Nat
    /\ outbox \in [Clients -> BOOLEAN]
    /\ packed \in [Clients -> Nat]
    /\ confirmed \in [Clients -> Nat]
    /\ sent \in Seq([request : Nat, message : Messages])
    /\ answer \in Seq(SUBSET Answers) /\ Len(answer) = Len(sent)
    /\ delivered \in [Clients -> Nat]

\* A response is taken by the request it answers, and only as the answer to the
\* transmission that was confirmed last: not by another instance, not by the
\* request that used the structure before, not for a retransmitted message
\* (pr6_client.c:358, :540-546), although 16 bits of its counter are compared.
AnswerIsOwn ==
    \A c \in Clients : delivered[c] # 0 =>
        /\ delivered[c] \in 1..Len(sent)
        /\ delivered[c] = confirmed[c]
        /\ sent[delivered[c]].request = request[c]

\* The results an answered instance shows are those of that answer, aligned
\* with the invocations of that transmission, MISSING beyond its end (:421-444).
ResultsAreTheAnswer ==
    \A c \in Clients : delivered[c] # 0 =>
        \E results \in answer[delivered[c]] :
            \A i \in 1..Len(client[c].list) :
                client[c].list[i].result =
                    IF i \in DOMAIN results THEN results[i] ELSE "MISSING"

\* Nothing of a response that is not taken is left behind: until the callback
\* every result is the one initialisation wrote. (A malformed or too long list is
\* found out before the first element of `list` is written, :367-418.)
NoPartialResult ==
    \A c \in Clients : client[c].state # "COMPLETE" =>
        \A i \in 1..Len(client[c].list) : client[c].list[i].result = "SUCCESS"

\* Every transmission of one request carries one message, also after AddMethod
\* calls, retransmissions and a rebuilt instance (:305-335, :156-303): the i-th
\* result of any of their answers is about the i-th invocation of `list`.
TransmissionsAgree ==
    \A c \in Clients : \A n \in 1..Len(sent) :
        sent[n].request = request[c] /\ client[c].state # "UNUSED"
            => sent[n].message = Message(client[c])
=============================================================================
