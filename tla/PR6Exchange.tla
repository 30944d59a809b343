---------------------------- MODULE PR6Exchange -----------------------------
(***************************************************************************)
(* The clients of PR6Client and the server of PR6Server, joined by the     *)
(* datagrams between them.  The server takes a transmission at most once,  *)
(* in any order or never (AtMostOnce); a response may come late, again or  *)
(* never, at any instance.  A new request may overtake a method that       *)
(* yields, and the server's buffer may cut a response short.               *)
(***************************************************************************)
EXTENDS PR6ClientOps

CONSTANTS
    Clients, Methods, ArgLens, PoolSizes, OutMaxes, Modes,  \* of the clients
    ServerOutMaxes, ReturnLens,     \* of the server
    MethodErrors,                   \* results other than SUCCESS its methods give
    MaxRequests, MaxTransmissions, MaxYields

ASSUME ExchangeAssumption ==
    /\ ArgLens \subseteq Nat /\ PoolSizes \subseteq Nat /\ OutMaxes \subseteq Nat
    /\ Modes \subseteq BOOLEAN \X BOOLEAN
    /\ ServerOutMaxes \subseteq Nat /\ ReturnLens \subseteq Nat
    /\ MethodErrors \subseteq ServerResults \ {"SUCCESS"}
    /\ MaxRequests \in Nat /\ MaxTransmissions \in Nat /\ MaxYields \in Nat

VARIABLES
    client, request, requests, outbox, packed, confirmed, sent, answer, delivered,
    state, wanted, breakOnError, counter, methodListLen, methodListPos, outMax, outLen,
    results, running, arrivals, firstCalls, outcomes, yields,
    log         \* log[n]: whether the server took transmission n, what it did for it

C == INSTANCE PR6Client WITH Answers <- Seq(ServerResults)
S == INSTANCE PR6Server WITH
        confirmed <- wanted, requests <- arrivals,
        Tags <- {}, ListSizes <- {}, OutMaxes <- ServerOutMaxes,
        MaxRequests <- MaxTransmissions

clientVars == <<client, request, requests, outbox, packed, confirmed, sent, answer, delivered>>
serverVars == <<state, wanted, breakOnError, counter, methodListLen, methodListPos, outMax,
                outLen, results, running, arrivals, firstCalls, outcomes, yields, log>>
vars == <<clientVars, serverVars>>

Init ==
    /\ C!Init /\ S!Init
    /\ log = [n \in 1..MaxTransmissions |-> [taken |-> FALSE, called |-> 0, outcomes |-> <<>>]]

ClientSide == C!ClientSide /\ UNCHANGED serverVars

\* The tag of a request message.
Tag(message) ==
    IF message.confirmed
    THEN IF message.breakOnError THEN "METHOD_BOE_REQ" ELSE "METHOD_REQ"
    ELSE IF message.breakOnError THEN "METHOD_NC_BOE_REQ" ELSE "METHOD_NC_REQ"

\* The peer of the server unpacks a datagram once and gives it to the server.
\* The server keeps, and echoes, n % RES_MOD: ClientInput compares that.
ServerInput(n) ==
    /\ ~log[n].taken
    /\ \E max \in ServerOutMaxes :
          S!ServerInput(Tag(sent[n].message), Len(sent[n].message.methods), TRUE, max, n)
    /\ log' = [log EXCEPT ![n].taken = TRUE]
    /\ UNCHANGED clientVars

\* Faulty variant: what is in the buffer is sent while the server yields, too.
Respond_Yielding ==
    answer' = IF ~running' /\ outLen' > S!SizeHeader
              THEN [answer EXCEPT ![counter] = {results'}]
              ELSE answer

\* The application sends what PR6_ServerInput or PR6_ServerResume left in the
\* buffer, once the server no longer yields.
Respond ==
    answer' = IF state' = "IDLE" /\ outLen' > 0
              THEN [answer EXCEPT ![counter] = {results'}]
              ELSE answer

ServerResume ==
    /\ \/ S!Begin \/ S!ServerResume \/ S!NoRoom \/ S!MethodYield \/ S!MethodBuffer
       \/ \E n \in ReturnLens : S!MethodSuccess(n)
       \/ \E result \in MethodErrors : S!MethodError(result)
    /\ log' = [log EXCEPT ![counter].called = firstCalls', ![counter].outcomes = outcomes']
    /\ Respond
    /\ UNCHANGED <<client, request, requests, outbox, packed, confirmed, sent, delivered>>

Next == ClientSide \/ ServerResume \/ \E n \in 1..Len(sent) : ServerInput(n)

Spec == Init /\ [][Next]_vars

-----------------------------------------------------------------------------
\* Whatever the server answers, the instance that waits for it takes, if at least one
\* result is in it: neither its length nor a code in it makes the client drop it, also
\* after a rebuilt instance or a second transmission (pr6_client.c:351-430). A response
\* cut short before its first result is dropped, and the request waits on.
AnswerIsTaken ==
    \A c \in Clients, n \in 1..Len(sent) :
        client[c].state = "SENT" /\ confirmed[c] = n =>
            \A res \in answer[n] : res # <<>> => Accepts(client[c], n % RES_MOD, res)

\* As RemoteInvocation sees it.
Status(n) ==
    IF ~log[n].taken THEN "SENT"
    ELSE IF counter = n /\ state # "IDLE" THEN "RUNNING"
    ELSE "ENDED"

Attempts ==
    [n \in 1..Len(sent) |->
        [request |-> sent[n].request,
         message |-> [methods |-> sent[n].message.methods,
                      confirmed |-> sent[n].message.confirmed,
                      breakOnError |-> sent[n].message.breakOnError],
         status |-> Status(n), called |-> log[n].called, outcomes |-> log[n].outcomes]]

Shown ==
    [c \in Clients |->
        IF client[c].state = "COMPLETE"
        THEN [request |-> request[c],
              results |-> [i \in 1..Len(client[c].list) |-> client[c].list[i].result]]
        ELSE [request |-> 0, results |-> <<>>]]

Lengths == UNION {1..p : p \in PoolSizes}
MethodLists == UNION {[1..k -> Methods] : k \in Lengths}

R == INSTANCE RemoteInvocation WITH
        attempts <- Attempts, shown <- Shown, Callers <- Clients,
        Requests <- 1..MaxRequests,
        Messages <- [methods : MethodLists, confirmed : BOOLEAN, breakOnError : BOOLEAN],
        Outcomes <- {"SUCCESS"} \cup MethodErrors

\* Client, datagrams and server together keep what a caller relies on: at most one
\* execution of a transmission, in order; SUCCESS only for a method that was carried
\* out in the attempt that is shown; nothing carried out for it after it was shown.
ImplementsRemoteInvocation == R!Spec
=============================================================================
