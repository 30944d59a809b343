------------------------- MODULE RemoteInvocation ---------------------------
(***************************************************************************)
(* What a client and a server of modules/core promise together, whatever   *)
(* becomes of the datagrams: a transmission is carried out at most once,   *)
(* its methods in order, and what a caller is shown is one answer to its   *)
(* own request, final when it is shown, or that there is none.             *)
(* A request that is sent again is a second attempt, which the server      *)
(* carries out as well.                                                    *)
(***************************************************************************)
EXTENDS Naturals, Sequences

CONSTANTS
    Callers,
    Requests,       \* numbers of requests, from 1
    Messages,       \* records with the fields methods, confirmed and breakOnError
    Lengths,        \* numbers of invocations of a request
    Outcomes        \* what a method may end with, SUCCESS among them

VARIABLES
    attempts,   \* transmissions: request, message, status and what was carried out
    shown       \* shown[c]: request and results c's caller was given last

vars == <<attempts, shown>>

Nothing == [request |-> 0, results |-> <<>>]

Init == attempts = <<>> /\ shown = [c \in Callers |-> Nothing]

Failed(a) == \E i \in 1..Len(a.outcomes) : a.outcomes[i] # "SUCCESS"

\* Every attempt of a request carries the same message.
Transmit(request, message) ==
    /\ \A n \in 1..Len(attempts) :
          attempts[n].request = request => attempts[n].message = message
    /\ attempts' = Append(attempts, [request |-> request, message |-> message,
                                     status |-> "SENT", called |-> 0, outcomes |-> <<>>])
    /\ UNCHANGED shown

\* The server begins an attempt it has never seen, and for it abandons the one
\* it was at.
Begin(n) ==
    /\ attempts[n].status = "SENT"
    /\ attempts' = [m \in DOMAIN attempts |->
          IF m = n THEN [attempts[m] EXCEPT !.status = "RUNNING"]
          ELSE IF attempts[m].status = "RUNNING" THEN [attempts[m] EXCEPT !.status = "ENDED"]
          ELSE attempts[m]]
    /\ UNCHANGED shown

\* The next method is called; it may yield, end, or be the last one.
Call(n, outcomes, status) ==
    /\ attempts[n].status = "RUNNING"
    /\ Len(attempts[n].outcomes) < Len(attempts[n].message.methods)
    /\ attempts[n].message.breakOnError => ~Failed(attempts[n])
    /\ attempts' = [attempts EXCEPT ![n].called = Len(attempts[n].outcomes) + 1,
                                    ![n].outcomes = @ \o outcomes,
                                    ![n].status = status]
    /\ UNCHANGED shown

End(n) ==
    /\ attempts[n].status = "RUNNING"
    /\ attempts' = [attempts EXCEPT ![n].status = "ENDED"]
    /\ UNCHANGED shown

\* Every outcome at its method's place; then, after a failure that is to stop the
\* request, methods refused unseen; then those the answer had no room for.
Report(a, refused) ==
    [i \in 1..Len(a.message.methods) |->
        IF i <= Len(a.outcomes) THEN a.outcomes[i]
        ELSE IF i <= Len(a.outcomes) + refused THEN "PERMANENT"
        ELSE "MISSING"]

\* An attempt is over when its answer is shown: what the caller sees is final.
ShowAnswer(c, n, refused) ==
    /\ attempts[n].status = "ENDED" /\ attempts[n].outcomes # <<>>
    /\ attempts[n].message.confirmed
    /\ refused # 0 => attempts[n].message.breakOnError /\ Failed(attempts[n])
    /\ shown[c] = Nothing
    /\ shown' = [shown EXCEPT ![c] = [request |-> attempts[n].request,
                                      results |-> Report(attempts[n], refused)]]
    /\ UNCHANGED attempts

\* Nothing is known of a request that asks for no response but that it was sent.
ShowSent(c, n) ==
    /\ ~attempts[n].message.confirmed
    /\ shown[c] = Nothing
    /\ shown' = [shown EXCEPT ![c] =
          [request |-> attempts[n].request,
           results |-> [i \in 1..Len(attempts[n].message.methods) |-> "SUCCESS"]]]
    /\ UNCHANGED attempts

GiveUp(c, request, len, result) ==
    /\ shown' = [shown EXCEPT ![c] = [request |-> request, results |-> [i \in 1..len |-> result]]]
    /\ UNCHANGED attempts

Forget(c) == shown' = [shown EXCEPT ![c] = Nothing] /\ UNCHANGED attempts

Next ==
    \/ \E request \in Requests, message \in Messages : Transmit(request, message)
    \/ \E n \in 1..Len(attempts) :
          \/ Begin(n) \/ End(n)
          \/ \E status \in {"RUNNING", "ENDED"} :
                \/ Call(n, <<>>, status)
                \/ \E o \in Outcomes : Call(n, <<o>>, status)
    \/ \E c \in Callers :
          \/ Forget(c)
          \/ \E n \in 1..Len(attempts) :
                \/ ShowSent(c, n)
                \/ \E refused \in 0..Len(attempts[n].message.methods) : ShowAnswer(c, n, refused)
          \/ \E request \in Requests, len \in Lengths, result \in {"TIMEOUT", "CANCEL"} :
                GiveUp(c, request, len, result)

Spec == Init /\ [][Next]_vars
=============================================================================
