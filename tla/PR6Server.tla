----------------------------- MODULE PR6Server ------------------------------
(***************************************************************************)
(* The server of modules/core (pr6_server.c): PR6_ServerInput takes a      *)
(* request, PR6_ServerResume calls the object interface for one method     *)
(* after the other and appends their results to the response, as long as   *)
(* they fit.  The interface (a callback) may yield; the application then   *)
(* calls PR6_ServerResume again, later, for the same buffer.               *)
(*                                                                         *)
(* An action is one iteration of the loop in PR6_ServerResume; the calls   *)
(* of the interface are where the rest of the system runs in between.      *)
(* A method is known by its place in the method list, a return value by    *)
(* its length.                                                             *)
(***************************************************************************)
EXTENDS Naturals, Integers, Sequences, PR6Codec

CONSTANTS
    Tags,           \* tags of the messages that arrive
    ListSizes,      \* lengths of their method lists
    OutMaxes,       \* sizes of the application's output buffer
    ReturnLens,     \* lengths of return values
    MaxRequests,    \* bound: messages delivered
    MaxYields       \* bound: times the methods of one request yield

ErrorResults == {"OBJECT_UNDEFINED", "METHOD_UNDEFINED", "ACCESS_DENIED",
                 "ARGUMENT", "PERMANENT", "TEMPORARY"}
RequestTags == {"METHOD_REQ", "METHOD_NC_REQ", "METHOD_BOE_REQ", "METHOD_NC_BOE_REQ"}
ServerStates == {"IDLE", "BEGIN", "FIRSTCALL", "CALL", "YIELD"}

SizeHeader == 3         \* tag and counter of a response
SizeResult == 1

ASSUME ServerAssumption ==
    /\ Tags \subseteq RequestTags \cup {"METHOD_RES", "UNKNOWN"}
    /\ ListSizes \subseteq Nat /\ OutMaxes \subseteq Nat /\ ReturnLens \subseteq Nat
    /\ MaxRequests \in Nat /\ MaxYields \in Nat

VARIABLES
    state, confirmed, breakOnError, counter,    \* fields of struct pr6_server
    methodListLen, methodListPos,               \* in methods, not bytes
    outMax, outLen,
    results,    \* what follows the header in the first outLen bytes of `out`
    running,    \* inside PR6_ServerInput or PR6_ServerResume
    requests,   \* messages delivered so far; the last one's counter
    firstCalls, \* methods called in state FIRSTCALL, of this request
    outcomes,   \* results of the methods that were carried out, of this request
    yields

vars == <<state, confirmed, breakOnError, counter, methodListLen, methodListPos, outMax,
          outLen, results, running, requests, firstCalls, outcomes, yields>>

request == <<confirmed, breakOnError, counter, methodListLen, outMax, requests>>

Init ==
    /\ state = "IDLE" /\ confirmed = TRUE /\ breakOnError = FALSE /\ counter = 0
    /\ methodListLen = 0 /\ methodListPos = 0
    /\ outMax = 0 /\ outLen = 0 /\ results = <<>>
    /\ running = FALSE
    /\ requests = 0 /\ firstCalls = 0 /\ outcomes = <<>> /\ yields = 0

-----------------------------------------------------------------------------
(* PR6_ServerInput. A message that is not a well formed request leaves the *)
(* server idle; one that is abandons the request that was yielding, if any. *)
(* Environment: no empty message is delivered to a yielding server.        *)

Accepted(tag, size, wellFormed) == tag \in RequestTags /\ size > 0 /\ wellFormed

ServerInput(tag, size, wellFormed, max, number) ==
    /\ ~running
    /\ requests < MaxRequests
    /\ requests' = requests + 1
    /\ outLen' = 0 /\ results' = <<>> /\ outMax' = max
    /\ firstCalls' = 0 /\ outcomes' = <<>> /\ yields' = 0
    /\ methodListPos' = 0
    /\ IF Accepted(tag, size, wellFormed)
       THEN /\ methodListLen' = size
            /\ confirmed' = (tag \in {"METHOD_REQ", "METHOD_BOE_REQ"})
            /\ breakOnError' = (tag \in {"METHOD_BOE_REQ", "METHOD_NC_BOE_REQ"})
            /\ counter' = number
            /\ state' = "BEGIN"
            /\ running' = (max >= 2)
       ELSE /\ state' = "IDLE" /\ confirmed' = TRUE
            /\ UNCHANGED <<methodListLen, breakOnError, counter, running>>

-----------------------------------------------------------------------------
(* PR6_ServerResume *)

Begin ==
    /\ running /\ state = "BEGIN"
    /\ IF outMax > SizeHeader
       THEN outLen' = SizeHeader /\ state' = "FIRSTCALL" /\ UNCHANGED running
       ELSE outLen' = 0 /\ state' = "IDLE" /\ running' = FALSE
    /\ UNCHANGED <<request, methodListPos, results, firstCalls, outcomes, yields>>

\* Faulty variant: the method that yielded is called as if for the first time.
ServerResume_FirstCall ==
    /\ ~running /\ state = "YIELD"
    /\ running' = TRUE /\ state' = "FIRSTCALL"
    /\ UNCHANGED <<request, methodListPos, outLen, results, firstCalls, outcomes, yields>>

\* Called by the application for a server that yielded, with the same buffer.
ServerResume ==
    /\ ~running /\ state = "YIELD"
    /\ running' = TRUE /\ state' = "CALL"
    /\ UNCHANGED <<request, methodListPos, outLen, results, firstCalls, outcomes, yields>>

\* Faulty variant: what was written for the methods before is kept.
Kept_Always == outLen

\* Of a request that asked for no response no result is kept.
Kept == IF confirmed THEN outLen ELSE 0
KeptResults == IF confirmed THEN results ELSE <<>>

\* Faulty variants: one byte too much asked for, one too little reserved.
HasRoom_OffByOne == outMax - Kept > SizeResult + 2
AdapterMax_ShortVint == outMax - (Kept + SizeResult + 1)

HasRoom == outMax - Kept > SizeResult + 1

\* Where the return value goes leaves room for the longest length determinant it
\* may need; what is left is the method's buffer.
AdapterMax == outMax - (Kept + SizeResult + SizeofVint(outMax - (Kept + SizeResult)))

Calling == running /\ state \in {"FIRSTCALL", "CALL"} /\ HasRoom
Counted == firstCalls' = firstCalls + (IF state = "FIRSTCALL" THEN 1 ELSE 0)

\* Faulty variant: the state is not reset.
NoRoom_Spins ==
    /\ running /\ state \in {"FIRSTCALL", "CALL"} /\ ~HasRoom
    /\ UNCHANGED vars

\* The response is cut short.
NoRoom ==
    /\ running /\ state \in {"FIRSTCALL", "CALL"} /\ ~HasRoom
    /\ outLen' = Kept /\ results' = KeptResults
    /\ state' = "IDLE" /\ running' = FALSE
    /\ UNCHANGED <<request, methodListPos, firstCalls, outcomes, yields>>

\* The method is done: the state and response that follow, with `size` bytes and
\* `more` results added to it, and `skipped` methods after it not called.
Proceed(size, more, skipped, cut) ==
    LET last == cut \/ methodListPos + 1 + skipped = methodListLen
    IN  /\ methodListPos' = methodListPos + 1 + skipped
        /\ state' = IF last THEN "IDLE" ELSE "FIRSTCALL"
        /\ running' = ~last
        /\ outLen' = IF last /\ ~confirmed THEN 0 ELSE Kept + size
        /\ results' = IF last /\ ~confirmed THEN <<>> ELSE KeptResults \o more

MethodSuccess(n) ==
    /\ Calling /\ n <= AdapterMax
    /\ Counted
    /\ outcomes' = Append(outcomes, "SUCCESS")
    /\ Proceed(SizeResult + SizeofVint(n) + n, <<"SUCCESS">>, 0, FALSE)
    /\ UNCHANGED <<request, yields>>

\* Faulty variants: the methods that follow are refused whether they are to be or
\* not, or are counted with the failed one.
Refused_Always ==
    LET left == methodListLen - (methodListPos + 1)
        room == outMax - (Kept + SizeResult)
    IN  IF left <= room THEN left ELSE room
Refused_WithSelf ==
    LET left == methodListLen - methodListPos
        room == outMax - (Kept + SizeResult)
    IN  IF breakOnError THEN (IF left <= room THEN left ELSE room) ELSE 0

\* The methods after a failed one are refused unseen, if they are to be, as long
\* as there is room for their results.
Refused ==
    LET left == methodListLen - (methodListPos + 1)
        room == outMax - (Kept + SizeResult)
    IN  IF breakOnError THEN (IF left <= room THEN left ELSE room) ELSE 0

\* Faulty variant: the methods that follow are called all the same.
MethodError_GoesOn(result) ==
    /\ Calling
    /\ Counted
    /\ outcomes' = Append(outcomes, result)
    /\ Proceed(SizeResult, <<result>>, 0, FALSE)
    /\ UNCHANGED <<request, yields>>

MethodError(result) ==
    /\ Calling
    /\ Counted
    /\ outcomes' = Append(outcomes, result)
    /\ Proceed(SizeResult + Refused,
               <<result>> \o [i \in 1..Refused |-> "PERMANENT"],
               Refused,
               breakOnError /\ methodListPos + 1 + Refused < methodListLen)
    /\ UNCHANGED <<request, yields>>

MethodYield ==
    /\ Calling
    /\ yields < MaxYields /\ yields' = yields + 1
    /\ Counted
    /\ state' = "YIELD" /\ running' = FALSE
    /\ outLen' = Kept /\ results' = KeptResults
    /\ UNCHANGED <<request, methodListPos, outcomes>>

\* The method's return value does not fit: the response ends before it.
MethodBuffer ==
    /\ Calling
    /\ Counted
    /\ state' = "IDLE" /\ running' = FALSE
    /\ outLen' = Kept /\ results' = KeptResults
    /\ UNCHANGED <<request, methodListPos, outcomes, yields>>

Return ==
    \/ \E n \in ReturnLens : MethodSuccess(n)
    \/ \E result \in ErrorResults : MethodError(result)
    \/ MethodBuffer

Deliver ==
    \E tag \in Tags, size \in ListSizes, wellFormed \in BOOLEAN, max \in OutMaxes :
        ServerInput(tag, size, wellFormed, max, requests + 1)

Next == Deliver \/ Begin \/ ServerResume \/ NoRoom \/ Return \/ MethodYield

\* The loop runs on, the application resumes a server that yielded, and a method
\* that may yield again and again returns in the end.
Fairness ==
    /\ WF_vars(Begin) /\ WF_vars(NoRoom) /\ WF_vars(ServerResume)
    /\ SF_vars(Return)

Spec == Init /\ [][Next]_vars /\ Fairness

-----------------------------------------------------------------------------
Outcomes == {"SUCCESS"} \cup ErrorResults

TypeOK ==
    /\ state \in ServerStates
    /\ confirmed \in BOOLEAN /\ breakOnError \in BOOLEAN /\ running \in BOOLEAN
    /\ counter \in Nat /\ requests \in Nat /\ firstCalls \in Nat /\ yields \in Nat
    /\ methodListLen \in Nat /\ methodListPos \in Nat
    /\ running \/ state = "YIELD" => methodListPos < methodListLen
    /\ outMax \in Nat /\ outLen \in Nat
    /\ results \in Seq(Outcomes) /\ outcomes \in Seq(Outcomes)

\* The response never passes the end of the buffer, and the length determinant of
\* a return value never runs into the return value, which the method has already
\* put where the longest determinant would end (pr6_server.c:234-266).
BufferIsEnough ==
    /\ outLen <= outMax
    /\ Calling => /\ AdapterMax > 0
                  /\ \A n \in ReturnLens : n <= AdapterMax =>
                        Kept + SizeResult + SizeofVint(n) <= outMax - AdapterMax

\* The i-th result of a response is what the i-th method did, no method that was
\* carried out goes unreported, and a method is reported without being called only
\* when an earlier one failed and the request said to stop there (:257-310).
ResultsAreOutcomes ==
    confirmed =>
        /\ Len(outcomes) <= Len(results) /\ Len(results) <= methodListLen
        /\ \A i \in 1..Len(outcomes) : results[i] = outcomes[i]
        /\ \A i \in Len(outcomes) + 1..Len(results) :
              /\ results[i] = "PERMANENT"
              /\ breakOnError /\ outcomes # <<>> /\ outcomes[Len(outcomes)] # "SUCCESS"

\* After a failed method of a request that stops at errors nothing is called,
\* whether a response is wanted or not ("shall halt invocation of Request on first
\* error", pr6_client.h:89).
StopsAtError ==
    breakOnError =>
        \A i \in 1..Len(outcomes) : outcomes[i] # "SUCCESS" =>
            /\ i = Len(outcomes) /\ firstCalls = i
            /\ state = "IDLE"

\* Methods are called in the order of the list and each for the first time once,
\* however often it yields; only the method called last may be without an outcome
\* (pr6_server.h:46-53).
CalledInOrder ==
    /\ firstCalls - Len(outcomes) \in {0, 1} /\ firstCalls <= methodListLen
    /\ state = "FIRSTCALL" => firstCalls = Len(outcomes) /\ firstCalls = methodListPos
    /\ state \in {"CALL", "YIELD"} => firstCalls = Len(outcomes) + 1 /\ Len(outcomes) = methodListPos

\* Nothing is sent for a request that asked for no response, neither at its end,
\* early or not, nor while it yields, when the application may look at outLen.
SilentIfUnconfirmed == ~confirmed /\ ~running => outLen = 0

\* A response is short of results only because no further one fits: the next
\* result may need three bytes, or a return value did not fit.
ShortOnlyIfFull ==
    confirmed /\ counter = requests /\ requests > 0 /\ state = "IDLE"
            /\ outMax > SizeHeader /\ Len(results) < methodListLen
        => outMax - outLen <= 2 \/ firstCalls > Len(outcomes)

\* A request that was begun comes to its end, or is abandoned for a new one, if
\* every method returns in the end.
EveryRequestEnds ==
    \A n \in 1..MaxRequests :
        running /\ requests = n ~> requests # n \/ (~running /\ state = "IDLE")
=============================================================================
