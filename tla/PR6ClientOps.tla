---------------------------- MODULE PR6ClientOps ----------------------------
(***************************************************************************)
(* The client of modules/core: what each PR6_Client... function of         *)
(* pr6_client.c does to one `struct pr6_client`, as operators on a record. *)
(* PR6Client runs several instances over one association, WranglePeer runs *)
(* the same instances inside rcore's jobs.                                 *)
(*                                                                         *)
(* A method invocation (object id, method index, argument) is one model    *)
(* value with the byte length of its argument; a return value is left out. *)
(***************************************************************************)
EXTENDS Naturals, Sequences, PR6Codec

CONSTANTS
    RES_MOD,    \* values of the counter echoed in a response (uint16_t)
    LEN_MOD     \* values of the field reqLen (uint16_t)

ASSUME ModuliAssumption ==
    /\ RES_MOD \in Nat \ {0}
    /\ LEN_MOD \in Nat \ {0}

ServerResults == {"SUCCESS", "OBJECT_UNDEFINED", "METHOD_UNDEFINED",
                  "ACCESS_DENIED", "ARGUMENT", "PERMANENT", "TEMPORARY"}
Results == ServerResults \cup {"MISSING", "TIMEOUT", "CANCEL"}

\* "UNUSED" is the memory of an instance no init function has accepted: it
\* returned NULL, or none was called, and the application has no instance to use.
States == {"UNUSED", "INIT", "PENDING", "SENT", "COMPLETE"}

\* SUCCESS is the code 0 that memset leaves in an element of the pool.
Invocation(m, n) == [method |-> m, argLen |-> n, result |-> "SUCCESS"]

\* object id (2), method index (1), argument with its length determinant
InvocationLen(n) == 3 + SizeofVint(n) + n

Unused == [state |-> "UNUSED", list |-> <<>>, listMax |-> 0,
           confirmed |-> FALSE, breakOnError |-> FALSE,
           reqLen |-> 0, counter |-> 0]

\* The request message: the tag carries the two flags, then the method list.
Message(r) == [confirmed |-> r.confirmed, breakOnError |-> r.breakOnError,
               methods |-> [i \in 1..Len(r.list) |-> r.list[i].method],
               argLens |-> [i \in 1..Len(r.list) |-> r.list[i].argLen],
               len |-> r.reqLen]

\* `res` is one result per invocation.
Complete(r, res) ==
    [r EXCEPT !.list = [i \in 1..Len(r.list) |-> [r.list[i] EXCEPT !.result = res[i]]],
              !.state = "COMPLETE"]

Every(r, result) == [i \in 1..Len(r.list) |-> result]

-----------------------------------------------------------------------------
Initialised(poolMax, confirmed, breakOnError, m, n) ==
    IF poolMax > 0
    THEN [state |-> "INIT", list |-> <<Invocation(m, n)>>, listMax |-> poolMax,
          confirmed |-> confirmed, breakOnError |-> breakOnError,
          reqLen |-> (1 + InvocationLen(n)) % LEN_MOD, counter |-> 0]
    ELSE Unused

\* Faulty variant, to see that a property can fail (as every variant below):
\* invocations may still be added after an output.
CanAddMethod_AnyState(r) == r.state \in {"INIT", "PENDING", "SENT"} /\ Len(r.list) < r.listMax

CanAddMethod(r) == r.state = "INIT" /\ Len(r.list) < r.listMax

WithMethod(r, m, n) ==
    [r EXCEPT !.list = Append(r.list, Invocation(m, n)),
              !.reqLen = (r.reqLen + InvocationLen(n)) % LEN_MOD]

\* An instance rebuilt from a message the application kept, and from the
\* counter of its transmission if one is given (the pointer is not NULL).
Rebuilt(msg, poolMax, given, counter) ==
    IF Len(msg.methods) <= poolMax
    THEN [state |-> IF given THEN "SENT" ELSE "PENDING",
          list |-> [i \in 1..Len(msg.methods) |-> Invocation(msg.methods[i], msg.argLens[i])],
          listMax |-> poolMax,
          confirmed |-> msg.confirmed, breakOnError |-> msg.breakOnError,
          reqLen |-> msg.len,
          counter |-> IF given THEN counter % RES_MOD ELSE 0]
    ELSE Unused

CanOutput(r, outMax) == r.state \in {"INIT", "PENDING", "SENT"} /\ outMax >= r.reqLen

Pending(r) == [r EXCEPT !.state = "PENDING"]

CanConfirm(r) == r.state \in {"PENDING", "SENT"}

\* Faulty variant: the counter of a retransmission is not taken over.
Confirmed_FirstCounter(r, counter) ==
    LET s == [r EXCEPT !.counter = IF r.state = "SENT" \/ r.counter # 0 THEN @ ELSE counter % RES_MOD,
                       !.state = "SENT"]
    IN  IF r.confirmed THEN s ELSE Complete(s, Every(r, "SUCCESS"))

\* Confirms the output. Nothing answers a request that asked for no response,
\* so this is also where such a request completes, every result SUCCESS.
Confirmed(r, counter) ==
    LET s == [r EXCEPT !.counter = counter % RES_MOD, !.state = "SENT"]
    IN  IF r.confirmed THEN s ELSE Complete(s, Every(r, "SUCCESS"))

\* Faulty variants: an unknown result code is let through; the last result of an
\* answer is dropped.
Accepts_NoCast(r, counter, results) ==
    /\ r.state = "SENT" /\ counter = r.counter
    /\ results # <<>> /\ Len(results) <= Len(r.list)
ResultFor_OffByOne(results, i) == IF i < Len(results) THEN results[i] ELSE "MISSING"

\* A response is acted on only as a whole: right state, right counter, every
\* result code known, at least one result, no more results than invocations.
Accepts(r, counter, results) ==
    /\ r.state = "SENT"
    /\ counter = r.counter
    /\ results # <<>>
    /\ \A i \in 1..Len(results) : results[i] \in ServerResults
    /\ Len(results) <= Len(r.list)

ResultFor(results, i) == IF i <= Len(results) THEN results[i] ELSE "MISSING"

Answered(r, results) == Complete(r, [i \in 1..Len(r.list) |-> ResultFor(results, i)])

CanAbandon(r) == r.state \in {"PENDING", "SENT", "COMPLETE"}

TimedOut(r)  == Complete(r, Every(r, "TIMEOUT"))
Cancelled(r) == Complete(r, Every(r, "CANCEL"))
=============================================================================
