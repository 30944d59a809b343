---------------------------- MODULE WranglePeer ----------------------------
(***************************************************************************)
(* rcore's Wrangle::Peer: three threads (a ticker, the job thread that      *)
(* owns the jobs, one worker that packs and unpacks messages) joined by two *)
(* queues, running the clients of PR6ClientOps as jobs over one             *)
(* association.  A step is one item taken from a queue by its thread, with  *)
(* all that the thread does before it takes the next; a thread that raises  *)
(* is "dead".  The network may lose, delay, reorder and duplicate, and      *)
(* brings what strangers send; that a message is unpacked at most once      *)
(* under one record is what Association shows.                              *)
(***************************************************************************)
EXTENDS PR6ClientOps, Integers, FiniteSets

CONSTANTS
    Jobs,           \* requests the application makes, named by the job's uuid
    Options,        \* what a request may ask: [confirmed, retryPeriod, retryMax]
    MAX_COUNTER,    \* largest invocation counter (0xffffffff)
    Responses,      \* result lists a remote server may return
    Incoming,       \* BOOLEANs: kinds of requests received (is it confirmed?)
    MaxIncoming,    \* bound on requests received
    Strays,         \* what else the network may bring, of the three kinds below
    MaxTime,        \* bound on the clock, in seconds
    MaxInput,       \* bound on the worker's queue when a datagram is added
    MaxTicks,       \* bound on ticks waiting in the job thread's queue
    MaxStops,       \* bound on calls of stop
    MaxCreated      \* bound on creations of the association

\* Datagrams no association made: "malformed" ones, that are no PR6 message,
\* "forged" ones, that carry the two addresses of the association, and "unknown"
\* ones, whose addresses have no record.
StrayKinds == {"malformed", "forged", "unknown"}

ASSUME WrangleAssumption ==
    /\ Options \subseteq [confirmed : BOOLEAN, retryPeriod : Nat, retryMax : Nat]
    /\ Responses \subseteq Seq(STRING) /\ Incoming \subseteq BOOLEAN /\ Strays \subseteq StrayKinds
    /\ MAX_COUNTER \in Nat /\ MaxIncoming \in Nat /\ MaxTime \in Nat /\ MaxInput \in Nat
    /\ MaxTicks \in Nat /\ MaxStops \in Nat /\ MaxCreated \in Nat \ {0}

VARIABLES
    running,
    threads,        \* [tick, job, worker]: "none", "alive" or "dead"
    processJobQueue,
    processMessageQueue,
    outputQueue,    \* requests handed to the network: [job, gen, counter]
    ids,
    jobs,           \* the Hash of active jobs, by the counter of the index
    jobsIsArray,    \* @jobs is the [] that stop leaves
    preJobs,
    timeoutList,
    job,            \* the ClientJob of each request
    results,        \* result lists pushed on each responseQueue
    now,
    association,    \* which creation of the record is in the database, 0 if none
    created,        \* how often it was created
    invocationCounter,
    crossed,        \* a re-creation fell between two readings of a record for one message
    unpacked,       \* answers the worker has accepted
    incoming,       \* requests received
    stops

peerVars == <<ids, jobs, preJobs, timeoutList>>
dbVars   == <<association, created, invocationCounter, crossed>>
vars == <<running, threads, processJobQueue, processMessageQueue, outputQueue,
          peerVars, jobsIsArray, job, results, now, dbVars, unpacked, incoming, stops>>

Nil == -1
NoJob == [client |-> Unused, timeout |-> Nil, retryPeriod |-> 0, retryMax |-> 0]

Finished(j) == results[j] # <<>>

Init ==
    /\ running = FALSE
    /\ threads = [tick |-> "none", job |-> "none", worker |-> "none"]
    /\ processJobQueue = <<>> /\ processMessageQueue = <<>> /\ outputQueue = {}
    /\ ids = {} /\ jobs = <<>> /\ jobsIsArray = FALSE /\ preJobs = {} /\ timeoutList = <<>>
    /\ job = [j \in Jobs |-> NoJob] /\ results = [j \in Jobs |-> <<>>]
    /\ now = 0
    /\ association = 1 /\ created = 1 /\ invocationCounter = 0 /\ crossed = FALSE
    /\ unpacked = {} /\ incoming = 0 /\ stops = 0

-----------------------------------------------------------------------------
(* ClientJob *)

\* One method per request: its argument stands for the whole of it. The pool is
\* as long as the list, which goes on after an error unless told otherwise.
NewClient(j, confirmed) == Initialised(1, confirmed, FALSE, j, 0)

New(j, o) ==
    [client |-> NewClient(j, o.confirmed),
     timeout |-> Nil, retryPeriod |-> o.retryPeriod, retryMax |-> o.retryMax]

\* What ClientJob#output returns is empty when the client has nothing to send.
HasOutput(b) == CanOutput(b.client, 65535)
Output(b) == [b EXCEPT !.client = IF HasOutput(b) THEN Pending(@) ELSE @, !.timeout = Nil]

OutputConfirmed(b, counter) ==
    IF CanConfirm(b.client) THEN [b EXCEPT !.client = Confirmed(@, counter)] ELSE b

\* The count of retries is never increased: a job may retry always or never.
Retry(b) == 0 < b.retryMax

\* The callback of a completing client pushes its results and finishes the job;
\* `of` holds the transmission whose answer brought them, if any did.
Outcome(r, of) == [result |-> r.list[1].result, of |-> of]

\* `client` is the job's client, timed out or cancelled.
Abandoned(b, client) == IF CanAbandon(b.client) THEN [b EXCEPT !.client = client] ELSE b

\* A callback that ran has pushed an outcome on the response queue of j.
Delivered(all, j, called, outcome) ==
    IF called THEN [all EXCEPT ![j] = Append(@, outcome)] ELSE all

\* j becomes b, and if a callback ran its result list is delivered.
Update(j, b, called, of) ==
    /\ job' = [job EXCEPT ![j] = b]
    /\ results' = Delivered(results, j, called, Outcome(b.client, of))

-----------------------------------------------------------------------------
(* The application, the clock, the network and the database *)

Start ==
    /\ ~running
    /\ running' = TRUE
    /\ threads' = [t \in DOMAIN threads |-> "alive"]
    /\ UNCHANGED <<processJobQueue, processMessageQueue, outputQueue, peerVars, jobsIsArray,
                   job, results, now, dbVars, unpacked, incoming, stops>>

\* With jobs in the Hash, `signalCancel` is called on a [key, job] pair: stop
\* raises before it resets anything.  Without, @jobs becomes an Array.
Stop ==
    /\ stops < MaxStops /\ stops' = stops + 1
    /\ running' = FALSE
    /\ threads' = [t \in DOMAIN threads |-> "none"]
    /\ \/ /\ jobs # <<>>
          /\ UNCHANGED <<timeoutList, preJobs, jobsIsArray>>
       \/ /\ jobs = <<>>
          /\ jobsIsArray' = TRUE /\ timeoutList' = <<>> /\ preJobs' = {}
    /\ UNCHANGED <<processJobQueue, processMessageQueue, outputQueue, ids, jobs,
                   job, results, now, dbVars, unpacked, incoming>>

Asked(j) == \/ job[j] # NoJob
            \/ \E i \in DOMAIN processJobQueue :
                   processJobQueue[i].type = "newJob" /\ processJobQueue[i].job = j

Request(j) ==
    /\ ~Asked(j)
    /\ \E o \in Options :
           processJobQueue' = Append(processJobQueue, [type |-> "newJob", job |-> j, opts |-> o])
    /\ UNCHANGED <<running, threads, processMessageQueue, outputQueue, peerVars, jobsIsArray,
                   job, results, now, dbVars, unpacked, incoming, stops>>

Pass ==
    /\ now < MaxTime /\ now' = now + 1
    /\ UNCHANGED <<running, threads, processJobQueue, processMessageQueue, outputQueue, peerVars,
                   jobsIsArray, job, results, dbVars, unpacked, incoming, stops>>

\* A datagram arrives: the answer to a request that was sent, any number of times and
\* in any order, packed under a later record if the remote peer's was created again
\* since it read the request; a request of the remote peer; or any other datagram.
Input ==
    /\ Len(processMessageQueue) < MaxInput
    /\ \/ \E s \in outputQueue, res \in Responses : \E n \in s.gen..created :
              /\ job[s.job].client.confirmed
              /\ processMessageQueue' = Append(processMessageQueue,
                     [type |-> "receive", answers |-> s, gen |-> n, results |-> res])
              /\ UNCHANGED incoming
       \/ \E c \in Incoming :
              /\ incoming < MaxIncoming /\ incoming' = incoming + 1
              /\ processMessageQueue' = Append(processMessageQueue,
                     [type |-> "request", gen |-> association, confirmed |-> c])
       \/ \E k \in Strays :
              /\ processMessageQueue' = Append(processMessageQueue, [type |-> "stray", kind |-> k])
              /\ UNCHANGED incoming
    /\ UNCHANGED <<running, threads, processJobQueue, outputQueue, peerVars, jobsIsArray,
                   job, results, now, dbVars, unpacked, stops>>

Delete ==
    /\ association # 0 /\ created < MaxCreated
    /\ association' = 0
    /\ UNCHANGED <<running, threads, processJobQueue, processMessageQueue, outputQueue, peerVars,
                   jobsIsArray, job, results, now, created, invocationCounter, crossed, unpacked,
                   incoming, stops>>

Create ==
    /\ association = 0
    /\ created' = created + 1 /\ association' = created + 1 /\ invocationCounter' = 0
    /\ UNCHANGED <<running, threads, processJobQueue, processMessageQueue, outputQueue, peerVars,
                   jobsIsArray, job, results, now, crossed, unpacked, incoming, stops>>

-----------------------------------------------------------------------------
(* processTick *)

Waiting(type) == Cardinality({i \in DOMAIN processJobQueue : processJobQueue[i].type = type})

ProcessTick ==
    /\ threads.tick = "alive"
    /\ Waiting("notifyTick") < MaxTicks
    /\ processJobQueue' = Append(processJobQueue, [type |-> "notifyTick"])
    /\ UNCHANGED <<running, threads, processMessageQueue, outputQueue, peerVars, jobsIsArray,
                   job, results, now, dbVars, unpacked, incoming, stops>>

-----------------------------------------------------------------------------
(* processJob *)

\* The job thread takes an item of a type; what every branch leaves alone.
TakeJob(type) ==
    /\ threads.job = "alive"
    /\ processJobQueue # <<>> /\ Head(processJobQueue).type = type
    /\ processJobQueue' = Tail(processJobQueue)
    /\ UNCHANGED <<running, jobsIsArray, now, dbVars, unpacked, incoming, stops>>

JobThreadDies == threads' = [threads EXCEPT !.job = "dead"]

Sending(j, b) == [type |-> "send", job |-> j, empty |-> ~HasOutput(b)]

NewJob ==
    /\ TakeJob("newJob")
    /\ LET item == Head(processJobQueue)
           b == New(item.job, item.opts)
       IN  /\ job' = [job EXCEPT ![item.job] = Output(b)]
           /\ ids' = ids \cup {item.job}
           /\ preJobs' = preJobs \cup {item.job}
           /\ processMessageQueue' = Append(processMessageQueue, Sending(item.job, b))
    /\ UNCHANGED <<threads, outputQueue, jobs, timeoutList, results>>

\* "missing preJob"
MissingPreJob(type) ==
    /\ TakeJob(type)
    /\ Head(processJobQueue).job \notin preJobs
    /\ JobThreadDies
    /\ UNCHANGED <<processMessageQueue, outputQueue, peerVars, job, results>>

NotifyNotSent ==
    /\ TakeJob("notifyNotSent")
    /\ LET j == Head(processJobQueue).job
       IN  /\ j \in preJobs
           /\ preJobs' = preJobs \ {j}
           /\ ids' = ids \ {j}
           /\ Update(j, Abandoned(job[j], Cancelled(job[j].client)), CanAbandon(job[j].client), {})
    /\ UNCHANGED <<threads, processMessageQueue, outputQueue, jobs, timeoutList>>

\* Faulty variant: a new job goes to the front of the list, whatever is there.
Listed_First(j, timeout) == <<j>> \o timeoutList

\* Faulty variant: a job is listed only before another one.
Listed_NeverFirst(j, timeout) ==
    IF \E i \in DOMAIN timeoutList : job[timeoutList[i]].timeout > timeout
    THEN <<j>> \o timeoutList ELSE timeoutList

\* A new job goes before the first that expires later.  With none that does, it
\* is not listed, unless the list is empty.
Listed(j, timeout) ==
    LET later == {i \in DOMAIN timeoutList : job[timeoutList[i]].timeout > timeout}
        Before(i) == SubSeq(timeoutList, 1, i - 1) \o <<j>>
                         \o SubSeq(timeoutList, i, Len(timeoutList))
    IN  IF timeoutList = <<>> THEN <<j>>
        ELSE IF later = {} THEN timeoutList
        ELSE Before(CHOOSE i \in later : \A k \in later : i <= k)

\* The request went out.  A request without response is complete here: its
\* timeout is nil, and comparing that with another one's raises.
NotifyPacked ==
    /\ TakeJob("notifyPacked")
    /\ LET item == Head(processJobQueue)
           j == item.job
           c == OutputConfirmed(job[j], item.counter)
           completes == c.client.state = "COMPLETE" /\ job[j].client.state # "COMPLETE"
           done == completes \/ Finished(j)
           b == [c EXCEPT !.timeout = IF done THEN @ ELSE item.time + c.retryPeriod]
           raises == timeoutList # <<>> /\
                         (b.timeout = Nil \/ \E i \in DOMAIN timeoutList :
                              /\ job[timeoutList[i]].timeout = Nil
                              /\ \A k \in 1..(i-1) : job[timeoutList[k]].timeout <= b.timeout)
       IN  /\ j \in preJobs
           /\ preJobs' = preJobs \ {j}
           /\ \/ /\ jobsIsArray            \* @jobs[index] raises on an Array
                 /\ Update(j, b, completes, {})
                 /\ JobThreadDies
                 /\ UNCHANGED <<ids, jobs, timeoutList, outputQueue>>
              \/ /\ ~jobsIsArray /\ item.counter \in DOMAIN jobs
                 /\ LET other == jobs[item.counter]     \* j itself after a re-creation
                        packed == [job EXCEPT ![j] = b]
                        given == Delivered(results, j, completes, Outcome(b.client, {}))
                    IN  /\ job' = [packed EXCEPT ![other] = Abandoned(@, Cancelled(@.client))]
                        /\ results' = Delivered(given, other, CanAbandon(packed[other].client),
                                                [result |-> "CANCEL", of |-> {}])
                 /\ jobs' = [n \in DOMAIN jobs \ {item.counter} |-> jobs[n]]
                 /\ JobThreadDies          \* preJob.force is undefined
                 /\ UNCHANGED <<ids, timeoutList, outputQueue>>
              \/ /\ ~jobsIsArray /\ item.counter \notin DOMAIN jobs
                 /\ Update(j, b, completes, {})
                 /\ outputQueue' = outputQueue \cup
                        {[job |-> j, gen |-> item.gen, counter |-> item.counter]}
                 /\ jobs' = [n \in DOMAIN jobs \cup {item.counter} |->
                                 IF n = item.counter THEN j ELSE jobs[n]]
                 /\ IF raises THEN JobThreadDies /\ UNCHANGED timeoutList
                              ELSE timeoutList' = Listed(j, b.timeout) /\ UNCHANGED threads
                 /\ UNCHANGED ids
    /\ UNCHANGED processMessageQueue

\* The jobs a tick finds expired.  The list is shortened while it is walked, so
\* every second entry is passed over, up to the first visited that is not due.
Due(i) == job[timeoutList[i]].timeout # Nil /\ job[timeoutList[i]].timeout <= now
Visited == {i \in DOMAIN timeoutList : i % 2 = 1 /\ \A k \in 1..(i-1) : k % 2 = 1 => Due(k)}
Expired == {timeoutList[i] : i \in {k \in Visited : Due(k)}}

\* Faulty variant: a job to be sent again is not put back among the preJobs.
Again_NotKept(retried) == preJobs

Again(retried) == preJobs \cup retried

\* The places in K, one after the other.
InOrder(K) == {f \in [1..Cardinality(K) -> K] : \A i, k \in DOMAIN f : i < k => f[i] < f[k]}
Places(S) == {i \in DOMAIN timeoutList : timeoutList[i] \in S}

\* The key by which a job is deleted from @jobs here starts with its uuid, the
\* keys there start with the association's: nothing is deleted.
NotifyTick ==
    /\ TakeJob("notifyTick")
    /\ LET retried == {j \in Expired : Retry(job[j])}
           ended   == Expired \ retried
       IN  /\ \E rest \in InOrder(Places(Jobs \ Expired)), resent \in InOrder(Places(retried)) :
                /\ timeoutList' = [i \in DOMAIN rest |-> timeoutList[rest[i]]]
                /\ processMessageQueue' = processMessageQueue \o
                       [i \in DOMAIN resent |->
                           Sending(timeoutList[resent[i]], job[timeoutList[resent[i]]])]
           /\ preJobs' = Again(retried)
           /\ job' = [j \in Jobs |-> IF j \in retried THEN Output(job[j])
                                     ELSE IF j \in ended THEN Abandoned(job[j], TimedOut(job[j].client))
                                     ELSE job[j]]
           /\ results' = [j \in Jobs |-> IF j \in ended /\ CanAbandon(job[j].client)
                                         THEN Append(results[j], [result |-> "TIMEOUT", of |-> {}])
                                         ELSE results[j]]
           /\ ids' = ids \ ended
           /\ threads' = [threads EXCEPT !.job =      \* nil is not compared with a time
                  IF \E i \in Visited : job[timeoutList[i]].timeout = Nil THEN "dead" ELSE @]
    /\ UNCHANGED <<jobs, outputQueue>>

\* Faulty variant: the job is forgotten whatever became of the message.
Forgotten_Always(j, accepted) == TRUE

Forgotten(j, accepted) == accepted \/ Finished(j)

\* The response names its request by the 16 low bits of the counter.  The entry
\* of timeoutList stays: what is deleted from the list there is `j`, which in
\* that scope is no job but the method Kernel#j of the json library.
ProcessMessage ==
    /\ TakeJob("processMessage")
    /\ LET m == Head(processJobQueue)
       IN  \/ /\ jobsIsArray
              /\ JobThreadDies
              /\ UNCHANGED <<jobs, job, results>>
           \/ /\ ~jobsIsArray /\ m.counter \notin DOMAIN jobs
              /\ UNCHANGED <<threads, jobs, job, results>>
           \/ /\ ~jobsIsArray /\ m.counter \in DOMAIN jobs
              /\ LET j == jobs[m.counter]
                     accepted == Accepts(job[j].client, m.counter, m.results)
                     b == IF accepted THEN [job[j] EXCEPT !.client = Answered(@, m.results)] ELSE job[j]
                 IN  /\ Update(j, b, accepted, m.of)
                     /\ jobs' = IF Forgotten(j, accepted)
                                THEN [n \in DOMAIN jobs \ {m.counter} |-> jobs[n]]
                                ELSE jobs
              /\ UNCHANGED threads
    /\ UNCHANGED <<processMessageQueue, outputQueue, ids, preJobs, timeoutList>>

-----------------------------------------------------------------------------
(* processMessage, the worker *)

\* For one message the worker reads the record several times, each in a transaction
\* of its own.  Only the application creates and deletes records, so what falls
\* between two readings is a deletion, and a creation or not.
TakeMessage(type) ==
    /\ threads.worker = "alive"
    /\ processMessageQueue # <<>> /\ Head(processMessageQueue).type = type
    /\ processMessageQueue' = Tail(processMessageQueue)
    /\ UNCHANGED <<running, outputQueue, peerVars, jobsIsArray, job, results, now,
                   incoming, stops>>

\* The record stays what it is while the message is handled.
Steadily == UNCHANGED <<association, created>>

\* The record is deleted and created again between two readings, once or more often;
\* c is the counter of the new one.
Recreated(c) ==
    /\ association # 0
    /\ created' \in (created + 1)..MaxCreated
    /\ association' = created' /\ invocationCounter' = c

WorkerDies == threads' = [threads EXCEPT !.worker = "dead"]

\* Faulty variant: the counter of a message not sent is used all the same.
Packs_Unchecked(empty) == ~empty

\* packMessage returns a message, taking the next counter.
Packs(empty) == ~empty /\ invocationCounter < MAX_COUNTER

Packed(j, gen) ==
    [type |-> "notifyPacked", job |-> j, gen |-> gen, counter |-> invocationCounter + 1, time |-> now]

\* The lookup of an association that is not there raises, unless there is
\* nothing to pack.
Send ==
    /\ TakeMessage("send") /\ Steadily
    /\ LET item == Head(processMessageQueue)
       IN  \/ /\ association = 0 /\ ~item.empty
              /\ WorkerDies
              /\ UNCHANGED <<processJobQueue, invocationCounter>>
           \/ /\ association # 0 /\ Packs(item.empty)
              /\ invocationCounter' = invocationCounter + 1
              /\ processJobQueue' = Append(processJobQueue, Packed(item.job, association))
              /\ UNCHANGED threads
           \/ /\ item.empty \/ (association # 0 /\ ~Packs(item.empty))
              /\ processJobQueue' = Append(processJobQueue,
                     [type |-> "notifyNotSent", job |-> item.job])
              /\ UNCHANGED <<threads, invocationCounter>>
    /\ UNCHANGED <<crossed, unpacked>>

\* The counter is the old record's, the secret it encrypts under the new one's.
SendAcross ==
    /\ TakeMessage("send") /\ Recreated(0)
    /\ LET item == Head(processMessageQueue)
       IN  /\ Packs(item.empty)
           /\ processJobQueue' = Append(processJobQueue, Packed(item.job, association'))
    /\ crossed' = TRUE
    /\ UNCHANGED <<threads, unpacked>>

\* Faulty variant: an answer is unpacked again and again, whatever its secret.
Unpacks_Any(item) == TRUE

\* Decrypts under the present secret and was not accepted before.
Unpacks(item) == item.gen = association /\ item.answers \notin unpacked

\* The answer goes to the job thread; the remote peer may have packed it across a
\* re-creation of its own record.
Accept(item) ==
    /\ unpacked' = unpacked \cup {item.answers}
    /\ processJobQueue' = Append(processJobQueue,
           [type |-> "processMessage", counter |-> item.answers.counter % RES_MOD,
            results |-> item.results, of |-> {item.answers}])
    /\ crossed' = (crossed \/ item.gen # item.answers.gen)
    /\ UNCHANGED threads

Receive ==
    /\ TakeMessage("receive") /\ Steadily
    /\ LET item == Head(processMessageQueue)
       IN  \/ /\ association = 0
              /\ WorkerDies
              /\ UNCHANGED <<processJobQueue, crossed, unpacked>>
           \/ /\ association # 0 /\ Unpacks(item)
              /\ Accept(item)
           \/ /\ association # 0 /\ ~Unpacks(item)
              /\ UNCHANGED <<threads, processJobQueue, crossed, unpacked>>
    /\ UNCHANGED invocationCounter

\* It decrypts under the old record, and the window of the new one is empty.
ReceiveAcross ==
    /\ TakeMessage("receive") /\ Recreated(0)
    /\ LET item == Head(processMessageQueue)
       IN  item.gen = association /\ Accept(item)

\* A request of the remote peer: a server instance answers it.  Nothing is
\* packed for an empty response, and asking that nothing for its size raises.
ReceiveRequest ==
    /\ TakeMessage("request") /\ Steadily
    /\ LET item == Head(processMessageQueue)
       IN  \/ /\ association # 0 /\ item.gen # association
              /\ UNCHANGED <<threads, invocationCounter>>
           \/ /\ association # 0 /\ item.gen = association /\ Packs(~item.confirmed)
              /\ invocationCounter' = invocationCounter + 1
              /\ UNCHANGED threads
           \/ /\ association = 0 \/ (item.gen = association /\ ~Packs(~item.confirmed))
              /\ WorkerDies
              /\ UNCHANGED invocationCounter
    /\ UNCHANGED <<processJobQueue, crossed, unpacked>>

\* It is accepted under one record; the next has the counter of the response, or
\* there is none and the request is dropped ("removed since last read").
ReceiveRequestAcross ==
    /\ TakeMessage("request")
    /\ LET item == Head(processMessageQueue)
       IN  /\ item.gen = association
           /\ \/ item.confirmed /\ MAX_COUNTER > 0 /\ Recreated(1)
              \/ /\ association # 0 /\ created < MaxCreated /\ association' = 0
                 /\ UNCHANGED <<created, invocationCounter>>
    /\ UNCHANGED <<threads, processJobQueue, crossed, unpacked>>

\* Any other datagram.  What does not decrypt is dropped, but without a record
\* there is nothing to decrypt with, and the lookup raises.
ReceiveStray ==
    /\ TakeMessage("stray") /\ Steadily
    /\ LET kind == Head(processMessageQueue).kind
           raises == kind = "unknown" \/ (kind = "forged" /\ association = 0)
       IN  IF raises THEN WorkerDies ELSE UNCHANGED threads
    /\ UNCHANGED <<processJobQueue, invocationCounter, crossed, unpacked>>

-----------------------------------------------------------------------------
Work == \/ NewJob \/ NotifyNotSent \/ NotifyPacked \/ NotifyTick \/ ProcessMessage
        \/ MissingPreJob("notifyPacked") \/ MissingPreJob("notifyNotSent")

Pack == \/ Send \/ Receive \/ ReceiveRequest \/ ReceiveStray
        \/ SendAcross \/ ReceiveAcross \/ ReceiveRequestAcross

Next ==
    \/ Start \/ Stop \/ Pass \/ Input \/ Delete \/ Create
    \/ \E j \in Jobs : Request(j)
    \/ ProcessTick \/ Work \/ Pack

Spec == Init /\ [][Next]_vars

\* The threads that live are scheduled, the ticker ticks, a queue that has an
\* item wakes its thread.  The network owes nothing.
FairSpec == Spec /\ WF_vars(ProcessTick) /\ WF_vars(Work) /\ WF_vars(Pack)

-----------------------------------------------------------------------------
Transmissions == [job : Jobs, gen : 1..MaxCreated, counter : 1..MAX_COUNTER]

JobItem(i) ==
    \/ i.type = "notifyTick"
    \/ i.type = "newJob" /\ i.job \in Jobs /\ i.opts \in Options
    \/ i.type = "notifyNotSent" /\ i.job \in Jobs
    \/ /\ i.type = "notifyPacked" /\ i.time \in 0..MaxTime
       /\ [job |-> i.job, gen |-> i.gen, counter |-> i.counter] \in Transmissions
    \/ /\ i.type = "processMessage" /\ i.counter \in 0..(RES_MOD - 1)
       /\ i.results \in Responses /\ i.of \subseteq outputQueue

MessageItem(i) ==
    \/ i.type = "send" /\ i.job \in Jobs /\ i.empty \in BOOLEAN
    \/ /\ i.type = "receive" /\ i.answers \in outputQueue /\ i.results \in Responses
       /\ i.gen \in 1..MaxCreated
    \/ i.type = "request" /\ i.gen \in 0..MaxCreated /\ i.confirmed \in BOOLEAN
    \/ i.type = "stray" /\ i.kind \in Strays

\* Types: what the queues hold has the shape its type has, an invocation counter
\* never passes the largest value, a listed or registered job is a known one.
TypeOK ==
    /\ running \in BOOLEAN /\ jobsIsArray \in BOOLEAN
    /\ threads \in [{"tick", "job", "worker"} -> {"none", "alive", "dead"}]
    /\ \A i \in DOMAIN processJobQueue : JobItem(processJobQueue[i])
    /\ \A i \in DOMAIN processMessageQueue : MessageItem(processMessageQueue[i])
    /\ outputQueue \subseteq Transmissions /\ unpacked \subseteq outputQueue
    /\ preJobs \subseteq ids /\ ids \subseteq Jobs
    /\ DOMAIN jobs \subseteq 1..MAX_COUNTER /\ \A n \in DOMAIN jobs : jobs[n] \in Jobs
    /\ timeoutList \in Seq(Jobs)
    /\ \A j \in Jobs : job[j].client.state \in States /\ job[j].client.counter \in 0..(RES_MOD - 1)
    /\ now \in 0..MaxTime /\ created \in 1..MaxCreated /\ association \in 0..created
    /\ invocationCounter \in 0..MAX_COUNTER /\ crossed \in BOOLEAN
    /\ incoming \in 0..MaxIncoming /\ stops \in 0..MaxStops

\* An answer goes to the request it answers, and to the latest transmission of
\* that request: whatever the network did with the answers, and after retries and
\* re-creations of the association that start the counters again, no request gets
\* the result of another or of an attempt it had given up, as long as no re-creation
\* fell between two readings of the record for one message, here or at the remote peer.
AnswerIsOwn ==
    ~crossed => \A j \in Jobs : \A i \in DOMAIN results[j] : \A s \in results[j][i].of :
        /\ s.job = j
        /\ \A t \in outputQueue : t.job = j => t.gen < s.gen \/ (t.gen = s.gen /\ t.counter <= s.counter)

\* While a request waits for its answer, the index the answer will be looked up
\* by, made of the counter a response carries, leads to its job.
SentIsRouted ==
    \A j \in Jobs : job[j].client.state = "SENT" =>
        job[j].client.counter \in DOMAIN jobs /\ jobs[job[j].client.counter] = j

\* A job waits among the preJobs exactly as long as one message about it is on
\* its way to the worker or back: the worker's notice never misses its job, and
\* no job is left there for ever.
PreJobHasMessage ==
    \A j \in Jobs :
        Cardinality({i \in DOMAIN processMessageQueue :
                        /\ processMessageQueue[i].type = "send"
                        /\ processMessageQueue[i].job = j})
        + Cardinality({i \in DOMAIN processJobQueue :
                        /\ processJobQueue[i].type \in {"notifyPacked", "notifyNotSent"}
                        /\ processJobQueue[i].job = j})
        = IF j \in preJobs THEN 1 ELSE 0

\* The list of timeouts is in order of time: a tick may stop at the first job
\* that is not due.
TimeoutsInOrder ==
    \A i, k \in DOMAIN timeoutList :
        i < k => job[timeoutList[i]].timeout <= job[timeoutList[k]].timeout

\* No thread of the peer ends by an exception.
NoThreadDies == \A t \in DOMAIN threads : threads[t] # "dead"

\* A request that was sent and has no result yet is in the list of timeouts.
TimeoutListed ==
    \A j \in Jobs : job[j].client.state = "SENT" => \E i \in DOMAIN timeoutList : timeoutList[i] = j

\* A job its response has finished is no longer in the list of timeouts.
FinishedIsRemoved ==
    \A i \in DOMAIN timeoutList : \A k \in DOMAIN results[timeoutList[i]] :
        results[timeoutList[i]][k].of = {}

\* Every request the application makes of a running peer gets a result, even
\* when no answer comes back.
EveryRequestEnds == \A j \in Jobs : Asked(j) /\ running ~> Finished(j)
=============================================================================
