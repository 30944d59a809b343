---------------------- MODULE WranglePeerSteadyProofs -----------------------
(***************************************************************************)
(* Theorems about a peer until it is stopped or its association is         *)
(* deleted: what is under way about a request agrees with the books of the *)
(* job thread, a waiting request can be found by its answer, and, if every *)
(* request wants a response and no stranger sends a message, no thread     *)
(* ends.  A stop empties the books while messages are under way, and a     *)
(* message whose association is gone is dropped without a notice: none of  *)
(* the three holds beyond them.                                            *)
(***************************************************************************)
EXTENDS WranglePeerProofs

\* The peer was not stopped, and the association it uses is the first one.
Steady == stops = 0 /\ association = 1 /\ created = 1

StaysSteady == Steady /\ Steady'

LEMMA SteadyFacts ==
    ASSUME StaysSteady, Typed
    PROVE  /\ association = 1 /\ created = 1
           /\ ~Stop /\ ~Delete /\ ~Create
           /\ ~SendAcross /\ ~ReceiveAcross /\ ~ReceiveRequestAcross
<1>1. ~Recreated(0) /\ ~Recreated(1)
  BY RecreatedFacts DEF StaysSteady, Steady
<1>2. ~SendAcross /\ ~ReceiveAcross /\ ~ReceiveRequestAcross
  BY <1>1 DEF StaysSteady, Steady, SendAcross, ReceiveAcross, ReceiveRequestAcross
<1> QED BY <1>2 DEF StaysSteady, Steady, Stop, Delete, Create

\* A peer once stopped is never steady again, nor one whose association was deleted.
LEMMA SteadyBefore ==
    ASSUME Typed, [Next]_vars, Steady'
    PROVE  StaysSteady
<1>1. ~Stop
  BY DEF Typed, Steady, Stop
<1>2. ~Delete
  BY DEF Steady, Delete
<1>3. ~Create
  BY DEF Typed, Steady, Create
<1>4. stops' = stops /\ association' = association /\ created' = created
  <2>1. CASE \/ Start \/ Pass \/ Input \/ ProcessTick \/ UNCHANGED vars
             \/ \E j \in Jobs : Request(j)
    BY <2>1 DEF Start, Pass, Input, ProcessTick, Request, vars, dbVars
  <2>2. CASE Work
    BY <2>2 DEF Work, NewJob, NotifyNotSent, NotifyPacked, NotifyTick, ProcessMessage,
                MissingPreJob, TakeJob, dbVars
  <2>3. CASE Pack
    <3>1. ~Recreated(0) /\ ~Recreated(1)
      <4>1. created \in Nat /\ 1 <= created
        BY WrangleAssumption DEF Typed
      <4>2. created' = 1
        BY DEF Steady
      <4> QED BY <4>1, <4>2, RecreatedFacts
    <3>2. association' # 0
      BY DEF Steady
    <3>3. stops' = stops
      BY <2>3 DEF Pack, Send, Receive, ReceiveRequest, ReceiveStray, SendAcross, ReceiveAcross,
                  ReceiveRequestAcross, TakeMessage
    <3>4. Steadily
      BY <2>3, <3>1, <3>2 DEF Pack, Send, Receive, ReceiveRequest, ReceiveStray, SendAcross,
                              ReceiveAcross, ReceiveRequestAcross
    <3> QED BY <3>3, <3>4 DEF Steadily
  <2> QED BY <1>1, <1>2, <1>3, <2>1, <2>2, <2>3 DEF Next
<1> QED BY <1>4 DEF StaysSteady, Steady

-----------------------------------------------------------------------------
(* Items that stay in a queue *)

LEMMA AtTailStays ==
    ASSUME NEW S, NEW q \in Seq(S), q # <<>>, NEW X, Head(q) \notin X
    PROVE  At(Tail(q), X) # {} <=> At(q, X) # {}
<1>1. /\ Head(q) = q[1] /\ Len(q) \in Nat /\ DOMAIN q = 1..Len(q)
      /\ DOMAIN Tail(q) = 1..(Len(q) - 1)
      /\ \A i \in DOMAIN Tail(q) : i + 1 \in DOMAIN q /\ Tail(q)[i] = q[i + 1]
  BY TailPlaces
<1>2. ASSUME NEW i \in At(q, X) PROVE i - 1 \in At(Tail(q), X)
  <2>1. i \in DOMAIN q /\ q[i] \in X
    BY DEF At
  <2>2. i # 1
    BY <1>1, <2>1
  <2>3. i - 1 \in DOMAIN Tail(q) /\ (i - 1) + 1 = i
    BY <1>1, <2>1, <2>2
  <2>4. Tail(q)[i - 1] = q[i]
    BY <1>1, <2>3
  <2> QED BY <2>1, <2>3, <2>4 DEF At
<1>3. ASSUME NEW i \in At(Tail(q), X) PROVE i + 1 \in At(q, X)
  BY <1>1 DEF At
<1> QED BY <1>2, <1>3

LEMMA AtAppendStays ==
    ASSUME NEW S, NEW q \in Seq(S), NEW x \in S, NEW X
    PROVE  At(Append(q, x), X) # {} <=> At(q, X) # {} \/ x \in X
<1>1. /\ Len(q) \in Nat /\ DOMAIN q = 1..Len(q)
      /\ DOMAIN Append(q, x) = 1..(Len(q) + 1)
      /\ \A i \in DOMAIN q : i \in DOMAIN Append(q, x) /\ Append(q, x)[i] = q[i]
      /\ Append(q, x)[Len(q) + 1] = x
  BY AppendPlaces
<1>2. ASSUME x \in X PROVE Len(q) + 1 \in At(Append(q, x), X)
  BY <1>1, <1>2 DEF At
<1>3. At(Append(q, x), X) # {} => At(q, X) # {} \/ x \in X
  BY AtAppend
<1>4. At(q, X) # {} => At(Append(q, x), X) # {}
  BY AtAppend
<1> QED BY <1>2, <1>3, <1>4

LEMMA AtConcatStays ==
    ASSUME NEW S, NEW q \in Seq(S), NEW r \in Seq(S), NEW X
    PROVE  At(q \o r, X) # {} <=> At(q, X) # {} \/ At(r, X) # {}
<1>1. /\ Len(q) \in Nat /\ DOMAIN q = 1..Len(q)
      /\ \A i \in DOMAIN q : i \in DOMAIN (q \o r) /\ (q \o r)[i] = q[i]
  BY ConcatPlaces
<1>2. \A i \in DOMAIN r : Len(q) + i \in DOMAIN (q \o r) /\ (q \o r)[Len(q) + i] = r[i]
  BY <1>1
<1>3. \A i \in At(q, X) : i \in At(q \o r, X)
  BY <1>1 DEF At
<1>4. \A i \in At(r, X) : Len(q) + i \in At(q \o r, X)
  BY <1>2 DEF At
<1>5. At(q \o r, X) # {} => At(q, X) # {} \/ At(r, X) # {}
  BY AtConcat
<1> QED BY <1>3, <1>4, <1>5

-----------------------------------------------------------------------------
(* The jobs that wait for the worker *)

\* A job is among the preJobs exactly as long as a message about it is under way.
Kept == \A k \in Jobs : k \in preJobs <=> HasMessage(k)

\* What is under way about k stays so.
Holds(k) == HasMessage(k)' <=> HasMessage(k)

LEMMA KeptInit == Init => Kept
<1> SUFFICES ASSUME Init, NEW k \in Jobs PROVE k \notin preJobs /\ ~HasMessage(k)
  BY DEF Kept
<1>1. processJobQueue = <<>> /\ processMessageQueue = <<>> /\ preJobs = {}
  BY DEF Init
<1>2. DOMAIN processJobQueue = {} /\ DOMAIN processMessageQueue = {}
  BY <1>1
<1> QED BY <1>1, <1>2 DEF HasMessage, Sends, Notices, At

LEMMA KeptFrame ==
    ASSUME Kept, preJobs' = preJobs, \A k \in Jobs : Holds(k)
    PROVE  Kept'
  BY DEF Kept, Holds

LEMMA HoldsByQueues ==
    ASSUME NEW k \in Jobs,
           Notices(k)' # {} <=> Notices(k) # {}, Sends(k)' # {} <=> Sends(k) # {}
    PROVE  Holds(k)
  BY DEF Holds, HasMessage

LEMMA SameJobQueue ==
    ASSUME Typed, NEW k \in Jobs,
           \/ processJobQueue' = processJobQueue
           \/ \E x \in JobItems : /\ x \notin NoticesOf(k)
                                  /\ processJobQueue' = Append(processJobQueue, x)
           \/ /\ processJobQueue # <<>> /\ Head(processJobQueue) \notin NoticesOf(k)
              /\ processJobQueue' = Tail(processJobQueue)
    PROVE  Notices(k)' # {} <=> Notices(k) # {}
<1>1. processJobQueue \in Seq(JobItems)
  BY DEF Typed
<1>2. /\ Notices(k) = At(processJobQueue, NoticesOf(k))
      /\ Notices(k)' = At(processJobQueue', NoticesOf(k))
  BY DEF Notices, NoticesOf, JobItems, Transmissions
<1>3. CASE processJobQueue' = processJobQueue
  BY <1>2, <1>3
<1>4. CASE \E x \in JobItems : /\ x \notin NoticesOf(k)
                               /\ processJobQueue' = Append(processJobQueue, x)
  BY <1>1, <1>2, <1>4, AtAppendStays
<1>5. CASE /\ processJobQueue # <<>> /\ Head(processJobQueue) \notin NoticesOf(k)
           /\ processJobQueue' = Tail(processJobQueue)
  BY <1>1, <1>2, <1>5, AtTailStays
<1> QED BY <1>3, <1>4, <1>5

LEMMA SameMessageQueue ==
    ASSUME Typed, NEW k \in Jobs,
           \/ processMessageQueue' = processMessageQueue
           \/ \E x \in MessageItems : /\ x \notin SendsOf(k)
                                      /\ processMessageQueue' = Append(processMessageQueue, x)
           \/ /\ processMessageQueue # <<>> /\ Head(processMessageQueue) \notin SendsOf(k)
              /\ processMessageQueue' = Tail(processMessageQueue)
    PROVE  Sends(k)' # {} <=> Sends(k) # {}
<1>1. processMessageQueue \in Seq(MessageItems)
  BY DEF Typed
<1>2. /\ Sends(k) = At(processMessageQueue, SendsOf(k))
      /\ Sends(k)' = At(processMessageQueue', SendsOf(k))
  BY DEF Sends
<1>3. CASE processMessageQueue' = processMessageQueue
  BY <1>2, <1>3
<1>4. CASE \E x \in MessageItems : /\ x \notin SendsOf(k)
                                   /\ processMessageQueue' = Append(processMessageQueue, x)
  BY <1>1, <1>2, <1>4, AtAppendStays
<1>5. CASE /\ processMessageQueue # <<>> /\ Head(processMessageQueue) \notin SendsOf(k)
           /\ processMessageQueue' = Tail(processMessageQueue)
  BY <1>1, <1>2, <1>5, AtTailStays
<1> QED BY <1>3, <1>4, <1>5

\* What is taken from or put into the queues is not about k.
Elsewhere(k) ==
    /\ \/ processJobQueue' = processJobQueue
       \/ \E x \in JobItems : x \notin NoticesOf(k) /\ processJobQueue' = Append(processJobQueue, x)
       \/ /\ processJobQueue # <<>> /\ Head(processJobQueue) \notin NoticesOf(k)
          /\ processJobQueue' = Tail(processJobQueue)
    /\ \/ processMessageQueue' = processMessageQueue
       \/ \E x \in MessageItems : /\ x \notin SendsOf(k)
                                  /\ processMessageQueue' = Append(processMessageQueue, x)
       \/ /\ processMessageQueue # <<>> /\ Head(processMessageQueue) \notin SendsOf(k)
          /\ processMessageQueue' = Tail(processMessageQueue)

LEMMA ElsewhereHolds ==
    ASSUME Typed, NEW k \in Jobs, Elsewhere(k)
    PROVE  Holds(k) /\ (Pends(k)' => Pends(k))
<1>1. processJobQueue \in Seq(JobItems) /\ processMessageQueue \in Seq(MessageItems)
  BY DEF Typed
<1>2. Notices(k)' # {} <=> Notices(k) # {}
  BY SameJobQueue DEF Elsewhere
<1>3. Sends(k)' # {} <=> Sends(k) # {}
  BY SameMessageQueue DEF Elsewhere
<1>4. ASSUME At(processJobQueue', PackedOf(k)) # {} PROVE At(processJobQueue, PackedOf(k)) # {}
  <2>1. \A x : x \in PackedOf(k) => x \in NoticesOf(k)
    BY DEF PackedOf, NoticesOf
  <2>2. CASE processJobQueue' = processJobQueue
    BY <1>4, <2>2
  <2>3. ASSUME NEW x \in JobItems, x \notin NoticesOf(k),
               processJobQueue' = Append(processJobQueue, x)
        PROVE  At(processJobQueue, PackedOf(k)) # {}
    BY <1>1, <1>4, <2>1, <2>3, AtAppend
  <2>4. CASE processJobQueue # <<>> /\ processJobQueue' = Tail(processJobQueue)
    BY <1>1, <1>4, <2>4, AtTail
  <2> QED BY <2>2, <2>3, <2>4 DEF Elsewhere
<1>5. ASSUME At(processMessageQueue', FullOf(k)) # {} PROVE At(processMessageQueue, FullOf(k)) # {}
  <2>1. \A x : x \in FullOf(k) => x \in SendsOf(k)
    BY DEF FullOf, SendsOf
  <2>2. CASE processMessageQueue' = processMessageQueue
    BY <1>5, <2>2
  <2>3. ASSUME NEW x \in MessageItems, x \notin SendsOf(k),
               processMessageQueue' = Append(processMessageQueue, x)
        PROVE  At(processMessageQueue, FullOf(k)) # {}
    BY <1>1, <1>5, <2>1, <2>3, AtAppend
  <2>4. CASE processMessageQueue # <<>> /\ processMessageQueue' = Tail(processMessageQueue)
    BY <1>1, <1>5, <2>4, AtTail
  <2> QED BY <2>2, <2>3, <2>4 DEF Elsewhere
<1> QED BY <1>2, <1>3, <1>4, <1>5 DEF Holds, HasMessage, Pends

\* The steps of the environment and of the ticker.
Environment ==
    \/ Start \/ Stop \/ Pass \/ Input \/ Delete \/ Create \/ ProcessTick
    \/ \E j \in Jobs : Request(j)
    \/ UNCHANGED vars

LEMMA EnvironmentFacts ==
    ASSUME StaysSteady, Typed, Environment
    PROVE  /\ \A k \in Jobs : Elsewhere(k)
           /\ preJobs' = preJobs /\ timeoutList' = timeoutList /\ job' = job
<1>1. ~Stop /\ ~Delete /\ ~Create
  BY SteadyFacts
<1>2. preJobs' = preJobs /\ timeoutList' = timeoutList /\ job' = job
  BY <1>1 DEF Environment, Start, Pass, Input, ProcessTick, Request, vars, peerVars
<1> SUFFICES ASSUME NEW k \in Jobs PROVE Elsewhere(k)
  BY <1>2
<1>3. \/ processJobQueue' = processJobQueue
      \/ \E x \in JobItems : x \notin NoticesOf(k) /\ processJobQueue' = Append(processJobQueue, x)
  <2>1. CASE Start \/ Pass \/ Input \/ UNCHANGED vars
    BY <2>1 DEF Environment, Start, Pass, Input, vars
  <2>2. CASE ProcessTick
    <3>1. [type |-> "notifyTick"] \in JobItems /\ [type |-> "notifyTick"] \notin NoticesOf(k)
      BY DEF JobItems, NoticesOf
    <3> QED BY <2>2, <3>1 DEF ProcessTick
  <2>3. CASE \E j \in Jobs : Request(j)
    <3>1. PICK j \in Jobs, o \in Options :
              processJobQueue' = Append(processJobQueue, [type |-> "newJob", job |-> j, opts |-> o])
      BY <2>3 DEF Request
    <3> DEFINE x == [type |-> "newJob", job |-> j, opts |-> o]
    <3>2. x \in JobItems /\ x.type = "newJob"
      BY DEF JobItems
    <3>3. x \notin NoticesOf(k)
      BY <3>2 DEF NoticesOf
    <3>4. processJobQueue' = Append(processJobQueue, x)
      BY <3>1
    <3> HIDE DEF x
    <3> QED BY <3>2, <3>3, <3>4
  <2> QED BY <1>1, <2>1, <2>2, <2>3 DEF Environment
<1>4. \/ processMessageQueue' = processMessageQueue
      \/ \E x \in MessageItems : /\ x \notin SendsOf(k)
                                 /\ processMessageQueue' = Append(processMessageQueue, x)
  <2>1. CASE Input
    <3>1. PICK x \in MessageItems : /\ processMessageQueue' = Append(processMessageQueue, x)
                                    /\ x.type \in {"receive", "request", "stray"}
      BY <2>1, InputItem
    <3> QED BY <3>1 DEF SendsOf
  <2>2. CASE ~Input
    BY <1>1, <2>2 DEF Environment, Start, Pass, ProcessTick, Request, vars
  <2> QED BY <2>1, <2>2
<1> QED BY <1>3, <1>4 DEF Elsewhere

LEMMA KeptEnvironment ==
    ASSUME StaysSteady, Typed, Kept, Environment
    PROVE  Kept'
  BY EnvironmentFacts, ElsewhereHolds, KeptFrame

\* A job with a notice in the queue is there: the worker's notice finds its job.
LEMMA NoticeFindsJob ==
    ASSUME Books, Kept
    PROVE  ~MissingPreJob("notifyPacked") /\ ~MissingPreJob("notifyNotSent")
<1> SUFFICES ASSUME NEW type \in {"notifyPacked", "notifyNotSent"}, MissingPreJob(type)
             PROVE  FALSE
  OBVIOUS
<1> DEFINE item == Head(processJobQueue)
<1>1. TakeJob(type) /\ item.job \notin preJobs
  BY DEF MissingPreJob
<1>2. /\ item \in JobItems /\ item.type = type
      /\ item = processJobQueue[1] /\ 1 \in DOMAIN processJobQueue
  BY <1>1, TakenItem
<1> HIDE DEF item
<1>3. item.job \in Jobs /\ item \in NoticesOf(item.job)
  BY <1>2, JobItemFields DEF NoticesOf
<1>4. 1 \in Notices(item.job)
  BY <1>2, <1>3 DEF Notices, At
<1> QED BY <1>1, <1>3, <1>4 DEF Kept, HasMessage, item

\* An answer is about no message under way, and a datagram is not.
LEMMA AnswerElsewhere ==
    ASSUME Typed, Answers, ProcessMessage \/ Receive \/ ReceiveRequest \/ ReceiveStray
    PROVE  preJobs' = preJobs /\ \A k \in Jobs : Elsewhere(k)
<1>1. preJobs' = preJobs
  BY DEF ProcessMessage, Receive, ReceiveRequest, ReceiveStray, TakeMessage, peerVars
<1>2. CASE ProcessMessage
  <2>1. /\ processJobQueue # <<>> /\ processJobQueue' = Tail(processJobQueue)
        /\ Head(processJobQueue).type = "processMessage"
        /\ processMessageQueue' = processMessageQueue
    BY <1>2 DEF ProcessMessage, TakeJob
  <2> QED BY <1>1, <2>1 DEF Elsewhere, NoticesOf
<1>3. CASE Receive \/ ReceiveRequest \/ ReceiveStray
  <2>1. /\ processMessageQueue # <<>> /\ processMessageQueue' = Tail(processMessageQueue)
        /\ Head(processMessageQueue).type \in {"receive", "request", "stray"}
    BY <1>3 DEF Receive, ReceiveRequest, ReceiveStray, TakeMessage
  <2>2. \A k \in Jobs : Head(processMessageQueue) \notin SendsOf(k)
    BY <2>1 DEF SendsOf
  <2>3. \/ processJobQueue' = processJobQueue
        \/ \E x \in JobItems : /\ processJobQueue' = Append(processJobQueue, x)
                               /\ x.type = "processMessage"
    <3>1. CASE Receive
      BY <3>1, ReceiveItem
    <3>2. CASE ReceiveRequest \/ ReceiveStray
      BY <3>2 DEF ReceiveRequest, ReceiveStray
    <3> QED BY <1>3, <3>1, <3>2
  <2>4. \A x \in JobItems : x.type = "processMessage" => \A k \in Jobs : x \notin NoticesOf(k)
    BY DEF NoticesOf
  <2> QED BY <1>1, <2>1, <2>2, <2>3, <2>4 DEF Elsewhere
<1> QED BY <1>2, <1>3

LEMMA KeptAnswer ==
    ASSUME Books, Kept, ProcessMessage \/ Receive \/ ReceiveRequest \/ ReceiveStray
    PROVE  Kept'
  BY AnswerElsewhere, ElsewhereHolds, KeptFrame DEF Books

\* The association is there: every message is packed or not, and notice is given.
LEMMA KeptSend ==
    ASSUME StaysSteady, Books, Kept, Send
    PROVE  Kept'
<1> DEFINE item == Head(processMessageQueue)
<1>1. /\ processMessageQueue # <<>> /\ processMessageQueue' = Tail(processMessageQueue)
      /\ item.type = "send" /\ item.job \in Jobs /\ item \in SendsOf(item.job)
  BY SendItem DEF Books
<1>2. PICK x \in JobItems : /\ processJobQueue' = Append(processJobQueue, x)
                            /\ x.type \in {"notifyPacked", "notifyNotSent"} /\ x.job = item.job
  <2>1. association # 0
    BY SteadyFacts DEF Books
  <2> QED BY <2>1, SendItem DEF Books
<1>3. preJobs' = preJobs
  BY DEF Send, TakeMessage, peerVars
<1> HIDE DEF item
<1>4. ASSUME NEW k \in Jobs PROVE Holds(k)
  <2>1. CASE k = item.job
    <3>1. Unique(Sends(k))
      BY DEF Books, Messages
    <3>2. Sends(k) # {}
      BY <1>1, <2>1, <3>1, MessageQueueTail DEF Books, item
    <3>3. x \in NoticesOf(k)
      BY <1>2, <2>1 DEF NoticesOf
    <3>4. At(Append(processJobQueue, x), NoticesOf(k)) # {}
      <4>1. processJobQueue \in Seq(JobItems)
        BY DEF Books, Typed
      <4> QED BY <3>3, <4>1, AtAppendStays
    <3>5. Notices(k)' # {}
      BY <1>2, <3>4 DEF Notices
    <3> QED BY <3>2, <3>5 DEF Holds, HasMessage
  <2>2. CASE k # item.job
    <3>1. item \notin SendsOf(k) /\ x \notin NoticesOf(k)
      BY <1>2, <2>2 DEF SendsOf, NoticesOf
    <3>2. Sends(k)' # {} <=> Sends(k) # {}
      BY <1>1, <3>1, SameMessageQueue DEF Books, item
    <3>3. Notices(k)' # {} <=> Notices(k) # {}
      BY <1>2, <3>1, SameJobQueue DEF Books
    <3> QED BY <3>2, <3>3, HoldsByQueues
  <2> QED BY <2>1, <2>2
<1> QED BY <1>3, <1>4, KeptFrame

LEMMA KeptNewJob ==
    ASSUME Books, Kept, NewJob
    PROVE  Kept'
<1> DEFINE item == Head(processJobQueue)
<1>1. /\ processJobQueue # <<>> /\ processJobQueue' = Tail(processJobQueue)
      /\ item \in JobItems /\ item.type = "newJob"
  BY TakenItem DEF NewJob
<1>2. item.job \in Jobs
  BY <1>1, JobItemFields
<1>3. PICK j \in Jobs : j = item.job
  BY <1>2
<1>4. PICK x \in MessageItems :
          x.type = "send" /\ x.job = j /\ processMessageQueue' = Append(processMessageQueue, x)
  <2>1. processMessageQueue' = Append(processMessageQueue, Sending(j, New(item.job, item.opts)))
    BY <1>3 DEF NewJob
  <2> QED BY <2>1, SendingIsItem
<1>5. preJobs' = preJobs \cup {j}
  BY <1>3 DEF NewJob
<1>6. \A k \in Jobs : item \notin NoticesOf(k)
  BY <1>1 DEF NoticesOf
<1>7. \A k \in Jobs : Notices(k)' # {} <=> Notices(k) # {}
  BY <1>1, <1>6, SameJobQueue DEF Books
<1>8. \A k \in Jobs : Sends(k)' # {} <=> Sends(k) # {} \/ k = j
  <2> SUFFICES ASSUME NEW k \in Jobs PROVE Sends(k)' # {} <=> Sends(k) # {} \/ k = j
    OBVIOUS
  <2>1. x \in SendsOf(k) <=> k = j
    BY <1>4 DEF SendsOf
  <2>2. processMessageQueue \in Seq(MessageItems)
    BY DEF Books, Typed
  <2>3. At(Append(processMessageQueue, x), SendsOf(k)) # {}
            <=> At(processMessageQueue, SendsOf(k)) # {} \/ x \in SendsOf(k)
    BY <2>2, AtAppendStays
  <2> QED BY <1>4, <2>1, <2>3 DEF Sends
<1> QED BY <1>5, <1>7, <1>8 DEF Kept, HasMessage

\* The notice about a job is the message about it: with the notice the job leaves
\* the preJobs.
LEMMA KeptNoticed ==
    ASSUME Books, Kept, NotifyNotSent \/ NotifyPacked
    PROVE  Kept'
<1> DEFINE item == Head(processJobQueue)
<1>1. /\ processJobQueue # <<>> /\ processJobQueue' = Tail(processJobQueue)
      /\ item \in JobItems /\ item.type \in {"notifyNotSent", "notifyPacked"}
  <2>1. \E type \in {"notifyNotSent", "notifyPacked"} : TakeJob(type)
    BY DEF NotifyNotSent, NotifyPacked
  <2> QED BY <2>1, TakenItem
<1>2. processMessageQueue' = processMessageQueue /\ preJobs' = preJobs \ {item.job}
  BY DEF NotifyNotSent, NotifyPacked
<1>3. item.job \in Jobs /\ item \in NoticesOf(item.job)
  BY <1>1, JobItemFields DEF NoticesOf
<1> HIDE DEF item
<1>4. \A k \in Jobs : Sends(k)' = Sends(k)
  BY <1>2 DEF Sends
<1>5. ASSUME NEW k \in Jobs PROVE HasMessage(k)' <=> HasMessage(k) /\ k # item.job
  <2>1. CASE k = item.job
    <3>1. Unique(Notices(k)) /\ Unique(News(k)) /\ (Sends(k) = {} \/ Notices(k) = {})
      BY DEF Books, Messages
    <3>2. Notices(k) # {} /\ Notices(k)' = {}
      BY <1>1, <1>3, <2>1, <3>1, JobQueueTail DEF Books, item
    <3> QED BY <1>4, <2>1, <3>1, <3>2 DEF HasMessage
  <2>2. CASE k # item.job
    <3>1. item \notin NoticesOf(k)
      BY <2>2 DEF NoticesOf
    <3>2. Notices(k)' # {} <=> Notices(k) # {}
      BY <1>1, <3>1, SameJobQueue DEF Books, item
    <3> QED BY <1>4, <2>2, <3>2 DEF HasMessage
  <2> QED BY <2>1, <2>2
<1> QED BY <1>2, <1>5 DEF Kept

\* The datagrams the worker may not survive: requests that want no response, and, where
\* none is to be received, all of them; and those of a stranger.
Fatal == {x \in MessageItems : \/ x.type = "request" /\ (MaxIncoming = 0 \/ ~x.confirmed)
                               \/ x.type = "stray" /\ x.kind = "unknown"}

NoneFatal == At(processMessageQueue, Fatal) = {}

\* What a tick does: the jobs it finds expired were listed and are so no longer;
\* a message is sent about those it retries, which go back to the preJobs.
Tick(retried, ended) ==
    /\ retried \in SUBSET Jobs /\ ended \in SUBSET Jobs /\ retried \cap ended = {}
    /\ \A k \in retried \cup ended : IsListed(k)
    /\ \A k \in Jobs : IsListed(k)' => IsListed(k) /\ k \notin retried \cup ended
    /\ preJobs' = preJobs \cup retried
    /\ Ticked(retried, ended)
    /\ \A k \in Jobs : HasMessage(k)' <=> HasMessage(k) \/ k \in retried
    /\ \A k \in Jobs : Pends(k)' => Pends(k) \/ (k \in retried /\ HasOutput(job[k]))
    /\ NoneFatal => NoneFatal'

LEMMA TickFacts ==
    ASSUME Books, NotifyTick
    PROVE  \E retried, ended \in SUBSET Jobs : Tick(retried, ended)
<1>0. TakeJob("notifyTick") /\ Typed
  BY DEF NotifyTick, Books
<1>1. /\ processJobQueue # <<>> /\ processJobQueue' = Tail(processJobQueue)
      /\ Head(processJobQueue).type = "notifyTick"
  BY <1>0, TakenItem
<1> DEFINE retried == {j \in Expired : Retry(job[j])}
           ended == Expired \ retried
<1>2. preJobs' = preJobs \cup retried
  BY DEF NotifyTick, Again
<1>3. Ticked(retried, ended)
  BY DEF NotifyTick, Ticked
<1>4. PICK rest \in InOrder(Places(Jobs \ Expired)), resent \in InOrder(Places(retried)) :
        /\ timeoutList' = [i \in DOMAIN rest |-> timeoutList[rest[i]]]
        /\ processMessageQueue' = processMessageQueue \o
               [i \in DOMAIN resent |->
                   Sending(timeoutList[resent[i]], job[timeoutList[resent[i]]])]
  BY DEF NotifyTick
<1>5. PICK r : r = [i \in DOMAIN resent |->
                      Sending(timeoutList[resent[i]], job[timeoutList[resent[i]]])]
  OBVIOUS
<1>6. PICK l : l = [i \in DOMAIN rest |-> timeoutList[rest[i]]]
  OBVIOUS
<1>7. timeoutList' = l /\ processMessageQueue' = processMessageQueue \o r
  BY <1>4, <1>5, <1>6
<1>8. Left(l, rest) /\ SentAgain(r, resent) /\ retried \in SUBSET Expired
  BY <1>5, <1>6 DEF Left, SentAgain
<1> HIDE DEF retried
<1>9. \A i \in DOMAIN l : l[i] \notin Expired /\ IsListed(l[i])
  BY <1>8, TickLists
<1>10. r \in Seq(MessageItems)
  BY <1>8, TickLists
<1>11. \A k \in Jobs : At(r, SendsOf(k)) # {} => k \in retried
  BY <1>8, TickLists
<1>12. \A k \in Jobs : k \in retried => At(r, SendsOf(k)) # {}
  <2>1. SendsAll(r, retried)
    BY <1>8, TickLists
  <2> QED BY <2>1 DEF SendsAll
<1>13. \A k \in Jobs : At(r, FullOf(k)) # {} => k \in retried /\ HasOutput(job[k])
  BY <1>8, TickLists
<1>14. Expired \in SUBSET Jobs /\ \A k \in Expired : IsListed(k)
  <2>1. \A i \in DOMAIN timeoutList : timeoutList[i] \in Jobs
    BY <1>0 DEF Typed
  <2>2. Expired \subseteq {timeoutList[i] : i \in DOMAIN timeoutList}
    BY DEF Expired, Visited
  <2> QED BY <2>1, <2>2 DEF IsListed
<1>15. /\ retried \in SUBSET Jobs /\ ended \in SUBSET Jobs /\ retried \cap ended = {}
       /\ retried \cup ended = Expired
  BY <1>8, <1>14
<1> HIDE DEF ended
<1>16. ASSUME NEW k \in Jobs, IsListed(k)' PROVE IsListed(k) /\ k \notin Expired
  <2>1. \E i \in DOMAIN l : l[i] = k
    BY <1>7, <1>16 DEF IsListed
  <2> QED BY <1>9, <2>1
<1>17. \A k \in Jobs : Sends(k)' # {} <=> Sends(k) # {} \/ k \in retried
  <2> SUFFICES ASSUME NEW k \in Jobs PROVE Sends(k)' # {} <=> Sends(k) # {} \/ k \in retried
    OBVIOUS
  <2>1. processMessageQueue \in Seq(MessageItems)
    BY <1>0 DEF Typed
  <2>2. At(processMessageQueue \o r, SendsOf(k)) # {}
            <=> At(processMessageQueue, SendsOf(k)) # {} \/ At(r, SendsOf(k)) # {}
    BY <1>10, <2>1, AtConcatStays
  <2> QED BY <1>7, <1>11, <1>12, <2>2 DEF Sends
<1>18. \A k \in Jobs : Head(processJobQueue) \notin NoticesOf(k)
  BY <1>1 DEF NoticesOf
<1>19. \A k \in Jobs : Notices(k)' # {} <=> Notices(k) # {}
  BY <1>0, <1>1, <1>18, SameJobQueue
<1>20. ASSUME NEW k \in Jobs, Pends(k)' PROVE Pends(k) \/ (k \in retried /\ HasOutput(job[k]))
  <2>1. processMessageQueue \in Seq(MessageItems) /\ processJobQueue \in Seq(JobItems)
    BY <1>0 DEF Typed
  <2>2. At(processMessageQueue', FullOf(k)) # {} =>
            At(processMessageQueue, FullOf(k)) # {} \/ At(r, FullOf(k)) # {}
    BY <1>7, <1>10, <2>1, AtConcat
  <2>3. At(processJobQueue', PackedOf(k)) # {} => At(processJobQueue, PackedOf(k)) # {}
    BY <1>1, <2>1, AtTail
  <2> QED BY <1>13, <1>20, <2>2, <2>3 DEF Pends
<1>21. \A k \in Jobs : HasMessage(k)' <=> HasMessage(k) \/ k \in retried
  BY <1>17, <1>19 DEF HasMessage
<1>22. NoneFatal => NoneFatal'
  <2>1. OnlySends(r)
    BY <1>8, TickLists
  <2>2. At(r, Fatal) = {}
    BY <2>1 DEF OnlySends, At, Fatal
  <2>3. processMessageQueue \in Seq(MessageItems)
    BY <1>0 DEF Typed
  <2>4. At(processMessageQueue', Fatal) # {} => At(processMessageQueue, Fatal) # {}
    BY <1>7, <1>10, <2>2, <2>3, AtConcat
  <2> QED BY <2>4 DEF NoneFatal
<1>23. Tick(retried, ended)
  BY <1>2, <1>3, <1>14, <1>15, <1>16, <1>20, <1>21, <1>22 DEF Tick
<1> QED BY <1>15, <1>23

LEMMA KeptNotifyTick ==
    ASSUME Books, Kept, NotifyTick
    PROVE  Kept'
  BY TickFacts DEF Kept, Tick

LEMMA KeptNext ==
    ASSUME StaysSteady, Books, Kept, [Next]_vars
    PROVE  Kept'
<1>1. Typed
  BY DEF Books
<1>2. CASE Environment
  BY <1>1, <1>2, KeptEnvironment
<1>3. CASE NewJob \/ NotifyNotSent \/ NotifyPacked \/ NotifyTick
  BY <1>3, KeptNewJob, KeptNoticed, KeptNotifyTick
<1>4. CASE ProcessMessage \/ Send \/ Receive \/ ReceiveRequest \/ ReceiveStray
  BY <1>4, KeptSend, KeptAnswer
<1> QED BY <1>1, <1>2, <1>3, <1>4, NoticeFindsJob, SteadyFacts DEF Next, Work, Pack, Environment

LEMMA OneOrNone ==
    ASSUME NEW K, Unique(K)
    PROVE  Cardinality(K) = IF K = {} THEN 0 ELSE 1
<1>1. CASE K = {}
  BY <1>1, FS_EmptySet
<1>2. CASE K # {}
  <2>1. PICK i : i \in K
    BY <1>2
  <2>2. K = {i}
    BY <2>1 DEF Unique
  <2> QED BY <1>2, <2>2, FS_Singleton
<1> QED BY <1>1, <1>2

LEMMA KeptHasMessage == Books /\ Kept => PreJobHasMessage
<1> SUFFICES ASSUME Books, Kept, NEW j \in Jobs
             PROVE  Cardinality({i \in DOMAIN processMessageQueue :
                                    /\ processMessageQueue[i].type = "send"
                                    /\ processMessageQueue[i].job = j})
                    + Cardinality({i \in DOMAIN processJobQueue :
                                    /\ processJobQueue[i].type \in {"notifyPacked", "notifyNotSent"}
                                    /\ processJobQueue[i].job = j})
                    = IF j \in preJobs THEN 1 ELSE 0
  BY DEF PreJobHasMessage
<1>1. /\ \A i \in DOMAIN processMessageQueue : processMessageQueue[i] \in MessageItems
      /\ \A i \in DOMAIN processJobQueue : processJobQueue[i] \in JobItems
  BY DEF Books, Typed
<1>2. /\ Sends(j) = {i \in DOMAIN processMessageQueue : /\ processMessageQueue[i].type = "send"
                                                       /\ processMessageQueue[i].job = j}
      /\ Notices(j) = {i \in DOMAIN processJobQueue :
                          /\ processJobQueue[i].type \in {"notifyPacked", "notifyNotSent"}
                          /\ processJobQueue[i].job = j}
  BY <1>1 DEF Sends, Notices, At, SendsOf, NoticesOf
<1>3. /\ Unique(Sends(j)) /\ Unique(Notices(j))
      /\ Sends(j) = {} \/ Notices(j) = {}
  BY DEF Books, Messages
<1>4. /\ Cardinality(Sends(j)) = IF Sends(j) = {} THEN 0 ELSE 1
      /\ Cardinality(Notices(j)) = IF Notices(j) = {} THEN 0 ELSE 1
  BY <1>3, OneOrNone
<1>5. j \in preJobs <=> Sends(j) # {} \/ Notices(j) # {}
  BY DEF Kept, HasMessage
<1> QED BY <1>2, <1>3, <1>4, <1>5

\* @jobs is the Hash it was at the start.
NeverArray == ~jobsIsArray

LEMMA NeverArrayNext ==
    ASSUME StaysSteady, Typed, NeverArray, [Next]_vars
    PROVE  NeverArray'
<1>1. ~Stop
  BY SteadyFacts
<1>2. CASE \/ Start \/ Pass \/ Input \/ Delete \/ Create \/ ProcessTick
           \/ \E j \in Jobs : Request(j)
           \/ UNCHANGED vars
  BY <1>2 DEF NeverArray, Start, Pass, Input, Delete, Create, ProcessTick, Request, vars
<1>3. CASE Work
  BY <1>3 DEF NeverArray, Work, NewJob, NotifyNotSent, NotifyPacked, NotifyTick, ProcessMessage,
              MissingPreJob, TakeJob
<1>4. CASE Pack
  BY <1>4 DEF NeverArray, Pack, Send, Receive, ReceiveRequest, ReceiveStray, SendAcross,
              ReceiveAcross, ReceiveRequestAcross, TakeMessage
<1> QED BY <1>1, <1>2, <1>3, <1>4 DEF Next

-----------------------------------------------------------------------------
(* Counters *)

\* The counters of the messages packed in the queue q, and of the index D, are at most c
\* and come in order: those in the queue after those in the index.
Numbers(q, c, D) ==
    /\ \A n \in D : n <= c
    /\ \A i \in DOMAIN q : q[i].type = "notifyPacked" =>
           /\ q[i].counter <= c
           /\ \A n \in D : n < q[i].counter
           /\ \A k \in DOMAIN q :
                    q[k].type = "notifyPacked" /\ i < k => q[i].counter < q[k].counter

Numbered == Numbers(processJobQueue, invocationCounter, DOMAIN jobs)

LEMMA NumbersTail ==
    ASSUME NEW q \in Seq(JobItems), q # <<>>, NEW c \in Nat, NEW D \in SUBSET Nat, Numbers(q, c, D),
           NEW E \in SUBSET Nat,
           \A n \in E : n \in D \/ (Head(q).type = "notifyPacked" /\ n = Head(q).counter)
    PROVE  Numbers(Tail(q), c, E)
<1>1. /\ Head(q) = q[1] /\ Len(q) \in Nat /\ 1 \in DOMAIN q
      /\ \A i \in DOMAIN Tail(q) :
           i \in Nat /\ 1 < i + 1 /\ i + 1 \in DOMAIN q /\ Tail(q)[i] = q[i + 1]
  BY TailPlaces
<1>2. \A n \in E : n <= c
  BY <1>1 DEF Numbers
<1>3. ASSUME NEW i \in DOMAIN Tail(q), Tail(q)[i].type = "notifyPacked"
      PROVE  /\ Tail(q)[i].counter <= c
             /\ \A n \in E : n < Tail(q)[i].counter
             /\ \A k \in DOMAIN Tail(q) : Tail(q)[k].type = "notifyPacked" /\ i < k =>
                    Tail(q)[i].counter < Tail(q)[k].counter
  <2>1. i + 1 \in DOMAIN q /\ Tail(q)[i] = q[i + 1] /\ q[i + 1].type = "notifyPacked" /\ 1 < i + 1
    BY <1>1, <1>3
  <2>2. Tail(q)[i].counter <= c
    BY <2>1 DEF Numbers
  <2>3. \A n \in D : n < Tail(q)[i].counter
    BY <2>1 DEF Numbers
  <2>4. Head(q).type = "notifyPacked" => Head(q).counter < Tail(q)[i].counter
    BY <1>1, <2>1 DEF Numbers
  <2>5. ASSUME NEW k \in DOMAIN Tail(q), Tail(q)[k].type = "notifyPacked", i < k
        PROVE  Tail(q)[i].counter < Tail(q)[k].counter
    <3>1. /\ k + 1 \in DOMAIN q /\ Tail(q)[k] = q[k + 1] /\ q[k + 1].type = "notifyPacked"
          /\ i + 1 < k + 1
      BY <1>1, <2>5
    <3> QED BY <2>1, <3>1 DEF Numbers
  <2> QED BY <2>2, <2>3, <2>4, <2>5
<1> QED BY <1>2, <1>3 DEF Numbers

LEMMA NumbersAppend ==
    ASSUME NEW q \in Seq(JobItems), NEW c \in Nat, NEW d \in Nat, NEW D \in SUBSET Nat,
           Numbers(q, c, D), c <= d, NEW x \in JobItems,
           x.type = "notifyPacked" => x.counter = d /\ c < d
    PROVE  Numbers(Append(q, x), d, D)
<1>1. /\ Len(q) \in Nat /\ DOMAIN q = 1..Len(q) /\ DOMAIN Append(q, x) = 1..(Len(q) + 1)
      /\ \A i \in DOMAIN q : Append(q, x)[i] = q[i]
      /\ Append(q, x)[Len(q) + 1] = x
  BY AppendPlaces
<1>2. PICK r : r = Append(q, x)
  OBVIOUS
<1>3. PICK m \in Nat : m = Len(q) + 1
  BY <1>1
<1>4. /\ DOMAIN r = DOMAIN q \cup {m} /\ m \notin DOMAIN q /\ r[m] = x
      /\ \A i \in DOMAIN q : r[i] = q[i] /\ i \in Nat /\ i < m
  BY <1>1, <1>2, <1>3
<1>5. \A i \in DOMAIN q : q[i].type = "notifyPacked" => q[i].counter \in Nat
  <2>1. \A i \in DOMAIN q : q[i] \in JobItems
    OBVIOUS
  <2> QED BY <2>1, JobItemFields
<1>6. \A n \in D : n <= d /\ (c < d => n < d)
  BY DEF Numbers
<1>7. ASSUME NEW i \in DOMAIN q, q[i].type = "notifyPacked"
      PROVE  /\ q[i].counter <= d /\ (c < d => q[i].counter < d)
             /\ \A n \in D : n < q[i].counter
             /\ \A k \in DOMAIN q :
                    q[k].type = "notifyPacked" /\ i < k => q[i].counter < q[k].counter
  BY <1>5, <1>7 DEF Numbers
<1>8. ASSUME NEW i \in DOMAIN r, r[i].type = "notifyPacked"
      PROVE  /\ r[i].counter <= d
             /\ \A n \in D : n < r[i].counter
             /\ \A k \in DOMAIN r :
                    r[k].type = "notifyPacked" /\ i < k => r[i].counter < r[k].counter
  <2>1. CASE i \in DOMAIN q
    BY <1>4, <1>7, <1>8, <2>1
  <2>2. CASE i = m
    <3>1. r[i].counter = d /\ c < d
      BY <1>4, <1>8, <2>2
    <3>2. \A k \in DOMAIN r : ~(i < k)
      BY <1>4, <2>2
    <3> QED BY <1>6, <3>1, <3>2
  <2> QED BY <1>4, <2>1, <2>2
<1> QED BY <1>2, <1>6, <1>8 DEF Numbers

LEMMA NumberedInit == Init => Numbered
<1> SUFFICES ASSUME Init PROVE Numbered
  OBVIOUS
<1>1. DOMAIN processJobQueue = {} /\ DOMAIN jobs = {}
  BY DEF Init
<1> QED BY <1>1 DEF Numbered, Numbers

\* A step of the job thread.
LEMMA NumberedTaken ==
    ASSUME Books, Numbered, NEW type, TakeJob(type),
           \A n \in DOMAIN jobs' : n \in DOMAIN jobs
               \/ (type = "notifyPacked" /\ n = Head(processJobQueue).counter)
    PROVE  Numbered'
<1>1. /\ processJobQueue # <<>> /\ processJobQueue' = Tail(processJobQueue)
      /\ Head(processJobQueue) \in JobItems /\ Head(processJobQueue).type = type
      /\ processJobQueue \in Seq(JobItems) /\ invocationCounter' = invocationCounter
  BY TakenItem
<1>2. /\ invocationCounter \in Nat /\ DOMAIN jobs \in SUBSET Nat
  BY WrangleAssumption DEF Books, Typed
<1>3. type = "notifyPacked" => Head(processJobQueue).counter \in Nat
  BY <1>1, JobItemFields
<1>4. DOMAIN jobs' \in SUBSET Nat
  BY <1>2, <1>3
<1>5. Numbers(Tail(processJobQueue), invocationCounter, DOMAIN jobs')
  BY <1>1, <1>2, <1>4, NumbersTail DEF Numbered
<1> QED BY <1>1, <1>5 DEF Numbered

\* A step that gives the job thread a new item, or none.
LEMMA NumberedGiven ==
    ASSUME Typed, Numbered, jobs' = jobs,
           invocationCounter' \in Nat, invocationCounter <= invocationCounter',
           \/ processJobQueue' = processJobQueue
           \/ \E x \in JobItems :
                  /\ processJobQueue' = Append(processJobQueue, x)
                  /\ x.type = "notifyPacked" =>
                         x.counter = invocationCounter' /\ invocationCounter < invocationCounter'
    PROVE  Numbered'
<1>1. /\ invocationCounter \in Nat /\ DOMAIN jobs \in SUBSET Nat
      /\ processJobQueue \in Seq(JobItems)
  BY WrangleAssumption DEF Typed
<1>2. CASE processJobQueue' = processJobQueue
  <2>1. \A i \in DOMAIN processJobQueue : processJobQueue[i] \in JobItems
    BY <1>1
  <2>2. \A i \in DOMAIN processJobQueue :
            processJobQueue[i].type = "notifyPacked" => processJobQueue[i].counter \in Nat
    BY <2>1, JobItemFields
  <2>3. \A n \in DOMAIN jobs : n \in Nat
    BY <1>1
  <2> QED BY <1>1, <1>2, <2>2, <2>3 DEF Numbered, Numbers
<1>3. ASSUME NEW x \in JobItems, processJobQueue' = Append(processJobQueue, x),
             x.type = "notifyPacked" =>
                 x.counter = invocationCounter' /\ invocationCounter < invocationCounter'
      PROVE  Numbered'
  <2>1. Numbers(Append(processJobQueue, x), invocationCounter', DOMAIN jobs)
    BY <1>1, <1>3, NumbersAppend DEF Numbered
  <2> QED BY <1>3, <2>1 DEF Numbered
<1> QED BY <1>2, <1>3

LEMMA NumberedPack ==
    ASSUME StaysSteady, Books, Numbered, Pack
    PROVE  Numbered'
<1>0. Typed /\ association = 1
  BY SteadyFacts DEF Books
<1>1. jobs' = jobs /\ invocationCounter \in Nat
  BY <1>0, WrangleAssumption DEF Typed, Pack, Send, Receive, ReceiveRequest, ReceiveStray, SendAcross,
     ReceiveAcross, ReceiveRequestAcross, TakeMessage, peerVars
<1>2. CASE Receive
  <2>1. invocationCounter' = invocationCounter
    BY <1>2 DEF Receive
  <2>2. \/ processJobQueue' = processJobQueue
        \/ \E x \in JobItems : /\ processJobQueue' = Append(processJobQueue, x)
                               /\ x.type = "processMessage"
    BY <1>2, ReceiveItem DEF Books
  <2> QED BY <1>0, <1>1, <2>1, <2>2, NumberedGiven
<1>3. CASE ReceiveRequest \/ ReceiveStray
  <2>1. /\ processJobQueue' = processJobQueue
        /\ invocationCounter' \in {invocationCounter, invocationCounter + 1}
    BY <1>3 DEF ReceiveRequest, ReceiveStray
  <2>2. invocationCounter' \in Nat /\ invocationCounter <= invocationCounter'
    BY <1>1, <2>1
  <2> QED BY <1>0, <1>1, <2>1, <2>2, NumberedGiven
<1>4. CASE Send
  <2> DEFINE item == Head(processMessageQueue)
             n == invocationCounter + 1
             x == [type |-> "notifyPacked", job |-> item.job, gen |-> association,
                   counter |-> n, time |-> now]
             y == [type |-> "notifyNotSent", job |-> item.job]
  <2>1. item.job \in Jobs /\ invocationCounter' \in 0..MAX_COUNTER
    BY <1>0, <1>4, SendItem, DbPack DEF Pack, DbTyped
  <2>2. \/ processJobQueue' = Append(processJobQueue, y) /\ invocationCounter' = invocationCounter
        \/ processJobQueue' = Append(processJobQueue, x) /\ invocationCounter' = n
    BY <1>0, <1>4 DEF Send, Packed
  <2> HIDE DEF item
  <2>3. CASE processJobQueue' = Append(processJobQueue, y) /\ invocationCounter' = invocationCounter
    <3>1. y \in JobItems /\ y.type = "notifyNotSent"
      BY <2>1 DEF JobItems
    <3> HIDE DEF y
    <3> QED BY <1>0, <1>1, <2>3, <3>1, NumberedGiven
  <2>4. CASE processJobQueue' = Append(processJobQueue, x) /\ invocationCounter' = n
    <3>1. n \in 1..MAX_COUNTER /\ n \in Nat /\ invocationCounter < n
      BY <1>1, <2>1, <2>4
    <3>2. association \in 1..MaxCreated /\ now \in 0..MaxTime
      BY <1>0 DEF Typed
    <3> HIDE DEF n
    <3>3. x \in JobItems /\ x.counter = n
      BY <2>1, <3>1, <3>2 DEF JobItems
    <3> HIDE DEF x
    <3> QED BY <1>0, <1>1, <2>4, <3>1, <3>3, NumberedGiven
  <2> QED BY <2>2, <2>3, <2>4
<1> QED BY <1>0, <1>2, <1>3, <1>4, SteadyFacts DEF Pack

LEMMA NumberedWork ==
    ASSUME Books, Numbered, Work
    PROVE  Numbered'
<1>1. CASE NewJob
  BY <1>1, NumberedTaken DEF NewJob
<1>2. CASE NotifyNotSent
  BY <1>2, NumberedTaken DEF NotifyNotSent
<1>3. CASE NotifyTick
  BY <1>3, NumberedTaken DEF NotifyTick
<1>4. ASSUME NEW type, MissingPreJob(type) PROVE Numbered'
  BY <1>4, NumberedTaken DEF MissingPreJob, peerVars
<1>5. CASE ProcessMessage
  <2>1. TakeJob("processMessage") /\ \A n \in DOMAIN jobs' : n \in DOMAIN jobs
    BY <1>5 DEF ProcessMessage
  <2> QED BY <2>1, NumberedTaken
<1>6. CASE NotifyPacked
  <2>1. TakeJob("notifyPacked")
    BY <1>6 DEF NotifyPacked
  <2>2. \/ jobs' = jobs
        \/ jobs' = [n \in DOMAIN jobs \ {Head(processJobQueue).counter} |-> jobs[n]]
        \/ \E j : jobs' = [n \in DOMAIN jobs \cup {Head(processJobQueue).counter} |->
                              IF n = Head(processJobQueue).counter THEN j ELSE jobs[n]]
    BY <1>6 DEF NotifyPacked
  <2>3. \A n \in DOMAIN jobs' : n \in DOMAIN jobs \/ n = Head(processJobQueue).counter
    BY <2>2
  <2> QED BY <2>1, <2>3, NumberedTaken
<1> QED BY <1>1, <1>2, <1>3, <1>4, <1>5, <1>6 DEF Work

LEMMA NumberedNext ==
    ASSUME StaysSteady, Books, Numbered, [Next]_vars
    PROVE  Numbered'
<1>0. Typed /\ ~Stop /\ ~Delete /\ ~Create /\ invocationCounter \in Nat
  BY SteadyFacts, WrangleAssumption DEF Books, Typed
<1>1. CASE Start \/ Pass \/ Input \/ UNCHANGED vars
  <2>1. /\ processJobQueue' = processJobQueue /\ jobs' = jobs
        /\ invocationCounter' = invocationCounter
    BY <1>1 DEF Start, Pass, Input, vars, peerVars, dbVars
  <2> QED BY <1>0, <2>1, NumberedGiven
<1>2. CASE ProcessTick
  <2> DEFINE x == [type |-> "notifyTick"]
  <2>1. x \in JobItems /\ x.type = "notifyTick"
    BY DEF JobItems
  <2>2. /\ processJobQueue' = Append(processJobQueue, x) /\ jobs' = jobs
        /\ invocationCounter' = invocationCounter
    BY <1>2 DEF ProcessTick, peerVars, dbVars
  <2> HIDE DEF x
  <2> QED BY <1>0, <2>1, <2>2, NumberedGiven
<1>3. ASSUME NEW j \in Jobs, Request(j) PROVE Numbered'
  <2>1. PICK o \in Options :
            processJobQueue' = Append(processJobQueue, [type |-> "newJob", job |-> j, opts |-> o])
    BY <1>3 DEF Request
  <2> DEFINE x == [type |-> "newJob", job |-> j, opts |-> o]
  <2>2. x \in JobItems /\ x.type = "newJob"
    BY DEF JobItems
  <2>3. jobs' = jobs /\ invocationCounter' = invocationCounter
    BY <1>3 DEF Request, peerVars, dbVars
  <2>4. processJobQueue' = Append(processJobQueue, x)
    BY <2>1
  <2> HIDE DEF x
  <2> QED BY <1>0, <2>2, <2>3, <2>4, NumberedGiven
<1> QED BY <1>0, <1>1, <1>2, <1>3, NumberedPack, NumberedWork DEF Next

\* Counters are not started again: that of a message just packed leads nowhere.
LEMMA FreshCounter ==
    ASSUME Books, Numbered, TakeJob("notifyPacked")
    PROVE  /\ Head(processJobQueue).counter \notin DOMAIN jobs
           /\ Head(processJobQueue).counter <= invocationCounter
<1> DEFINE item == Head(processJobQueue)
<1>1. /\ item \in JobItems /\ item.type = "notifyPacked"
      /\ item = processJobQueue[1] /\ 1 \in DOMAIN processJobQueue
  BY TakenItem
<1>2. item.counter \in Nat
  BY <1>1, JobItemFields
<1> HIDE DEF item
<1>3. item.counter <= invocationCounter /\ \A n \in DOMAIN jobs : n < item.counter
  BY <1>1 DEF Numbered, Numbers
<1> QED BY <1>2, <1>3 DEF item

-----------------------------------------------------------------------------
(* Where an answer leads *)

\* The n-th message is one of j, and the answer to it will be looked for there.
Sent(j, n) ==
    /\ n \notin DOMAIN jobs
    /\ DOMAIN jobs' = DOMAIN jobs \cup {n} /\ jobs'[n] = j
    /\ \A m \in DOMAIN jobs : jobs'[m] = jobs[m]
    /\ \A k \in Jobs : k # j => job'[k] = job[k]
    /\ job'[j].client.state = "SENT" => job'[j].client.counter = n

\* An answer was taken by j, or dropped; only a finished job is forgotten.
Handled(j, n) ==
    /\ n \in DOMAIN jobs /\ jobs[n] = j
    /\ \A k \in Jobs : k # j => job'[k] = job[k]
    /\ \/ job'[j] = job[j]
       \/ /\ State(j) = "SENT" /\ job'[j].client.state = "COMPLETE"
          /\ job'[j].client.confirmed = job[j].client.confirmed
          /\ job'[j].timeout = job[j].timeout
    /\ \/ jobs' = jobs
       \/ /\ jobs' = [m \in DOMAIN jobs \ {n} |-> jobs[m]]
          /\ job'[j].client.state = "COMPLETE"

LEMMA SentFacts ==
    ASSUME Books, Numbered, NeverArray, invocationCounter < RES_MOD, NotifyPacked
    PROVE  \E j \in Jobs, n \in Nat : Sent(j, n)
<1> DEFINE item == Head(processJobQueue)
<1>0. TakeJob("notifyPacked") /\ Typed
  BY DEF NotifyPacked, Books
<1>1. PICK j \in Jobs, n \in Nat, time \in Nat :
        /\ j = item.job /\ n = item.counter /\ time = item.time /\ n \in 1..MAX_COUNTER
  BY <1>0, PackedItem
<1>2. /\ State(j) \in {"PENDING", "COMPLETE"}
      /\ IsJob(job[j]) /\ results[j] \in Seq(OutcomeRecords)
      /\ results[j] # <<>> => State(j) = "COMPLETE"
  BY <1>0, <1>1, PackedItem
<1> DEFINE c == OutputConfirmed(job[j], n)
           completes == c.client.state = "COMPLETE" /\ job[j].client.state # "COMPLETE"
           done == completes \/ Finished(j)
           b == [c EXCEPT !.timeout = IF done THEN @ ELSE time + c.retryPeriod]
<1>3. b.client.state = "SENT" => b.client.counter = n % RES_MOD
  BY <1>2, PackedJob
<1>4. n % RES_MOD = n
  <2>1. n <= invocationCounter
    BY <1>0, <1>1, FreshCounter
  <2>2. n < RES_MOD
    BY <1>0, <1>1, <2>1, WrangleAssumption, ModuliAssumption DEF Typed
  <2> QED BY <1>1, <2>2, Residues
<1>5. n \notin DOMAIN jobs
  BY <1>0, <1>1, FreshCounter
<1>6. /\ Update(j, b, completes, {})
      /\ jobs' = [k \in DOMAIN jobs \cup {n} |-> IF k = n THEN j ELSE jobs[k]]
  BY <1>1, <1>5 DEF NotifyPacked, NeverArray
<1> HIDE DEF item, c, completes, done, b
<1>7. job'[j] = b /\ \A k \in Jobs : k # j => job'[k] = job[k]
  BY <1>0, <1>6 DEF Update, Typed
<1>8. DOMAIN jobs' = DOMAIN jobs \cup {n} /\ jobs'[n] = j
      /\ \A m \in DOMAIN jobs : m # n => jobs'[m] = jobs[m]
  BY <1>6
<1> QED BY <1>3, <1>4, <1>5, <1>7, <1>8 DEF Sent

LEMMA HandledFacts ==
    ASSUME Books, ProcessMessage
    PROVE  \/ jobs' = jobs /\ job' = job
           \/ \E j \in Jobs, n \in DOMAIN jobs : Handled(j, n)
<1> DEFINE m == Head(processJobQueue)
<1>1. m \in JobItems /\ m.type = "processMessage"
  BY TakenItem DEF ProcessMessage
<1>2. m.results \in Responses
  BY <1>1, JobItemFields
<1>3. CASE jobs' = jobs /\ job' = job
  BY <1>3
<1>4. ASSUME m.counter \in DOMAIN jobs,
             LET j == jobs[m.counter]
                 accepted == Accepts(job[j].client, m.counter, m.results)
                 b == IF accepted THEN [job[j] EXCEPT !.client = Answered(@, m.results)] ELSE job[j]
             IN  /\ Update(j, b, accepted, m.of)
                 /\ jobs' = IF Forgotten(j, accepted)
                            THEN [n \in DOMAIN jobs \ {m.counter} |-> jobs[n]]
                            ELSE jobs
      PROVE  \E j \in Jobs, n \in DOMAIN jobs : Handled(j, n)
  <2>1. jobs[m.counter] \in Jobs
    BY <1>4 DEF Books, Typed
  <2>2. PICK j \in Jobs, n \in DOMAIN jobs : n = m.counter /\ j = jobs[n]
    BY <1>4, <2>1
  <2> DEFINE accepted == Accepts(job[j].client, n, m.results)
             a == Answered(job[j].client, m.results)
             b == IF accepted THEN [job[j] EXCEPT !.client = a] ELSE job[j]
  <2>3. /\ Update(j, b, accepted, m.of)
        /\ jobs' = IF Forgotten(j, accepted) THEN [k \in DOMAIN jobs \ {n} |-> jobs[k]] ELSE jobs
    BY <1>4, <2>2
  <2>4. IsJob(job[j]) /\ m.results \in Seq(STRING)
    BY <1>2, WrangleAssumption DEF Books, Typed
  <2>5. accepted => /\ IsClient(a) /\ a.state = "COMPLETE" /\ State(j) = "SENT"
                    /\ a.confirmed = job[j].client.confirmed
    BY <2>4, AnsweredIsClient DEF IsJob, State
  <2>6. Finished(j) => State(j) = "COMPLETE"
    BY DEF Books, Waits, Finished
  <2> HIDE DEF m, accepted, a
  <2>7. /\ accepted => b.client = a /\ b.timeout = job[j].timeout
        /\ ~accepted => b = job[j]
    BY <2>4 DEF IsJob, JobRecords
  <2> HIDE DEF b
  <2>8. job'[j] = b /\ \A k \in Jobs : k # j => job'[k] = job[k]
    BY <2>3 DEF Update, Books, Typed
  <2>9. \/ jobs' = jobs
        \/ /\ jobs' = [k \in DOMAIN jobs \ {n} |-> jobs[k]]
           /\ job'[j].client.state = "COMPLETE"
    <3>1. CASE Forgotten(j, accepted)
      BY <2>3, <2>5, <2>6, <2>7, <2>8, <3>1 DEF Forgotten, State
    <3>2. CASE ~Forgotten(j, accepted)
      BY <2>3, <3>2
    <3> QED BY <3>1, <3>2
  <2>10. \/ job'[j] = job[j]
         \/ /\ State(j) = "SENT" /\ job'[j].client.state = "COMPLETE"
            /\ job'[j].client.confirmed = job[j].client.confirmed
            /\ job'[j].timeout = job[j].timeout
    <3>1. CASE accepted
      BY <2>5, <2>7, <2>8, <3>1
    <3>2. CASE ~accepted
      BY <2>7, <2>8, <3>2
    <3> QED BY <3>1, <3>2
  <2>11. Handled(j, n)
    BY <2>2, <2>8, <2>9, <2>10 DEF Handled
  <2> QED BY <2>2, <2>11
<1> QED BY <1>3, <1>4 DEF ProcessMessage

LEMMA RoutedFrame ==
    ASSUME SentIsRouted, FewerSent, jobs' = jobs
    PROVE  SentIsRouted'
  BY DEF SentIsRouted, FewerSent

LEMMA RoutedSent ==
    ASSUME SentIsRouted, NEW j \in Jobs, NEW n, Sent(j, n)
    PROVE  SentIsRouted'
<1> SUFFICES ASSUME NEW k \in Jobs, job'[k].client.state = "SENT"
             PROVE  job'[k].client.counter \in DOMAIN jobs' /\ jobs'[job'[k].client.counter] = k
  BY DEF SentIsRouted
<1>1. CASE k = j
  BY <1>1 DEF Sent
<1>2. CASE k # j
  <2>1. job'[k] = job[k]
    BY <1>2 DEF Sent
  <2>2. job[k].client.counter \in DOMAIN jobs /\ jobs[job[k].client.counter] = k
    BY <2>1 DEF SentIsRouted
  <2> QED BY <2>1, <2>2 DEF Sent
<1> QED BY <1>1, <1>2

LEMMA RoutedHandled ==
    ASSUME SentIsRouted, NEW j \in Jobs, NEW n, Handled(j, n)
    PROVE  SentIsRouted'
<1>1. FewerSent
  <2>1. \A k \in Jobs : job'[k].client.state = "SENT" => job'[k] = job[k]
    BY DEF Handled
  <2> QED BY <2>1 DEF FewerSent
<1>2. CASE jobs' = jobs
  BY <1>1, <1>2, RoutedFrame
<1>3. CASE jobs' = [m \in DOMAIN jobs \ {n} |-> jobs[m]] /\ job'[j].client.state = "COMPLETE"
  <2> SUFFICES ASSUME NEW k \in Jobs, job'[k].client.state = "SENT"
               PROVE  job'[k].client.counter \in DOMAIN jobs' /\ jobs'[job'[k].client.counter] = k
    BY DEF SentIsRouted
  <2>1. k # j
    BY <1>3
  <2>2. /\ job[k].client.state = "SENT" /\ job'[k].client.counter = job[k].client.counter
        /\ job[k].client.counter \in DOMAIN jobs /\ jobs[job[k].client.counter] = k
    BY <1>1 DEF FewerSent, SentIsRouted
  <2>3. job[k].client.counter # n
    BY <2>1, <2>2 DEF Handled
  <2> QED BY <1>3, <2>2, <2>3
<1> QED BY <1>2, <1>3 DEF Handled

LEMMA RoutedNext ==
    ASSUME StaysSteady, invocationCounter < RES_MOD, Books, Numbered, NeverArray, Kept,
           SentIsRouted, [Next]_vars
    PROVE  SentIsRouted'
<1>1. CASE NotifyPacked
  BY <1>1, SentFacts, RoutedSent
<1>2. CASE ProcessMessage
  <2>1. CASE jobs' = jobs /\ job' = job
    BY <2>1, RoutedFrame DEF FewerSent
  <2>2. CASE \E j \in Jobs, n \in DOMAIN jobs : Handled(j, n)
    BY <2>2, RoutedHandled
  <2> QED BY <1>2, <2>1, <2>2, HandledFacts
<1>3. CASE NewJob \/ NotifyNotSent \/ NotifyTick
  BY <1>3, NewJobSent, NotifyNotSentSent, NotifyTickSent, RoutedFrame
<1>4. CASE \/ Start \/ Stop \/ Pass \/ Input \/ Delete \/ Create \/ ProcessTick
           \/ \E j \in Jobs : Request(j)
           \/ Pack
           \/ UNCHANGED vars
  <2>1. jobs' = jobs /\ job' = job
    BY <1>4 DEF Start, Stop, Pass, Input, Delete, Create, ProcessTick, Request, Pack, Send, Receive,
                ReceiveRequest, ReceiveStray, SendAcross, ReceiveAcross, ReceiveRequestAcross,
                TakeMessage, vars, peerVars
  <2> QED BY <2>1, RoutedFrame DEF FewerSent
<1> QED BY <1>1, <1>2, <1>3, <1>4, NoticeFindsJob DEF Next, Work

LEMMA RoutedInit == Init => SentIsRouted /\ NeverArray
  BY DEF Init, SentIsRouted, NeverArray, NoJob, Unused

-----------------------------------------------------------------------------
(* The threads *)

\* Requests want a response: those of the application, and any that are received.
Answerable ==
    /\ \A o \in Options : o.confirmed
    /\ MaxIncoming = 0 \/ Incoming \subseteq {TRUE}

\* No message comes from an address the peer has no record of.
Acquainted == "unknown" \notin Strays

\* The job of a request waits for an answer: nothing finishes it while a message is
\* on its way, and it has a timeout as long as it is listed.
Expects(k) ==
    /\ State(k) # "UNUSED" => job[k].client.confirmed
    /\ Pends(k) => State(k) = "PENDING"
    /\ IsListed(k) => job[k].timeout # Nil

Expecting == \A k \in Jobs : Expects(k)

LEMMA ExpectsFrame ==
    ASSUME NEW k \in Jobs, Expects(k), job'[k] = job[k],
           Pends(k)' => Pends(k), IsListed(k)' => IsListed(k)
    PROVE  Expects(k)'
  BY DEF Expects, State

LEMMA ExpectingFrame ==
    ASSUME Expecting, job' = job, timeoutList' = timeoutList, \A k \in Jobs : Pends(k)' => Pends(k)
    PROVE  Expecting'
<1>1. \A k \in Jobs : IsListed(k)' => IsListed(k)
  BY DEF IsListed
<1> QED BY <1>1, ExpectsFrame DEF Expecting

LEMMA ExpectingInit == Init => Expecting /\ NoneFatal
<1> SUFFICES ASSUME Init PROVE Expecting /\ NoneFatal
  OBVIOUS
<1>1. /\ processJobQueue = <<>> /\ processMessageQueue = <<>> /\ timeoutList = <<>>
      /\ \A k \in Jobs : State(k) = "UNUSED"
  BY DEF Init, State, NoJob, Unused
<1>2. DOMAIN processJobQueue = {} /\ DOMAIN processMessageQueue = {} /\ DOMAIN timeoutList = {}
  BY <1>1
<1> QED BY <1>1, <1>2 DEF Expecting, Expects, NoneFatal, Pends, At, IsListed

LEMMA ExpectingEnvironment ==
    ASSUME StaysSteady, Books, Expecting, Environment
    PROVE  Expecting'
<1>1. Typed
  BY DEF Books
<1> QED BY <1>1, EnvironmentFacts, ElsewhereHolds, ExpectingFrame

LEMMA ExpectingSend ==
    ASSUME StaysSteady, Books, Expecting, Send
    PROVE  Expecting' /\ threads' = threads
<1> DEFINE item == Head(processMessageQueue)
<1>1. association # 0
  BY SteadyFacts DEF Books
<1>2. /\ processMessageQueue # <<>> /\ processMessageQueue' = Tail(processMessageQueue)
      /\ item.type = "send" /\ item.job \in Jobs
      /\ ~item.empty => item \in FullOf(item.job)
  BY SendItem DEF Books
<1>3. threads' = threads
  BY <1>1, SendItem DEF Books
<1>4. PICK x \in JobItems : /\ processJobQueue' = Append(processJobQueue, x)
                            /\ x.type \in {"notifyPacked", "notifyNotSent"} /\ x.job = item.job
                            /\ x.type = "notifyPacked" => ~item.empty
  BY <1>1, SendItem DEF Books
<1>5. job' = job /\ timeoutList' = timeoutList
  BY DEF Send, TakeMessage, peerVars
<1> HIDE DEF item
<1>6. ASSUME NEW k \in Jobs, Pends(k)' PROVE Pends(k)
  <2>1. processMessageQueue \in Seq(MessageItems) /\ processJobQueue \in Seq(JobItems)
    BY DEF Books, Typed
  <2>2. /\ At(Tail(processMessageQueue), FullOf(k)) # {} => At(processMessageQueue, FullOf(k)) # {}
        /\ Head(processMessageQueue) \in FullOf(k) => At(processMessageQueue, FullOf(k)) # {}
    BY <1>2, <2>1, AtTail
  <2>3. At(processJobQueue', PackedOf(k)) # {}
            => At(processJobQueue, PackedOf(k)) # {} \/ x \in PackedOf(k)
    BY <1>4, <2>1, AtAppend
  <2>4. x \in PackedOf(k) => item \in FullOf(k)
    BY <1>2, <1>4 DEF PackedOf
  <2> QED BY <1>2, <1>6, <2>2, <2>3, <2>4 DEF Pends, item
<1> QED BY <1>3, <1>5, <1>6, ExpectingFrame

LEMMA ExpectingAnswer ==
    ASSUME Books, Expecting, ProcessMessage \/ Receive \/ ReceiveRequest \/ ReceiveStray
    PROVE  Expecting'
<1>1. \A k \in Jobs : Pends(k)' => Pends(k)
  BY AnswerElsewhere, ElsewhereHolds DEF Books
<1>2. timeoutList' = timeoutList
  BY DEF ProcessMessage, Receive, ReceiveRequest, ReceiveStray, TakeMessage, peerVars
<1>3. \A k \in Jobs : IsListed(k)' => IsListed(k)
  BY <1>2 DEF IsListed
<1>4. CASE job' = job
  BY <1>1, <1>2, <1>4, ExpectingFrame
<1>5. ASSUME NEW j \in Jobs, NEW n \in DOMAIN jobs, Handled(j, n) PROVE Expecting'
  <2> SUFFICES ASSUME NEW k \in Jobs PROVE Expects(k)'
    BY DEF Expecting
  <2>1. Expects(k)
    BY DEF Expecting
  <2>2. CASE job'[k] = job[k]
    BY <1>1, <1>3, <2>1, <2>2, ExpectsFrame
  <2>3. CASE /\ State(k) = "SENT" /\ job'[k].client.state = "COMPLETE"
             /\ job'[k].client.confirmed = job[k].client.confirmed
             /\ job'[k].timeout = job[k].timeout
    BY <1>1, <1>3, <2>1, <2>3 DEF Expects, State
  <2> QED BY <1>5, <2>2, <2>3 DEF Handled
<1>6. CASE Receive \/ ReceiveRequest \/ ReceiveStray
  <2>1. job' = job
    BY <1>6 DEF Receive, ReceiveRequest, ReceiveStray, TakeMessage
  <2> QED BY <1>4, <2>1
<1> QED BY <1>4, <1>5, <1>6, HandledFacts

LEMMA ExpectingNewJob ==
    ASSUME Answerable, Books, Expecting, NewJob
    PROVE  Expecting'
<1> DEFINE item == Head(processJobQueue)
<1>1. /\ processJobQueue # <<>> /\ processJobQueue' = Tail(processJobQueue)
      /\ item \in JobItems /\ item.type = "newJob"
      /\ item = processJobQueue[1] /\ 1 \in DOMAIN processJobQueue
  BY TakenItem DEF NewJob
<1>2. item.job \in Jobs /\ item.opts \in Options
  BY <1>1, JobItemFields
<1>3. PICK j \in Jobs, o \in Options : j = item.job /\ o = item.opts
  BY <1>2
<1> DEFINE b == New(j, o)
           d == Output(b)
           x == Sending(j, b)
<1>4. /\ job' = [job EXCEPT ![j] = d] /\ timeoutList' = timeoutList
      /\ processMessageQueue' = Append(processMessageQueue, x)
  BY <1>3 DEF NewJob
<1>5. /\ x \in MessageItems /\ x.type = "send" /\ x.job = j
      /\ (~x.empty) => HasOutput(b)
  BY SendingIsItem
<1>6. d.client.confirmed /\ (HasOutput(b) => d.client.state = "PENDING")
  <2>1. IsJob(b) /\ b.client.confirmed
    BY NewIsJob DEF Answerable
  <2> HIDE DEF b
  <2> QED BY <2>1, OutputIsJob
<1>7. ~HasMessage(j) /\ ~IsListed(j)
  <2>1. item \in NewOf(j)
    BY <1>1, <1>3 DEF NewOf
  <2>2. News(j) # {}
    BY <1>1, <2>1 DEF News, At
  <2> QED BY <2>2 DEF Books, Messages, Listings
<1> HIDE DEF item, b, d, x
<1>8. ASSUME NEW k \in Jobs, Pends(k)' PROVE Pends(k) \/ (k = j /\ HasOutput(b))
  <2>1. processMessageQueue \in Seq(MessageItems) /\ processJobQueue \in Seq(JobItems)
    BY DEF Books, Typed
  <2>2. At(processJobQueue', PackedOf(k)) # {} => At(processJobQueue, PackedOf(k)) # {}
    BY <1>1, <2>1, AtTail
  <2>3. At(processMessageQueue', FullOf(k)) # {}
            => At(processMessageQueue, FullOf(k)) # {} \/ x \in FullOf(k)
    BY <1>4, <1>5, <2>1, AtAppend
  <2>4. x \in FullOf(k) => k = j /\ HasOutput(b)
    BY <1>5 DEF FullOf
  <2> QED BY <1>8, <2>2, <2>3, <2>4 DEF Pends
<1>9. job'[j] = d /\ \A k \in Jobs : k # j => job'[k] = job[k]
  BY <1>4 DEF Books, Typed
<1>10. \A k \in Jobs : IsListed(k)' => IsListed(k)
  BY <1>4 DEF IsListed
<1>11. Expects(j)'
  <2>1. ~Pends(j)
    BY <1>7, PendsHasMessage
  <2> QED BY <1>6, <1>7, <1>8, <1>9, <1>10, <2>1 DEF Expects, State
<1>12. ASSUME NEW k \in Jobs, k # j PROVE Expects(k)'
  <2>1. Pends(k)' => Pends(k)
    BY <1>8, <1>12
  <2> QED BY <1>9, <1>10, <1>12, <2>1, ExpectsFrame DEF Expecting
<1> QED BY <1>11, <1>12 DEF Expecting

\* The notice about j leaves nothing under way about it, nor anything new about others.
LEMMA NoticedPends ==
    ASSUME Books, Kept, NotifyNotSent \/ NotifyPacked
    PROVE  /\ \E j \in Jobs : j = Head(processJobQueue).job /\ ~Pends(j)'
           /\ \A k \in Jobs : Pends(k)' => Pends(k)
<1> DEFINE item == Head(processJobQueue)
<1>1. /\ processJobQueue # <<>> /\ processJobQueue' = Tail(processJobQueue)
      /\ item \in JobItems /\ item.type \in {"notifyNotSent", "notifyPacked"}
  <2>1. \E type \in {"notifyNotSent", "notifyPacked"} : TakeJob(type)
    BY DEF NotifyNotSent, NotifyPacked
  <2> QED BY <2>1, TakenItem
<1>2. processMessageQueue' = processMessageQueue /\ preJobs' = preJobs \ {item.job}
  BY DEF NotifyNotSent, NotifyPacked
<1>3. item.job \in Jobs
  BY <1>1, JobItemFields
<1> HIDE DEF item
<1>4. PICK j \in Jobs : j = item.job
  BY <1>3
<1>5. ~Pends(j)'
  <2>1. Kept' /\ j \notin preJobs'
    BY <1>2, <1>4, KeptNoticed
  <2>2. ~HasMessage(j)'
    BY <2>1 DEF Kept
  <2>3. FullOf(j) \subseteq SendsOf(j) /\ PackedOf(j) \subseteq NoticesOf(j)
    BY DEF FullOf, SendsOf, PackedOf, NoticesOf
  <2> QED BY <2>2, <2>3 DEF Pends, HasMessage, Sends, Notices, At
<1>6. ASSUME NEW k \in Jobs, Pends(k)' PROVE Pends(k)
  <2>1. processJobQueue \in Seq(JobItems)
    BY DEF Books, Typed
  <2>2. At(processJobQueue', PackedOf(k)) # {} => At(processJobQueue, PackedOf(k)) # {}
    BY <1>1, <2>1, AtTail
  <2> QED BY <1>2, <1>6, <2>2 DEF Pends
<1> QED BY <1>4, <1>5, <1>6 DEF item

LEMMA ExpectingNotifyNotSent ==
    ASSUME Books, Kept, Expecting, NotifyNotSent
    PROVE  Expecting'
<1> DEFINE item == Head(processJobQueue)
<1>1. PICK j \in Jobs : j = item.job /\ ~Pends(j)'
  BY NoticedPends
<1>2. \A k \in Jobs : Pends(k)' => Pends(k)
  BY NoticedPends
<1> DEFINE c == Cancelled(job[j].client)
           d == Abandoned(job[j], c)
<1>3. Update(j, d, CanAbandon(job[j].client), {}) /\ timeoutList' = timeoutList
  BY <1>1 DEF NotifyNotSent
<1>4. IsJob(job[j]) /\ Typed
  BY DEF Books, Typed
<1>5. /\ d.timeout = job[j].timeout /\ d.client.confirmed = job[j].client.confirmed
      /\ IF CanAbandon(job[j].client) THEN d.client.state = "COMPLETE" ELSE d = job[j]
  <2>1. c = Complete(job[j].client, Every(job[j].client, "CANCEL"))
    BY DEF Cancelled
  <2> HIDE DEF c
  <2> QED BY <1>4, <2>1, AbandonedIsJob
<1> HIDE DEF item, c, d
<1>6. job'[j] = d /\ \A k \in Jobs : k # j => job'[k] = job[k]
  BY <1>3, <1>4 DEF Update, Typed
<1>7. \A k \in Jobs : IsListed(k)' => IsListed(k)
  BY <1>3 DEF IsListed
<1>8. Expects(j)'
  <2>1. CanAbandon(job[j].client) => State(j) # "UNUSED"
    BY DEF CanAbandon, State
  <2>2. Expects(j)
    BY DEF Expecting
  <2> QED BY <1>1, <1>5, <1>6, <1>7, <2>1, <2>2 DEF Expects, State
<1>9. ASSUME NEW k \in Jobs, k # j PROVE Expects(k)'
  BY <1>2, <1>6, <1>7, <1>9, ExpectsFrame DEF Expecting
<1> QED BY <1>8, <1>9 DEF Expecting

LEMMA ExpectingNotifyTick ==
    ASSUME Books, Expecting, NotifyTick
    PROVE  Expecting'
<1>1. PICK retried, ended \in SUBSET Jobs : Tick(retried, ended)
  BY TickFacts
<1>2. Typed
  BY DEF Books
<1> SUFFICES ASSUME NEW k \in Jobs PROVE Expects(k)'
  BY DEF Expecting
<1>3. /\ IsListed(k)' => IsListed(k) /\ k \notin retried \cup ended
      /\ Pends(k)' => Pends(k) \/ (k \in retried /\ HasOutput(job[k]))
      /\ k \in retried \cup ended => IsListed(k)
  BY <1>1 DEF Tick
<1>4. k \in retried \cup ended => ~Pends(k) /\ State(k) # "UNUSED"
  BY <1>3, PendsHasMessage DEF Books, Messages, Listings
<1>5. IsJob(job[k]) /\ Expects(k)
  BY <1>2 DEF Typed, Expecting
<1>6. job'[k] = IF k \in retried THEN Output(job[k])
                ELSE IF k \in ended THEN Abandoned(job[k], TimedOut(job[k].client))
                ELSE job[k]
  BY <1>1 DEF Tick, Ticked
<1>7. CASE k \in retried
  <2>1. job'[k] = Output(job[k])
    BY <1>6, <1>7
  <2>2. /\ Output(job[k]).client.confirmed = job[k].client.confirmed
        /\ HasOutput(job[k]) => Output(job[k]).client.state = "PENDING"
    BY <1>5, OutputIsJob
  <2> QED BY <1>3, <1>4, <1>5, <1>7, <2>1, <2>2 DEF Expects, State
<1>8. CASE k \in ended /\ k \notin retried
  <2> DEFINE c == TimedOut(job[k].client)
             d == Abandoned(job[k], c)
  <2>1. c = Complete(job[k].client, Every(job[k].client, "TIMEOUT"))
    BY DEF TimedOut
  <2>2. job'[k] = d
    BY <1>6, <1>8
  <2> HIDE DEF c
  <2>3. d.client.confirmed = job[k].client.confirmed
    BY <1>5, <2>1, AbandonedIsJob
  <2> HIDE DEF d
  <2> QED BY <1>3, <1>4, <1>5, <1>8, <2>2, <2>3 DEF Expects, State
<1>9. CASE k \notin retried \cup ended
  <2>1. job'[k] = job[k]
    BY <1>6, <1>9
  <2> QED BY <1>3, <1>5, <1>9, <2>1, ExpectsFrame
<1> QED BY <1>7, <1>8, <1>9

\* A message that went out makes its job wait for the answer; nothing raises.
LEMMA ExpectingNotifyPacked ==
    ASSUME StaysSteady, Books, Numbered, Kept, NeverArray, Expecting, NotifyPacked
    PROVE  Expecting' /\ threads' = threads
<1> DEFINE item == Head(processJobQueue)
<1>0. TakeJob("notifyPacked") /\ Typed
  BY DEF NotifyPacked, Books
<1>1. PICK j \in Jobs : j = item.job /\ ~Pends(j)'
  BY NoticedPends
<1>2. \A k \in Jobs : Pends(k)' => Pends(k)
  BY NoticedPends
<1>3. PICK n \in Nat, time \in Nat : n = item.counter /\ time = item.time
  BY <1>0, PackedItem
<1>4. /\ ~IsListed(j) /\ IsJob(job[j])
      /\ results[j] # <<>> => State(j) = "COMPLETE"
      /\ item \in PackedOf(j) /\ item = processJobQueue[1] /\ 1 \in DOMAIN processJobQueue
  BY <1>0, <1>1, PackedItem, TakenItem
<1>5. State(j) = "PENDING" /\ job[j].client.confirmed
  <2>1. Pends(j)
    BY <1>4 DEF Pends, At
  <2> QED BY <2>1 DEF Expecting, Expects
<1>6. n \notin DOMAIN jobs
  BY <1>0, <1>3, FreshCounter
<1> DEFINE c == OutputConfirmed(job[j], n)
           completes == c.client.state = "COMPLETE" /\ job[j].client.state # "COMPLETE"
           done == completes \/ Finished(j)
           b == [c EXCEPT !.timeout = IF done THEN @ ELSE time + c.retryPeriod]
           raises == timeoutList # <<>> /\
                         (b.timeout = Nil \/ \E i \in DOMAIN timeoutList :
                              /\ job[timeoutList[i]].timeout = Nil
                              /\ \A k \in 1..(i-1) : job[timeoutList[k]].timeout <= b.timeout)
<1>7. /\ Update(j, b, completes, {})
      /\ IF raises THEN JobThreadDies /\ UNCHANGED timeoutList
                   ELSE timeoutList' = Listed(j, b.timeout) /\ UNCHANGED threads
  BY <1>1, <1>3, <1>6 DEF NotifyPacked, NeverArray
<1>8. IsJob(c) /\ c.client.state = "SENT" /\ c.client.confirmed
  <2> DEFINE s == Confirmed(job[j].client, n)
  <2>1. CanConfirm(job[j].client) /\ IsClient(job[j].client)
    BY <1>4, <1>5 DEF CanConfirm, State, IsJob
  <2>2. IsClient(s) /\ s.state = "SENT" /\ s.confirmed
    BY <1>5, <2>1, ConfirmedIsClient
  <2> HIDE DEF s
  <2>3. c = [job[j] EXCEPT !.client = s]
    BY <2>1 DEF OutputConfirmed, s
  <2> QED BY <1>4, <2>2, <2>3 DEF IsJob, JobRecords, IsClient
<1>9. ~done
  BY <1>4, <1>5, <1>8 DEF Finished
<1> HIDE DEF c, done, completes
<1>10. b.timeout \in Nat /\ b.client = c.client
  BY <1>8, <1>9 DEF IsJob, JobRecords
<1>11. \A i \in DOMAIN timeoutList : job[timeoutList[i]].timeout # Nil
  <2>1. \A i \in DOMAIN timeoutList : timeoutList[i] \in Jobs /\ IsListed(timeoutList[i])
    BY <1>0 DEF Typed, IsListed
  <2> QED BY <2>1 DEF Expecting, Expects
<1> HIDE DEF b, item
<1>12. ~raises
  BY <1>10, <1>11 DEF Nil
<1>13. timeoutList' = Listed(j, b.timeout) /\ threads' = threads
  BY <1>7, <1>12
<1>14. job'[j] = b /\ \A k \in Jobs : k # j => job'[k] = job[k]
  BY <1>0, <1>7 DEF Update, Typed
<1>15. \A k \in Jobs : IsListed(k)' => k = j \/ IsListed(k)
  <2> DEFINE l == Listed(j, b.timeout)
  <2>1. \A i \in DOMAIN l : l[i] = j \/ \E k \in DOMAIN timeoutList : timeoutList[k] = l[i]
    <3>1. PICK T : T = [x \in Jobs |-> IF x = j THEN b.timeout ELSE job[x].timeout]
      OBVIOUS
    <3>2. /\ \A i, k \in DOMAIN timeoutList : timeoutList[i] = timeoutList[k] => i = k
          /\ TimeoutsInOrder
      BY DEF Books, Listings
    <3>3. b.timeout \in Int
      BY <1>10
    <3> QED BY <1>0, <1>4, <3>1, <3>2, <3>3, ListedFacts
  <2> HIDE DEF l
  <2> QED BY <1>13, <2>1 DEF IsListed, l
<1>16. Expects(j)'
  BY <1>1, <1>8, <1>10, <1>14 DEF Expects, State, Nil
<1>17. ASSUME NEW k \in Jobs, k # j PROVE Expects(k)'
  BY <1>2, <1>14, <1>15, <1>17, ExpectsFrame DEF Expecting
<1> QED BY <1>13, <1>16, <1>17 DEF Expecting

LEMMA ExpectingNext ==
    ASSUME StaysSteady, Answerable, Books, Numbered, Kept, NeverArray, Expecting, [Next]_vars
    PROVE  Expecting'
<1>1. CASE Environment
  BY <1>1, ExpectingEnvironment
<1>2. CASE NewJob \/ NotifyNotSent \/ NotifyPacked \/ NotifyTick
  BY <1>2, ExpectingNewJob, ExpectingNotifyNotSent, ExpectingNotifyPacked, ExpectingNotifyTick
<1>3. CASE ProcessMessage \/ Send \/ Receive \/ ReceiveRequest \/ ReceiveStray
  BY <1>3, ExpectingAnswer, ExpectingSend
<1>4. Typed
  BY DEF Books
<1> QED BY <1>1, <1>2, <1>3, <1>4, NoticeFindsJob, SteadyFacts DEF Next, Work, Pack, Environment

LEMMA NoneFatalNext ==
    ASSUME StaysSteady, Answerable, Acquainted, Books, NoneFatal, [Next]_vars
    PROVE  NoneFatal'
<1>1. processMessageQueue \in Seq(MessageItems) /\ At(processMessageQueue, Fatal) = {} /\ Typed
  BY DEF Books, Typed, NoneFatal
<1>2. NoneFatal' <=> At(processMessageQueue', Fatal) = {}
  BY DEF NoneFatal
<1>3. CASE processMessageQueue' = processMessageQueue
  BY <1>1, <1>2, <1>3
<1>4. ASSUME NEW x \in MessageItems, x \notin Fatal,
             processMessageQueue' = Append(processMessageQueue, x)
      PROVE  NoneFatal'
  BY <1>1, <1>2, <1>4, AtAppend
<1>5. CASE processMessageQueue # <<>> /\ processMessageQueue' = Tail(processMessageQueue)
  BY <1>1, <1>2, <1>5, AtTail
<1>6. CASE Input
  <2>1. PICK x \in MessageItems :
            /\ processMessageQueue' = Append(processMessageQueue, x)
            /\ x.type = "request" => incoming < MaxIncoming /\ x.confirmed \in Incoming
    BY <1>1, <1>6, InputItem
  <2>2. MaxIncoming = 0 => ~(incoming < MaxIncoming)
    BY <1>1 DEF Typed
  <2>3. x \notin Fatal
    BY <2>1, <2>2, MessageItemFields DEF Answerable, Acquainted, Fatal
  <2> QED BY <1>4, <2>1, <2>3
<1>7. CASE NewJob
  <2> DEFINE item == Head(processJobQueue)
  <2>1. item \in JobItems /\ item.type = "newJob"
    BY <1>7, TakenItem DEF NewJob
  <2>2. item.job \in Jobs
    BY <2>1, JobItemFields
  <2>3. processMessageQueue' =
            Append(processMessageQueue, Sending(item.job, New(item.job, item.opts)))
    BY <1>7 DEF NewJob
  <2>4. PICK x \in MessageItems :
            x.type = "send" /\ processMessageQueue' = Append(processMessageQueue, x)
    BY <2>2, <2>3, SendingIsItem
  <2> QED BY <1>4, <2>4 DEF Fatal
<1>8. CASE NotifyTick
  BY <1>8, TickFacts DEF Tick
<1>9. CASE Send \/ Receive \/ ReceiveRequest \/ ReceiveStray
  BY <1>5, <1>9 DEF Send, Receive, ReceiveRequest, ReceiveStray, TakeMessage
<1>10. CASE NotifyNotSent \/ NotifyPacked \/ ProcessMessage
  BY <1>3, <1>10 DEF NotifyNotSent, NotifyPacked, ProcessMessage
<1>11. CASE Environment /\ ~Input
  BY <1>3, <1>11, SteadyFacts DEF Environment, Start, Stop, Pass, Delete, Create, ProcessTick,
     Request, vars, Books
<1>12. CASE MissingPreJob("notifyPacked") \/ MissingPreJob("notifyNotSent")
  BY <1>3, <1>12 DEF MissingPreJob
<1> QED BY <1>1, <1>6, <1>7, <1>8, <1>9, <1>10, <1>11, <1>12, SteadyFacts
        DEF Next, Work, Pack, Environment

\* What the threads of a peer come upon raises nothing.
LEMMA ThreadsNext ==
    ASSUME StaysSteady, Books, Numbered, Kept, NeverArray, Expecting, NoneFatal,
           MaxIncoming = 0 \/ invocationCounter < MAX_COUNTER, NoThreadDies, [Next]_vars
    PROVE  NoThreadDies'
<1>1. association # 0 /\ ~Stop /\ ~Delete /\ ~Create /\ Typed
  BY SteadyFacts DEF Books
<1>2. CASE threads' = threads
  BY <1>2 DEF NoThreadDies
<1>3. CASE Start
  BY <1>3 DEF Start, NoThreadDies
<1>4. CASE Pass \/ Input \/ ProcessTick \/ UNCHANGED vars \/ \E j \in Jobs : Request(j)
  <2>1. threads' = threads
    BY <1>4 DEF Pass, Input, ProcessTick, vars, Request
  <2> QED BY <1>2, <2>1
<1>5. CASE NewJob \/ NotifyNotSent
  BY <1>2, <1>5 DEF NewJob, NotifyNotSent
<1>6. CASE NotifyPacked
  BY <1>2, <1>6, ExpectingNotifyPacked
<1>7. CASE NotifyTick
  <2>1. \A i \in Visited : job[timeoutList[i]].timeout # Nil
    <3>1. \A i \in DOMAIN timeoutList : timeoutList[i] \in Jobs /\ IsListed(timeoutList[i])
      BY <1>1 DEF Typed, IsListed
    <3>2. \A i \in DOMAIN timeoutList : job[timeoutList[i]].timeout # Nil
      BY <3>1 DEF Expecting, Expects
    <3>3. Visited \subseteq DOMAIN timeoutList
      BY DEF Visited
    <3> QED BY <3>2, <3>3
  <2>2. threads' = [threads EXCEPT !.job =
            IF \E i \in Visited : job[timeoutList[i]].timeout = Nil THEN "dead" ELSE @]
    BY <1>7 DEF NotifyTick
  <2>3. threads' = [threads EXCEPT !.job = @]
    BY <2>1, <2>2
  <2> QED BY <1>1, <2>3 DEF NoThreadDies, Typed
<1>8. CASE ProcessMessage
  BY <1>2, <1>8 DEF ProcessMessage, NeverArray
<1>9. CASE Send
  BY <1>2, <1>9, ExpectingSend
<1>10. CASE Receive
  <2>1. threads' = threads
    BY <1>1, <1>10, ReceiveItem DEF Books
  <2> QED BY <1>2, <2>1
<1>11. CASE ReceiveRequest
  <2>1. /\ processMessageQueue # <<>> /\ Head(processMessageQueue).type = "request"
    BY <1>11 DEF ReceiveRequest, TakeMessage
  <2>2. processMessageQueue \in Seq(MessageItems)
    BY <1>1 DEF Typed
  <2>3. /\ 1 \in DOMAIN processMessageQueue /\ processMessageQueue[1] \in MessageItems
        /\ Head(processMessageQueue) = processMessageQueue[1]
    BY <2>1, <2>2
  <2>4. MaxIncoming # 0 /\ Head(processMessageQueue).confirmed
    BY <2>1, <2>3 DEF NoneFatal, At, Fatal
  <2>5. Packs(~Head(processMessageQueue).confirmed)
    BY <2>4 DEF Packs
  <2>6. threads' = threads
    BY <1>1, <1>11, <2>5 DEF ReceiveRequest
  <2> QED BY <1>2, <2>6
<1>12. CASE ReceiveStray
  <2>1. /\ processMessageQueue # <<>> /\ Head(processMessageQueue).type = "stray"
    BY <1>12 DEF ReceiveStray, TakeMessage
  <2>2. processMessageQueue \in Seq(MessageItems)
    BY <1>1 DEF Typed
  <2>3. /\ 1 \in DOMAIN processMessageQueue /\ processMessageQueue[1] \in MessageItems
        /\ Head(processMessageQueue) = processMessageQueue[1]
    BY <2>1, <2>2
  <2>4. Head(processMessageQueue).kind # "unknown"
    BY <2>1, <2>3 DEF NoneFatal, At, Fatal
  <2>5. threads' = threads
    BY <1>1, <1>12, <2>4 DEF ReceiveStray
  <2> QED BY <1>2, <2>5
<1>13. ~SendAcross /\ ~ReceiveAcross /\ ~ReceiveRequestAcross
  BY <1>1, SteadyFacts
<1> QED BY <1>1, <1>3, <1>4, <1>5, <1>6, <1>7, <1>8, <1>9, <1>10, <1>11, <1>12, <1>13, NoticeFindsJob
        DEF Next, Work, Pack

-----------------------------------------------------------------------------
(* What holds as long as the peer is steady *)

LEMMA CounterGrows ==
    ASSUME StaysSteady, Typed, [Next]_vars
    PROVE  /\ invocationCounter \in Nat /\ invocationCounter' \in Nat
           /\ invocationCounter <= invocationCounter'
<1>1. ~Create
  BY SteadyFacts
<1>2. invocationCounter \in Nat
  BY TypedNumbers
<1>3. invocationCounter' = invocationCounter \/ invocationCounter' = invocationCounter + 1
  <2>1. CASE \/ Start \/ Stop \/ Pass \/ Input \/ Delete \/ ProcessTick \/ UNCHANGED vars
             \/ \E j \in Jobs : Request(j)
    BY <2>1 DEF Start, Stop, Pass, Input, Delete, ProcessTick, Request, vars, dbVars
  <2>2. CASE Work
    BY <2>2 DEF Work, NewJob, NotifyNotSent, NotifyPacked, NotifyTick, ProcessMessage,
                MissingPreJob, TakeJob, dbVars
  <2>3. CASE Pack
    BY <2>3, SteadyFacts DEF Pack, Send, Receive, ReceiveRequest, ReceiveStray
  <2> QED BY <1>1, <2>1, <2>2, <2>3 DEF Next
<1> QED BY <1>2, <1>3

\* The parts of the invariant.
SteadyKept    == Steady => Kept /\ NeverArray /\ Numbered
SteadyRouted  == Steady /\ invocationCounter < RES_MOD => SentIsRouted
SteadyExpects == Steady => Expecting /\ NoneFatal
SteadyLives   ==
    Steady /\ (MaxIncoming = 0 \/ invocationCounter < MAX_COUNTER) => NoThreadDies

LEMMA SteadyKeptNext ==
    ASSUME Books, SteadyKept, [Next]_vars
    PROVE  SteadyKept'
<1> SUFFICES ASSUME Steady' PROVE Kept' /\ NeverArray' /\ Numbered'
  BY DEF SteadyKept
<1>1. StaysSteady /\ Typed
  BY SteadyBefore DEF Books
<1>2. Kept /\ NeverArray /\ Numbered
  BY <1>1 DEF SteadyKept, StaysSteady
<1> QED BY <1>1, <1>2, KeptNext, NeverArrayNext, NumberedNext

LEMMA SteadyRoutedNext ==
    ASSUME Books, SteadyKept, SteadyRouted, [Next]_vars
    PROVE  SteadyRouted'
<1> SUFFICES ASSUME Steady', invocationCounter' < RES_MOD PROVE SentIsRouted'
  BY DEF SteadyRouted
<1>1. StaysSteady /\ Typed
  BY SteadyBefore DEF Books
<1>2. invocationCounter < RES_MOD
  BY <1>1, CounterGrows, ModuliAssumption
<1>3. Kept /\ NeverArray /\ Numbered /\ SentIsRouted
  BY <1>1, <1>2 DEF SteadyKept, SteadyRouted, StaysSteady
<1> QED BY <1>1, <1>2, <1>3, RoutedNext

LEMMA SteadyExpectsNext ==
    ASSUME Answerable, Acquainted, Books, SteadyKept, SteadyExpects, [Next]_vars
    PROVE  SteadyExpects'
<1> SUFFICES ASSUME Steady' PROVE Expecting' /\ NoneFatal'
  BY DEF SteadyExpects
<1>1. StaysSteady
  BY SteadyBefore DEF Books
<1>2. Kept /\ NeverArray /\ Numbered /\ Expecting /\ NoneFatal
  BY <1>1 DEF SteadyKept, SteadyExpects, StaysSteady
<1> QED BY <1>1, <1>2, ExpectingNext, NoneFatalNext

LEMMA SteadyLivesNext ==
    ASSUME Books, SteadyKept, SteadyExpects, SteadyLives, [Next]_vars
    PROVE  SteadyLives'
<1> SUFFICES ASSUME Steady', MaxIncoming = 0 \/ invocationCounter' < MAX_COUNTER PROVE NoThreadDies'
  BY DEF SteadyLives
<1>1. StaysSteady /\ Typed
  BY SteadyBefore DEF Books
<1>2. MaxIncoming = 0 \/ invocationCounter < MAX_COUNTER
  BY <1>1, CounterGrows, WrangleAssumption
<1>3. Kept /\ NeverArray /\ Numbered /\ Expecting /\ NoneFatal /\ NoThreadDies
  BY <1>1, <1>2 DEF SteadyKept, SteadyExpects, SteadyLives, StaysSteady
<1> QED BY <1>1, <1>2, <1>3, ThreadsNext

LEMMA SteadyInit ==
    Init => SteadyKept /\ SteadyRouted /\ SteadyExpects /\ SteadyLives
<1>1. Init => NoThreadDies
  BY DEF Init, NoThreadDies
<1> QED BY <1>1, NumberedInit, KeptInit, RoutedInit, ExpectingInit
        DEF SteadyKept, SteadyRouted, SteadyExpects, SteadyLives

LEMMA KeptAlways == Spec => []SteadyKept
<1>1. Init => SteadyKept
  BY SteadyInit
<1>2. Books /\ SteadyKept /\ [Next]_vars => SteadyKept'
  BY SteadyKeptNext
<1>3. Spec => []Books
  BY BooksAlways
<1> QED BY <1>1, <1>2, <1>3, PTL DEF Spec

\* Until a stop or a deletion of the association a job is among the preJobs exactly as
\* long as one message about it is under way: the notice of the worker finds its job
\* (peer.rb:235), and no job is left there.
THEOREM PreJobsAlwaysHaveMessages == Spec => [](Steady => PreJobHasMessage)
<1>1. Books /\ SteadyKept => (Steady => PreJobHasMessage)
  BY KeptHasMessage DEF SteadyKept
<1> QED BY <1>1, BooksAlways, KeptAlways, PTL

\* Until then, and until the counters pass 16 bits, a request that waits for its answer
\* is found by it: the counter of its last transmission, of which the answer carries
\* 16 bits, leads to its job (peer.rb:342).
THEOREM SentAlwaysRouted == Spec => [](Steady /\ invocationCounter < RES_MOD => SentIsRouted)
<1>1. Init => SteadyRouted
  BY SteadyInit
<1>2. Books /\ SteadyKept /\ SteadyRouted /\ [Next]_vars => SteadyRouted'
  BY SteadyRoutedNext
<1>3. Spec => []SteadyRouted
  BY <1>1, <1>2, BooksAlways, KeptAlways, PTL DEF Spec
<1>4. SteadyRouted => (Steady /\ invocationCounter < RES_MOD => SentIsRouted)
  BY DEF SteadyRouted
<1> QED BY <1>3, <1>4, PTL

\* Until then, and as long as every message that arrives is from a peer with a record,
\* requests that want a response end no thread: the worker finds the association, its
\* notices find their jobs and an index that is free, and every timeout that is compared
\* is a time (peer.rb:235, 248, 262, 289).  The same holds for requests that are received,
\* while there is a counter for the response.  A message of a stranger ends the worker
\* (association_record.rb:120).
THEOREM NoThreadEverDies ==
    ASSUME Answerable, Acquainted
    PROVE  Spec => [](Steady /\ (MaxIncoming = 0 \/ invocationCounter < MAX_COUNTER)
                      => NoThreadDies)
<1>1. Init => SteadyExpects /\ SteadyLives
  BY SteadyInit
<1>2. Books /\ SteadyKept /\ SteadyExpects /\ [Next]_vars => SteadyExpects'
  BY SteadyExpectsNext
<1>3. Books /\ SteadyKept /\ SteadyExpects /\ SteadyLives /\ [Next]_vars => SteadyLives'
  BY SteadyLivesNext
<1>4. Spec => []SteadyLives
  BY <1>1, <1>2, <1>3, BooksAlways, KeptAlways, PTL DEF Spec
<1>5. SteadyLives =>
          (Steady /\ (MaxIncoming = 0 \/ invocationCounter < MAX_COUNTER) => NoThreadDies)
  BY DEF SteadyLives
<1> QED BY <1>4, <1>5, PTL
=============================================================================
