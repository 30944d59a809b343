------------------------- MODULE WranglePeerProofs --------------------------
(***************************************************************************)
(* Theorems about WranglePeer for any number of requests, retries, ticks,  *)
(* datagrams, stops and creations of the association.  Books says that     *)
(* queues, lists and jobs agree; Order, that messages are numbered, handed *)
(* over and answered in an order that leaves one transmission an answer    *)
(* can be to.                                                              *)
(***************************************************************************)
EXTENDS WranglePeer, FiniteSetTheorems, SequenceTheorems, TLAPS

-----------------------------------------------------------------------------
(* Sequences *)

\* Taking the first item moves every other one place forward.
LEMMA TailPlaces ==
    ASSUME NEW S, NEW q \in Seq(S), q # <<>>
    PROVE  /\ Head(q) = q[1] /\ Head(q) \in S /\ 1 \in DOMAIN q
           /\ Tail(q) \in Seq(S) /\ Len(q) \in Nat /\ DOMAIN q = 1..Len(q)
           /\ DOMAIN Tail(q) = 1..(Len(q) - 1)
           /\ \A i \in DOMAIN Tail(q) : i + 1 \in DOMAIN q /\ Tail(q)[i] = q[i + 1]
  OBVIOUS

LEMMA AppendPlaces ==
    ASSUME NEW S, NEW q \in Seq(S), NEW x \in S
    PROVE  /\ Append(q, x) \in Seq(S) /\ Len(q) \in Nat /\ DOMAIN q = 1..Len(q)
           /\ DOMAIN Append(q, x) = 1..(Len(q) + 1)
           /\ \A i \in DOMAIN q : i \in DOMAIN Append(q, x) /\ Append(q, x)[i] = q[i]
           /\ Append(q, x)[Len(q) + 1] = x
  OBVIOUS

LEMMA ConcatPlaces ==
    ASSUME NEW S, NEW q \in Seq(S), NEW r \in Seq(S)
    PROVE  /\ q \o r \in Seq(S) /\ Len(q) \in Nat /\ DOMAIN q = 1..Len(q)
           /\ Len(r) \in Nat /\ DOMAIN r = 1..Len(r)
           /\ DOMAIN (q \o r) = 1..(Len(q) + Len(r))
           /\ \A i \in DOMAIN q : i \in DOMAIN (q \o r) /\ (q \o r)[i] = q[i]
           /\ \A i \in DOMAIN (q \o r) : i \notin DOMAIN q =>
                i - Len(q) \in DOMAIN r /\ (q \o r)[i] = r[i - Len(q)]
  OBVIOUS

\* The places of a finite set of places, in their order.
LEMMA OrderedPlaces ==
    ASSUME NEW n \in Nat, NEW K \in SUBSET (1..n), NEW f \in InOrder(K)
    PROVE  /\ \E m \in Nat : f \in [1..m -> K]
           /\ \A i, k \in DOMAIN f : f[i] = f[k] => i = k
           /\ \A i, k \in DOMAIN f : i < k => f[i] < f[k]
           /\ \A i \in DOMAIN f : f[i] \in K
           /\ \A p \in K : \E i \in DOMAIN f : f[i] = p
<1>1. IsFiniteSet(K) /\ Cardinality(K) \in Nat
  <2>1. IsFiniteSet(1..n)
    BY FS_Interval
  <2>2. IsFiniteSet(K)
    BY <2>1, FS_Subset
  <2> QED BY <2>2, FS_CardinalityType
<1> DEFINE m == Cardinality(K)
<1>2. IsFiniteSet(1..m) /\ Cardinality(1..m) = m
  BY <1>1, FS_Interval
<1>3. /\ f \in [1..m -> K]
      /\ \A i, k \in DOMAIN f : i < k => f[i] < f[k]
  BY DEF InOrder
<1>4. \A i, k \in 1..m : f[i] = f[k] => i = k
  <2>1. \A i \in 1..m : f[i] \in Nat
    <3>1. K \subseteq Nat
      OBVIOUS
    <3> HIDE DEF m
    <3> QED BY <1>3, <3>1
  <2>2. \A i, k \in 1..m : i < k \/ k < i \/ i = k
    BY <1>1
  <2> HIDE DEF m
  <2> QED BY <1>3, <2>1, <2>2
<1> HIDE DEF m
<1>5. f \in Injection(1..m, K)
  BY <1>3, <1>4 DEF Injection, IsInjective
<1>6. f \in Surjection(1..m, K)
  BY <1>1, <1>2, <1>5, FS_Injection DEF m
<1>7. \A p \in K : \E i \in 1..m : f[i] = p
  BY <1>6 DEF Surjection
<1>8. m \in Nat /\ DOMAIN f = 1..m
  BY <1>1, <1>3 DEF m
<1> QED BY <1>3, <1>4, <1>7, <1>8

\* A counter of the code is its own residue as long as it is below the modulus.
LEMMA Residues ==
    ASSUME NEW n \in Nat
    PROVE  n % RES_MOD \in 0..(RES_MOD - 1) /\ (n < RES_MOD => n % RES_MOD = n)
  BY ModuliAssumption

-----------------------------------------------------------------------------
(* Clients and jobs *)

\* Every request has one method.
Lists == {<<>>} \cup {<<i>> : i \in [method : Jobs, argLen : {0}, result : Results]}
ClientRecords == [state : States, list : Lists, listMax : Nat, confirmed : BOOLEAN,
                  breakOnError : BOOLEAN, reqLen : Nat, counter : 0..(RES_MOD - 1)]
IsClient(r) == r \in ClientRecords /\ (r.list = <<>> => r.state = "UNUSED")
JobRecords == [client : ClientRecords, timeout : Nat \cup {Nil}, retryPeriod : Nat, retryMax : Nat]
IsJob(b) == b \in JobRecords /\ IsClient(b.client)

LEMMA NoJobIsJob == IsJob(NoJob) /\ NoJob.client.state = "UNUSED"
  BY ModuliAssumption DEF IsJob, IsClient, JobRecords, ClientRecords, Lists, NoJob, Unused, States, Nil

LEMMA CompleteIsClient ==
    ASSUME NEW r, IsClient(r), NEW res, \A i \in 1..Len(r.list) : res[i] \in Results,
           r.state # "UNUSED"
    PROVE  LET s == Complete(r, res)
           IN  /\ IsClient(s) /\ s.state = "COMPLETE" /\ s.counter = r.counter
               /\ s.confirmed = r.confirmed /\ s.list[1].result \in Results
<1> DEFINE I == [method : Jobs, argLen : {0}, result : Results]
           list == [i \in 1..Len(r.list) |-> [r.list[i] EXCEPT !.result = res[i]]]
<1>1. PICK i \in I : r.list = <<i>>
  BY DEF IsClient, ClientRecords, Lists
<1>2. Len(r.list) = 1 /\ r.list[1] = i /\ 1..1 = {1}
  BY <1>1
<1> DEFINE e == [i EXCEPT !.result = res[1]]
<1>3. e \in I /\ e.result = res[1]
  BY <1>2
<1>4. list = <<e>> /\ list[1].result = res[1]
  BY <1>2
<1> HIDE DEF list, e
<1>5. list \in Lists /\ list # <<>>
  BY <1>3, <1>4 DEF Lists
<1> HIDE DEF list
<1>6. Complete(r, res) = [r EXCEPT !.list = list, !.state = "COMPLETE"]
  BY DEF Complete, list
<1>7. res[1] \in Results
  BY <1>2
<1> QED BY <1>4, <1>5, <1>6, <1>7 DEF IsClient, ClientRecords, States

LEMMA ConfirmedIsClient ==
    ASSUME NEW r, IsClient(r), CanConfirm(r), NEW n \in Nat
    PROVE  LET s == Confirmed(r, n)
           IN  /\ IsClient(s) /\ s.confirmed = r.confirmed
               /\ s.state = (IF r.confirmed THEN "SENT" ELSE "COMPLETE")
               /\ s.counter = n % RES_MOD
               /\ ~r.confirmed => s.list[1].result \in Results
<1> DEFINE s == [r EXCEPT !.counter = n % RES_MOD, !.state = "SENT"]
<1>1. n % RES_MOD \in 0..(RES_MOD - 1)
  BY Residues
<1>2. /\ IsClient(s) /\ s.state = "SENT" /\ s.counter = n % RES_MOD /\ s.confirmed = r.confirmed
      /\ s.list = r.list
  <2> DEFINE k == n % RES_MOD
  <2> HIDE DEF k
  <2> QED BY <1>1 DEF IsClient, ClientRecords, CanConfirm, States, k
<1> HIDE DEF s
<1>3. \A i \in 1..Len(s.list) : Every(r, "SUCCESS")[i] \in Results
  BY <1>2 DEF Every, Results, ServerResults
<1>4. Confirmed(r, n) = IF r.confirmed THEN s ELSE Complete(s, Every(r, "SUCCESS"))
  BY DEF Confirmed, s
<1>5. r.confirmed \in BOOLEAN
  BY DEF IsClient, ClientRecords
<1>6. CASE r.confirmed
  BY <1>2, <1>4, <1>6
<1>7. CASE ~r.confirmed
  <2> DEFINE c == Complete(s, Every(r, "SUCCESS"))
  <2>1. /\ IsClient(c) /\ c.state = "COMPLETE" /\ c.counter = s.counter
        /\ c.confirmed = s.confirmed /\ c.list[1].result \in Results
    BY <1>2, <1>3, CompleteIsClient
  <2> HIDE DEF c
  <2>2. Confirmed(r, n) = c
    BY <1>4, <1>7 DEF c
  <2> QED BY <1>2, <1>7, <2>1, <2>2
<1> QED BY <1>5, <1>6, <1>7

LEMMA AnsweredIsClient ==
    ASSUME NEW r, IsClient(r), NEW res \in Seq(STRING), NEW n, Accepts(r, n, res)
    PROVE  LET s == Answered(r, res)
           IN  /\ IsClient(s) /\ s.state = "COMPLETE" /\ s.list[1].result \in Results
               /\ r.state = "SENT" /\ r.counter = n /\ s.confirmed = r.confirmed
<1> DEFINE list == [i \in 1..Len(r.list) |-> ResultFor(res, i)]
<1>1. \A i \in 1..Len(r.list) : list[i] \in Results
  <2>1. Len(r.list) \in Nat
    BY DEF IsClient, ClientRecords, Lists
  <2>2. \A i \in 1..Len(r.list) : ResultFor(res, i) \in Results
    BY <2>1 DEF Accepts, ResultFor, Results, ServerResults
  <2> QED BY <2>2
<1>2. r.state = "SENT" /\ r.counter = n
  BY DEF Accepts
<1> HIDE DEF list
<1>3. Answered(r, res) = Complete(r, list)
  BY DEF Answered, list
<1> QED BY <1>1, <1>2, <1>3, CompleteIsClient

LEMMA AbandonedIsJob ==
    ASSUME NEW b, IsJob(b), NEW result \in {"TIMEOUT", "CANCEL"}, NEW c,
           c = Complete(b.client, Every(b.client, result))
    PROVE  LET d == Abandoned(b, c)
           IN  /\ IsJob(d) /\ d.timeout = b.timeout /\ d.client.confirmed = b.client.confirmed
               /\ d.retryPeriod = b.retryPeriod
               /\ IF CanAbandon(b.client)
                  THEN d.client.state = "COMPLETE" /\ d.client.list[1].result \in Results
                  ELSE d = b
<1>1. CASE CanAbandon(b.client)
  <2>1. \A i \in 1..Len(b.client.list) : Every(b.client, result)[i] \in Results
    BY DEF Every, Results
  <2>2. /\ IsClient(c) /\ c.state = "COMPLETE" /\ c.confirmed = b.client.confirmed
        /\ c.list[1].result \in Results
    BY <1>1, <2>1, CompleteIsClient DEF IsJob, CanAbandon
  <2>3. Abandoned(b, c) = [b EXCEPT !.client = c]
    BY <1>1 DEF Abandoned
  <2> QED BY <1>1, <2>2, <2>3 DEF IsJob, JobRecords, IsClient
<1>2. CASE ~CanAbandon(b.client)
  BY <1>2 DEF Abandoned
<1> QED BY <1>1, <1>2

LEMMA OutputIsJob ==
    ASSUME NEW b, IsJob(b)
    PROVE  LET d == Output(b)
           IN  /\ IsJob(d) /\ d.client.confirmed = b.client.confirmed
               /\ d.client.state = (IF HasOutput(b) THEN "PENDING" ELSE b.client.state)
               /\ HasOutput(b) => b.client.state \in {"INIT", "PENDING", "SENT"}
<1> DEFINE c == IF HasOutput(b) THEN Pending(b.client) ELSE b.client
<1>1. /\ IsClient(c) /\ c.confirmed = b.client.confirmed
      /\ c.state = (IF HasOutput(b) THEN "PENDING" ELSE b.client.state)
  BY DEF IsJob, IsClient, ClientRecords, Pending, States, HasOutput, CanOutput
<1>2. HasOutput(b) => b.client.state \in {"INIT", "PENDING", "SENT"}
  BY DEF HasOutput, CanOutput
<1> HIDE DEF c
<1>3. Output(b) = [b EXCEPT !.client = c, !.timeout = Nil]
  BY DEF Output, c
<1> QED BY <1>1, <1>2, <1>3 DEF IsJob, JobRecords, IsClient

LEMMA NewIsJob ==
    ASSUME NEW j \in Jobs, NEW o \in Options
    PROVE  IsJob(New(j, o)) /\ New(j, o).client.state = "INIT"
           /\ New(j, o).client.confirmed = o.confirmed
<1>1. /\ o.confirmed \in BOOLEAN /\ o.retryPeriod \in Nat /\ o.retryMax \in Nat
  BY WrangleAssumption
<1> DEFINE c == NewClient(j, o.confirmed)
           len == (1 + InvocationLen(0)) % LEN_MOD
           i == Invocation(j, 0)
<1>2. len \in Nat
  BY ModuliAssumption DEF InvocationLen, SizeofVint
<1>3. i \in [method : Jobs, argLen : {0}, result : Results]
  BY DEF Invocation, Results, ServerResults
<1>4. c = [state |-> "INIT", list |-> <<i>>, listMax |-> 1, confirmed |-> o.confirmed,
           breakOnError |-> FALSE, reqLen |-> len, counter |-> 0]
  BY DEF NewClient, Initialised
<1> HIDE DEF len, i
<1>5. IsClient(c) /\ c.state = "INIT" /\ c.confirmed = o.confirmed
  BY <1>1, <1>2, <1>3, <1>4, ModuliAssumption DEF IsClient, ClientRecords, Lists, States
<1> HIDE DEF c
<1>6. New(j, o) = [client |-> c, timeout |-> Nil, retryPeriod |-> o.retryPeriod, retryMax |-> o.retryMax]
  BY DEF New, c
<1> QED BY <1>1, <1>5, <1>6 DEF IsJob, JobRecords, IsClient

-----------------------------------------------------------------------------
(* What the queues hold *)

JobItems ==
    [type : {"notifyTick"}]
    \cup [type : {"newJob"}, job : Jobs, opts : Options]
    \cup [type : {"notifyNotSent"}, job : Jobs]
    \cup [type : {"notifyPacked"}, job : Jobs, gen : 1..MaxCreated, counter : 1..MAX_COUNTER,
          time : 0..MaxTime]
    \cup [type : {"processMessage"}, counter : 0..(RES_MOD - 1), results : Responses,
          of : SUBSET Transmissions]

MessageItems ==
    [type : {"send"}, job : Jobs, empty : BOOLEAN]
    \cup [type : {"receive"}, answers : Transmissions, gen : 1..MaxCreated, results : Responses]
    \cup [type : {"request"}, gen : 0..MaxCreated, confirmed : BOOLEAN]
    \cup [type : {"stray"}, kind : Strays]

\* The items about a request j.
NewOf(j)     == {x \in JobItems : x.type = "newJob" /\ x.job = j}
NoticesOf(j) == {x \in JobItems : x.type \in {"notifyPacked", "notifyNotSent"} /\ x.job = j}
PackedOf(j)  == {x \in JobItems : x.type = "notifyPacked" /\ x.job = j}
SendsOf(j)   == {x \in MessageItems : x.type = "send" /\ x.job = j}
FullOf(j)    == {x \in MessageItems : x.type = "send" /\ x.job = j /\ ~x.empty}

\* The places of q that hold a member of X.
At(q, X) == {i \in DOMAIN q : q[i] \in X}
Unique(K) == \A i, k \in K : i = k

LEMMA TransmissionFields ==
    ASSUME NEW t \in Transmissions
    PROVE  /\ t.job \in Jobs /\ t.gen \in Nat /\ t.counter \in Nat
           /\ t.gen \in 1..MaxCreated /\ t.counter \in 1..MAX_COUNTER
  BY WrangleAssumption DEF Transmissions

LEMMA JobItemFields ==
    ASSUME NEW x \in JobItems
    PROVE  /\ x.type \in {"notifyTick", "newJob", "notifyNotSent", "notifyPacked", "processMessage"}
           /\ x.type = "newJob" => x.job \in Jobs /\ x.opts \in Options
           /\ x.type = "notifyNotSent" => x.job \in Jobs
           /\ x.type = "notifyPacked" =>
                /\ x.job \in Jobs /\ x.time \in Nat /\ x.time \in 0..MaxTime
                /\ x.gen \in Nat /\ x.counter \in Nat
                /\ x.gen \in 1..MaxCreated /\ x.counter \in 1..MAX_COUNTER
                /\ [job |-> x.job, gen |-> x.gen, counter |-> x.counter] \in Transmissions
           /\ x.type = "processMessage" =>
                /\ x.counter \in 0..(RES_MOD - 1) /\ x.results \in Responses
                /\ x.of \in SUBSET Transmissions
<1>1. CASE x \in [type : {"notifyPacked"}, job : Jobs, gen : 1..MaxCreated,
                  counter : 1..MAX_COUNTER, time : 0..MaxTime]
  <2>1. x.time \in Nat /\ x.gen \in Nat /\ x.counter \in Nat
    BY <1>1, WrangleAssumption
  <2> QED BY <1>1, <2>1 DEF Transmissions
<1>2. CASE ~(x \in [type : {"notifyPacked"}, job : Jobs, gen : 1..MaxCreated,
                    counter : 1..MAX_COUNTER, time : 0..MaxTime])
  BY <1>2 DEF JobItems
<1> QED BY <1>1, <1>2

LEMMA MessageItemFields ==
    ASSUME NEW x \in MessageItems
    PROVE  /\ x.type \in {"send", "receive", "request", "stray"}
           /\ x.type = "send" => x.job \in Jobs /\ x.empty \in BOOLEAN
           /\ x.type = "receive" => /\ x.answers \in Transmissions /\ x.results \in Responses
                                    /\ x.gen \in 1..MaxCreated
           /\ x.type = "stray" => x.kind \in Strays
           /\ x.type = "request" => x.gen \in 0..MaxCreated /\ x.confirmed \in BOOLEAN
  BY DEF MessageItems

LEMMA AtTail ==
    ASSUME NEW S, NEW q \in Seq(S), q # <<>>, NEW X
    PROVE  /\ At(Tail(q), X) # {} => At(q, X) # {}
           /\ Unique(At(q, X)) => Unique(At(Tail(q), X))
           /\ Head(q) \in X => At(q, X) # {} /\ (Unique(At(q, X)) => At(Tail(q), X) = {})
  BY TailPlaces DEF At, Unique

LEMMA AtAppend ==
    ASSUME NEW S, NEW q \in Seq(S), NEW x \in S, NEW X
    PROVE  /\ At(Append(q, x), X) # {} => At(q, X) # {} \/ x \in X
           /\ Unique(At(q, X)) /\ (x \in X => At(q, X) = {}) => Unique(At(Append(q, x), X))
           /\ At(q, X) # {} => At(Append(q, x), X) # {}
  BY AppendPlaces DEF At, Unique

LEMMA AtConcat ==
    ASSUME NEW S, NEW q \in Seq(S), NEW r \in Seq(S), NEW X
    PROVE  /\ At(q \o r, X) # {} => At(q, X) # {} \/ At(r, X) # {}
           /\ /\ Unique(At(q, X)) /\ Unique(At(r, X)) /\ (At(q, X) = {} \/ At(r, X) = {})
              => Unique(At(q \o r, X))
  BY ConcatPlaces DEF At, Unique

-----------------------------------------------------------------------------
(* The inductive invariant *)

OutcomeRecords == [result : Results, of : SUBSET Transmissions]

Sends(j)   == At(processMessageQueue, SendsOf(j))
Notices(j) == At(processJobQueue, NoticesOf(j))
News(j)    == At(processJobQueue, NewOf(j))
HasMessage(j) == Sends(j) # {} \/ Notices(j) # {}

\* A message with something to send is on its way, or its notice comes back.
Pends(j) == At(processMessageQueue, FullOf(j)) # {} \/ At(processJobQueue, PackedOf(j)) # {}

State(j) == job[j].client.state
IsListed(j) == \E i \in DOMAIN timeoutList : timeoutList[i] = j

Before(a, b) == a.gen < b.gen \/ (a.gen = b.gen /\ a.counter < b.counter)
Used(x, gen, counter) == x.gen < gen \/ (x.gen = gen /\ x.counter <= counter)
IsPacked(i) == processJobQueue[i].type = "notifyPacked"
Latest(j, t, sent) == t.job = j /\ \A u \in sent : u.job = j => u = t \/ Before(u, t)

Typed ==
    /\ running \in BOOLEAN /\ jobsIsArray \in BOOLEAN
    /\ threads \in [{"tick", "job", "worker"} -> {"none", "alive", "dead"}]
    /\ processJobQueue \in Seq(JobItems)
    /\ processMessageQueue \in Seq(MessageItems)
    /\ outputQueue \subseteq Transmissions /\ unpacked \subseteq outputQueue
    /\ DOMAIN jobs \subseteq 1..MAX_COUNTER /\ \A n \in DOMAIN jobs : jobs[n] \in Jobs
    /\ timeoutList \in Seq(Jobs)
    /\ job \in [Jobs -> JobRecords] /\ \A j \in Jobs : IsJob(job[j])
    /\ results \in [Jobs -> Seq(OutcomeRecords)]
    /\ now \in 0..MaxTime /\ created \in 1..MaxCreated /\ association \in {0, created}
    /\ association = 0 => created < MaxCreated
    /\ invocationCounter \in 0..MAX_COUNTER /\ crossed \in BOOLEAN
    /\ incoming \in 0..MaxIncoming /\ stops \in 0..MaxStops

\* What Typed says of the record in the database.
DbTyped ==
    /\ created \in 1..MaxCreated /\ association \in {0, created}
    /\ association = 0 => created < MaxCreated
    /\ invocationCounter \in 0..MAX_COUNTER /\ crossed \in BOOLEAN

\* An answer on its way answers a message that was sent.
Answers ==
    /\ \A i \in DOMAIN processMessageQueue :
          processMessageQueue[i].type = "receive" => processMessageQueue[i].answers \in outputQueue
    /\ \A i \in DOMAIN processJobQueue :
          processJobQueue[i].type = "processMessage" => processJobQueue[i].of \subseteq outputQueue

\* One message at a time is under way about a job, and none about a listed one.
Messages ==
    \A j \in Jobs :
        /\ Unique(Sends(j)) /\ Unique(Notices(j)) /\ Unique(News(j))
        /\ Sends(j) = {} \/ Notices(j) = {}
        /\ HasMessage(j) => ~IsListed(j) /\ State(j) # "UNUSED"
        /\ News(j) # {} => State(j) = "UNUSED"

\* A job is listed once, and a listed job is not among the preJobs.
Listings ==
    /\ preJobs \subseteq ids /\ ids \subseteq Jobs
    /\ \A i, k \in DOMAIN timeoutList : timeoutList[i] = timeoutList[k] => i = k
    /\ \A j \in Jobs : IsListed(j) => j \in ids /\ j \notin preJobs /\ State(j) # "UNUSED"

\* While a message is on its way its job takes no answer.
Waits ==
    \A j \in Jobs :
        /\ results[j] # <<>> => State(j) = "COMPLETE"
        /\ Pends(j) => /\ State(j) \in {"PENDING", "COMPLETE"}
                       /\ \A i \in DOMAIN results[j] : results[j][i].of = {}

\* Counters are taken in order, and messages are handed over in that order.
Counted ==
    /\ \A i \in DOMAIN processJobQueue : IsPacked(i) => Used(processJobQueue[i], created, invocationCounter)
    /\ \A i, k \in DOMAIN processJobQueue : i < k /\ IsPacked(i) /\ IsPacked(k) =>
           Before(processJobQueue[i], processJobQueue[k])
    /\ \A t \in outputQueue :
           /\ Used(t, created, invocationCounter)
           /\ \A i \in DOMAIN processJobQueue : IsPacked(i) => Before(t, processJobQueue[i])
    /\ \A t, u \in outputQueue : t.gen = u.gen /\ t.counter = u.counter => t = u

\* An accepted answer is acted on before any message of a later creation.
Accepted ==
    \A i \in DOMAIN processJobQueue : processJobQueue[i].type = "processMessage" =>
        \E s \in outputQueue :
            /\ processJobQueue[i].of = {s}
            /\ processJobQueue[i].counter = s.counter % RES_MOD
            /\ \A t \in outputQueue : t.gen <= s.gen
            /\ \A k \in DOMAIN processJobQueue : k < i /\ IsPacked(k) =>
                   processJobQueue[k].gen <= s.gen

\* A counter leads to the job of the last message that had it, and a job that
\* waits for the answer to it has sent nothing since.
Routes ==
    /\ jobsIsArray => DOMAIN jobs = {}
    /\ \A n \in DOMAIN jobs :
          /\ \E t \in outputQueue :
                t.job = jobs[n] /\ t.counter = n /\ \A u \in outputQueue : u.counter = n => u.gen <= t.gen
          /\ State(jobs[n]) = "SENT" /\ job[jobs[n]].client.counter = n
                => \E t \in outputQueue : Latest(jobs[n], t, outputQueue) /\ t.counter = n

Own ==
    \A j \in Jobs : \A i \in DOMAIN results[j] : \A s \in results[j][i].of : Latest(j, s, outputQueue)

Books == Typed /\ Answers /\ Messages /\ Listings /\ Waits /\ TimeoutsInOrder
Order == Counted /\ Accepted /\ Routes /\ Own

-----------------------------------------------------------------------------
(* The books *)

LEMMA BooksInit == Init => Books
<1> SUFFICES ASSUME Init PROVE Books
  OBVIOUS
<1>1. /\ processJobQueue = <<>> /\ processMessageQueue = <<>> /\ timeoutList = <<>>
      /\ \A X : At(<<>>, X) = {}
  BY DEF Init, At
<1>2. \A j \in Jobs : job[j] = NoJob /\ results[j] = <<>>
  BY DEF Init
<1>3. Typed
  <2>1. job \in [Jobs -> JobRecords] /\ \A j \in Jobs : IsJob(job[j])
    BY NoJobIsJob DEF Init, IsJob
  <2>2. DOMAIN jobs = {} /\ outputQueue = {} /\ unpacked = {}
    BY DEF Init
  <2>3. threads \in [{"tick", "job", "worker"} -> {"none", "alive", "dead"}]
    BY DEF Init
  <2>4. 1 \in 1..MaxCreated /\ 0 \in 0..MaxTime /\ 0 \in 0..MAX_COUNTER /\ 0 \in 0..MaxIncoming
        /\ 0 \in 0..MaxStops
    BY WrangleAssumption
  <2>5. results \in [Jobs -> Seq(OutcomeRecords)]
    BY DEF Init
  <2>6. /\ processJobQueue \in Seq(JobItems) /\ processMessageQueue \in Seq(MessageItems)
        /\ timeoutList \in Seq(Jobs)
    BY <1>1
  <2>7. /\ running \in BOOLEAN /\ jobsIsArray \in BOOLEAN
        /\ now \in 0..MaxTime /\ created \in 1..MaxCreated /\ association \in {0, created}
        /\ association = 0 => created < MaxCreated
        /\ invocationCounter \in 0..MAX_COUNTER /\ crossed \in BOOLEAN
        /\ incoming \in 0..MaxIncoming /\ stops \in 0..MaxStops
    <3>1. running \in BOOLEAN /\ jobsIsArray \in BOOLEAN /\ crossed \in BOOLEAN
      BY DEF Init
    <3>2. /\ now = 0 /\ created = 1 /\ association = 1
          /\ invocationCounter = 0 /\ incoming = 0 /\ stops = 0
      BY DEF Init
    <3> QED BY <2>4, <3>1, <3>2
  <2>8. /\ outputQueue \subseteq Transmissions /\ unpacked \subseteq outputQueue
        /\ DOMAIN jobs \subseteq 1..MAX_COUNTER /\ \A n \in DOMAIN jobs : jobs[n] \in Jobs
    BY <2>2
  <2> QED BY <2>1, <2>3, <2>5, <2>6, <2>7, <2>8 DEF Typed
<1>4. Answers
  BY <1>1 DEF Answers
<1>5. Messages
  <2>1. Unique({})
    BY DEF Unique
  <2>2. \A j : Sends(j) = {} /\ Notices(j) = {} /\ News(j) = {}
    BY <1>1 DEF Sends, Notices, News
  <2> QED BY <2>1, <2>2 DEF Messages, HasMessage
<1>6. Listings
  BY <1>1 DEF Init, Listings, IsListed
<1>7. Waits
  BY <1>1, <1>2 DEF Waits, Pends
<1>8. TimeoutsInOrder
  BY <1>1 DEF TimeoutsInOrder
<1> QED BY <1>3, <1>4, <1>5, <1>6, <1>7, <1>8 DEF Books

\* What does not touch the queues, the jobs and the list keeps the books on them.
LEMMA BooksUnchanged ==
    ASSUME Books, Typed',
           processJobQueue' = processJobQueue, processMessageQueue' = processMessageQueue,
           outputQueue' = outputQueue, job' = job, results' = results, ids' = ids,
           \/ timeoutList' = timeoutList /\ preJobs' = preJobs
           \/ timeoutList' = <<>> /\ preJobs' = {}
    PROVE  Books'
<1>1. Answers'
  BY DEF Books, Answers
<1>2. timeoutList' = timeoutList \/ (\A j : ~IsListed(j)')
  BY DEF IsListed
<1>3. Messages'
  BY <1>2 DEF Books, Messages, Sends, Notices, News, HasMessage, State, IsListed
<1>4. Listings'
  <2>1. preJobs' \subseteq ids' /\ ids' \subseteq Jobs
    BY DEF Books, Listings
  <2>2. \A i, k \in DOMAIN timeoutList' : timeoutList'[i] = timeoutList'[k] => i = k
    BY DEF Books, Listings
  <2>3. ASSUME NEW j \in Jobs, IsListed(j)' PROVE j \in ids' /\ j \notin preJobs' /\ State(j)' # "UNUSED"
    BY <1>2, <2>3 DEF Books, Listings, IsListed, State
  <2> QED BY <2>1, <2>2, <2>3 DEF Listings
<1>5. Waits'
  BY DEF Books, Waits, Pends, State
<1>6. TimeoutsInOrder'
  BY DEF Books, TimeoutsInOrder
<1> QED BY <1>1, <1>3, <1>4, <1>5, <1>6 DEF Books

LEMMA BooksEnvironment ==
    ASSUME Books, Start \/ Stop \/ Pass \/ Delete \/ Create
    PROVE  Books'
<1>1. Typed'
  <2>1. CASE Start
    BY <2>1 DEF Books, Typed, Start, peerVars, dbVars
  <2>2. CASE Stop
    <3>1. stops' \in 0..MaxStops
      BY <2>2, WrangleAssumption DEF Books, Typed, Stop
    <3>2. threads' \in [{"tick", "job", "worker"} -> {"none", "alive", "dead"}]
      BY <2>2 DEF Books, Typed, Stop
    <3>3. timeoutList' \in Seq(Jobs)
      <4>1. timeoutList \in Seq(Jobs) /\ <<>> \in Seq(Jobs)
        BY DEF Books, Typed
      <4>2. timeoutList' = timeoutList \/ timeoutList' = <<>>
        BY <2>2 DEF Stop
      <4> QED BY <4>1, <4>2
    <3> QED BY <2>2, <3>1, <3>2, <3>3 DEF Books, Typed, Stop, peerVars, dbVars
  <2>3. CASE Pass
    <3>1. now' \in 0..MaxTime
      BY <2>3, WrangleAssumption DEF Books, Typed, Pass
    <3> QED BY <2>3, <3>1 DEF Books, Typed, Pass, peerVars, dbVars
  <2>4. CASE Delete
    <3>1. association' = 0 /\ created < MaxCreated
      BY <2>4 DEF Delete
    <3> QED BY <2>4, <3>1 DEF Books, Typed, Delete, peerVars, dbVars
  <2>5. CASE Create
    <3>1. created' \in 1..MaxCreated /\ association' = created' /\ association' # 0
      BY <2>5, WrangleAssumption DEF Books, Typed, Create
    <3>2. invocationCounter' \in 0..MAX_COUNTER
      BY <2>5, WrangleAssumption DEF Create
    <3> QED BY <2>5, <3>1, <3>2 DEF Books, Typed, Create, peerVars, dbVars
  <2> QED BY <2>1, <2>2, <2>3, <2>4, <2>5
<1>2. /\ processJobQueue' = processJobQueue /\ processMessageQueue' = processMessageQueue
      /\ outputQueue' = outputQueue /\ job' = job /\ results' = results /\ ids' = ids
      /\ \/ timeoutList' = timeoutList /\ preJobs' = preJobs
         \/ timeoutList' = <<>> /\ preJobs' = {}
  BY DEF Start, Stop, Pass, Delete, Create, peerVars, dbVars
<1> QED BY <1>1, <1>2, BooksUnchanged

-----------------------------------------------------------------------------
(* What a step does to the items about one request *)

LEMMA JobQueueTail ==
    ASSUME Typed, processJobQueue # <<>>, processJobQueue' = Tail(processJobQueue), NEW k \in Jobs,
           Unique(Notices(k)), Unique(News(k))
    PROVE  /\ Unique(Notices(k)') /\ Unique(News(k)')
           /\ Notices(k)' # {} => Notices(k) # {}
           /\ News(k)' # {} => News(k) # {}
           /\ At(processJobQueue', PackedOf(k)) # {} => At(processJobQueue, PackedOf(k)) # {}
           /\ Head(processJobQueue) \in NoticesOf(k) => Notices(k) # {} /\ Notices(k)' = {}
           /\ Head(processJobQueue) \in NewOf(k) => News(k) # {} /\ News(k)' = {}
<1>1. processJobQueue \in Seq(JobItems)
  BY DEF Typed
<1> QED BY <1>1, AtTail DEF Notices, News

LEMMA JobQueueAppend ==
    ASSUME Typed, NEW x \in JobItems, processJobQueue' = Append(processJobQueue, x), NEW k \in Jobs,
           Unique(Notices(k)), Unique(News(k)),
           x \in NoticesOf(k) => Notices(k) = {}, x \in NewOf(k) => News(k) = {}
    PROVE  /\ Unique(Notices(k)') /\ Unique(News(k)')
           /\ Notices(k)' # {} => Notices(k) # {} \/ x \in NoticesOf(k)
           /\ News(k)' # {} => News(k) # {} \/ x \in NewOf(k)
           /\ At(processJobQueue', PackedOf(k)) # {} =>
                  At(processJobQueue, PackedOf(k)) # {} \/ x \in PackedOf(k)
<1>1. processJobQueue \in Seq(JobItems)
  BY DEF Typed
<1> QED BY <1>1, AtAppend DEF Notices, News

LEMMA MessageQueueTail ==
    ASSUME Typed, processMessageQueue # <<>>, processMessageQueue' = Tail(processMessageQueue),
           NEW k \in Jobs, Unique(Sends(k))
    PROVE  /\ Unique(Sends(k)')
           /\ Sends(k)' # {} => Sends(k) # {}
           /\ At(processMessageQueue', FullOf(k)) # {} => At(processMessageQueue, FullOf(k)) # {}
           /\ Head(processMessageQueue) \in SendsOf(k) => Sends(k) # {} /\ Sends(k)' = {}
           /\ Head(processMessageQueue) \in FullOf(k) => At(processMessageQueue, FullOf(k)) # {}
<1>1. processMessageQueue \in Seq(MessageItems)
  BY DEF Typed
<1> QED BY <1>1, AtTail DEF Sends

LEMMA MessageQueueAppend ==
    ASSUME Typed, NEW x \in MessageItems, processMessageQueue' = Append(processMessageQueue, x),
           NEW k \in Jobs, Unique(Sends(k)), x \in SendsOf(k) => Sends(k) = {}
    PROVE  /\ Unique(Sends(k)')
           /\ Sends(k)' # {} => Sends(k) # {} \/ x \in SendsOf(k)
           /\ At(processMessageQueue', FullOf(k)) # {} =>
                  At(processMessageQueue, FullOf(k)) # {} \/ x \in FullOf(k)
<1>1. processMessageQueue \in Seq(MessageItems)
  BY DEF Typed
<1> QED BY <1>1, AtAppend DEF Sends

\* A step that only moves messages.
LEMMA BooksQueues ==
    ASSUME Books, Typed', Answers',
           outputQueue' = outputQueue, job' = job, results' = results, ids' = ids,
           timeoutList' = timeoutList, preJobs' = preJobs,
           \A k \in Jobs :
               /\ Unique(Sends(k)') /\ Unique(Notices(k)') /\ Unique(News(k)')
               /\ Sends(k)' = {} \/ Notices(k)' = {}
               /\ HasMessage(k)' => HasMessage(k)
               /\ Pends(k)' => Pends(k)
               /\ News(k)' # {} => State(k) = "UNUSED"
    PROVE  Books'
<1>1. \A k \in Jobs : IsListed(k)' = IsListed(k) /\ State(k)' = State(k)
  BY DEF IsListed, State
<1>2. Messages'
  <2> SUFFICES ASSUME NEW k \in Jobs
               PROVE  /\ Unique(Sends(k)') /\ Unique(Notices(k)') /\ Unique(News(k)')
                      /\ Sends(k)' = {} \/ Notices(k)' = {}
                      /\ HasMessage(k)' => ~IsListed(k)' /\ State(k)' # "UNUSED"
                      /\ News(k)' # {} => State(k)' = "UNUSED"
    BY DEF Messages
  <2> QED BY <1>1 DEF Books, Messages
<1>3. Listings'
  BY DEF Books, Listings, IsListed, State
<1>4. Waits'
  <2> SUFFICES ASSUME NEW k \in Jobs
               PROVE  /\ results'[k] # <<>> => State(k)' = "COMPLETE"
                      /\ Pends(k)' => /\ State(k)' \in {"PENDING", "COMPLETE"}
                                      /\ \A i \in DOMAIN results'[k] : results'[k][i].of = {}
    BY DEF Waits
  <2> QED BY <1>1 DEF Books, Waits
<1>5. TimeoutsInOrder'
  BY DEF Books, TimeoutsInOrder
<1> QED BY <1>2, <1>3, <1>4, <1>5 DEF Books

-----------------------------------------------------------------------------
(* The steps that only move messages *)

LEMMA BooksRequest ==
    ASSUME Books, NEW j \in Jobs, Request(j)
    PROVE  Books'
<1>1. PICK o \in Options : processJobQueue' = Append(processJobQueue, [type |-> "newJob", job |-> j, opts |-> o])
  BY DEF Request
<1> DEFINE x == [type |-> "newJob", job |-> j, opts |-> o]
<1>2. x \in JobItems /\ x.type = "newJob" /\ x.job = j
  BY DEF JobItems
<1> HIDE DEF x
<1>3. /\ processMessageQueue' = processMessageQueue
      /\ outputQueue' = outputQueue /\ job' = job /\ results' = results /\ ids' = ids
      /\ timeoutList' = timeoutList /\ preJobs' = preJobs /\ jobs' = jobs
      /\ processJobQueue' = Append(processJobQueue, x)
  BY <1>1 DEF Request, peerVars, x
<1>4. processJobQueue \in Seq(JobItems) /\ processJobQueue' \in Seq(JobItems)
  <2>1. processJobQueue \in Seq(JobItems)
    BY DEF Books, Typed
  <2> QED BY <1>2, <1>3, <2>1, AppendPlaces
<1>5. Typed'
  BY <1>3, <1>4 DEF Books, Typed, Request, dbVars
<1>6. Answers'
  BY <1>2, <1>3, <1>4, AppendPlaces DEF Books, Answers
<1>7. News(j) = {} /\ State(j) = "UNUSED"
  BY NoJobIsJob DEF Request, Asked, News, At, NewOf, State
<1>8. ASSUME NEW k \in Jobs
      PROVE  /\ Unique(Sends(k)') /\ Unique(Notices(k)') /\ Unique(News(k)')
             /\ Sends(k)' = {} \/ Notices(k)' = {}
             /\ HasMessage(k)' => HasMessage(k)
             /\ Pends(k)' => Pends(k)
             /\ News(k)' # {} => State(k) = "UNUSED"
  <2>1. /\ x \notin NoticesOf(k) /\ x \notin PackedOf(k) /\ (x \in NewOf(k) => k = j)
    BY <1>2 DEF NoticesOf, PackedOf, NewOf
  <2>2. /\ Unique(Sends(k)) /\ Unique(Notices(k)) /\ Unique(News(k))
        /\ Sends(k) = {} \/ Notices(k) = {}
        /\ News(k) # {} => State(k) = "UNUSED"
    BY DEF Books, Messages
  <2>3. Typed
    BY DEF Books
  <2>4. /\ Unique(Notices(k)') /\ Unique(News(k)')
        /\ Notices(k)' # {} => Notices(k) # {} \/ x \in NoticesOf(k)
        /\ News(k)' # {} => News(k) # {} \/ x \in NewOf(k)
        /\ At(processJobQueue', PackedOf(k)) # {} =>
               At(processJobQueue, PackedOf(k)) # {} \/ x \in PackedOf(k)
    BY <1>2, <1>3, <1>7, <2>1, <2>2, <2>3, JobQueueAppend
  <2>5. Sends(k)' = Sends(k) /\ At(processMessageQueue', FullOf(k)) = At(processMessageQueue, FullOf(k))
    BY <1>3 DEF Sends
  <2> QED BY <1>7, <2>1, <2>2, <2>4, <2>5 DEF HasMessage, Pends
<1> QED BY <1>3, <1>5, <1>6, <1>8, BooksQueues

LEMMA BooksProcessTick ==
    ASSUME Books, ProcessTick
    PROVE  Books'
<1> DEFINE x == [type |-> "notifyTick"]
<1>1. x \in JobItems /\ x.type = "notifyTick"
  BY DEF JobItems
<1> HIDE DEF x
<1>2. /\ processMessageQueue' = processMessageQueue
      /\ outputQueue' = outputQueue /\ job' = job /\ results' = results /\ ids' = ids
      /\ timeoutList' = timeoutList /\ preJobs' = preJobs /\ jobs' = jobs
      /\ processJobQueue' = Append(processJobQueue, x)
  BY DEF ProcessTick, peerVars, x
<1>3. processJobQueue \in Seq(JobItems) /\ processJobQueue' \in Seq(JobItems)
  <2>1. processJobQueue \in Seq(JobItems)
    BY DEF Books, Typed
  <2> QED BY <1>1, <1>2, <2>1, AppendPlaces
<1>4. Typed'
  BY <1>2, <1>3 DEF Books, Typed, ProcessTick, dbVars
<1>5. Answers'
  BY <1>1, <1>2, <1>3, AppendPlaces DEF Books, Answers
<1>6. ASSUME NEW k \in Jobs
      PROVE  /\ Unique(Sends(k)') /\ Unique(Notices(k)') /\ Unique(News(k)')
             /\ Sends(k)' = {} \/ Notices(k)' = {}
             /\ HasMessage(k)' => HasMessage(k)
             /\ Pends(k)' => Pends(k)
             /\ News(k)' # {} => State(k) = "UNUSED"
  <2>1. x \notin NoticesOf(k) /\ x \notin PackedOf(k) /\ x \notin NewOf(k)
    BY <1>1 DEF NoticesOf, PackedOf, NewOf
  <2>2. /\ Unique(Sends(k)) /\ Unique(Notices(k)) /\ Unique(News(k))
        /\ Sends(k) = {} \/ Notices(k) = {}
        /\ News(k) # {} => State(k) = "UNUSED"
    BY DEF Books, Messages
  <2>3. Typed
    BY DEF Books
  <2>4. /\ Unique(Notices(k)') /\ Unique(News(k)')
        /\ Notices(k)' # {} => Notices(k) # {} \/ x \in NoticesOf(k)
        /\ News(k)' # {} => News(k) # {} \/ x \in NewOf(k)
        /\ At(processJobQueue', PackedOf(k)) # {} =>
               At(processJobQueue, PackedOf(k)) # {} \/ x \in PackedOf(k)
    BY <1>1, <1>2, <2>1, <2>2, <2>3, JobQueueAppend
  <2>5. Sends(k)' = Sends(k) /\ At(processMessageQueue', FullOf(k)) = At(processMessageQueue, FullOf(k))
    BY <1>2 DEF Sends
  <2> QED BY <2>1, <2>2, <2>4, <2>5 DEF HasMessage, Pends
<1> QED BY <1>2, <1>4, <1>5, <1>6, BooksQueues

\* A datagram that arrives is an answer to a message that was sent, a request of
\* the remote peer, or any other.
LEMMA InputItem ==
    ASSUME Typed, Input
    PROVE  \E x \in MessageItems :
              /\ processMessageQueue' = Append(processMessageQueue, x)
              /\ x.type \in {"receive", "request", "stray"}
              /\ x.type = "receive" => x.answers \in outputQueue
              /\ x.type = "request" => incoming < MaxIncoming /\ x.confirmed \in Incoming
<1>1. CASE \E s \in outputQueue, res \in Responses : \E n \in s.gen..created :
            processMessageQueue' = Append(processMessageQueue,
                   [type |-> "receive", answers |-> s, gen |-> n, results |-> res])
  <2>1. PICK s \in outputQueue, res \in Responses : \E n \in s.gen..created :
            processMessageQueue' = Append(processMessageQueue,
                   [type |-> "receive", answers |-> s, gen |-> n, results |-> res])
    BY <1>1
  <2>2. PICK n \in s.gen..created :
            processMessageQueue' = Append(processMessageQueue,
                   [type |-> "receive", answers |-> s, gen |-> n, results |-> res])
    BY <2>1
  <2>3. s \in Transmissions /\ n \in 1..MaxCreated
    <3>1. s \in Transmissions
      BY DEF Typed
    <3>2. s.gen \in 1..MaxCreated /\ created \in 1..MaxCreated
      BY <3>1, TransmissionFields DEF Typed
    <3> QED BY <3>1, <3>2, WrangleAssumption
  <2> DEFINE y == [type |-> "receive", answers |-> s, gen |-> n, results |-> res]
  <2>4. y \in MessageItems /\ y.type = "receive" /\ y.answers = s
    BY <2>3 DEF MessageItems
  <2> HIDE DEF y
  <2>5. processMessageQueue' = Append(processMessageQueue, y)
    BY <2>2 DEF y
  <2> QED BY <2>4, <2>5
<1>2. CASE \E c \in Incoming :
            /\ incoming < MaxIncoming
            /\ processMessageQueue' = Append(processMessageQueue,
                   [type |-> "request", gen |-> association, confirmed |-> c])
  <2>1. PICK c \in Incoming :
            incoming < MaxIncoming /\ processMessageQueue' = Append(processMessageQueue,
                   [type |-> "request", gen |-> association, confirmed |-> c])
    BY <1>2
  <2>2. association \in 0..MaxCreated /\ c \in BOOLEAN
    BY WrangleAssumption DEF Typed
  <2> DEFINE y == [type |-> "request", gen |-> association, confirmed |-> c]
  <2>3. y \in MessageItems /\ y.type = "request" /\ y.confirmed = c
    BY <2>2 DEF MessageItems
  <2> HIDE DEF y
  <2>4. processMessageQueue' = Append(processMessageQueue, y)
    BY <2>1 DEF y
  <2> QED BY <2>1, <2>3, <2>4
<1>3. CASE \E k \in Strays :
            processMessageQueue' = Append(processMessageQueue, [type |-> "stray", kind |-> k])
  <2>1. PICK k \in Strays :
            processMessageQueue' = Append(processMessageQueue, [type |-> "stray", kind |-> k])
    BY <1>3
  <2> DEFINE y == [type |-> "stray", kind |-> k]
  <2>2. y \in MessageItems /\ y.type = "stray"
    BY DEF MessageItems
  <2> HIDE DEF y
  <2>3. processMessageQueue' = Append(processMessageQueue, y)
    BY <2>1 DEF y
  <2> QED BY <2>2, <2>3
<1> QED BY <1>1, <1>2, <1>3 DEF Input

LEMMA BooksInput ==
    ASSUME Books, Input
    PROVE  Books'
<1>1. PICK x \in MessageItems :
              /\ processMessageQueue' = Append(processMessageQueue, x)
              /\ x.type \in {"receive", "request", "stray"}
              /\ x.type = "receive" => x.answers \in outputQueue
  BY InputItem DEF Books
<1>2. /\ processJobQueue' = processJobQueue
      /\ outputQueue' = outputQueue /\ job' = job /\ results' = results /\ ids' = ids
      /\ timeoutList' = timeoutList /\ preJobs' = preJobs /\ jobs' = jobs
  BY DEF Input, peerVars
<1>3. processMessageQueue \in Seq(MessageItems) /\ processMessageQueue' \in Seq(MessageItems)
  <2>1. processMessageQueue \in Seq(MessageItems)
    BY DEF Books, Typed
  <2> QED BY <1>1, <2>1, AppendPlaces
<1>4. Typed'
  <2>1. incoming' \in 0..MaxIncoming
    <3>1. incoming' = incoming \/ (incoming < MaxIncoming /\ incoming' = incoming + 1)
      BY DEF Input
    <3>2. incoming \in 0..MaxIncoming /\ MaxIncoming \in Nat
      BY WrangleAssumption DEF Books, Typed
    <3> QED BY <3>1, <3>2
  <2> QED BY <1>2, <1>3, <2>1 DEF Books, Typed, Input, dbVars
<1>5. Answers'
  BY <1>1, <1>2, <1>3, AppendPlaces DEF Books, Answers
<1>6. ASSUME NEW k \in Jobs
      PROVE  /\ Unique(Sends(k)') /\ Unique(Notices(k)') /\ Unique(News(k)')
             /\ Sends(k)' = {} \/ Notices(k)' = {}
             /\ HasMessage(k)' => HasMessage(k)
             /\ Pends(k)' => Pends(k)
             /\ News(k)' # {} => State(k) = "UNUSED"
  <2>1. x \notin SendsOf(k) /\ x \notin FullOf(k)
    BY <1>1 DEF SendsOf, FullOf
  <2>2. /\ Unique(Sends(k)) /\ Unique(Notices(k)) /\ Unique(News(k))
        /\ Sends(k) = {} \/ Notices(k) = {}
        /\ News(k) # {} => State(k) = "UNUSED"
    BY DEF Books, Messages
  <2>3. Typed
    BY DEF Books
  <2>4. /\ Unique(Sends(k)')
        /\ Sends(k)' # {} => Sends(k) # {} \/ x \in SendsOf(k)
        /\ At(processMessageQueue', FullOf(k)) # {} =>
               At(processMessageQueue, FullOf(k)) # {} \/ x \in FullOf(k)
    BY <1>1, <2>1, <2>2, <2>3, MessageQueueAppend
  <2>5. /\ Notices(k)' = Notices(k) /\ News(k)' = News(k)
        /\ At(processJobQueue', PackedOf(k)) = At(processJobQueue, PackedOf(k))
    BY <1>2 DEF Notices, News
  <2> QED BY <2>1, <2>2, <2>4, <2>5 DEF HasMessage, Pends
<1> QED BY <1>2, <1>4, <1>5, <1>6, BooksQueues

LEMMA BooksMissingPreJob ==
    ASSUME Books, NEW type, MissingPreJob(type)
    PROVE  Books'
<1>1. processJobQueue # <<>> /\ processJobQueue' = Tail(processJobQueue)
  BY DEF MissingPreJob, TakeJob
<1>2. /\ processMessageQueue' = processMessageQueue
      /\ outputQueue' = outputQueue /\ job' = job /\ results' = results /\ ids' = ids
      /\ timeoutList' = timeoutList /\ preJobs' = preJobs /\ jobs' = jobs
  BY DEF MissingPreJob, TakeJob, peerVars
<1>3. processJobQueue \in Seq(JobItems) /\ processJobQueue' \in Seq(JobItems)
  <2>1. processJobQueue \in Seq(JobItems)
    BY DEF Books, Typed
  <2> QED BY <1>1, <2>1, TailPlaces
<1>4. Typed'
  <2>1. threads' \in [{"tick", "job", "worker"} -> {"none", "alive", "dead"}]
    BY DEF Books, Typed, MissingPreJob, JobThreadDies
  <2> QED BY <1>2, <1>3, <2>1 DEF Books, Typed, MissingPreJob, TakeJob, dbVars
<1>5. Answers'
  BY <1>1, <1>2, <1>3, TailPlaces DEF Books, Answers
<1>6. ASSUME NEW k \in Jobs
      PROVE  /\ Unique(Sends(k)') /\ Unique(Notices(k)') /\ Unique(News(k)')
             /\ Sends(k)' = {} \/ Notices(k)' = {}
             /\ HasMessage(k)' => HasMessage(k)
             /\ Pends(k)' => Pends(k)
             /\ News(k)' # {} => State(k) = "UNUSED"
  <2>1. /\ Unique(Sends(k)) /\ Unique(Notices(k)) /\ Unique(News(k))
        /\ Sends(k) = {} \/ Notices(k) = {}
        /\ News(k) # {} => State(k) = "UNUSED"
    BY DEF Books, Messages
  <2>2. Typed
    BY DEF Books
  <2>3. /\ Unique(Notices(k)') /\ Unique(News(k)')
        /\ Notices(k)' # {} => Notices(k) # {}
        /\ News(k)' # {} => News(k) # {}
        /\ At(processJobQueue', PackedOf(k)) # {} => At(processJobQueue, PackedOf(k)) # {}
    BY <1>1, <2>1, <2>2, JobQueueTail
  <2>4. Sends(k)' = Sends(k) /\ At(processMessageQueue', FullOf(k)) = At(processMessageQueue, FullOf(k))
    BY <1>2 DEF Sends
  <2> QED BY <2>1, <2>3, <2>4 DEF HasMessage, Pends
<1> QED BY <1>2, <1>4, <1>5, <1>6, BooksQueues

\* A record that was created again is there.
LEMMA RecreatedFacts ==
    ASSUME Typed, NEW c, Recreated(c)
    PROVE  /\ created' \in 1..MaxCreated /\ association' = created' /\ association' # 0
           /\ association # 0 /\ created < created' /\ invocationCounter' = c
  BY WrangleAssumption DEF Typed, Recreated

\* What the worker leaves in the database.
LEMMA DbPack ==
    ASSUME Typed, Pack
    PROVE  DbTyped'
<1>1. /\ created \in 1..MaxCreated /\ association \in {0, created}
      /\ association = 0 => created < MaxCreated
      /\ invocationCounter \in 0..MAX_COUNTER /\ crossed \in BOOLEAN /\ MAX_COUNTER \in Nat
  BY WrangleAssumption DEF Typed
<1>2. crossed' \in BOOLEAN
  BY <1>1 DEF Pack, Send, Receive, ReceiveRequest, ReceiveStray, SendAcross, ReceiveAcross,
              ReceiveRequestAcross, Accept
<1>3. CASE Steadily
  <2>1. created' = created /\ association' = association
    BY <1>3 DEF Steadily
  <2>2. \/ invocationCounter' = invocationCounter
        \/ invocationCounter < MAX_COUNTER /\ invocationCounter' = invocationCounter + 1
        \/ SendAcross \/ ReceiveAcross \/ ReceiveRequestAcross
    BY DEF Pack, Send, Receive, ReceiveRequest, ReceiveStray, Packs
  <2>3. ~Recreated(0) /\ ~Recreated(1)
    BY <1>1, <2>1, RecreatedFacts
  <2>4. invocationCounter' \in 0..MAX_COUNTER
    BY <1>1, <2>2, <2>3 DEF SendAcross, ReceiveAcross, ReceiveRequestAcross
  <2> QED BY <1>1, <1>2, <2>1, <2>4 DEF DbTyped
<1>4. ASSUME NEW c \in 0..MAX_COUNTER, Recreated(c) PROVE DbTyped'
  BY <1>2, <1>4, RecreatedFacts DEF DbTyped
<1>5. CASE association' = 0 /\ created < MaxCreated /\ created' = created
           /\ invocationCounter' = invocationCounter
  BY <1>1, <1>2, <1>5 DEF DbTyped
<1>6. \/ Steadily \/ Recreated(0) \/ (MAX_COUNTER > 0 /\ Recreated(1))
      \/ /\ association' = 0 /\ created < MaxCreated /\ created' = created
         /\ invocationCounter' = invocationCounter
  BY DEF Pack, Send, Receive, ReceiveRequest, ReceiveStray, SendAcross, ReceiveAcross,
         ReceiveRequestAcross
<1> QED BY <1>1, <1>3, <1>4, <1>5, <1>6

\* The worker packs a message that has something to send, if there is a counter
\* for it, and gives notice of it either way.
LEMMA SendItem ==
    ASSUME Typed, Send \/ SendAcross
    PROVE  LET item == Head(processMessageQueue)
           IN  /\ processMessageQueue # <<>> /\ processMessageQueue' = Tail(processMessageQueue)
               /\ item \in MessageItems /\ item.type = "send" /\ item.job \in Jobs
               /\ item.empty \in BOOLEAN /\ item \in SendsOf(item.job)
               /\ ~item.empty => item \in FullOf(item.job)
               /\ threads' \in [{"tick", "job", "worker"} -> {"none", "alive", "dead"}]
               /\ \/ association = 0 /\ processJobQueue' = processJobQueue
                  \/ /\ threads' = threads
                     /\ \E x \in JobItems :
                           /\ processJobQueue' = Append(processJobQueue, x)
                           /\ x.type \in {"notifyPacked", "notifyNotSent"} /\ x.job = item.job
                           /\ x.type = "notifyPacked" => ~item.empty
<1> DEFINE item == Head(processMessageQueue)
<1>1. /\ processMessageQueue # <<>> /\ processMessageQueue' = Tail(processMessageQueue)
      /\ item \in MessageItems /\ item.type = "send" /\ item.job \in Jobs /\ item.empty \in BOOLEAN
      /\ item \in SendsOf(item.job) /\ (~item.empty => item \in FullOf(item.job))
  <2>1. processMessageQueue # <<>> /\ processMessageQueue' = Tail(processMessageQueue) /\ item.type = "send"
    BY DEF Send, SendAcross, TakeMessage
  <2>2. item \in MessageItems
    BY <2>1, TailPlaces DEF Typed
  <2> HIDE DEF item
  <2>3. item.job \in Jobs /\ item.empty \in BOOLEAN
    BY <2>1, <2>2, MessageItemFields
  <2> QED BY <2>1, <2>2, <2>3 DEF SendsOf, FullOf
<1>2. /\ threads' \in [{"tick", "job", "worker"} -> {"none", "alive", "dead"}]
      /\ \/ association = 0 /\ processJobQueue' = processJobQueue
         \/ /\ threads' = threads
            /\ \E x \in JobItems :
                  /\ processJobQueue' = Append(processJobQueue, x)
                  /\ x.type \in {"notifyPacked", "notifyNotSent"} /\ x.job = item.job
                  /\ x.type = "notifyPacked" => ~item.empty
  <2> HIDE DEF item
  <2>0. /\ threads \in [{"tick", "job", "worker"} -> {"none", "alive", "dead"}]
        /\ invocationCounter \in 0..MAX_COUNTER /\ MAX_COUNTER \in Nat
    BY WrangleAssumption DEF Typed
  <2>1. CASE /\ association = 0 /\ ~item.empty
             /\ WorkerDies
             /\ UNCHANGED processJobQueue
    BY <2>0, <2>1 DEF WorkerDies
  <2>2. ASSUME Packs(item.empty), NEW gen \in 1..MaxCreated,
               processJobQueue' = Append(processJobQueue, Packed(item.job, gen)), threads' = threads
        PROVE  /\ threads' \in [{"tick", "job", "worker"} -> {"none", "alive", "dead"}]
               /\ \/ association = 0 /\ processJobQueue' = processJobQueue
                  \/ /\ threads' = threads
                     /\ \E x \in JobItems :
                           /\ processJobQueue' = Append(processJobQueue, x)
                           /\ x.type \in {"notifyPacked", "notifyNotSent"} /\ x.job = item.job
                           /\ x.type = "notifyPacked" => ~item.empty
    <3> DEFINE n == invocationCounter + 1
               x == [type |-> "notifyPacked", job |-> item.job, gen |-> gen,
                     counter |-> n, time |-> now]
    <3>1. n \in 1..MAX_COUNTER /\ ~item.empty
      BY <2>0, <2>2 DEF Packs
    <3>2. now \in 0..MaxTime
      BY DEF Typed
    <3> HIDE DEF n
    <3>3. x \in JobItems /\ x.type = "notifyPacked" /\ x.job = item.job
      BY <1>1, <3>1, <3>2 DEF JobItems
    <3> HIDE DEF x
    <3>4. processJobQueue' = Append(processJobQueue, x)
      BY <2>2 DEF x, n, Packed
    <3> QED BY <2>0, <2>2, <3>1, <3>3, <3>4
  <2>3. CASE /\ processJobQueue' = Append(processJobQueue,
                     [type |-> "notifyNotSent", job |-> item.job])
             /\ UNCHANGED threads
    <3> DEFINE x == [type |-> "notifyNotSent", job |-> item.job]
    <3>1. x \in JobItems /\ x.type = "notifyNotSent" /\ x.job = item.job
      BY <1>1 DEF JobItems
    <3> HIDE DEF x
    <3>2. processJobQueue' = Append(processJobQueue, x)
      BY <2>3 DEF x
    <3> QED BY <2>0, <2>3, <3>1, <3>2
  <2>4. CASE Send
    <3>1. association # 0 => association \in 1..MaxCreated
      BY DEF Typed
    <3> QED BY <2>1, <2>2, <2>3, <2>4, <3>1 DEF Send, item
  <2>5. CASE SendAcross
    <3>1. association' \in 1..MaxCreated
      BY <2>5, RecreatedFacts DEF SendAcross
    <3> DEFINE gen == association'
    <3>2. gen \in 1..MaxCreated
      BY <3>1
    <3>3. /\ Packs(item.empty) /\ processJobQueue' = Append(processJobQueue, Packed(item.job, gen))
          /\ threads' = threads
      BY <2>5 DEF SendAcross, item
    <3> HIDE DEF gen
    <3> QED BY <2>2, <3>2, <3>3
  <2> QED BY <2>4, <2>5
<1> HIDE DEF item
<1> QED BY <1>1, <1>2 DEF item

LEMMA BooksSend ==
    ASSUME Books, Send \/ SendAcross
    PROVE  Books'
<1> DEFINE item == Head(processMessageQueue)
<1>1. /\ processMessageQueue # <<>> /\ processMessageQueue' = Tail(processMessageQueue)
      /\ item \in MessageItems /\ item.type = "send" /\ item.job \in Jobs /\ item.empty \in BOOLEAN
      /\ item \in SendsOf(item.job) /\ (~item.empty => item \in FullOf(item.job))
  BY SendItem DEF Books
<1>2. /\ outputQueue' = outputQueue /\ job' = job /\ results' = results /\ ids' = ids
      /\ timeoutList' = timeoutList /\ preJobs' = preJobs /\ jobs' = jobs
      /\ running' = running /\ jobsIsArray' = jobsIsArray /\ now' = now
      /\ incoming' = incoming /\ stops' = stops /\ unpacked' = unpacked
  BY DEF Send, SendAcross, TakeMessage, peerVars
<1>3. /\ threads' \in [{"tick", "job", "worker"} -> {"none", "alive", "dead"}]
      /\ \/ processJobQueue' = processJobQueue
         \/ \E x \in JobItems : /\ processJobQueue' = Append(processJobQueue, x)
                                /\ x.type \in {"notifyPacked", "notifyNotSent"} /\ x.job = item.job
                                /\ x.type = "notifyPacked" => ~item.empty
  BY SendItem DEF Books
<1>4. processMessageQueue' \in Seq(MessageItems) /\ processMessageQueue \in Seq(MessageItems)
  <2>1. processMessageQueue \in Seq(MessageItems)
    BY DEF Books, Typed
  <2> QED BY <1>1, <2>1, TailPlaces
<1>5. processJobQueue' \in Seq(JobItems) /\ processJobQueue \in Seq(JobItems)
  <2>1. processJobQueue \in Seq(JobItems)
    BY DEF Books, Typed
  <2> QED BY <1>3, <2>1, AppendPlaces
<1> HIDE DEF item
<1>6. Typed'
  <2>1. DbTyped'
    BY DbPack DEF Books, Pack
  <2> QED BY <1>2, <1>3, <1>4, <1>5, <2>1 DEF Books, Typed, DbTyped
<1>7. Answers'
  <2>1. \A i \in DOMAIN processMessageQueue' :
           processMessageQueue'[i].type = "receive" => processMessageQueue'[i].answers \in outputQueue'
    BY <1>1, <1>2, <1>4, TailPlaces DEF Books, Answers
  <2>2. \A i \in DOMAIN processJobQueue' :
           processJobQueue'[i].type = "processMessage" => processJobQueue'[i].of \subseteq outputQueue'
    <3>1. CASE processJobQueue' = processJobQueue
      BY <1>2, <3>1 DEF Books, Answers
    <3>2. ASSUME NEW x \in JobItems, processJobQueue' = Append(processJobQueue, x),
                 x.type \in {"notifyPacked", "notifyNotSent"}
          PROVE  \A i \in DOMAIN processJobQueue' :
                     processJobQueue'[i].type = "processMessage" => processJobQueue'[i].of \subseteq outputQueue'
      BY <1>2, <1>5, <3>2, AppendPlaces DEF Books, Answers
    <3> QED BY <1>3, <3>1, <3>2
  <2> QED BY <2>1, <2>2 DEF Answers
<1>8. ASSUME NEW k \in Jobs
      PROVE  /\ Unique(Sends(k)') /\ Unique(Notices(k)') /\ Unique(News(k)')
             /\ Sends(k)' = {} \/ Notices(k)' = {}
             /\ HasMessage(k)' => HasMessage(k)
             /\ Pends(k)' => Pends(k)
             /\ News(k)' # {} => State(k) = "UNUSED"
  <2>1. /\ Unique(Sends(k)) /\ Unique(Notices(k)) /\ Unique(News(k))
        /\ Sends(k) = {} \/ Notices(k) = {}
        /\ News(k) # {} => State(k) = "UNUSED"
    BY DEF Books, Messages
  <2>2. Typed
    BY DEF Books
  <2>3. /\ Unique(Sends(k)')
        /\ Sends(k)' # {} => Sends(k) # {}
        /\ At(processMessageQueue', FullOf(k)) # {} => At(processMessageQueue, FullOf(k)) # {}
        /\ item \in SendsOf(k) => Sends(k) # {} /\ Sends(k)' = {}
        /\ item \in FullOf(k) => At(processMessageQueue, FullOf(k)) # {}
    BY <1>1, <2>1, <2>2, MessageQueueTail DEF item
  <2>4. CASE processJobQueue' = processJobQueue
    <3>1. /\ Notices(k)' = Notices(k) /\ News(k)' = News(k)
          /\ At(processJobQueue', PackedOf(k)) = At(processJobQueue, PackedOf(k))
      BY <2>4 DEF Notices, News
    <3> QED BY <2>1, <2>3, <3>1 DEF HasMessage, Pends
  <2>5. ASSUME NEW x \in JobItems, processJobQueue' = Append(processJobQueue, x),
               x.type \in {"notifyPacked", "notifyNotSent"}, x.job = item.job,
               x.type = "notifyPacked" => ~item.empty
        PROVE  /\ Unique(Sends(k)') /\ Unique(Notices(k)') /\ Unique(News(k)')
               /\ Sends(k)' = {} \/ Notices(k)' = {}
               /\ HasMessage(k)' => HasMessage(k)
               /\ Pends(k)' => Pends(k)
               /\ News(k)' # {} => State(k) = "UNUSED"
    <3>1. /\ x \notin NewOf(k)
          /\ x \in NoticesOf(k) => k = item.job /\ item \in SendsOf(k)
          /\ x \in PackedOf(k) => item \in FullOf(k)
      BY <1>1, <2>5 DEF NewOf, NoticesOf, PackedOf, SendsOf, FullOf
    <3>2. /\ Unique(Notices(k)') /\ Unique(News(k)')
          /\ Notices(k)' # {} => Notices(k) # {} \/ x \in NoticesOf(k)
          /\ News(k)' # {} => News(k) # {} \/ x \in NewOf(k)
          /\ At(processJobQueue', PackedOf(k)) # {} =>
                 At(processJobQueue, PackedOf(k)) # {} \/ x \in PackedOf(k)
      BY <2>1, <2>2, <2>3, <2>5, <3>1, JobQueueAppend
    <3> QED BY <2>1, <2>3, <3>1, <3>2 DEF HasMessage, Pends
  <2> QED BY <1>3, <2>4, <2>5
<1> QED BY <1>2, <1>6, <1>7, <1>8, BooksQueues

\* The worker accepts an answer to a message that was sent, or drops it.
LEMMA ReceiveItem ==
    ASSUME Typed, Answers, Receive \/ ReceiveAcross
    PROVE  LET item == Head(processMessageQueue)
           IN  /\ processMessageQueue # <<>> /\ processMessageQueue' = Tail(processMessageQueue)
               /\ item \in MessageItems /\ item.type = "receive" /\ item.answers \in Transmissions
               /\ item.results \in Responses /\ item.answers \in outputQueue
               /\ unpacked' \subseteq outputQueue
               /\ threads' \in [{"tick", "job", "worker"} -> {"none", "alive", "dead"}]
               /\ association = 0 \/ threads' = threads
               /\ \/ processJobQueue' = processJobQueue
                  \/ \E x \in JobItems : /\ processJobQueue' = Append(processJobQueue, x)
                                         /\ x.type = "processMessage" /\ x.of \subseteq outputQueue
<1> DEFINE item == Head(processMessageQueue)
<1>1. /\ processMessageQueue # <<>> /\ processMessageQueue' = Tail(processMessageQueue)
      /\ item \in MessageItems /\ item.type = "receive" /\ item.answers \in Transmissions
      /\ item.results \in Responses /\ item.answers \in outputQueue
  <2>1. processMessageQueue # <<>> /\ processMessageQueue' = Tail(processMessageQueue) /\ item.type = "receive"
    BY DEF Receive, ReceiveAcross, TakeMessage
  <2>2. item \in MessageItems /\ 1 \in DOMAIN processMessageQueue /\ item = processMessageQueue[1]
    BY <2>1, TailPlaces DEF Typed
  <2> HIDE DEF item
  <2>3. item.answers \in Transmissions /\ item.results \in Responses
    BY <2>1, <2>2, MessageItemFields
  <2>4. item.answers \in outputQueue
    BY <2>1, <2>2 DEF Answers
  <2> QED BY <2>1, <2>2, <2>3, <2>4 DEF item
<1>2. /\ unpacked' \subseteq outputQueue
      /\ threads' \in [{"tick", "job", "worker"} -> {"none", "alive", "dead"}]
      /\ association = 0 \/ threads' = threads
      /\ \/ processJobQueue' = processJobQueue
         \/ \E x \in JobItems : /\ processJobQueue' = Append(processJobQueue, x)
                                /\ x.type = "processMessage" /\ x.of \subseteq outputQueue
  <2> HIDE DEF item
  <2>0. /\ threads \in [{"tick", "job", "worker"} -> {"none", "alive", "dead"}]
        /\ unpacked \subseteq outputQueue
    BY DEF Typed
  <2>1. CASE association = 0 /\ WorkerDies /\ UNCHANGED <<processJobQueue, unpacked>>
    BY <2>0, <2>1 DEF WorkerDies
  <2>2. CASE Accept(item)
    <3> DEFINE n == item.answers.counter % RES_MOD
               x == [type |-> "processMessage", counter |-> n,
                     results |-> item.results, of |-> {item.answers}]
    <3>1. n \in 0..(RES_MOD - 1)
      BY <1>1, TransmissionFields, Residues
    <3> HIDE DEF n
    <3>2. x \in JobItems /\ x.type = "processMessage" /\ x.of = {item.answers}
      BY <1>1, <3>1 DEF JobItems
    <3> HIDE DEF x
    <3>3. processJobQueue' = Append(processJobQueue, x) /\ threads' = threads
      BY <2>2 DEF x, n, Accept
    <3>4. unpacked' = unpacked \cup {item.answers}
      BY <2>2 DEF Accept
    <3> QED BY <1>1, <2>0, <3>2, <3>3, <3>4
  <2>3. CASE UNCHANGED <<threads, processJobQueue, unpacked>>
    BY <2>0, <2>3
  <2> QED BY <2>1, <2>2, <2>3 DEF Receive, ReceiveAcross, item
<1> HIDE DEF item
<1> QED BY <1>1, <1>2 DEF item

LEMMA BooksReceive ==
    ASSUME Books, Receive \/ ReceiveAcross
    PROVE  Books'
<1> DEFINE item == Head(processMessageQueue)
<1>1. /\ processMessageQueue # <<>> /\ processMessageQueue' = Tail(processMessageQueue)
      /\ item \in MessageItems /\ item.type = "receive" /\ item.answers \in Transmissions
      /\ item.results \in Responses /\ item.answers \in outputQueue
  BY ReceiveItem DEF Books
<1>2. /\ outputQueue' = outputQueue /\ job' = job /\ results' = results /\ ids' = ids
      /\ timeoutList' = timeoutList /\ preJobs' = preJobs /\ jobs' = jobs
      /\ running' = running /\ jobsIsArray' = jobsIsArray /\ now' = now
      /\ incoming' = incoming /\ stops' = stops
  BY DEF Receive, ReceiveAcross, TakeMessage, peerVars
<1>3. /\ unpacked' \subseteq outputQueue
      /\ threads' \in [{"tick", "job", "worker"} -> {"none", "alive", "dead"}]
      /\ \/ processJobQueue' = processJobQueue
         \/ \E x \in JobItems : /\ processJobQueue' = Append(processJobQueue, x)
                                /\ x.type = "processMessage" /\ x.of \subseteq outputQueue
  BY ReceiveItem DEF Books
<1>4. processMessageQueue' \in Seq(MessageItems) /\ processMessageQueue \in Seq(MessageItems)
  <2>1. processMessageQueue \in Seq(MessageItems)
    BY DEF Books, Typed
  <2> QED BY <1>1, <2>1, TailPlaces
<1>5. processJobQueue' \in Seq(JobItems) /\ processJobQueue \in Seq(JobItems)
  <2>1. processJobQueue \in Seq(JobItems)
    BY DEF Books, Typed
  <2> QED BY <1>3, <2>1, AppendPlaces
<1> HIDE DEF item
<1>6. Typed'
  <2>1. DbTyped'
    BY DbPack DEF Books, Pack
  <2> QED BY <1>2, <1>3, <1>4, <1>5, <2>1 DEF Books, Typed, DbTyped
<1>7. Answers'
  <2>1. \A i \in DOMAIN processMessageQueue' :
           processMessageQueue'[i].type = "receive" => processMessageQueue'[i].answers \in outputQueue'
    BY <1>1, <1>2, <1>4, TailPlaces DEF Books, Answers
  <2>2. \A i \in DOMAIN processJobQueue' :
           processJobQueue'[i].type = "processMessage" => processJobQueue'[i].of \subseteq outputQueue'
    <3>1. CASE processJobQueue' = processJobQueue
      BY <1>2, <3>1 DEF Books, Answers
    <3>2. ASSUME NEW x \in JobItems, processJobQueue' = Append(processJobQueue, x),
                 x.of \subseteq outputQueue
          PROVE  \A i \in DOMAIN processJobQueue' :
                     processJobQueue'[i].type = "processMessage" => processJobQueue'[i].of \subseteq outputQueue'
      BY <1>2, <1>5, <3>2, AppendPlaces DEF Books, Answers
    <3> QED BY <1>3, <3>1, <3>2
  <2> QED BY <2>1, <2>2 DEF Answers
<1>8. ASSUME NEW k \in Jobs
      PROVE  /\ Unique(Sends(k)') /\ Unique(Notices(k)') /\ Unique(News(k)')
             /\ Sends(k)' = {} \/ Notices(k)' = {}
             /\ HasMessage(k)' => HasMessage(k)
             /\ Pends(k)' => Pends(k)
             /\ News(k)' # {} => State(k) = "UNUSED"
  <2>1. /\ Unique(Sends(k)) /\ Unique(Notices(k)) /\ Unique(News(k))
        /\ Sends(k) = {} \/ Notices(k) = {}
        /\ News(k) # {} => State(k) = "UNUSED"
    BY DEF Books, Messages
  <2>2. Typed
    BY DEF Books
  <2>3. /\ Unique(Sends(k)')
        /\ Sends(k)' # {} => Sends(k) # {}
        /\ At(processMessageQueue', FullOf(k)) # {} => At(processMessageQueue, FullOf(k)) # {}
    BY <1>1, <2>1, <2>2, MessageQueueTail
  <2>4. CASE processJobQueue' = processJobQueue
    <3>1. /\ Notices(k)' = Notices(k) /\ News(k)' = News(k)
          /\ At(processJobQueue', PackedOf(k)) = At(processJobQueue, PackedOf(k))
      BY <2>4 DEF Notices, News
    <3> QED BY <2>1, <2>3, <3>1 DEF HasMessage, Pends
  <2>5. ASSUME NEW x \in JobItems, processJobQueue' = Append(processJobQueue, x), x.type = "processMessage"
        PROVE  /\ Unique(Sends(k)') /\ Unique(Notices(k)') /\ Unique(News(k)')
               /\ Sends(k)' = {} \/ Notices(k)' = {}
               /\ HasMessage(k)' => HasMessage(k)
               /\ Pends(k)' => Pends(k)
               /\ News(k)' # {} => State(k) = "UNUSED"
    <3>1. x \notin NewOf(k) /\ x \notin NoticesOf(k) /\ x \notin PackedOf(k)
      BY <2>5 DEF NewOf, NoticesOf, PackedOf
    <3>2. /\ Unique(Notices(k)') /\ Unique(News(k)')
          /\ Notices(k)' # {} => Notices(k) # {} \/ x \in NoticesOf(k)
          /\ News(k)' # {} => News(k) # {} \/ x \in NewOf(k)
          /\ At(processJobQueue', PackedOf(k)) # {} =>
                 At(processJobQueue, PackedOf(k)) # {} \/ x \in PackedOf(k)
      BY <2>1, <2>2, <2>5, <3>1, JobQueueAppend
    <3> QED BY <2>1, <2>3, <3>1, <3>2 DEF HasMessage, Pends
  <2> QED BY <1>3, <2>4, <2>5
<1> QED BY <1>2, <1>6, <1>7, <1>8, BooksQueues

\* A request of the remote peer, or any other datagram: no job hears of it.
LEMMA BooksDropped ==
    ASSUME Books, ReceiveRequest \/ ReceiveRequestAcross \/ ReceiveStray
    PROVE  Books'
<1>1. processMessageQueue # <<>> /\ processMessageQueue' = Tail(processMessageQueue)
  BY DEF ReceiveRequest, ReceiveRequestAcross, ReceiveStray, TakeMessage
<1>2. /\ outputQueue' = outputQueue /\ job' = job /\ results' = results /\ ids' = ids
      /\ timeoutList' = timeoutList /\ preJobs' = preJobs /\ jobs' = jobs
      /\ running' = running /\ jobsIsArray' = jobsIsArray /\ now' = now
      /\ incoming' = incoming /\ stops' = stops
      /\ unpacked' = unpacked /\ processJobQueue' = processJobQueue
  BY DEF ReceiveRequest, ReceiveRequestAcross, ReceiveStray, TakeMessage, peerVars
<1>3. threads' \in [{"tick", "job", "worker"} -> {"none", "alive", "dead"}]
  <2>1. threads \in [{"tick", "job", "worker"} -> {"none", "alive", "dead"}]
    BY DEF Books, Typed
  <2>2. threads' = threads \/ WorkerDies
    BY DEF ReceiveRequest, ReceiveRequestAcross, ReceiveStray
  <2> QED BY <2>1, <2>2 DEF WorkerDies
<1>4. processMessageQueue' \in Seq(MessageItems) /\ processMessageQueue \in Seq(MessageItems)
  <2>1. processMessageQueue \in Seq(MessageItems)
    BY DEF Books, Typed
  <2> QED BY <1>1, <2>1, TailPlaces
<1>5. Typed'
  <2>1. DbTyped'
    BY DbPack DEF Books, Pack
  <2> QED BY <1>2, <1>3, <1>4, <2>1 DEF Books, Typed, DbTyped
<1>6. Answers'
  BY <1>1, <1>2, <1>4, TailPlaces DEF Books, Answers
<1>7. ASSUME NEW k \in Jobs
      PROVE  /\ Unique(Sends(k)') /\ Unique(Notices(k)') /\ Unique(News(k)')
             /\ Sends(k)' = {} \/ Notices(k)' = {}
             /\ HasMessage(k)' => HasMessage(k)
             /\ Pends(k)' => Pends(k)
             /\ News(k)' # {} => State(k) = "UNUSED"
  <2>1. /\ Unique(Sends(k)) /\ Unique(Notices(k)) /\ Unique(News(k))
        /\ Sends(k) = {} \/ Notices(k) = {}
        /\ News(k) # {} => State(k) = "UNUSED"
    BY DEF Books, Messages
  <2>2. Typed
    BY DEF Books
  <2>3. /\ Unique(Sends(k)')
        /\ Sends(k)' # {} => Sends(k) # {}
        /\ At(processMessageQueue', FullOf(k)) # {} => At(processMessageQueue, FullOf(k)) # {}
    BY <1>1, <2>1, <2>2, MessageQueueTail
  <2>4. /\ Notices(k)' = Notices(k) /\ News(k)' = News(k)
        /\ At(processJobQueue', PackedOf(k)) = At(processJobQueue, PackedOf(k))
    BY <1>2 DEF Notices, News
  <2> QED BY <2>1, <2>3, <2>4 DEF HasMessage, Pends
<1> QED BY <1>2, <1>5, <1>6, <1>7, BooksQueues

-----------------------------------------------------------------------------
(* The steps of the job thread *)

LEMMA PendsHasMessage ==
    ASSUME NEW k, Pends(k)
    PROVE  HasMessage(k)
<1>1. FullOf(k) \subseteq SendsOf(k) /\ PackedOf(k) \subseteq NoticesOf(k)
  BY DEF FullOf, SendsOf, PackedOf, NoticesOf
<1> QED BY <1>1 DEF Pends, HasMessage, Sends, Notices, At

\* The item the job thread takes.
LEMMA TakenItem ==
    ASSUME Books, NEW type, TakeJob(type)
    PROVE  /\ processJobQueue # <<>> /\ processJobQueue' = Tail(processJobQueue)
           /\ Head(processJobQueue) \in JobItems /\ Head(processJobQueue).type = type
           /\ Head(processJobQueue) = processJobQueue[1] /\ 1 \in DOMAIN processJobQueue
           /\ processJobQueue \in Seq(JobItems) /\ processJobQueue' \in Seq(JobItems)
           /\ \A i \in DOMAIN processJobQueue' :
                i + 1 \in DOMAIN processJobQueue /\ processJobQueue'[i] = processJobQueue[i + 1]
           /\ running' = running /\ jobsIsArray' = jobsIsArray /\ now' = now
           /\ association' = association /\ created' = created
           /\ invocationCounter' = invocationCounter /\ crossed' = crossed
           /\ unpacked' = unpacked /\ incoming' = incoming /\ stops' = stops
<1>1. processJobQueue # <<>> /\ processJobQueue' = Tail(processJobQueue) /\ Head(processJobQueue).type = type
  BY DEF TakeJob
<1>2. processJobQueue \in Seq(JobItems)
  BY DEF Books, Typed
<1>3. /\ running' = running /\ jobsIsArray' = jobsIsArray /\ now' = now
      /\ association' = association /\ created' = created
      /\ invocationCounter' = invocationCounter /\ crossed' = crossed
      /\ unpacked' = unpacked /\ incoming' = incoming /\ stops' = stops
  BY DEF TakeJob, dbVars
<1> QED BY <1>1, <1>2, <1>3, TailPlaces

LEMMA BooksNewJob ==
    ASSUME Books, NewJob
    PROVE  Books'
<1> DEFINE item == Head(processJobQueue)
<1>1. /\ processJobQueue # <<>> /\ processJobQueue' = Tail(processJobQueue)
      /\ item \in JobItems /\ item.type = "newJob"
      /\ processJobQueue \in Seq(JobItems) /\ processJobQueue' \in Seq(JobItems)
      /\ \A i \in DOMAIN processJobQueue' :
           i + 1 \in DOMAIN processJobQueue /\ processJobQueue'[i] = processJobQueue[i + 1]
      /\ running' = running /\ jobsIsArray' = jobsIsArray /\ now' = now
      /\ association' = association /\ created' = created
      /\ invocationCounter' = invocationCounter /\ crossed' = crossed
      /\ unpacked' = unpacked /\ incoming' = incoming /\ stops' = stops
  BY TakenItem DEF NewJob
<1>0. item.job \in Jobs /\ item.opts \in Options
  BY <1>1, JobItemFields
<1>2. PICK j \in Jobs, o \in Options : j = item.job /\ o = item.opts
  BY <1>0
<1> DEFINE b == New(j, o)
           d == Output(b)
           x == Sending(j, b)
<1>3. /\ job' = [job EXCEPT ![j] = d] /\ ids' = ids \cup {j} /\ preJobs' = preJobs \cup {j}
      /\ processMessageQueue' = Append(processMessageQueue, x)
      /\ threads' = threads /\ outputQueue' = outputQueue /\ jobs' = jobs
      /\ timeoutList' = timeoutList /\ results' = results
  BY <1>2 DEF NewJob
<1> HIDE DEF item, b, d, x
<1>4. IsJob(b) /\ b.client.state = "INIT"
  BY <1>2, NewIsJob DEF b
<1>5. IsJob(d) /\ d.client.state = (IF HasOutput(b) THEN "PENDING" ELSE "INIT")
  BY <1>4, OutputIsJob DEF d
<1>6. /\ x \in MessageItems /\ x.type = "send" /\ x.job = j
      /\ x.empty = ~HasOutput(b)
  BY <1>2 DEF x, Sending, MessageItems, HasOutput, CanOutput
<1>7. item \in NewOf(j) /\ \A k \in Jobs : item \notin NoticesOf(k)
  BY <1>1, <1>2 DEF NewOf, NoticesOf
<1>8. /\ News(j) # {} /\ State(j) = "UNUSED" /\ ~HasMessage(j) /\ ~IsListed(j)
      /\ results[j] = <<>>
  <2>1. News(j) # {} /\ News(j)' = {}
    <3>1. Typed /\ Unique(Notices(j)) /\ Unique(News(j))
      BY <1>2 DEF Books, Messages
    <3> QED BY <1>1, <1>2, <1>7, <3>1, JobQueueTail DEF item
  <2>2. State(j) = "UNUSED"
    BY <1>2, <2>1 DEF Books, Messages
  <2> QED BY <1>2, <2>1, <2>2 DEF Books, Messages, Listings, Waits
<1>9. /\ job'[j] = d /\ \A k \in Jobs : k # j => job'[k] = job[k]
  BY <1>2, <1>3 DEF Books, Typed
<1>10. processMessageQueue \in Seq(MessageItems) /\ processMessageQueue' \in Seq(MessageItems)
  <2>1. processMessageQueue \in Seq(MessageItems)
    BY DEF Books, Typed
  <2> QED BY <1>3, <1>6, <2>1, AppendPlaces
<1>11. Typed'
  <2>1. job' \in [Jobs -> JobRecords]
    BY <1>2, <1>3, <1>5 DEF Books, Typed, IsJob
  <2>2. \A k \in Jobs : IsJob(job'[k])
    BY <1>5, <1>9 DEF Books, Typed
  <2> QED BY <1>1, <1>3, <1>10, <2>1, <2>2 DEF Books, Typed
<1>12. Answers'
  <2>1. \A i \in DOMAIN processMessageQueue' :
           processMessageQueue'[i].type = "receive" => processMessageQueue'[i].answers \in outputQueue'
    BY <1>3, <1>6, <1>10, AppendPlaces DEF Books, Answers
  <2>2. \A i \in DOMAIN processJobQueue' :
           processJobQueue'[i].type = "processMessage" => processJobQueue'[i].of \subseteq outputQueue'
    BY <1>1, <1>3 DEF Books, Answers
  <2> QED BY <2>1, <2>2 DEF Answers
<1>13. ASSUME NEW k \in Jobs
       PROVE  /\ Unique(Sends(k)') /\ Unique(Notices(k)') /\ Unique(News(k)')
              /\ Sends(k)' = {} \/ Notices(k)' = {}
              /\ HasMessage(k)' => HasMessage(k) \/ k = j
              /\ Pends(k)' => Pends(k) \/ (k = j /\ HasOutput(b))
              /\ News(k)' # {} => News(k) # {} /\ k # j
  <2>1. /\ Unique(Sends(k)) /\ Unique(Notices(k)) /\ Unique(News(k))
        /\ Sends(k) = {} \/ Notices(k) = {}
    BY DEF Books, Messages
  <2>2. Typed
    BY DEF Books
  <2>3. /\ Unique(Notices(k)') /\ Unique(News(k)')
        /\ Notices(k)' # {} => Notices(k) # {}
        /\ News(k)' # {} => News(k) # {}
        /\ At(processJobQueue', PackedOf(k)) # {} => At(processJobQueue, PackedOf(k)) # {}
        /\ item \in NewOf(k) => News(k)' = {}
    BY <1>1, <2>1, <2>2, JobQueueTail DEF item
  <2>4. /\ x \in SendsOf(k) => k = j
        /\ x \in FullOf(k) => k = j /\ HasOutput(b)
    BY <1>6 DEF SendsOf, FullOf
  <2>5. /\ Unique(Sends(k)')
        /\ Sends(k)' # {} => Sends(k) # {} \/ x \in SendsOf(k)
        /\ At(processMessageQueue', FullOf(k)) # {} =>
               At(processMessageQueue, FullOf(k)) # {} \/ x \in FullOf(k)
    BY <1>3, <1>6, <1>8, <2>1, <2>2, <2>4, MessageQueueAppend DEF HasMessage
  <2> QED BY <1>7, <1>8, <2>1, <2>3, <2>4, <2>5 DEF HasMessage, Pends
<1>14. /\ State(j)' = (IF HasOutput(b) THEN "PENDING" ELSE "INIT")
       /\ \A k \in Jobs : k # j => State(k)' = State(k)
       /\ \A k \in Jobs : IsListed(k)' <=> IsListed(k)
  <2>1. State(j)' = (IF HasOutput(b) THEN "PENDING" ELSE "INIT")
    BY <1>5, <1>9 DEF State
  <2>2. \A k \in Jobs : k # j => State(k)' = State(k)
    BY <1>9 DEF State
  <2>3. \A k \in Jobs : IsListed(k)' <=> IsListed(k)
    BY <1>3 DEF IsListed
  <2> QED BY <2>1, <2>2, <2>3
<1>15. Messages'
  <2> SUFFICES ASSUME NEW k \in Jobs
               PROVE  /\ Unique(Sends(k)') /\ Unique(Notices(k)') /\ Unique(News(k)')
                      /\ Sends(k)' = {} \/ Notices(k)' = {}
                      /\ HasMessage(k)' => ~IsListed(k)' /\ State(k)' # "UNUSED"
                      /\ News(k)' # {} => State(k)' = "UNUSED"
    BY DEF Messages
  <2>1. CASE k = j
    BY <1>8, <1>13, <1>14, <2>1
  <2>2. CASE k # j
    BY <1>13, <1>14, <2>2 DEF Books, Messages
  <2> QED BY <2>1, <2>2
<1>16. Listings'
  BY <1>2, <1>3, <1>8, <1>14 DEF Books, Listings
<1>17. Waits'
  <2> SUFFICES ASSUME NEW k \in Jobs
               PROVE  /\ results'[k] # <<>> => State(k)' = "COMPLETE"
                      /\ Pends(k)' => /\ State(k)' \in {"PENDING", "COMPLETE"}
                                      /\ \A i \in DOMAIN results'[k] : results'[k][i].of = {}
    BY DEF Waits
  <2>1. CASE k = j
    <3>1. Pends(j)' => HasOutput(b)
      BY <1>2, <1>8, <1>13, PendsHasMessage
    <3> QED BY <1>3, <1>8, <1>14, <2>1, <3>1
  <2>2. CASE k # j
    BY <1>3, <1>13, <1>14, <2>2 DEF Books, Waits
  <2> QED BY <2>1, <2>2
<1>18. TimeoutsInOrder'
  <2>1. \A i \in DOMAIN timeoutList : job'[timeoutList[i]] = job[timeoutList[i]]
    BY <1>8, <1>9 DEF IsListed, Books, Typed
  <2> QED BY <1>3, <2>1 DEF Books, TimeoutsInOrder
<1> QED BY <1>11, <1>12, <1>15, <1>16, <1>17, <1>18 DEF Books

LEMMA UpdateFacts ==
    ASSUME Typed, NEW j \in Jobs, NEW b, IsJob(b), NEW called, NEW of \in SUBSET Transmissions,
           called => b.client.list[1].result \in Results, Update(j, b, called, of)
    PROVE  /\ job' \in [Jobs -> JobRecords] /\ \A k \in Jobs : IsJob(job'[k])
           /\ results' \in [Jobs -> Seq(OutcomeRecords)]
           /\ job'[j] = b
           /\ \A k \in Jobs : k # j => job'[k] = job[k] /\ results'[k] = results[k]
           /\ results'[j] = IF called THEN Append(results[j], Outcome(b.client, of)) ELSE results[j]
           /\ Outcome(b.client, of).of = of
           /\ DOMAIN results[j] = 1..Len(results[j]) /\ Len(results[j]) \in Nat
           /\ called => /\ DOMAIN results'[j] = 1..(Len(results[j]) + 1)
                        /\ \A i \in DOMAIN results[j] : results'[j][i] = results[j][i]
                        /\ results'[j][Len(results[j]) + 1].of = of
<1> DEFINE x == Outcome(b.client, of)
<1>1. /\ job \in [Jobs -> JobRecords] /\ \A k \in Jobs : IsJob(job[k])
      /\ results \in [Jobs -> Seq(OutcomeRecords)]
  BY DEF Typed
<1>2. /\ job' = [job EXCEPT ![j] = b]
      /\ results' = IF called THEN [results EXCEPT ![j] = Append(@, x)] ELSE results
  BY DEF Update, Delivered
<1>3. x.of = of /\ (called => x \in OutcomeRecords)
  BY DEF Outcome, OutcomeRecords
<1> HIDE DEF x
<1>4. /\ job' \in [Jobs -> JobRecords] /\ job'[j] = b /\ \A k \in Jobs : k # j => job'[k] = job[k]
  BY <1>1, <1>2 DEF IsJob
<1>5. results[j] \in Seq(OutcomeRecords)
  BY <1>1
<1>6. CASE called
  <2>1. Append(results[j], x) \in Seq(OutcomeRecords)
    BY <1>3, <1>5, <1>6, AppendPlaces
  <2>2. /\ results' \in [Jobs -> Seq(OutcomeRecords)] /\ results'[j] = Append(results[j], x)
        /\ \A k \in Jobs : k # j => results'[k] = results[k]
    BY <1>1, <1>2, <1>6, <2>1
  <2>3. /\ DOMAIN results[j] = 1..Len(results[j]) /\ Len(results[j]) \in Nat
        /\ DOMAIN results'[j] = 1..(Len(results[j]) + 1)
        /\ \A i \in DOMAIN results[j] : results'[j][i] = results[j][i]
        /\ results'[j][Len(results[j]) + 1] = x
    BY <1>3, <1>5, <1>6, <2>2, AppendPlaces
  <2> QED BY <1>1, <1>3, <1>4, <1>6, <2>2, <2>3 DEF x
<1>7. CASE ~called
  BY <1>1, <1>2, <1>3, <1>4, <1>5, <1>7 DEF x
<1> QED BY <1>6, <1>7

\* A step that takes an item and changes one job, to which no message is under
\* way that was not before.
LEMMA BooksJob ==
    ASSUME Books, Typed', Answers', NEW j \in Jobs,
           \A k \in Jobs : k # j => job'[k] = job[k] /\ results'[k] = results[k],
           timeoutList' = timeoutList, preJobs' \subseteq ids', ids' \subseteq Jobs,
           \A k \in Jobs : IsListed(k) => k \in ids' /\ k \notin preJobs',
           State(j) # "UNUSED", job'[j].client.state # "UNUSED",
           IsListed(j) => job'[j].timeout = job[j].timeout,
           results'[j] # <<>> => job'[j].client.state = "COMPLETE",
           Pends(j)' => /\ job'[j].client.state \in {"PENDING", "COMPLETE"}
                       /\ \A i \in DOMAIN results'[j] : results'[j][i].of = {},
           \A k \in Jobs :
               /\ Unique(Sends(k)') /\ Unique(Notices(k)') /\ Unique(News(k)')
               /\ Sends(k)' = {} \/ Notices(k)' = {}
               /\ HasMessage(k)' => HasMessage(k)
               /\ Pends(k)' => Pends(k)
               /\ News(k)' # {} => News(k) # {}
    PROVE  Books'
<1>1. /\ \A k \in Jobs : IsListed(k)' <=> IsListed(k)
      /\ State(j)' = job'[j].client.state
      /\ \A k \in Jobs : k # j => State(k)' = State(k)
  BY DEF IsListed, State
<1>2. Messages'
  <2> SUFFICES ASSUME NEW k \in Jobs
               PROVE  /\ Unique(Sends(k)') /\ Unique(Notices(k)') /\ Unique(News(k)')
                      /\ Sends(k)' = {} \/ Notices(k)' = {}
                      /\ HasMessage(k)' => ~IsListed(k)' /\ State(k)' # "UNUSED"
                      /\ News(k)' # {} => State(k)' = "UNUSED"
    BY DEF Messages
  <2>1. CASE k = j
    BY <1>1, <2>1 DEF Books, Messages
  <2>2. CASE k # j
    BY <1>1, <2>2 DEF Books, Messages
  <2> QED BY <2>1, <2>2
<1>3. Listings'
  <2>1. \A k \in Jobs : IsListed(k) => State(k)' # "UNUSED"
    BY <1>1 DEF Books, Listings
  <2> QED BY <1>1, <2>1 DEF Books, Listings
<1>4. Waits'
  <2> SUFFICES ASSUME NEW k \in Jobs
               PROVE  /\ results'[k] # <<>> => State(k)' = "COMPLETE"
                      /\ Pends(k)' => /\ State(k)' \in {"PENDING", "COMPLETE"}
                                      /\ \A i \in DOMAIN results'[k] : results'[k][i].of = {}
    BY DEF Waits
  <2>1. CASE k = j
    BY <1>1, <2>1
  <2>2. CASE k # j
    BY <1>1, <2>2 DEF Books, Waits
  <2> QED BY <2>1, <2>2
<1>5. TimeoutsInOrder'
  <2>1. \A i \in DOMAIN timeoutList : job'[timeoutList[i]].timeout = job[timeoutList[i]].timeout
    <3> SUFFICES ASSUME NEW i \in DOMAIN timeoutList
                 PROVE  job'[timeoutList[i]].timeout = job[timeoutList[i]].timeout
      OBVIOUS
    <3>1. timeoutList[i] \in Jobs
      BY DEF Books, Typed
    <3> QED BY <3>1 DEF IsListed
  <2> QED BY <2>1 DEF Books, TimeoutsInOrder
<1> QED BY <1>2, <1>3, <1>4, <1>5 DEF Books

LEMMA BooksNotifyNotSent ==
    ASSUME Books, NotifyNotSent
    PROVE  Books'
<1> DEFINE item == Head(processJobQueue)
<1>1. /\ processJobQueue # <<>> /\ processJobQueue' = Tail(processJobQueue)
      /\ item \in JobItems /\ item.type = "notifyNotSent"
      /\ processJobQueue \in Seq(JobItems) /\ processJobQueue' \in Seq(JobItems)
      /\ \A i \in DOMAIN processJobQueue' :
           i + 1 \in DOMAIN processJobQueue /\ processJobQueue'[i] = processJobQueue[i + 1]
      /\ running' = running /\ jobsIsArray' = jobsIsArray /\ now' = now
      /\ association' = association /\ created' = created
      /\ invocationCounter' = invocationCounter /\ crossed' = crossed
      /\ unpacked' = unpacked /\ incoming' = incoming /\ stops' = stops
  BY TakenItem DEF NotifyNotSent
<1>0. item.job \in Jobs
  BY <1>1, JobItemFields
<1>2. PICK j \in Jobs : j = item.job
  BY <1>0
<1> DEFINE c == Cancelled(job[j].client)
           d == Abandoned(job[j], c)
<1>3. /\ j \in preJobs /\ preJobs' = preJobs \ {j} /\ ids' = ids \ {j}
      /\ Update(j, d, CanAbandon(job[j].client), {})
      /\ processMessageQueue' = processMessageQueue
      /\ threads' = threads /\ outputQueue' = outputQueue /\ jobs' = jobs
      /\ timeoutList' = timeoutList
  BY <1>2 DEF NotifyNotSent
<1>4. IsJob(job[j]) /\ Typed
  BY DEF Books, Typed
<1>5. /\ IsJob(d) /\ d.timeout = job[j].timeout
      /\ IF CanAbandon(job[j].client)
         THEN d.client.state = "COMPLETE" /\ d.client.list[1].result \in Results
         ELSE d = job[j]
  <2>1. c = Complete(job[j].client, Every(job[j].client, "CANCEL"))
    BY DEF Cancelled
  <2> HIDE DEF c
  <2> QED BY <1>4, <2>1, AbandonedIsJob
<1> HIDE DEF item, c, d
<1>6. item \in NoticesOf(j)
  BY <1>1, <1>2 DEF NoticesOf
<1>7. Unique(Notices(j)) /\ Unique(News(j)) /\ Unique(Sends(j)) /\ (Sends(j) = {} \/ Notices(j) = {})
      /\ (HasMessage(j) => ~IsListed(j) /\ State(j) # "UNUSED")
  BY DEF Books, Messages
<1>8. /\ HasMessage(j) /\ ~IsListed(j) /\ State(j) # "UNUSED"
      /\ Sends(j)' = {} /\ Notices(j)' = {}
  <2>1. Notices(j) # {} /\ Notices(j)' = {}
    BY <1>1, <1>4, <1>6, <1>7, JobQueueTail DEF item
  <2>2. Sends(j)' = Sends(j)
    BY <1>3 DEF Sends
  <2> QED BY <1>7, <2>1, <2>2 DEF HasMessage
<1>9. ~HasMessage(j)' /\ ~Pends(j)'
  <2>1. ~HasMessage(j)'
    BY <1>8 DEF HasMessage
  <2>2. FullOf(j) \subseteq SendsOf(j) /\ PackedOf(j) \subseteq NoticesOf(j)
    BY DEF FullOf, SendsOf, PackedOf, NoticesOf
  <2> QED BY <1>8, <2>1, <2>2 DEF Pends, Sends, Notices, At
<1>10. /\ job' \in [Jobs -> JobRecords] /\ \A k \in Jobs : IsJob(job'[k])
       /\ results' \in [Jobs -> Seq(OutcomeRecords)]
       /\ job'[j] = d
       /\ \A k \in Jobs : k # j => job'[k] = job[k] /\ results'[k] = results[k]
       /\ ~CanAbandon(job[j].client) => results'[j] = results[j]
  BY <1>3, <1>4, <1>5, UpdateFacts
<1>11. Typed'
  BY <1>1, <1>3, <1>10 DEF Books, Typed
<1>12. Answers'
  BY <1>1, <1>3 DEF Books, Answers
<1>13. ASSUME NEW k \in Jobs
       PROVE  /\ Unique(Sends(k)') /\ Unique(Notices(k)') /\ Unique(News(k)')
              /\ Sends(k)' = {} \/ Notices(k)' = {}
              /\ HasMessage(k)' => HasMessage(k)
              /\ Pends(k)' => Pends(k)
              /\ News(k)' # {} => News(k) # {}
  <2>1. /\ Unique(Sends(k)) /\ Unique(Notices(k)) /\ Unique(News(k))
        /\ Sends(k) = {} \/ Notices(k) = {}
    BY DEF Books, Messages
  <2>2. /\ Unique(Notices(k)') /\ Unique(News(k)')
        /\ Notices(k)' # {} => Notices(k) # {}
        /\ News(k)' # {} => News(k) # {}
        /\ At(processJobQueue', PackedOf(k)) # {} => At(processJobQueue, PackedOf(k)) # {}
    BY <1>1, <1>4, <2>1, JobQueueTail
  <2>3. Sends(k)' = Sends(k) /\ At(processMessageQueue', FullOf(k)) = At(processMessageQueue, FullOf(k))
    BY <1>3 DEF Sends
  <2> QED BY <2>1, <2>2, <2>3 DEF HasMessage, Pends
<1>14. preJobs' \subseteq ids' /\ ids' \subseteq Jobs
       /\ \A k \in Jobs : IsListed(k) => k \in ids' /\ k \notin preJobs'
  BY <1>3, <1>8 DEF Books, Listings
<1>15. /\ job'[j].client.state # "UNUSED"
       /\ results'[j] # <<>> => job'[j].client.state = "COMPLETE"
  BY <1>5, <1>8, <1>10 DEF State, Books, Waits
<1> QED BY <1>3, <1>8, <1>9, <1>10, <1>11, <1>12, <1>13, <1>14, <1>15, BooksJob

LEMMA BooksProcessMessage ==
    ASSUME Books, ProcessMessage
    PROVE  Books'
<1> DEFINE m == Head(processJobQueue)
<1>1. /\ processJobQueue # <<>> /\ processJobQueue' = Tail(processJobQueue)
      /\ m \in JobItems /\ m.type = "processMessage"
      /\ m = processJobQueue[1] /\ 1 \in DOMAIN processJobQueue
      /\ processJobQueue \in Seq(JobItems) /\ processJobQueue' \in Seq(JobItems)
      /\ \A i \in DOMAIN processJobQueue' :
           i + 1 \in DOMAIN processJobQueue /\ processJobQueue'[i] = processJobQueue[i + 1]
      /\ running' = running /\ jobsIsArray' = jobsIsArray /\ now' = now
      /\ association' = association /\ created' = created
      /\ invocationCounter' = invocationCounter /\ crossed' = crossed
      /\ unpacked' = unpacked /\ incoming' = incoming /\ stops' = stops
  BY TakenItem DEF ProcessMessage
<1>2. /\ processMessageQueue' = processMessageQueue /\ outputQueue' = outputQueue
      /\ ids' = ids /\ preJobs' = preJobs /\ timeoutList' = timeoutList
  BY DEF ProcessMessage
<1>3. m.results \in Responses /\ m.of \in SUBSET Transmissions
  BY <1>1, JobItemFields
<1>4. Typed
  BY DEF Books
<1>5. Answers'
  BY <1>1, <1>2 DEF Books, Answers
<1>6. ASSUME NEW k \in Jobs
      PROVE  /\ Unique(Sends(k)') /\ Unique(Notices(k)') /\ Unique(News(k)')
             /\ Sends(k)' = {} \/ Notices(k)' = {}
             /\ HasMessage(k)' => HasMessage(k)
             /\ Pends(k)' => Pends(k)
             /\ News(k)' # {} => News(k) # {}
  <2>1. /\ Unique(Sends(k)) /\ Unique(Notices(k)) /\ Unique(News(k))
        /\ Sends(k) = {} \/ Notices(k) = {}
    BY DEF Books, Messages
  <2>2. /\ Unique(Notices(k)') /\ Unique(News(k)')
        /\ Notices(k)' # {} => Notices(k) # {}
        /\ News(k)' # {} => News(k) # {}
        /\ At(processJobQueue', PackedOf(k)) # {} => At(processJobQueue, PackedOf(k)) # {}
    BY <1>1, <1>4, <2>1, JobQueueTail
  <2>3. Sends(k)' = Sends(k) /\ At(processMessageQueue', FullOf(k)) = At(processMessageQueue, FullOf(k))
    BY <1>2 DEF Sends
  <2> QED BY <2>1, <2>2, <2>3 DEF HasMessage, Pends
<1>7. CASE jobs' = jobs /\ job' = job /\ results' = results
            /\ (threads' = threads \/ JobThreadDies)
  <2>1. threads' \in [{"tick", "job", "worker"} -> {"none", "alive", "dead"}]
    BY <1>7 DEF Books, Typed, JobThreadDies
  <2>2. Typed'
    BY <1>1, <1>2, <1>7, <2>1 DEF Books, Typed
  <2>3. \A k \in Jobs : News(k)' # {} => State(k) = "UNUSED"
    BY <1>6 DEF Books, Messages
  <2> QED BY <1>2, <1>5, <1>6, <1>7, <2>2, <2>3, BooksQueues
<1>8. ASSUME m.counter \in DOMAIN jobs, threads' = threads,
             LET j == jobs[m.counter]
                 accepted == Accepts(job[j].client, m.counter, m.results)
                 b == IF accepted THEN [job[j] EXCEPT !.client = Answered(@, m.results)] ELSE job[j]
             IN  /\ Update(j, b, accepted, m.of)
                 /\ jobs' = IF Forgotten(j, accepted)
                            THEN [n \in DOMAIN jobs \ {m.counter} |-> jobs[n]]
                            ELSE jobs
      PROVE  Books'
  <2>1. jobs[m.counter] \in Jobs
    BY <1>8 DEF Books, Typed
  <2>2. PICK j \in Jobs : j = jobs[m.counter]
    BY <2>1
  <2> DEFINE accepted == Accepts(job[j].client, m.counter, m.results)
             a == Answered(job[j].client, m.results)
             b == IF accepted THEN [job[j] EXCEPT !.client = a] ELSE job[j]
  <2>3. Update(j, b, accepted, m.of)
    BY <1>8, <2>2
  <2>4. /\ DOMAIN jobs' \subseteq DOMAIN jobs
        /\ \A n \in DOMAIN jobs' : jobs'[n] = jobs[n]
    BY <1>8
  <2>5. IsJob(job[j]) /\ m.results \in Seq(STRING)
    BY <1>3, WrangleAssumption DEF Books, Typed
  <2>6. accepted => /\ IsClient(a) /\ a.state = "COMPLETE" /\ a.list[1].result \in Results
                    /\ State(j) = "SENT"
    BY <2>5, AnsweredIsClient DEF IsJob, State
  <2> HIDE DEF m, accepted, a
  <2>7. /\ IsJob(b) /\ b.timeout = job[j].timeout
        /\ accepted => b.client.state = "COMPLETE" /\ b.client.list[1].result \in Results
        /\ ~accepted => b = job[j]
    <3>1. CASE accepted
      BY <2>5, <2>6, <3>1 DEF IsJob, JobRecords, IsClient
    <3>2. CASE ~accepted
      BY <2>5, <3>2
    <3> QED BY <3>1, <3>2
  <2> HIDE DEF b
  <2>8. /\ job' \in [Jobs -> JobRecords] /\ \A k \in Jobs : IsJob(job'[k])
        /\ results' \in [Jobs -> Seq(OutcomeRecords)]
        /\ job'[j] = b
        /\ \A k \in Jobs : k # j => job'[k] = job[k] /\ results'[k] = results[k]
        /\ ~accepted => results'[j] = results[j]
    BY <1>3, <1>4, <2>3, <2>7, UpdateFacts
  <2>9. Typed'
    <3>1. DOMAIN jobs' \subseteq 1..MAX_COUNTER /\ \A n \in DOMAIN jobs' : jobs'[n] \in Jobs
      BY <2>4 DEF Books, Typed
    <3> QED BY <1>1, <1>2, <1>8, <2>8, <3>1 DEF Books, Typed
  <2>10. CASE accepted
    <3>1. State(j) # "UNUSED" /\ ~Pends(j)
      BY <2>6, <2>10 DEF Books, Waits
    <3>2. ~Pends(j)'
      BY <1>6, <3>1
    <3>3. preJobs' \subseteq ids' /\ ids' \subseteq Jobs
          /\ \A k \in Jobs : IsListed(k) => k \in ids' /\ k \notin preJobs'
      BY <1>2 DEF Books, Listings
    <3>4. job'[j].client.state = "COMPLETE" /\ job'[j].timeout = job[j].timeout
      BY <2>7, <2>8, <2>10
    <3> QED BY <1>2, <1>5, <1>6, <2>8, <2>9, <3>1, <3>2, <3>3, <3>4, BooksJob
  <2>11. CASE ~accepted
    <3>1. job' = job /\ results' = results
      BY <2>7, <2>8, <2>11 DEF Books, Typed
    <3>2. \A k \in Jobs : News(k)' # {} => State(k) = "UNUSED"
      BY <1>6 DEF Books, Messages
    <3> QED BY <1>2, <1>5, <1>6, <2>9, <3>1, <3>2, BooksQueues
  <2> QED BY <2>10, <2>11
<1> QED BY <1>7, <1>8 DEF ProcessMessage

\* Every nonempty set of numbers has a least one.
LEMMA LeastPlace ==
    ASSUME NEW K \in SUBSET Nat, K # {}
    PROVE  \E i \in K : \A k \in K : i <= k
<1>1. PICK i \in K : \A k \in K : <<k, i>> \notin OpToRel(<, Nat)
  BY NatLessThanWellFounded, WFMin
<1>2. \A k \in K : ~(k < i)
  BY <1>1 DEF OpToRel
<1> QED BY <1>2

\* x put before the i-th member of q.
Put(q, x, i) == SubSeq(q, 1, i - 1) \o <<x>> \o SubSeq(q, i, Len(q))

LEMMA InsertPlaces ==
    ASSUME NEW S, NEW q \in Seq(S), NEW x \in S, NEW i \in 1..Len(q)
    PROVE  LET l == Put(q, x, i)
           IN  /\ l \in Seq(S) /\ DOMAIN l = 1..(Len(q) + 1) /\ l[i] = x
               /\ \A k \in DOMAIN l : k < i => k \in DOMAIN q /\ l[k] = q[k]
               /\ \A k \in DOMAIN l : i < k => k - 1 \in DOMAIN q /\ l[k] = q[k - 1]
  BY DEF Put

Sorted(q, R) == \A i, k \in DOMAIN q : i < k => <<q[i], q[k]>> \in R
NoTwice(q)   == \A i, k \in DOMAIN q : q[i] = q[k] => i = k
Fits(q, x, p, R) ==
    /\ \A i \in DOMAIN q : q[i] # x
    /\ \A k \in DOMAIN q : (k < p => <<q[k], x>> \in R) /\ (p <= k => <<x, q[k]>> \in R)
Adds(q, x, l) == \A i \in DOMAIN l : l[i] = x \/ \E k \in DOMAIN q : q[k] = l[i]

\* A member put before the first that is larger.
LEMMA InsertInOrder ==
    ASSUME NEW S, NEW q \in Seq(S), NEW j \in S, NEW R, NEW p \in 1..Len(q),
           NoTwice(q), Sorted(q, R), Fits(q, j, p, R)
    PROVE  /\ Put(q, j, p) \in Seq(S) /\ Adds(q, j, Put(q, j, p))
           /\ NoTwice(Put(q, j, p)) /\ Sorted(Put(q, j, p), R)
<1>0. /\ \A i \in DOMAIN q : q[i] # j
      /\ \A i, k \in DOMAIN q : q[i] = q[k] => i = k
      /\ \A i, k \in DOMAIN q : i < k => <<q[i], q[k]>> \in R
      /\ \A k \in DOMAIN q : (k < p => <<q[k], j>> \in R) /\ (p <= k => <<j, q[k]>> \in R)
  BY DEF NoTwice, Sorted, Fits
<1> DEFINE l == Put(q, j, p)
<1> DEFINE From(i) == IF i < p THEN i ELSE i - 1
<1>1. /\ l \in Seq(S) /\ DOMAIN l = 1..(Len(q) + 1) /\ l[p] = j
      /\ \A i \in DOMAIN l : i < p => i \in DOMAIN q /\ l[i] = q[i]
      /\ \A i \in DOMAIN l : p < i => i - 1 \in DOMAIN q /\ l[i] = q[i - 1]
  <2> HIDE DEF From
  <2>1. l \in Seq(S)
    BY InsertPlaces
  <2>2. DOMAIN l = 1..(Len(q) + 1)
    BY InsertPlaces
  <2>3. l[p] = j
    BY InsertPlaces
  <2>4. ASSUME NEW i \in DOMAIN l, i < p PROVE i \in DOMAIN q /\ l[i] = q[i]
    BY <2>4, InsertPlaces
  <2>5. ASSUME NEW i \in DOMAIN l, p < i PROVE i - 1 \in DOMAIN q /\ l[i] = q[i - 1]
    BY <2>5, InsertPlaces
  <2> QED BY <2>1, <2>2, <2>3, <2>4, <2>5
<1>2. Len(q) \in Nat /\ DOMAIN q = 1..Len(q) /\ p \in Nat /\ p \in DOMAIN q
  OBVIOUS
<1> HIDE DEF l
<1>3. ASSUME NEW i \in DOMAIN l, i # p
      PROVE  From(i) \in DOMAIN q /\ l[i] = q[From(i)] /\ From(i) \in Int /\ i \in Int
             /\ (i < p => From(i) < p) /\ (p < i => p <= From(i))
  BY <1>1, <1>2, <1>3
<1>4. \A i \in DOMAIN l : i \in Int
  BY <1>1, <1>2
<1>5. ASSUME NEW i \in DOMAIN l, NEW k \in DOMAIN l, i # p, k # p
      PROVE  (i < k => From(i) < From(k)) /\ (From(i) = From(k) => i = k)
  <2>1. i \in Int /\ k \in Int /\ p \in Int
    BY <1>2, <1>4
  <2> QED BY <1>5, <2>1
<1> HIDE DEF From
<1>7. \A i \in DOMAIN l : l[i] = j \/ \E k \in DOMAIN q : q[k] = l[i]
  BY <1>0, <1>1, <1>3
<1>8. ASSUME NEW i \in DOMAIN l, NEW k \in DOMAIN l, l[i] = l[k] PROVE i = k
  <2>1. i = p <=> l[i] = j
    BY <1>0, <1>1, <1>3
  <2>2. k = p <=> l[k] = j
    BY <1>0, <1>1, <1>3
  <2>3. CASE i # p /\ k # p
    <3>1. From(i) \in DOMAIN q /\ l[i] = q[From(i)] /\ From(k) \in DOMAIN q /\ l[k] = q[From(k)]
      BY <1>3, <2>3
    <3>2. From(i) = From(k)
      BY <1>0, <1>8, <3>1
    <3> QED BY <1>5, <2>3, <3>2
  <2> QED BY <1>8, <2>1, <2>2, <2>3
<1>9. ASSUME NEW i \in DOMAIN l, NEW k \in DOMAIN l, i < k PROVE <<l[i], l[k]>> \in R
  <2>1. CASE i # p /\ k # p
    <3>1. From(i) \in DOMAIN q /\ l[i] = q[From(i)] /\ From(k) \in DOMAIN q /\ l[k] = q[From(k)]
      BY <1>3, <2>1
    <3> QED BY <1>0, <1>5, <1>9, <2>1, <3>1
  <2>2. CASE k = p
    <3>1. i # p /\ From(i) \in DOMAIN q /\ l[i] = q[From(i)] /\ From(i) < p
      BY <1>2, <1>3, <1>4, <1>9, <2>2
    <3> QED BY <1>0, <1>1, <2>2, <3>1
  <2>3. CASE i = p
    <3>1. k # p /\ From(k) \in DOMAIN q /\ l[k] = q[From(k)] /\ p <= From(k)
      BY <1>2, <1>3, <1>4, <1>9, <2>3
    <3> QED BY <1>0, <1>1, <2>3, <3>1
  <2> QED BY <2>1, <2>2, <2>3
<1> QED BY <1>1, <1>7, <1>8, <1>9 DEF l, Adds, NoTwice, Sorted

\* Where a new job is put: nothing else leaves the list or changes its order.
LEMMA ListedFacts ==
    ASSUME Typed, NEW j \in Jobs, ~IsListed(j), NEW t \in Int, TimeoutsInOrder,
           \A i, k \in DOMAIN timeoutList : timeoutList[i] = timeoutList[k] => i = k,
           NEW T, T = [x \in Jobs |-> IF x = j THEN t ELSE job[x].timeout]
    PROVE  LET l == Listed(j, t)
           IN  /\ l \in Seq(Jobs)
               /\ \A i \in DOMAIN l : l[i] = j \/ \E k \in DOMAIN timeoutList : timeoutList[k] = l[i]
               /\ \A i, k \in DOMAIN l : l[i] = l[k] => i = k
               /\ \A i, k \in DOMAIN l : i < k => T[l[i]] <= T[l[k]]
<1> DEFINE q == timeoutList
           later == {i \in DOMAIN q : job[q[i]].timeout > t}
           l == Listed(j, t)
<1>1. q \in Seq(Jobs) /\ Len(q) \in Nat /\ DOMAIN q = 1..Len(q)
  BY DEF Typed
<1>2. T \in [Jobs -> Int] /\ T[j] = t
  BY DEF Typed, JobRecords, Nil
<1>3. \A i \in DOMAIN q : q[i] \in Jobs /\ q[i] # j
  BY <1>1 DEF IsListed
<1>4. \A i \in DOMAIN q : T[q[i]] = job[q[i]].timeout /\ T[q[i]] \in Int
  BY <1>2, <1>3
<1>5. \A i, k \in DOMAIN q : i < k => T[q[i]] <= T[q[k]]
  BY <1>4 DEF TimeoutsInOrder
<1>6. CASE q = <<>>
  <2>1. l = <<j>>
    BY <1>6 DEF Listed
  <2>2. l \in Seq(Jobs) /\ DOMAIN l = {1} /\ l[1] = j
    BY <2>1
  <2> HIDE DEF l
  <2>3. \A i, k \in DOMAIN l : i = 1 /\ k = 1
    BY <2>2
  <2> QED BY <2>2, <2>3 DEF l
<1>7. CASE q # <<>> /\ later = {}
  <2>1. l = q
    BY <1>7 DEF Listed
  <2> QED BY <1>1, <1>5, <2>1
<1>8. CASE q # <<>> /\ later # {}
  <2> DEFINE p == CHOOSE i \in later : \A k \in later : i <= k
  <2>1. p \in later /\ \A k \in later : p <= k
    <3>1. later \in SUBSET Nat
      BY <1>1
    <3> HIDE DEF later
    <3> QED BY <1>8, <3>1, LeastPlace
  <2>2. l = Put(q, j, p)
    BY <1>8 DEF Listed, Put
  <2>3. p \in 1..Len(q) /\ job[q[p]].timeout > t /\ p \in DOMAIN q
    BY <1>1, <2>1
  <2> HIDE DEF p
  <2> DEFINE R == {z \in Jobs \X Jobs : T[z[1]] <= T[z[2]]}
  <2>4. \A k \in DOMAIN q : k < p => <<q[k], j>> \in R
    <3> SUFFICES ASSUME NEW k \in DOMAIN q, k < p PROVE <<q[k], j>> \in R
      OBVIOUS
    <3>1. k \notin later
      BY <1>1, <2>1, <2>3
    <3>2. T[q[k]] <= T[j]
      BY <1>2, <1>4, <3>1
    <3> QED BY <1>3, <3>2
  <2>5. \A k \in DOMAIN q : p <= k => <<j, q[k]>> \in R
    <3> SUFFICES ASSUME NEW k \in DOMAIN q, p <= k PROVE <<j, q[k]>> \in R
      OBVIOUS
    <3>1. T[j] <= T[q[p]] /\ T[j] \in Int
      BY <1>2, <1>4, <2>3
    <3>2. T[q[p]] <= T[q[k]]
      <4>1. CASE p = k
        BY <1>4, <2>3, <4>1
      <4>2. CASE p < k
        BY <1>5, <2>3, <4>2
      <4> QED BY <1>1, <2>3, <4>1, <4>2
    <3>3. T[j] <= T[q[k]]
      <4>1. T[q[p]] \in Int /\ T[q[k]] \in Int
        BY <1>4, <2>3
      <4> QED BY <3>1, <3>2, <4>1
    <3> QED BY <1>3, <3>3
  <2>6. \A i, k \in DOMAIN q : i < k => <<q[i], q[k]>> \in R
    BY <1>3, <1>5
  <2> HIDE DEF l, later, R
  <2>7. /\ l \in Seq(Jobs)
        /\ \A i \in DOMAIN l : l[i] = j \/ \E k \in DOMAIN q : q[k] = l[i]
        /\ \A i, k \in DOMAIN l : l[i] = l[k] => i = k
        /\ \A i, k \in DOMAIN l : i < k => <<l[i], l[k]>> \in R
    <3>1. NoTwice(q) /\ Sorted(q, R) /\ Fits(q, j, p, R)
      BY <1>3, <2>4, <2>5, <2>6 DEF NoTwice, Sorted, Fits
    <3> HIDE DEF q
    <3>2. l \in Seq(Jobs) /\ Adds(q, j, l) /\ NoTwice(l) /\ Sorted(l, R)
      BY <1>1, <2>2, <2>3, <3>1, InsertInOrder
    <3> QED BY <3>2 DEF Adds, NoTwice, Sorted
  <2> QED BY <2>7 DEF l, R
<1> QED BY <1>6, <1>7, <1>8

\* A step that takes an item and changes the jobs in the set J, to which no
\* message is under way that was not before, and lists some of them.
LEMMA BooksJobs ==
    ASSUME Books, Typed', Answers', TimeoutsInOrder', NoTwice(timeoutList'),
           preJobs' \subseteq ids', ids' \subseteq Jobs,
           NEW J \in SUBSET Jobs,
           \A k \in Jobs \ J : job'[k] = job[k] /\ results'[k] = results[k],
           \A k \in Jobs : IsListed(k)' => /\ k \in ids' /\ k \notin preJobs'
                                         /\ \/ IsListed(k)
                                            \/ ~HasMessage(k)' /\ k \in J,
           \A k \in J :
               /\ State(k) # "UNUSED" /\ job'[k].client.state # "UNUSED"
               /\ results'[k] # <<>> => job'[k].client.state = "COMPLETE"
               /\ Pends(k)' => /\ job'[k].client.state \in {"PENDING", "COMPLETE"}
                               /\ \A i \in DOMAIN results'[k] : results'[k][i].of = {},
           \A k \in Jobs :
               /\ Unique(Sends(k)') /\ Unique(Notices(k)') /\ Unique(News(k)')
               /\ Sends(k)' = {} \/ Notices(k)' = {}
               /\ HasMessage(k)' => HasMessage(k)
               /\ Pends(k)' => Pends(k)
               /\ News(k)' # {} => News(k) # {}
    PROVE  Books'
<1>1. /\ \A k \in Jobs : State(k)' = job'[k].client.state
      /\ \A k \in Jobs \ J : State(k)' = State(k)
  BY DEF State
<1>2. Messages'
  <2> SUFFICES ASSUME NEW k \in Jobs
               PROVE  /\ Unique(Sends(k)') /\ Unique(Notices(k)') /\ Unique(News(k)')
                      /\ Sends(k)' = {} \/ Notices(k)' = {}
                      /\ HasMessage(k)' => ~IsListed(k)' /\ State(k)' # "UNUSED"
                      /\ News(k)' # {} => State(k)' = "UNUSED"
    BY DEF Messages
  <2>1. CASE k \in J
    BY <1>1, <2>1 DEF Books, Messages
  <2>2. CASE k \notin J
    BY <1>1, <2>2 DEF Books, Messages
  <2> QED BY <2>1, <2>2
<1>3. Listings'
  <2>1. \A k \in Jobs : IsListed(k)' => State(k)' # "UNUSED"
    BY <1>1 DEF Books, Listings
  <2> QED BY <2>1 DEF Listings, NoTwice
<1>4. Waits'
  <2> SUFFICES ASSUME NEW k \in Jobs
               PROVE  /\ results'[k] # <<>> => State(k)' = "COMPLETE"
                      /\ Pends(k)' => /\ State(k)' \in {"PENDING", "COMPLETE"}
                                      /\ \A i \in DOMAIN results'[k] : results'[k][i].of = {}
    BY DEF Waits
  <2>1. CASE k \in J
    BY <1>1, <2>1
  <2>2. CASE k \notin J
    BY <1>1, <2>2 DEF Books, Waits
  <2> QED BY <2>1, <2>2
<1> QED BY <1>2, <1>3, <1>4 DEF Books

\* What the notice that a message was packed makes of its job.
LEMMA PackedJob ==
    ASSUME NEW j, IsJob(job[j]), results[j] \in Seq(OutcomeRecords),
           State(j) \in {"PENDING", "COMPLETE"}, results[j] # <<>> => State(j) = "COMPLETE",
           NEW n \in Nat, NEW time \in Nat
    PROVE  LET c == OutputConfirmed(job[j], n)
               completes == c.client.state = "COMPLETE" /\ job[j].client.state # "COMPLETE"
               done == completes \/ Finished(j)
               b == [c EXCEPT !.timeout = IF done THEN @ ELSE time + c.retryPeriod]
           IN  /\ IsJob(b) /\ b.client = c.client /\ b.client.state \in {"SENT", "COMPLETE"}
               /\ completes => b.client.list[1].result \in Results
               /\ results[j] # <<>> => b.client.state = "COMPLETE"
               /\ completes => b.client.state = "COMPLETE"
               /\ b.client.state = "SENT" => b.client.counter = n % RES_MOD
<1> DEFINE c == OutputConfirmed(job[j], n)
           completes == c.client.state = "COMPLETE" /\ job[j].client.state # "COMPLETE"
           done == completes \/ Finished(j)
           t == IF done THEN c.timeout ELSE time + c.retryPeriod
           b == [c EXCEPT !.timeout = t]
<1>1. /\ IsJob(c) /\ c.client.state \in {"SENT", "COMPLETE"}
      /\ completes => c.client.list[1].result \in Results
      /\ results[j] # <<>> => c.client.state = "COMPLETE"
      /\ c.client.state = "SENT" => c.client.counter = n % RES_MOD
  <2> DEFINE r == job[j].client
             s == Confirmed(r, n)
  <2>1. CASE State(j) = "PENDING"
    <3>1. CanConfirm(r) /\ IsClient(r) /\ results[j] = <<>>
      BY <2>1 DEF CanConfirm, State, IsJob
    <3>2. /\ IsClient(s) /\ s.state = (IF r.confirmed THEN "SENT" ELSE "COMPLETE")
          /\ s.counter = n % RES_MOD
          /\ ~r.confirmed => s.list[1].result \in Results
      BY <3>1, ConfirmedIsClient
    <3> HIDE DEF s
    <3>3. c = [job[j] EXCEPT !.client = s]
      BY <3>1 DEF OutputConfirmed, s
    <3>4. job[j] \in JobRecords
      BY DEF IsJob
    <3>5. IsJob(c) /\ c.client = s
      BY <3>2, <3>3, <3>4 DEF IsJob, JobRecords, IsClient
    <3> HIDE DEF c
    <3>6. r.confirmed \in BOOLEAN
      BY <3>1 DEF IsClient, ClientRecords
    <3> QED BY <3>1, <3>2, <3>5, <3>6
  <2>2. CASE State(j) = "COMPLETE"
    <3>1. c = job[j] /\ job[j].client.state = "COMPLETE"
      BY <2>2 DEF OutputConfirmed, CanConfirm, State
    <3> QED BY <3>1
  <2> QED BY <2>1, <2>2
<1> HIDE DEF c
<1>2. t \in Nat \cup {Nil}
  BY <1>1 DEF IsJob, JobRecords
<1> HIDE DEF t
<1>3. IsJob(b) /\ b.client = c.client
  BY <1>1, <1>2 DEF IsJob, JobRecords
<1>4. b = [c EXCEPT !.timeout = IF done THEN @ ELSE time + c.retryPeriod]
  BY DEF t
<1> HIDE DEF b, done
<1> QED BY <1>1, <1>3, <1>4 DEF c, done

\* The notice that a message was packed finds its job waiting for it.
LEMMA PackedItem ==
    ASSUME Books, TakeJob("notifyPacked")
    PROVE  LET item == Head(processJobQueue)
           IN  /\ item.job \in Jobs /\ item.time \in Nat
               /\ item.counter \in Nat /\ item.counter \in 1..MAX_COUNTER
               /\ [job |-> item.job, gen |-> item.gen, counter |-> item.counter] \in Transmissions
               /\ item \in NoticesOf(item.job) /\ item \in PackedOf(item.job)
               /\ HasMessage(item.job) /\ Sends(item.job) = {} /\ ~IsListed(item.job)
               /\ State(item.job) \in {"PENDING", "COMPLETE"}
               /\ \A i \in DOMAIN results[item.job] : results[item.job][i].of = {}
               /\ IsJob(job[item.job]) /\ results[item.job] \in Seq(OutcomeRecords)
               /\ results[item.job] # <<>> => State(item.job) = "COMPLETE"
<1> DEFINE item == Head(processJobQueue)
<1>1. /\ item \in JobItems /\ item.type = "notifyPacked" /\ item = processJobQueue[1]
      /\ 1 \in DOMAIN processJobQueue
  BY TakenItem
<1> HIDE DEF item
<1>2. /\ item.job \in Jobs /\ item.time \in Nat
      /\ item.counter \in Nat /\ item.counter \in 1..MAX_COUNTER
      /\ [job |-> item.job, gen |-> item.gen, counter |-> item.counter] \in Transmissions
  BY <1>1, JobItemFields
<1>3. item \in NoticesOf(item.job) /\ item \in PackedOf(item.job)
  BY <1>1 DEF NoticesOf, PackedOf
<1>4. Notices(item.job) # {} /\ Pends(item.job)
  BY <1>1, <1>3 DEF Notices, Pends, At
<1>5. HasMessage(item.job) /\ Sends(item.job) = {} /\ ~IsListed(item.job)
  BY <1>2, <1>4 DEF Books, Messages, HasMessage
<1>6. /\ State(item.job) \in {"PENDING", "COMPLETE"}
      /\ \A i \in DOMAIN results[item.job] : results[item.job][i].of = {}
      /\ results[item.job] # <<>> => State(item.job) = "COMPLETE"
  BY <1>2, <1>4 DEF Books, Waits
<1>7. IsJob(job[item.job]) /\ results[item.job] \in Seq(OutcomeRecords)
  BY <1>2 DEF Books, Typed
<1> QED BY <1>2, <1>3, <1>5, <1>6, <1>7 DEF item

LEMMA BooksNotifyPacked ==
    ASSUME Books, NotifyPacked
    PROVE  Books'
<1> DEFINE item == Head(processJobQueue)
<1>0. TakeJob("notifyPacked") /\ Typed
  BY DEF NotifyPacked, Books
<1>1. /\ processJobQueue # <<>> /\ processJobQueue' = Tail(processJobQueue)
      /\ processJobQueue \in Seq(JobItems) /\ processJobQueue' \in Seq(JobItems)
      /\ \A i \in DOMAIN processJobQueue' :
           i + 1 \in DOMAIN processJobQueue /\ processJobQueue'[i] = processJobQueue[i + 1]
      /\ running' = running /\ jobsIsArray' = jobsIsArray /\ now' = now
      /\ association' = association /\ created' = created
      /\ invocationCounter' = invocationCounter /\ crossed' = crossed
      /\ unpacked' = unpacked /\ incoming' = incoming /\ stops' = stops
  BY <1>0, TakenItem
<1>2. PICK j \in Jobs, n \in Nat, time \in Nat, x \in Transmissions :
        /\ j = item.job /\ n = item.counter /\ time = item.time /\ n \in 1..MAX_COUNTER
        /\ x = [job |-> item.job, gen |-> item.gen, counter |-> item.counter]
  BY <1>0, PackedItem
<1>3. /\ item \in NoticesOf(j) /\ HasMessage(j) /\ Sends(j) = {} /\ ~IsListed(j)
      /\ State(j) \in {"PENDING", "COMPLETE"}
      /\ \A i \in DOMAIN results[j] : results[j][i].of = {}
      /\ IsJob(job[j]) /\ results[j] \in Seq(OutcomeRecords)
      /\ results[j] # <<>> => State(j) = "COMPLETE"
  BY <1>0, <1>2, PackedItem
<1> DEFINE c == OutputConfirmed(job[j], n)
           completes == c.client.state = "COMPLETE" /\ job[j].client.state # "COMPLETE"
           done == completes \/ Finished(j)
           b == [c EXCEPT !.timeout = IF done THEN @ ELSE time + c.retryPeriod]
<1>4. /\ IsJob(b) /\ b.client.state \in {"SENT", "COMPLETE"}
      /\ completes => b.client.list[1].result \in Results
      /\ results[j] # <<>> => b.client.state = "COMPLETE"
      /\ completes => b.client.state = "COMPLETE"
  BY <1>3, PackedJob
<1>5. /\ j \in preJobs /\ preJobs' = preJobs \ {j} /\ ids' = ids
      /\ processMessageQueue' = processMessageQueue
      /\ \/ /\ Update(j, b, completes, {}) /\ JobThreadDies
            /\ UNCHANGED <<jobs, timeoutList, outputQueue>>
         \/ /\ n \in DOMAIN jobs
            /\ LET other == jobs[n]
                   packed == [job EXCEPT ![j] = b]
                   given == Delivered(results, j, completes, Outcome(b.client, {}))
               IN  /\ job' = [packed EXCEPT ![other] = Abandoned(@, Cancelled(@.client))]
                   /\ results' = Delivered(given, other, CanAbandon(packed[other].client),
                                           [result |-> "CANCEL", of |-> {}])
            /\ jobs' = [k \in DOMAIN jobs \ {n} |-> jobs[k]]
            /\ JobThreadDies
            /\ UNCHANGED <<timeoutList, outputQueue>>
         \/ /\ Update(j, b, completes, {})
            /\ outputQueue' = outputQueue \cup {x}
            /\ jobs' = [k \in DOMAIN jobs \cup {n} |-> IF k = n THEN j ELSE jobs[k]]
            /\ \/ JobThreadDies /\ UNCHANGED timeoutList
               \/ timeoutList' = Listed(j, b.timeout) /\ UNCHANGED threads
  <2>1. j \in preJobs /\ preJobs' = preJobs \ {j}
    BY <1>2 DEF NotifyPacked
  <2>2. ids' = ids /\ processMessageQueue' = processMessageQueue
    BY DEF NotifyPacked
  <2>3. CASE jobsIsArray
    <3>1. /\ Update(j, b, completes, {}) /\ JobThreadDies
          /\ UNCHANGED <<jobs, timeoutList, outputQueue>>
      BY <1>2, <2>3 DEF NotifyPacked
    <3> QED BY <2>1, <2>2, <3>1
  <2>4. CASE ~jobsIsArray /\ n \in DOMAIN jobs
    <3>1. /\ jobs' = [k \in DOMAIN jobs \ {n} |-> jobs[k]]
          /\ JobThreadDies
          /\ UNCHANGED <<timeoutList, outputQueue>>
      BY <1>2, <2>4 DEF NotifyPacked
    <3>2. LET other == jobs[n]
              packed == [job EXCEPT ![j] = b]
          IN  job' = [packed EXCEPT ![other] = Abandoned(@, Cancelled(@.client))]
      BY <1>2, <2>4 DEF NotifyPacked
    <3>3. LET other == jobs[n]
              packed == [job EXCEPT ![j] = b]
              given == Delivered(results, j, completes, Outcome(b.client, {}))
          IN  results' = Delivered(given, other, CanAbandon(packed[other].client),
                                   [result |-> "CANCEL", of |-> {}])
      BY <1>2, <2>4 DEF NotifyPacked
    <3> QED BY <2>1, <2>2, <2>4, <3>1, <3>2, <3>3
  <2>5. CASE ~jobsIsArray /\ n \notin DOMAIN jobs
    <3>1. /\ Update(j, b, completes, {})
          /\ outputQueue' = outputQueue \cup {x}
          /\ jobs' = [k \in DOMAIN jobs \cup {n} |-> IF k = n THEN j ELSE jobs[k]]
          /\ \/ JobThreadDies /\ UNCHANGED timeoutList
             \/ timeoutList' = Listed(j, b.timeout) /\ UNCHANGED threads
      BY <1>2, <2>5 DEF NotifyPacked
    <3> QED BY <2>1, <2>2, <2>5, <3>1
  <2> QED BY <2>3, <2>4, <2>5
<1> HIDE DEF item, c, completes, done, b
<1>6. /\ HasMessage(j)' = FALSE /\ Pends(j)' = FALSE
      /\ \A k \in Jobs :
            /\ Unique(Sends(k)') /\ Unique(Notices(k)') /\ Unique(News(k)')
            /\ Sends(k)' = {} \/ Notices(k)' = {}
            /\ HasMessage(k)' => HasMessage(k)
            /\ Pends(k)' => Pends(k)
            /\ News(k)' # {} => News(k) # {}
  <2>1. ASSUME NEW k \in Jobs
        PROVE  /\ Unique(Sends(k)') /\ Unique(Notices(k)') /\ Unique(News(k)')
               /\ Sends(k)' = {} \/ Notices(k)' = {}
               /\ HasMessage(k)' => HasMessage(k)
               /\ Pends(k)' => Pends(k)
               /\ News(k)' # {} => News(k) # {}
               /\ item \in NoticesOf(k) => Notices(k)' = {}
               /\ Sends(k)' = Sends(k)
    <3>1. /\ Unique(Sends(k)) /\ Unique(Notices(k)) /\ Unique(News(k))
          /\ Sends(k) = {} \/ Notices(k) = {}
      BY DEF Books, Messages
    <3>2. /\ Unique(Notices(k)') /\ Unique(News(k)')
          /\ Notices(k)' # {} => Notices(k) # {}
          /\ News(k)' # {} => News(k) # {}
          /\ At(processJobQueue', PackedOf(k)) # {} => At(processJobQueue, PackedOf(k)) # {}
          /\ item \in NoticesOf(k) => Notices(k)' = {}
      BY <1>0, <1>1, <3>1, JobQueueTail DEF item
    <3>3. Sends(k)' = Sends(k) /\ At(processMessageQueue', FullOf(k)) = At(processMessageQueue, FullOf(k))
      BY <1>5 DEF Sends
    <3> QED BY <3>1, <3>2, <3>3 DEF HasMessage, Pends
  <2>2. Sends(j)' = {} /\ Notices(j)' = {}
    BY <1>3, <2>1
  <2>3. FullOf(j) \subseteq SendsOf(j) /\ PackedOf(j) \subseteq NoticesOf(j)
    BY DEF FullOf, SendsOf, PackedOf, NoticesOf
  <2>4. HasMessage(j)' = FALSE
    BY <2>2 DEF HasMessage
  <2>5. Pends(j)' = FALSE
    BY <2>2, <2>3 DEF Pends, Sends, Notices, At
  <2> QED BY <2>1, <2>4, <2>5
<1>7. /\ Answers' /\ (JobThreadDies \/ UNCHANGED threads =>
                        threads' \in [{"tick", "job", "worker"} -> {"none", "alive", "dead"}])
      /\ outputQueue' \in SUBSET Transmissions /\ outputQueue \subseteq outputQueue'
  <2>1. outputQueue' \in SUBSET Transmissions /\ outputQueue \subseteq outputQueue'
    BY <1>0, <1>5 DEF Typed
  <2>2. Answers'
    BY <1>1, <1>5, <2>1 DEF Books, Answers
  <2> QED BY <1>0, <2>1, <2>2 DEF Typed, JobThreadDies
<1>8. /\ preJobs' \subseteq ids' /\ ids' \subseteq Jobs /\ NoTwice(timeoutList) /\ j \in ids'
      /\ \A k \in Jobs : IsListed(k) => k \in ids' /\ k \notin preJobs' /\ k # j
  BY <1>3, <1>5 DEF Books, Listings, NoTwice
<1>9. timeoutList \in Seq(Jobs) /\ \A i \in DOMAIN timeoutList : timeoutList[i] \in Jobs \ {j}
  <2>1. timeoutList \in Seq(Jobs)
    BY <1>0 DEF Typed
  <2>2. \A i \in DOMAIN timeoutList : timeoutList[i] \in Jobs
    BY <2>1
  <2> QED BY <1>3, <2>1, <2>2 DEF IsListed
<1>10. State(j) # "UNUSED" /\ b.client.state # "UNUSED"
  BY <1>3, <1>4
<1>11. ASSUME Update(j, b, completes, {})
       PROVE  /\ job' \in [Jobs -> JobRecords] /\ \A k \in Jobs : IsJob(job'[k])
              /\ results' \in [Jobs -> Seq(OutcomeRecords)]
              /\ job'[j] = b
              /\ \A k \in Jobs \ {j} : job'[k] = job[k] /\ results'[k] = results[k]
              /\ results'[j] # <<>> => job'[j].client.state = "COMPLETE"
  <2>1. /\ job' \in [Jobs -> JobRecords] /\ \A k \in Jobs : IsJob(job'[k])
        /\ results' \in [Jobs -> Seq(OutcomeRecords)]
        /\ job'[j] = b
        /\ \A k \in Jobs : k # j => job'[k] = job[k] /\ results'[k] = results[k]
        /\ results'[j] = IF completes THEN Append(results[j], Outcome(b.client, {})) ELSE results[j]
    BY <1>0, <1>4, <1>11, UpdateFacts
  <2> QED BY <1>4, <2>1
<1>12. CASE /\ Update(j, b, completes, {}) /\ JobThreadDies
            /\ UNCHANGED <<jobs, timeoutList, outputQueue>>
  <2>1. Typed'
    <3>1. threads' \in [{"tick", "job", "worker"} -> {"none", "alive", "dead"}]
      BY <1>7, <1>12
    <3>2. jobs' = jobs /\ timeoutList' = timeoutList /\ outputQueue' = outputQueue
      BY <1>12
    <3>3. processMessageQueue' = processMessageQueue
      BY <1>5
    <3>4. /\ job' \in [Jobs -> JobRecords] /\ \A k \in Jobs : IsJob(job'[k])
          /\ results' \in [Jobs -> Seq(OutcomeRecords)]
      BY <1>11, <1>12
    <3> QED BY <1>0, <1>1, <3>1, <3>2, <3>3, <3>4 DEF Typed
  <2>2. TimeoutsInOrder'
    BY <1>9, <1>11, <1>12 DEF Books, TimeoutsInOrder
  <2>3. \A k \in Jobs : IsListed(k)' => IsListed(k)
    BY <1>12 DEF IsListed
  <2>4. NoTwice(timeoutList') /\ {j} \in SUBSET Jobs
    BY <1>8, <1>12
  <2> QED BY <1>6, <1>7, <1>8, <1>10, <1>11, <1>12, <2>1, <2>2, <2>3, <2>4, BooksJobs
<1>13. CASE /\ Update(j, b, completes, {})
            /\ outputQueue' = outputQueue \cup {x}
            /\ jobs' = [k \in DOMAIN jobs \cup {n} |-> IF k = n THEN j ELSE jobs[k]]
            /\ \/ JobThreadDies /\ UNCHANGED timeoutList
               \/ timeoutList' = Listed(j, b.timeout) /\ UNCHANGED threads
  <2> DEFINE T == [k \in Jobs |-> IF k = j THEN b.timeout ELSE job[k].timeout]
  <2>0. b.timeout \in Int
    BY <1>4 DEF IsJob, JobRecords, Nil
  <2>1. /\ timeoutList' \in Seq(Jobs) /\ NoTwice(timeoutList')
        /\ \A i \in DOMAIN timeoutList' :
              timeoutList'[i] = j \/ \E k \in DOMAIN timeoutList : timeoutList[k] = timeoutList'[i]
        /\ \A i, k \in DOMAIN timeoutList' : i < k => T[timeoutList'[i]] <= T[timeoutList'[k]]
    <3>1. CASE timeoutList' = timeoutList
      <4>1. \A i \in DOMAIN timeoutList : T[timeoutList[i]] = job[timeoutList[i]].timeout
        BY <1>9
      <4> HIDE DEF T
      <4> QED BY <1>8, <1>9, <3>1, <4>1 DEF Books, TimeoutsInOrder
    <3>2. CASE timeoutList' = Listed(j, b.timeout)
      <4>1. TimeoutsInOrder /\ \A i, k \in DOMAIN timeoutList : timeoutList[i] = timeoutList[k] => i = k
        BY <1>8 DEF Books, NoTwice
      <4> HIDE DEF T
      <4>2. T = [k \in Jobs |-> IF k = j THEN b.timeout ELSE job[k].timeout]
        BY DEF T
      <4>3. LET l == Listed(j, b.timeout)
            IN  /\ l \in Seq(Jobs)
                /\ \A i \in DOMAIN l : l[i] = j \/ \E k \in DOMAIN timeoutList : timeoutList[k] = l[i]
                /\ \A i, k \in DOMAIN l : l[i] = l[k] => i = k
                /\ \A i, k \in DOMAIN l : i < k => T[l[i]] <= T[l[k]]
        BY <1>0, <1>3, <2>0, <4>1, <4>2, ListedFacts
      <4> QED BY <3>2, <4>3 DEF NoTwice
    <3> QED BY <1>13, <3>1, <3>2
  <2>2. Typed'
    <3>1. DOMAIN jobs' \subseteq 1..MAX_COUNTER /\ \A k \in DOMAIN jobs' : jobs'[k] \in Jobs
      BY <1>0, <1>2, <1>13 DEF Typed
    <3>2. threads' \in [{"tick", "job", "worker"} -> {"none", "alive", "dead"}]
      BY <1>7, <1>13
    <3>3. unpacked' \subseteq outputQueue'
      BY <1>0, <1>1, <1>7 DEF Typed
    <3>4. processMessageQueue' \in Seq(MessageItems)
      BY <1>0, <1>5 DEF Typed
    <3> QED BY <1>0, <1>1, <1>5, <1>7, <1>11, <1>13, <2>1, <3>1, <3>2, <3>3, <3>4 DEF Typed
  <2>3. TimeoutsInOrder'
    <3>1. \A k \in Jobs : T[k] = job'[k].timeout
      BY <1>11, <1>13
    <3>2. \A i \in DOMAIN timeoutList' : timeoutList'[i] \in Jobs
      BY <2>1
    <3> HIDE DEF T
    <3> QED BY <2>1, <3>1, <3>2 DEF TimeoutsInOrder
  <2>4. \A k \in Jobs : IsListed(k)' => IsListed(k) \/ k = j
    BY <2>1 DEF IsListed
  <2>5. \A k \in Jobs : IsListed(k)' => /\ k \in ids' /\ k \notin preJobs'
                                       /\ \/ IsListed(k)
                                          \/ ~HasMessage(k)' /\ k \in {j}
    BY <1>5, <1>6, <1>8, <2>4
  <2>6. PICK J \in SUBSET Jobs : J = {j}
    OBVIOUS
  <2>7. /\ \A k \in Jobs \ J : job'[k] = job[k] /\ results'[k] = results[k]
        /\ \A k \in J :
              /\ State(k) # "UNUSED" /\ job'[k].client.state # "UNUSED"
              /\ results'[k] # <<>> => job'[k].client.state = "COMPLETE"
              /\ ~Pends(k)'
    BY <1>6, <1>10, <1>11, <1>13, <2>6
  <2>8. Answers' /\ NoTwice(timeoutList') /\ preJobs' \subseteq ids' /\ ids' \subseteq Jobs
    BY <1>7, <1>8, <2>1
  <2> HIDE DEF T
  <2> QED BY <1>6, <2>2, <2>3, <2>5, <2>6, <2>7, <2>8, BooksJobs
<1>14. ASSUME n \in DOMAIN jobs,
              LET other == jobs[n]
                  packed == [job EXCEPT ![j] = b]
                  given == Delivered(results, j, completes, Outcome(b.client, {}))
              IN  /\ job' = [packed EXCEPT ![other] = Abandoned(@, Cancelled(@.client))]
                  /\ results' = Delivered(given, other, CanAbandon(packed[other].client),
                                          [result |-> "CANCEL", of |-> {}]),
              jobs' = [k \in DOMAIN jobs \ {n} |-> jobs[k]], JobThreadDies,
              UNCHANGED <<timeoutList, outputQueue>>
       PROVE  Books'
  <2>1. PICK o \in Jobs : o = jobs[n]
    BY <1>0, <1>14 DEF Typed
  <2> DEFINE y == [result |-> "CANCEL", of |-> {}]
             f == [job EXCEPT ![j] = b]
             g == Delivered(results, j, completes, Outcome(b.client, {}))
             d(a) == Abandoned(a, Cancelled(a.client))
  <2>2. y \in OutcomeRecords /\ y.of = {}
    BY DEF OutcomeRecords, Results
  <2>3. /\ job \in [Jobs -> JobRecords] /\ results \in [Jobs -> Seq(OutcomeRecords)]
        /\ \A k \in Jobs : IsJob(job[k]) /\ job[k].client.state = State(k)
    BY <1>0 DEF Typed, State
  <2>4. \A a : IsJob(a) => /\ IsJob(d(a)) /\ d(a).timeout = a.timeout
                           /\ IF CanAbandon(a.client) THEN d(a).client.state = "COMPLETE" ELSE d(a) = a
    <3> SUFFICES ASSUME NEW a, IsJob(a)
                 PROVE  /\ IsJob(d(a)) /\ d(a).timeout = a.timeout
                        /\ IF CanAbandon(a.client) THEN d(a).client.state = "COMPLETE" ELSE d(a) = a
      OBVIOUS
    <3>1. Cancelled(a.client) = Complete(a.client, Every(a.client, "CANCEL"))
      BY DEF Cancelled
    <3> QED BY <3>1, AbandonedIsJob
  <2>5. /\ f \in [Jobs -> JobRecords] /\ f[j] = b /\ \A k \in Jobs : k # j => f[k] = job[k]
        /\ \A k \in Jobs : IsJob(f[k])
        /\ g \in [Jobs -> Seq(OutcomeRecords)] /\ \A k \in Jobs : k # j => g[k] = results[k]
        /\ g[j] # <<>> => b.client.state = "COMPLETE"
    <3>1. completes => Append(results[j], Outcome(b.client, {})) \in Seq(OutcomeRecords)
      <4>1. completes => Outcome(b.client, {}) \in OutcomeRecords
        BY <1>4 DEF Outcome, OutcomeRecords
      <4> QED BY <1>3, <4>1
    <3>2. f \in [Jobs -> JobRecords] /\ f[j] = b /\ \A k \in Jobs : k # j => f[k] = job[k]
      BY <1>4, <2>3 DEF IsJob
    <3>3. g \in [Jobs -> Seq(OutcomeRecords)] /\ \A k \in Jobs : k # j => g[k] = results[k]
      BY <2>3, <3>1 DEF Delivered
    <3>4. g[j] # <<>> => b.client.state = "COMPLETE"
      BY <1>4, <2>3 DEF Delivered
    <3> QED BY <1>4, <2>3, <3>2, <3>3, <3>4
  <2> HIDE DEF y, f, g, d
  <2>6. /\ job' = [f EXCEPT ![o] = d(f[o])]
        /\ results' = IF CanAbandon(f[o].client) THEN [g EXCEPT ![o] = Append(g[o], y)] ELSE g
    BY <1>14, <2>1 DEF y, f, g, d, Delivered
  <2>7. /\ job' \in [Jobs -> JobRecords] /\ \A k \in Jobs : IsJob(job'[k])
        /\ results' \in [Jobs -> Seq(OutcomeRecords)]
        /\ \A k \in Jobs : k # j /\ k # o => job'[k] = job[k] /\ results'[k] = results[k]
        /\ job'[j] = (IF o = j THEN d(b) ELSE b)
        /\ o # j => /\ job'[o] = d(job[o])
                   /\ results'[o] = (IF CanAbandon(job[o].client) THEN Append(results[o], y) ELSE results[o])
                   /\ results'[j] = g[j]
    <3>1. IsJob(d(f[o])) /\ d(f[o]) \in JobRecords
      BY <2>4, <2>5 DEF IsJob
    <3>2. Append(g[o], y) \in Seq(OutcomeRecords)
      BY <2>2, <2>5
    <3>3. job' \in [Jobs -> JobRecords] /\ job'[o] = d(f[o]) /\ \A k \in Jobs : k # o => job'[k] = f[k]
      BY <2>5, <2>6, <3>1
    <3>4. /\ results' \in [Jobs -> Seq(OutcomeRecords)] /\ \A k \in Jobs : k # o => results'[k] = g[k]
          /\ results'[o] = IF CanAbandon(f[o].client) THEN Append(g[o], y) ELSE g[o]
      BY <2>5, <2>6, <3>2
    <3> QED BY <2>5, <3>1, <3>3, <3>4
  <2>8. Typed'
    <3>1. DOMAIN jobs' \subseteq 1..MAX_COUNTER /\ \A k \in DOMAIN jobs' : jobs'[k] \in Jobs
      BY <1>0, <1>14 DEF Typed
    <3>2. threads' \in [{"tick", "job", "worker"} -> {"none", "alive", "dead"}]
      BY <1>7, <1>14
    <3> QED BY <1>0, <1>1, <1>5, <1>7, <1>14, <2>7, <3>1, <3>2 DEF Typed
  <2>9. \A k \in Jobs \ {j} : job'[k].timeout = job[k].timeout
    BY <2>3, <2>4, <2>7
  <2>10. TimeoutsInOrder'
    <3>1. \A i \in DOMAIN timeoutList : job'[timeoutList[i]].timeout = job[timeoutList[i]].timeout
      BY <1>9, <2>9
    <3>2. timeoutList' = timeoutList /\ TimeoutsInOrder
      BY <1>14 DEF Books
    <3> QED BY <3>1, <3>2 DEF TimeoutsInOrder
  <2>11. \A k \in Jobs : IsListed(k)' => IsListed(k)
    BY <1>14 DEF IsListed
  <2>12. PICK J \in SUBSET Jobs : J = IF CanAbandon(job[o].client) THEN {j, o} ELSE {j}
    OBVIOUS
  <2>13. \A k \in Jobs \ J : job'[k] = job[k] /\ results'[k] = results[k]
    BY <2>3, <2>4, <2>7, <2>12
  <2>14. /\ State(j) # "UNUSED" /\ job'[j].client.state # "UNUSED" /\ ~Pends(j)'
         /\ results'[j] # <<>> => job'[j].client.state = "COMPLETE"
    <3>1. CASE o = j
      <4>1. d(b).client.state = "COMPLETE"
        BY <1>4, <2>4 DEF CanAbandon
      <4> QED BY <1>6, <1>10, <2>7, <3>1, <4>1
    <3>2. CASE o # j
      BY <1>6, <1>10, <2>5, <2>7, <3>2
    <3> QED BY <3>1, <3>2
  <2>15. ASSUME o # j, CanAbandon(job[o].client)
         PROVE  /\ State(o) # "UNUSED" /\ job'[o].client.state = "COMPLETE"
                /\ Pends(o)' => \A i \in DOMAIN results'[o] : results'[o][i].of = {}
    <3>1. job'[o].client.state = "COMPLETE" /\ State(o) # "UNUSED"
      BY <2>3, <2>4, <2>7, <2>15 DEF CanAbandon
    <3>2. ASSUME Pends(o)' PROVE \A i \in DOMAIN results'[o] : results'[o][i].of = {}
      <4>1. \A i \in DOMAIN results[o] : results[o][i].of = {}
        BY <1>6, <3>2 DEF Books, Waits
      <4>2. results'[o] = Append(results[o], y) /\ results[o] \in Seq(OutcomeRecords)
        BY <2>3, <2>7, <2>15
      <4>3. /\ DOMAIN Append(results[o], y) = 1..(Len(results[o]) + 1) /\ Len(results[o]) \in Nat
            /\ DOMAIN results[o] = 1..Len(results[o])
            /\ \A i \in DOMAIN results[o] : Append(results[o], y)[i] = results[o][i]
            /\ Append(results[o], y)[Len(results[o]) + 1] = y
        BY <2>2, <4>2, AppendPlaces
      <4> QED BY <2>2, <4>1, <4>2, <4>3
    <3> QED BY <3>1, <3>2
  <2>16. \A k \in J :
              /\ State(k) # "UNUSED" /\ job'[k].client.state # "UNUSED"
              /\ results'[k] # <<>> => job'[k].client.state = "COMPLETE"
              /\ Pends(k)' => /\ job'[k].client.state \in {"PENDING", "COMPLETE"}
                              /\ \A i \in DOMAIN results'[k] : results'[k][i].of = {}
    <3> SUFFICES ASSUME NEW k \in J
                 PROVE  /\ State(k) # "UNUSED" /\ job'[k].client.state # "UNUSED"
                        /\ results'[k] # <<>> => job'[k].client.state = "COMPLETE"
                        /\ Pends(k)' => /\ job'[k].client.state \in {"PENDING", "COMPLETE"}
                                        /\ \A i \in DOMAIN results'[k] : results'[k][i].of = {}
      OBVIOUS
    <3>1. CASE k = j
      BY <2>14, <3>1
    <3>2. CASE k # j
      <4>1. k = o /\ o # j /\ CanAbandon(job[o].client)
        BY <2>12, <3>2
      <4> QED BY <2>15, <4>1
    <3> QED BY <3>1, <3>2
  <2>17. NoTwice(timeoutList') /\ Answers' /\ preJobs' \subseteq ids' /\ ids' \subseteq Jobs
    BY <1>7, <1>8, <1>14
  <2>18. \A k \in Jobs : IsListed(k)' => k \in ids' /\ k \notin preJobs' /\ IsListed(k)
    BY <1>8, <2>11
  <2> QED BY <1>6, <2>8, <2>10, <2>13, <2>16, <2>17, <2>18, BooksJobs
<1> QED BY <1>5, <1>12, <1>13, <1>14

LEMMA SendingIsItem ==
    ASSUME NEW j \in Jobs, NEW b
    PROVE  LET x == Sending(j, b)
           IN  /\ x \in MessageItems /\ x.type = "send" /\ x.job = j
               /\ (~x.empty) => HasOutput(b)
<1> DEFINE x == Sending(j, b)
           e == ~HasOutput(b)
<1>1. x = [type |-> "send", job |-> j, empty |-> e] /\ e \in BOOLEAN
  BY DEF Sending
<1>2. (~e) => HasOutput(b)
  BY DEF HasOutput, CanOutput
<1> HIDE DEF x, e
<1>3. x \in MessageItems /\ x.type = "send" /\ x.job = j /\ x.empty = e
  BY <1>1 DEF MessageItems
<1> QED BY <1>2, <1>3 DEF x

Left(l, rest) == l = [i \in DOMAIN rest |-> timeoutList[rest[i]]]
SentAgain(r, resent) ==
    r = [i \in DOMAIN resent |-> Sending(timeoutList[resent[i]], job[timeoutList[resent[i]]])]
OnlySends(r) == \A i \in DOMAIN r : r[i].type = "send"
SendsAll(r, retried) == \A k \in retried : At(r, SendsOf(k)) # {}
Ticked(retried, ended) ==
    /\ job' = [j \in Jobs |-> IF j \in retried THEN Output(job[j])
                              ELSE IF j \in ended THEN Abandoned(job[j], TimedOut(job[j].client))
                              ELSE job[j]]
    /\ results' = [j \in Jobs |-> IF j \in ended /\ CanAbandon(job[j].client)
                                  THEN Append(results[j], [result |-> "TIMEOUT", of |-> {}])
                                  ELSE results[j]]

\* What a tick leaves in the list, and which messages it sends.
LEMMA TickLists ==
    ASSUME Books, NEW retried \in SUBSET Expired,
           NEW rest \in InOrder(Places(Jobs \ Expired)), NEW resent \in InOrder(Places(retried)),
           NEW l, Left(l, rest), NEW r, SentAgain(r, resent)
    PROVE  /\ l \in Seq(Jobs) /\ NoTwice(l)
           /\ \A i \in DOMAIN l : l[i] \notin Expired /\ IsListed(l[i])
           /\ \A i, k \in DOMAIN l : i < k => job[l[i]].timeout <= job[l[k]].timeout
           /\ r \in Seq(MessageItems) /\ OnlySends(r) /\ SendsAll(r, retried)
           /\ \A k \in Jobs :
                 /\ Unique(At(r, SendsOf(k)))
                 /\ At(r, SendsOf(k)) # {} => k \in retried
                 /\ At(r, FullOf(k)) # {} => k \in retried /\ HasOutput(job[k])
<1>1. /\ timeoutList \in Seq(Jobs) /\ Len(timeoutList) \in Nat
      /\ DOMAIN timeoutList = 1..Len(timeoutList)
      /\ \A i \in DOMAIN timeoutList : timeoutList[i] \in Jobs
  BY DEF Books, Typed
<1>2. /\ \A i, k \in DOMAIN timeoutList : timeoutList[i] = timeoutList[k] => i = k
      /\ \A i, k \in DOMAIN timeoutList :
            i < k => job[timeoutList[i]].timeout <= job[timeoutList[k]].timeout
  BY DEF Books, Listings, TimeoutsInOrder
<1>3. /\ Places(Jobs \ Expired) \in SUBSET (1..Len(timeoutList))
      /\ Places(retried) \in SUBSET (1..Len(timeoutList))
  BY <1>1 DEF Places
<1>4. /\ \E m \in Nat : rest \in [1..m -> Places(Jobs \ Expired)]
      /\ \A i, k \in DOMAIN rest : rest[i] = rest[k] => i = k
      /\ \A i, k \in DOMAIN rest : i < k => rest[i] < rest[k]
      /\ \A i \in DOMAIN rest : rest[i] \in Places(Jobs \ Expired)
  BY <1>1, <1>3, OrderedPlaces
<1>5. /\ \E m \in Nat : resent \in [1..m -> Places(retried)]
      /\ \A i, k \in DOMAIN resent : resent[i] = resent[k] => i = k
      /\ \A i \in DOMAIN resent : resent[i] \in Places(retried)
  BY <1>1, <1>3, OrderedPlaces
<1>6. \A i \in DOMAIN rest : /\ rest[i] \in DOMAIN timeoutList
                            /\ timeoutList[rest[i]] \in Jobs /\ timeoutList[rest[i]] \notin Expired
  BY <1>1, <1>4 DEF Places
<1>7. \A i \in DOMAIN resent : /\ resent[i] \in DOMAIN timeoutList
                              /\ timeoutList[resent[i]] \in Jobs /\ timeoutList[resent[i]] \in retried
  BY <1>1, <1>5 DEF Places
<1>8. /\ l \in Seq(Jobs) /\ DOMAIN l = DOMAIN rest /\ \A i \in DOMAIN l : l[i] = timeoutList[rest[i]]
  <2>1. PICK m \in Nat : rest \in [1..m -> Places(Jobs \ Expired)]
    BY <1>4
  <2>2. DOMAIN rest = 1..m
    BY <2>1
  <2> QED BY <1>6, <2>2 DEF Left
<1>9. /\ NoTwice(l)
      /\ \A i \in DOMAIN l : l[i] \notin Expired /\ IsListed(l[i])
      /\ \A i, k \in DOMAIN l : i < k => job[l[i]].timeout <= job[l[k]].timeout
  BY <1>2, <1>4, <1>6, <1>8 DEF NoTwice, IsListed
<1>10. \A j \in Jobs : Sending(j, job[j]) \in MessageItems
  BY SendingIsItem
<1>11. \A j \in Jobs : Sending(j, job[j]).type = "send" /\ Sending(j, job[j]).job = j
  BY SendingIsItem
<1>16. \A j \in Jobs : (~Sending(j, job[j]).empty) => HasOutput(job[j])
  BY SendingIsItem
<1>12. /\ r \in Seq(MessageItems) /\ DOMAIN r = DOMAIN resent
       /\ \A i \in DOMAIN r : r[i] = Sending(timeoutList[resent[i]], job[timeoutList[resent[i]]])
  <2>1. PICK m \in Nat : resent \in [1..m -> Places(retried)]
    BY <1>5
  <2>2. DOMAIN resent = 1..m
    BY <2>1
  <2> DEFINE e(i) == Sending(timeoutList[resent[i]], job[timeoutList[resent[i]]])
  <2>3. r = [i \in 1..m |-> e(i)]
    BY <2>2 DEF SentAgain
  <2>5. \A i \in 1..m : e(i) \in MessageItems
    BY <1>7, <1>10, <2>2
  <2> HIDE DEF e
  <2>4. r \in Seq(MessageItems) /\ DOMAIN r = 1..m /\ \A i \in 1..m : r[i] = e(i)
    BY <2>3, <2>5
  <2>6. DOMAIN r = DOMAIN resent
    BY <2>2, <2>4
  <2>7. \A i \in DOMAIN r : r[i] = e(i)
    BY <2>4
  <2> QED BY <2>4, <2>6, <2>7 DEF e
<1>13. \A i \in DOMAIN r : r[i].type = "send" /\ r[i].job = timeoutList[resent[i]]
  BY <1>7, <1>11, <1>12
<1>15. \A i \in DOMAIN r : (~r[i].empty) => HasOutput(job[timeoutList[resent[i]]])
  BY <1>7, <1>12, <1>16
<1>14. ASSUME NEW k \in Jobs
       PROVE  /\ Unique(At(r, SendsOf(k)))
              /\ At(r, SendsOf(k)) # {} => k \in retried
              /\ At(r, FullOf(k)) # {} => k \in retried /\ HasOutput(job[k])
  <2>0. DOMAIN r = DOMAIN resent
    BY <1>12
  <2>1. \A i \in At(r, SendsOf(k)) : i \in DOMAIN resent /\ timeoutList[resent[i]] = k
    <3>1. \A i \in At(r, SendsOf(k)) : i \in DOMAIN r /\ r[i].job = k
      BY DEF At, SendsOf
    <3> QED BY <1>13, <2>0, <3>1
  <2>2. \A i \in At(r, FullOf(k)) : i \in DOMAIN resent /\ timeoutList[resent[i]] = k /\ HasOutput(job[k])
    <3>1. \A i \in At(r, FullOf(k)) : i \in DOMAIN r /\ r[i].job = k /\ ~r[i].empty
      BY DEF At, FullOf
    <3> QED BY <1>13, <1>15, <2>0, <3>1
  <2>3. Unique(At(r, SendsOf(k)))
    BY <1>2, <1>5, <1>7, <2>1 DEF Unique
  <2> QED BY <1>7, <2>1, <2>2, <2>3
<1>17. OnlySends(r)
  BY <1>13 DEF OnlySends
<1>18. ASSUME NEW k \in retried PROVE At(r, SendsOf(k)) # {}
  <2>1. PICK p \in Places(retried) : timeoutList[p] = k
    BY DEF Expired, Visited, Places
  <2>2. \A q \in Places(retried) : \E i \in DOMAIN resent : resent[i] = q
    BY <1>1, <1>3, OrderedPlaces
  <2>3. PICK i \in DOMAIN resent : resent[i] = p
    BY <2>1, <2>2
  <2>4. r \in Seq(MessageItems) /\ i \in DOMAIN r
    BY <1>12, <2>3
  <2>5. r[i] \in MessageItems /\ r[i].type = "send" /\ r[i].job = k
    BY <1>13, <2>1, <2>3, <2>4
  <2> QED BY <2>4, <2>5 DEF At, SendsOf
<1>19. SendsAll(r, retried)
  BY <1>18 DEF SendsAll
<1> QED BY <1>8, <1>9, <1>12, <1>14, <1>17, <1>19

\* What a tick makes of the jobs that expired.
LEMMA TickJobs ==
    ASSUME Typed, NEW retried \in SUBSET Jobs, NEW ended \in SUBSET Jobs, retried \cap ended = {},
           Ticked(retried, ended)
    PROVE  /\ job' \in [Jobs -> JobRecords] /\ \A k \in Jobs : IsJob(job'[k])
           /\ results' \in [Jobs -> Seq(OutcomeRecords)]
           /\ \A k \in Jobs : k \notin retried /\ k \notin ended =>
                 job'[k] = job[k] /\ results'[k] = results[k]
           /\ \A k \in retried :
                 /\ results'[k] = results[k]
                 /\ job'[k].client.state = (IF HasOutput(job[k]) THEN "PENDING" ELSE State(k))
                 /\ HasOutput(job[k]) => State(k) \in {"INIT", "PENDING", "SENT"}
           /\ \A k \in ended :
                 IF CanAbandon(job[k].client) THEN job'[k].client.state = "COMPLETE"
                 ELSE job'[k] = job[k] /\ results'[k] = results[k]
<1> DEFINE y == [result |-> "TIMEOUT", of |-> {}]
<1>1. y \in OutcomeRecords
  BY DEF OutcomeRecords, Results
<1> HIDE DEF y
<1>2. \A k \in Jobs : IsJob(job[k]) /\ results[k] \in Seq(OutcomeRecords)
  BY DEF Typed
<1>3. \A k \in Jobs : IsJob(Output(job[k])) /\ Output(job[k]) \in JobRecords
  BY <1>2, OutputIsJob DEF IsJob
<1>15. \A k \in Jobs : Output(job[k]).client.state = (IF HasOutput(job[k]) THEN "PENDING" ELSE State(k))
  BY <1>2, OutputIsJob DEF State
<1>16. \A k \in Jobs : HasOutput(job[k]) => State(k) \in {"INIT", "PENDING", "SENT"}
  BY <1>2, OutputIsJob DEF State
<1> DEFINE d(k) == Abandoned(job[k], TimedOut(job[k].client))
<1>17. \A k \in Jobs : TimedOut(job[k].client) = Complete(job[k].client, Every(job[k].client, "TIMEOUT"))
  BY DEF TimedOut
<1>4. \A k \in Jobs : IsJob(d(k)) /\ d(k) \in JobRecords
  BY <1>2, <1>17, AbandonedIsJob DEF IsJob
<1>18. \A k \in Jobs : IF CanAbandon(job[k].client) THEN d(k).client.state = "COMPLETE" ELSE d(k) = job[k]
  BY <1>2, <1>17, AbandonedIsJob
<1>5. \A k \in Jobs : job'[k] = IF k \in retried THEN Output(job[k])
                                ELSE IF k \in ended THEN d(k) ELSE job[k]
  BY DEF Ticked
<1>6. \A k \in Jobs : results'[k] = IF k \in ended /\ CanAbandon(job[k].client)
                                    THEN Append(results[k], y) ELSE results[k]
  BY DEF Ticked, y
<1>7. DOMAIN job' = Jobs /\ DOMAIN results' = Jobs
  BY DEF Ticked
<1> HIDE DEF d
<1>8. ASSUME NEW k \in Jobs PROVE IsJob(job'[k]) /\ job'[k] \in JobRecords
  <2>1. IsJob(job[k]) /\ job[k] \in JobRecords
    BY <1>2 DEF IsJob
  <2>2. job'[k] = Output(job[k]) \/ job'[k] = d(k) \/ job'[k] = job[k]
    BY <1>5
  <2>3. /\ IsJob(Output(job[k])) /\ Output(job[k]) \in JobRecords
        /\ IsJob(d(k)) /\ d(k) \in JobRecords
    BY <1>3, <1>4
  <2> QED BY <2>1, <2>2, <2>3
<1>9. ASSUME NEW k \in Jobs PROVE results'[k] \in Seq(OutcomeRecords)
  <2>1. Append(results[k], y) \in Seq(OutcomeRecords)
    BY <1>1, <1>2
  <2>2. results'[k] = Append(results[k], y) \/ results'[k] = results[k]
    BY <1>6
  <2> QED BY <1>2, <2>1, <2>2
<1>10. job' \in [Jobs -> JobRecords]
  <2>1. job' = [k \in Jobs |-> job'[k]]
    BY DEF Ticked
  <2> QED BY <1>8, <2>1
<1>11. results' \in [Jobs -> Seq(OutcomeRecords)]
  <2>1. results' = [k \in Jobs |-> results'[k]]
    BY DEF Ticked
  <2> QED BY <1>9, <2>1
<1>12. \A k \in Jobs : k \notin retried /\ k \notin ended =>
             job'[k] = job[k] /\ results'[k] = results[k]
  BY <1>5, <1>6
<1>13. ASSUME NEW k \in retried
       PROVE  /\ results'[k] = results[k]
              /\ job'[k].client.state = (IF HasOutput(job[k]) THEN "PENDING" ELSE State(k))
              /\ HasOutput(job[k]) => State(k) \in {"INIT", "PENDING", "SENT"}
  <2>1. k \in Jobs /\ k \notin ended
    OBVIOUS
  <2>2. job'[k] = Output(job[k])
    BY <1>5, <2>1
  <2>3. results'[k] = results[k]
    BY <1>6, <2>1
  <2>4. /\ Output(job[k]).client.state = (IF HasOutput(job[k]) THEN "PENDING" ELSE State(k))
        /\ HasOutput(job[k]) => State(k) \in {"INIT", "PENDING", "SENT"}
    BY <1>15, <1>16, <2>1
  <2> QED BY <2>2, <2>3, <2>4
<1>14. ASSUME NEW k \in ended
       PROVE  IF CanAbandon(job[k].client) THEN job'[k].client.state = "COMPLETE"
              ELSE job'[k] = job[k] /\ results'[k] = results[k]
  <2>1. k \in Jobs /\ k \notin retried
    OBVIOUS
  <2>2. job'[k] = d(k)
    BY <1>5, <2>1
  <2>3. ~CanAbandon(job[k].client) => results'[k] = results[k]
    BY <1>6, <2>1
  <2>4. IF CanAbandon(job[k].client) THEN d(k).client.state = "COMPLETE" ELSE d(k) = job[k]
    BY <1>18, <2>1
  <2> QED BY <2>2, <2>3, <2>4
<1> QED BY <1>8, <1>10, <1>11, <1>12, <1>13, <1>14

LEMMA BooksNotifyTick ==
    ASSUME Books, NotifyTick
    PROVE  Books'
<1>0. TakeJob("notifyTick") /\ Typed
  BY DEF NotifyTick, Books
<1>1. /\ processJobQueue # <<>> /\ processJobQueue' = Tail(processJobQueue)
      /\ processJobQueue \in Seq(JobItems) /\ processJobQueue' \in Seq(JobItems)
      /\ \A i \in DOMAIN processJobQueue' :
           i + 1 \in DOMAIN processJobQueue /\ processJobQueue'[i] = processJobQueue[i + 1]
      /\ running' = running /\ jobsIsArray' = jobsIsArray /\ now' = now
      /\ association' = association /\ created' = created
      /\ invocationCounter' = invocationCounter /\ crossed' = crossed
      /\ unpacked' = unpacked /\ incoming' = incoming /\ stops' = stops
  BY <1>0, TakenItem
<1> DEFINE retried == {j \in Expired : Retry(job[j])}
           ended == Expired \ retried
<1>2. /\ jobs' = jobs /\ outputQueue' = outputQueue /\ ids' = ids \ ended
      /\ preJobs' = preJobs \cup retried
  BY DEF NotifyTick, Again
<1>3. threads' \in [{"tick", "job", "worker"} -> {"none", "alive", "dead"}]
  BY <1>0 DEF NotifyTick, Typed
<1>4. Ticked(retried, ended)
  BY DEF NotifyTick, Ticked
<1>5. PICK rest \in InOrder(Places(Jobs \ Expired)), resent \in InOrder(Places(retried)) :
        /\ timeoutList' = [i \in DOMAIN rest |-> timeoutList[rest[i]]]
        /\ processMessageQueue' = processMessageQueue \o
               [i \in DOMAIN resent |->
                   Sending(timeoutList[resent[i]], job[timeoutList[resent[i]]])]
  BY DEF NotifyTick
<1>6. PICK r : r = [i \in DOMAIN resent |->
                      Sending(timeoutList[resent[i]], job[timeoutList[resent[i]]])]
  OBVIOUS
<1>7. PICK l : l = [i \in DOMAIN rest |-> timeoutList[rest[i]]]
  OBVIOUS
<1>8. timeoutList' = l /\ processMessageQueue' = processMessageQueue \o r
  BY <1>5, <1>6, <1>7
<1>9. Left(l, rest) /\ SentAgain(r, resent) /\ retried \in SUBSET Expired
  BY <1>6, <1>7 DEF Left, SentAgain
<1> HIDE DEF retried, ended
<1>10. /\ l \in Seq(Jobs) /\ NoTwice(l)
       /\ \A i \in DOMAIN l : l[i] \notin Expired /\ IsListed(l[i])
       /\ \A i, k \in DOMAIN l : i < k => job[l[i]].timeout <= job[l[k]].timeout
       /\ r \in Seq(MessageItems)
       /\ \A i \in DOMAIN r : r[i].type = "send"
  <2>1. l \in Seq(Jobs) /\ NoTwice(l) /\ r \in Seq(MessageItems)
    BY <1>9, TickLists
  <2>2. \A i \in DOMAIN l : l[i] \notin Expired /\ IsListed(l[i])
    BY <1>9, TickLists
  <2>3. \A i, k \in DOMAIN l : i < k => job[l[i]].timeout <= job[l[k]].timeout
    BY <1>9, TickLists
  <2>4. \A i \in DOMAIN r : r[i].type = "send"
    <3>1. OnlySends(r)
      BY <1>9, TickLists
    <3> QED BY <3>1 DEF OnlySends
  <2> QED BY <2>1, <2>2, <2>3, <2>4
<1>11. \A k \in Jobs : Unique(At(r, SendsOf(k)))
  BY <1>9, TickLists
<1>12. \A k \in Jobs : At(r, SendsOf(k)) # {} => k \in retried
  BY <1>9, TickLists
<1>13. \A k \in Jobs : At(r, FullOf(k)) # {} => k \in retried /\ HasOutput(job[k])
  BY <1>9, TickLists
<1>14. Expired \in SUBSET Jobs /\ \A k \in Expired : IsListed(k)
  <2>1. \A i \in DOMAIN timeoutList : timeoutList[i] \in Jobs
    BY <1>0 DEF Typed
  <2>2. Expired \subseteq {timeoutList[i] : i \in DOMAIN timeoutList}
    BY DEF Expired, Visited
  <2> QED BY <2>1, <2>2 DEF IsListed
<1>15. /\ retried \in SUBSET Jobs /\ ended \in SUBSET Jobs /\ retried \cap ended = {}
       /\ retried \cup ended = Expired
  BY <1>9, <1>14 DEF ended
<1>16. \A k \in Expired : /\ k \in Jobs /\ k \in ids /\ k \notin preJobs /\ State(k) # "UNUSED"
                         /\ ~HasMessage(k) /\ ~Pends(k)
  <2>1. \A k \in Expired : k \in Jobs /\ k \in ids /\ k \notin preJobs /\ State(k) # "UNUSED"
    BY <1>14 DEF Books, Listings
  <2>2. \A k \in Expired : ~HasMessage(k)
    BY <1>14 DEF Books, Messages
  <2>3. \A k \in Jobs : Pends(k) => HasMessage(k)
    BY PendsHasMessage
  <2> QED BY <2>1, <2>2, <2>3
<1>17. /\ job' \in [Jobs -> JobRecords] /\ \A k \in Jobs : IsJob(job'[k])
       /\ results' \in [Jobs -> Seq(OutcomeRecords)]
       /\ \A k \in Jobs : k \notin retried /\ k \notin ended =>
             job'[k] = job[k] /\ results'[k] = results[k]
  BY <1>0, <1>4, <1>15, TickJobs
<1>18. \A k \in retried : results'[k] = results[k]
  BY <1>0, <1>4, <1>15, TickJobs
<1>19. \A k \in retried : job'[k].client.state = (IF HasOutput(job[k]) THEN "PENDING" ELSE State(k))
  BY <1>0, <1>4, <1>15, TickJobs
<1>20. \A k \in retried : HasOutput(job[k]) => State(k) \in {"INIT", "PENDING", "SENT"}
  BY <1>0, <1>4, <1>15, TickJobs
<1>21. \A k \in ended : IF CanAbandon(job[k].client) THEN job'[k].client.state = "COMPLETE"
                       ELSE job'[k] = job[k] /\ results'[k] = results[k]
  BY <1>0, <1>4, <1>15, TickJobs
<1>22. processMessageQueue \in Seq(MessageItems) /\ processMessageQueue' \in Seq(MessageItems)
  <2>1. processMessageQueue \in Seq(MessageItems)
    BY <1>0 DEF Typed
  <2> QED BY <1>8, <1>10, <2>1, ConcatPlaces
<1>23. Typed'
  BY <1>0, <1>1, <1>2, <1>3, <1>8, <1>10, <1>17, <1>22 DEF Typed
<1>24. Answers'
  <2>1. \A i \in DOMAIN processMessageQueue' :
           processMessageQueue'[i].type = "receive" => processMessageQueue'[i].answers \in outputQueue'
    <3>1. \A i \in DOMAIN processMessageQueue' :
             \/ i \in DOMAIN processMessageQueue /\ processMessageQueue'[i] = processMessageQueue[i]
             \/ processMessageQueue'[i].type = "send"
      BY <1>8, <1>10, <1>22, ConcatPlaces
    <3> QED BY <1>2, <3>1 DEF Books, Answers
  <2>2. \A i \in DOMAIN processJobQueue' :
           processJobQueue'[i].type = "processMessage" => processJobQueue'[i].of \subseteq outputQueue'
    BY <1>1, <1>2 DEF Books, Answers
  <2> QED BY <2>1, <2>2 DEF Answers
<1>25. ASSUME NEW k \in Jobs
       PROVE  /\ Unique(Sends(k)') /\ Unique(Notices(k)') /\ Unique(News(k)')
              /\ Sends(k)' = {} \/ Notices(k)' = {}
              /\ HasMessage(k)' => HasMessage(k) \/ k \in retried
              /\ Pends(k)' => Pends(k) \/ k \in retried
              /\ News(k)' # {} => News(k) # {}
  <2>1. /\ Unique(Sends(k)) /\ Unique(Notices(k)) /\ Unique(News(k))
        /\ Sends(k) = {} \/ Notices(k) = {}
    BY DEF Books, Messages
  <2>2. /\ Unique(Notices(k)') /\ Unique(News(k)')
        /\ Notices(k)' # {} => Notices(k) # {}
        /\ News(k)' # {} => News(k) # {}
        /\ At(processJobQueue', PackedOf(k)) # {} => At(processJobQueue, PackedOf(k)) # {}
    BY <1>0, <1>1, <2>1, JobQueueTail
  <2>3. At(r, SendsOf(k)) # {} => Sends(k) = {} /\ Notices(k) = {}
    BY <1>12, <1>15, <1>16 DEF HasMessage
  <2>4. Unique(Sends(k)')
    BY <1>8, <1>10, <1>11, <1>22, <2>1, <2>3, AtConcat DEF Sends
  <2>5. Sends(k)' # {} => Sends(k) # {} \/ At(r, SendsOf(k)) # {}
    BY <1>8, <1>10, <1>22, AtConcat DEF Sends
  <2>6. At(processMessageQueue', FullOf(k)) # {} =>
           At(processMessageQueue, FullOf(k)) # {} \/ At(r, FullOf(k)) # {}
    BY <1>8, <1>10, <1>22, AtConcat
  <2>7. At(r, FullOf(k)) # {} => k \in retried
    BY <1>13
  <2> QED BY <1>12, <2>1, <2>2, <2>3, <2>4, <2>5, <2>6, <2>7 DEF HasMessage, Pends
<1>26. \A k \in Jobs : Pends(k)' /\ k \in retried => HasOutput(job[k])
  <2> SUFFICES ASSUME NEW k \in Jobs, Pends(k)', k \in retried PROVE HasOutput(job[k])
    OBVIOUS
  <2>1. ~Pends(k) /\ Notices(k) = {}
    BY <1>15, <1>16 DEF HasMessage
  <2>2. At(processJobQueue', PackedOf(k)) = {}
    <3>1. Unique(Notices(k)) /\ Unique(News(k))
      BY DEF Books, Messages
    <3>2. At(processJobQueue', PackedOf(k)) # {} => At(processJobQueue, PackedOf(k)) # {}
      BY <1>0, <1>1, <3>1, JobQueueTail
    <3> QED BY <2>1, <3>2 DEF Pends
  <2>3. At(processMessageQueue', FullOf(k)) # {} =>
           At(processMessageQueue, FullOf(k)) # {} \/ At(r, FullOf(k)) # {}
    BY <1>8, <1>10, <1>22, AtConcat
  <2>4. At(r, FullOf(k)) # {}
    BY <2>1, <2>2, <2>3 DEF Pends
  <2> QED BY <1>13, <2>4
<1>27. \A k \in Jobs : IsListed(k)' => IsListed(k) /\ k \notin Expired
  <2> SUFFICES ASSUME NEW k \in Jobs, IsListed(k)' PROVE IsListed(k) /\ k \notin Expired
    OBVIOUS
  <2>1. \E i \in DOMAIN l : l[i] = k
    BY <1>8 DEF IsListed
  <2> QED BY <1>10, <2>1
<1>28. /\ \A k \in Jobs : k \notin Expired => State(k)' = State(k)
       /\ \A k \in Expired : State(k)' # "UNUSED"
  <2>1. \A k \in Jobs : State(k)' = job'[k].client.state
    BY DEF State
  <2>2. \A k \in Jobs : k \notin Expired => State(k)' = State(k)
    BY <1>15, <1>17, <2>1 DEF State
  <2>3. \A k \in retried : State(k)' # "UNUSED"
    BY <1>15, <1>16, <1>19, <2>1
  <2>4. \A k \in ended : State(k)' # "UNUSED"
    BY <1>15, <1>16, <1>21, <2>1 DEF State
  <2> QED BY <1>15, <2>2, <2>3, <2>4
<1>29. Messages'
  <2> SUFFICES ASSUME NEW k \in Jobs
               PROVE  /\ Unique(Sends(k)') /\ Unique(Notices(k)') /\ Unique(News(k)')
                      /\ Sends(k)' = {} \/ Notices(k)' = {}
                      /\ HasMessage(k)' => ~IsListed(k)' /\ State(k)' # "UNUSED"
                      /\ News(k)' # {} => State(k)' = "UNUSED"
    BY DEF Messages
  <2>1. CASE k \in Expired
    <3>1. News(k) = {} /\ ~IsListed(k)'
      BY <1>16, <1>27, <2>1 DEF Books, Messages
    <3> QED BY <1>25, <1>28, <2>1, <3>1
  <2>2. CASE k \notin Expired
    BY <1>15, <1>25, <1>27, <1>28, <2>2 DEF Books, Messages
  <2> QED BY <2>1, <2>2
<1>30. Listings'
  <2>1. preJobs' \subseteq ids' /\ ids' \subseteq Jobs
    BY <1>2, <1>15, <1>16 DEF Books, Listings
  <2>2. \A i, k \in DOMAIN timeoutList' : timeoutList'[i] = timeoutList'[k] => i = k
    BY <1>8, <1>10 DEF NoTwice
  <2>3. ASSUME NEW k \in Jobs, IsListed(k)' PROVE k \in ids' /\ k \notin preJobs' /\ State(k)' # "UNUSED"
    <3>1. IsListed(k) /\ k \notin Expired
      BY <1>27, <2>3
    <3>2. k \in ids /\ k \notin preJobs /\ State(k) # "UNUSED"
      BY <3>1 DEF Books, Listings
    <3> QED BY <1>2, <1>15, <1>28, <3>1, <3>2
  <2> QED BY <2>1, <2>2, <2>3 DEF Listings
<1>31. Waits'
  <2> SUFFICES ASSUME NEW k \in Jobs
               PROVE  /\ results'[k] # <<>> => State(k)' = "COMPLETE"
                      /\ Pends(k)' => /\ State(k)' \in {"PENDING", "COMPLETE"}
                                      /\ \A i \in DOMAIN results'[k] : results'[k][i].of = {}
    BY DEF Waits
  <2>0. /\ results[k] # <<>> => State(k) = "COMPLETE"
        /\ Pends(k) => /\ State(k) \in {"PENDING", "COMPLETE"}
                       /\ \A i \in DOMAIN results[k] : results[k][i].of = {}
    BY DEF Books, Waits
  <2>1. CASE k \in retried
    <3>1. Pends(k)' => HasOutput(job[k])
      BY <1>26, <2>1
    <3>2. HasOutput(job[k]) => results[k] = <<>>
      BY <1>20, <2>0, <2>1
    <3>3. State(k)' = (IF HasOutput(job[k]) THEN "PENDING" ELSE State(k)) /\ results'[k] = results[k]
      BY <1>18, <1>19, <2>1 DEF State
    <3> QED BY <2>0, <3>1, <3>2, <3>3
  <2>2. CASE k \in ended
    <3>1. ~Pends(k)'
      BY <1>15, <1>16, <1>25, <2>2
    <3>2. IF CanAbandon(job[k].client) THEN State(k)' = "COMPLETE"
          ELSE State(k)' = State(k) /\ results'[k] = results[k]
      BY <1>21, <2>2 DEF State
    <3> QED BY <2>0, <3>1, <3>2
  <2>3. CASE k \notin retried /\ k \notin ended
    <3>1. State(k)' = State(k) /\ results'[k] = results[k]
      BY <1>17, <2>3 DEF State
    <3>2. Pends(k)' => Pends(k)
      BY <1>25, <2>3
    <3> QED BY <2>0, <3>1, <3>2
  <2> QED BY <2>1, <2>2, <2>3
<1>32. TimeoutsInOrder'
  <2>1. \A i \in DOMAIN l : l[i] \in Jobs /\ l[i] \notin retried /\ l[i] \notin ended
    BY <1>10, <1>15
  <2>2. \A i \in DOMAIN l : job'[l[i]] = job[l[i]]
    BY <1>17, <2>1
  <2>3. \A i, k \in DOMAIN l : i < k => job'[l[i]].timeout <= job'[l[k]].timeout
    BY <1>10, <2>2
  <2> QED BY <1>8, <2>3 DEF TimeoutsInOrder
<1> QED BY <1>23, <1>24, <1>29, <1>30, <1>31, <1>32 DEF Books

LEMMA BooksNext == Books /\ [Next]_vars => Books'
<1> SUFFICES ASSUME Books, [Next]_vars
             PROVE  Books'
  OBVIOUS
<1>1. CASE Start \/ Stop \/ Pass \/ Delete \/ Create
  BY <1>1, BooksEnvironment
<1>2. CASE Input
  BY <1>2, BooksInput
<1>3. ASSUME NEW j \in Jobs, Request(j) PROVE Books'
  BY <1>3, BooksRequest
<1>4. CASE ProcessTick
  BY <1>4, BooksProcessTick
<1>5. CASE Work
  BY <1>5, BooksNewJob, BooksNotifyNotSent, BooksNotifyPacked, BooksNotifyTick, BooksProcessMessage,
     BooksMissingPreJob DEF Work
<1>6. CASE Pack
  BY <1>6, BooksSend, BooksReceive, BooksDropped DEF Pack
<1>7. CASE UNCHANGED vars
  <2>1. /\ processJobQueue' = processJobQueue /\ processMessageQueue' = processMessageQueue
        /\ outputQueue' = outputQueue /\ job' = job /\ results' = results /\ ids' = ids
        /\ timeoutList' = timeoutList /\ preJobs' = preJobs
    BY <1>7 DEF vars, peerVars
  <2>2. Typed'
    BY <1>7 DEF vars, peerVars, dbVars, Books, Typed
  <2> QED BY <2>1, <2>2, BooksUnchanged
<1> QED BY <1>1, <1>2, <1>3, <1>4, <1>5, <1>6, <1>7 DEF Next

\* Whatever the threads, the network and the administration do, the queues, the
\* lists and the jobs of a peer agree as Books says: one message at a time is
\* under way about a job, and none about a job in the list of timeouts.
THEOREM BooksAlways == Spec => []Books
<1>1. Books /\ [Next]_vars => Books'
  BY BooksNext
<1> QED BY <1>1, BooksInit, PTL DEF Spec

LEMMA BooksTypes == Books => TypeOK
<1> SUFFICES ASSUME Books PROVE TypeOK
  OBVIOUS
<1>1. Typed /\ Answers /\ Listings
  BY DEF Books
<1>2. ASSUME NEW i \in DOMAIN processJobQueue PROVE JobItem(processJobQueue[i])
  <2> DEFINE x == processJobQueue[i]
  <2>1. x \in JobItems
    BY <1>1 DEF Typed
  <2>2. x.type = "processMessage" => x.of \subseteq outputQueue
    BY <1>1 DEF Answers
  <2> HIDE DEF x
  <2>3. JobItem(x)
    <3>1. CASE x.type = "notifyTick"
      BY <3>1 DEF JobItem
    <3>2. CASE x.type = "newJob"
      BY <2>1, <3>2, JobItemFields DEF JobItem
    <3>3. CASE x.type = "notifyNotSent"
      BY <2>1, <3>3, JobItemFields DEF JobItem
    <3>4. CASE x.type = "notifyPacked"
      <4>1. x.time \in 0..MaxTime /\ [job |-> x.job, gen |-> x.gen, counter |-> x.counter] \in Transmissions
        BY <2>1, <3>4 DEF JobItems, Transmissions
      <4> QED BY <3>4, <4>1 DEF JobItem
    <3>5. CASE x.type = "processMessage"
      <4>1. x.counter \in 0..(RES_MOD - 1) /\ x.results \in Responses
        BY <2>1, <3>5 DEF JobItems
      <4> QED BY <2>2, <3>5, <4>1 DEF JobItem
    <3> QED BY <2>1, <3>1, <3>2, <3>3, <3>4, <3>5, JobItemFields
  <2> QED BY <2>3 DEF x
<1>3. ASSUME NEW i \in DOMAIN processMessageQueue PROVE MessageItem(processMessageQueue[i])
  <2> DEFINE x == processMessageQueue[i]
  <2>1. x \in MessageItems
    BY <1>1 DEF Typed
  <2>2. x.type = "receive" => x.answers \in outputQueue
    BY <1>1 DEF Answers
  <2> HIDE DEF x
  <2>3. MessageItem(x)
    BY <2>1, <2>2, MessageItemFields DEF MessageItem
  <2> QED BY <2>3 DEF x
<1>4. \A j \in Jobs : job[j].client.state \in States /\ job[j].client.counter \in 0..(RES_MOD - 1)
  BY <1>1 DEF Typed, IsJob, IsClient, ClientRecords
<1>5. association \in 0..created
  BY <1>1 DEF Typed
<1> QED BY <1>1, <1>2, <1>3, <1>4, <1>5 DEF Typed, Listings, TypeOK

\* Types: what the queues hold has the shape its type has, and no invocation
\* counter passes the largest value.
THEOREM TypeCorrect == Spec => []TypeOK
  BY BooksAlways, BooksTypes, PTL

\* The list of timeouts is in order of time, however jobs enter and leave it: a
\* tick may stop at the first job that is not due.
THEOREM TimeoutsAlwaysInOrder == Spec => []TimeoutsInOrder
<1>1. Books => TimeoutsInOrder
  BY DEF Books
<1> QED BY <1>1, BooksAlways, PTL

-----------------------------------------------------------------------------
(* The order of the messages *)

\* What most steps do to the job queue, the clock of creations and counters,
\* the jobs and the results.
SameQueue ==
    \E d \in {0, 1} : \A i \in DOMAIN processJobQueue' :
        processJobQueue'[i].type \in {"notifyPacked", "processMessage"} =>
            i + d \in DOMAIN processJobQueue /\ processJobQueue'[i] = processJobQueue[i + d]
Later ==
    \/ created' = created /\ invocationCounter' = invocationCounter
    \/ created' = created /\ invocationCounter' = invocationCounter + 1
    \/ created' \in Nat /\ created < created'
FewerRoutes ==
    /\ jobsIsArray' => DOMAIN jobs' = {}
    /\ DOMAIN jobs' \subseteq DOMAIN jobs /\ \A n \in DOMAIN jobs' : jobs'[n] = jobs[n]
FewerSent ==
    \A k \in Jobs : job'[k].client.state = "SENT" =>
        job[k].client.state = "SENT" /\ job'[k].client.counter = job[k].client.counter
NoAnswer ==
    \A k \in Jobs : \A i \in DOMAIN results'[k] :
        results'[k][i].of = {} \/ (i \in DOMAIN results[k] /\ results'[k][i] = results[k][i])

LEMMA BeforeFacts ==
    ASSUME NEW a, NEW b, a.gen \in Nat, a.counter \in Nat, b.gen \in Nat, b.counter \in Nat
    PROVE  /\ ~Before(a, a)
           /\ Before(a, b) => a.gen <= b.gen /\ ~(a.gen = b.gen /\ a.counter = b.counter)
           /\ Before(a, b) => ~Before(b, a)
  BY DEF Before

LEMMA PackedFields ==
    ASSUME Typed
    PROVE  \A i \in DOMAIN processJobQueue : IsPacked(i) =>
              processJobQueue[i].gen \in Nat /\ processJobQueue[i].counter \in Nat
<1>1. \A i \in DOMAIN processJobQueue : processJobQueue[i] \in JobItems
  BY DEF Typed
<1> QED BY <1>1, JobItemFields DEF IsPacked

LEMMA OutputFields ==
    ASSUME Typed
    PROVE  \A t \in outputQueue : /\ t.job \in Jobs /\ t.gen \in Nat /\ t.counter \in Nat
                                  /\ t.counter \in 1..MAX_COUNTER
<1>1. \A t \in outputQueue : t \in Transmissions
  BY DEF Typed
<1> QED BY <1>1, TransmissionFields

\* Creations and counters are numbers.
LEMMA TypedNumbers == Typed => created \in Nat /\ invocationCounter \in Nat
<1> SUFFICES ASSUME Typed PROVE created \in Nat /\ invocationCounter \in Nat
  OBVIOUS
<1>1. created \in 1..MaxCreated /\ invocationCounter \in 0..MAX_COUNTER
  BY Zenon DEF Typed
<1>2. MaxCreated \in Nat /\ MAX_COUNTER \in Nat
  BY WrangleAssumption
<1> QED BY <1>1, <1>2

LEMMA TypedNumbersAfter == Typed' => created' \in Nat /\ invocationCounter' \in Nat
<1> SUFFICES ASSUME Typed' PROVE created' \in Nat /\ invocationCounter' \in Nat
  OBVIOUS
<1>1. created' \in 1..MaxCreated /\ invocationCounter' \in 0..MAX_COUNTER
  BY Zenon DEF Typed
<1>2. MaxCreated \in Nat /\ MAX_COUNTER \in Nat
  BY WrangleAssumption
<1> QED BY <1>1, <1>2

\* A counter that was used stays used.
LEMMA StaysUsed ==
    ASSUME Typed, Later, NEW x, x.gen \in Nat, x.counter \in Nat, Used(x, created, invocationCounter)
    PROVE  Used(x, created', invocationCounter')
<1>1. created \in Nat /\ invocationCounter \in Nat
  BY TypedNumbers
<1> QED BY <1>1 DEF Later, Used

\* The messages that wait for the job thread, as most steps leave them.
LEMMA SamePlaces ==
    ASSUME Typed, Typed', SameQueue
    PROVE  \E d \in {0, 1} :
               /\ \A i \in DOMAIN processJobQueue' : i \in Nat
               /\ \A i \in DOMAIN processJobQueue' :
                    processJobQueue'[i].type = "notifyPacked" =>
                        /\ i + d \in DOMAIN processJobQueue /\ processJobQueue'[i] = processJobQueue[i + d]
                        /\ IsPacked(i + d)
               /\ \A i \in DOMAIN processJobQueue' :
                    processJobQueue'[i].type = "processMessage" =>
                        i + d \in DOMAIN processJobQueue /\ processJobQueue'[i] = processJobQueue[i + d]
<1>1. PICK d \in {0, 1} : \A i \in DOMAIN processJobQueue' :
          processJobQueue'[i].type \in {"notifyPacked", "processMessage"} =>
             i + d \in DOMAIN processJobQueue /\ processJobQueue'[i] = processJobQueue[i + d]
  BY DEF SameQueue
<1>2. \A i \in DOMAIN processJobQueue' : i \in Nat
  <2>1. processJobQueue' \in Seq(JobItems)
    BY DEF Typed
  <2> QED BY <2>1
<1>3. \A i \in DOMAIN processJobQueue' :
          processJobQueue'[i].type = "notifyPacked" =>
             /\ i + d \in DOMAIN processJobQueue /\ processJobQueue'[i] = processJobQueue[i + d]
             /\ IsPacked(i + d)
  BY <1>1 DEF IsPacked
<1> QED BY <1>1, <1>2, <1>3

LEMMA CountedFrame ==
    ASSUME Typed, Typed', Counted, SameQueue, Later, outputQueue' = outputQueue
    PROVE  Counted'
<1>1. PICK d \in {0, 1} :
          /\ \A i \in DOMAIN processJobQueue' : i \in Nat
          /\ \A i \in DOMAIN processJobQueue' :
               processJobQueue'[i].type = "notifyPacked" =>
                   /\ i + d \in DOMAIN processJobQueue /\ processJobQueue'[i] = processJobQueue[i + d]
                   /\ IsPacked(i + d)
  BY SamePlaces
<1>2. \A i \in DOMAIN processJobQueue' : IsPacked(i)' <=> processJobQueue'[i].type = "notifyPacked"
  BY DEF IsPacked
<1>3. ASSUME NEW i \in DOMAIN processJobQueue', IsPacked(i)'
      PROVE  Used(processJobQueue'[i], created', invocationCounter')
  <2>1. Used(processJobQueue[i + d], created, invocationCounter)
    BY <1>1, <1>2, <1>3 DEF Counted
  <2>2. processJobQueue[i + d].gen \in Nat /\ processJobQueue[i + d].counter \in Nat
    BY <1>1, <1>2, <1>3, PackedFields
  <2> QED BY <1>1, <1>2, <1>3, <2>1, <2>2, StaysUsed
<1>4. ASSUME NEW i \in DOMAIN processJobQueue', NEW k \in DOMAIN processJobQueue',
             i < k, IsPacked(i)', IsPacked(k)'
      PROVE  Before(processJobQueue'[i], processJobQueue'[k])
  <2>1. i + d < k + d
    BY <1>1, <1>4
  <2>2. Before(processJobQueue[i + d], processJobQueue[k + d])
    BY <1>1, <1>2, <1>4, <2>1 DEF Counted
  <2> QED BY <1>1, <1>2, <1>4, <2>2
<1>5. ASSUME NEW t \in outputQueue
      PROVE  /\ Used(t, created', invocationCounter')
             /\ \A i \in DOMAIN processJobQueue' : IsPacked(i)' => Before(t, processJobQueue'[i])
  <2>1. Used(t, created', invocationCounter')
    BY <1>5, OutputFields, StaysUsed DEF Counted
  <2>2. \A i \in DOMAIN processJobQueue' : IsPacked(i)' => Before(t, processJobQueue'[i])
    BY <1>1, <1>2 DEF Counted
  <2> QED BY <2>1, <2>2
<1>6. \A t, u \in outputQueue' : t.gen = u.gen /\ t.counter = u.counter => t = u
  BY DEF Counted
<1> QED BY <1>3, <1>4, <1>5, <1>6 DEF Counted

LEMMA AcceptedFrame ==
    ASSUME Typed, Typed', Accepted, SameQueue, outputQueue' = outputQueue
    PROVE  Accepted'
<1>1. PICK d \in {0, 1} :
          /\ \A i \in DOMAIN processJobQueue' : i \in Nat
          /\ \A i \in DOMAIN processJobQueue' :
               processJobQueue'[i].type = "notifyPacked" =>
                   /\ i + d \in DOMAIN processJobQueue /\ processJobQueue'[i] = processJobQueue[i + d]
                   /\ IsPacked(i + d)
          /\ \A i \in DOMAIN processJobQueue' :
               processJobQueue'[i].type = "processMessage" =>
                   i + d \in DOMAIN processJobQueue /\ processJobQueue'[i] = processJobQueue[i + d]
  BY SamePlaces
<1>2. \A i \in DOMAIN processJobQueue' : IsPacked(i)' <=> processJobQueue'[i].type = "notifyPacked"
  BY DEF IsPacked
<1>3. ASSUME NEW i \in DOMAIN processJobQueue', processJobQueue'[i].type = "processMessage"
      PROVE  \E s \in outputQueue :
               /\ processJobQueue'[i].of = {s}
               /\ processJobQueue'[i].counter = s.counter % RES_MOD
               /\ \A t \in outputQueue : t.gen <= s.gen
               /\ \A k \in DOMAIN processJobQueue' : k < i /\ IsPacked(k)' =>
                      processJobQueue'[k].gen <= s.gen
  <2>1. i + d \in DOMAIN processJobQueue /\ processJobQueue'[i] = processJobQueue[i + d]
    BY <1>1, <1>3
  <2>2. PICK s \in outputQueue :
               /\ processJobQueue[i + d].of = {s}
               /\ processJobQueue[i + d].counter = s.counter % RES_MOD
               /\ \A t \in outputQueue : t.gen <= s.gen
               /\ \A k \in DOMAIN processJobQueue : k < i + d /\ IsPacked(k) =>
                      processJobQueue[k].gen <= s.gen
    BY <1>3, <2>1 DEF Accepted
  <2>3. ASSUME NEW k \in DOMAIN processJobQueue', k < i, IsPacked(k)'
        PROVE  processJobQueue'[k].gen <= s.gen
    <3>1. k + d < i + d /\ k + d \in DOMAIN processJobQueue /\ IsPacked(k + d)
          /\ processJobQueue'[k] = processJobQueue[k + d]
      BY <1>1, <1>2, <2>3
    <3> QED BY <2>2, <3>1
  <2> QED BY <2>1, <2>2, <2>3
<1> QED BY <1>3 DEF Accepted

LEMMA RoutesFrame ==
    ASSUME Typed, Routes, FewerRoutes, FewerSent, outputQueue' = outputQueue
    PROVE  Routes'
<1>1. jobsIsArray' => DOMAIN jobs' = {}
  BY DEF FewerRoutes
<1>2. ASSUME NEW n \in DOMAIN jobs'
      PROVE  /\ \E t \in outputQueue :
                    t.job = jobs'[n] /\ t.counter = n /\ \A u \in outputQueue : u.counter = n => u.gen <= t.gen
             /\ job'[jobs'[n]].client.state = "SENT" /\ job'[jobs'[n]].client.counter = n
                  => \E t \in outputQueue : Latest(jobs'[n], t, outputQueue) /\ t.counter = n
  <2>1. n \in DOMAIN jobs /\ jobs'[n] = jobs[n]
    BY <1>2 DEF FewerRoutes
  <2>2. PICK k \in Jobs : k = jobs[n]
    BY <2>1 DEF Typed
  <2>3. \E t \in outputQueue :
            t.job = jobs[n] /\ t.counter = n /\ \A u \in outputQueue : u.counter = n => u.gen <= t.gen
    BY <2>1 DEF Routes
  <2>4. ASSUME job'[k].client.state = "SENT", job'[k].client.counter = n
        PROVE  \E t \in outputQueue : Latest(k, t, outputQueue) /\ t.counter = n
    <3>1. job[k].client.state = "SENT" /\ job[k].client.counter = n
      BY <2>4 DEF FewerSent
    <3> QED BY <2>1, <2>2, <3>1 DEF Routes, State
  <2> QED BY <2>1, <2>2, <2>3, <2>4
<1> QED BY <1>1, <1>2 DEF Routes, State

LEMMA OwnFrame ==
    ASSUME Typed, Own, NoAnswer, outputQueue' = outputQueue
    PROVE  Own'
<1> SUFFICES ASSUME NEW j \in Jobs, NEW i \in DOMAIN results'[j], NEW s \in results'[j][i].of
             PROVE  Latest(j, s, outputQueue)
  BY DEF Own
<1>1. i \in DOMAIN results[j] /\ results'[j][i] = results[j][i]
  BY DEF NoAnswer
<1> QED BY <1>1 DEF Own

LEMMA OrderFrame ==
    ASSUME Typed, Typed', Order, SameQueue, Later, FewerRoutes, FewerSent, NoAnswer,
           outputQueue' = outputQueue
    PROVE  Order'
  BY CountedFrame, AcceptedFrame, RoutesFrame, OwnFrame DEF Order

LEMMA SameQueueFacts ==
    ASSUME Typed,
           \/ processJobQueue' = processJobQueue
           \/ processJobQueue # <<>> /\ processJobQueue' = Tail(processJobQueue)
           \/ \E x \in JobItems : /\ processJobQueue' = Append(processJobQueue, x)
                                  /\ x.type \in {"newJob", "notifyTick", "notifyNotSent"}
    PROVE  SameQueue
<1>0. processJobQueue \in Seq(JobItems) /\ \A i \in DOMAIN processJobQueue : i \in Nat
  <2>1. processJobQueue \in Seq(JobItems)
    BY DEF Typed
  <2> QED BY <2>1
<1>1. CASE processJobQueue' = processJobQueue
  <2>1. \A i \in DOMAIN processJobQueue' :
           i + 0 \in DOMAIN processJobQueue /\ processJobQueue'[i] = processJobQueue[i + 0]
    BY <1>0, <1>1
  <2> QED BY <2>1 DEF SameQueue
<1>2. CASE processJobQueue # <<>> /\ processJobQueue' = Tail(processJobQueue)
  <2>1. \A i \in DOMAIN processJobQueue' :
           i + 1 \in DOMAIN processJobQueue /\ processJobQueue'[i] = processJobQueue[i + 1]
    BY <1>0, <1>2, TailPlaces
  <2> QED BY <2>1 DEF SameQueue
<1>3. ASSUME NEW x \in JobItems, processJobQueue' = Append(processJobQueue, x),
             x.type \in {"newJob", "notifyTick", "notifyNotSent"}
      PROVE  SameQueue
  <2>1. /\ Len(processJobQueue) \in Nat /\ DOMAIN processJobQueue = 1..Len(processJobQueue)
        /\ DOMAIN processJobQueue' = 1..(Len(processJobQueue) + 1)
        /\ \A i \in DOMAIN processJobQueue : processJobQueue'[i] = processJobQueue[i]
        /\ processJobQueue'[Len(processJobQueue) + 1] = x
    BY <1>0, <1>3, AppendPlaces
  <2>2. \A i \in DOMAIN processJobQueue' :
           processJobQueue'[i].type \in {"notifyPacked", "processMessage"} =>
               i + 0 \in DOMAIN processJobQueue /\ processJobQueue'[i] = processJobQueue[i + 0]
    <3> SUFFICES ASSUME NEW i \in DOMAIN processJobQueue',
                        processJobQueue'[i].type \in {"notifyPacked", "processMessage"}
                 PROVE  i + 0 \in DOMAIN processJobQueue /\ processJobQueue'[i] = processJobQueue[i + 0]
      OBVIOUS
    <3>0. PICK m \in Nat : m = Len(processJobQueue)
      BY <2>1
    <3>4. i \in 1..(m + 1) /\ DOMAIN processJobQueue = 1..m /\ processJobQueue'[m + 1] = x
      BY <2>1, <3>0
    <3>5. i \in 1..m \/ i = m + 1
      BY <3>4
    <3>1. i \in DOMAIN processJobQueue \/ processJobQueue'[i] = x
      BY <3>4, <3>5
    <3>2. i \in DOMAIN processJobQueue
      BY <1>3, <3>1
    <3>3. i + 0 = i
      BY <1>0, <3>2
    <3> QED BY <2>1, <3>2, <3>3
  <2> QED BY <2>2 DEF SameQueue
<1> QED BY <1>1, <1>2, <1>3

\* A step that leaves jobs and results alone.
LEMMA OrderQuiet ==
    ASSUME Typed, Typed', Order, SameQueue, Later, outputQueue' = outputQueue,
           jobs' = jobs, jobsIsArray' = jobsIsArray \/ jobs = <<>>, job' = job, results' = results
    PROVE  Order'
<1>1. FewerRoutes
  <2>1. jobs = <<>> => DOMAIN jobs = {}
    OBVIOUS
  <2> QED BY <2>1 DEF FewerRoutes, Order, Routes
<1>2. FewerSent /\ NoAnswer
  BY DEF FewerSent, NoAnswer
<1> QED BY <1>1, <1>2, OrderFrame

LEMMA OrderEnvironment ==
    ASSUME Books, Books', Order,
           \/ Start \/ Stop \/ Pass \/ Input \/ Delete \/ Create \/ ProcessTick
           \/ ReceiveRequest \/ ReceiveRequestAcross \/ ReceiveStray \/ UNCHANGED vars
    PROVE  Order'
<1>1. Typed /\ Typed'
  BY DEF Books
<1>2. SameQueue
  <2>1. CASE processJobQueue' = processJobQueue
    BY <1>1, <2>1, SameQueueFacts
  <2>2. CASE ProcessTick
    <3> DEFINE x == [type |-> "notifyTick"]
    <3>1. x \in JobItems /\ x.type = "notifyTick"
      BY DEF JobItems
    <3> HIDE DEF x
    <3>2. processJobQueue' = Append(processJobQueue, x)
      BY <2>2 DEF ProcessTick, x
    <3> QED BY <1>1, <3>1, <3>2, SameQueueFacts
  <2>3. ProcessTick \/ processJobQueue' = processJobQueue
    BY DEF Start, Stop, Pass, Input, Delete, Create, ReceiveRequest, ReceiveRequestAcross,
           ReceiveStray, vars
  <2> QED BY <2>1, <2>2, <2>3
<1>3. Later
  <2>1. created \in Nat
    BY <1>1, TypedNumbers
  <2>2. CASE Create
    <3>1. created' = created + 1
      BY <2>2 DEF Create
    <3> QED BY <2>1, <3>1 DEF Later
  <2>3. CASE ReceiveRequestAcross
    <3>1. \/ Recreated(1)
          \/ created' = created /\ invocationCounter' = invocationCounter
      BY <2>3 DEF ReceiveRequestAcross
    <3>2. Recreated(1) => created' \in 1..MaxCreated /\ created < created'
      BY <1>1, RecreatedFacts
    <3> QED BY <3>1, <3>2, WrangleAssumption DEF Later
  <2>4. CASE ReceiveRequest \/ ReceiveStray
    BY <2>4 DEF ReceiveRequest, ReceiveStray, Steadily, Later
  <2>5. CASE Start \/ Stop \/ Pass \/ Input \/ Delete \/ ProcessTick \/ UNCHANGED vars
    BY <2>5 DEF Start, Stop, Pass, Input, Delete, ProcessTick, vars, dbVars, Later
  <2> QED BY <2>2, <2>3, <2>4, <2>5
<1>4. /\ outputQueue' = outputQueue /\ jobs' = jobs /\ job' = job /\ results' = results
      /\ jobsIsArray' = jobsIsArray \/ jobs = <<>>
  BY DEF Start, Stop, Pass, Input, Delete, Create, ProcessTick, ReceiveRequest, ReceiveRequestAcross,
         ReceiveStray, TakeMessage, vars, peerVars
<1> QED BY <1>1, <1>2, <1>3, <1>4, OrderQuiet

LEMMA OrderRequest ==
    ASSUME Books, Books', Order, NEW j \in Jobs, Request(j)
    PROVE  Order'
<1>1. PICK o \in Options : processJobQueue' = Append(processJobQueue, [type |-> "newJob", job |-> j, opts |-> o])
  BY DEF Request
<1> DEFINE x == [type |-> "newJob", job |-> j, opts |-> o]
<1>2. x \in JobItems /\ x.type = "newJob"
  BY DEF JobItems
<1> HIDE DEF x
<1>3. processJobQueue' = Append(processJobQueue, x)
  BY <1>1 DEF x
<1>4. Typed /\ Typed'
  BY DEF Books
<1>5. SameQueue
  BY <1>2, <1>3, <1>4, SameQueueFacts
<1>6. /\ Later /\ outputQueue' = outputQueue /\ jobs' = jobs /\ jobsIsArray' = jobsIsArray
      /\ job' = job /\ results' = results
  BY DEF Request, peerVars, dbVars, Later
<1> QED BY <1>4, <1>5, <1>6, OrderQuiet

LEMMA OrderMissingPreJob ==
    ASSUME Books, Books', Order, NEW type, MissingPreJob(type)
    PROVE  Order'
<1>1. processJobQueue # <<>> /\ processJobQueue' = Tail(processJobQueue)
  BY DEF MissingPreJob, TakeJob
<1>2. Typed /\ Typed'
  BY DEF Books
<1>3. SameQueue
  BY <1>1, <1>2, SameQueueFacts
<1>4. /\ Later /\ outputQueue' = outputQueue /\ jobs' = jobs /\ jobsIsArray' = jobsIsArray
      /\ job' = job /\ results' = results
  BY DEF MissingPreJob, TakeJob, peerVars, dbVars, Later
<1> QED BY <1>2, <1>3, <1>4, OrderQuiet

\* A step of the job thread that registers no counter and sends nothing.
LEMMA OrderTaken ==
    ASSUME Books, Books', Order, NEW type, TakeJob(type), FewerSent, NoAnswer,
           outputQueue' = outputQueue,
           DOMAIN jobs' \subseteq DOMAIN jobs, \A n \in DOMAIN jobs' : jobs'[n] = jobs[n]
    PROVE  Order'
<1>1. /\ processJobQueue # <<>> /\ processJobQueue' = Tail(processJobQueue)
      /\ jobsIsArray' = jobsIsArray /\ created' = created /\ invocationCounter' = invocationCounter
  BY DEF TakeJob, dbVars
<1>2. Typed /\ Typed'
  BY DEF Books
<1>3. SameQueue
  BY <1>1, <1>2, SameQueueFacts
<1>4. Later /\ FewerRoutes
  BY <1>1 DEF Later, FewerRoutes, Order, Routes
<1> QED BY <1>2, <1>3, <1>4, OrderFrame

LEMMA NewJobSent ==
    ASSUME Books, NewJob
    PROVE  FewerSent /\ NoAnswer /\ jobs' = jobs /\ outputQueue' = outputQueue
<1> DEFINE item == Head(processJobQueue)
<1>1. item \in JobItems /\ item.type = "newJob"
  BY TakenItem DEF NewJob
<1>2. item.job \in Jobs /\ item.opts \in Options
  BY <1>1, JobItemFields
<1>3. PICK j \in Jobs, o \in Options : j = item.job /\ o = item.opts
  BY <1>2
<1> DEFINE b == New(j, o)
           d == Output(b)
<1>4. /\ job' = [job EXCEPT ![j] = d] /\ outputQueue' = outputQueue /\ jobs' = jobs
      /\ results' = results /\ TakeJob("newJob")
  BY <1>3 DEF NewJob
<1> HIDE DEF item, b, d
<1>5. IsJob(b) /\ b.client.state = "INIT"
  BY <1>3, NewIsJob DEF b
<1>6. d.client.state # "SENT"
  BY <1>5, OutputIsJob DEF d
<1>7. job'[j] = d /\ \A k \in Jobs : k # j => job'[k] = job[k]
  BY <1>3, <1>4 DEF Books, Typed
<1>8. FewerSent
  BY <1>6, <1>7 DEF FewerSent
<1>9. NoAnswer
  BY <1>4 DEF NoAnswer
<1> QED BY <1>4, <1>8, <1>9

LEMMA OrderNewJob ==
    ASSUME Books, Books', Order, NewJob
    PROVE  Order'
<1>1. TakeJob("newJob")
  BY DEF NewJob
<1> QED BY <1>1, NewJobSent, OrderTaken

\* What Update does, seen from the results.
Delivers(j, b, called, of) ==
    /\ job'[j] = b
    /\ \A k \in Jobs : k # j => job'[k] = job[k] /\ results'[k] = results[k]
    /\ ~called => results'[j] = results[j]
    /\ \A i \in DOMAIN results'[j] :
          \/ i \in DOMAIN results[j] /\ results'[j][i] = results[j][i]
          \/ called /\ results'[j][i].of = of

LEMMA DeliversFacts ==
    ASSUME Typed, NEW j \in Jobs, NEW b, IsJob(b), NEW called, NEW of \in SUBSET Transmissions,
           called => b.client.list[1].result \in Results, Update(j, b, called, of)
    PROVE  Delivers(j, b, called, of)
<1>1. /\ job'[j] = b
      /\ \A k \in Jobs : k # j => job'[k] = job[k] /\ results'[k] = results[k]
      /\ results'[j] = IF called THEN Append(results[j], Outcome(b.client, of)) ELSE results[j]
      /\ DOMAIN results[j] = 1..Len(results[j]) /\ Len(results[j]) \in Nat
      /\ called => /\ DOMAIN results'[j] = 1..(Len(results[j]) + 1)
                   /\ \A i \in DOMAIN results[j] : results'[j][i] = results[j][i]
                   /\ results'[j][Len(results[j]) + 1].of = of
  BY UpdateFacts
<1>2. CASE called
  <2>1. \A i \in DOMAIN results'[j] : i \in DOMAIN results[j] \/ i = Len(results[j]) + 1
    BY <1>1, <1>2
  <2> QED BY <1>1, <1>2, <2>1 DEF Delivers
<1>3. CASE ~called
  BY <1>1, <1>3 DEF Delivers
<1> QED BY <1>2, <1>3

LEMMA NotifyNotSentSent ==
    ASSUME Books, NotifyNotSent
    PROVE  FewerSent /\ NoAnswer /\ jobs' = jobs /\ outputQueue' = outputQueue
<1> DEFINE item == Head(processJobQueue)
<1>1. item \in JobItems /\ item.type = "notifyNotSent"
  BY TakenItem DEF NotifyNotSent
<1>2. item.job \in Jobs
  BY <1>1, JobItemFields
<1>3. PICK j \in Jobs : j = item.job
  BY <1>2
<1> DEFINE c == Cancelled(job[j].client)
           d == Abandoned(job[j], c)
<1>4. /\ Update(j, d, CanAbandon(job[j].client), {})
      /\ outputQueue' = outputQueue /\ jobs' = jobs /\ TakeJob("notifyNotSent")
  BY <1>3 DEF NotifyNotSent
<1>5. IsJob(job[j]) /\ Typed
  BY DEF Books, Typed
<1>6. /\ IsJob(d)
      /\ IF CanAbandon(job[j].client)
         THEN d.client.state = "COMPLETE" /\ d.client.list[1].result \in Results
         ELSE d = job[j]
  <2>1. c = Complete(job[j].client, Every(job[j].client, "CANCEL"))
    BY DEF Cancelled
  <2> HIDE DEF c
  <2> QED BY <1>5, <2>1, AbandonedIsJob
<1> HIDE DEF item, c, d
<1>7. Delivers(j, d, CanAbandon(job[j].client), {})
  BY <1>4, <1>5, <1>6, DeliversFacts
<1>8. FewerSent
  BY <1>6, <1>7 DEF Delivers, FewerSent
<1>9. NoAnswer
  BY <1>7 DEF Delivers, NoAnswer
<1> QED BY <1>4, <1>8, <1>9

LEMMA OrderNotifyNotSent ==
    ASSUME Books, Books', Order, NotifyNotSent
    PROVE  Order'
<1>1. TakeJob("notifyNotSent")
  BY DEF NotifyNotSent
<1> QED BY <1>1, NotifyNotSentSent, OrderTaken

LEMMA OutputClient ==
    ASSUME NEW b, IsJob(b)
    PROVE  Output(b).client.state = "SENT" => Output(b).client = b.client
<1> DEFINE c == IF HasOutput(b) THEN Pending(b.client) ELSE b.client
<1>1. Output(b) = [b EXCEPT !.client = c, !.timeout = Nil]
  BY DEF Output
<1>2. HasOutput(b) => c.state = "PENDING"
  BY DEF IsJob, IsClient, ClientRecords, Pending
<1>3. (~HasOutput(b)) => c = b.client
  OBVIOUS
<1> HIDE DEF c
<1>4. Output(b).client = c
  BY <1>1 DEF IsJob, JobRecords
<1> QED BY <1>2, <1>3, <1>4

LEMMA NotifyTickSent ==
    ASSUME Books, NotifyTick
    PROVE  FewerSent /\ NoAnswer /\ jobs' = jobs /\ outputQueue' = outputQueue
<1>0. TakeJob("notifyTick") /\ Typed
  BY DEF NotifyTick, Books
<1> DEFINE retried == {j \in Expired : Retry(job[j])}
           ended == Expired \ retried
<1>1. jobs' = jobs /\ outputQueue' = outputQueue
  BY DEF NotifyTick
<1>2. Ticked(retried, ended)
  BY DEF NotifyTick, Ticked
<1>3. Expired \in SUBSET Jobs
  <2>1. \A i \in DOMAIN timeoutList : timeoutList[i] \in Jobs
    BY <1>0 DEF Typed
  <2> QED BY <2>1 DEF Expired, Visited
<1>4. /\ retried \in SUBSET Jobs /\ ended \in SUBSET Jobs /\ retried \cap ended = {}
  BY <1>3
<1> HIDE DEF retried, ended
<1>5. \A k \in Jobs : k \notin retried /\ k \notin ended => job'[k] = job[k]
  BY <1>0, <1>2, <1>4, TickJobs
<1>6. \A k \in ended : IF CanAbandon(job[k].client) THEN job'[k].client.state = "COMPLETE"
                      ELSE job'[k] = job[k] /\ results'[k] = results[k]
  BY <1>0, <1>2, <1>4, TickJobs
<1>7. \A k \in retried : job'[k].client.state = "SENT" => job'[k].client = job[k].client
  <2> SUFFICES ASSUME NEW k \in retried, job'[k].client.state = "SENT"
               PROVE  job'[k].client = job[k].client
    OBVIOUS
  <2>1. k \in Jobs /\ IsJob(job[k])
    BY <1>0, <1>4 DEF Typed
  <2>2. job'[k] = Output(job[k])
    BY <1>2, <2>1 DEF Ticked
  <2> QED BY <2>1, <2>2, OutputClient
<1>8. FewerSent
  <2> SUFFICES ASSUME NEW k \in Jobs, job'[k].client.state = "SENT"
               PROVE  job'[k].client = job[k].client
    BY DEF FewerSent
  <2>1. CASE k \in retried
    BY <1>7, <2>1
  <2>2. CASE k \in ended
    BY <1>6, <2>2
  <2>3. CASE k \notin retried /\ k \notin ended
    BY <1>5, <2>3
  <2> QED BY <2>1, <2>2, <2>3
<1>9. NoAnswer
  <2> SUFFICES ASSUME NEW k \in Jobs, NEW i \in DOMAIN results'[k]
               PROVE  results'[k][i].of = {} \/ (i \in DOMAIN results[k] /\ results'[k][i] = results[k][i])
    BY DEF NoAnswer
  <2> DEFINE y == [result |-> "TIMEOUT", of |-> {}]
  <2>1. y \in OutcomeRecords /\ y.of = {}
    BY DEF OutcomeRecords, Results
  <2>2. results[k] \in Seq(OutcomeRecords)
    BY <1>0 DEF Typed
  <2>3. results'[k] = Append(results[k], y) \/ results'[k] = results[k]
    BY <1>2 DEF Ticked
  <2> HIDE DEF y
  <2>4. CASE results'[k] = Append(results[k], y)
    <3>1. /\ Len(results[k]) \in Nat /\ DOMAIN results[k] = 1..Len(results[k])
          /\ DOMAIN Append(results[k], y) = 1..(Len(results[k]) + 1)
          /\ \A n \in DOMAIN results[k] : Append(results[k], y)[n] = results[k][n]
          /\ Append(results[k], y)[Len(results[k]) + 1] = y
      BY <2>1, <2>2, AppendPlaces
    <3>2. i \in DOMAIN results[k] \/ i = Len(results[k]) + 1
      BY <2>4, <3>1
    <3> QED BY <2>1, <2>4, <3>1, <3>2
  <2> QED BY <2>3, <2>4
<1> QED BY <1>1, <1>8, <1>9

LEMMA OrderNotifyTick ==
    ASSUME Books, Books', Order, NotifyTick
    PROVE  Order'
<1>1. TakeJob("notifyTick")
  BY DEF NotifyTick
<1> QED BY <1>1, NotifyTickSent, OrderTaken

\* A step of the worker.
LEMMA OrderSend ==
    ASSUME Books, Books', Order, Send
    PROVE  Order'
<1> DEFINE item == Head(processMessageQueue)
<1>1. /\ outputQueue' = outputQueue /\ job' = job /\ results' = results /\ jobs' = jobs
      /\ jobsIsArray' = jobsIsArray /\ association' = association /\ created' = created
  BY DEF Send, Steadily, TakeMessage, peerVars
<1>2. Typed /\ Typed'
  BY DEF Books
<1>3. item.job \in Jobs
  <2>1. item.type = "send" /\ processMessageQueue # <<>>
    BY DEF Send, TakeMessage
  <2>2. processMessageQueue \in Seq(MessageItems)
    BY <1>2 DEF Typed
  <2>3. item \in MessageItems
    BY <2>1, <2>2, TailPlaces
  <2> QED BY <2>1, <2>3, MessageItemFields
<1> DEFINE n == invocationCounter + 1
           x == [type |-> "notifyPacked", job |-> item.job, gen |-> association,
                 counter |-> n, time |-> now]
           y == [type |-> "notifyNotSent", job |-> item.job]
<1>4. \/ processJobQueue' = processJobQueue /\ invocationCounter' = invocationCounter
      \/ processJobQueue' = Append(processJobQueue, y) /\ invocationCounter' = invocationCounter
      \/ /\ association # 0 /\ invocationCounter' = n
         /\ processJobQueue' = Append(processJobQueue, x)
  BY DEF Send, Packed
<1> HIDE DEF item
<1>5. y \in JobItems /\ y.type = "notifyNotSent"
  BY <1>3 DEF JobItems
<1>6. CASE /\ processJobQueue' = processJobQueue \/ processJobQueue' = Append(processJobQueue, y)
           /\ invocationCounter' = invocationCounter
  <2> HIDE DEF y
  <2>1. SameQueue
    BY <1>2, <1>5, <1>6, SameQueueFacts
  <2> QED BY <1>1, <1>2, <1>6, <2>1, OrderQuiet DEF Later
<1>7. CASE /\ association # 0 /\ invocationCounter' = n
           /\ processJobQueue' = Append(processJobQueue, x)
  <2>1. /\ association = created /\ x.gen = association /\ x.counter = n /\ x.type = "notifyPacked"
        /\ created \in Nat /\ invocationCounter \in Nat /\ n \in Nat
    BY <1>2, <1>7, WrangleAssumption DEF Typed
  <2>2. x \in JobItems
    <3>1. n \in 1..MAX_COUNTER
      BY <1>2, <1>7, <2>1 DEF Typed
    <3>2. association \in 1..MaxCreated /\ now \in 0..MaxTime
      BY <1>2, <1>7 DEF Typed
    <3> HIDE DEF n
    <3> QED BY <1>3, <3>1, <3>2 DEF JobItems
  <2> HIDE DEF x
  <2>3. processJobQueue \in Seq(JobItems)
    BY <1>2 DEF Typed
  <2>4. PICK m \in Nat : m = Len(processJobQueue) + 1
    BY <2>2, <2>3, AppendPlaces
  <2>5. /\ DOMAIN processJobQueue = 1..(m - 1) /\ DOMAIN processJobQueue' = 1..m
        /\ \A i \in DOMAIN processJobQueue : processJobQueue'[i] = processJobQueue[i]
        /\ processJobQueue'[m] = x
    <3>1. Len(processJobQueue) = m - 1 /\ Len(processJobQueue) \in Nat
      BY <2>2, <2>3, <2>4, AppendPlaces
    <3> QED BY <1>7, <2>2, <2>3, <2>4, <3>1, AppendPlaces
  <2>6. \A i \in DOMAIN processJobQueue' : i \in DOMAIN processJobQueue \/ i = m
    BY <2>4, <2>5
  <2>7. \A i \in DOMAIN processJobQueue : i < m
    BY <2>4, <2>5
  <2>8. Later
    BY <1>1, <1>7 DEF Later
  <2>9. \A i \in DOMAIN processJobQueue : IsPacked(i)' <=> IsPacked(i)
    BY <2>5 DEF IsPacked
  <2>10. Used(x, created', invocationCounter')
    BY <1>1, <1>7, <2>1 DEF Used
  <2>11. \A z : /\ z.gen \in Nat /\ z.counter \in Nat
                /\ Used(z, created, invocationCounter)
                => Before(z, x)
    BY <2>1 DEF Used, Before
  <2>12. Counted'
    <3>1. ASSUME NEW i \in DOMAIN processJobQueue', IsPacked(i)'
          PROVE  Used(processJobQueue'[i], created', invocationCounter')
      <4>1. CASE i = m
        BY <2>5, <2>10, <4>1
      <4>2. CASE i \in DOMAIN processJobQueue
        <5>1. Used(processJobQueue[i], created, invocationCounter)
          BY <2>9, <3>1, <4>2 DEF Order, Counted
        <5>2. processJobQueue[i].gen \in Nat /\ processJobQueue[i].counter \in Nat
          BY <1>2, <2>9, <3>1, <4>2, PackedFields
        <5> QED BY <1>2, <2>5, <2>8, <4>2, <5>1, <5>2, StaysUsed
      <4> QED BY <2>6, <4>1, <4>2
    <3>2. ASSUME NEW i \in DOMAIN processJobQueue', NEW k \in DOMAIN processJobQueue',
                 i < k, IsPacked(i)', IsPacked(k)'
          PROVE  Before(processJobQueue'[i], processJobQueue'[k])
      <4>1. i \in DOMAIN processJobQueue
        BY <2>4, <2>5, <3>2
      <4>2. CASE k = m
        <5>1. Used(processJobQueue[i], created, invocationCounter)
          BY <2>9, <3>2, <4>1 DEF Order, Counted
        <5>2. processJobQueue[i].gen \in Nat /\ processJobQueue[i].counter \in Nat
          BY <1>2, <2>9, <3>2, <4>1, PackedFields
        <5> QED BY <2>5, <2>11, <4>1, <4>2, <5>1, <5>2
      <4>3. CASE k \in DOMAIN processJobQueue
        BY <2>5, <2>9, <3>2, <4>1, <4>3 DEF Order, Counted
      <4> QED BY <2>6, <4>2, <4>3
    <3>3. ASSUME NEW t \in outputQueue
          PROVE  /\ Used(t, created', invocationCounter')
                 /\ \A i \in DOMAIN processJobQueue' : IsPacked(i)' => Before(t, processJobQueue'[i])
      <4>1. Used(t, created, invocationCounter)
        BY DEF Order, Counted
      <4>2. Used(t, created', invocationCounter')
        BY <1>2, <2>8, <4>1, OutputFields, StaysUsed
      <4>3. ASSUME NEW i \in DOMAIN processJobQueue', IsPacked(i)' PROVE Before(t, processJobQueue'[i])
        <5>1. CASE i = m
          BY <1>2, <2>5, <2>11, <4>1, <5>1, OutputFields
        <5>2. CASE i \in DOMAIN processJobQueue
          BY <2>5, <2>9, <4>3, <5>2 DEF Order, Counted
        <5> QED BY <2>6, <5>1, <5>2
      <4> QED BY <4>2, <4>3
    <3>4. \A t, u \in outputQueue : t.gen = u.gen /\ t.counter = u.counter => t = u
      BY DEF Order, Counted
    <3> QED BY <1>1, <3>1, <3>2, <3>3, <3>4 DEF Counted
  <2>13. Accepted'
    <3>1. ASSUME NEW i \in DOMAIN processJobQueue', processJobQueue'[i].type = "processMessage"
          PROVE  \E s \in outputQueue :
                   /\ processJobQueue'[i].of = {s}
                   /\ processJobQueue'[i].counter = s.counter % RES_MOD
                   /\ \A t \in outputQueue : t.gen <= s.gen
                   /\ \A k \in DOMAIN processJobQueue' : k < i /\ IsPacked(k)' =>
                          processJobQueue'[k].gen <= s.gen
      <4>1. i \in DOMAIN processJobQueue /\ processJobQueue'[i] = processJobQueue[i]
        BY <2>1, <2>5, <2>6, <3>1
      <4>2. PICK s \in outputQueue :
                   /\ processJobQueue[i].of = {s}
                   /\ processJobQueue[i].counter = s.counter % RES_MOD
                   /\ \A t \in outputQueue : t.gen <= s.gen
                   /\ \A k \in DOMAIN processJobQueue : k < i /\ IsPacked(k) =>
                          processJobQueue[k].gen <= s.gen
        BY <3>1, <4>1 DEF Order, Accepted
      <4>3. ASSUME NEW k \in DOMAIN processJobQueue', k < i, IsPacked(k)'
            PROVE  processJobQueue'[k].gen <= s.gen
        <5>1. k \in DOMAIN processJobQueue
          BY <2>4, <2>5, <4>1, <4>3
        <5> QED BY <2>5, <2>9, <4>2, <4>3, <5>1
      <4> QED BY <4>1, <4>2, <4>3
    <3> QED BY <1>1, <3>1 DEF Accepted
  <2>14. FewerRoutes /\ FewerSent /\ NoAnswer
    BY <1>1 DEF FewerRoutes, FewerSent, NoAnswer, Order, Routes
  <2>15. Routes' /\ Own'
    BY <1>1, <1>2, <2>14, RoutesFrame, OwnFrame DEF Order
  <2> QED BY <2>12, <2>13, <2>15 DEF Order
<1> QED BY <1>4, <1>6, <1>7

LEMMA OrderReceive ==
    ASSUME Books, Books', Order, Receive \/ ReceiveAcross, ~crossed'
    PROVE  Order'
<1> DEFINE item == Head(processMessageQueue)
<1>1. /\ outputQueue' = outputQueue /\ job' = job /\ results' = results /\ jobs' = jobs
      /\ jobsIsArray' = jobsIsArray
  BY DEF Receive, ReceiveAcross, TakeMessage, peerVars
<1>2. Typed /\ Typed'
  BY DEF Books
<1>3. item.answers \in outputQueue /\ item.results \in Responses
  <2>1. item.type = "receive" /\ processMessageQueue # <<>>
    BY DEF Receive, ReceiveAcross, TakeMessage
  <2>2. processMessageQueue \in Seq(MessageItems)
    BY <1>2 DEF Typed
  <2>3. /\ item \in MessageItems /\ 1 \in DOMAIN processMessageQueue
        /\ item = processMessageQueue[1]
    BY <2>1, <2>2, TailPlaces
  <2> HIDE DEF item
  <2>4. item.results \in Responses
    BY <2>1, <2>3, MessageItemFields
  <2> QED BY <2>1, <2>3, <2>4 DEF Books, Answers
<1>4. PICK s \in outputQueue, res \in Responses : s = item.answers /\ res = item.results
  BY <1>3
<1> DEFINE n == s.counter % RES_MOD
           x == [type |-> "processMessage", counter |-> n, results |-> res, of |-> {s}]
<1>5. \/ processJobQueue' = processJobQueue
      \/ association # 0 /\ s.gen = association /\ processJobQueue' = Append(processJobQueue, x)
  <2>1. \/ association # 0 /\ item.gen = association /\ Accept(item)
        \/ processJobQueue' = processJobQueue
    BY <1>2 DEF Receive, ReceiveAcross, Unpacks, Recreated
  <2>2. Accept(item) => /\ item.gen = s.gen
                        /\ processJobQueue' = Append(processJobQueue, x)
    BY <1>4 DEF Accept
  <2> QED BY <2>1, <2>2
<1> HIDE DEF item
<1>6. Later
  <2>1. created \in Nat /\ created' \in Nat
    BY <1>2, TypedNumbers, TypedNumbersAfter
  <2> QED BY <2>1 DEF Receive, ReceiveAcross, Steadily, Recreated, Later
<1>7. CASE processJobQueue' = processJobQueue
  <2>1. SameQueue
    BY <1>2, <1>7, SameQueueFacts
  <2> QED BY <1>1, <1>2, <1>6, <2>1, OrderQuiet
<1>8. CASE association # 0 /\ s.gen = association /\ processJobQueue' = Append(processJobQueue, x)
  <2>1. s \in Transmissions /\ s.gen \in Nat /\ s.counter \in Nat /\ s.gen = created
    BY <1>2, <1>8, OutputFields DEF Typed
  <2>2. n \in 0..(RES_MOD - 1)
    BY <2>1, Residues
  <2>3. x \in JobItems /\ x.type = "processMessage" /\ x.of = {s} /\ x.counter = n
    <3> HIDE DEF n
    <3> QED BY <2>1, <2>2 DEF JobItems
  <2> HIDE DEF x
  <2>4. processJobQueue \in Seq(JobItems)
    BY <1>2 DEF Typed
  <2>5. PICK m \in Nat : m = Len(processJobQueue) + 1
    BY <2>3, <2>4, AppendPlaces
  <2>6. /\ DOMAIN processJobQueue = 1..(m - 1) /\ DOMAIN processJobQueue' = 1..m
        /\ \A i \in DOMAIN processJobQueue : processJobQueue'[i] = processJobQueue[i]
        /\ processJobQueue'[m] = x
    <3>1. Len(processJobQueue) = m - 1 /\ Len(processJobQueue) \in Nat
      BY <2>3, <2>4, <2>5, AppendPlaces
    <3> QED BY <1>8, <2>3, <2>4, <2>5, <3>1, AppendPlaces
  <2>7. \A i \in DOMAIN processJobQueue' : i \in DOMAIN processJobQueue \/ i = m
    BY <2>5, <2>6
  <2>8. \A i \in DOMAIN processJobQueue' : IsPacked(i)' => i \in DOMAIN processJobQueue /\ IsPacked(i)
    BY <2>3, <2>6, <2>7 DEF IsPacked
  <2>9. Counted'
    <3>1. \A i \in DOMAIN processJobQueue' : IsPacked(i)' =>
             /\ i \in DOMAIN processJobQueue /\ IsPacked(i) /\ processJobQueue'[i] = processJobQueue[i]
      BY <2>6, <2>8
    <3>2. \A i \in DOMAIN processJobQueue' : IsPacked(i)' =>
             Used(processJobQueue'[i], created', invocationCounter')
      <4>1. \A i \in DOMAIN processJobQueue : IsPacked(i) =>
               Used(processJobQueue[i], created, invocationCounter)
        BY DEF Order, Counted
      <4> QED BY <1>2, <1>6, <3>1, <4>1, PackedFields, StaysUsed
    <3>3. \A i, k \in DOMAIN processJobQueue' : i < k /\ IsPacked(i)' /\ IsPacked(k)' =>
             Before(processJobQueue'[i], processJobQueue'[k])
      BY <3>1 DEF Order, Counted
    <3>4. \A t \in outputQueue' :
             /\ Used(t, created', invocationCounter')
             /\ \A i \in DOMAIN processJobQueue' : IsPacked(i)' => Before(t, processJobQueue'[i])
      <4>1. \A t \in outputQueue : Used(t, created, invocationCounter)
        BY DEF Order, Counted
      <4>2. \A t \in outputQueue' : Used(t, created', invocationCounter')
        BY <1>1, <1>2, <1>6, <4>1, OutputFields, StaysUsed
      <4> QED BY <1>1, <3>1, <4>2 DEF Order, Counted
    <3>5. \A t, u \in outputQueue' : t.gen = u.gen /\ t.counter = u.counter => t = u
      BY <1>1 DEF Order, Counted
    <3> QED BY <3>2, <3>3, <3>4, <3>5 DEF Counted
  <2>10. Accepted'
    <3>1. ASSUME NEW i \in DOMAIN processJobQueue', processJobQueue'[i].type = "processMessage"
          PROVE  \E t \in outputQueue :
                   /\ processJobQueue'[i].of = {t}
                   /\ processJobQueue'[i].counter = t.counter % RES_MOD
                   /\ \A u \in outputQueue : u.gen <= t.gen
                   /\ \A k \in DOMAIN processJobQueue' : k < i /\ IsPacked(k)' =>
                          processJobQueue'[k].gen <= t.gen
      <4>1. CASE i \in DOMAIN processJobQueue
        <5>1. PICK t \in outputQueue :
                   /\ processJobQueue[i].of = {t}
                   /\ processJobQueue[i].counter = t.counter % RES_MOD
                   /\ \A u \in outputQueue : u.gen <= t.gen
                   /\ \A k \in DOMAIN processJobQueue : k < i /\ IsPacked(k) =>
                          processJobQueue[k].gen <= t.gen
          BY <2>6, <3>1, <4>1 DEF Order, Accepted
        <5>2. \A k \in DOMAIN processJobQueue' : k < i /\ IsPacked(k)' =>
                  processJobQueue'[k].gen <= t.gen
          BY <2>6, <2>8, <5>1
        <5> QED BY <2>6, <4>1, <5>1, <5>2
      <4>2. CASE i = m
        <5>1. \A u \in outputQueue : u.gen <= s.gen
          <6>1. \A u \in outputQueue : Used(u, created, invocationCounter) /\ u.gen \in Nat
            BY <1>2, OutputFields DEF Order, Counted
          <6> QED BY <2>1, <6>1 DEF Used
        <5>2. \A k \in DOMAIN processJobQueue' : IsPacked(k)' => processJobQueue'[k].gen <= s.gen
          <6>1. \A k \in DOMAIN processJobQueue : IsPacked(k) =>
                   Used(processJobQueue[k], created, invocationCounter) /\ processJobQueue[k].gen \in Nat
            BY <1>2, PackedFields DEF Order, Counted
          <6> QED BY <2>1, <2>6, <2>8, <6>1 DEF Used
        <5> QED BY <2>3, <2>6, <4>2, <5>1, <5>2 DEF n
      <4> QED BY <2>7, <3>1, <4>1, <4>2
    <3> QED BY <1>1, <3>1 DEF Accepted
  <2>11. FewerRoutes /\ FewerSent /\ NoAnswer
    BY <1>1 DEF FewerRoutes, FewerSent, NoAnswer, Order, Routes
  <2>12. Routes' /\ Own'
    BY <1>1, <1>2, <2>11, RoutesFrame, OwnFrame DEF Order
  <2> QED BY <2>9, <2>10, <2>12 DEF Order
<1> QED BY <1>5, <1>7, <1>8

\* A message accepted by the job its counter leads to answers the last one that
\* the job sent.
LEMMA AnsweredLatest ==
    ASSUME Books, Order, MAX_COUNTER < RES_MOD, 1 \in DOMAIN processJobQueue,
           NEW m, m = processJobQueue[1], m.type = "processMessage", m.counter \in DOMAIN jobs,
           NEW j \in Jobs, j = jobs[m.counter],
           State(j) = "SENT", job[j].client.counter = m.counter
    PROVE  \E s \in outputQueue : m.of = {s} /\ Latest(j, s, outputQueue)
<1>1. PICK s \in outputQueue : /\ m.of = {s} /\ m.counter = s.counter % RES_MOD
                              /\ \A t \in outputQueue : t.gen <= s.gen
  BY DEF Order, Accepted
<1>2. \A t \in outputQueue : /\ t.job \in Jobs /\ t.gen \in Nat /\ t.counter \in Nat
                            /\ t.counter \in 1..MAX_COUNTER
  BY OutputFields DEF Books
<1>3. m.counter = s.counter
  <2>1. s.counter < RES_MOD
    BY <1>2, WrangleAssumption, ModuliAssumption
  <2> QED BY <1>1, <1>2, <2>1, Residues
<1>4. PICK t1 \in outputQueue : /\ t1.job = j /\ t1.counter = m.counter
                               /\ \A u \in outputQueue : u.counter = m.counter => u.gen <= t1.gen
  BY DEF Order, Routes
<1>5. t1.gen = s.gen
  BY <1>1, <1>2, <1>3, <1>4
<1>6. s.job = j
  BY <1>3, <1>4, <1>5 DEF Order, Counted
<1>7. PICK t2 \in outputQueue : Latest(j, t2, outputQueue) /\ t2.counter = m.counter
  BY DEF Order, Routes
<1>8. s = t2 \/ Before(s, t2)
  BY <1>6, <1>7 DEF Latest
<1>9. t2.gen <= s.gen /\ t2.counter = s.counter /\ t2.gen \in Nat /\ s.gen \in Nat /\ s.counter \in Nat
  BY <1>1, <1>2, <1>3, <1>7
<1>10. ~Before(s, t2)
  BY <1>9 DEF Before
<1> QED BY <1>1, <1>7, <1>8, <1>10

LEMMA OrderProcessMessage ==
    ASSUME Books, Books', Order, MAX_COUNTER < RES_MOD, ProcessMessage
    PROVE  Order'
<1> DEFINE m == Head(processJobQueue)
<1>1. /\ processJobQueue # <<>> /\ processJobQueue' = Tail(processJobQueue)
      /\ m \in JobItems /\ m.type = "processMessage"
      /\ m = processJobQueue[1] /\ 1 \in DOMAIN processJobQueue
  BY TakenItem DEF ProcessMessage
<1>2. TakeJob("processMessage") /\ outputQueue' = outputQueue
  BY DEF ProcessMessage
<1>3. m.results \in Responses /\ m.of \in SUBSET Transmissions
  BY <1>1, JobItemFields
<1>4. Typed
  BY DEF Books
<1>5. CASE jobs' = jobs /\ job' = job /\ results' = results
  <2>1. FewerSent /\ NoAnswer
    BY <1>5 DEF FewerSent, NoAnswer
  <2> QED BY <1>2, <1>5, <2>1, OrderTaken
<1>6. ASSUME m.counter \in DOMAIN jobs,
             LET j == jobs[m.counter]
                 accepted == Accepts(job[j].client, m.counter, m.results)
                 b == IF accepted THEN [job[j] EXCEPT !.client = Answered(@, m.results)] ELSE job[j]
             IN  /\ Update(j, b, accepted, m.of)
                 /\ jobs' = IF Forgotten(j, accepted)
                            THEN [n \in DOMAIN jobs \ {m.counter} |-> jobs[n]]
                            ELSE jobs
      PROVE  Order'
  <2>1. jobs[m.counter] \in Jobs
    BY <1>6 DEF Books, Typed
  <2>2. PICK j \in Jobs : j = jobs[m.counter]
    BY <2>1
  <2> DEFINE accepted == Accepts(job[j].client, m.counter, m.results)
             a == Answered(job[j].client, m.results)
             b == IF accepted THEN [job[j] EXCEPT !.client = a] ELSE job[j]
  <2>3. Update(j, b, accepted, m.of)
    BY <1>6, <2>2
  <2>4. /\ DOMAIN jobs' \subseteq DOMAIN jobs
        /\ \A n \in DOMAIN jobs' : jobs'[n] = jobs[n]
    BY <1>6
  <2>5. IsJob(job[j]) /\ m.results \in Seq(STRING)
    BY <1>3, WrangleAssumption DEF Books, Typed
  <2>6. accepted => /\ IsClient(a) /\ a.state = "COMPLETE" /\ a.list[1].result \in Results
                    /\ State(j) = "SENT" /\ job[j].client.counter = m.counter
    <3>1. accepted => job[j].client.counter = m.counter
      BY DEF Accepts
    <3> QED BY <2>5, <3>1, AnsweredIsClient DEF IsJob, State
  <2> HIDE DEF m, accepted, a
  <2>7. /\ IsJob(b)
        /\ accepted => b.client.state = "COMPLETE" /\ b.client.list[1].result \in Results
        /\ ~accepted => b = job[j]
    <3>1. CASE accepted
      BY <2>5, <2>6, <3>1 DEF IsJob, JobRecords, IsClient
    <3>2. CASE ~accepted
      BY <2>5, <3>2
    <3> QED BY <3>1, <3>2
  <2> HIDE DEF b
  <2>8. Delivers(j, b, accepted, m.of)
    BY <1>3, <1>4, <2>3, <2>7, DeliversFacts
  <2>9. FewerSent
    BY <2>7, <2>8 DEF Delivers, FewerSent
  <2>10. CASE ~accepted
    <3>1. NoAnswer
      BY <2>8, <2>10 DEF Delivers, NoAnswer
    <3> QED BY <1>2, <2>4, <2>9, <3>1, OrderTaken
  <2>11. CASE accepted
    <3>1. PICK s \in outputQueue : m.of = {s} /\ Latest(j, s, outputQueue)
      BY <1>1, <1>6, <2>2, <2>6, <2>11, AnsweredLatest
    <3>2. Own'
      <4> SUFFICES ASSUME NEW k \in Jobs, NEW i \in DOMAIN results'[k], NEW t \in results'[k][i].of
                   PROVE  Latest(k, t, outputQueue)
        BY <1>2 DEF Own
      <4>1. CASE i \in DOMAIN results[k] /\ results'[k][i] = results[k][i]
        BY <4>1 DEF Order, Own
      <4>2. CASE ~(i \in DOMAIN results[k] /\ results'[k][i] = results[k][i])
        <5>1. k = j /\ results'[j][i].of = m.of
          BY <2>8, <4>2 DEF Delivers
        <5> QED BY <3>1, <5>1
      <4> QED BY <4>1, <4>2
    <3>3. /\ jobsIsArray' = jobsIsArray /\ created' = created /\ invocationCounter' = invocationCounter
      BY <1>2 DEF TakeJob, dbVars
    <3>4. Later /\ FewerRoutes
      BY <2>4, <3>3 DEF Later, FewerRoutes, Order, Routes
    <3>5. Typed' /\ SameQueue
      BY <1>1, <1>4, SameQueueFacts DEF Books, m
    <3>6. Counted' /\ Accepted' /\ Routes'
      BY <1>2, <1>4, <2>9, <3>4, <3>5, CountedFrame, AcceptedFrame, RoutesFrame DEF Order
    <3> QED BY <3>2, <3>6 DEF Order
  <2> QED BY <2>10, <2>11
<1> QED BY <1>5, <1>6 DEF ProcessMessage

\* A packed message x of j is sent and its counter leads to j, or it is not sent
\* and its counter leads nowhere; and no job but j then waits for an answer that
\* it did not wait for before.
HandsOver(j, n, x) ==
    \/ /\ outputQueue' = outputQueue
       /\ DOMAIN jobs' \subseteq DOMAIN jobs \ {n}
       /\ \A m \in DOMAIN jobs' : jobs'[m] = jobs[m]
    \/ /\ outputQueue' = outputQueue \cup {x} /\ ~jobsIsArray
       /\ DOMAIN jobs' = DOMAIN jobs \cup {n} /\ jobs'[n] = j
       /\ \A m \in DOMAIN jobs : m # n => jobs'[m] = jobs[m]
WaitsAfter(j, n) ==
    \A k \in Jobs : job'[k].client.state = "SENT" =>
        \/ job'[k].client.counter = n
        \/ /\ k # j /\ job[k].client.state = "SENT"
           /\ job'[k].client.counter = job[k].client.counter

LEMMA OrderPacked ==
    ASSUME Books, Books', Order, TakeJob("notifyPacked"),
           NEW j \in Jobs, NEW n \in Nat, NEW x \in Transmissions, x.job = j, x.counter = n,
           x.gen = Head(processJobQueue).gen, n = Head(processJobQueue).counter,
           WaitsAfter(j, n), HandsOver(j, n, x), NoAnswer,
           \A i \in DOMAIN results[j] : results[j][i].of = {}
    PROVE  Order'
<1> DEFINE item == Head(processJobQueue)
<1>1. /\ processJobQueue # <<>> /\ processJobQueue' = Tail(processJobQueue)
      /\ item.type = "notifyPacked" /\ item = processJobQueue[1]
      /\ 1 \in DOMAIN processJobQueue /\ processJobQueue \in Seq(JobItems)
      /\ jobsIsArray' = jobsIsArray /\ created' = created /\ invocationCounter' = invocationCounter
      /\ Typed /\ Typed'
  BY TakenItem DEF Books
<1> HIDE DEF item
<1>2. /\ \A i \in DOMAIN processJobQueue' :
            /\ i \in Nat /\ 1 < i + 1
            /\ i + 1 \in DOMAIN processJobQueue /\ processJobQueue'[i] = processJobQueue[i + 1]
      /\ \A i \in DOMAIN processJobQueue' : IsPacked(i)' <=> IsPacked(i + 1)
      /\ IsPacked(1)
  <2>1. \A i \in DOMAIN processJobQueue' :
            /\ i \in Nat /\ 1 < i + 1
            /\ i + 1 \in DOMAIN processJobQueue /\ processJobQueue'[i] = processJobQueue[i + 1]
    BY <1>1, TailPlaces
  <2> QED BY <1>1, <2>1 DEF IsPacked
<1>3. x.gen \in Nat /\ x.gen = processJobQueue[1].gen /\ x.counter = processJobQueue[1].counter
  BY <1>1, TransmissionFields DEF item
<1>4. /\ SameQueue /\ Later /\ Own
  BY <1>1, SameQueueFacts DEF Later, Order
<1>5. CASE /\ outputQueue' = outputQueue
           /\ DOMAIN jobs' \subseteq DOMAIN jobs \ {n}
           /\ \A m \in DOMAIN jobs' : jobs'[m] = jobs[m]
  <2>1. Counted' /\ Accepted' /\ Own'
    BY <1>1, <1>4, <1>5, CountedFrame, AcceptedFrame, OwnFrame DEF Order
  <2>2. ASSUME NEW m \in DOMAIN jobs'
        PROVE  /\ \E t \in outputQueue :
                    /\ t.job = jobs'[m] /\ t.counter = m
                    /\ \A u \in outputQueue : u.counter = m => u.gen <= t.gen
               /\ job'[jobs'[m]].client.state = "SENT" /\ job'[jobs'[m]].client.counter = m
                    => \E t \in outputQueue : Latest(jobs'[m], t, outputQueue) /\ t.counter = m
    <3>1. m \in DOMAIN jobs /\ m # n /\ jobs'[m] = jobs[m]
      BY <1>5
    <3>2. PICK k \in Jobs : k = jobs[m]
      BY <1>1, <3>1 DEF Typed
    <3>3. job'[k].client.state = "SENT" /\ job'[k].client.counter = m
            => job[k].client.state = "SENT" /\ job[k].client.counter = m
      BY <3>1 DEF WaitsAfter
    <3> QED BY <3>1, <3>2, <3>3 DEF Order, Routes, State
  <2>3. jobsIsArray' => DOMAIN jobs' = {}
    BY <1>1, <1>5 DEF Order, Routes
  <2>4. Routes'
    BY <1>5, <2>2, <2>3 DEF Routes, State
  <2> QED BY <2>1, <2>4 DEF Order
<1>6. CASE /\ outputQueue' = outputQueue \cup {x} /\ ~jobsIsArray
           /\ DOMAIN jobs' = DOMAIN jobs \cup {n} /\ jobs'[n] = j
           /\ \A m \in DOMAIN jobs : m # n => jobs'[m] = jobs[m]
  <2>1. \A i \in DOMAIN processJobQueue : IsPacked(i) =>
            processJobQueue[i].gen \in Nat /\ processJobQueue[i].counter \in Nat
    BY <1>1, PackedFields
  <2>2. \A t \in outputQueue : t.gen \in Nat /\ t.counter \in Nat
    BY <1>1, OutputFields
  <2>3. \A t \in outputQueue : Before(t, x)
    <3>1. \A t \in outputQueue : Before(t, processJobQueue[1])
      BY <1>1, <1>2 DEF Order, Counted
    <3> QED BY <1>3, <3>1 DEF Before
  <2>4. \A i \in DOMAIN processJobQueue' : IsPacked(i)' => Before(x, processJobQueue'[i])
    <3>1. \A i \in DOMAIN processJobQueue' : IsPacked(i)' =>
             Before(processJobQueue[1], processJobQueue[i + 1])
      BY <1>1, <1>2 DEF Order, Counted
    <3> QED BY <1>2, <1>3, <3>1 DEF Before
  <2>5. Counted'
    <3>1. \A i \in DOMAIN processJobQueue' : IsPacked(i)' =>
             Used(processJobQueue'[i], created', invocationCounter')
      BY <1>1, <1>2 DEF Order, Counted
    <3>2. ASSUME NEW i \in DOMAIN processJobQueue', NEW k \in DOMAIN processJobQueue',
                 i < k, IsPacked(i)', IsPacked(k)'
          PROVE  Before(processJobQueue'[i], processJobQueue'[k])
      <4>1. i + 1 < k + 1
        BY <1>2, <3>2
      <4>2. Before(processJobQueue[i + 1], processJobQueue[k + 1])
        BY <1>2, <3>2, <4>1 DEF Order, Counted
      <4> QED BY <1>2, <4>2
    <3>3. Used(x, created, invocationCounter)
      <4>1. Used(processJobQueue[1], created, invocationCounter)
        BY <1>1, <1>2 DEF Order, Counted
      <4> QED BY <1>3, <4>1 DEF Used
    <3>4. \A t \in outputQueue' : Used(t, created', invocationCounter')
      BY <1>1, <1>6, <3>3 DEF Order, Counted
    <3>5. \A t \in outputQueue' : \A i \in DOMAIN processJobQueue' :
              IsPacked(i)' => Before(t, processJobQueue'[i])
      <4>1. \A t \in outputQueue : \A i \in DOMAIN processJobQueue' :
                IsPacked(i)' => Before(t, processJobQueue'[i])
        BY <1>2 DEF Order, Counted
      <4> QED BY <1>6, <2>4, <4>1
    <3>6. \A t, u \in outputQueue' : t.gen = u.gen /\ t.counter = u.counter => t = u
      <4>1. \A t, u \in outputQueue : t.gen = u.gen /\ t.counter = u.counter => t = u
        BY DEF Order, Counted
      <4>2. \A t \in outputQueue : ~(t.gen = x.gen /\ t.counter = x.counter)
        BY <1>3, <2>2, <2>3 DEF Before
      <4> QED BY <1>6, <4>1, <4>2
    <3> QED BY <3>1, <3>2, <3>4, <3>5, <3>6 DEF Counted
  <2>6. Accepted'
    <3>1. ASSUME NEW i \in DOMAIN processJobQueue', processJobQueue'[i].type = "processMessage"
          PROVE  \E s \in outputQueue' :
                   /\ processJobQueue'[i].of = {s}
                   /\ processJobQueue'[i].counter = s.counter % RES_MOD
                   /\ \A t \in outputQueue' : t.gen <= s.gen
                   /\ \A k \in DOMAIN processJobQueue' : k < i /\ IsPacked(k)' =>
                          processJobQueue'[k].gen <= s.gen
      <4>1. PICK s \in outputQueue :
                   /\ processJobQueue[i + 1].of = {s}
                   /\ processJobQueue[i + 1].counter = s.counter % RES_MOD
                   /\ \A t \in outputQueue : t.gen <= s.gen
                   /\ \A k \in DOMAIN processJobQueue : k < i + 1 /\ IsPacked(k) =>
                          processJobQueue[k].gen <= s.gen
        BY <1>2, <3>1 DEF Order, Accepted
      <4>2. x.gen <= s.gen
        BY <1>1, <1>2, <1>3, <4>1
      <4>3. \A t \in outputQueue' : t.gen <= s.gen
        BY <1>6, <4>1, <4>2
      <4>4. ASSUME NEW k \in DOMAIN processJobQueue', k < i, IsPacked(k)'
            PROVE  processJobQueue'[k].gen <= s.gen
        <5>1. k + 1 < i + 1
          BY <1>2, <4>4
        <5> QED BY <1>2, <4>1, <4>4, <5>1
      <4>5. s \in outputQueue' /\ processJobQueue'[i] = processJobQueue[i + 1]
        BY <1>2, <1>6
      <4> QED BY <4>1, <4>3, <4>4, <4>5
    <3> QED BY <3>1 DEF Accepted
  <2>7. \A k \in Jobs, t \in outputQueue : k # j /\ Latest(k, t, outputQueue) => Latest(k, t, outputQueue')
    BY <1>6 DEF Latest
  <2>8. ASSUME NEW m \in DOMAIN jobs'
        PROVE  /\ \E t \in outputQueue' :
                    /\ t.job = jobs'[m] /\ t.counter = m
                    /\ \A u \in outputQueue' : u.counter = m => u.gen <= t.gen
               /\ job'[jobs'[m]].client.state = "SENT" /\ job'[jobs'[m]].client.counter = m
                    => \E t \in outputQueue' : Latest(jobs'[m], t, outputQueue') /\ t.counter = m
    <3>1. CASE m = n
      <4>1. \A u \in outputQueue' : u.gen <= x.gen
        BY <1>3, <1>6, <2>2, <2>3 DEF Before
      <4>2. Latest(j, x, outputQueue')
        BY <1>6, <2>3 DEF Latest
      <4>3. x \in outputQueue' /\ jobs'[m] = j
        BY <1>6, <3>1
      <4> QED BY <3>1, <4>1, <4>2, <4>3
    <3>2. CASE m # n
      <4>1. m \in DOMAIN jobs /\ jobs'[m] = jobs[m]
        BY <1>6, <3>2
      <4>2. PICK k \in Jobs : k = jobs[m]
        BY <1>1, <4>1 DEF Typed
      <4>3. job'[k].client.state = "SENT" /\ job'[k].client.counter = m
              => k # j /\ job[k].client.state = "SENT" /\ job[k].client.counter = m
        BY <3>2 DEF WaitsAfter
      <4>4. PICK t \in outputQueue : /\ t.job = k /\ t.counter = m
                                     /\ \A u \in outputQueue : u.counter = m => u.gen <= t.gen
        BY <4>1, <4>2 DEF Order, Routes
      <4>5. t \in outputQueue' /\ \A u \in outputQueue' : u.counter = m => u.gen <= t.gen
        BY <1>6, <3>2, <4>4
      <4>6. ASSUME job'[k].client.state = "SENT", job'[k].client.counter = m
            PROVE  \E v \in outputQueue' : Latest(k, v, outputQueue') /\ v.counter = m
        <5>1. PICK v \in outputQueue : Latest(k, v, outputQueue) /\ v.counter = m
          BY <4>1, <4>2, <4>3, <4>6 DEF Order, Routes, State
        <5> QED BY <1>6, <2>7, <4>3, <4>6, <5>1
      <4> QED BY <4>1, <4>2, <4>4, <4>5, <4>6
    <3> QED BY <3>1, <3>2
  <2>9. Routes'
    BY <1>1, <1>6, <2>8 DEF Routes, State
  <2>10. Own'
    <3> SUFFICES ASSUME NEW k \in Jobs, NEW i \in DOMAIN results'[k], NEW s \in results'[k][i].of
                 PROVE  Latest(k, s, outputQueue')
      BY DEF Own
    <3>1. i \in DOMAIN results[k] /\ results'[k][i] = results[k][i]
      BY DEF NoAnswer
    <3>2. k # j /\ Latest(k, s, outputQueue)
      BY <1>4, <3>1 DEF Own
    <3> QED BY <1>6, <3>2 DEF Latest
  <2> QED BY <2>5, <2>6, <2>9, <2>10 DEF Order
<1> QED BY <1>5, <1>6 DEF HandsOver

\* What is new in the results r comes from no answer.
Unanswered(r, all) ==
    \A k \in Jobs : \A i \in DOMAIN r[k] :
        r[k][i].of = {} \/ (i \in DOMAIN all[k] /\ r[k][i] = all[k][i])

LEMMA DeliveredFacts ==
    ASSUME NEW all \in [Jobs -> Seq(OutcomeRecords)], NEW j \in Jobs, NEW called, NEW y,
           called => y \in OutcomeRecords /\ y.of = {}
    PROVE  /\ Delivered(all, j, called, y) \in [Jobs -> Seq(OutcomeRecords)]
           /\ Unanswered(Delivered(all, j, called, y), all)
<1> DEFINE r == Delivered(all, j, called, y)
<1>1. CASE called
  <2>1. r = [all EXCEPT ![j] = Append(all[j], y)]
    BY <1>1 DEF Delivered
  <2>2. all[j] \in Seq(OutcomeRecords) /\ y \in OutcomeRecords
    BY <1>1
  <2>3. PICK a \in Seq(OutcomeRecords) : a = Append(all[j], y)
    <3>1. \A q \in Seq(OutcomeRecords) : Append(q, y) \in Seq(OutcomeRecords)
      BY <2>2
    <3>2. Append(all[j], y) \in Seq(OutcomeRecords)
      BY <2>2, <3>1
    <3> QED BY <3>2
  <2>4. /\ DOMAIN a = 1..(Len(all[j]) + 1) /\ Len(all[j]) \in Nat
        /\ DOMAIN all[j] = 1..Len(all[j])
        /\ \A i \in DOMAIN all[j] : a[i] = all[j][i]
        /\ a[Len(all[j]) + 1] = y
    BY <2>2, <2>3, AppendPlaces
  <2> HIDE DEF r
  <2>5. /\ r \in [Jobs -> Seq(OutcomeRecords)] /\ r[j] = a
        /\ \A k \in Jobs : k # j => r[k] = all[k]
    BY <2>1, <2>3
  <2>6. \A i \in DOMAIN a : a[i].of = {} \/ (i \in DOMAIN all[j] /\ a[i] = all[j][i])
    <3>1. \A i \in DOMAIN a : i \in DOMAIN all[j] \/ i = Len(all[j]) + 1
      BY <2>4
    <3> QED BY <1>1, <2>4, <3>1
  <2>7. ASSUME NEW k \in Jobs, NEW i \in DOMAIN r[k]
        PROVE  r[k][i].of = {} \/ (i \in DOMAIN all[k] /\ r[k][i] = all[k][i])
    <3>1. CASE k = j
      BY <2>5, <2>6, <3>1
    <3>2. CASE k # j
      BY <2>5, <3>2
    <3> QED BY <3>1, <3>2
  <2>8. Unanswered(r, all)
    BY <2>7 DEF Unanswered
  <2> QED BY <2>5, <2>8 DEF r
<1>2. CASE ~called
  BY <1>2 DEF Delivered, Unanswered
<1> QED BY <1>1, <1>2

LEMMA OrderNotifyPacked ==
    ASSUME Books, Books', Order, MAX_COUNTER < RES_MOD, NotifyPacked
    PROVE  Order'
<1> DEFINE item == Head(processJobQueue)
<1>0. TakeJob("notifyPacked") /\ Typed /\ Typed'
  BY DEF NotifyPacked, Books
<1>1. PICK j \in Jobs, n \in Nat, time \in Nat, x \in Transmissions :
        /\ j = item.job /\ n = item.counter /\ time = item.time /\ n \in 1..MAX_COUNTER
        /\ x = [job |-> item.job, gen |-> item.gen, counter |-> item.counter]
  BY <1>0, PackedItem
<1>2. /\ State(j) \in {"PENDING", "COMPLETE"}
      /\ \A i \in DOMAIN results[j] : results[j][i].of = {}
      /\ IsJob(job[j]) /\ results[j] \in Seq(OutcomeRecords)
      /\ results[j] # <<>> => State(j) = "COMPLETE"
  BY <1>0, <1>1, PackedItem
<1> DEFINE c == OutputConfirmed(job[j], n)
           completes == c.client.state = "COMPLETE" /\ job[j].client.state # "COMPLETE"
           done == completes \/ Finished(j)
           b == [c EXCEPT !.timeout = IF done THEN @ ELSE time + c.retryPeriod]
           y == [result |-> "CANCEL", of |-> {}]
           f == [job EXCEPT ![j] = b]
           g == Delivered(results, j, completes, Outcome(b.client, {}))
<1>3. /\ IsJob(b) /\ (completes => b.client.list[1].result \in Results)
      /\ b.client.state = "SENT" => b.client.counter = n % RES_MOD
      /\ completes => b.client.state = "COMPLETE"
  BY <1>2, PackedJob
<1>7. /\ x.job = j /\ x.counter = n /\ x.gen = Head(processJobQueue).gen
      /\ n = Head(processJobQueue).counter
  BY <1>1
<1>8. b.client.state = "SENT" => b.client.counter = n
  <2>0. n < RES_MOD
    BY <1>1, WrangleAssumption, ModuliAssumption
  <2>1. n % RES_MOD = n
    BY <1>1, <2>0, Residues
  <2> QED BY <1>3, <2>1
<1>9. ASSUME Update(j, b, completes, {}) PROVE WaitsAfter(j, n) /\ NoAnswer
  <2> HIDE DEF c, completes, done, b
  <2>1. Delivers(j, b, completes, {})
    BY <1>0, <1>3, <1>9, DeliversFacts
  <2>2. WaitsAfter(j, n)
    BY <1>8, <2>1 DEF Delivers, WaitsAfter
  <2>3. NoAnswer
    BY <2>1 DEF Delivers, NoAnswer
  <2> QED BY <2>2, <2>3
<1>4. CASE jobsIsArray
  <2>1. Update(j, b, completes, {}) /\ jobs' = jobs /\ outputQueue' = outputQueue
    BY <1>1, <1>4 DEF NotifyPacked
  <2>2. DOMAIN jobs = {}
    BY <1>4 DEF Order, Routes
  <2> HIDE DEF item, c, completes, done, b
  <2>3. HandsOver(j, n, x)
    BY <2>1, <2>2 DEF HandsOver
  <2> QED BY <1>0, <1>2, <1>7, <1>9, <2>1, <2>3, OrderPacked
<1>5. CASE ~jobsIsArray /\ n \notin DOMAIN jobs
  <2>1. /\ Update(j, b, completes, {})
        /\ outputQueue' = outputQueue \cup {x}
        /\ jobs' = [k \in DOMAIN jobs \cup {n} |-> IF k = n THEN j ELSE jobs[k]]
    BY <1>1, <1>5 DEF NotifyPacked
  <2> HIDE DEF item, c, completes, done, b
  <2>2. DOMAIN jobs' = DOMAIN jobs \cup {n} /\ jobs'[n] = j
        /\ \A m \in DOMAIN jobs : m # n => jobs'[m] = jobs[m]
    BY <2>1
  <2>3. outputQueue' = outputQueue \cup {x} /\ ~jobsIsArray
    BY <1>5, <2>1
  <2>4. WaitsAfter(j, n) /\ NoAnswer
    BY <1>9, <2>1
  <2>5. HandsOver(j, n, x)
    BY <2>2, <2>3 DEF HandsOver
  <2> QED BY <1>0, <1>2, <1>7, <2>4, <2>5, OrderPacked
<1>6. CASE ~jobsIsArray /\ n \in DOMAIN jobs
  <2>1. /\ jobs' = [k \in DOMAIN jobs \ {n} |-> jobs[k]]
        /\ outputQueue' = outputQueue
    BY <1>1, <1>6 DEF NotifyPacked
  <2>2. LET other == jobs[n]
            packed == [job EXCEPT ![j] = b]
        IN  job' = [packed EXCEPT ![other] = Abandoned(@, Cancelled(@.client))]
    BY <1>1, <1>6 DEF NotifyPacked
  <2>3. LET other == jobs[n]
            packed == [job EXCEPT ![j] = b]
            given == Delivered(results, j, completes, Outcome(b.client, {}))
        IN  results' = Delivered(given, other, CanAbandon(packed[other].client),
                                 [result |-> "CANCEL", of |-> {}])
    BY <1>1, <1>6 DEF NotifyPacked
  <2>4. PICK o \in Jobs : o = jobs[n]
    BY <1>0, <1>6 DEF Typed
  <2> DEFINE d(a) == Abandoned(a, Cancelled(a.client))
  <2>5. /\ job' = [f EXCEPT ![o] = d(f[o])]
        /\ results' = Delivered(g, o, CanAbandon(f[o].client), y)
    BY <2>2, <2>3, <2>4
  <2>6. \A a : IsJob(a) => IF CanAbandon(a.client) THEN d(a).client.state = "COMPLETE" ELSE d(a) = a
    <3> SUFFICES ASSUME NEW a, IsJob(a)
                 PROVE  IF CanAbandon(a.client) THEN d(a).client.state = "COMPLETE" ELSE d(a) = a
      OBVIOUS
    <3>1. Cancelled(a.client) = Complete(a.client, Every(a.client, "CANCEL"))
      BY DEF Cancelled
    <3> QED BY <3>1, AbandonedIsJob
  <2>7. /\ f \in [Jobs -> JobRecords] /\ f[j] = b /\ \A k \in Jobs : k # j => f[k] = job[k]
        /\ \A k \in Jobs : IsJob(f[k])
    <3>1. job \in [Jobs -> JobRecords] /\ \A k \in Jobs : IsJob(job[k])
      BY <1>0 DEF Typed
    <3> HIDE DEF c, completes, done, b
    <3>2. f \in [Jobs -> JobRecords] /\ f[j] = b /\ \A k \in Jobs : k # j => f[k] = job[k]
      BY <1>3, <3>1 DEF IsJob
    <3> QED BY <1>3, <3>1, <3>2
  <2>8. /\ g \in [Jobs -> Seq(OutcomeRecords)]
        /\ Unanswered(g, results)
    <3>1. completes => Outcome(b.client, {}) \in OutcomeRecords /\ Outcome(b.client, {}).of = {}
      BY <1>3 DEF Outcome, OutcomeRecords
    <3>2. results \in [Jobs -> Seq(OutcomeRecords)]
      BY <1>0 DEF Typed
    <3> HIDE DEF c, completes, done, b
    <3> QED BY <3>1, <3>2, DeliveredFacts
  <2> HIDE DEF item, c, completes, done, b, f, g, d
  <2>9. y \in OutcomeRecords /\ y.of = {}
    BY DEF OutcomeRecords, Results
  <2> HIDE DEF y
  <2>10. NoAnswer
    <3>1. Unanswered(results', g)
      BY <2>5, <2>8, <2>9, DeliveredFacts
    <3> QED BY <2>8, <3>1 DEF NoAnswer, Unanswered
  <2>11. \A k \in Jobs : job'[k].client.state = "SENT" => job'[k] = f[k]
    <3>1. \A k \in Jobs : k # o => job'[k] = f[k]
      BY <2>5, <2>7
    <3>2. job'[o] = d(f[o])
      BY <2>5, <2>7
    <3>3. job'[o].client.state = "SENT" => job'[o] = f[o]
      BY <2>6, <2>7, <3>2
    <3> QED BY <3>1, <3>3
  <2>12. WaitsAfter(j, n)
    BY <1>8, <2>7, <2>11 DEF WaitsAfter
  <2>13. DOMAIN jobs' \subseteq DOMAIN jobs \ {n} /\ \A m \in DOMAIN jobs' : jobs'[m] = jobs[m]
    BY <2>1
  <2>14. outputQueue' = outputQueue
    BY <2>1
  <2>15. HandsOver(j, n, x)
    BY <2>13, <2>14 DEF HandsOver
  <2> QED BY <1>0, <1>2, <1>7, <2>10, <2>12, <2>15, OrderPacked
<1> QED BY <1>4, <1>5, <1>6

LEMMA OrderInit == Init => Order
<1> SUFFICES ASSUME Init PROVE Order
  OBVIOUS
<1>1. /\ DOMAIN processJobQueue = {} /\ DOMAIN jobs = {} /\ outputQueue = {}
      /\ \A j \in Jobs : DOMAIN results[j] = {}
  BY DEF Init
<1> QED BY <1>1 DEF Order, Counted, Accepted, Routes, Own

\* A crossing is not undone, and a message that was packed across one is a crossing.
LEMMA StaysCrossed ==
    ASSUME [Next]_vars, ~crossed'
    PROVE  ~crossed /\ ~SendAcross
<1>1. ~SendAcross
  BY DEF SendAcross
<1>2. ~crossed
  <2>1. CASE Pack
    <3>1. \/ crossed' = crossed \/ SendAcross
          \/ \E item : crossed' = (crossed \/ item.gen # item.answers.gen)
      BY <2>1 DEF Pack, Send, Receive, ReceiveRequest, ReceiveStray, ReceiveAcross,
                  ReceiveRequestAcross, Accept
    <3> QED BY <1>1, <3>1
  <2>2. CASE Work
    <3>1. \E type : TakeJob(type)
      BY <2>2 DEF Work, NewJob, NotifyNotSent, NotifyPacked, NotifyTick, ProcessMessage, MissingPreJob
    <3>2. crossed' = crossed
      BY <3>1 DEF TakeJob, dbVars
    <3> QED BY <3>2
  <2>3. CASE Start \/ Stop \/ Pass \/ Input \/ Delete \/ Create \/ ProcessTick \/ UNCHANGED vars
    <3>1. crossed' = crossed
      BY <2>3 DEF Start, Stop, Pass, Input, Delete, Create, ProcessTick, vars, dbVars
    <3> QED BY <3>1
  <2>4. ASSUME NEW j \in Jobs, Request(j) PROVE ~crossed
    <3>1. crossed' = crossed
      BY <2>4 DEF Request, dbVars
    <3> QED BY <3>1
  <2> QED BY <2>1, <2>2, <2>3, <2>4 DEF Next
<1> QED BY <1>1, <1>2

LEMMA OrderNext ==
    ASSUME MAX_COUNTER < RES_MOD, Books, Books', ~crossed => Order, [Next]_vars, ~crossed'
    PROVE  Order'
<1>0. ~crossed /\ ~SendAcross /\ Order
  BY StaysCrossed
<1>1. CASE \E j \in Jobs : Request(j)
  BY <1>0, <1>1, OrderRequest
<1>2. CASE \E type : MissingPreJob(type)
  BY <1>0, <1>2, OrderMissingPreJob
<1>3. CASE NewJob \/ NotifyNotSent \/ NotifyPacked \/ NotifyTick \/ ProcessMessage
  BY <1>0, <1>3, OrderNewJob, OrderNotifyNotSent, OrderNotifyPacked, OrderNotifyTick, OrderProcessMessage
<1>4. CASE Send \/ Receive \/ ReceiveAcross
  BY <1>0, <1>4, OrderSend, OrderReceive
<1>5. CASE \/ Start \/ Stop \/ Pass \/ Input \/ Delete \/ Create \/ ProcessTick
           \/ ReceiveRequest \/ ReceiveRequestAcross \/ ReceiveStray \/ UNCHANGED vars
  BY <1>0, <1>5, OrderEnvironment
<1> QED BY <1>0, <1>1, <1>2, <1>3, <1>4, <1>5 DEF Next, Work, Pack

LEMMA OrderIsOwn == Books /\ (~crossed => Order) => AnswerIsOwn
<1> SUFFICES ASSUME Books, ~crossed, Order, NEW j \in Jobs, NEW i \in DOMAIN results[j],
                    NEW s \in results[j][i].of, NEW t \in outputQueue, t.job = j
             PROVE  s.job = j /\ (t.gen < s.gen \/ (t.gen = s.gen /\ t.counter <= s.counter))
  BY DEF Order, Own, AnswerIsOwn, Latest
<1>1. Latest(j, s, outputQueue)
  BY DEF Order, Own
<1>2. t.gen \in Nat /\ t.counter \in Nat
  BY OutputFields DEF Books
<1>3. s.job = j /\ (t = s \/ Before(t, s))
  BY <1>1 DEF Latest
<1>4. CASE t = s
  BY <1>2, <1>3, <1>4
<1>5. CASE Before(t, s)
  <2>1. results[j] \in Seq(OutcomeRecords)
    BY DEF Books, Typed
  <2>2. results[j][i] \in OutcomeRecords
    BY <2>1
  <2>3. s \in Transmissions
    BY <2>2 DEF OutcomeRecords
  <2>4. s.gen \in Nat /\ s.counter \in Nat
    BY <2>3, TransmissionFields
  <2> QED BY <1>2, <1>3, <1>5, <2>4 DEF Before
<1> QED BY <1>3, <1>4, <1>5

\* While an association is created anew before its 65536th message, no request
\* gets the answer to another one or to a transmission it gave up: whatever the
\* network duplicates, delays or reorders, whenever the peer is stopped and
\* started and the association created again, until a re-creation falls between
\* two readings of the record for one message.
THEOREM AnswersAlwaysOwn ==
    ASSUME MAX_COUNTER < RES_MOD
    PROVE  Spec => []AnswerIsOwn
<1>1. Init => Order
  BY OrderInit
<1>2. Books /\ Books' /\ (~crossed => Order) /\ [Next]_vars => (~crossed => Order)'
  BY OrderNext
<1>3. Books /\ (~crossed => Order) => AnswerIsOwn
  BY OrderIsOwn
<1>4. Spec => []Books
  BY BooksAlways
<1>5. Init => (~crossed => Order)
  BY <1>1
<1> QED BY <1>2, <1>3, <1>4, <1>5, PTL DEF Spec
=============================================================================
