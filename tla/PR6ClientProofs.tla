-------------------------- MODULE PR6ClientProofs ---------------------------
(***************************************************************************)
(* Theorems about PR6Client for every number of instances, requests and    *)
(* transmissions and every width of the echoed counter: the type invariant,*)
(* that a response is only taken by the request it answers, that results   *)
(* are shown whole or not at all, and that transmissions of a request agree.*)
(***************************************************************************)
EXTENDS PR6Client, Integers, SequenceTheorems, TLAPS

-----------------------------------------------------------------------------
(* Arithmetic and sequences *)

\* Two counters less than k apart that agree modulo k are the same counter.
LEMMA FreshCountersDiffer ==
    ASSUME NEW k \in Nat \ {0}, NEW a \in Nat, NEW b \in Nat,
           a - b < k, b - a < k, a % k = b % k
    PROVE  a = b
<1> DEFINE p == a \div k
           q == b \div k
<1>1. p \in Int /\ q \in Int /\ a = (k * p) + (a % k) /\ b = (k * q) + (b % k)
  OBVIOUS
<1>2. a - b = k * (p - q)
  BY <1>1
<1>3. p = q
  BY <1>1, <1>2
<1> QED BY <1>1, <1>3

LEMMA FunctionIsSeq ==
    ASSUME NEW S, NEW n \in Nat, NEW f \in [1..n -> S]
    PROVE  f \in Seq(S) /\ Len(f) = n
  BY SeqDef

-----------------------------------------------------------------------------
(* What each function of pr6_client.c returns is an instance *)

LEMMA ListType ==
    ASSUME NEW r \in Instances
    PROVE  /\ r.list \in Seq(Invocations) /\ Len(r.list) \in Nat
           /\ \A i \in 1..Len(r.list) : r.list[i] \in Invocations
<1>1. r.list \in Seq(Invocations) /\ Len(r.list) \in Nat
  BY DEF Instances
<1> QED BY <1>1

LEMMA MessageType ==
    ASSUME NEW r \in Instances
    PROVE  Message(r) \in Messages /\ Len(Message(r).argLens) = Len(Message(r).methods)
<1>1. [i \in 1..Len(r.list) |-> r.list[i].method] \in [1..Len(r.list) -> Methods]
  BY ListType DEF Invocations
<1>2. [i \in 1..Len(r.list) |-> r.list[i].argLen] \in [1..Len(r.list) -> ArgLens]
  BY ListType DEF Invocations
<1> QED BY <1>1, <1>2, ListType, FunctionIsSeq DEF Instances, Messages, Message

LEMMA InvocationType ==
    ASSUME NEW m \in Methods, NEW n \in ArgLens
    PROVE  Invocation(m, n) \in Invocations /\ InvocationLen(n) \in Nat
  BY ClientAssumption
  DEF Invocation, Invocations, Results, ServerResults, InvocationLen, SizeofVint

LEMMA InitialisedType ==
    ASSUME NEW p \in PoolSizes, NEW mode \in Modes, NEW m \in Methods, NEW n \in ArgLens
    PROVE  Initialised(p, mode[1], mode[2], m, n) \in Instances
<1>1. mode[1] \in BOOLEAN /\ mode[2] \in BOOLEAN /\ p \in Nat
  BY ClientAssumption
<1>2. <<Invocation(m, n)>> \in Seq(Invocations) /\ (1 + InvocationLen(n)) % LEN_MOD \in Nat
  BY InvocationType, ModuliAssumption
<1>3. Unused \in Instances
  BY DEF Unused, Instances, States
<1> QED BY <1>1, <1>2, <1>3 DEF Initialised, Instances, States

LEMMA WithMethodType ==
    ASSUME NEW r \in Instances, NEW m \in Methods, NEW n \in ArgLens
    PROVE  WithMethod(r, m, n) \in Instances
<1>1. (r.reqLen + InvocationLen(n)) % LEN_MOD \in Nat
  BY InvocationType, ModuliAssumption DEF Instances
<1>2. Append(r.list, Invocation(m, n)) \in Seq(Invocations)
  BY InvocationType, ListType
<1> QED BY <1>1, <1>2 DEF WithMethod, Instances

LEMMA RebuiltType ==
    ASSUME NEW msg \in Messages, NEW p \in PoolSizes, NEW given \in BOOLEAN, NEW n \in Nat,
           Len(msg.argLens) = Len(msg.methods)
    PROVE  Rebuilt(msg, p, given, n) \in Instances
<1> DEFINE l == [i \in 1..Len(msg.methods) |-> Invocation(msg.methods[i], msg.argLens[i])]
<1>1. /\ msg.methods \in Seq(Methods) /\ msg.argLens \in Seq(ArgLens)
      /\ Len(msg.methods) \in Nat
  BY DEF Messages
<1>2. \A i \in 1..Len(msg.methods) : msg.methods[i] \in Methods /\ msg.argLens[i] \in ArgLens
  BY <1>1
<1>3. l \in Seq(Invocations)
  BY <1>1, <1>2, InvocationType, FunctionIsSeq
<1>4. n % RES_MOD \in Nat /\ p \in Nat
  BY ModuliAssumption, ClientAssumption
<1>5. Unused \in Instances
  BY DEF Unused, Instances, States
<1> QED BY <1>3, <1>4, <1>5 DEF Rebuilt, Instances, Messages, States

LEMMA CompleteType ==
    ASSUME NEW r \in Instances, NEW res, \A i \in 1..Len(r.list) : res[i] \in Results
    PROVE  Complete(r, res) \in Instances
<1> DEFINE l == [i \in 1..Len(r.list) |-> [r.list[i] EXCEPT !.result = res[i]]]
<1>1. l \in [1..Len(r.list) -> Invocations]
  BY ListType DEF Invocations
<1>2. l \in Seq(Invocations)
  BY <1>1, ListType, FunctionIsSeq
<1> QED BY <1>2 DEF Complete, Instances, States

LEMMA AbandonedType ==
    ASSUME NEW r \in Instances
    PROVE  TimedOut(r) \in Instances /\ Cancelled(r) \in Instances
  BY CompleteType DEF TimedOut, Cancelled, Every, Results

LEMMA AnsweredType ==
    ASSUME NEW r \in Instances, NEW results \in Answers, NEW n, Accepts(r, n, results)
    PROVE  Answered(r, results) \in Instances
<1> DEFINE res == [i \in 1..Len(r.list) |-> ResultFor(results, i)]
<1>1. results \in Seq(ServerResults \cup {"INVALID"})
  BY ClientAssumption
<1>2. Len(results) \in Nat /\ \A i \in 1..Len(results) : results[i] \in ServerResults
  BY <1>1 DEF Accepts
<1>3. \A i \in 1..Len(r.list) : res[i] \in Results
  BY <1>2, ListType DEF ResultFor, Results
<1> QED BY <1>3, CompleteType DEF Answered

LEMMA ConfirmedType ==
    ASSUME NEW r \in Instances, NEW n \in Nat
    PROVE  Confirmed(r, n) \in Instances
<1> DEFINE s == [r EXCEPT !.counter = n % RES_MOD, !.state = "SENT"]
<1>1. n % RES_MOD \in Nat
  BY ModuliAssumption
<1>2. s \in Instances /\ s.list = r.list
  BY <1>1 DEF Instances, States
<1>3. \A i \in 1..Len(s.list) : Every(r, "SUCCESS")[i] \in Results
  BY <1>2 DEF Every, Results, ServerResults
<1>4. Complete(s, Every(r, "SUCCESS")) \in Instances
  BY <1>2, <1>3, CompleteType
<1> QED BY <1>2, <1>4 DEF Confirmed

-----------------------------------------------------------------------------
(* The type invariant *)

LEMMA InitType == Init => TypeOK
<1> SUFFICES ASSUME Init PROVE TypeOK
  OBVIOUS
<1>1. Unused \in Instances
  BY DEF Unused, Instances, States
<1> QED BY <1>1 DEF Init, TypeOK

LEMMA NextType == TypeOK /\ [Next]_vars => TypeOK'
<1> SUFFICES ASSUME TypeOK, [Next]_vars PROVE TypeOK'
  OBVIOUS
<1> USE DEF TypeOK
<1>1. ASSUME NEW c \in Clients, ClientInit(c) PROVE TypeOK'
  BY <1>1, InitialisedType DEF ClientInit
<1>2. ASSUME NEW c \in Clients, AddMethod(c) PROVE TypeOK'
  BY <1>2, WithMethodType DEF AddMethod
<1>3. ASSUME NEW c \in Clients, FromOutput(c) PROVE TypeOK'
  <2>1. /\ Message(client[c]) \in Messages
        /\ Len(Message(client[c]).argLens) = Len(Message(client[c]).methods)
    BY MessageType
  <2>2. PICK p \in PoolSizes, n \in {0, packed[c], confirmed[c]} :
          /\ client' = [client EXCEPT ![c] = Rebuilt(Message(client[c]), p, n # 0, n)]
          /\ confirmed' = [confirmed EXCEPT ![c] = n]
    BY <1>3 DEF FromOutput
  <2>3. n \in Nat /\ (n # 0) \in BOOLEAN
    OBVIOUS
  <2>4. Rebuilt(Message(client[c]), p, n # 0, n) \in Instances
    BY <2>1, <2>3, RebuiltType
  <2> QED BY <1>3, <2>2, <2>3, <2>4 DEF FromOutput
<1>4. ASSUME NEW c \in Clients, ClientOutput(c) PROVE TypeOK'
  <2>1. Pending(client[c]) \in Instances
    BY DEF Pending, Instances, States
  <2> QED BY <1>4, <2>1 DEF ClientOutput
<1>5. ASSUME NEW c \in Clients, PeerOutput(c) PROVE TypeOK'
  <2>1. [request |-> request[c], message |-> Message(client[c])] \in [request : Nat, message : Messages]
    BY MessageType
  <2>2. Len(sent) + 1 \in Nat
    OBVIOUS
  <2>3. answer' \in Seq(SUBSET Answers) /\ Len(answer') = Len(sent')
    BY <1>5, <2>1 DEF PeerOutput
  <2> QED BY <1>5, <2>1, <2>2, <2>3 DEF PeerOutput
<1>6. ASSUME NEW c \in Clients, ClientOutputConfirm(c) PROVE TypeOK'
  <2>1. Confirmed(client[c], packed[c]) \in Instances
    BY ConfirmedType
  <2>2. CASE CanConfirm(client[c])
    BY <1>6, <2>1, <2>2 DEF ClientOutputConfirm
  <2>3. CASE ~CanConfirm(client[c])
    BY <1>6, <2>3 DEF ClientOutputConfirm
  <2> QED BY <2>2, <2>3
<1>7. ASSUME NEW c \in Clients, ClientTimeout(c) PROVE TypeOK'
  BY <1>7, AbandonedType DEF ClientTimeout
<1>8. ASSUME NEW c \in Clients, ClientCancel(c) PROVE TypeOK'
  BY <1>8, AbandonedType DEF ClientCancel
<1>9. ASSUME NEW n \in 1..Len(sent), Answer(n) PROVE TypeOK'
  BY <1>9 DEF Answer
<1>10. ASSUME NEW n \in 1..Len(sent), NEW c \in Clients, ClientInput(c, n) PROVE TypeOK'
  <2>1. PICK results \in answer[n] :
          /\ Accepts(client[c], n % RES_MOD, results)
          /\ client' = [client EXCEPT ![c] = Answered(client[c], results)]
    BY <1>10 DEF ClientInput
  <2>2. results \in Answers
    OBVIOUS
  <2>3. Answered(client[c], results) \in Instances
    BY <2>1, <2>2, AnsweredType
  <2> QED BY <1>10, <2>1, <2>3 DEF ClientInput
<1>11. CASE UNCHANGED vars
  BY <1>11 DEF vars
<1> QED BY <1>1, <1>2, <1>3, <1>4, <1>5, <1>6, <1>7, <1>8, <1>9, <1>10, <1>11 DEF Next, ClientSide

\* Every variable keeps its type.
THEOREM TypeCorrect == Spec => []TypeOK
  BY InitType, NextType, PTL DEF Spec

-----------------------------------------------------------------------------
(* A response is only taken by the request it answers *)

\* Counters on record are of transmissions of the request they are kept for.
OwnTransmission(c, n) == n \in 1..Len(sent) /\ sent[n].request = request[c]

\* What makes AnswerIsOwn inductive. An instance in SENT compares the low bits
\* of a counter that belongs to its request and is still fresh, so a fresh
\* response that matches them answers that transmission; an instance that
\* shows an answer is complete, so no later confirmation replaces its counter.
AnswerInv ==
    \A c \in Clients :
        /\ packed[c] # 0 => OwnTransmission(c, packed[c]) /\ Fresh(packed[c], Len(sent))
        /\ confirmed[c] # 0 => OwnTransmission(c, confirmed[c])
        /\ client[c].state = "SENT" =>
              /\ confirmed[c] # 0 /\ Fresh(confirmed[c], Len(sent))
              /\ client[c].counter = confirmed[c] % RES_MOD
        /\ delivered[c] # 0 =>
              delivered[c] = confirmed[c] /\ client[c].state \in {"COMPLETE"}

LEMMA AnswerInvImplies == TypeOK /\ AnswerInv => AnswerIsOwn
  BY DEF TypeOK, AnswerInv, AnswerIsOwn, OwnTransmission

LEMMA InitAnswerInv == Init => AnswerInv
  BY DEF Init, AnswerInv, Unused

LEMMA NextAnswerInv == TypeOK /\ TypeOK' /\ AnswerInv /\ [Next]_vars => AnswerInv'
<1> SUFFICES ASSUME TypeOK, TypeOK', AnswerInv, [Next]_vars PROVE AnswerInv'
  OBVIOUS
<1> USE DEF AnswerInv
<1>1. ASSUME NEW c \in Clients, ClientInit(c) PROVE AnswerInv'
  <2>1. client'[c].state \in {"INIT", "UNUSED"}
    BY <1>1 DEF ClientInit, Initialised, Unused, TypeOK
  <2> QED BY <1>1, <2>1 DEF ClientInit, OwnTransmission, TypeOK
<1>2. ASSUME NEW c \in Clients, AddMethod(c) PROVE AnswerInv'
  <2>1. client'[c].state = "INIT"
    BY <1>2 DEF AddMethod, WithMethod, CanAddMethod, TypeOK, Instances
  <2> QED BY <1>2, <2>1 DEF AddMethod, CanAddMethod, OwnTransmission, TypeOK
<1>3. ASSUME NEW c \in Clients, FromOutput(c) PROVE AnswerInv'
  <2>1. PICK p \in PoolSizes, n \in {0, packed[c], confirmed[c]} :
          /\ n # 0 => Fresh(n, Len(sent))
          /\ client' = [client EXCEPT ![c] = Rebuilt(Message(client[c]), p, n # 0, n)]
          /\ confirmed' = [confirmed EXCEPT ![c] = n]
    BY <1>3 DEF FromOutput
  <2>2. /\ client'[c].state \in {"PENDING", "SENT", "UNUSED"}
        /\ client'[c].state = "SENT" => n # 0 /\ client'[c].counter = n % RES_MOD
    BY <2>1 DEF Rebuilt, Unused, TypeOK
  <2>3. delivered[c] = 0
    BY <1>3 DEF FromOutput
  <2> QED BY <1>3, <2>1, <2>2, <2>3 DEF FromOutput, OwnTransmission, TypeOK
<1>4. ASSUME NEW c \in Clients, ClientOutput(c) PROVE AnswerInv'
  <2>1. client'[c].state = "PENDING" /\ client[c].state # "COMPLETE"
    BY <1>4 DEF ClientOutput, Pending, CanOutput, TypeOK, Instances
  <2> QED BY <1>4, <2>1 DEF ClientOutput, OwnTransmission, TypeOK
<1>5. ASSUME NEW c \in Clients, PeerOutput(c) PROVE AnswerInv'
  <2>1. /\ Len(sent') = Len(sent) + 1 /\ sent'[Len(sent) + 1].request = request[c]
        /\ \A n \in 1..Len(sent) : n \in 1..Len(sent') /\ sent'[n] = sent[n]
    BY <1>5 DEF PeerOutput, TypeOK
  <2>2. /\ \A d \in Clients : packed[d] # 0 => Fresh(packed[d], Len(sent'))
        /\ \A d \in Clients : client[d].state = "SENT" => Fresh(confirmed[d], Len(sent'))
    BY <1>5, <2>1 DEF PeerOutput, Waiting, TypeOK
  <2>3. Fresh(Len(sent) + 1, Len(sent')) /\ Len(sent) + 1 # 0
    BY <2>1, ModuliAssumption DEF Fresh, TypeOK
  <2> QED BY <1>5, <2>1, <2>2, <2>3 DEF PeerOutput, OwnTransmission, TypeOK
<1>6. ASSUME NEW c \in Clients, ClientOutputConfirm(c) PROVE AnswerInv'
  <2>1. CASE CanConfirm(client[c])
    <3>1. /\ client'[c].state \in {"SENT", "COMPLETE"}
          /\ client'[c].state = "SENT" => client'[c].counter = packed[c] % RES_MOD
      <4> DEFINE s == [client[c] EXCEPT !.counter = packed[c] % RES_MOD, !.state = "SENT"]
      <4>1. client'[c] = s \/ client'[c] = Complete(s, Every(client[c], "SUCCESS"))
        BY <1>6, <2>1 DEF ClientOutputConfirm, Confirmed, TypeOK
      <4>2. s.state = "SENT" /\ s.counter = packed[c] % RES_MOD
        BY DEF TypeOK, Instances
      <4>3. Complete(s, Every(client[c], "SUCCESS")).state = "COMPLETE"
        BY DEF Complete, TypeOK, Instances
      <4> HIDE DEF s
      <4> QED BY <4>1, <4>2, <4>3
    <3>2. delivered[c] = 0
      BY <2>1 DEF CanConfirm
    <3> QED BY <1>6, <2>1, <3>1, <3>2 DEF ClientOutputConfirm, OwnTransmission, TypeOK
  <2>2. CASE ~CanConfirm(client[c])
    BY <1>6, <2>2 DEF ClientOutputConfirm, OwnTransmission, TypeOK
  <2> QED BY <2>1, <2>2
<1>7. ASSUME NEW c \in Clients, ClientTimeout(c) PROVE AnswerInv'
  <2>1. client'[c].state = "COMPLETE"
    BY <1>7 DEF ClientTimeout, TimedOut, Complete, TypeOK, Instances
  <2> QED BY <1>7, <2>1 DEF ClientTimeout, OwnTransmission, TypeOK
<1>8. ASSUME NEW c \in Clients, ClientCancel(c) PROVE AnswerInv'
  <2>1. client'[c].state = "COMPLETE"
    BY <1>8 DEF ClientCancel, Cancelled, Complete, TypeOK, Instances
  <2> QED BY <1>8, <2>1 DEF ClientCancel, OwnTransmission, TypeOK
<1>9. ASSUME NEW n \in 1..Len(sent), Answer(n) PROVE AnswerInv'
  BY <1>9 DEF Answer, OwnTransmission
<1>10. ASSUME NEW n \in 1..Len(sent), NEW c \in Clients, ClientInput(c, n) PROVE AnswerInv'
  <2>1. client[c].state = "SENT" /\ n % RES_MOD = client[c].counter /\ Fresh(n, Len(sent))
    BY <1>10 DEF ClientInput, Accepts
  <2>2. n = confirmed[c]
    <3>1. n \in Nat /\ confirmed[c] \in Nat /\ Len(sent) \in Nat /\ RES_MOD \in Nat \ {0}
      BY ModuliAssumption DEF TypeOK
    <3>2. n <= Len(sent) /\ confirmed[c] <= Len(sent)
      BY <2>1, <3>1 DEF OwnTransmission
    <3>3. n - confirmed[c] < RES_MOD /\ confirmed[c] - n < RES_MOD
      BY <2>1, <3>1, <3>2 DEF Fresh
    <3> QED BY <2>1, <3>1, <3>3, FreshCountersDiffer
  <2>3. client'[c].state = "COMPLETE"
    BY <1>10 DEF ClientInput, Answered, Complete, TypeOK, Instances
  <2> QED BY <1>10, <2>2, <2>3 DEF ClientInput, OwnTransmission, TypeOK
<1>11. CASE UNCHANGED vars
  BY <1>11 DEF vars, OwnTransmission
<1> QED BY <1>1, <1>2, <1>3, <1>4, <1>5, <1>6, <1>7, <1>8, <1>9, <1>10, <1>11 DEF Next, ClientSide

\* Whatever the width of the echoed counter and however responses are delayed,
\* duplicated or misdirected within its range, an instance only ever shows
\* results of the transmission of its own request that was confirmed last.
THEOREM AnswerIsAlwaysOwn == Spec => []AnswerIsOwn
<1>1. Init => TypeOK /\ AnswerInv
  BY InitType, InitAnswerInv
<1>2. (TypeOK /\ AnswerInv) /\ [Next]_vars => (TypeOK /\ AnswerInv)'
  BY NextType, NextAnswerInv
<1>3. TypeOK /\ AnswerInv => AnswerIsOwn
  BY AnswerInvImplies
<1> QED BY <1>1, <1>2, <1>3, PTL DEF Spec

-----------------------------------------------------------------------------
(* Results: nothing before the callback, and then those of the answer *)

Untouched(r) == r.state # "COMPLETE" => \A i \in 1..Len(r.list) : r.list[i].result = "SUCCESS"

LEMMA InitialisedUntouched ==
    ASSUME NEW p, NEW confirm, NEW break, NEW m, NEW n
    PROVE  Untouched(Initialised(p, confirm, break, m, n))
  BY DEF Initialised, Untouched, Unused, Invocation

LEMMA WithMethodUntouched ==
    ASSUME NEW r \in Instances, NEW m \in Methods, NEW n \in ArgLens,
           Untouched(r), CanAddMethod(r)
    PROVE  Untouched(WithMethod(r, m, n))
<1>1. Invocation(m, n) \in Invocations /\ Invocation(m, n).result = "SUCCESS"
  BY InvocationType DEF Invocation
<1>2. WithMethod(r, m, n).list = Append(r.list, Invocation(m, n))
  BY DEF WithMethod, Instances
<1>3. \A i \in 1..Len(r.list) : r.list[i].result = "SUCCESS"
  BY DEF Untouched, CanAddMethod
<1>4. \A i \in 1..Len(Append(r.list, Invocation(m, n))) :
          Append(r.list, Invocation(m, n))[i].result = "SUCCESS"
  <2> HIDE DEF Invocation
  <2> QED BY <1>1, <1>3, ListType
<1> QED BY <1>2, <1>4 DEF Untouched

LEMMA RebuiltUntouched ==
    ASSUME NEW msg \in Messages, NEW p, NEW given, NEW n
    PROVE  Untouched(Rebuilt(msg, p, given, n))
<1> DEFINE l == [i \in 1..Len(msg.methods) |-> Invocation(msg.methods[i], msg.argLens[i])]
<1>1. Len(msg.methods) \in Nat
  BY DEF Messages
<1>2. l \in [1..Len(msg.methods) -> {l[i] : i \in 1..Len(msg.methods)}]
  OBVIOUS
<1>3. Len(l) = Len(msg.methods)
  <2> HIDE DEF l
  <2> QED BY <1>1, <1>2, FunctionIsSeq
<1>4. \A i \in 1..Len(l) : l[i].result = "SUCCESS"
  BY <1>3 DEF Invocation
<1>5. Rebuilt(msg, p, given, n) = Unused \/ Rebuilt(msg, p, given, n).list = l
  BY DEF Rebuilt
<1>6. Untouched(Unused)
  BY DEF Untouched, Unused
<1> HIDE DEF l
<1> QED BY <1>4, <1>5, <1>6 DEF Untouched

LEMMA CompleteState ==
    ASSUME NEW r \in Instances, NEW res
    PROVE  Complete(r, res).state = "COMPLETE"
  BY DEF Complete, Instances

LEMMA ConfirmedState ==
    ASSUME NEW r \in Instances, NEW n \in Nat
    PROVE  \/ Confirmed(r, n).state = "SENT" /\ Confirmed(r, n).list = r.list
           \/ Confirmed(r, n).state = "COMPLETE"
<1> DEFINE s == [r EXCEPT !.counter = n % RES_MOD, !.state = "SENT"]
<1>1. n % RES_MOD \in Nat
  BY ModuliAssumption
<1>2. s \in Instances /\ s.state = "SENT" /\ s.list = r.list
  BY <1>1 DEF Instances, States
<1>3. Confirmed(r, n) = s \/ Confirmed(r, n) = Complete(s, Every(r, "SUCCESS"))
  BY DEF Confirmed
<1> HIDE DEF s
<1> QED BY <1>2, <1>3, CompleteState

LEMMA NextNoPartialResult == TypeOK /\ NoPartialResult /\ [Next]_vars => NoPartialResult'
<1> SUFFICES ASSUME TypeOK, NoPartialResult, [Next]_vars PROVE NoPartialResult'
  OBVIOUS
<1>0. /\ \A c \in Clients : client[c] \in Instances /\ Untouched(client[c])
      /\ DOMAIN client = Clients
  BY DEF TypeOK, NoPartialResult, Untouched
<1>s. SUFFICES \A c \in Clients : Untouched(client'[c])
  BY <1>s DEF NoPartialResult, Untouched
<1>k. ASSUME NEW c \in Clients, NEW r, client' = [client EXCEPT ![c] = r], Untouched(r)
      PROVE  \A d \in Clients : Untouched(client'[d])
  BY <1>0, <1>k
<1>1. ASSUME NEW c \in Clients, ClientInit(c) PROVE \A d \in Clients : Untouched(client'[d])
  <2>1. PICK p \in PoolSizes, mode \in Modes, m \in Methods, n \in ArgLens :
          client' = [client EXCEPT ![c] = Initialised(p, mode[1], mode[2], m, n)]
    BY <1>1 DEF ClientInit
  <2> QED BY <2>1, <1>k, InitialisedUntouched
<1>2. ASSUME NEW c \in Clients, AddMethod(c) PROVE \A d \in Clients : Untouched(client'[d])
  <2>1. PICK m \in Methods, n \in ArgLens : client' = [client EXCEPT ![c] = WithMethod(client[c], m, n)]
    BY <1>2 DEF AddMethod
  <2>2. Untouched(WithMethod(client[c], m, n))
    BY <1>0, <1>2, WithMethodUntouched DEF AddMethod
  <2> QED BY <2>1, <2>2, <1>k
<1>3. ASSUME NEW c \in Clients, FromOutput(c) PROVE \A d \in Clients : Untouched(client'[d])
  <2>1. PICK p \in PoolSizes, n \in {0, packed[c], confirmed[c]} :
          client' = [client EXCEPT ![c] = Rebuilt(Message(client[c]), p, n # 0, n)]
    BY <1>3 DEF FromOutput
  <2>2. Message(client[c]) \in Messages
    BY <1>0, MessageType
  <2> QED BY <2>1, <2>2, <1>k, RebuiltUntouched
<1>4. ASSUME NEW c \in Clients, ClientOutput(c) PROVE \A d \in Clients : Untouched(client'[d])
  <2>1. Untouched(Pending(client[c]))
    BY <1>0, <1>4 DEF ClientOutput, CanOutput, Pending, Untouched, Instances
  <2> QED BY <1>4, <2>1, <1>k DEF ClientOutput
<1>5. ASSUME NEW c \in Clients, PeerOutput(c) PROVE \A d \in Clients : Untouched(client'[d])
  BY <1>0, <1>5 DEF PeerOutput
<1>6. ASSUME NEW c \in Clients, ClientOutputConfirm(c) PROVE \A d \in Clients : Untouched(client'[d])
  <2>1. CASE CanConfirm(client[c])
    <3>1. Untouched(Confirmed(client[c], packed[c]))
      <4>1. packed[c] \in Nat
        BY DEF TypeOK
      <4>2. \A i \in 1..Len(client[c].list) : client[c].list[i].result = "SUCCESS"
        BY <1>0, <2>1 DEF CanConfirm, Untouched
      <4> QED BY <1>0, <4>1, <4>2, ConfirmedState DEF Untouched
    <3> QED BY <1>6, <2>1, <3>1, <1>k DEF ClientOutputConfirm
  <2>2. CASE ~CanConfirm(client[c])
    BY <1>0, <1>6, <2>2 DEF ClientOutputConfirm
  <2> QED BY <2>1, <2>2
<1>7. ASSUME NEW c \in Clients, ClientTimeout(c) PROVE \A d \in Clients : Untouched(client'[d])
  <2>1. Untouched(TimedOut(client[c]))
    BY <1>0, CompleteState DEF TimedOut, Untouched
  <2> QED BY <1>7, <2>1, <1>k DEF ClientTimeout
<1>8. ASSUME NEW c \in Clients, ClientCancel(c) PROVE \A d \in Clients : Untouched(client'[d])
  <2>1. Untouched(Cancelled(client[c]))
    BY <1>0, CompleteState DEF Cancelled, Untouched
  <2> QED BY <1>8, <2>1, <1>k DEF ClientCancel
<1>9. ASSUME NEW n \in 1..Len(sent), Answer(n) PROVE \A d \in Clients : Untouched(client'[d])
  BY <1>0, <1>9 DEF Answer
<1>10. ASSUME NEW n \in 1..Len(sent), NEW c \in Clients, ClientInput(c, n)
       PROVE  \A d \in Clients : Untouched(client'[d])
  <2>1. PICK results \in answer[n] : client' = [client EXCEPT ![c] = Answered(client[c], results)]
    BY <1>10 DEF ClientInput
  <2>2. Untouched(Answered(client[c], results))
    BY <1>0, CompleteState DEF Answered, Untouched
  <2> QED BY <2>1, <2>2, <1>k
<1>11. CASE UNCHANGED vars
  BY <1>0, <1>11 DEF vars
<1> QED BY <1>1, <1>2, <1>3, <1>4, <1>5, <1>6, <1>7, <1>8, <1>9, <1>10, <1>11 DEF Next, ClientSide

\* Until the callback an instance shows no result of any response, whatever
\* responses it was given and refused.
THEOREM NeverPartialResult == Spec => []NoPartialResult
<1>1. Init => NoPartialResult
  BY DEF Init, NoPartialResult, Unused
<1> QED BY <1>1, InitType, NextType, NextNoPartialResult, PTL DEF Spec

LEMMA AnsweredResults ==
    ASSUME NEW r \in Instances, NEW results \in Answers, NEW n, Accepts(r, n, results)
    PROVE  \A i \in 1..Len(Answered(r, results).list) :
              Answered(r, results).list[i].result =
                  IF i \in DOMAIN results THEN results[i] ELSE "MISSING"
<1> DEFINE res == [i \in 1..Len(r.list) |-> ResultFor(results, i)]
           l == [i \in 1..Len(r.list) |-> [r.list[i] EXCEPT !.result = res[i]]]
<1>1. results \in Seq(ServerResults \cup {"INVALID"})
  BY ClientAssumption
<1>2. Len(results) \in Nat /\ DOMAIN results = 1..Len(results)
  BY <1>1
<1>3. \A i \in 1..Len(r.list) : res[i] = IF i \in DOMAIN results THEN results[i] ELSE "MISSING"
  BY <1>2, ListType DEF ResultFor
<1>4. \A i \in 1..Len(r.list) : l[i].result = res[i]
  BY ListType DEF Invocations
<1>5. l \in [1..Len(r.list) -> {l[i] : i \in 1..Len(r.list)}]
  OBVIOUS
<1>6. Len(l) = Len(r.list)
  <2> HIDE DEF l
  <2> QED BY <1>5, ListType, FunctionIsSeq
<1>7. Answered(r, results).list = l
  BY DEF Answered, Complete, Instances
<1> HIDE DEF l, res
<1> QED BY <1>3, <1>4, <1>6, <1>7

\* An instance that shows an answer is complete: until it is used again or
\* abandoned nothing changes it, and the answer of a transmission is given once.
LEMMA NextResultsAreTheAnswer ==
    TypeOK /\ AnswerInv /\ ResultsAreTheAnswer /\ [Next]_vars => ResultsAreTheAnswer'
<1> SUFFICES ASSUME TypeOK, AnswerInv, ResultsAreTheAnswer, [Next]_vars
             PROVE  ResultsAreTheAnswer'
  OBVIOUS
<1> DEFINE Shows(r, results) == \A i \in 1..Len(r.list) :
              r.list[i].result = IF i \in DOMAIN results THEN results[i] ELSE "MISSING"
<1>0. \A d \in Clients : delivered[d] # 0 =>
          /\ delivered[d] \in 1..Len(sent) /\ client[d].state = "COMPLETE"
          /\ \E results \in answer[delivered[d]] : Shows(client[d], results)
  BY DEF TypeOK, AnswerInv, OwnTransmission, ResultsAreTheAnswer
<1>s. SUFFICES \A d \in Clients : delivered'[d] # 0 =>
          \E results \in answer'[delivered'[d]] : Shows(client'[d], results)
  BY <1>s DEF ResultsAreTheAnswer
<1>t. DOMAIN client = Clients /\ DOMAIN delivered = Clients
  BY DEF TypeOK
<1> DEFINE Kept == \A d \in Clients : delivered'[d] # 0 =>
          \E results \in answer'[delivered'[d]] : Shows(client'[d], results)
<1> HIDE DEF Shows
\* An action on an instance that shows no answer, and one that makes it show none.
<1>k. ASSUME NEW c \in Clients, NEW r, client' = [client EXCEPT ![c] = r],
             UNCHANGED <<delivered, answer>>, client[c].state # "COMPLETE"
      PROVE  Kept
  BY <1>0, <1>t, <1>k
<1>r. ASSUME NEW c \in Clients, NEW r, client' = [client EXCEPT ![c] = r],
             delivered' = [delivered EXCEPT ![c] = 0], UNCHANGED answer
      PROVE  Kept
  BY <1>0, <1>t, <1>r
<1>1. ASSUME NEW c \in Clients, ClientInit(c) PROVE Kept
  <2>1. PICK p \in PoolSizes, mode \in Modes, m \in Methods, n \in ArgLens :
          client' = [client EXCEPT ![c] = Initialised(p, mode[1], mode[2], m, n)]
    BY <1>1 DEF ClientInit
  <2>2. delivered' = [delivered EXCEPT ![c] = 0] /\ UNCHANGED answer
    BY <1>1 DEF ClientInit
  <2> HIDE DEF Kept
  <2> QED BY <2>1, <2>2, <1>r
<1>2. ASSUME NEW c \in Clients, AddMethod(c) PROVE Kept
  <2>1. PICK m \in Methods, n \in ArgLens : client' = [client EXCEPT ![c] = WithMethod(client[c], m, n)]
    BY <1>2 DEF AddMethod
  <2>2. UNCHANGED <<delivered, answer>> /\ client[c].state # "COMPLETE"
    BY <1>2 DEF AddMethod, CanAddMethod
  <2> HIDE DEF Kept
  <2> QED BY <2>1, <2>2, <1>k
<1>3. ASSUME NEW c \in Clients, FromOutput(c) PROVE Kept
  <2>1. PICK p \in PoolSizes, n \in {0, packed[c], confirmed[c]} :
          client' = [client EXCEPT ![c] = Rebuilt(Message(client[c]), p, n # 0, n)]
    BY <1>3 DEF FromOutput
  <2>2. UNCHANGED <<delivered, answer>> /\ client[c].state # "COMPLETE"
    BY <1>3 DEF FromOutput
  <2> HIDE DEF Kept
  <2> QED BY <2>1, <2>2, <1>k
<1>4. ASSUME NEW c \in Clients, ClientOutput(c) PROVE Kept
  <2>1. /\ client' = [client EXCEPT ![c] = Pending(client[c])]
        /\ UNCHANGED <<delivered, answer>> /\ client[c].state # "COMPLETE"
    BY <1>4 DEF ClientOutput, CanOutput
  <2> HIDE DEF Kept
  <2> QED BY <2>1, <1>k
<1>5. ASSUME NEW c \in Clients, PeerOutput(c) PROVE Kept
  <2>1. \A n \in 1..Len(sent) : answer'[n] = answer[n]
    BY <1>5 DEF PeerOutput, TypeOK
  <2> QED BY <1>0, <1>5, <2>1 DEF PeerOutput
<1>6. ASSUME NEW c \in Clients, ClientOutputConfirm(c) PROVE Kept
  <2>1. UNCHANGED <<delivered, answer>>
    BY <1>6 DEF ClientOutputConfirm
  <2>2. CASE CanConfirm(client[c])
    <3>1. /\ client' = [client EXCEPT ![c] = Confirmed(client[c], packed[c])]
          /\ client[c].state # "COMPLETE"
      BY <1>6, <2>2 DEF ClientOutputConfirm, CanConfirm
    <3> HIDE DEF Kept
    <3> QED BY <2>1, <3>1, <1>k
  <2>3. CASE ~CanConfirm(client[c])
    BY <1>0, <1>6, <2>1, <2>3 DEF ClientOutputConfirm
  <2> QED BY <2>2, <2>3
<1>7. ASSUME NEW c \in Clients, ClientTimeout(c) PROVE Kept
  <2> HIDE DEF Kept
  <2> QED BY <1>7, <1>r DEF ClientTimeout
<1>8. ASSUME NEW c \in Clients, ClientCancel(c) PROVE Kept
  <2> HIDE DEF Kept
  <2> QED BY <1>8, <1>r DEF ClientCancel
<1>9. ASSUME NEW n \in 1..Len(sent), Answer(n) PROVE Kept
  <2>1. \A d \in Clients : delivered[d] # 0 => answer[delivered[d]] # {}
    BY <1>0
  <2>2. \A d \in Clients : delivered[d] # 0 => answer'[delivered[d]] = answer[delivered[d]]
    BY <1>9, <2>1, <1>0 DEF Answer, TypeOK
  <2> QED BY <1>0, <1>9, <2>2 DEF Answer
<1>10. ASSUME NEW n \in 1..Len(sent), NEW c \in Clients, ClientInput(c, n) PROVE Kept
  <2>1. PICK results \in answer[n] :
          /\ Accepts(client[c], n % RES_MOD, results)
          /\ client' = [client EXCEPT ![c] = Answered(client[c], results)]
    BY <1>10 DEF ClientInput
  <2>2. results \in Answers /\ client[c] \in Instances
    BY DEF TypeOK
  <2>3. Shows(Answered(client[c], results), results)
    BY <2>1, <2>2, AnsweredResults DEF Shows
  <2>4. delivered' = [delivered EXCEPT ![c] = n] /\ answer' = answer
    BY <1>10 DEF ClientInput
  <2>5. client'[c] = Answered(client[c], results) /\ delivered'[c] = n
    BY <2>1, <2>4, <1>t
  <2>6. \A d \in Clients \ {c} : client'[d] = client[d] /\ delivered'[d] = delivered[d]
    BY <2>1, <2>4, <1>t
  <2> QED BY <1>0, <2>3, <2>4, <2>5, <2>6
<1>11. CASE UNCHANGED vars
  BY <1>0, <1>11 DEF vars
<1> QED BY <1>1, <1>2, <1>3, <1>4, <1>5, <1>6, <1>7, <1>8, <1>9, <1>10, <1>11 DEF Next, ClientSide

\* Whatever happens after it was answered, an instance shows the results of that
\* answer until the application abandons or reuses it, MISSING beyond its end.
THEOREM ResultsAreAlwaysTheAnswer == Spec => []ResultsAreTheAnswer
<1>1. Init => TypeOK /\ AnswerInv /\ ResultsAreTheAnswer
  BY InitType, InitAnswerInv DEF Init, ResultsAreTheAnswer
<1>2. (TypeOK /\ AnswerInv /\ ResultsAreTheAnswer) /\ [Next]_vars
          => (TypeOK /\ AnswerInv /\ ResultsAreTheAnswer)'
  BY NextType, NextAnswerInv, NextResultsAreTheAnswer
<1> QED BY <1>1, <1>2, PTL DEF Spec

-----------------------------------------------------------------------------
(* Every transmission of a request carries the message of its instance *)

LEMMA CompleteMessage ==
    ASSUME NEW r \in Instances, NEW res, \A i \in 1..Len(r.list) : res[i] \in Results
    PROVE  Message(Complete(r, res)) = Message(r)
<1> DEFINE l == [i \in 1..Len(r.list) |-> [r.list[i] EXCEPT !.result = res[i]]]
<1>1. l \in [1..Len(r.list) -> Invocations]
  BY ListType DEF Invocations
<1>2. Len(l) = Len(r.list)
  <2> HIDE DEF l
  <2> QED BY <1>1, ListType, FunctionIsSeq
<1>3. \A i \in 1..Len(r.list) : l[i].method = r.list[i].method /\ l[i].argLen = r.list[i].argLen
  BY ListType DEF Invocations
<1>4. /\ Complete(r, res).list = l /\ Complete(r, res).confirmed = r.confirmed
      /\ Complete(r, res).breakOnError = r.breakOnError /\ Complete(r, res).reqLen = r.reqLen
  BY DEF Complete, Instances
<1> HIDE DEF l
<1>5. [i \in 1..Len(l) |-> l[i].method] = [i \in 1..Len(r.list) |-> r.list[i].method]
  BY <1>2, <1>3
<1>6. [i \in 1..Len(l) |-> l[i].argLen] = [i \in 1..Len(r.list) |-> r.list[i].argLen]
  BY <1>2, <1>3
<1> QED BY <1>4, <1>5, <1>6 DEF Message

LEMMA ConfirmedMessage ==
    ASSUME NEW r \in Instances, NEW n \in Nat
    PROVE  Message(Confirmed(r, n)) = Message(r)
<1> DEFINE s == [r EXCEPT !.counter = n % RES_MOD, !.state = "SENT"]
<1>1. n % RES_MOD \in Nat
  BY ModuliAssumption
<1>2. s \in Instances /\ s.list = r.list
  BY <1>1 DEF Instances, States
<1>3. Message(s) = Message(r)
  BY DEF Message, Instances
<1>4. \A i \in 1..Len(s.list) : Every(r, "SUCCESS")[i] \in Results
  BY <1>2 DEF Every, Results, ServerResults
<1>5. Confirmed(r, n) = s \/ Confirmed(r, n) = Complete(s, Every(r, "SUCCESS"))
  BY DEF Confirmed
<1> HIDE DEF s
<1>6. Message(Complete(s, Every(r, "SUCCESS"))) = Message(s)
  BY <1>2, <1>4, CompleteMessage
<1> QED BY <1>3, <1>5, <1>6

LEMMA RebuiltMessage ==
    ASSUME NEW r \in Instances, NEW p, NEW given, NEW n,
           Rebuilt(Message(r), p, given, n).state # "UNUSED"
    PROVE  Message(Rebuilt(Message(r), p, given, n)) = Message(r)
<1> DEFINE msg == Message(r)
           l == [i \in 1..Len(msg.methods) |-> Invocation(msg.methods[i], msg.argLens[i])]
<1>1. /\ msg.methods \in Seq(Methods) /\ msg.argLens \in Seq(ArgLens)
      /\ Len(msg.methods) \in Nat /\ Len(msg.argLens) = Len(msg.methods)
  BY MessageType DEF Messages
<1>2. Len(l) = Len(msg.methods)
  <2>1. l \in [1..Len(msg.methods) -> {l[i] : i \in 1..Len(msg.methods)}]
    OBVIOUS
  <2> HIDE DEF l, msg
  <2> QED BY <1>1, <2>1, FunctionIsSeq
<1>3. \A i \in 1..Len(msg.methods) : l[i].method = msg.methods[i] /\ l[i].argLen = msg.argLens[i]
  BY DEF Invocation
<1>4. LET q == Rebuilt(msg, p, given, n)
      IN  /\ q.list = l /\ q.confirmed = msg.confirmed
          /\ q.breakOnError = msg.breakOnError /\ q.reqLen = msg.len
  BY DEF Rebuilt, Unused
<1>5. /\ msg.methods = [i \in 1..Len(msg.methods) |-> msg.methods[i]]
      /\ msg.argLens = [i \in 1..Len(msg.methods) |-> msg.argLens[i]]
  <2> HIDE DEF msg
  <2> QED BY <1>1
<1>6. msg = [confirmed |-> msg.confirmed, breakOnError |-> msg.breakOnError,
             methods |-> msg.methods, argLens |-> msg.argLens, len |-> msg.len]
  BY DEF Message
<1> HIDE DEF l, msg
<1>7. [i \in 1..Len(l) |-> l[i].method] = msg.methods
  BY <1>2, <1>3, <1>5
<1>8. [i \in 1..Len(l) |-> l[i].argLen] = msg.argLens
  BY <1>2, <1>3, <1>5
<1>9. Message(Rebuilt(msg, p, given, n)) = msg
  BY <1>4, <1>6, <1>7, <1>8 DEF Message
<1> QED BY <1>9 DEF msg

LEMMA AnsweredMessage ==
    ASSUME NEW r \in Instances, NEW results \in Answers, NEW n, Accepts(r, n, results)
    PROVE  Message(Answered(r, results)) = Message(r)
<1>1. results \in Seq(ServerResults \cup {"INVALID"})
  BY ClientAssumption
<1>2. Len(results) \in Nat /\ \A i \in 1..Len(results) : results[i] \in ServerResults
  BY <1>1 DEF Accepts
<1>3. \A i \in 1..Len(r.list) : [j \in 1..Len(r.list) |-> ResultFor(results, j)][i] \in Results
  BY <1>2, ListType DEF ResultFor, Results
<1> QED BY <1>3, CompleteMessage DEF Answered

\* What makes TransmissionsAgree inductive: requests are numbered apart, and none
\* has been transmitted while invocations may still be added to it.
RequestInv ==
    /\ \A n \in 1..Len(sent) : sent[n].request <= requests
    /\ \A c \in Clients :
          /\ request[c] <= requests
          /\ request[c] = 0 => client[c].state = "UNUSED"
          /\ client[c].state = "INIT" =>
                ~outbox[c] /\ \A n \in 1..Len(sent) : sent[n].request # request[c]
    /\ \A c, d \in Clients : c # d /\ request[c] = request[d] => request[c] = 0

LEMMA InitRequestInv == Init => RequestInv /\ TransmissionsAgree
  BY DEF Init, RequestInv, TransmissionsAgree, Unused

\* A step that changes neither the requests nor what was sent.
LEMMA KeepsRequestInv ==
    ASSUME TypeOK, RequestInv, TransmissionsAgree,
           NEW c \in Clients, NEW r, client' = [client EXCEPT ![c] = r],
           UNCHANGED <<request, requests, sent>>,
           client[c].state # "UNUSED",
           r.state # "INIT", r.state # "UNUSED" => Message(r) = Message(client[c]),
           \A d \in Clients \ {c} : outbox'[d] = outbox[d]
    PROVE  RequestInv' /\ TransmissionsAgree'
<1>1. DOMAIN client = Clients /\ client'[c] = r /\ \A d \in Clients \ {c} : client'[d] = client[d]
  BY DEF TypeOK
<1>2. request[c] # 0
  BY DEF RequestInv
<1>3. RequestInv'
  BY <1>1, <1>2 DEF RequestInv
<1>4. TransmissionsAgree'
  BY <1>1 DEF TransmissionsAgree
<1> QED BY <1>3, <1>4

LEMMA NextRequestInv ==
    TypeOK /\ RequestInv /\ TransmissionsAgree /\ [Next]_vars => RequestInv' /\ TransmissionsAgree'
<1> SUFFICES ASSUME TypeOK, RequestInv, TransmissionsAgree, [Next]_vars
             PROVE  RequestInv' /\ TransmissionsAgree'
  OBVIOUS
<1>0. /\ \A c \in Clients : client[c] \in Instances /\ packed[c] \in Nat /\ confirmed[c] \in Nat
      /\ DOMAIN client = Clients /\ DOMAIN request = Clients /\ DOMAIN outbox = Clients
  BY DEF TypeOK
<1>1. ASSUME NEW c \in Clients, ClientInit(c) PROVE RequestInv' /\ TransmissionsAgree'
  <2>1. /\ ~outbox[c] /\ UNCHANGED <<outbox, sent>> /\ requests' = requests + 1
        /\ request'[c] = requests + 1 /\ \A d \in Clients \ {c} : request'[d] = request[d]
        /\ \A d \in Clients \ {c} : client'[d] = client[d]
    BY <1>0, <1>1 DEF ClientInit
  <2>2. requests \in Nat /\ (\A d \in Clients : request[d] \in Nat)
    BY DEF TypeOK
  <2>n. \A n \in 1..Len(sent) : sent[n].request \in Nat
    <3>1. sent \in Seq([request : Nat, message : Messages])
      BY DEF TypeOK
    <3> DEFINE T == [request : Nat, message : Messages]
    <3>2. ASSUME NEW n \in 1..Len(sent) PROVE sent[n] \in T
      <4> HIDE DEF T
      <4> QED BY <3>1, ElementOfSeq DEF T
    <3> QED BY <3>2
  <2>3. RequestInv'
    BY <2>1, <2>2, <2>n DEF RequestInv
  <2>4. \A n \in 1..Len(sent) : sent[n].request # request'[c]
    BY <2>1, <2>2, <2>n DEF RequestInv
  <2>5. TransmissionsAgree'
    BY <2>1, <2>4 DEF TransmissionsAgree
  <2> QED BY <2>3, <2>5
<1>2. ASSUME NEW c \in Clients, AddMethod(c) PROVE RequestInv' /\ TransmissionsAgree'
  <2>1. PICK m \in Methods, n \in ArgLens : client' = [client EXCEPT ![c] = WithMethod(client[c], m, n)]
    BY <1>2 DEF AddMethod
  <2>2. client[c].state = "INIT" /\ UNCHANGED <<request, requests, outbox, sent>>
    BY <1>2 DEF AddMethod, CanAddMethod
  <2>3. client'[c].state = "INIT" /\ \A d \in Clients \ {c} : client'[d] = client[d]
    BY <1>0, <2>1, <2>2 DEF WithMethod, Instances
  <2>4. RequestInv'
    BY <2>2, <2>3 DEF RequestInv
  <2>5. \A k \in 1..Len(sent) : sent[k].request # request[c]
    BY <2>2 DEF RequestInv
  <2>6. TransmissionsAgree'
    BY <2>2, <2>3, <2>5 DEF TransmissionsAgree
  <2> QED BY <2>4, <2>6
<1>3. ASSUME NEW c \in Clients, FromOutput(c) PROVE RequestInv' /\ TransmissionsAgree'
  <2>1. PICK p \in PoolSizes, n \in {0, packed[c], confirmed[c]} :
          client' = [client EXCEPT ![c] = Rebuilt(Message(client[c]), p, n # 0, n)]
    BY <1>3 DEF FromOutput
  <2> DEFINE r == Rebuilt(Message(client[c]), p, n # 0, n)
  <2>2. r.state # "INIT"
    BY DEF Rebuilt, Unused
  <2>3. client[c] \in Instances
    BY <1>0
  <2>4. r.state # "UNUSED" => Message(r) = Message(client[c])
    <3>1. ASSUME NEW given, Rebuilt(Message(client[c]), p, given, n).state # "UNUSED"
          PROVE  Message(Rebuilt(Message(client[c]), p, given, n)) = Message(client[c])
      BY <2>3, <3>1, RebuiltMessage
    <3> QED BY <3>1, Zenon
  <2>5. /\ UNCHANGED <<request, requests, sent>> /\ client[c].state # "UNUSED"
        /\ \A d \in Clients \ {c} : outbox'[d] = outbox[d]
    BY <1>0, <1>3 DEF FromOutput
  <2> HIDE DEF r
  <2>6. client' = [client EXCEPT ![c] = r]
    BY <2>1 DEF r
  <2> QED BY <2>2, <2>4, <2>5, <2>6, KeepsRequestInv
<1>4. ASSUME NEW c \in Clients, ClientOutput(c) PROVE RequestInv' /\ TransmissionsAgree'
  <2> DEFINE r == Pending(client[c])
  <2>1. r.state = "PENDING" /\ Message(r) = Message(client[c])
    BY <1>0 DEF Pending, Message, Instances
  <2>2. /\ UNCHANGED <<request, requests, sent>> /\ client[c].state # "UNUSED"
        /\ \A d \in Clients \ {c} : outbox'[d] = outbox[d]
        /\ client' = [client EXCEPT ![c] = r]
    BY <1>0, <1>4 DEF ClientOutput, CanOutput
  <2> HIDE DEF r
  <2> QED BY <2>1, <2>2, KeepsRequestInv
<1>5. ASSUME NEW c \in Clients, PeerOutput(c) PROVE RequestInv' /\ TransmissionsAgree'
  <2>1. /\ Len(sent') = Len(sent) + 1 /\ Len(sent) \in Nat
        /\ sent'[Len(sent) + 1] = [request |-> request[c], message |-> Message(client[c])]
        /\ \A n \in 1..Len(sent) : sent'[n] = sent[n]
    BY <1>5 DEF PeerOutput, TypeOK
  <2>2. UNCHANGED <<client, request, requests>> /\ outbox[c] /\ \A d \in Clients : outbox'[d] => outbox[d]
    BY <1>0, <1>5 DEF PeerOutput
  <2>3. \A n \in 1..Len(sent') : n \in 1..Len(sent) \/ n = Len(sent) + 1
    BY <2>1
  <2>4. \A d \in Clients : client[d].state = "INIT" => request[d] # request[c]
    BY <2>2 DEF RequestInv
  <2>5. \A d \in Clients : client[d].state # "UNUSED" /\ request[d] = request[c] => d = c
    BY DEF RequestInv
  <2>6. RequestInv'
    BY <2>1, <2>2, <2>3, <2>4 DEF RequestInv
  <2>7. TransmissionsAgree'
    BY <2>1, <2>2, <2>3, <2>5 DEF TransmissionsAgree
  <2> QED BY <2>6, <2>7
<1>6. ASSUME NEW c \in Clients, ClientOutputConfirm(c) PROVE RequestInv' /\ TransmissionsAgree'
  <2>0. UNCHANGED <<request, requests, outbox, sent>>
    BY <1>6 DEF ClientOutputConfirm
  <2>1. CASE CanConfirm(client[c])
    <3> DEFINE r == Confirmed(client[c], packed[c])
    <3>1. r.state \in {"SENT", "COMPLETE"} /\ Message(r) = Message(client[c])
      BY <1>0, ConfirmedState, ConfirmedMessage
    <3>2. client' = [client EXCEPT ![c] = r] /\ client[c].state # "UNUSED"
      BY <1>6, <2>1 DEF ClientOutputConfirm, CanConfirm
    <3> HIDE DEF r
    <3> QED BY <2>0, <3>1, <3>2, KeepsRequestInv
  <2>2. CASE ~CanConfirm(client[c])
    BY <1>6, <2>0, <2>2 DEF ClientOutputConfirm, RequestInv, TransmissionsAgree
  <2> QED BY <2>1, <2>2
<1>7. ASSUME NEW c \in Clients, ClientTimeout(c) PROVE RequestInv' /\ TransmissionsAgree'
  <2> DEFINE r == TimedOut(client[c])
  <2>1. r.state = "COMPLETE"
    BY <1>0, CompleteState DEF TimedOut
  <2>2. Message(r) = Message(client[c])
    BY <1>0, CompleteMessage DEF TimedOut, Every, Results
  <2>3. /\ UNCHANGED <<request, requests, outbox, sent>> /\ client[c].state # "UNUSED"
        /\ client' = [client EXCEPT ![c] = r]
    BY <1>7 DEF ClientTimeout, CanAbandon
  <2> HIDE DEF r
  <2> QED BY <2>1, <2>2, <2>3, KeepsRequestInv
<1>8. ASSUME NEW c \in Clients, ClientCancel(c) PROVE RequestInv' /\ TransmissionsAgree'
  <2> DEFINE r == Cancelled(client[c])
  <2>1. r.state = "COMPLETE"
    BY <1>0, CompleteState DEF Cancelled
  <2>2. Message(r) = Message(client[c])
    BY <1>0, CompleteMessage DEF Cancelled, Every, Results
  <2>3. /\ UNCHANGED <<request, requests, outbox, sent>> /\ client[c].state # "UNUSED"
        /\ client' = [client EXCEPT ![c] = r]
    BY <1>8 DEF ClientCancel, CanAbandon
  <2> HIDE DEF r
  <2> QED BY <2>1, <2>2, <2>3, KeepsRequestInv
<1>9. ASSUME NEW n \in 1..Len(sent), Answer(n) PROVE RequestInv' /\ TransmissionsAgree'
  BY <1>9 DEF Answer, RequestInv, TransmissionsAgree
<1>10. ASSUME NEW n \in 1..Len(sent), NEW c \in Clients, ClientInput(c, n)
       PROVE  RequestInv' /\ TransmissionsAgree'
  <2>1. PICK results \in answer[n] :
          /\ Accepts(client[c], n % RES_MOD, results)
          /\ client' = [client EXCEPT ![c] = Answered(client[c], results)]
    BY <1>10 DEF ClientInput
  <2> DEFINE r == Answered(client[c], results)
  <2>2. results \in Answers
    BY DEF TypeOK
  <2>3. r.state = "COMPLETE"
    BY <1>0, CompleteState DEF Answered
  <2>4. Message(r) = Message(client[c])
    BY <1>0, <2>1, <2>2, AnsweredMessage
  <2>5. /\ UNCHANGED <<request, requests, outbox, sent>> /\ client[c].state # "UNUSED"
        /\ client' = [client EXCEPT ![c] = r]
    BY <1>10, <2>1 DEF ClientInput, Accepts
  <2> HIDE DEF r
  <2> QED BY <2>3, <2>4, <2>5, KeepsRequestInv
<1>11. CASE UNCHANGED vars
  BY <1>11 DEF vars, RequestInv, TransmissionsAgree
<1> QED BY <1>1, <1>2, <1>3, <1>4, <1>5, <1>6, <1>7, <1>8, <1>9, <1>10, <1>11 DEF Next, ClientSide

\* However often a request is transmitted, and by a rebuilt instance too, every
\* transmission carries the same invocations as the instance that awaits an answer.
THEOREM TransmissionsAlwaysAgree == Spec => []TransmissionsAgree
  BY InitType, NextType, InitRequestInv, NextRequestInv, PTL DEF Spec

-----------------------------------------------------------------------------
(* The pool of an instance bounds its list *)

\* What an instance shows its application: one result per invocation.
ResultsOf(r) == [i \in 1..Len(r.list) |-> r.list[i].result]

LEMMA CompleteResults ==
    ASSUME NEW r \in Instances, NEW res
    PROVE  /\ Complete(r, res).state = "COMPLETE"
           /\ Len(Complete(r, res).list) = Len(r.list)
           /\ Complete(r, res).listMax = r.listMax
           /\ ResultsOf(Complete(r, res)) = [i \in 1..Len(r.list) |-> res[i]]
<1> DEFINE l == [i \in 1..Len(r.list) |-> [r.list[i] EXCEPT !.result = res[i]]]
<1>1. l \in [1..Len(r.list) -> {l[i] : i \in 1..Len(r.list)}]
  OBVIOUS
<1>2. Len(l) = Len(r.list)
  <2> HIDE DEF l
  <2> QED BY <1>1, ListType, FunctionIsSeq
<1>3. \A i \in 1..Len(r.list) : l[i].result = res[i]
  BY ListType DEF Invocations
<1>4. /\ Complete(r, res).list = l /\ Complete(r, res).state = "COMPLETE"
      /\ Complete(r, res).listMax = r.listMax
  BY DEF Complete, Instances
<1> HIDE DEF l
<1>5. [i \in 1..Len(l) |-> l[i].result] = [i \in 1..Len(r.list) |-> res[i]]
  BY <1>2, <1>3
<1> QED BY <1>2, <1>4, <1>5 DEF ResultsOf

LEMMA ConfirmedResults ==
    ASSUME NEW r \in Instances, NEW n \in Nat, Confirmed(r, n).state = "COMPLETE"
    PROVE  /\ ~r.confirmed
           /\ ResultsOf(Confirmed(r, n)) = [i \in 1..Len(r.list) |-> "SUCCESS"]
<1> DEFINE s == [r EXCEPT !.counter = n % RES_MOD, !.state = "SENT"]
<1>1. n % RES_MOD \in Nat
  BY ModuliAssumption
<1>2. s \in Instances /\ s.list = r.list /\ s.state = "SENT"
  BY <1>1 DEF Instances, States
<1>3. Confirmed(r, n) = IF r.confirmed THEN s ELSE Complete(s, Every(r, "SUCCESS"))
  BY DEF Confirmed
<1> HIDE DEF s
<1>4. ~r.confirmed /\ Confirmed(r, n) = Complete(s, Every(r, "SUCCESS"))
  BY <1>2, <1>3
<1>5. [i \in 1..Len(r.list) |-> Every(r, "SUCCESS")[i]] = [i \in 1..Len(r.list) |-> "SUCCESS"]
  BY DEF Every
<1> QED BY <1>2, <1>4, <1>5, CompleteResults

InPool(r) ==
    r.state # "UNUSED" => Len(r.list) \in 1..r.listMax /\ r.listMax \in PoolSizes

LEMMA InitialisedInPool ==
    ASSUME NEW p \in PoolSizes, NEW confirm, NEW break, NEW m, NEW n
    PROVE  InPool(Initialised(p, confirm, break, m, n))
  BY ClientAssumption DEF Initialised, InPool, Unused

LEMMA WithMethodInPool ==
    ASSUME NEW r \in Instances, InPool(r), CanAddMethod(r), NEW m \in Methods, NEW n \in ArgLens
    PROVE  InPool(WithMethod(r, m, n))
<1>1. Invocation(m, n) \in Invocations
  BY InvocationType
<1>2. /\ WithMethod(r, m, n).list = Append(r.list, Invocation(m, n))
      /\ WithMethod(r, m, n).listMax = r.listMax
  BY DEF WithMethod, Instances
<1>3. Len(r.list) < r.listMax /\ r.listMax \in PoolSizes /\ r.listMax \in Nat
  BY DEF CanAddMethod, InPool, Instances
<1>4. Len(Append(r.list, Invocation(m, n))) = Len(r.list) + 1
  BY ListType
<1> QED BY <1>2, <1>3, <1>4, ListType DEF InPool

LEMMA RebuiltInPool ==
    ASSUME NEW r \in Instances, InPool(r), r.state # "UNUSED",
           NEW p \in PoolSizes, NEW given, NEW n
    PROVE  InPool(Rebuilt(Message(r), p, given, n))
<1> DEFINE msg == Message(r)
           q == Rebuilt(msg, p, given, n)
<1>1. SUFFICES ASSUME q.state # "UNUSED" PROVE Len(q.list) \in 1..q.listMax /\ q.listMax \in PoolSizes
  BY DEF InPool
<1>2. Message(q) = msg
  BY <1>1, RebuiltMessage
<1>3. Len(msg.methods) = Len(r.list) /\ Len(msg.methods) \in Nat
  BY ListType DEF Message
<1>4. q.listMax = p /\ Len(msg.methods) <= p
  BY <1>1 DEF Rebuilt, Unused
<1>5. Len(q.list) = Len(msg.methods)
  <2> DEFINE l == [i \in 1..Len(msg.methods) |-> Invocation(msg.methods[i], msg.argLens[i])]
  <2>1. q.list = l
    BY <1>1 DEF Rebuilt, Unused
  <2>2. l \in [1..Len(msg.methods) -> {l[i] : i \in 1..Len(msg.methods)}]
    OBVIOUS
  <2> HIDE DEF l, msg, q
  <2> QED BY <1>3, <2>1, <2>2, FunctionIsSeq
<1>6. Len(r.list) >= 1 /\ p \in Nat
  BY ClientAssumption DEF InPool, Instances
<1> HIDE DEF msg, q
<1> QED BY <1>3, <1>4, <1>5, <1>6

LEMMA ConfirmedInPool ==
    ASSUME NEW r \in Instances, InPool(r), r.state # "UNUSED", NEW n \in Nat
    PROVE  InPool(Confirmed(r, n))
<1> DEFINE s == [r EXCEPT !.counter = n % RES_MOD, !.state = "SENT"]
<1>1. n % RES_MOD \in Nat
  BY ModuliAssumption
<1>2. s \in Instances /\ s.list = r.list /\ s.listMax = r.listMax
  BY <1>1 DEF Instances, States
<1>3. Confirmed(r, n) = s \/ Confirmed(r, n) = Complete(s, Every(r, "SUCCESS"))
  BY DEF Confirmed
<1> HIDE DEF s
<1> QED BY <1>2, <1>3, CompleteResults DEF InPool

\* The list of an instance is never empty and never longer than its pool, whatever
\* pool it was rebuilt with; nothing is transmitted for an instance that is none.
ListInv ==
    /\ requests <= MaxRequests
    /\ \A c \in Clients : InPool(client[c]) /\ (outbox[c] => client[c].state # "UNUSED")
    /\ \A n \in 1..Len(sent) : Len(sent[n].message.methods) > 0

LEMMA InitListInv == Init => ListInv
  BY ClientAssumption DEF Init, ListInv, InPool, Unused

LEMMA NextListInv == TypeOK /\ ListInv /\ [Next]_vars => ListInv'
<1> SUFFICES ASSUME TypeOK, ListInv, [Next]_vars PROVE ListInv'
  OBVIOUS
<1>0. /\ \A c \in Clients : client[c] \in Instances /\ InPool(client[c])
      /\ \A c \in Clients : packed[c] \in Nat /\ (outbox[c] => client[c].state # "UNUSED")
      /\ DOMAIN client = Clients /\ DOMAIN outbox = Clients
      /\ requests \in Nat /\ MaxRequests \in Nat
  BY ClientAssumption DEF TypeOK, ListInv
<1>k. ASSUME NEW c \in Clients, NEW r, client' = [client EXCEPT ![c] = r], InPool(r),
             UNCHANGED sent, requests' <= MaxRequests,
             outbox'[c] => r.state # "UNUSED",
             \A d \in Clients \ {c} : outbox'[d] = outbox[d]
      PROVE  ListInv'
  BY <1>0, <1>k DEF ListInv
<1>1. ASSUME NEW c \in Clients, ClientInit(c) PROVE ListInv'
  <2>1. PICK p \in PoolSizes, mode \in Modes, m \in Methods, n \in ArgLens :
          client' = [client EXCEPT ![c] = Initialised(p, mode[1], mode[2], m, n)]
    BY <1>1 DEF ClientInit
  <2>2. /\ UNCHANGED <<sent, outbox>> /\ ~outbox[c] /\ requests' <= MaxRequests
    BY <1>0, <1>1 DEF ClientInit
  <2> QED BY <2>1, <2>2, <1>k, InitialisedInPool
<1>2. ASSUME NEW c \in Clients, AddMethod(c) PROVE ListInv'
  <2>1. PICK m \in Methods, n \in ArgLens : client' = [client EXCEPT ![c] = WithMethod(client[c], m, n)]
    BY <1>2 DEF AddMethod
  <2>2. InPool(WithMethod(client[c], m, n)) /\ WithMethod(client[c], m, n).state = "INIT"
    BY <1>0, <1>2, WithMethodInPool DEF AddMethod, CanAddMethod, WithMethod, Instances
  <2>3. UNCHANGED <<sent, outbox, requests>> /\ requests <= MaxRequests
    BY <1>2 DEF AddMethod, ListInv
  <2> QED BY <2>1, <2>2, <2>3, <1>k
<1>3. ASSUME NEW c \in Clients, FromOutput(c) PROVE ListInv'
  <2>1. PICK p \in PoolSizes, n \in {0, packed[c], confirmed[c]} :
          client' = [client EXCEPT ![c] = Rebuilt(Message(client[c]), p, n # 0, n)]
    BY <1>3 DEF FromOutput
  <2>2. InPool(Rebuilt(Message(client[c]), p, n # 0, n))
    BY <1>0, <1>3, RebuiltInPool DEF FromOutput
  <2>3. /\ UNCHANGED <<sent, requests>> /\ requests <= MaxRequests
        /\ ~outbox'[c] /\ \A d \in Clients \ {c} : outbox'[d] = outbox[d]
    BY <1>0, <1>3 DEF FromOutput, ListInv
  <2> QED BY <2>1, <2>2, <2>3, <1>k
<1>4. ASSUME NEW c \in Clients, ClientOutput(c) PROVE ListInv'
  <2>1. InPool(Pending(client[c])) /\ Pending(client[c]).state = "PENDING"
    BY <1>0, <1>4 DEF ClientOutput, CanOutput, Pending, InPool, Instances
  <2>2. /\ client' = [client EXCEPT ![c] = Pending(client[c])] /\ UNCHANGED <<sent, requests>>
        /\ requests <= MaxRequests /\ \A d \in Clients \ {c} : outbox'[d] = outbox[d]
    BY <1>0, <1>4 DEF ClientOutput, ListInv
  <2> QED BY <2>1, <2>2, <1>k
<1>5. ASSUME NEW c \in Clients, PeerOutput(c) PROVE ListInv'
  <2> DEFINE new == [request |-> request[c], message |-> Message(client[c])]
             T == [request : Nat, message : Messages]
  <2>1. Len(new.message.methods) > 0
    <3>1. Len(client[c].list) > 0 /\ Len(client[c].list) \in Nat
      BY <1>0, <1>5, ListType DEF PeerOutput, InPool
    <3> QED BY <3>1 DEF Message
  <2>2. sent' = Append(sent, new) /\ sent \in Seq(T)
    BY <1>5 DEF PeerOutput, TypeOK
  <2> HIDE DEF new, T
  <2>3. \A n \in 1..Len(sent') : sent'[n] = new \/ (n \in 1..Len(sent) /\ sent'[n] = sent[n])
    BY <2>2
  <2>4. /\ UNCHANGED <<client, requests>> /\ \A d \in Clients : outbox'[d] => outbox[d]
    BY <1>0, <1>5 DEF PeerOutput
  <2> QED BY <1>0, <2>1, <2>3, <2>4 DEF ListInv
<1>6. ASSUME NEW c \in Clients, ClientOutputConfirm(c) PROVE ListInv'
  <2>1. UNCHANGED <<sent, requests, outbox>> /\ requests <= MaxRequests
    BY <1>6 DEF ClientOutputConfirm, ListInv
  <2>2. CASE CanConfirm(client[c])
    <3>1. client[c].state # "UNUSED"
      BY <2>2 DEF CanConfirm
    <3>2. InPool(Confirmed(client[c], packed[c])) /\ Confirmed(client[c], packed[c]).state # "UNUSED"
      BY <1>0, <3>1, ConfirmedInPool, ConfirmedState
    <3>3. client' = [client EXCEPT ![c] = Confirmed(client[c], packed[c])]
      BY <1>6, <2>2 DEF ClientOutputConfirm
    <3> QED BY <2>1, <3>2, <3>3, <1>k
  <2>3. CASE ~CanConfirm(client[c])
    BY <1>6, <2>1, <2>3 DEF ClientOutputConfirm, ListInv
  <2> QED BY <2>2, <2>3
<1>7. ASSUME NEW c \in Clients, NEW res, client[c].state # "UNUSED",
             client' = [client EXCEPT ![c] = Complete(client[c], res)],
             UNCHANGED <<sent, requests, outbox>>
      PROVE  ListInv'
  <2>1. InPool(Complete(client[c], res)) /\ Complete(client[c], res).state # "UNUSED"
    BY <1>0, <1>7, CompleteResults DEF InPool
  <2>2. requests <= MaxRequests
    BY DEF ListInv
  <2> QED BY <1>7, <1>k, <2>1, <2>2
<1>8. ASSUME NEW c \in Clients, ClientTimeout(c) \/ ClientCancel(c) PROVE ListInv'
  BY <1>7, <1>8 DEF ClientTimeout, ClientCancel, CanAbandon, TimedOut, Cancelled
<1>9. ASSUME NEW n \in 1..Len(sent), Answer(n) PROVE ListInv'
  BY <1>9 DEF Answer, ListInv
<1>10. ASSUME NEW n \in 1..Len(sent), NEW c \in Clients, ClientInput(c, n) PROVE ListInv'
  BY <1>7, <1>10 DEF ClientInput, Accepts, Answered
<1>11. CASE UNCHANGED vars
  BY <1>11 DEF vars, ListInv
<1> QED BY <1>1, <1>2, <1>3, <1>4, <1>5, <1>6, <1>8, <1>9, <1>10, <1>11 DEF Next, ClientSide
=============================================================================
