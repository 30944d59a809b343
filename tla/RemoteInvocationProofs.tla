----------------------- MODULE RemoteInvocationProofs -----------------------
(***************************************************************************)
(* PR6Exchange implements RemoteInvocation, for any number of clients,     *)
(* requests, transmissions and yields, every width of the echoed counter   *)
(* and every size of buffers and lists.                                    *)
(***************************************************************************)
EXTENDS PR6ExchangeProofs

\* What an answer tells of the attempt it answers: its outcomes in order, then, if
\* the last of them is a failure that was to stop the request, methods refused unseen.
Tells(n, res) ==
    /\ sent[n].message.confirmed
    /\ Len(log[n].outcomes) <= Len(res)
    /\ \A i \in 1..Len(log[n].outcomes) : res[i] = log[n].outcomes[i]
    /\ \A i \in Len(log[n].outcomes) + 1..Len(res) :
          /\ res[i] = "PERMANENT"
          /\ sent[n].message.breakOnError
          /\ log[n].outcomes # <<>> /\ log[n].outcomes[Len(log[n].outcomes)] # "SUCCESS"

\* The log says of every attempt what the server did for it, and the answers agree.
Logged ==
    /\ \A n \in 1..MaxTransmissions :
          /\ ~log[n].taken => log[n].called = 0 /\ log[n].outcomes = <<>>
          /\ log[n].taken => n <= Len(sent)
    /\ state # "IDLE" =>
          /\ log[counter].called = firstCalls /\ log[counter].outcomes = outcomes
          /\ breakOnError = sent[counter].message.breakOnError
    /\ \A n \in 1..Len(sent) : \A res \in answer[n] : Tells(n, res)

RInv == IInv /\ CP!ListInv /\ Logged

LEMMA InitRInv == Init => RInv
<1> SUFFICES ASSUME Init PROVE RInv
  OBVIOUS
<1>1. CP!Init /\ CP!ListInv
  <2>1. CP!Init
    BY DEF Init, C!Init, CP!Init, C!Unused, CP!Unused
  <2> QED BY <2>1, Assumptions, CP!InitListInv
<1>2. Logged
  <2>1. state = "IDLE" /\ 1..Len(sent) = {}
    BY DEF Init, C!Init, S!Init
  <2> QED BY <2>1 DEF Init, Logged
<1> QED BY <1>1, <1>2, InitInv DEF RInv

-----------------------------------------------------------------------------
(* The log *)

\* A transmission is at a place of the log.
LEMMA LogPlace ==
    ASSUME IInv, NEW n \in 1..Len(sent)
    PROVE  n \in 1..MaxTransmissions /\ n \in Nat
  BY SentType, ExchangeAssumption DEF IInv, Serving, AnswersFit

LEMMA InputLogged ==
    ASSUME RInv, NEW n \in 1..Len(sent), ServerInput(n)
    PROVE  Logged'
<1> DEFINE size == Len(sent[n].message.methods)
           tag == Tag(sent[n].message)
<1>1. PICK max \in ServerOutMaxes : S!ServerInput(tag, size, TRUE, max, n)
  BY DEF ServerInput
<1>2. /\ ~log[n].taken /\ log' = [log EXCEPT ![n].taken = TRUE]
      /\ UNCHANGED <<sent, answer>>
  BY DEF ServerInput, clientVars
<1>3. n \in 1..MaxTransmissions /\ Len(sent) \in Nat
  BY LogPlace, SentType DEF RInv, IInv
<1>4. /\ log'[n].taken /\ log'[n].called = log[n].called /\ log'[n].outcomes = log[n].outcomes
      /\ \A m \in 1..MaxTransmissions : m # n => log'[m] = log[m]
  BY <1>2, <1>3 DEF RInv, IInv, Serving, LogType
<1>5. \A m \in 1..Len(sent) : log'[m].outcomes = log[m].outcomes
  BY <1>4, LogPlace DEF RInv
<1>6. \A m \in 1..Len(sent') : \A res \in answer'[m] : Tells(m, res)'
  BY <1>2, <1>5 DEF RInv, Logged, Tells
<1>7. ASSUME state' # "IDLE"
      PROVE  /\ log'[counter'].called = firstCalls' /\ log'[counter'].outcomes = outcomes'
             /\ breakOnError' = sent'[counter'].message.breakOnError
  <2>1. counter' = n /\ breakOnError' = (tag \in {"METHOD_BOE_REQ", "METHOD_NC_BOE_REQ"})
        /\ firstCalls' = 0 /\ outcomes' = <<>>
    BY <1>1, <1>7 DEF S!ServerInput
  <2>2. sent[n].message.breakOnError \in BOOLEAN
    BY SentType DEF RInv, IInv
  <2>3. (tag \in {"METHOD_BOE_REQ", "METHOD_NC_BOE_REQ"}) = sent[n].message.breakOnError
    <3>1. CASE sent[n].message.breakOnError = TRUE
      BY <3>1 DEF Tag
    <3>2. CASE sent[n].message.breakOnError = FALSE
      <4>1. (tag \in {"METHOD_BOE_REQ", "METHOD_NC_BOE_REQ"}) = FALSE
        BY <3>2 DEF Tag
      <4> QED BY <4>1, <3>2
    <3> QED BY <2>2, <3>1, <3>2
  <2> QED BY <1>2, <1>3, <1>4, <2>1, <2>3 DEF RInv, Logged
<1> QED BY <1>2, <1>3, <1>4, <1>6, <1>7 DEF RInv, Logged

LEMMA ResumeLogged ==
    ASSUME RInv, ServerResume
    PROVE  Logged'
<1>1. /\ SP!IInv' /\ state # "IDLE" /\ Serves(counter)
      /\ UNCHANGED <<wanted, breakOnError, counter, methodListLen, outMax, arrivals>>
  BY ResumeInv DEF RInv, IInv, Serving
<1>2. /\ sent' = sent
      /\ log' = [log EXCEPT ![counter].called = firstCalls', ![counter].outcomes = outcomes']
      /\ Respond
  BY DEF ServerResume
<1>3. counter \in 1..Len(sent) /\ counter \in 1..MaxTransmissions
  BY <1>1, LogPlace DEF Serves, RInv
<1>4. /\ log'[counter].called = firstCalls' /\ log'[counter].outcomes = outcomes'
      /\ log'[counter].taken
      /\ \A m \in 1..MaxTransmissions : m # counter => log'[m] = log[m]
  BY <1>1, <1>2, <1>3 DEF RInv, IInv, Serving, LogType, Serves
<1>5. ASSUME NEW n \in 1..Len(sent), n # counter, NEW res \in answer'[n] PROVE Tells(n, res)'
  <2>1. log'[n] = log[n] /\ answer'[n] = answer[n]
    <3>1. DOMAIN answer = 1..Len(sent)
      BY DEF RInv, IInv, Client, CP!TypeOK
    <3> QED BY <1>2, <1>4, <1>5, <3>1, LogPlace DEF Respond, RInv
  <2>2. Tells(n, res)
    BY <1>5, <2>1 DEF RInv, Logged
  <2> QED BY <1>2, <2>1, <2>2 DEF Tells
<1>6. ASSUME NEW res \in answer'[counter] PROVE Tells(counter, res)'
  <2>1. state' = "IDLE" /\ outLen' > 0 /\ res = results'
    <3>1. DOMAIN answer = 1..Len(sent)
      BY DEF RInv, IInv, Client, CP!TypeOK
    <3> QED BY <1>1, <1>2, <1>3, <1>6, <3>1 DEF Respond, Serves
  <2>2. ~running'
    BY <1>1, <2>1 DEF SP!IInv, SP!Flow
  <2>3. wanted' = TRUE
    BY <1>1, <2>1, <2>2 DEF SP!IInv, SP!TypeOK, SP!SilentIfUnconfirmed
  <2>4. breakOnError' = sent[counter].message.breakOnError /\ wanted' = sent[counter].message.confirmed
    BY <1>1 DEF RInv, Logged, Serves
  <2>5. /\ Len(outcomes') <= Len(results')
        /\ \A i \in 1..Len(outcomes') : results'[i] = outcomes'[i]
        /\ \A i \in Len(outcomes') + 1..Len(results') :
              /\ results'[i] = "PERMANENT"
              /\ breakOnError' /\ outcomes' # <<>> /\ outcomes'[Len(outcomes')] # "SUCCESS"
    BY <1>1, <2>3 DEF SP!IInv, SP!ResultsAreOutcomes
  <2> QED BY <1>1, <1>2, <1>4, <2>1, <2>3, <2>4, <2>5 DEF Tells
<1>7. \A n \in 1..Len(sent') : \A res \in answer'[n] : Tells(n, res)'
  BY <1>1, <1>2, <1>5, <1>6
<1>8. breakOnError' = sent'[counter'].message.breakOnError
  BY <1>1, <1>2 DEF RInv, Logged
<1>9. \A n \in 1..MaxTransmissions : log'[n].taken = log[n].taken
  <2>1. log'[counter].taken = log[counter].taken
    BY <1>2, <1>3 DEF RInv, IInv, Serving, LogType
  <2> QED BY <1>4, <2>1
<1>10. Len(sent') = Len(sent) /\ log[counter].taken
  BY <1>1, <1>2 DEF Serves
<1> QED BY <1>1, <1>4, <1>7, <1>8, <1>9, <1>10 DEF RInv, Logged

LEMMA ClientSideLogged ==
    ASSUME RInv, C!ClientSide, UNCHANGED serverVars
    PROVE  Logged'
<1>1. CASE UNCHANGED <<sent, answer>>
  BY <1>1 DEF serverVars, RInv, Logged, Tells
<1>2. ASSUME NEW c \in Clients, C!PeerOutput(c) PROVE Logged'
  <2> DEFINE new == [request |-> request[c], message |-> C!Message(client[c])]
             T == [request : Nat, message : CP!Messages]
  <2>1. sent' = Append(sent, new) /\ answer' = Append(answer, {})
    BY <1>2 DEF C!PeerOutput
  <2>2. sent \in Seq(T) /\ answer \in Seq(SUBSET Seq(ServerResults)) /\ Len(answer) = Len(sent)
    BY DEF RInv, IInv, Client, CP!TypeOK
  <2> HIDE DEF new, T
  <2>3. /\ Len(sent') = Len(sent) + 1 /\ Len(sent) \in Nat
        /\ \A n \in 1..Len(sent) : sent'[n] = sent[n] /\ answer'[n] = answer[n]
        /\ answer'[Len(sent) + 1] = {}
    BY <2>1, <2>2
  <2>4. ASSUME NEW n \in 1..Len(sent'), NEW res \in answer'[n] PROVE Tells(n, res)'
    <3>1. n \in 1..Len(sent)
      BY <2>3, <2>4
    <3> QED BY <2>3, <2>4, <3>1 DEF serverVars, RInv, Logged, Tells
  <2>5. state # "IDLE" => counter \in 1..Len(sent) /\ sent'[counter] = sent[counter]
    BY <2>3 DEF RInv, IInv, Serving, Serves
  <2> QED BY <2>3, <2>4, <2>5, ExchangeAssumption DEF serverVars, RInv, Logged
<1>3. UNCHANGED <<sent, answer>> \/ \E c \in Clients : C!PeerOutput(c)
  BY DEF C!ClientSide, C!ClientInit, C!AddMethod, C!FromOutput, C!ClientOutput,
         C!ClientOutputConfirm, C!ClientTimeout, C!ClientCancel, C!ClientInput
<1> QED BY <1>1, <1>2, <1>3

LEMMA NextRInv == RInv /\ [Next]_vars => RInv'
<1> SUFFICES ASSUME RInv, [Next]_vars PROVE RInv'
  OBVIOUS
<1>1. IInv' /\ [CP!Next]_(CP!vars)
  BY StepInv DEF RInv
<1>2. CP!ListInv'
  BY <1>1, Assumptions, CP!NextListInv DEF RInv, IInv, Client
<1>3. Logged'
  <2>1. CASE ClientSide
    BY <2>1, ClientSideLogged DEF ClientSide
  <2>2. CASE ServerResume
    BY <2>2, ResumeLogged
  <2>3. ASSUME NEW n \in 1..Len(sent), ServerInput(n) PROVE Logged'
    BY <2>3, InputLogged
  <2>4. CASE UNCHANGED vars
    BY <2>4 DEF vars, clientVars, serverVars, RInv, Logged, Tells
  <2> QED BY <2>1, <2>2, <2>3, <2>4 DEF Next
<1> QED BY <1>1, <1>2, <1>3 DEF RInv

-----------------------------------------------------------------------------
(* The steps of the clients, as RemoteInvocation sees them *)

ShownBy(r, q) ==
    IF r.state = "COMPLETE" THEN [request |-> q, results |-> CP!ResultsOf(r)] ELSE R!Nothing

LEMMA ShownStep ==
    ASSUME Client, NEW c \in Clients, NEW r, client' = [client EXCEPT ![c] = r],
           \A d \in Clients \ {c} : request'[d] = request[d]
    PROVE  /\ Shown' = [Shown EXCEPT ![c] = ShownBy(r, request'[c])]
           /\ Shown[c] = ShownBy(client[c], request[c])
<1>1. Shown = [d \in Clients |-> ShownBy(client[d], request[d])]
  BY DEF Shown, ShownBy, R!Nothing, CP!ResultsOf
<1>2. Shown' = [d \in Clients |-> ShownBy(client'[d], request'[d])]
  BY DEF Shown, ShownBy, R!Nothing, CP!ResultsOf
<1>3. client'[c] = r /\ \A d \in Clients \ {c} : client'[d] = client[d]
  BY DEF Client, CP!TypeOK
<1> QED BY <1>1, <1>2, <1>3

LEMMA AttemptsLen ==
    ASSUME Client
    PROVE  /\ Len(Attempts) = Len(sent) /\ Len(sent) \in Nat
           /\ \A new : \E A : Attempts \in Seq(A) /\ new \in A
<1>1. Len(sent) \in Nat
  BY DEF Client, CP!TypeOK
<1>2. DOMAIN Attempts = 1..Len(sent)
  BY DEF Attempts
<1>3. ASSUME NEW A, \A n \in 1..Len(sent) : Attempts[n] \in A PROVE Attempts \in Seq(A)
  <2>1. Attempts \in [1..Len(sent) -> A]
    BY <1>3 DEF Attempts
  <2> HIDE DEF Attempts
  <2> QED BY <1>1, <2>1, SeqDef
<1> HIDE DEF Attempts
<1>4. ASSUME NEW e PROVE \E A : Attempts \in Seq(A) /\ e \in A
  <2> DEFINE A == {e} \cup {Attempts[n] : n \in 1..Len(sent)}
  <2>1. e \in A /\ \A n \in 1..Len(sent) : Attempts[n] \in A
    OBVIOUS
  <2> HIDE DEF A
  <2> QED BY <1>3, <2>1
<1>5. Attempts \in Seq({Attempts[n] : n \in 1..Len(sent)})
  BY <1>3
<1> QED BY <1>1, <1>2, <1>4, <1>5

LEMMA SameAttempts == UNCHANGED <<sent, log, counter, state>> => UNCHANGED Attempts
  BY DEF Attempts, Status

\* A step of one instance that leaves it without an answer.
LEMMA ForgetStep ==
    ASSUME Client, NEW c \in Clients, NEW r, client' = [client EXCEPT ![c] = r],
           \A d \in Clients \ {c} : request'[d] = request[d],
           r.state # "COMPLETE", UNCHANGED <<sent, log, counter, state>>
    PROVE  R!Next
<1>1. R!Forget(c)
  BY ShownStep, SameAttempts DEF R!Forget, ShownBy
<1> QED BY <1>1 DEF R!Next

LEMMA GiveUpStep ==
    ASSUME RInv, NEW c \in Clients, NEW result \in {"TIMEOUT", "CANCEL"},
           CP!CanAbandon(client[c]),
           client' = [client EXCEPT ![c] = CP!Complete(client[c], CP!Every(client[c], result))],
           UNCHANGED <<request, sent, log, counter, state>>
    PROVE  R!Next
<1> DEFINE len == Len(client[c].list)
           r == CP!Complete(client[c], CP!Every(client[c], result))
<1>1. client[c] \in CP!Instances /\ CP!InPool(client[c]) /\ client[c].state # "UNUSED"
  BY DEF RInv, IInv, Client, CP!TypeOK, CP!ListInv, CP!CanAbandon
<1>2. len \in Lengths
  BY <1>1 DEF CP!InPool, Lengths
<1>3. request[c] \in 1..MaxRequests
  <2>1. request[c] \in Nat /\ request[c] # 0 /\ request[c] <= requests /\ requests <= MaxRequests
        /\ requests \in Nat
    BY <1>1 DEF RInv, IInv, Client, CP!TypeOK, CP!RequestInv, CP!ListInv
  <2> QED BY <2>1, ExchangeAssumption
<1>4. r.state = "COMPLETE" /\ CP!ResultsOf(r) = [i \in 1..len |-> result]
  <2> DEFINE res == CP!Every(client[c], result)
  <2>1. [i \in 1..len |-> res[i]] = [i \in 1..len |-> result]
    BY DEF CP!Every
  <2> HIDE DEF res
  <2>2. /\ CP!Complete(client[c], res).state = "COMPLETE"
        /\ CP!ResultsOf(CP!Complete(client[c], res)) = [i \in 1..len |-> res[i]]
    BY <1>1, Assumptions, CP!CompleteResults
  <2> QED BY <2>1, <2>2 DEF res
<1> HIDE DEF r, len
<1>5. Shown' = [Shown EXCEPT ![c] = [request |-> request[c], results |-> [i \in 1..len |-> result]]]
  <2>1. client' = [client EXCEPT ![c] = r]
    BY DEF r
  <2>2. Shown' = [Shown EXCEPT ![c] = ShownBy(r, request'[c])]
    BY <2>1, ShownStep DEF RInv, IInv
  <2> QED BY <1>4, <2>2 DEF ShownBy
<1>6. R!GiveUp(c, request[c], len, result)
  BY <1>5, SameAttempts DEF R!GiveUp
<1> QED BY <1>2, <1>3, <1>6 DEF R!Next

LEMMA ConfirmStep ==
    ASSUME RInv, NEW c \in Clients, CP!ClientOutputConfirm(c), UNCHANGED serverVars
    PROVE  [R!Next]_(R!vars)
<1> DEFINE n == packed[c]
           r == CP!Confirmed(client[c], n)
<1>0. /\ UNCHANGED <<request, sent, log, counter, state>> /\ n # 0 /\ n \in Nat
      /\ client[c] \in CP!Instances /\ Client
  BY DEF CP!ClientOutputConfirm, serverVars, RInv, IInv, Client, CP!TypeOK
<1>1. CASE ~CP!CanConfirm(client[c])
  <2>1. UNCHANGED client
    BY <1>1 DEF CP!ClientOutputConfirm
  <2> QED BY <1>0, <2>1, SameAttempts DEF R!vars, Shown
<1>2. CASE CP!CanConfirm(client[c])
  <2>1. client' = [client EXCEPT ![c] = r] /\ client[c].state \in {"PENDING", "SENT"}
    BY <1>2 DEF CP!ClientOutputConfirm, CP!CanConfirm
  <2>2. CASE r.state # "COMPLETE"
    <3> HIDE DEF r
    <3> QED BY <1>0, <2>1, <2>2, ForgetStep
  <2>3. CASE r.state = "COMPLETE"
    <3>1. n \in 1..Len(sent) /\ sent[n].request = request[c]
      BY <1>0 DEF Client, CP!AnswerInv, CP!OwnTransmission
    <3>2. sent[n].message = CP!Message(client[c])
      BY <1>0, <2>1, <3>1 DEF Client, CP!TransmissionsAgree
    <3>3. /\ ~client[c].confirmed
          /\ CP!ResultsOf(r) = [i \in 1..Len(client[c].list) |-> "SUCCESS"]
      BY <1>0, <2>3, Assumptions, CP!ConfirmedResults
    <3>4. Len(sent[n].message.methods) = Len(client[c].list) /\ ~sent[n].message.confirmed
      <4>1. Len(client[c].list) \in Nat
        BY <1>0 DEF CP!Instances
      <4> QED BY <3>2, <3>3, <4>1 DEF CP!Message
    <3>5. /\ Attempts[n].message.confirmed = sent[n].message.confirmed
          /\ Attempts[n].message.methods = sent[n].message.methods
          /\ Attempts[n].request = request[c]
          /\ DOMAIN Attempts = 1..Len(sent)
      BY <3>1 DEF Attempts
    <3>6. /\ Shown' = [Shown EXCEPT ![c] = [request |-> request[c], results |-> CP!ResultsOf(r)]]
          /\ Shown[c] = R!Nothing
      <4> HIDE DEF r
      <4> QED BY <1>0, <2>1, <2>3, ShownStep DEF ShownBy
    <3>7. R!ShowSent(c, n)
      BY <1>0, <3>3, <3>4, <3>5, <3>6, SameAttempts DEF R!ShowSent
    <3>8. n \in 1..Len(Attempts)
      BY <1>0, <3>1, AttemptsLen
    <3> QED BY <3>7, <3>8 DEF R!Next
  <2> QED BY <2>2, <2>3
<1> QED BY <1>1, <1>2

\* Only an attempt that is over has an answer.
LEMMA AnsweredEnded ==
    ASSUME RInv, NEW n \in 1..Len(sent), answer[n] # {}
    PROVE  Status(n) = "ENDED"
<1>1. log[n].taken
  BY DEF RInv, IInv, Serving, AnswersFit, AnswerFits
<1>2. counter = n => state = "IDLE"
  BY DEF RInv, IInv, Serving, Serves
<1> QED BY <1>1, <1>2 DEF Status

LEMMA AnswerStep ==
    ASSUME RInv, IInv', NEW n \in 1..Len(sent), NEW c \in Clients, CP!ClientInput(c, n),
           UNCHANGED serverVars
    PROVE  R!Next
<1>1. PICK res \in answer[n] :
        /\ CP!Accepts(client[c], n % RES_MOD, res)
        /\ client' = [client EXCEPT ![c] = CP!Answered(client[c], res)]
  BY DEF CP!ClientInput
<1> DEFINE r == CP!Answered(client[c], res)
           a == Attempts[n]
           refused == Len(res) - Len(log[n].outcomes)
<1>2. /\ UNCHANGED <<request, sent, log, counter, state>> /\ delivered'[c] = n /\ n # 0
      /\ client[c] \in CP!Instances /\ Client
  BY DEF CP!ClientInput, serverVars, RInv, IInv, Client, CP!TypeOK
<1>3. sent[n].request = request[c]
  BY <1>2 DEF IInv, Client, CP!AnswerInv, CP!OwnTransmission
<1>4. client[c].state = "SENT" /\ res # <<>>
  BY <1>1 DEF CP!Accepts
<1>5. sent[n].message = CP!Message(client[c])
  BY <1>2, <1>3, <1>4 DEF Client, CP!TransmissionsAgree
<1>6. Len(client[c].list) \in Nat /\ sent[n].message.methods = [i \in 1..Len(client[c].list) |-> client[c].list[i].method]
  BY <1>2, <1>5 DEF CP!Instances, CP!Message
<1>7. Len(sent[n].message.methods) = Len(client[c].list)
  BY <1>6
<1>8. /\ Tells(n, res) /\ res \in Seq(ServerResults) /\ Len(res) <= Len(sent[n].message.methods)
      /\ Status(n) = "ENDED"
  BY AnsweredEnded DEF RInv, Logged, IInv, Serving, AnswersFit, AnswerFits
<1>9. log[n].outcomes \in Seq(SP!Outcomes)
  BY LogPlace DEF RInv, IInv, Serving, LogType
<1>10. Len(res) \in Nat /\ Len(log[n].outcomes) \in Nat /\ Len(res) > 0
  BY <1>4, <1>8, <1>9
<1>11. /\ refused \in 0..Len(sent[n].message.methods)
       /\ Len(log[n].outcomes) + refused = Len(res)
  BY <1>6, <1>7, <1>8, <1>10 DEF Tells
<1>12. log[n].outcomes # <<>>
  <2> SUFFICES ASSUME log[n].outcomes = <<>> PROVE FALSE
    OBVIOUS
  <2>1. Len(log[n].outcomes) = 0 /\ Len(log[n].outcomes) + 1 \in Len(log[n].outcomes) + 1..Len(res)
    BY <1>10
  <2> QED BY <1>8, <2>1 DEF Tells
<1>13. /\ a.request = request[c] /\ a.status = "ENDED" /\ a.outcomes = log[n].outcomes
       /\ a.message.confirmed = sent[n].message.confirmed
       /\ a.message.breakOnError = sent[n].message.breakOnError
       /\ a.message.methods = sent[n].message.methods
  BY <1>3, <1>8 DEF Attempts
<1>14. refused # 0 => sent[n].message.breakOnError /\ R!Failed(a)
  <2> SUFFICES ASSUME refused # 0 PROVE sent[n].message.breakOnError /\ R!Failed(a)
    OBVIOUS
  <2>1. Len(res) \in Len(log[n].outcomes) + 1..Len(res)
    BY <1>10, <1>11
  <2>2. /\ sent[n].message.breakOnError /\ log[n].outcomes[Len(log[n].outcomes)] # "SUCCESS"
    BY <1>8, <2>1 DEF Tells
  <2>3. Len(log[n].outcomes) \in 1..Len(log[n].outcomes)
    BY <1>9, <1>12
  <2> QED BY <1>13, <2>2, <2>3 DEF R!Failed
<1>15. r.state = "COMPLETE" /\ CP!ResultsOf(r) = [i \in 1..Len(client[c].list) |-> CP!ResultFor(res, i)]
  <2> DEFINE f == [i \in 1..Len(client[c].list) |-> CP!ResultFor(res, i)]
  <2>1. r = CP!Complete(client[c], f)
    BY DEF CP!Answered
  <2>2. [i \in 1..Len(client[c].list) |-> f[i]] = f
    OBVIOUS
  <2> HIDE DEF f, r
  <2>3. /\ CP!Complete(client[c], f).state = "COMPLETE"
        /\ CP!ResultsOf(CP!Complete(client[c], f)) = [i \in 1..Len(client[c].list) |-> f[i]]
    BY <1>2, Assumptions, CP!CompleteResults
  <2> QED BY <2>1, <2>2, <2>3 DEF f
<1> HIDE DEF r, a, refused
<1>16. R!Report(a, refused) = CP!ResultsOf(r)
  <2>1. ASSUME NEW i \in 1..Len(client[c].list)
        PROVE  CP!ResultFor(res, i) =
                  IF i <= Len(log[n].outcomes) THEN log[n].outcomes[i]
                  ELSE IF i <= Len(log[n].outcomes) + refused THEN "PERMANENT" ELSE "MISSING"
    <3>1. CASE i <= Len(log[n].outcomes)
      <4>1. i <= Len(res) /\ res[i] = log[n].outcomes[i]
        BY <1>8, <1>10, <2>1, <3>1, <1>6 DEF Tells
      <4> QED BY <3>1, <4>1 DEF CP!ResultFor
    <3>2. CASE ~(i <= Len(log[n].outcomes)) /\ i <= Len(res)
      <4>1. i \in Len(log[n].outcomes) + 1..Len(res)
        BY <1>6, <1>10, <3>2
      <4>2. res[i] = "PERMANENT"
        BY <1>8, <4>1 DEF Tells
      <4> QED BY <1>11, <3>2, <4>2 DEF CP!ResultFor
    <3>3. CASE ~(i <= Len(res))
      BY <1>6, <1>8, <1>10, <1>11, <3>3 DEF CP!ResultFor, Tells
    <3> QED BY <3>1, <3>2, <3>3
  <2> QED BY <1>7, <1>13, <1>15, <2>1 DEF R!Report
<1>17. /\ Shown' = [Shown EXCEPT ![c] = [request |-> request[c], results |-> CP!ResultsOf(r)]]
       /\ Shown[c] = R!Nothing
  <2>1. client' = [client EXCEPT ![c] = r]
    BY <1>1 DEF r
  <2> QED BY <1>2, <1>4, <1>15, <2>1, ShownStep DEF ShownBy
<1>18. sent[n].message.confirmed
  BY <1>8 DEF Tells
<1>19. R!ShowAnswer(c, n, refused)
  BY <1>2, <1>12, <1>13, <1>14, <1>16, <1>17, <1>18, SameAttempts DEF R!ShowAnswer, a
<1>20. n \in 1..Len(Attempts) /\ refused \in 0..Len(Attempts[n].message.methods)
  BY <1>2, <1>11, <1>13, AttemptsLen DEF a
<1> QED BY <1>19, <1>20 DEF R!Next

\* What the peer packs is a new attempt, with the message of the earlier ones.
LEMMA TransmitStep ==
    ASSUME RInv, RInv', NEW c \in Clients, CP!PeerOutput(c), UNCHANGED serverVars
    PROVE  R!Next
<1> DEFINE msg == CP!Message(client[c])
           message == [methods |-> msg.methods, confirmed |-> msg.confirmed,
                       breakOnError |-> msg.breakOnError]
           new == [request |-> request[c], message |-> message,
                   status |-> "SENT", called |-> 0, outcomes |-> <<>>]
           T == [request : Nat, message : CP!Messages]
<1>1. /\ UNCHANGED <<client, request, log, counter, state>>
      /\ sent' = Append(sent, [request |-> request[c], message |-> msg])
      /\ client[c] \in CP!Instances /\ CP!InPool(client[c]) /\ client[c].state # "UNUSED"
      /\ Client /\ sent \in Seq(T)
  BY DEF CP!PeerOutput, serverVars, RInv, IInv, Client, CP!TypeOK, CP!ListInv
<1>2. /\ Len(sent') = Len(sent) + 1 /\ Len(sent) \in Nat
      /\ sent'[Len(sent) + 1] = [request |-> request[c], message |-> msg]
      /\ \A n \in 1..Len(sent) : sent'[n] = sent[n]
  <2> HIDE DEF T, msg
  <2> QED BY <1>1
<1>3. request[c] \in 1..MaxRequests
  <2>1. request[c] \in Nat /\ request[c] # 0 /\ request[c] <= requests /\ requests <= MaxRequests
        /\ requests \in Nat
    BY <1>1 DEF RInv, IInv, Client, CP!TypeOK, CP!RequestInv, CP!ListInv
  <2> QED BY <2>1, ExchangeAssumption
<1>4. message \in [methods : MethodLists, confirmed : BOOLEAN, breakOnError : BOOLEAN]
  <2> DEFINE k == Len(client[c].list)
  <2>1. k \in Lengths
    BY <1>1 DEF CP!InPool, Lengths
  <2>2. msg.methods \in [1..k -> Methods]
    <3>1. \A i \in 1..k : client[c].list[i] \in CP!Invocations
      BY <1>1, Assumptions, CP!ListType
    <3> QED BY <3>1 DEF CP!Message, CP!Invocations
  <2>3. msg.confirmed \in BOOLEAN /\ msg.breakOnError \in BOOLEAN
    BY <1>1 DEF CP!Message, CP!Instances
  <2> HIDE DEF msg, k
  <2> QED BY <2>1, <2>2, <2>3 DEF MethodLists
<1>5. \A n \in 1..Len(sent) : sent[n].request = request[c] => sent[n].message = msg
  BY <1>1 DEF Client, CP!TransmissionsAgree
<1> HIDE DEF msg
<1>6. \A n \in 1..Len(Attempts) : Attempts[n].request = request[c] => Attempts[n].message = message
  BY <1>1, <1>5, AttemptsLen DEF Attempts
<1>7. /\ Len(sent) + 1 \in 1..MaxTransmissions /\ ~log[Len(sent) + 1].taken
      /\ log[Len(sent) + 1].called = 0 /\ log[Len(sent) + 1].outcomes = <<>>
  <2>1. Len(sent) + 1 \in 1..MaxTransmissions
    BY <1>2, ExchangeAssumption DEF RInv, IInv, Serving, AnswersFit
  <2> QED BY <1>2, <2>1 DEF RInv, Logged
<1>8. Attempts' = Append(Attempts, new)
  <2>1. DOMAIN Attempts' = 1..Len(sent) + 1 /\ Len(Attempts) = Len(sent)
    BY <1>1, <1>2, AttemptsLen DEF Attempts
  <2>2. ASSUME NEW n \in 1..Len(sent) PROVE Attempts'[n] = Attempts[n]
    BY <1>1, <1>2 DEF Attempts, Status
  <2>3. Attempts'[Len(sent) + 1] = new
    BY <1>1, <1>2, <1>7 DEF Attempts, Status
  <2>4. Attempts' = [n \in 1..Len(sent) + 1 |-> Attempts'[n]]
    BY <2>1 DEF Attempts
  <2>5. \E A : Attempts \in Seq(A) /\ new \in A
    BY <1>1, AttemptsLen
  <2> HIDE DEF new, Attempts
  <2> QED BY <1>2, <2>1, <2>2, <2>3, <2>4, <2>5, AppendProperties
<1>9. UNCHANGED Shown
  BY <1>1 DEF Shown
<1>10. R!Transmit(request[c], message)
  BY <1>6, <1>8, <1>9 DEF R!Transmit
<1> QED BY <1>3, <1>4, <1>10 DEF R!Next

LEMMA ClientStep ==
    ASSUME RInv, RInv', CP!ClientSide, UNCHANGED serverVars
    PROVE  [R!Next]_(R!vars)
<1> USE DEF serverVars
<1>0. Client /\ \A c \in Clients : client[c] \in CP!Instances
  BY DEF RInv, IInv, Client, CP!TypeOK
<1>1. ASSUME NEW c \in Clients, CP!ClientInit(c) PROVE R!Next
  <2>1. PICK p \in PoolSizes, mode \in Modes, m \in Methods, n \in ArgLens :
          client' = [client EXCEPT ![c] = CP!Initialised(p, mode[1], mode[2], m, n)]
    BY <1>1 DEF CP!ClientInit
  <2>2. CP!Initialised(p, mode[1], mode[2], m, n).state # "COMPLETE"
    BY DEF CP!Initialised, CP!Unused
  <2>3. UNCHANGED sent /\ \A d \in Clients \ {c} : request'[d] = request[d]
    BY <1>0, <1>1 DEF CP!ClientInit, Client, CP!TypeOK
  <2> QED BY <1>0, <2>1, <2>2, <2>3, ForgetStep
<1>2. ASSUME NEW c \in Clients, CP!AddMethod(c) PROVE R!Next
  <2>1. PICK m \in Methods, n \in ArgLens :
          client' = [client EXCEPT ![c] = CP!WithMethod(client[c], m, n)]
    BY <1>2 DEF CP!AddMethod
  <2>2. CP!WithMethod(client[c], m, n).state = "INIT"
    BY <1>0, <1>2 DEF CP!AddMethod, CP!CanAddMethod, CP!WithMethod, CP!Instances
  <2>3. UNCHANGED <<sent, request>>
    BY <1>2 DEF CP!AddMethod
  <2> QED BY <1>0, <2>1, <2>2, <2>3, ForgetStep
<1>3. ASSUME NEW c \in Clients, CP!FromOutput(c) PROVE R!Next
  <2>1. PICK p \in PoolSizes, n \in {0, packed[c], confirmed[c]} :
          client' = [client EXCEPT ![c] = CP!Rebuilt(CP!Message(client[c]), p, n # 0, n)]
    BY <1>3 DEF CP!FromOutput
  <2>2. CP!Rebuilt(CP!Message(client[c]), p, n # 0, n).state # "COMPLETE"
    BY DEF CP!Rebuilt, CP!Unused
  <2>3. UNCHANGED <<sent, request>>
    BY <1>3 DEF CP!FromOutput
  <2> QED BY <1>0, <2>1, <2>2, <2>3, ForgetStep
<1>4. ASSUME NEW c \in Clients, CP!ClientOutput(c) PROVE R!Next
  <2>1. CP!Pending(client[c]).state # "COMPLETE"
    BY <1>0 DEF CP!Pending, CP!Instances
  <2> QED BY <1>0, <1>4, <2>1, ForgetStep DEF CP!ClientOutput
<1>5. ASSUME NEW c \in Clients, CP!ClientTimeout(c) PROVE R!Next
  BY <1>5, GiveUpStep DEF CP!ClientTimeout, CP!TimedOut
<1>6. ASSUME NEW c \in Clients, CP!ClientCancel(c) PROVE R!Next
  BY <1>6, GiveUpStep DEF CP!ClientCancel, CP!Cancelled
<1>7. ASSUME NEW n \in 1..Len(sent), NEW c \in Clients, CP!ClientInput(c, n) PROVE R!Next
  BY <1>7, AnswerStep DEF RInv
<1> QED BY <1>1, <1>2, <1>3, <1>4, <1>5, <1>6, <1>7, TransmitStep, ConfirmStep DEF CP!ClientSide

-----------------------------------------------------------------------------
(* The steps of the server *)

\* A request that is taken makes an attempt run, and ends the one that ran.
LEMMA BeginStep ==
    ASSUME RInv, RInv', NEW n \in 1..Len(sent), ServerInput(n)
    PROVE  R!Next
<1> DEFINE size == Len(sent[n].message.methods)
           tag == Tag(sent[n].message)
<1>1. PICK max \in ServerOutMaxes : S!ServerInput(tag, size, TRUE, max, n)
  BY DEF ServerInput
<1>2. /\ ~log[n].taken /\ log' = [log EXCEPT ![n].taken = TRUE]
      /\ UNCHANGED <<sent, client, request>> /\ Client
  BY DEF ServerInput, clientVars, RInv, IInv
<1>3. n \in 1..MaxTransmissions
  BY LogPlace DEF RInv, IInv
<1>4. /\ log'[n].taken /\ log'[n].called = log[n].called /\ log'[n].outcomes = log[n].outcomes
      /\ \A m \in 1..MaxTransmissions : m # n => log'[m] = log[m]
  BY <1>2, <1>3 DEF RInv, IInv, Serving, LogType
<1>5. state' = "BEGIN" /\ counter' = n
  <2>1. size > 0
    BY DEF RInv, CP!ListInv
  <2>2. tag \in S!RequestTags
    BY DEF Tag, S!RequestTags
  <2> HIDE DEF tag, size
  <2> QED BY <1>1, <2>1, <2>2 DEF S!ServerInput, S!Accepted
<1>6. Status(n) = "SENT" /\ Status(n)' = "RUNNING"
  BY <1>2, <1>4, <1>5 DEF Status
<1>7. ASSUME NEW m \in 1..Len(sent), m # n
      PROVE  Status(m)' = IF Status(m) = "RUNNING" THEN "ENDED" ELSE Status(m)
  <2>1. log'[m] = log[m]
    BY <1>4, <1>7, LogPlace DEF RInv
  <2> QED BY <1>5, <1>7, <2>1 DEF Status
<1>8. DOMAIN Attempts = 1..Len(sent) /\ Attempts[n].status = "SENT"
  BY <1>6 DEF Attempts
<1>9. Attempts' = [m \in DOMAIN Attempts |->
          IF m = n THEN [Attempts[m] EXCEPT !.status = "RUNNING"]
          ELSE IF Attempts[m].status = "RUNNING" THEN [Attempts[m] EXCEPT !.status = "ENDED"]
          ELSE Attempts[m]]
  <2> DEFINE next(m) ==
          IF m = n THEN [Attempts[m] EXCEPT !.status = "RUNNING"]
          ELSE IF Attempts[m].status = "RUNNING" THEN [Attempts[m] EXCEPT !.status = "ENDED"]
          ELSE Attempts[m]
  <2>1. ASSUME NEW m \in 1..Len(sent) PROVE Attempts'[m] = next(m)
    <3>1. CASE m = n
      BY <1>2, <1>4, <1>6, <3>1 DEF Attempts
    <3>2. CASE m # n
      <4>1. log'[m] = log[m]
        BY <1>4, <3>2, LogPlace DEF RInv
      <4>2. Status(m)' = IF Status(m) = "RUNNING" THEN "ENDED" ELSE Status(m)
        BY <1>7, <3>2
      <4> QED BY <1>2, <3>2, <4>1, <4>2 DEF Attempts
    <3> QED BY <3>1, <3>2
  <2>2. Attempts' = [m \in 1..Len(sent) |-> Attempts'[m]]
    BY <1>2 DEF Attempts
  <2> HIDE DEF Attempts, next
  <2>3. Attempts' = [m \in DOMAIN Attempts |-> next(m)]
    BY <1>8, <2>1, <2>2
  <2> QED BY <2>3 DEF next
<1>10. UNCHANGED Shown
  BY <1>2 DEF Shown
<1>11. R!Begin(n)
  BY <1>8, <1>9, <1>10 DEF R!Begin
<1>12. n \in 1..Len(Attempts)
  BY <1>2, AttemptsLen
<1> QED BY <1>11, <1>12 DEF R!Next

\* What a step of the loop does to the attempt it works for, and to no other.
LEMMA LoopStep ==
    ASSUME RInv, ServerResume
    PROVE  /\ counter \in 1..Len(Attempts) /\ UNCHANGED Shown
           /\ Attempts[counter].status = "RUNNING"
           /\ Attempts[counter].called = firstCalls /\ Attempts[counter].outcomes = outcomes
           /\ Len(Attempts[counter].message.methods) = methodListLen
           /\ Attempts[counter].message.breakOnError = breakOnError
           /\ Attempts' = [Attempts EXCEPT
                  ![counter].called = firstCalls', ![counter].outcomes = outcomes',
                  ![counter].status = IF state' = "IDLE" THEN "ENDED" ELSE "RUNNING"]
<1>1. /\ state # "IDLE" /\ Serves(counter) /\ UNCHANGED counter
  BY ResumeInv DEF RInv, IInv, Serving
<1>2. /\ UNCHANGED <<sent, client, request>> /\ Client
      /\ log' = [log EXCEPT ![counter].called = firstCalls', ![counter].outcomes = outcomes']
  BY DEF ServerResume, RInv, IInv
<1>3. counter \in 1..Len(sent) /\ counter \in 1..MaxTransmissions
  BY <1>1, LogPlace DEF Serves, RInv
<1>4. /\ log'[counter].called = firstCalls' /\ log'[counter].outcomes = outcomes'
      /\ log'[counter].taken = log[counter].taken
      /\ \A m \in 1..MaxTransmissions : m # counter => log'[m] = log[m]
  BY <1>2, <1>3 DEF RInv, IInv, Serving, LogType
<1>5. /\ Status(counter) = "RUNNING"
      /\ Status(counter)' = IF state' = "IDLE" THEN "ENDED" ELSE "RUNNING"
  BY <1>1, <1>4 DEF Status, Serves
<1>6. ASSUME NEW m \in 1..Len(sent), m # counter PROVE Attempts'[m] = Attempts[m]
  <2>1. log'[m] = log[m]
    BY <1>4, <1>6, LogPlace DEF RInv
  <2>2. Status(m)' = Status(m)
    BY <1>1, <1>6, <2>1 DEF Status
  <2> QED BY <1>2, <2>1, <2>2 DEF Attempts
<1>7. /\ Attempts[counter].status = "RUNNING"
      /\ Attempts[counter].called = firstCalls /\ Attempts[counter].outcomes = outcomes
      /\ Len(Attempts[counter].message.methods) = methodListLen
      /\ Attempts[counter].message.breakOnError = breakOnError
  BY <1>1, <1>3, <1>5 DEF Attempts, RInv, Logged, Serves
<1> DEFINE status == IF state' = "IDLE" THEN "ENDED" ELSE "RUNNING"
           next == [Attempts[counter] EXCEPT !.called = firstCalls', !.outcomes = outcomes',
                                             !.status = status]
<1>8. Attempts'[counter] = next
  <2> DEFINE msg == sent[counter].message
             m == [methods |-> msg.methods, confirmed |-> msg.confirmed,
                   breakOnError |-> msg.breakOnError]
             q == sent[counter].request
             k1 == log[counter].called
             o1 == log[counter].outcomes
             k2 == firstCalls'
             o2 == outcomes'
             s2 == status
  <2>1. Attempts[counter] = [request |-> q, message |-> m, status |-> "RUNNING",
                             called |-> k1, outcomes |-> o1]
    BY <1>3, <1>5 DEF Attempts
  <2>2. Attempts'[counter] = [request |-> q, message |-> m, status |-> s2,
                              called |-> k2, outcomes |-> o2]
    BY <1>1, <1>2, <1>3, <1>4, <1>5 DEF Attempts
  <2>3. next = [Attempts[counter] EXCEPT !.called = k2, !.outcomes = o2, !.status = s2]
    OBVIOUS
  <2> DEFINE before == Attempts[counter]
             fields == {"request", "message", "status", "called", "outcomes"}
             changed == [f \in fields |-> IF f = "called" THEN k2 ELSE IF f = "outcomes" THEN o2
                                          ELSE IF f = "status" THEN s2 ELSE before[f]]
  <2> HIDE DEF Attempts, m, q, k1, o1, k2, o2, s2
  <2>4. /\ DOMAIN before = fields /\ before = [f \in fields |-> before[f]]
        /\ before["request"] = q /\ before["message"] = m
    BY <2>1
  <2> HIDE DEF before, next
  <2>5. next = changed
    BY <2>3, <2>4 DEF before
  <2>6. changed = [request |-> q, message |-> m, status |-> s2, called |-> k2, outcomes |-> o2]
    BY <2>4
  <2> QED BY <2>2, <2>5, <2>6
<1>9. /\ DOMAIN Attempts = 1..Len(sent) /\ Attempts = [m \in 1..Len(sent) |-> Attempts[m]]
      /\ Attempts' = [m \in 1..Len(sent) |-> Attempts'[m]]
  BY <1>2 DEF Attempts
<1>10. UNCHANGED Shown
  BY <1>2 DEF Shown
<1>11. counter \in 1..Len(Attempts)
  BY <1>2, <1>3, AttemptsLen
<1>12. Attempts' = [Attempts EXCEPT ![counter] = next]
  <2> HIDE DEF Attempts, next
  <2> QED BY <1>3, <1>6, <1>8, <1>9
<1>13. Attempts' = [Attempts EXCEPT
           ![counter].called = firstCalls', ![counter].outcomes = outcomes',
           ![counter].status = IF state' = "IDLE" THEN "ENDED" ELSE "RUNNING"]
  <2> HIDE DEF Attempts
  <2> QED BY <1>3, <1>9, <1>12 DEF next
<1> QED BY <1>7, <1>10, <1>11, <1>13

\* Every step of the loop that calls a method.
LEMMA CallStep ==
    ASSUME RInv, ServerResume, SP!Calling, SP!Counted, NEW more, outcomes' = outcomes \o more,
           more = <<>> \/ \E o \in {"SUCCESS"} \cup MethodErrors : more = <<o>>
    PROVE  R!Next
<1> DEFINE status == IF state' = "IDLE" THEN "ENDED" ELSE "RUNNING"
           a == Attempts[counter]
<1>1. /\ counter \in 1..Len(Attempts) /\ UNCHANGED Shown
      /\ a.status = "RUNNING" /\ a.called = firstCalls /\ a.outcomes = outcomes
      /\ Len(a.message.methods) = methodListLen
      /\ a.message.breakOnError = breakOnError
      /\ Attempts' = [Attempts EXCEPT ![counter].called = firstCalls',
                                      ![counter].outcomes = outcomes', ![counter].status = status]
  BY LoopStep
<1>2. Len(outcomes) < methodListLen /\ firstCalls' = Len(outcomes) + 1
  BY DEF RInv, IInv, SP!IInv, SP!TypeOK, SP!CalledInOrder, SP!Calling, SP!Counted
<1>3. breakOnError => \A i \in 1..Len(outcomes) : outcomes[i] = "SUCCESS"
  BY DEF RInv, IInv, SP!IInv, SP!StopsAtError, SP!Calling
<1>4. Attempts' = [Attempts EXCEPT ![counter].called = Len(a.outcomes) + 1,
                                   ![counter].outcomes = @ \o more, ![counter].status = status]
  <2>1. a["outcomes"] = outcomes
    BY <1>1
  <2>2. [Attempts EXCEPT ![counter].called = Len(a.outcomes) + 1][counter].outcomes = outcomes
    <3> DEFINE k == Len(a.outcomes) + 1
               b == [a EXCEPT !.called = k]
    <3>1. /\ counter \in DOMAIN Attempts
          /\ a = [f \in {"request", "message", "status", "called", "outcomes"} |-> a[f]]
      BY <1>1, AttemptsLen DEF RInv, IInv, Attempts
    <3> HIDE DEF Attempts, a, k
    <3>2. b.outcomes = outcomes
      BY <2>1, <3>1
    <3>3. [Attempts EXCEPT ![counter].called = k] = [Attempts EXCEPT ![counter] = b]
      BY DEF a
    <3> HIDE DEF b
    <3>4. [Attempts EXCEPT ![counter] = b][counter] = b
      BY <3>1
    <3> QED BY <3>2, <3>3, <3>4 DEF k
  <2> HIDE DEF Attempts, status, a
  <2> QED BY <1>1, <1>2, <2>2
<1> HIDE DEF Attempts
<1>5. R!Call(counter, more, status)
  BY <1>1, <1>2, <1>3, <1>4 DEF R!Call, R!Failed
<1>6. status \in {"RUNNING", "ENDED"}
  OBVIOUS
<1> HIDE DEF status
<1> QED BY <1>1, <1>5, <1>6 DEF R!Next

\* A step that ends the attempt without a call, and one that does nothing for it.
LEMMA QuietStep ==
    ASSUME RInv, ServerResume, UNCHANGED <<firstCalls, outcomes>>
    PROVE  R!Next \/ UNCHANGED <<Attempts, Shown>>
<1> DEFINE status == IF state' = "IDLE" THEN "ENDED" ELSE "RUNNING"
           a == Attempts[counter]
<1>1. /\ counter \in 1..Len(Attempts) /\ UNCHANGED Shown
      /\ a.status = "RUNNING" /\ a.called = firstCalls' /\ a.outcomes = outcomes'
      /\ Attempts' = [Attempts EXCEPT ![counter].called = firstCalls',
                                      ![counter].outcomes = outcomes', ![counter].status = status]
  BY LoopStep
<1>2. /\ a = [f \in {"request", "message", "status", "called", "outcomes"} |-> a[f]]
      /\ counter \in DOMAIN Attempts /\ Attempts = [n \in DOMAIN Attempts |-> Attempts[n]]
  BY <1>1, AttemptsLen DEF RInv, IInv, Attempts
<1> DEFINE before == [a EXCEPT !.called = firstCalls', !.outcomes = outcomes', !.status = status]
           after == [a EXCEPT !.status = status]
<1> HIDE DEF Attempts, status
<1>3. /\ Attempts' = [Attempts EXCEPT ![counter].status = status]
      /\ Attempts' = [Attempts EXCEPT ![counter] = after]
  <2>1. before = after
    <3> HIDE DEF a
    <3> QED BY <1>1, <1>2
  <2>2. Attempts' = [Attempts EXCEPT ![counter] = before]
    BY <1>1, <1>2
  <2>3. [Attempts EXCEPT ![counter] = after] = [Attempts EXCEPT ![counter].status = status]
    OBVIOUS
  <2> HIDE DEF before, after
  <2> QED BY <2>1, <2>2, <2>3
<1>4. CASE status = "ENDED"
  <2>1. R!End(counter)
    BY <1>1, <1>3, <1>4 DEF R!End
  <2> QED BY <1>1, <2>1 DEF R!Next
<1>5. CASE status = "RUNNING"
  <2>1. after = a
    <3> HIDE DEF a
    <3> QED BY <1>1, <1>2, <1>5
  <2> HIDE DEF after
  <2>2. Attempts' = Attempts
    BY <1>2, <1>3, <2>1
  <2> QED BY <1>1, <2>2
<1> QED BY <1>4, <1>5 DEF status

LEMMA ServerStep ==
    ASSUME RInv, ServerResume
    PROVE  [R!Next]_(R!vars)
<1>0. outcomes \in Seq(SP!Outcomes)
  BY DEF RInv, IInv, SP!IInv, SP!TypeOK
<1>1. CASE SP!Begin \/ SP!ServerResume \/ SP!NoRoom
  BY <1>1, QuietStep DEF SP!Begin, SP!ServerResume, SP!NoRoom, R!vars
<1>2. CASE SP!MethodYield \/ SP!MethodBuffer
  <2>1. outcomes' = outcomes \o <<>> /\ SP!Calling /\ SP!Counted
    BY <1>0, <1>2 DEF SP!MethodYield, SP!MethodBuffer
  <2> QED BY <2>1, CallStep
<1>3. ASSUME NEW n \in ReturnLens, SP!MethodSuccess(n) PROVE R!Next
  <2>1. outcomes' = outcomes \o <<"SUCCESS">> /\ SP!Calling /\ SP!Counted
    BY <1>0, <1>3 DEF SP!MethodSuccess
  <2> QED BY <2>1, CallStep
<1>4. ASSUME NEW result \in MethodErrors, SP!MethodError(result) PROVE R!Next
  <2>1. outcomes' = outcomes \o <<result>> /\ SP!Calling /\ SP!Counted
    BY <1>0, <1>4 DEF SP!MethodError
  <2> QED BY <2>1, CallStep
<1> QED BY <1>1, <1>2, <1>3, <1>4, ServerSteps

-----------------------------------------------------------------------------
LEMMA Step == RInv /\ RInv' /\ [Next]_vars => [R!Next]_(R!vars)
<1> SUFFICES ASSUME RInv, RInv', [Next]_vars PROVE [R!Next]_(R!vars)
  OBVIOUS
<1>1. CASE ClientSide
  BY <1>1, SameClientSide, ClientStep DEF ClientSide
<1>2. CASE ServerResume
  BY <1>2, ServerStep
<1>3. ASSUME NEW n \in 1..Len(sent), ServerInput(n) PROVE R!Next
  BY <1>3, BeginStep
<1>4. CASE UNCHANGED vars
  BY <1>4, SameAttempts DEF vars, clientVars, serverVars, R!vars, Shown
<1> QED BY <1>1, <1>2, <1>3, <1>4 DEF Next

\* The clients and the server, whatever becomes of the datagrams between them, do what
\* RemoteInvocation promises: a transmission is carried out at most once and in order,
\* what a caller is shown is one whole answer to its own request, and it is final.
THEOREM Implements == Spec => ImplementsRemoteInvocation
<1>1. Init => R!Init
  <2>1. Init => Attempts = <<>>
    BY DEF Init, C!Init, Attempts
  <2>2. Init => Shown = [c \in Clients |-> R!Nothing]
    BY DEF Init, C!Init, C!Unused, Shown, R!Nothing
  <2> QED BY <2>1, <2>2 DEF R!Init
<1> QED BY <1>1, InitRInv, NextRInv, Step, PTL DEF Spec, R!Spec, ImplementsRemoteInvocation
=============================================================================
