------------------------- MODULE PR6ExchangeProofs --------------------------
EXTENDS PR6Exchange, SequenceTheorems, TLAPS

CP == INSTANCE PR6ClientProofs WITH Answers <- Seq(ServerResults)
SP == INSTANCE PR6ServerProofs WITH
        confirmed <- wanted, requests <- arrivals,
        Tags <- {}, ListSizes <- {}, OutMaxes <- ServerOutMaxes,
        MaxRequests <- MaxTransmissions

LEMMA Assumptions ==
    CP!ModuliAssumption /\ CP!ClientAssumption /\ SP!ServerAssumption
  BY ModuliAssumption, ExchangeAssumption
  DEF CP!ModuliAssumption, CP!ClientAssumption, SP!ServerAssumption, CP!ServerResults, ServerResults, SP!RequestTags

LEMMA SameClientSide == C!ClientSide => CP!ClientSide
<1> SUFFICES ASSUME C!ClientSide PROVE CP!ClientSide
  OBVIOUS
<1>1. ASSUME NEW c \in Clients, C!ClientInit(c) PROVE CP!ClientInit(c)
  BY <1>1 DEF C!ClientInit, CP!ClientInit, C!Initialised, CP!Initialised, C!Unused, CP!Unused, C!Invocation, CP!Invocation, C!InvocationLen, CP!InvocationLen, C!SizeofVint, CP!SizeofVint
<1>2. ASSUME NEW c \in Clients, C!AddMethod(c) PROVE CP!AddMethod(c)
  BY <1>2 DEF C!AddMethod, CP!AddMethod, C!CanAddMethod, CP!CanAddMethod, C!WithMethod, CP!WithMethod, C!Invocation, CP!Invocation, C!InvocationLen, CP!InvocationLen, C!SizeofVint, CP!SizeofVint
<1>3. ASSUME NEW c \in Clients, C!FromOutput(c) PROVE CP!FromOutput(c)
  BY <1>3 DEF C!FromOutput, CP!FromOutput, C!Fresh, CP!Fresh, C!Rebuilt, CP!Rebuilt, C!Message, CP!Message, C!Unused, CP!Unused, C!Invocation, CP!Invocation
<1>4. ASSUME NEW c \in Clients, C!ClientOutput(c) PROVE CP!ClientOutput(c)
  BY <1>4 DEF C!ClientOutput, CP!ClientOutput, C!CanOutput, CP!CanOutput, C!Pending, CP!Pending
<1>5. ASSUME NEW c \in Clients, C!PeerOutput(c) PROVE CP!PeerOutput(c)
  BY <1>5 DEF C!PeerOutput, CP!PeerOutput, C!Waiting, CP!Waiting, C!Fresh, CP!Fresh, C!Message, CP!Message
<1>6. ASSUME NEW c \in Clients, C!ClientOutputConfirm(c) PROVE CP!ClientOutputConfirm(c)
  BY <1>6 DEF C!ClientOutputConfirm, CP!ClientOutputConfirm, C!CanConfirm, CP!CanConfirm, C!Confirmed, CP!Confirmed, C!Complete, CP!Complete, C!Every, CP!Every
<1>7. ASSUME NEW c \in Clients, C!ClientTimeout(c) PROVE CP!ClientTimeout(c)
  BY <1>7 DEF C!ClientTimeout, CP!ClientTimeout, C!CanAbandon, CP!CanAbandon, C!TimedOut, CP!TimedOut, C!Complete, CP!Complete, C!Every, CP!Every
<1>8. ASSUME NEW c \in Clients, C!ClientCancel(c) PROVE CP!ClientCancel(c)
  BY <1>8 DEF C!ClientCancel, CP!ClientCancel, C!CanAbandon, CP!CanAbandon, C!Cancelled, CP!Cancelled, C!Complete, CP!Complete, C!Every, CP!Every
<1>9. ASSUME NEW n \in 1..Len(sent), NEW c \in Clients, C!ClientInput(c, n) PROVE CP!ClientInput(c, n)
  BY <1>9 DEF C!ClientInput, CP!ClientInput, C!Fresh, CP!Fresh, C!Accepts, CP!Accepts, C!Answered, CP!Answered, C!Complete, CP!Complete, C!ResultFor, CP!ResultFor, C!ServerResults, CP!ServerResults
<1> QED BY <1>1, <1>2, <1>3, <1>4, <1>5, <1>6, <1>7, <1>8, <1>9 DEF C!ClientSide, CP!ClientSide

-----------------------------------------------------------------------------
(* The inductive invariant *)

\* What the clients rely on, what the server relies on, and what joins the two.
Client == CP!TypeOK /\ CP!AnswerInv /\ CP!RequestInv /\ CP!TransmissionsAgree

LogType ==
    log \in [1..MaxTransmissions -> [taken : BOOLEAN, called : Nat, outcomes : Seq(SP!Outcomes)]]

\* The server works for a transmission it took and has not answered.
Serves(n) ==
    /\ n \in 1..Len(sent) /\ log[n].taken /\ answer[n] = {}
    /\ methodListLen = Len(sent[n].message.methods)
    /\ wanted = sent[n].message.confirmed

AnswerFits(n) ==
    /\ ~log[n].taken => answer[n] = {}
    /\ \A res \in answer[n] :
          res \in Seq(ServerResults) /\ Len(res) <= Len(sent[n].message.methods)

AnswersFit == Len(sent) <= MaxTransmissions /\ \A n \in 1..Len(sent) : AnswerFits(n)

Serving == LogType /\ AnswersFit /\ (state # "IDLE" => Serves(counter))

IInv == Client /\ SP!IInv /\ Serving

LEMMA InitInv == Init => IInv
<1> SUFFICES ASSUME Init PROVE IInv
  OBVIOUS
<1>1. CP!Init
  BY DEF Init, C!Init, CP!Init, C!Unused, CP!Unused
<1>2. Client
  BY <1>1, Assumptions, CP!InitType, CP!InitAnswerInv, CP!InitRequestInv DEF Client
<1>3. SP!Init
  BY DEF Init, S!Init, SP!Init
<1>4. SP!IInv
  BY <1>3, Assumptions, SP!InitInv
<1>5. Serving
  <2>1. state = "IDLE" /\ Len(sent) = 0 /\ 1..Len(sent) = {}
    BY DEF Init, C!Init, S!Init
  <2>2. LogType
    BY SP!EmptyLen DEF Init, LogType
  <2> QED BY <2>1, <2>2, ExchangeAssumption DEF Serving, AnswersFit
<1> QED BY <1>2, <1>4, <1>5 DEF IInv

-----------------------------------------------------------------------------
(* The server's steps *)

LEMMA SentType ==
    ASSUME Client, NEW n \in 1..Len(sent)
    PROVE  /\ sent[n].message.confirmed \in BOOLEAN
           /\ sent[n].message.breakOnError \in BOOLEAN
           /\ Len(sent[n].message.methods) \in Nat /\ Len(sent) \in Nat /\ n \in Nat
<1> DEFINE T == [request : Nat, message : CP!Messages]
<1>1. sent \in Seq(T)
  BY DEF Client, CP!TypeOK
<1>2. sent[n] \in T
  <2> HIDE DEF T
  <2> QED BY <1>1, ElementOfSeq
<1>3. sent[n].message \in CP!Messages /\ Len(sent) \in Nat
  BY <1>1, <1>2
<1> QED BY <1>3 DEF CP!Messages

LEMMA InputServer ==
    ASSUME IInv, NEW n \in 1..Len(sent), ServerInput(n)
    PROVE  SP!IInv' /\ Serving'
<1> DEFINE size == Len(sent[n].message.methods)
           tag == Tag(sent[n].message)
<1>1. PICK max \in ServerOutMaxes : S!ServerInput(tag, size, TRUE, max, n)
  BY DEF ServerInput
<1>2. /\ ~log[n].taken /\ log' = [log EXCEPT ![n].taken = TRUE]
      /\ UNCHANGED <<sent, answer>>
  BY DEF ServerInput, clientVars
<1>3. /\ sent[n].message.confirmed \in BOOLEAN /\ size \in Nat /\ n \in Nat
      /\ max \in Nat /\ TRUE \in BOOLEAN /\ Len(sent) \in Nat
  BY SentType, ExchangeAssumption DEF IInv
<1>4. tag \in {"METHOD_REQ", "METHOD_BOE_REQ"} <=> sent[n].message.confirmed
  BY DEF Tag
<1> HIDE DEF tag, size
<1>5. SP!ServerInput(tag, size, TRUE, max, n)
  BY <1>1 DEF S!ServerInput, SP!ServerInput, S!Accepted, SP!Accepted, S!RequestTags, SP!RequestTags
<1>6. SP!IInv'
  BY <1>3, <1>5, Assumptions, SP!InputInv DEF IInv
<1>7. LogType' /\ log'[n].taken /\ \A k \in 1..MaxTransmissions : k # n => log'[k] = log[k]
  <2>1. n \in 1..MaxTransmissions
    BY <1>3, ExchangeAssumption DEF IInv, Serving, AnswersFit
  <2> QED BY <1>2, <2>1 DEF IInv, Serving, LogType
<1>8. answer[n] = {}
  BY <1>2 DEF IInv, Serving, AnswersFit, AnswerFits
<1>9. ASSUME state' # "IDLE" PROVE Serves(counter)'
  <2>1. /\ methodListLen' = size /\ counter' = n
        /\ wanted' = (tag \in {"METHOD_REQ", "METHOD_BOE_REQ"})
    BY <1>1, <1>9 DEF S!ServerInput
  <2>2. wanted' = sent[n].message.confirmed
    BY <1>3, <1>4, <2>1
  <2> QED BY <1>2, <1>7, <1>8, <2>1, <2>2 DEF Serves, size
<1>10. AnswersFit'
  BY <1>2, <1>3, <1>7, <1>8 DEF IInv, Serving, AnswersFit, AnswerFits
<1> QED BY <1>6, <1>7, <1>9, <1>10 DEF Serving

\* The two instances of the server's module have the same steps.
LEMMA SameServer ==
    /\ S!Begin => SP!Begin
    /\ S!ServerResume => SP!ServerResume
    /\ S!NoRoom => SP!NoRoom
    /\ S!MethodYield => SP!MethodYield
    /\ S!MethodBuffer => SP!MethodBuffer
    /\ \A n : S!MethodSuccess(n) => SP!MethodSuccess(n)
    /\ \A result : S!MethodError(result) => SP!MethodError(result)
<1> USE DEF S!Kept, SP!Kept, S!KeptResults, SP!KeptResults, S!HasRoom, SP!HasRoom,
            S!Calling, SP!Calling, S!AdapterMax, SP!AdapterMax, S!Refused, SP!Refused,
            S!SizeResult, SP!SizeResult, S!SizeHeader, SP!SizeHeader, S!request, SP!request,
            S!Counted, SP!Counted, S!SizeofVint, SP!SizeofVint, S!Proceed, SP!Proceed
<1>1. S!Begin => SP!Begin
  BY DEF S!Begin, SP!Begin
<1>2. S!ServerResume => SP!ServerResume
  BY DEF S!ServerResume, SP!ServerResume
<1>3. S!NoRoom => SP!NoRoom
  BY DEF S!NoRoom, SP!NoRoom
<1>4. S!MethodYield => SP!MethodYield
  BY DEF S!MethodYield, SP!MethodYield
<1>5. S!MethodBuffer => SP!MethodBuffer
  BY DEF S!MethodBuffer, SP!MethodBuffer
<1>6. ASSUME NEW n, S!MethodSuccess(n) PROVE SP!MethodSuccess(n)
  BY <1>6 DEF S!MethodSuccess, SP!MethodSuccess
<1>7. ASSUME NEW result, S!MethodError(result) PROVE SP!MethodError(result)
  BY <1>7 DEF S!MethodError, SP!MethodError
<1> QED BY <1>1, <1>2, <1>3, <1>4, <1>5, <1>6, <1>7

LEMMA ServerSteps ==
    ServerResume =>
        \/ SP!Begin \/ SP!ServerResume \/ SP!NoRoom \/ SP!MethodYield \/ SP!MethodBuffer
        \/ \E n \in ReturnLens : SP!MethodSuccess(n)
        \/ \E result \in MethodErrors : SP!MethodError(result)
  BY SameServer DEF ServerResume

LEMMA ResumeInv ==
    ASSUME IInv, ServerResume
    PROVE  /\ SP!IInv' /\ state # "IDLE"
           /\ UNCHANGED <<wanted, breakOnError, counter, methodListLen, outMax, arrivals>>
<1>1. \/ SP!Begin \/ SP!ServerResume \/ SP!NoRoom \/ SP!MethodYield \/ SP!MethodBuffer
      \/ \E n \in ReturnLens : SP!MethodSuccess(n)
      \/ \E result \in SP!ErrorResults : SP!MethodError(result)
  <2>1. MethodErrors \subseteq SP!ErrorResults
    BY ExchangeAssumption DEF SP!ErrorResults, ServerResults
  <2> QED BY <2>1, ServerSteps
<1>2. SP!IInv'
  BY <1>1, Assumptions, SP!BeginInv, SP!ResumeInv, SP!NoRoomInv, SP!YieldInv, SP!BufferInv,
     SP!SuccessInv, SP!ErrorInv DEF IInv
<1>3. state # "IDLE"
  BY <1>1 DEF SP!Begin, SP!ServerResume, SP!NoRoom, SP!MethodYield, SP!MethodBuffer,
              SP!MethodSuccess, SP!MethodError, SP!Calling
<1>4. UNCHANGED SP!request
  BY <1>1 DEF SP!Begin, SP!ServerResume, SP!NoRoom, SP!MethodYield, SP!MethodBuffer,
              SP!MethodSuccess, SP!MethodError
<1> QED BY <1>2, <1>3, <1>4 DEF SP!request

\* What is sent is a whole answer to the transmission the server works for.
LEMMA ResumeServer ==
    ASSUME IInv, ServerResume
    PROVE  /\ SP!IInv' /\ Serving'
           /\ \/ counter \in 1..Len(sent) /\ CP!Answer(counter)
              \/ UNCHANGED CP!vars
<1>1. /\ SP!IInv' /\ state # "IDLE" /\ Serves(counter)
      /\ UNCHANGED <<wanted, breakOnError, counter, methodListLen, outMax, arrivals>>
  BY ResumeInv DEF IInv, Serving
<1>2. /\ UNCHANGED <<client, request, requests, outbox, packed, confirmed, sent, delivered>>
      /\ log' = [log EXCEPT ![counter].called = firstCalls', ![counter].outcomes = outcomes']
      /\ Respond
  BY DEF ServerResume
<1>3. counter \in 1..MaxTransmissions
  BY <1>1, SentType, ExchangeAssumption DEF IInv, Serving, AnswersFit, Serves
<1>4. LogType' /\ \A n \in 1..MaxTransmissions : log'[n].taken = log[n].taken
  <2>1. firstCalls' \in Nat /\ outcomes' \in Seq(SP!Outcomes)
    BY <1>1 DEF SP!IInv, SP!TypeOK
  <2> QED BY <1>2, <1>3, <2>1 DEF IInv, Serving, LogType
<1>5. CASE state' = "IDLE" /\ outLen' > 0
  <2>1. answer' = [answer EXCEPT ![counter] = {results'}]
    BY <1>2, <1>5 DEF Respond
  <2>2. ~running'
    BY <1>1, <1>5 DEF SP!IInv, SP!Flow
  <2>3. wanted' = TRUE
    BY <1>1, <1>5, <2>2 DEF SP!IInv, SP!TypeOK, SP!SilentIfUnconfirmed
  <2>4. Len(results') <= methodListLen' /\ results' \in Seq(ServerResults)
    BY <1>1, <2>3 DEF SP!IInv, SP!TypeOK, SP!ResultsAreOutcomes, SP!Outcomes, SP!ErrorResults, ServerResults
  <2>5. CP!Answer(counter)
    BY <1>1, <1>2, <2>1, <2>3, <2>4 DEF Serves, CP!Answer
  <2>6. DOMAIN answer = 1..Len(sent)
    BY DEF IInv, Client, CP!TypeOK
  <2>7. AnswersFit'
    <3>1. Len(sent') <= MaxTransmissions /\ Len(sent') = Len(sent)
      BY <1>2 DEF IInv, Serving, AnswersFit
    <3>2. ASSUME NEW n \in 1..Len(sent), n # counter PROVE AnswerFits(n)'
      <4>1. answer'[n] = answer[n] /\ sent' = sent /\ n \in 1..MaxTransmissions
        BY <1>2, <2>1, <2>6, <3>1, <3>2, SentType, ExchangeAssumption DEF IInv
      <4> QED BY <1>4, <4>1 DEF IInv, Serving, AnswersFit, AnswerFits
    <3>3. AnswerFits(counter)'
      <4>1. /\ answer'[counter] = {results'} /\ sent' = sent /\ counter' = counter
            /\ log'[counter].taken /\ methodListLen' = Len(sent[counter].message.methods)
        BY <1>1, <1>2, <1>3, <1>4, <2>1, <2>6 DEF Serves
      <4> QED BY <2>4, <4>1 DEF AnswerFits
    <3> QED BY <3>1, <3>2, <3>3, <1>1 DEF AnswersFit
  <2> QED BY <1>1, <1>4, <1>5, <2>5, <2>7 DEF Serving, Serves
<1>6. CASE ~(state' = "IDLE" /\ outLen' > 0)
  <2>1. UNCHANGED CP!vars
    BY <1>2, <1>6 DEF Respond, CP!vars
  <2>2. AnswersFit' /\ Serves(counter)'
    <3>1. UNCHANGED <<sent, answer, counter, wanted, methodListLen>>
      BY <1>1, <1>2, <1>6 DEF Respond
    <3>2. ASSUME NEW n \in 1..Len(sent) PROVE AnswerFits(n)'
      <4>1. n \in 1..MaxTransmissions
        BY SentType, ExchangeAssumption DEF IInv, Serving, AnswersFit
      <4> QED BY <1>4, <3>1, <4>1 DEF IInv, Serving, AnswersFit, AnswerFits
    <3>3. Serves(counter)'
      BY <1>1, <1>3, <1>4, <3>1 DEF Serves
    <3> QED BY <3>1, <3>2, <3>3 DEF IInv, Serving, AnswersFit
  <2> QED BY <1>1, <1>4, <2>1, <2>2 DEF Serving
<1> QED BY <1>5, <1>6

-----------------------------------------------------------------------------
(* Every step *)

\* The clients add transmissions and take nothing of the server's away.
LEMMA ClientSideServing ==
    ASSUME IInv, C!ClientSide, UNCHANGED serverVars
    PROVE  SP!IInv' /\ Serving'
<1>1. SP!IInv'
  BY DEF serverVars, IInv, SP!IInv, SP!TypeOK, SP!Flow, SP!CalledInOrder, SP!StopsAtError,
         SP!SilentIfUnconfirmed, SP!Reported, SP!ResultsAreOutcomes
<1>2. CASE UNCHANGED <<sent, answer>>
  BY <1>1, <1>2 DEF serverVars, IInv, Serving, LogType, AnswersFit, AnswerFits, Serves
<1>3. ASSUME NEW c \in Clients, C!PeerOutput(c) PROVE Serving'
  <2> DEFINE new == [request |-> request[c], message |-> C!Message(client[c])]
             T == [request : Nat, message : CP!Messages]
  <2>1. /\ sent' = Append(sent, new) /\ answer' = Append(answer, {})
        /\ Len(sent) < MaxTransmissions
    BY <1>3 DEF C!PeerOutput
  <2>2. sent \in Seq(T) /\ answer \in Seq(SUBSET Seq(ServerResults)) /\ Len(answer) = Len(sent)
    BY DEF IInv, Client, CP!TypeOK
  <2> HIDE DEF new, T
  <2>3. /\ Len(sent') = Len(sent) + 1 /\ Len(sent) \in Nat
        /\ \A n \in 1..Len(sent) : sent'[n] = sent[n] /\ answer'[n] = answer[n]
        /\ answer'[Len(sent) + 1] = {}
    BY <2>1, <2>2
  <2>4. ASSUME NEW n \in 1..Len(sent') PROVE AnswerFits(n)'
    <3>1. n \in 1..Len(sent) \/ n = Len(sent) + 1
      BY <2>3
    <3> QED BY <2>3, <3>1 DEF serverVars, IInv, Serving, AnswersFit, AnswerFits
  <2>5. Len(sent') <= MaxTransmissions
    BY <2>1, <2>3, ExchangeAssumption
  <2>6. state' # "IDLE" => Serves(counter)'
    <3>1. state # "IDLE" => counter \in 1..Len(sent')
      BY <2>3 DEF IInv, Serving, Serves
    <3> QED BY <2>3, <3>1 DEF serverVars, IInv, Serving, Serves
  <2> QED BY <2>4, <2>5, <2>6 DEF serverVars, IInv, Serving, LogType, AnswersFit
<1>4. UNCHANGED <<sent, answer>> \/ \E c \in Clients : C!PeerOutput(c)
  BY DEF C!ClientSide, C!ClientInit, C!AddMethod, C!FromOutput, C!ClientOutput,
         C!ClientOutputConfirm, C!ClientTimeout, C!ClientCancel, C!ClientInput
<1> QED BY <1>1, <1>2, <1>3, <1>4

\* Every step is one of the clients' module, whose servers answer what they like,
\* and keeps the invariant.
LEMMA StepInv == IInv /\ [Next]_vars => IInv' /\ [CP!Next]_(CP!vars)
<1> SUFFICES ASSUME IInv, [Next]_vars PROVE IInv' /\ [CP!Next]_(CP!vars)
  OBVIOUS
<1>1. (SP!IInv' /\ Serving') /\ [CP!Next]_(CP!vars)
  <2>1. CASE ClientSide
    BY <2>1, SameClientSide, ClientSideServing DEF ClientSide, CP!Next
  <2>2. CASE ServerResume
    BY <2>2, ResumeServer DEF CP!Next
  <2>3. ASSUME NEW n \in 1..Len(sent), ServerInput(n)
        PROVE  (SP!IInv' /\ Serving') /\ [CP!Next]_(CP!vars)
    BY <2>3, InputServer DEF ServerInput, clientVars, CP!vars
  <2>4. CASE UNCHANGED vars
    BY <2>4 DEF vars, clientVars, serverVars, CP!vars, IInv, Serving, LogType, AnswersFit,
                AnswerFits, Serves, SP!IInv, SP!TypeOK, SP!Flow, SP!CalledInOrder, SP!StopsAtError,
                SP!SilentIfUnconfirmed, SP!Reported, SP!ResultsAreOutcomes
  <2> QED BY <2>1, <2>2, <2>3, <2>4 DEF Next
<1>2. Client'
  <2>1. CP!TypeOK'
    BY <1>1, Assumptions, CP!NextType DEF IInv, Client
  <2>2. CP!AnswerInv'
    BY <1>1, <2>1, Assumptions, CP!NextAnswerInv DEF IInv, Client
  <2>3. CP!RequestInv' /\ CP!TransmissionsAgree'
    BY <1>1, Assumptions, CP!NextRequestInv DEF IInv, Client
  <2> QED BY <2>1, <2>2, <2>3 DEF Client
<1> QED BY <1>1, <1>2 DEF IInv

LEMMA Invariance == Spec => []IInv
  BY InitInv, StepInv, PTL DEF Spec

\* The clients cannot tell the server from one that answers as it likes: what is
\* proved of PR6Client holds with the server of PR6Server, too.
THEOREM ClientsSeeAnyServer == Spec => CP!Spec
<1>1. Init => CP!Init
  BY DEF Init, C!Init, CP!Init, C!Unused, CP!Unused
<1> QED BY <1>1, Invariance, StepInv, PTL DEF Spec, CP!Spec

\* What the server answers is never dropped by the instance that waits for it, unless
\* it holds no result at all.
THEOREM AnswerIsAlwaysTaken == Spec => []AnswerIsTaken
<1>1. ASSUME IInv, NEW c \in Clients, NEW n \in 1..Len(sent),
             client[c].state = "SENT", confirmed[c] = n,
             NEW res \in answer[n], res # <<>>
      PROVE  Accepts(client[c], n % RES_MOD, res)
  <2>1. client[c].counter = n % RES_MOD /\ sent[n].request = request[c]
    BY <1>1, SentType DEF IInv, Client, CP!AnswerInv, CP!OwnTransmission
  <2>2. sent[n].message = CP!Message(client[c]) /\ client[c] \in CP!Instances
    BY <1>1, <2>1 DEF IInv, Client, CP!TransmissionsAgree, CP!TypeOK
  <2>3. Len(sent[n].message.methods) = Len(client[c].list)
    <3>1. Len(client[c].list) \in Nat
      BY <2>2 DEF CP!Instances
    <3>2. sent[n].message.methods = [i \in 1..Len(client[c].list) |-> client[c].list[i].method]
      BY <2>2 DEF CP!Message
    <3> QED BY <3>1, <3>2
  <2>4. res \in Seq(ServerResults) /\ Len(res) <= Len(client[c].list)
    BY <1>1, <2>3 DEF IInv, Serving, AnswersFit, AnswerFits
  <2> QED BY <1>1, <2>1, <2>4 DEF Accepts
<1>2. IInv => AnswerIsTaken
  BY <1>1 DEF AnswerIsTaken
<1> QED BY <1>2, Invariance, PTL
=============================================================================
