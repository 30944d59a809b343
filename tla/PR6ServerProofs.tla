-------------------------- MODULE PR6ServerProofs ---------------------------
(***************************************************************************)
(* Theorems about PR6Server for method lists, buffers and return values of *)
(* every length and any number of requests and yields.                     *)
(***************************************************************************)
EXTENDS PR6Server, SequenceTheorems, TLAPS

-----------------------------------------------------------------------------
(* Lengths *)

LEMMA VintSizes ==
    ASSUME NEW n \in Nat
    PROVE  /\ SizeofVint(n) \in 1..3
           /\ n > 1 => n > SizeofVint(n)
           /\ \A k \in Nat : k <= n => SizeofVint(k) <= SizeofVint(n)
  BY DEF SizeofVint

\* What a method may return leaves room for itself and its length determinant.
LEMMA ReturnFits ==
    ASSUME TypeOK, outLen <= outMax, HasRoom
    PROVE  /\ Kept \in Nat /\ AdapterMax \in Nat /\ AdapterMax > 0
           /\ \A n \in Nat : n <= AdapterMax =>
                /\ Kept + SizeResult + SizeofVint(n) <= outMax - AdapterMax
                /\ Kept + SizeResult + SizeofVint(n) + n <= outMax
<1> DEFINE room == outMax - (Kept + SizeResult)
<1>1. Kept \in Nat /\ room \in Nat /\ room > 1 /\ outMax \in Nat
  BY DEF TypeOK, Kept, HasRoom, SizeResult
<1>2. SizeofVint(room) \in 1..3 /\ room > SizeofVint(room)
  BY <1>1, VintSizes
<1>3. AdapterMax = room - SizeofVint(room)
  BY <1>1, <1>2 DEF AdapterMax, SizeResult
<1> HIDE DEF room
<1>4. AdapterMax \in Nat /\ AdapterMax > 0 /\ AdapterMax <= room
  BY <1>1, <1>2, <1>3
<1>5. ASSUME NEW n \in Nat, n <= AdapterMax
      PROVE  /\ Kept + SizeResult + SizeofVint(n) <= outMax - AdapterMax
             /\ Kept + SizeResult + SizeofVint(n) + n <= outMax
  <2>1. SizeofVint(n) <= SizeofVint(room) /\ SizeofVint(n) \in 1..3
    BY <1>1, <1>4, <1>5, VintSizes
  <2>2. room = outMax - Kept - 1 /\ SizeResult = 1
    BY <1>1 DEF room, SizeResult
  <2> QED BY <1>1, <1>2, <1>3, <1>5, <2>1, <2>2
<1> QED BY <1>1, <1>4, <1>5

\* The methods refused after a failed one are methods of the list, and their
\* results fit.
LEMMA RefusedFit ==
    ASSUME TypeOK, running, outLen <= outMax, HasRoom
    PROVE  /\ Refused \in Nat
           /\ methodListPos + 1 + Refused <= methodListLen
           /\ Kept + SizeResult + Refused <= outMax
           /\ ~breakOnError => Refused = 0
           /\ breakOnError /\ methodListPos + 1 + Refused < methodListLen
                => Kept + SizeResult + Refused = outMax
  BY DEF TypeOK, Refused, Kept, HasRoom, SizeResult

-----------------------------------------------------------------------------
(* The inductive invariant *)

\* Where the loop is, and what a request that has not been begun holds.
Flow ==
    /\ running => state \in {"BEGIN", "FIRSTCALL", "CALL"}
    /\ ~running => state \in {"IDLE", "YIELD", "BEGIN"}
    /\ state = "BEGIN" =>
          /\ outcomes = <<>> /\ results = <<>>
          /\ firstCalls = 0 /\ methodListPos = 0 /\ outLen = 0
    /\ outLen <= outMax

\* As long as a request with response is not at its end its results are the outcomes.
Reported == confirmed /\ state # "IDLE" => results = outcomes

IInv ==
    /\ TypeOK /\ Flow /\ CalledInOrder /\ StopsAtError /\ SilentIfUnconfirmed
    /\ Reported /\ ResultsAreOutcomes

LEMMA EmptyLen ==
    ASSUME NEW s, s = <<>>, NEW S
    PROVE  Len(s) = 0 /\ s \in Seq(S) /\ 1..Len(s) = {}
  OBVIOUS

LEMMA InitInv == Init => IInv
<1> SUFFICES ASSUME Init PROVE IInv
  OBVIOUS
<1>1. /\ Len(outcomes) = 0 /\ outcomes \in Seq(Outcomes) /\ 1..Len(outcomes) = {}
      /\ Len(results) = 0 /\ results \in Seq(Outcomes) /\ 1..Len(results) = {}
  BY EmptyLen DEF Init
<1>2. TypeOK
  BY <1>1 DEF Init, TypeOK, ServerStates
<1>3. Flow
  BY DEF Init, Flow
<1>5. CalledInOrder
  <2>1. state = "IDLE" /\ firstCalls = 0 /\ methodListLen = 0
    BY DEF Init
  <2> QED BY <1>1, <2>1 DEF CalledInOrder
<1>7. StopsAtError
  BY DEF Init, StopsAtError
<1>6. SilentIfUnconfirmed /\ Reported
  BY DEF Init, SilentIfUnconfirmed, Reported
<1>4. ResultsAreOutcomes
  BY <1>1 DEF Init, ResultsAreOutcomes
<1> QED BY <1>2, <1>3, <1>4, <1>5, <1>6, <1>7 DEF IInv

-----------------------------------------------------------------------------
(* Steps that do not end a method *)

LEMMA InputInv ==
    ASSUME IInv,
           NEW tag, NEW size \in Nat, NEW wellFormed \in BOOLEAN,
           NEW max \in Nat, NEW number \in Nat,
           ServerInput(tag, size, wellFormed, max, number)
    PROVE  IInv'
<1>1. /\ outcomes' = <<>> /\ results' = <<>>
      /\ firstCalls' = 0 /\ methodListPos' = 0 /\ outLen' = 0 /\ yields' = 0
      /\ requests' = requests + 1 /\ outMax' = max
  BY DEF ServerInput
<1>2. size \in Nat /\ max \in Nat
  OBVIOUS
<1>3. /\ Len(outcomes') = 0 /\ outcomes' \in Seq(Outcomes) /\ 1..Len(outcomes') = {}
      /\ Len(results') = 0 /\ results' \in Seq(Outcomes)
  BY <1>1, EmptyLen
<1>4. \/ /\ size > 0 /\ methodListLen' = size /\ confirmed' \in BOOLEAN /\ breakOnError' \in BOOLEAN
         /\ counter' = number /\ state' = "BEGIN" /\ running' = (max >= 2)
      \/ /\ state' = "IDLE" /\ confirmed' = TRUE /\ running' = FALSE
         /\ UNCHANGED <<methodListLen, breakOnError, counter>>
  BY DEF ServerInput, Accepted, IInv, TypeOK
<1>5. TypeOK'
  <2>1. state' \in ServerStates /\ counter' \in Nat /\ methodListLen' \in Nat
    BY <1>4, <1>2 DEF IInv, TypeOK, ServerStates
  <2>4. confirmed' \in BOOLEAN /\ breakOnError' \in BOOLEAN
    BY <1>4 DEF IInv, TypeOK
  <2>5. running' \in BOOLEAN
    <3>1. (max >= 2) = TRUE \/ (max >= 2) = FALSE
      BY <1>2
    <3> QED BY <1>4, <3>1
  <2>2. running' \/ state' = "YIELD" => methodListPos' < methodListLen'
    BY <1>1, <1>2, <1>4
  <2>3. requests' \in Nat /\ 0 \in Nat
    BY <1>1 DEF IInv, TypeOK
  <2> QED BY <1>1, <1>2, <1>3, <2>1, <2>2, <2>3, <2>4, <2>5 DEF TypeOK
<1>6. Flow'
  BY <1>1, <1>2, <1>4 DEF IInv, Flow, TypeOK
<1>7. CalledInOrder'
  <2>1. methodListLen' >= 0 /\ state' \notin {"FIRSTCALL", "CALL", "YIELD"}
    BY <1>2, <1>4 DEF IInv, TypeOK
  <2>2. firstCalls' = 0 /\ Len(outcomes') = 0
    BY <1>1, <1>3
  <2> QED BY <2>1, <2>2 DEF CalledInOrder
<1>8. StopsAtError' /\ SilentIfUnconfirmed' /\ Reported'
  BY <1>1, <1>3 DEF StopsAtError, SilentIfUnconfirmed, Reported
<1>9. ResultsAreOutcomes'
  BY <1>2, <1>3, <1>4 DEF IInv, ResultsAreOutcomes, TypeOK
<1> QED BY <1>5, <1>6, <1>7, <1>8, <1>9 DEF IInv

LEMMA BeginInv == IInv /\ Begin => IInv' /\ ShortOnlyIfFull'
<1> SUFFICES ASSUME IInv, Begin PROVE IInv' /\ ShortOnlyIfFull'
  OBVIOUS
<1> USE DEF Begin, request
<1>0. \/ outLen' = 3 /\ state' = "FIRSTCALL" /\ running' = TRUE /\ 3 < outMax
      \/ outLen' = 0 /\ state' = "IDLE" /\ running' = FALSE
  BY DEF SizeHeader, IInv, TypeOK
<1>1. TypeOK'
  <2>1. state' \in ServerStates /\ outLen' \in Nat
    BY <1>0 DEF ServerStates
  <2>2. running' \in BOOLEAN
    BY <1>0
  <2> QED BY <1>0, <2>1, <2>2 DEF IInv, TypeOK
<1>2. Flow'
  <2>1. outLen' <= outMax'
    BY <1>0 DEF IInv, TypeOK
  <2> QED BY <1>0, <2>1 DEF IInv, Flow
<1>3. CalledInOrder' /\ StopsAtError'
  BY EmptyLen DEF IInv, TypeOK, Flow, CalledInOrder, StopsAtError
<1>4. SilentIfUnconfirmed' /\ Reported'
  BY DEF IInv, TypeOK, Flow, SilentIfUnconfirmed, Reported
<1>5. ResultsAreOutcomes'
  BY DEF IInv, ResultsAreOutcomes
<1>6. ShortOnlyIfFull'
  BY DEF IInv, TypeOK, ShortOnlyIfFull
<1> QED BY <1>1, <1>2, <1>3, <1>4, <1>5, <1>6 DEF IInv

LEMMA ResumeInv == IInv /\ ServerResume => IInv' /\ ShortOnlyIfFull'
<1> SUFFICES ASSUME IInv, ServerResume PROVE IInv' /\ ShortOnlyIfFull'
  OBVIOUS
<1> USE DEF ServerResume, request
<1>1. TypeOK'
  BY DEF IInv, TypeOK, ServerStates
<1>2. Flow'
  BY DEF IInv, TypeOK, Flow
<1>3. CalledInOrder' /\ StopsAtError'
  BY DEF IInv, TypeOK, CalledInOrder, StopsAtError
<1>4. SilentIfUnconfirmed' /\ Reported' /\ ShortOnlyIfFull'
  BY DEF IInv, SilentIfUnconfirmed, Reported, ShortOnlyIfFull
<1>5. ResultsAreOutcomes'
  BY DEF IInv, ResultsAreOutcomes
<1> QED BY <1>1, <1>2, <1>3, <1>4, <1>5 DEF IInv

\* While methods are called and none has ended the request, all of them so far
\* succeeded if it is to stop at errors.
LEMMA NoErrorYet ==
    ASSUME IInv, breakOnError, state # "IDLE", NEW i \in 1..Len(outcomes)
    PROVE  outcomes[i] = "SUCCESS"
  BY DEF IInv, StopsAtError

\* The loop stops before, or during, a method that has no outcome.
LEMMA HaltInv ==
    ASSUME IInv, running, state \in {"FIRSTCALL", "CALL"},
           outLen' = Kept, results' = KeptResults, running' = FALSE,
           outcomes' = outcomes, UNCHANGED <<request, methodListPos>>,
           \/ ~HasRoom /\ state' = "IDLE" /\ firstCalls' = firstCalls /\ yields' = yields
           \/ /\ state' \in {"IDLE", "YIELD"}
              /\ firstCalls' = firstCalls + (IF state = "FIRSTCALL" THEN 1 ELSE 0)
              /\ yields' \in Nat
    PROVE  IInv' /\ ShortOnlyIfFull'
<1> USE DEF request
<1>1. Kept \in Nat /\ Kept <= outLen /\ KeptResults \in Seq(Outcomes)
      /\ (confirmed => Kept = outLen /\ KeptResults = results)
      /\ (~confirmed => Kept = 0 /\ KeptResults = <<>>)
  BY EmptyLen DEF IInv, TypeOK, Kept, KeptResults
<1>2. TypeOK'
  <2>1. state' \in ServerStates /\ (state' = "YIELD" => methodListPos' < methodListLen')
    BY DEF IInv, TypeOK, ServerStates
  <2>2. firstCalls' \in Nat /\ yields' \in Nat
    BY DEF IInv, TypeOK
  <2> QED BY <1>1, <2>1, <2>2 DEF IInv, TypeOK
<1>3. Flow'
  BY <1>1 DEF IInv, TypeOK, Flow
<1>4. CalledInOrder'
  BY DEF IInv, TypeOK, CalledInOrder
<1>5. StopsAtError'
  BY NoErrorYet DEF StopsAtError
<1>6. SilentIfUnconfirmed' /\ Reported' /\ ResultsAreOutcomes'
  BY <1>1 DEF IInv, SilentIfUnconfirmed, Reported, ResultsAreOutcomes
<1>7. ShortOnlyIfFull'
  BY <1>1 DEF IInv, TypeOK, CalledInOrder, ShortOnlyIfFull, HasRoom, SizeResult
<1> QED BY <1>2, <1>3, <1>4, <1>5, <1>6, <1>7 DEF IInv

LEMMA NoRoomInv == IInv /\ NoRoom => IInv' /\ ShortOnlyIfFull'
  BY HaltInv DEF NoRoom

LEMMA YieldInv == IInv /\ MethodYield => IInv' /\ ShortOnlyIfFull'
<1> SUFFICES ASSUME IInv, MethodYield PROVE IInv' /\ ShortOnlyIfFull'
  OBVIOUS
<1>1. yields' \in Nat
  BY DEF MethodYield, IInv, TypeOK
<1> QED BY <1>1, HaltInv DEF MethodYield, Calling, Counted

LEMMA BufferInv == IInv /\ MethodBuffer => IInv' /\ ShortOnlyIfFull'
<1> SUFFICES ASSUME IInv, MethodBuffer PROVE IInv' /\ ShortOnlyIfFull'
  OBVIOUS
<1>1. yields' \in Nat
  BY DEF MethodBuffer, IInv, TypeOK
<1> QED BY <1>1, HaltInv DEF MethodBuffer, Calling, Counted

-----------------------------------------------------------------------------
(* The end of a method *)

\* A method ends with outcome o, `more` is added to the response: that outcome, and
\* a refusal for each skipped method. Then comes the next method, or the end.
LEMMA ProceedInv ==
    ASSUME IInv, Calling, Counted, UNCHANGED <<request, yields>>,
           NEW o \in Outcomes, outcomes' = Append(outcomes, o),
           NEW size \in Nat, NEW more \in Seq(Outcomes), NEW skipped \in Nat, NEW cut \in BOOLEAN,
           Proceed(size, more, skipped, cut),
           Kept + size <= outMax, methodListPos + 1 + skipped <= methodListLen,
           Len(more) = 1 + skipped, more[1] = o,
           \A i \in 2..Len(more) : more[i] = "PERMANENT",
           skipped > 0 => breakOnError /\ o # "SUCCESS",
           cut => Kept + size = outMax,
           breakOnError /\ o # "SUCCESS" =>
               cut \/ methodListPos + 1 + skipped = methodListLen
    PROVE  IInv' /\ ShortOnlyIfFull'
<1> DEFINE last == cut \/ methodListPos + 1 + skipped = methodListLen
<1> USE DEF request
<1>1. /\ methodListPos' = methodListPos + 1 + skipped
      /\ state' = IF last THEN "IDLE" ELSE "FIRSTCALL"
      /\ (last => running' = FALSE) /\ (~last => running' = TRUE)
      /\ outLen' = IF last /\ ~confirmed THEN 0 ELSE Kept + size
      /\ results' = IF last /\ ~confirmed THEN <<>> ELSE KeptResults \o more
  BY DEF Proceed
<1>2. /\ running /\ state \in {"FIRSTCALL", "CALL"} /\ methodListPos < methodListLen
      /\ firstCalls' = Len(outcomes) + 1 /\ Len(outcomes) = methodListPos
      /\ firstCalls' \in Nat /\ methodListPos \in Nat
  BY DEF IInv, TypeOK, CalledInOrder, Calling, Counted
<1>3. /\ outcomes' \in Seq(Outcomes) /\ Len(outcomes') = methodListPos + 1
      /\ outcomes'[Len(outcomes')] = o
      /\ \A i \in 1..Len(outcomes) : outcomes'[i] = outcomes[i]
  BY <1>2 DEF IInv, TypeOK
<1>4. skipped = 0 \/ last
  OBVIOUS
<1> HIDE DEF last
<1>5. /\ KeptResults \in Seq(Outcomes) /\ Kept \in Nat
      /\ confirmed => KeptResults = outcomes
  BY <1>2, EmptyLen DEF IInv, TypeOK, Kept, KeptResults, Reported
<1>6. TypeOK'
  <2>1. methodListPos' \in Nat /\ outLen' \in Nat /\ results' \in Seq(Outcomes)
    BY <1>1, <1>2, <1>5, EmptyLen
  <2>2. state' \in ServerStates /\ running' \in BOOLEAN
    BY <1>1 DEF ServerStates
  <2>3. running' \/ state' = "YIELD" => methodListPos' < methodListLen'
    BY <1>1, <1>2 DEF last, IInv, TypeOK
  <2> QED BY <1>2, <1>3, <2>1, <2>2, <2>3 DEF IInv, TypeOK
<1>7. Flow'
  BY <1>1 DEF IInv, Flow, TypeOK
<1>8. CalledInOrder'
  <2>1. firstCalls' = Len(outcomes') /\ firstCalls' <= methodListLen'
    BY <1>2, <1>3 DEF IInv, TypeOK
  <2>2. state' = "FIRSTCALL" => firstCalls' = methodListPos'
    BY <1>1, <1>2, <1>4
  <2> QED BY <1>1, <1>2, <2>1, <2>2 DEF CalledInOrder
<1>9. StopsAtError'
  <2> SUFFICES ASSUME breakOnError, NEW i \in 1..Len(outcomes'), outcomes'[i] # "SUCCESS"
               PROVE  i = Len(outcomes') /\ firstCalls' = i /\ state' = "IDLE"
    BY DEF StopsAtError
  <2>1. i = Len(outcomes')
    BY <1>2, <1>3, NoErrorYet
  <2> QED BY <1>1, <1>2, <1>3, <2>1 DEF last
<1>10. SilentIfUnconfirmed'
  BY <1>1 DEF SilentIfUnconfirmed
<1>11. confirmed' =>
         /\ results' = outcomes \o more
         /\ Len(results') = methodListPos' /\ methodListPos' <= methodListLen'
         /\ \A i \in 1..Len(outcomes') : results'[i] = outcomes'[i]
         /\ \A i \in Len(outcomes') + 1..Len(results') :
               results'[i] = "PERMANENT" /\ skipped > 0
  <2> SUFFICES ASSUME confirmed'
               PROVE  /\ results' = outcomes \o more
                      /\ Len(results') = methodListPos' /\ methodListPos' <= methodListLen'
                      /\ \A i \in 1..Len(outcomes') : results'[i] = outcomes'[i]
                      /\ \A i \in Len(outcomes') + 1..Len(results') :
                            results'[i] = "PERMANENT" /\ skipped > 0
    OBVIOUS
  <2>1. results' = outcomes \o more /\ outcomes \in Seq(Outcomes)
    BY <1>1, <1>5 DEF IInv, TypeOK
  <2>2. Len(results') = methodListPos + 1 + skipped
    <3>1. Len(results') = Len(outcomes) + Len(more)
      BY <2>1, ConcatProperties
    <3> QED BY <1>2, <3>1
  <2>3. ASSUME NEW i \in 1..Len(outcomes') PROVE results'[i] = outcomes'[i]
    <3>1. i \in 1..Len(outcomes) \/ i = Len(outcomes) + 1
      BY <1>2, <1>3
    <3> QED BY <1>2, <1>3, <2>1, <3>1
  <2>4. ASSUME NEW i \in Len(outcomes') + 1..Len(results')
        PROVE  results'[i] = "PERMANENT" /\ skipped > 0
    <3>1. i - Len(outcomes) \in 2..Len(more) /\ skipped > 0
      BY <1>2, <1>3, <2>2
    <3>2. results'[i] = more[i - Len(outcomes)]
      BY <1>2, <1>3, <2>1, <2>2
    <3> QED BY <3>1, <3>2
  <2> QED BY <1>1, <2>1, <2>2, <2>3, <2>4
<1>12. Reported'
  <2> SUFFICES ASSUME confirmed', state' # "IDLE" PROVE results' = outcomes'
    BY DEF Reported
  <2>1. results' \in Seq(Outcomes) /\ outcomes' \in Seq(Outcomes)
    BY <1>6 DEF TypeOK
  <2>2. skipped = 0
    BY <1>1, <1>4
  <2>3. Len(results') = Len(outcomes')
    BY <1>1, <1>2, <1>3, <1>11, <2>2
  <2>4. \A i \in 1..Len(outcomes') : results'[i] = outcomes'[i]
    BY <1>11
  <2> QED BY <2>1, <2>3, <2>4, SeqEqual
<1>13. ResultsAreOutcomes'
  <2>1. outcomes' # <<>> /\ Len(outcomes') <= methodListPos'
    BY <1>1, <1>2, <1>3
  <2> QED BY <1>3, <1>11, <2>1 DEF ResultsAreOutcomes
<1>14. ShortOnlyIfFull'
  <2> SUFFICES ASSUME confirmed', state' = "IDLE", Len(results') < methodListLen'
               PROVE  outMax' - outLen' <= 2
    BY DEF ShortOnlyIfFull
  <2>1. cut /\ confirmed
    BY <1>1, <1>11 DEF last
  <2>2. outLen' = outMax'
    BY <1>1, <2>1
  <2> QED BY <2>2 DEF IInv, TypeOK
<1> QED BY <1>6, <1>7, <1>8, <1>9, <1>10, <1>12, <1>13, <1>14 DEF IInv

LEMMA SuccessInv ==
    ASSUME IInv, NEW n \in ReturnLens, MethodSuccess(n)
    PROVE  IInv' /\ ShortOnlyIfFull'
<1> DEFINE size == SizeResult + SizeofVint(n) + n
<1>1. n \in Nat /\ SizeofVint(n) \in 1..3
  BY ServerAssumption, VintSizes
<1>2. size \in Nat /\ Kept + size <= outMax
  <2>1. TypeOK /\ outLen <= outMax /\ HasRoom /\ n <= AdapterMax
    BY DEF MethodSuccess, Calling, IInv, Flow
  <2>2. Kept \in Nat /\ Kept + SizeResult + SizeofVint(n) + n <= outMax
    BY <1>1, <2>1, ReturnFits
  <2> QED BY <1>1, <2>2 DEF SizeResult
<1>3. /\ "SUCCESS" \in Outcomes /\ <<"SUCCESS">> \in Seq(Outcomes)
      /\ Len(<<"SUCCESS">>) = 1 + 0 /\ <<"SUCCESS">>[1] = "SUCCESS"
      /\ \A i \in 2..Len(<<"SUCCESS">>) : <<"SUCCESS">>[i] = "PERMANENT"
  BY DEF Outcomes
<1>4. methodListPos + 1 + 0 <= methodListLen
  BY DEF MethodSuccess, Calling, IInv, TypeOK
<1> HIDE DEF size
<1>5. /\ Calling /\ Counted /\ UNCHANGED <<request, yields>>
      /\ outcomes' = Append(outcomes, "SUCCESS")
      /\ Proceed(size, <<"SUCCESS">>, 0, FALSE)
  BY DEF MethodSuccess, size
<1>6. 0 \in Nat /\ FALSE \in BOOLEAN /\ ~(0 > 0)
  OBVIOUS
<1> QED BY <1>2, <1>3, <1>4, <1>5, <1>6, ProceedInv, Zenon

LEMMA ErrorInv ==
    ASSUME IInv, NEW result \in ErrorResults, MethodError(result)
    PROVE  IInv' /\ ShortOnlyIfFull'
<1> DEFINE size == SizeResult + Refused
           more == <<result>> \o [i \in 1..Refused |-> "PERMANENT"]
           cut == breakOnError /\ methodListPos + 1 + Refused < methodListLen
<1>1. /\ Refused \in Nat /\ methodListPos + 1 + Refused <= methodListLen
      /\ Kept + SizeResult + Refused <= outMax /\ (~breakOnError => Refused = 0)
      /\ (cut => Kept + SizeResult + Refused = outMax)
  BY RefusedFit DEF MethodError, Calling, IInv, Flow
<1>2. /\ Kept \in Nat /\ SizeResult = 1 /\ methodListPos \in Nat /\ methodListLen \in Nat
      /\ breakOnError \in BOOLEAN
  BY DEF Kept, IInv, TypeOK, SizeResult
<1>3. size \in Nat /\ Kept + size <= outMax /\ (cut => Kept + size = outMax)
  BY <1>1, <1>2
<1>4. result \in Outcomes /\ result # "SUCCESS" /\ "PERMANENT" \in Outcomes
  BY DEF Outcomes, ErrorResults
<1>5. /\ more \in Seq(Outcomes) /\ Len(more) = 1 + Refused /\ more[1] = result
      /\ \A i \in 2..Len(more) : more[i] = "PERMANENT"
  <2> DEFINE tail == [i \in 1..Refused |-> "PERMANENT"]
  <2>1. tail \in Seq(Outcomes) /\ Len(tail) = Refused
    BY <1>1, <1>4, SeqDef
  <2>2. \A i \in 1..Refused : tail[i] = "PERMANENT"
    OBVIOUS
  <2> HIDE DEF tail
  <2>3. <<result>> \in Seq(Outcomes) /\ Len(<<result>>) = 1
    BY <1>4
  <2> QED BY <1>1, <2>1, <2>2, <2>3 DEF tail
<1>6. (breakOnError => cut \/ methodListPos + 1 + Refused = methodListLen) /\ cut \in BOOLEAN
  BY <1>1, <1>2
<1>7. /\ Calling /\ Counted /\ UNCHANGED <<request, yields>>
      /\ outcomes' = Append(outcomes, result)
      /\ Proceed(size, more, Refused, cut)
  BY DEF MethodError
<1> HIDE DEF size, more, cut
<1> QED BY <1>1, <1>2, <1>3, <1>4, <1>5, <1>6, <1>7, ProceedInv

-----------------------------------------------------------------------------
(* The theorems *)

\* The request the server works for, or worked for last, is one of those delivered.
Delivered == counter <= requests

LEMMA NextInv ==
    IInv /\ Delivered /\ ShortOnlyIfFull /\ [Next]_vars
        => (IInv /\ Delivered /\ ShortOnlyIfFull)'
<1> SUFFICES ASSUME IInv, Delivered, ShortOnlyIfFull, [Next]_vars
             PROVE  (IInv /\ Delivered /\ ShortOnlyIfFull)'
  OBVIOUS
<1>1. CASE Deliver
  <2>1. PICK tag \in Tags, size \in ListSizes, wellFormed \in BOOLEAN, max \in OutMaxes :
               ServerInput(tag, size, wellFormed, max, requests + 1)
    BY <1>1 DEF Deliver
  <2>2. requests \in Nat /\ requests + 1 \in Nat /\ counter \in Nat /\ size \in Nat /\ max \in Nat
    BY ServerAssumption DEF IInv, TypeOK
  <2>3. IInv'
    BY <2>1, <2>2, InputInv
  <2>4. /\ requests' = requests + 1 /\ results' = <<>>
        /\ \/ counter' = requests + 1 /\ state' = "BEGIN"
           \/ counter' = counter
    BY <2>1 DEF ServerInput
  <2> QED BY <2>2, <2>3, <2>4 DEF Delivered, ShortOnlyIfFull
<1>2. CASE ~Deliver /\ Next
  <2>1. IInv' /\ ShortOnlyIfFull'
    BY <1>2, BeginInv, ResumeInv, NoRoomInv, SuccessInv, ErrorInv, BufferInv, YieldInv
    DEF Next, Return
  <2>2. UNCHANGED request
    BY <1>2 DEF Next, Return, Begin, ServerResume, NoRoom, MethodSuccess, MethodError,
                MethodBuffer, MethodYield
  <2> QED BY <2>1, <2>2 DEF Delivered, request
<1>3. CASE UNCHANGED vars
  BY <1>3 DEF vars, IInv, TypeOK, Flow, CalledInOrder, StopsAtError, SilentIfUnconfirmed,
              Reported, ResultsAreOutcomes, ShortOnlyIfFull, Delivered
<1> QED BY <1>1, <1>2, <1>3

LEMMA Invariance == Spec => [](IInv /\ ShortOnlyIfFull)
<1>1. Init => IInv /\ Delivered /\ ShortOnlyIfFull
  BY InitInv DEF Init, Delivered, ShortOnlyIfFull
<1> QED BY <1>1, NextInv, PTL DEF Spec

\* Types, and that the loop never runs past the method list.
THEOREM TypeCorrect == Spec => []TypeOK
<1>1. IInv => TypeOK
  BY DEF IInv
<1> QED BY <1>1, Invariance, PTL

\* Nothing is written past the buffer, and no return value over its own length
\* determinant, whatever the sizes of buffer and return value.
THEOREM BufferIsAlwaysEnough == Spec => []BufferIsEnough
<1>1. IInv => BufferIsEnough
  <2> SUFFICES ASSUME IInv PROVE BufferIsEnough
    OBVIOUS
  <2>1. TypeOK /\ outLen <= outMax
    BY DEF IInv, Flow
  <2>2. Calling => HasRoom
    BY DEF Calling
  <2>3. ReturnLens \subseteq Nat
    BY ServerAssumption
  <2> QED BY <2>1, <2>2, <2>3, ReturnFits DEF BufferIsEnough
<1> QED BY <1>1, Invariance, PTL

\* The i-th result tells what the i-th method did, for every request with response.
THEOREM ResultsAreAlwaysOutcomes == Spec => []ResultsAreOutcomes
<1>1. IInv => ResultsAreOutcomes
  BY DEF IInv
<1> QED BY <1>1, Invariance, PTL

\* Nothing is called after a failed method of a request that stops at errors.
THEOREM AlwaysStopsAtError == Spec => []StopsAtError
<1>1. IInv => StopsAtError
  BY DEF IInv
<1> QED BY <1>1, Invariance, PTL

\* Methods are called in order, and first called once, however often they yield.
THEOREM AlwaysCalledInOrder == Spec => []CalledInOrder
<1>1. IInv => CalledInOrder
  BY DEF IInv
<1> QED BY <1>1, Invariance, PTL

\* No byte of response is left for a request that asked for none.
THEOREM AlwaysSilent == Spec => []SilentIfUnconfirmed
<1>1. IInv => SilentIfUnconfirmed
  BY DEF IInv
<1> QED BY <1>1, Invariance, PTL

\* A response is short only if the next result would not have fitted.
THEOREM ShortOnlyWhenFull == Spec => []ShortOnlyIfFull
  BY Invariance, PTL
=============================================================================
