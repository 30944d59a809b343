------------------------- MODULE AssociationProofs --------------------------
(***************************************************************************)
(* Theorems about Association for every number of entities, groups and     *)
(* records, every window and every counter limit, records being created    *)
(* and deleted at any time, but no copy of one written back while messages *)
(* are processed (~Concurrent): types, unique initialisation vectors, at   *)
(* most one acceptance of a datagram, and that Association implements      *)
(* AtMostOnce.                                                             *)
(***************************************************************************)
EXTENDS Association, Integers, WellFoundedInduction, TLAPS

-----------------------------------------------------------------------------
(* The window *)

LEMMA LeastExists ==
    ASSUME NEW S \in SUBSET Nat, S # {}
    PROVE  Least(S) \in S /\ \A y \in S : Least(S) <= y
<1> DEFINE R == OpToRel(<, Nat)
<1>1. \A x, y \in Nat : x < y => <<x, y>> \in R
  BY DEF OpToRel
<1>2. IsWellFoundedOn(R, Nat)
  BY NatLessThanWellFounded
<1> HIDE DEF R
<1>3. PICK x \in S : \A y \in S : ~(<<y, x>> \in R)
  BY <1>2, WFMin
<1>4. \A y \in S : ~(y < x)
  BY <1>1, <1>3
<1>5. \A y \in S : x <= y
  BY <1>4
<1> QED BY <1>5 DEF Least

\* Adding an accepted counter refuses it from then on, and refuses again all that
\* was refused before, whichever counter had to make room.
LEMMA AddedRefuses ==
    ASSUME NEW seen \in SUBSET Counters, NEW window, NEW c \in Counters, Acceptable(seen, c)
    PROVE  /\ Added(seen, window, c) \in SUBSET Counters
           /\ ~Acceptable(Added(seen, window, c), c)
           /\ \A x \in Counters : ~Acceptable(seen, x) => ~Acceptable(Added(seen, window, c), x)
<1> DEFINE after == Added(seen, window, c)
<1>1. after \subseteq seen \cup {c} /\ c \in after /\ Counters \subseteq Nat
  BY AssociationAssumption DEF Added, Counters
<1>2. after \in SUBSET Nat /\ after # {}
  BY <1>1
<1>3. Least(after) \in after /\ \A y \in after : Least(after) <= y
  BY <1>2, LeastExists
<1>4. ~Acceptable(after, c)
  BY <1>1 DEF Acceptable
<1>5. CASE seen = {}
  BY <1>1, <1>4, <1>5 DEF Acceptable
<1>6. CASE seen # {}
  <2>1. Least(seen) \in seen /\ \A y \in seen : Least(seen) <= y
    BY <1>1, <1>6, LeastExists
  <2>2. seen \ {Least(seen)} \subseteq after
    BY DEF Added
  <2>3. Least(seen) <= Least(after)
    <3>1. Least(after) \in seen \/ Least(after) = c
      BY <1>1, <1>3
    <3>2. Least(seen) < c
      BY <1>6 DEF Acceptable
    <3>3. Least(seen) \in Nat /\ c \in Nat
      BY <1>1, <2>1
    <3>4. CASE Least(after) = c
      BY <3>2, <3>3, <3>4
    <3> QED BY <2>1, <3>1, <3>4
  <2>4. ASSUME NEW x \in Counters, ~Acceptable(seen, x) PROVE ~Acceptable(after, x)
    <3>1. x \in seen \/ ~(Least(seen) < x)
      BY <1>6, <2>4 DEF Acceptable
    <3>2. x \in after \/ ~(Least(after) < x)
      <4>1. Least(seen) \in Nat /\ Least(after) \in Nat /\ x \in Nat
        BY <1>1, <1>2, <1>3, <2>1
      <4>2. CASE x \in seen /\ x # Least(seen)
        BY <2>2, <4>2
      <4>3. CASE ~(Least(seen) < x)
        BY <2>3, <4>1, <4>3
      <4> QED BY <3>1, <4>1, <4>2, <4>3
    <3> QED BY <1>2, <3>2 DEF Acceptable
  <2> QED BY <1>1, <1>4, <2>4
<1> QED BY <1>5, <1>6

-----------------------------------------------------------------------------
(* The type invariant *)

LEMMA InitType == Init => TypeOK
  BY AssociationAssumption DEF Init, TypeOK

LEMMA OutputCounterType ==
    ASSUME TypeOK, NEW e \in Senders, NEW to \in Addresses, OutputCounter(e, to)
    PROVE  TypeOK'
<1> DEFINE k == OutKey(e, to)
           n == record[k].invocationCounter + 1
<1>1. k \in stored /\ k \in Keys /\ e \in Entities /\ record[k] \in Rows
  BY AssociationAssumption DEF OutputCounter, TypeOK
<1>2. n \in 0..MAX_COUNTER /\ n \in Counters
  BY <1>1, AssociationAssumption DEF OutputCounter, Rows, Counters
<1>3. /\ record' = [record EXCEPT ![k].invocationCounter = n]
      /\ reserved' = [reserved EXCEPT ![e] = {[to |-> to, gen |-> record[k].gen, counter |-> n]}]
      /\ UNCHANGED <<stored, copy, decrypted, sent, taken>>
  BY DEF OutputCounter
<1> HIDE DEF n, k
<1>4. [record[k] EXCEPT !.invocationCounter = n] \in Rows /\ record[k].gen \in 1..MaxGen
  BY <1>1, <1>2 DEF Rows
<1>5. record' = [record EXCEPT ![k] = [record[k] EXCEPT !.invocationCounter = n]]
  BY <1>3, <1>1 DEF TypeOK
<1> QED BY <1>1, <1>2, <1>3, <1>4, <1>5 DEF TypeOK, sent, taken

LEMMA EncryptType ==
    ASSUME TypeOK, NEW e \in Entities, Encrypt(e)
    PROVE  TypeOK'
<1>1. PICK r \in reserved[e] :
        LET k == OutKey(e, r.to)
            d == [from |-> e, to |-> r.to, gen |-> record[k].gen, counter |-> r.counter]
        IN  IF k \in stored
            THEN /\ encrypted' = encrypted \cup {d}
                 /\ reused' = reused \cup ({d} \cap encrypted)
                 /\ crossed' = IF r.gen = record[k].gen THEN crossed ELSE crossed \cup {d}
            ELSE UNCHANGED sent
  BY DEF Encrypt
<1> DEFINE k == OutKey(e, r.to)
           d == [from |-> e, to |-> r.to, gen |-> record[k].gen, counter |-> r.counter]
<1>2. k \in stored => d \in Datagrams
  <2>1. r.to \in Addresses /\ r.counter \in Counters
    BY DEF TypeOK
  <2>2. k \in stored => record[k].gen \in 1..MaxGen
    BY DEF TypeOK, Rows
  <2> QED BY <2>1, <2>2 DEF Datagrams
<1>3. (reused \subseteq encrypted /\ encrypted \subseteq Datagrams)'
  BY <1>1, <1>2 DEF TypeOK, sent
<1>4. (crossed \subseteq encrypted)'
  BY <1>1, <1>2 DEF TypeOK, sent
<1> QED BY <1>3, <1>4 DEF Encrypt, TypeOK, taken

LEMMA InputCounterType ==
    ASSUME TypeOK, NEW e \in Entities, InputCounter(e)
    PROVE  TypeOK'
<1>1. PICK d \in decrypted[e] :
        LET k == InKey(e, d)
            r == record[k]
        IN  IF k \in stored /\ Acceptable(r.remoteInvocationCounter, d.counter)
            THEN /\ accepted' = [accepted EXCEPT ![e] = @ \cup {d}]
                 /\ repeated' = [repeated EXCEPT ![e] = @ \cup ({d} \cap accepted[e])]
                 /\ late' = [late EXCEPT ![e] = IF d.gen = r.gen THEN @ ELSE @ \cup {d}]
                 /\ record' = IF k[2] = k[1]
                       THEN [record EXCEPT ![k].remoteInvocationCounter =
                                Added(r.remoteInvocationCounter, r.window, d.counter)]
                       ELSE record
            ELSE UNCHANGED <<taken, record>>
  BY DEF InputCounter
<1> DEFINE k == InKey(e, d)
           r == record[k]
           after == Added(r.remoteInvocationCounter, r.window, d.counter)
<1>2. d \in Datagrams /\ d.counter \in Counters
  BY DEF TypeOK, Datagrams
<1>3. UNCHANGED <<stored, copy, reserved, encrypted, reused, crossed>>
      /\ decrypted' = [decrypted EXCEPT ![e] = {}]
  BY DEF InputCounter, sent
<1>4. CASE k \in stored /\ Acceptable(r.remoteInvocationCounter, d.counter)
  <2>1. r \in Rows /\ r.remoteInvocationCounter \in SUBSET Counters /\ k \in Keys
    BY <1>4 DEF TypeOK, Rows
  <2>2. after \in SUBSET Counters
    BY <1>2, <1>4, <2>1, AddedRefuses
  <2> HIDE DEF after
  <2>3. [r EXCEPT !.remoteInvocationCounter = after] \in Rows
    BY <2>1, <2>2 DEF Rows
  <2>4. record' = [record EXCEPT ![k] = [r EXCEPT !.remoteInvocationCounter = after]] \/ record' = record
    BY <1>1, <1>4, <2>1 DEF TypeOK, after
  <2>5. /\ accepted' = [accepted EXCEPT ![e] = @ \cup {d}]
        /\ repeated' = [repeated EXCEPT ![e] = @ \cup ({d} \cap accepted[e])]
        /\ late' = [late EXCEPT ![e] = IF d.gen = r.gen THEN @ ELSE @ \cup {d}]
    BY <1>1, <1>4
  <2>6. record' \in [Keys -> Rows \cup {NoRow}] /\ \A x \in stored : record'[x] \in Rows
    BY <2>1, <2>3, <2>4 DEF TypeOK
  <2> QED BY <1>2, <1>3, <2>5, <2>6 DEF TypeOK
<1>5. CASE ~(k \in stored /\ Acceptable(r.remoteInvocationCounter, d.counter))
  <2>1. UNCHANGED <<accepted, repeated, late, record>>
    BY <1>1, <1>5 DEF taken
  <2> QED BY <1>3, <2>1 DEF TypeOK
<1> QED BY <1>4, <1>5

LEMMA NextType == TypeOK /\ [Next]_vars => TypeOK'
<1> SUFFICES ASSUME TypeOK, [Next]_vars PROVE TypeOK'
  OBVIOUS
<1>1. ASSUME NEW k \in Keys, NEW w \in Windows[k[1]], Create(k, w) PROVE TypeOK'
  <2>1. w \in Nat
    BY AssociationAssumption
  <2>2. [gen |-> record[k].gen + 1, window |-> w, remoteInvocationCounter |-> {},
         invocationCounter |-> 0] \in Rows
    BY <1>1, <2>1, AssociationAssumption DEF Create, TypeOK, Rows, NoRow
  <2> QED BY <1>1, <2>2 DEF Create, TypeOK, sent, taken
<1>2. ASSUME NEW k \in Keys, NEW w \in Windows[k[1]], Update(k, w) PROVE TypeOK'
  <2>1. PICK x \in copy[k] : record' = [record EXCEPT ![k] = [x EXCEPT !.window = w]]
    BY <1>2 DEF Update
  <2>2. w \in Nat
    BY AssociationAssumption
  <2>3. [x EXCEPT !.window = w] \in Rows
    BY <2>2 DEF TypeOK, Rows
  <2> QED BY <1>2, <2>1, <2>3 DEF Update, TypeOK, sent, taken
<1>3. ASSUME NEW k \in Keys, Delete(k) PROVE TypeOK'
  BY <1>3 DEF Delete, TypeOK, sent, taken
<1>4. ASSUME NEW k \in Keys, Read(k) PROVE TypeOK'
  BY <1>4 DEF Read, TypeOK, sent, taken
<1>5. ASSUME NEW e \in Senders, NEW to \in Addresses, OutputCounter(e, to) PROVE TypeOK'
  BY <1>5, OutputCounterType
<1>6. ASSUME NEW e \in Entities, NEW d \in Datagrams, Decrypt(e, d) PROVE TypeOK'
  BY <1>6 DEF Decrypt, TypeOK, sent, taken
<1>7. ASSUME NEW e \in Entities, Encrypt(e) PROVE TypeOK'
  BY <1>7, EncryptType
<1>8. ASSUME NEW e \in Entities, InputCounter(e) PROVE TypeOK'
  BY <1>8, InputCounterType
<1>9. ASSUME NEW e \in Entities, Crash(e) PROVE TypeOK'
  BY <1>9 DEF Crash, TypeOK, sent, taken
<1>10. CASE UNCHANGED vars
  BY <1>10 DEF vars, TypeOK, sent, taken
<1> QED BY <1>1, <1>2, <1>3, <1>4, <1>5, <1>6, <1>7, <1>8, <1>9, <1>10 DEF Next

\* Every variable keeps its type; with it, a record that exists was created, and
\* no invocation counter passes the limit. Holds for concurrent administration too.
THEOREM TypeCorrect == Spec => []TypeOK
  BY InitType, NextType, PTL DEF Spec

-----------------------------------------------------------------------------
(* Counters of datagrams sent *)

\* A record's invocation counter bounds the counters used under its present secret
\* that were taken from it; a counter taken from it and not used yet is one of them,
\* and unused unless one of an older record met it.
SendInv ==
    /\ reused \subseteq crossed
    /\ \A d \in encrypted :
          LET k == OutKey(d.from, d.to)
          IN  /\ k \in Keys /\ d.gen <= record[k].gen
              /\ d.gen = record[k].gen /\ d \notin crossed => d.counter <= record[k].invocationCounter
    /\ \A e \in Entities : \A r \in reserved[e] :
          LET k == OutKey(e, r.to)
          IN  /\ k \in Keys /\ r.gen <= record[k].gen
              /\ r.gen = record[k].gen => r.counter <= record[k].invocationCounter
              /\ r.gen = record[k].gen =>
                    [from |-> e, to |-> r.to, gen |-> r.gen, counter |-> r.counter]
                        \notin encrypted \ crossed

LEMMA InitSend == Init => SendInv
  BY DEF Init, SendInv

\* A record changes only by what keeps its generation and counter, or by being
\* created anew; then what was sent, or is yet to be, with a counter of the old one no
\* longer counts.
LEMMA SendKept ==
    ASSUME TypeOK, TypeOK', SendInv,
           UNCHANGED <<encrypted, reused, crossed, reserved>>,
           \A k \in Keys :
              \/ /\ record'[k].gen = record[k].gen
                 /\ record'[k].invocationCounter = record[k].invocationCounter
              \/ record'[k].gen = record[k].gen + 1
    PROVE  SendInv'
<1>1. \A k \in Keys : record[k].gen \in Nat /\ record'[k].gen \in Nat
  <2>1. \A x \in Rows \cup {NoRow} : x.gen \in Nat
    BY DEF Rows, NoRow
  <2> QED BY <2>1 DEF TypeOK
<1>2. ASSUME NEW d \in encrypted
      PROVE  LET k == OutKey(d.from, d.to)
             IN  /\ k \in Keys /\ d.gen <= record'[k].gen
                 /\ d.gen = record'[k].gen /\ d \notin crossed =>
                       d.counter <= record'[k].invocationCounter
  <2> DEFINE k == OutKey(d.from, d.to)
  <2>1. /\ k \in Keys /\ d.gen <= record[k].gen
        /\ d.gen = record[k].gen /\ d \notin crossed => d.counter <= record[k].invocationCounter
    BY DEF SendInv
  <2>2. d.gen \in Nat
    BY DEF TypeOK, Datagrams
  <2> HIDE DEF k
  <2>3. record[k].gen \in Nat /\ record'[k].gen \in Nat
    BY <1>1, <2>1
  <2>4. \/ /\ record'[k].gen = record[k].gen
           /\ record'[k].invocationCounter = record[k].invocationCounter
        \/ record'[k].gen = record[k].gen + 1
    BY <2>1
  <2>5. CASE /\ record'[k].gen = record[k].gen
             /\ record'[k].invocationCounter = record[k].invocationCounter
    BY <2>1, <2>5 DEF k
  <2>6. CASE record'[k].gen = record[k].gen + 1
    <3>1. d.gen <= record'[k].gen /\ d.gen # record'[k].gen
      BY <2>1, <2>2, <2>3, <2>6
    <3> QED BY <2>1, <3>1 DEF k
  <2> QED BY <2>4, <2>5, <2>6
<1>3. ASSUME NEW e \in Entities, NEW r \in reserved[e]
      PROVE  LET k == OutKey(e, r.to)
             IN  /\ k \in Keys /\ r.gen <= record'[k].gen
                 /\ r.gen = record'[k].gen => /\ r.gen = record[k].gen
                                             /\ r.counter <= record'[k].invocationCounter
  <2> DEFINE k == OutKey(e, r.to)
  <2>1. /\ k \in Keys /\ r.gen <= record[k].gen
        /\ r.gen = record[k].gen => r.counter <= record[k].invocationCounter
    BY DEF SendInv
  <2>2. r.gen \in Nat
    BY DEF TypeOK
  <2> HIDE DEF k
  <2>3. record[k].gen \in Nat /\ record'[k].gen \in Nat
    BY <1>1, <2>1
  <2>4. CASE /\ record'[k].gen = record[k].gen
             /\ record'[k].invocationCounter = record[k].invocationCounter
    BY <2>1, <2>4 DEF k
  <2>5. CASE record'[k].gen = record[k].gen + 1
    <3>1. r.gen <= record'[k].gen /\ r.gen # record'[k].gen
      BY <2>1, <2>2, <2>3, <2>5
    <3> QED BY <2>1, <3>1 DEF k
  <2> QED BY <2>1, <2>4, <2>5
<1> QED BY <1>2, <1>3 DEF SendInv

LEMMA NextSend ==
    ASSUME ~Concurrent, TypeOK, TypeOK', SendInv, [Next]_vars
    PROVE  SendInv'
<1>1. ASSUME NEW k \in Keys, NEW w \in Windows[k[1]], Create(k, w) PROVE SendInv'
  <2>1. UNCHANGED <<encrypted, reused, crossed, reserved>>
    BY <1>1 DEF Create, sent
  <2>2. \A x \in Keys \ {k} : record'[x] = record[x]
    BY <1>1 DEF Create, TypeOK
  <2>3. record'[k].gen = record[k].gen + 1
    BY <1>1 DEF Create, TypeOK
  <2> QED BY <2>1, <2>2, <2>3, SendKept
<1>2. ASSUME NEW k \in Keys, NEW w \in Windows[k[1]], Update(k, w) PROVE SendInv'
  <2>1. record' = [record EXCEPT ![k] = [record[k] EXCEPT !.window = w]]
    BY <1>2 DEF Update
  <2>2. record[k] \in Rows
    BY <1>2 DEF Update, TypeOK
  <2>3. [record[k] EXCEPT !.window = w].gen = record[k].gen
        /\ [record[k] EXCEPT !.window = w].invocationCounter = record[k].invocationCounter
    BY <2>2 DEF Rows
  <2>4. \A x \in Keys : record'[x].gen = record[x].gen
                        /\ record'[x].invocationCounter = record[x].invocationCounter
    BY <2>1, <2>3 DEF TypeOK
  <2>5. UNCHANGED <<encrypted, reused, crossed, reserved>>
    BY <1>2 DEF Update, sent
  <2> QED BY <2>4, <2>5, SendKept
<1>3. ASSUME NEW k \in Keys, Delete(k) PROVE SendInv'
  BY <1>3, SendKept DEF Delete, sent
<1>4. ASSUME NEW k \in Keys, Read(k) PROVE SendInv'
  BY <1>4, SendKept DEF Read, sent
<1>5. ASSUME NEW e \in Senders, NEW to \in Addresses, OutputCounter(e, to) PROVE SendInv'
  <2> DEFINE k == OutKey(e, to)
             n == record[k].invocationCounter + 1
             after == [from |-> e, to |-> to, gen |-> record[k].gen, counter |-> n]
  <2>1. k \in stored /\ k \in Keys /\ e \in Entities /\ record[k] \in Rows
    BY <1>5, AssociationAssumption DEF OutputCounter, TypeOK
  <2>2. record[k].invocationCounter \in Nat
    BY <2>1, AssociationAssumption DEF Rows
  <2>3. /\ record' = [record EXCEPT ![k].invocationCounter = n]
        /\ reserved' = [reserved EXCEPT ![e] = {[to |-> to, gen |-> record[k].gen, counter |-> n]}]
        /\ UNCHANGED <<encrypted, reused, crossed>>
    BY <1>5 DEF OutputCounter, sent
  <2>4. after \notin encrypted \ crossed
    <3>1. ASSUME after \in encrypted \ crossed PROVE FALSE
      <4>1. after.from = e /\ after.to = to /\ after.gen = record[k].gen /\ after.counter = n
        OBVIOUS
      <4>2. after.counter <= record[k].invocationCounter
        BY <3>1, <4>1 DEF SendInv
      <4> QED BY <2>2, <4>1, <4>2
    <3> QED BY <3>1
  <2>5. /\ \A x \in Keys : record'[x].gen = record[x].gen
        /\ \A x \in Keys \ {k} : record'[x] = record[x]
        /\ record'[k].invocationCounter = n
    BY <2>1, <2>3 DEF TypeOK, Rows, NoRow
  <2>6. ASSUME NEW d \in encrypted
        PROVE  LET x == OutKey(d.from, d.to)
               IN  /\ x \in Keys /\ d.gen <= record'[x].gen
                   /\ d.gen = record'[x].gen /\ d \notin crossed =>
                         d.counter <= record'[x].invocationCounter
    <3> DEFINE x == OutKey(d.from, d.to)
    <3>1. /\ x \in Keys /\ d.gen <= record[x].gen
          /\ d.gen = record[x].gen /\ d \notin crossed => d.counter <= record[x].invocationCounter
      BY DEF SendInv
    <3>2. d.counter \in Nat
      BY DEF TypeOK, Datagrams, Counters
    <3> HIDE DEF x, k
    <3>3. /\ d.gen <= record'[x].gen
          /\ d.gen = record'[x].gen /\ d \notin crossed => d.counter <= record'[x].invocationCounter
      BY <2>2, <2>5, <3>1, <3>2
    <3> QED BY <3>1, <3>3 DEF x
  <2>7. ASSUME NEW f \in Entities, NEW r \in reserved'[f]
        PROVE  LET x == OutKey(f, r.to)
               IN  /\ x \in Keys /\ r.gen <= record'[x].gen
                   /\ r.gen = record'[x].gen => r.counter <= record'[x].invocationCounter
                   /\ r.gen = record'[x].gen =>
                         [from |-> f, to |-> r.to, gen |-> r.gen, counter |-> r.counter]
                             \notin encrypted \ crossed
    <3>1. CASE f = e
      <4>1. r = [to |-> to, gen |-> record[k].gen, counter |-> n]
        BY <2>1, <2>3, <3>1 DEF TypeOK
      <4>2. r.to = to /\ r.gen = record[k].gen /\ r.counter = n /\ OutKey(f, r.to) = k
        BY <3>1, <4>1
      <4>3. record[k].gen \in Nat
        BY <2>1 DEF Rows
      <4>4. r.gen <= record'[k].gen /\ r.counter <= record'[k].invocationCounter
        BY <2>1, <2>2, <2>5, <4>2, <4>3
      <4> QED BY <2>1, <2>4, <3>1, <4>2, <4>4
    <3>2. CASE f # e
      <4>1. r \in reserved[f]
        BY <2>3, <3>2 DEF TypeOK
      <4>2. OutKey(f, r.to) \in Keys /\ OutKey(f, r.to) # k
        BY <3>2, <4>1 DEF SendInv, OutKey
      <4> QED BY <2>5, <4>1, <4>2 DEF SendInv
    <3> QED BY <3>1, <3>2
  <2> QED BY <2>3, <2>6, <2>7 DEF SendInv
<1>6. ASSUME NEW e \in Entities, NEW d \in Datagrams, Decrypt(e, d) PROVE SendInv'
  BY <1>6, SendKept DEF Decrypt, sent
<1>7. ASSUME NEW e \in Entities, Encrypt(e) PROVE SendInv'
  <2>1. PICK r \in reserved[e] :
          LET k == OutKey(e, r.to)
              d == [from |-> e, to |-> r.to, gen |-> record[k].gen, counter |-> r.counter]
          IN  IF k \in stored
              THEN /\ encrypted' = encrypted \cup {d}
                   /\ reused' = reused \cup ({d} \cap encrypted)
                   /\ crossed' = IF r.gen = record[k].gen THEN crossed ELSE crossed \cup {d}
              ELSE UNCHANGED sent
    BY <1>7 DEF Encrypt
  <2> DEFINE k == OutKey(e, r.to)
             d == [from |-> e, to |-> r.to, gen |-> record[k].gen, counter |-> r.counter]
  <2>2. record' = record /\ reserved' = [reserved EXCEPT ![e] = {}]
    BY <1>7 DEF Encrypt
  <2>3. \A f \in Entities : f # e => reserved'[f] = reserved[f]
    BY <2>2 DEF TypeOK
  <2>4. reserved'[e] = {}
    BY <2>2 DEF TypeOK
  <2>5. CASE k \notin stored
    <3>1. UNCHANGED <<encrypted, reused, crossed>>
      BY <2>1, <2>5 DEF sent
    <3> QED BY <2>2, <2>3, <2>4, <3>1 DEF SendInv
  <2>6. CASE k \in stored
    <3>1. /\ d.from = e /\ d.to = r.to /\ d.gen = record[k].gen /\ d.counter = r.counter
          /\ record[k].gen \in Nat /\ k \in Keys
      BY <2>6 DEF TypeOK, Rows
    <3>2. /\ encrypted' = encrypted \cup {d} /\ reused' = reused \cup ({d} \cap encrypted)
          /\ crossed' = IF r.gen = record[k].gen THEN crossed ELSE crossed \cup {d}
      BY <2>1, <2>6
    <3>3. r.gen = record[k].gen => d \notin encrypted \ crossed /\ d.counter <= record[k].invocationCounter
      BY DEF SendInv
    <3> HIDE DEF d
    <3>4. reused' \subseteq crossed' /\ crossed \subseteq crossed'
      BY <3>2, <3>3 DEF SendInv
    <3>5. \A x \in encrypted' :
            LET y == OutKey(x.from, x.to)
            IN  /\ y \in Keys /\ x.gen <= record[y].gen
                /\ x.gen = record[y].gen /\ x \notin crossed' => x.counter <= record[y].invocationCounter
      <4>1. d.gen <= record[k].gen /\ OutKey(d.from, d.to) = k
        BY <3>1
      <4>2. d \notin crossed' => d.counter <= record[k].invocationCounter
        BY <3>2, <3>3
      <4>3. \A x \in encrypted : x \notin crossed' => x \notin crossed
        BY <3>4
      <4> HIDE DEF k
      <4> QED BY <3>1, <3>2, <4>1, <4>2, <4>3 DEF SendInv
    <3>6. ASSUME NEW f \in Entities, NEW q \in reserved'[f]
          PROVE  LET y == OutKey(f, q.to)
                 IN  /\ y \in Keys /\ q.gen <= record[y].gen
                     /\ q.gen = record[y].gen => q.counter <= record[y].invocationCounter
                     /\ q.gen = record[y].gen =>
                           [from |-> f, to |-> q.to, gen |-> q.gen, counter |-> q.counter]
                               \notin encrypted' \ crossed'
      <4>1. f # e /\ q \in reserved[f]
        BY <2>3, <2>4
      <4>2. d # [from |-> f, to |-> q.to, gen |-> q.gen, counter |-> q.counter]
        BY <3>1, <4>1
      <4> QED BY <3>2, <3>4, <4>1, <4>2 DEF SendInv
    <3> QED BY <2>2, <3>4, <3>5, <3>6 DEF SendInv
  <2> QED BY <2>5, <2>6
<1>8. ASSUME NEW e \in Entities, InputCounter(e) PROVE SendInv'
  <2>1. UNCHANGED <<encrypted, reused, crossed, reserved>>
    BY <1>8 DEF InputCounter, sent
  <2>2. \A x \in Keys : record'[x].gen = record[x].gen
                        /\ record'[x].invocationCounter = record[x].invocationCounter
    <3>1. \/ record' = record
          \/ \E k \in stored : \E after : record' = [record EXCEPT ![k].remoteInvocationCounter = after]
      BY <1>8 DEF InputCounter
    <3> QED BY <3>1 DEF TypeOK, Rows, NoRow
  <2> QED BY <2>1, <2>2, SendKept
<1>9. ASSUME NEW e \in Entities, Crash(e) PROVE SendInv'
  <2>1. UNCHANGED <<record, encrypted, reused, crossed>> /\ reserved' = [reserved EXCEPT ![e] = {}]
    BY <1>9 DEF Crash, sent
  <2>2. \A f \in Entities : reserved'[f] \subseteq reserved[f]
    BY <2>1 DEF TypeOK
  <2> QED BY <2>1, <2>2 DEF SendInv
<1>10. CASE UNCHANGED vars
  BY <1>10 DEF vars, sent, SendInv
<1> QED BY <1>1, <1>2, <1>3, <1>4, <1>5, <1>6, <1>7, <1>8, <1>9, <1>10 DEF Next

-----------------------------------------------------------------------------
(* Counters of datagrams received *)

\* What was accepted under the present secret of a record whose local address is
\* the entity is refused by its window, so that it cannot be accepted again, unless it
\* met a later record than the one it decrypted under.
TakeInv ==
    /\ \A e \in Entities : \A d \in decrypted[e] :
          LET k == InKey(e, d)
          IN  d \in encrypted /\ k \in Keys /\ d.gen <= record[k].gen
    /\ \A e \in Entities : \A d \in accepted[e] :
          LET k == InKey(e, d)
          IN  /\ d \in encrypted /\ k \in Keys /\ d.gen <= record[k].gen
              /\ d.to = e /\ d \notin late[e] /\ d.gen = record[k].gen =>
                    ~Acceptable(record[k].remoteInvocationCounter, d.counter)
    /\ AcceptedOnce
    /\ WindowIsGenuine

LEMMA InitTake == Init => TakeInv
  BY DEF Init, TakeInv, AcceptedOnce, WindowIsGenuine

\* A record keeps its generation and window, or is created anew with none.
LEMMA TakeKept ==
    ASSUME TypeOK, TypeOK', TakeInv,
           UNCHANGED <<decrypted, accepted, repeated, late>>,
           encrypted \subseteq encrypted',
           \A k \in Keys :
              \/ /\ record'[k].gen = record[k].gen
                 /\ record'[k].remoteInvocationCounter = record[k].remoteInvocationCounter
                 /\ k \in stored' => k \in stored
              \/ /\ record'[k].gen = record[k].gen + 1
                 /\ record'[k].remoteInvocationCounter = {}
    PROVE  TakeInv'
<1>1. \A k \in Keys : record[k].gen \in Nat /\ record'[k].gen \in Nat
  <2>1. \A x \in Rows \cup {NoRow} : x.gen \in Nat
    BY DEF Rows, NoRow
  <2> QED BY <2>1 DEF TypeOK
<1>2. ASSUME NEW k \in Keys, NEW n \in Nat, n <= record[k].gen
      PROVE  n <= record'[k].gen /\ (n = record'[k].gen => record'[k].gen = record[k].gen)
  <2>1. record[k].gen \in Nat /\ record'[k].gen \in Nat
    BY <1>1
  <2>2. record'[k].gen = record[k].gen \/ record'[k].gen = record[k].gen + 1
    OBVIOUS
  <2> QED BY <1>2, <2>1, <2>2
<1>3. ASSUME NEW e \in Entities, NEW d \in decrypted[e]
      PROVE  LET k == InKey(e, d)
             IN  d \in encrypted' /\ k \in Keys /\ d.gen <= record'[k].gen
  <2> DEFINE k == InKey(e, d)
  <2>1. d \in encrypted /\ k \in Keys /\ d.gen <= record[k].gen
    BY DEF TakeInv
  <2>2. d.gen \in Nat
    BY DEF TypeOK, Datagrams
  <2> QED BY <1>2, <2>1, <2>2
<1>4. ASSUME NEW e \in Entities, NEW d \in accepted[e]
      PROVE  LET k == InKey(e, d)
             IN  /\ d \in encrypted' /\ k \in Keys /\ d.gen <= record'[k].gen
                 /\ d.to = e /\ d \notin late[e] /\ d.gen = record'[k].gen =>
                       ~Acceptable(record'[k].remoteInvocationCounter, d.counter)
  <2> DEFINE k == InKey(e, d)
  <2>1. /\ d \in encrypted /\ k \in Keys /\ d.gen <= record[k].gen
        /\ d.to = e /\ d \notin late[e] /\ d.gen = record[k].gen =>
              ~Acceptable(record[k].remoteInvocationCounter, d.counter)
    BY DEF TakeInv
  <2>2. d.gen \in Nat
    BY DEF TypeOK, Datagrams
  <2>3. record[k].gen \in Nat /\ record'[k].gen \in Nat
    BY <1>1, <2>1
  <2>4. d.gen <= record'[k].gen
    BY <1>2, <2>1, <2>2
  <2>5. d.gen = record'[k].gen => record'[k].gen = record[k].gen
    BY <1>2, <2>1, <2>2
  <2>6. CASE record'[k].gen = record[k].gen
    <3>1. record[k].gen # record[k].gen + 1
      BY <2>3
    <3>2. record'[k].remoteInvocationCounter = record[k].remoteInvocationCounter
      BY <2>1, <2>6, <3>1
    <3> QED BY <2>1, <2>4, <2>6, <3>2
  <2> QED BY <2>1, <2>4, <2>5, <2>6
<1>5. AcceptedOnce'
  BY DEF TakeInv, AcceptedOnce
<1>6. WindowIsGenuine'
  <2> SUFFICES ASSUME NEW k \in stored', NEW c \in record'[k].remoteInvocationCounter
               PROVE  \/ [from |-> k[3], to |-> k[2], gen |-> record'[k].gen, counter |-> c] \in encrypted'
                      \/ \E d \in late'[k[1]] :
                            InKey(k[1], d) = k /\ d.counter = c /\ d.gen < record'[k].gen
    BY DEF WindowIsGenuine
  <2>1. k \in Keys
    BY DEF TypeOK
  <2>2. /\ k \in stored /\ record'[k].gen = record[k].gen
        /\ record'[k].remoteInvocationCounter = record[k].remoteInvocationCounter
    BY <2>1
  <2> QED BY <2>2 DEF TakeInv, WindowIsGenuine
<1> QED BY <1>3, <1>4, <1>5, <1>6 DEF TakeInv

LEMMA InputCounterTake ==
    ASSUME TypeOK, TypeOK', TakeInv, NEW e \in Entities, InputCounter(e)
    PROVE  TakeInv'
<1>1. PICK d \in decrypted[e] :
        LET k == InKey(e, d)
            r == record[k]
        IN  IF k \in stored /\ Acceptable(r.remoteInvocationCounter, d.counter)
            THEN /\ accepted' = [accepted EXCEPT ![e] = @ \cup {d}]
                 /\ repeated' = [repeated EXCEPT ![e] = @ \cup ({d} \cap accepted[e])]
                 /\ late' = [late EXCEPT ![e] = IF d.gen = r.gen THEN @ ELSE @ \cup {d}]
                 /\ record' = IF k[2] = k[1]
                       THEN [record EXCEPT ![k].remoteInvocationCounter =
                                Added(r.remoteInvocationCounter, r.window, d.counter)]
                       ELSE record
            ELSE UNCHANGED <<taken, record>>
  BY DEF InputCounter
<1> DEFINE k == InKey(e, d)
           seen == record[k].remoteInvocationCounter
           after == Added(seen, record[k].window, d.counter)
<1>2. UNCHANGED <<stored, encrypted>> /\ decrypted' = [decrypted EXCEPT ![e] = {}]
  BY DEF InputCounter, sent
<1>3. \A f \in Entities : decrypted'[f] \subseteq decrypted[f]
  BY <1>2 DEF TypeOK
<1>4. d \in encrypted /\ k \in Keys /\ d.gen <= record[k].gen
  BY DEF TakeInv
<1>5. d \in Datagrams /\ d.counter \in Counters /\ d.gen \in Nat
  BY DEF TypeOK, Datagrams
<1>6. k[1] = e /\ k[2] = d.to /\ k[3] = d.from
  BY DEF InKey
<1>7. CASE ~(k \in stored /\ Acceptable(seen, d.counter))
  <2>1. UNCHANGED <<accepted, repeated, late, record>>
    BY <1>1, <1>7 DEF taken
  <2> QED BY <1>2, <1>3, <2>1 DEF TakeInv, AcceptedOnce, WindowIsGenuine
<1>8. CASE k \in stored /\ Acceptable(seen, d.counter)
  <2>1. /\ accepted' = [accepted EXCEPT ![e] = @ \cup {d}]
        /\ repeated' = [repeated EXCEPT ![e] = @ \cup ({d} \cap accepted[e])]
        /\ record' = IF k[2] = k[1]
                     THEN [record EXCEPT ![k].remoteInvocationCounter = after]
                     ELSE record
    BY <1>1, <1>8
  <2>2. late' = [late EXCEPT ![e] = IF d.gen = record[k].gen THEN @ ELSE @ \cup {d}]
    BY <1>1, <1>8
  <2>3. after \subseteq seen \cup {d.counter} /\ seen \in SUBSET Counters /\ record[k].gen \in Nat
    BY <1>8 DEF Added, TypeOK, Rows
  <2>4. /\ ~Acceptable(after, d.counter)
        /\ \A x \in Counters : ~Acceptable(seen, x) => ~Acceptable(after, x)
    BY <1>5, <1>8, <2>3, AddedRefuses
  <2>5. /\ \A x \in Keys : record'[x].gen = record[x].gen
        /\ \A x \in Keys \ {k} : record'[x] = record[x]
        /\ k[2] = k[1] => record'[k].remoteInvocationCounter = after
        /\ k[2] # k[1] => record'[k].remoteInvocationCounter = seen
    <3>1. record[k] \in Rows
      BY <1>8 DEF TypeOK
    <3> HIDE DEF after
    <3> QED BY <1>4, <2>1, <3>1 DEF TypeOK, Rows
  <2>6. /\ \A f \in Entities : late[f] \subseteq late'[f]
        /\ d.gen # record[k].gen => d \in late'[e]
    BY <2>2 DEF TypeOK
  <2> HIDE DEF after
  <2>7. ASSUME NEW f \in Entities, NEW q \in accepted'[f]
        PROVE  LET y == InKey(f, q)
               IN  /\ q \in encrypted /\ y \in Keys /\ q.gen <= record'[y].gen
                   /\ q.to = f /\ q \notin late'[f] /\ q.gen = record'[y].gen =>
                         ~Acceptable(record'[y].remoteInvocationCounter, q.counter)
    <3> DEFINE y == InKey(f, q)
    <3>1. CASE f = e /\ q = d
      <4>1. y = k
        BY <3>1
      <4>2. d.to = e => ~Acceptable(record'[k].remoteInvocationCounter, d.counter)
        BY <1>6, <2>4, <2>5
      <4> HIDE DEF y, k
      <4>3. d.gen <= record'[k].gen
        BY <1>4, <2>5
      <4> QED BY <1>4, <3>1, <4>1, <4>2, <4>3 DEF y
    <3>2. CASE q \in accepted[f]
      <4>1. /\ q \in encrypted /\ y \in Keys /\ q.gen <= record[y].gen
            /\ q.to = f /\ q \notin late[f] /\ q.gen = record[y].gen =>
                  ~Acceptable(record[y].remoteInvocationCounter, q.counter)
        BY <3>2 DEF TakeInv
      <4>2. q.counter \in Counters
        BY <3>2 DEF TypeOK, Datagrams
      <4> HIDE DEF y, k
      <4>3. record'[y].gen = record[y].gen
        BY <2>5, <4>1
      <4>4. ~Acceptable(record[y].remoteInvocationCounter, q.counter) =>
               ~Acceptable(record'[y].remoteInvocationCounter, q.counter)
        BY <2>4, <2>5, <4>1, <4>2
      <4> QED BY <2>6, <4>1, <4>3, <4>4 DEF y
    <3> QED BY <2>1, <3>1, <3>2 DEF TypeOK
  <2>8. AcceptedOnce'
    <3>1. d \in accepted[e] /\ d.to = e => d \in late'[e]
      BY <1>4, <1>8, <2>6 DEF TakeInv
    <3>2. \A f \in Entities : \A q \in repeated'[f] :
             q \in repeated[f] \/ (f = e /\ q = d /\ d \in accepted[e])
      BY <2>1 DEF TypeOK
    <3> QED BY <2>6, <3>1, <3>2 DEF TakeInv, AcceptedOnce
  <2>9. WindowIsGenuine'
    <3> SUFFICES ASSUME NEW x \in stored, NEW c \in record'[x].remoteInvocationCounter
                 PROVE  \/ [from |-> x[3], to |-> x[2], gen |-> record[x].gen, counter |-> c]
                              \in encrypted
                        \/ \E q \in late'[x[1]] :
                              InKey(x[1], q) = x /\ q.counter = c /\ q.gen < record[x].gen
      <4>1. \A x \in stored : record'[x].gen = record[x].gen
        BY <2>5 DEF TypeOK
      <4> QED BY <1>2, <4>1 DEF WindowIsGenuine
    <3>1. x \in Keys /\ x[1] \in Entities
      BY AssociationAssumption DEF TypeOK
    <3>2. CASE c \in record[x].remoteInvocationCounter
      BY <2>6, <3>1, <3>2 DEF TakeInv, WindowIsGenuine
    <3>3. CASE c \notin record[x].remoteInvocationCounter
      <4>1. x = k /\ c = d.counter
        BY <2>3, <2>5, <3>1, <3>3
      <4>2. CASE d.gen = record[k].gen
        <5>1. d = [from |-> k[3], to |-> k[2], gen |-> record[k].gen, counter |-> c]
          BY <1>5, <1>6, <4>1, <4>2 DEF Datagrams
        <5> QED BY <1>4, <4>1, <5>1
      <4>3. CASE d.gen # record[k].gen
        <5>1. d.gen < record[k].gen
          BY <1>4, <1>5, <2>3, <4>3
        <5>2. d \in late'[x[1]] /\ InKey(x[1], d) = x
          BY <1>6, <2>6, <4>1, <4>3
        <5> QED BY <4>1, <5>1, <5>2
      <4> QED BY <4>2, <4>3
    <3> QED BY <3>2, <3>3
  <2> QED BY <1>2, <1>3, <2>5, <2>7, <2>8, <2>9 DEF TakeInv, TypeOK
<1> QED BY <1>7, <1>8

LEMMA NextTake ==
    ASSUME ~Concurrent, TypeOK, TypeOK', TakeInv, [Next]_vars
    PROVE  TakeInv'
<1>1. ASSUME NEW k \in Keys, NEW w \in Windows[k[1]], Create(k, w) PROVE TakeInv'
  <2>1. stored' = stored \cup {k} /\ UNCHANGED <<encrypted, decrypted, accepted, repeated, late>>
    BY <1>1 DEF Create, sent, taken
  <2>2. \A x \in Keys \ {k} : record'[x] = record[x]
    BY <1>1 DEF Create, TypeOK
  <2>3. record'[k].gen = record[k].gen + 1 /\ record'[k].remoteInvocationCounter = {}
    BY <1>1 DEF Create, TypeOK
  <2> QED BY <2>1, <2>2, <2>3, TakeKept
<1>2. ASSUME NEW k \in Keys, NEW w \in Windows[k[1]], Update(k, w) PROVE TakeInv'
  <2>1. record' = [record EXCEPT ![k] = [record[k] EXCEPT !.window = w]]
    BY <1>2 DEF Update
  <2>2. record[k] \in Rows
    BY <1>2 DEF Update, TypeOK
  <2>3. [record[k] EXCEPT !.window = w].gen = record[k].gen
        /\ [record[k] EXCEPT !.window = w].remoteInvocationCounter = record[k].remoteInvocationCounter
    BY <2>2 DEF Rows
  <2>4. \A x \in Keys : record'[x].gen = record[x].gen
                        /\ record'[x].remoteInvocationCounter = record[x].remoteInvocationCounter
    BY <2>1, <2>3 DEF TypeOK
  <2>5. UNCHANGED <<stored, encrypted, decrypted, accepted, repeated, late>>
    BY <1>2 DEF Update, sent, taken
  <2> QED BY <2>4, <2>5, TakeKept
<1>3. ASSUME NEW k \in Keys, Delete(k) PROVE TakeInv'
  BY <1>3, TakeKept DEF Delete, sent, taken
<1>4. ASSUME NEW k \in Keys, Read(k) PROVE TakeInv'
  BY <1>4, TakeKept DEF Read, sent, taken
<1>5. ASSUME NEW e \in Senders, NEW to \in Addresses, OutputCounter(e, to) PROVE TakeInv'
  <2>1. UNCHANGED <<stored, encrypted, decrypted, accepted, repeated, late>>
    BY <1>5 DEF OutputCounter, sent, taken
  <2>2. \A x \in Keys : record'[x].gen = record[x].gen
                        /\ record'[x].remoteInvocationCounter = record[x].remoteInvocationCounter
    BY <1>5 DEF OutputCounter, TypeOK, Rows, NoRow
  <2> QED BY <2>1, <2>2, TakeKept
<1>6. ASSUME NEW e \in Entities, NEW d \in Datagrams, Decrypt(e, d) PROVE TakeInv'
  <2>1. /\ d \in encrypted /\ InKey(e, d) \in stored /\ d.gen = record[InKey(e, d)].gen
        /\ UNCHANGED <<record, stored, encrypted, accepted, repeated, late>>
        /\ decrypted' = [decrypted EXCEPT ![e] = {d}]
    BY <1>6 DEF Decrypt, Authentic, sent, taken
  <2>2. \A f \in Entities : \A q \in decrypted'[f] : q \in decrypted[f] \/ (f = e /\ q = d)
    BY <2>1 DEF TypeOK
  <2>3. InKey(e, d) \in Keys /\ d.gen \in Nat /\ d.gen <= record[InKey(e, d)].gen
    BY <2>1 DEF TypeOK, Datagrams
  <2> QED BY <2>1, <2>2, <2>3 DEF TakeInv, AcceptedOnce, WindowIsGenuine
<1>7. ASSUME NEW e \in Entities, Encrypt(e) PROVE TakeInv'
  <2>1. /\ encrypted \subseteq encrypted'
        /\ UNCHANGED <<record, stored, decrypted, accepted, repeated, late>>
    BY <1>7 DEF Encrypt, sent, taken
  <2> QED BY <2>1, TakeKept
<1>8. ASSUME NEW e \in Entities, InputCounter(e) PROVE TakeInv'
  BY <1>8, InputCounterTake
<1>9. ASSUME NEW e \in Entities, Crash(e) PROVE TakeInv'
  <2>1. /\ UNCHANGED <<record, stored, encrypted, accepted, repeated, late>>
        /\ decrypted' = [decrypted EXCEPT ![e] = {}]
    BY <1>9 DEF Crash, sent, taken
  <2>2. \A f \in Entities : decrypted'[f] \subseteq decrypted[f]
    BY <2>1 DEF TypeOK
  <2> QED BY <2>1, <2>2 DEF TakeInv, AcceptedOnce, WindowIsGenuine
<1>10. CASE UNCHANGED vars
  BY <1>10 DEF vars, sent, taken, TakeInv, AcceptedOnce, WindowIsGenuine
<1> QED BY <1>1, <1>2, <1>3, <1>4, <1>5, <1>6, <1>7, <1>8, <1>9, <1>10 DEF Next

-----------------------------------------------------------------------------
(* The theorems *)

RecordInv == TypeOK /\ SendInv /\ TakeInv

LEMMA RecordInvariant ==
    ASSUME ~Concurrent
    PROVE  Spec => []RecordInv
<1>1. Init => RecordInv
  BY InitType, InitSend, InitTake DEF RecordInv
<1>2. RecordInv /\ [Next]_vars => RecordInv'
  BY NextType, NextSend, NextTake DEF RecordInv
<1> QED BY <1>1, <1>2, PTL DEF Spec

\* Unless a re-creation carries it from the old record to the new secret, one counter
\* of one record creation never encrypts two datagrams, records being created and
\* deleted at any time (pr6_peer.c:224, :238).
THEOREM IVsAreUnique ==
    ASSUME ~Concurrent
    PROVE  Spec => []UniqueIV
<1>1. RecordInv => UniqueIV
  BY DEF RecordInv, SendInv, UniqueIV
<1> QED BY <1>1, RecordInvariant, PTL

\* An entity lets a datagram addressed to it through at most once, unless a re-creation
\* falls between its decryption and the test of its counter.
THEOREM AcceptedAtMostOnce ==
    ASSUME ~Concurrent
    PROVE  Spec => []AcceptedOnce
<1>1. RecordInv => AcceptedOnce
  BY DEF RecordInv, TakeInv
<1> QED BY <1>1, RecordInvariant, PTL

\* A window holds only counters of datagrams encrypted for it, or decrypted under the
\* record before it.
THEOREM WindowsAreGenuine ==
    ASSUME ~Concurrent
    PROVE  Spec => []WindowIsGenuine
<1>1. RecordInv => WindowIsGenuine
  BY DEF RecordInv, TakeInv
<1> QED BY <1>1, RecordInvariant, PTL

\* No step makes a refused counter acceptable again while its record exists.
THEOREM RefusedForGood ==
    ASSUME ~Concurrent
    PROVE  Spec => RefusedStaysRefused
<1> DEFINE Stays ==
      \A k \in stored : k \in stored' /\ record'[k].gen = record[k].gen =>
          \A c \in Counters :
              Acceptable(record'[k].remoteInvocationCounter, c)
                  => Acceptable(record[k].remoteInvocationCounter, c)
<1>1. ASSUME TypeOK, Next PROVE Stays
  <2> SUFFICES ASSUME NEW k \in stored, record'[k].gen = record[k].gen, NEW c \in Counters,
                      ~Acceptable(record[k].remoteInvocationCounter, c)
               PROVE  ~Acceptable(record'[k].remoteInvocationCounter, c)
    OBVIOUS
  <2>1. k \in Keys
    BY <1>1 DEF TypeOK
  <2>2. ASSUME record'[k].remoteInvocationCounter = record[k].remoteInvocationCounter
        PROVE  ~Acceptable(record'[k].remoteInvocationCounter, c)
    BY <2>2
  <2>3. ASSUME NEW x \in Keys, NEW w \in Windows[x[1]], Create(x, w)
        PROVE  ~Acceptable(record'[k].remoteInvocationCounter, c)
    BY <1>1, <2>1, <2>2, <2>3 DEF Create, TypeOK
  <2>4. ASSUME NEW x \in Keys, NEW w \in Windows[x[1]], Update(x, w)
        PROVE  ~Acceptable(record'[k].remoteInvocationCounter, c)
    <3>1. record' = [record EXCEPT ![x] = [record[x] EXCEPT !.window = w]]
      BY <2>4 DEF Update
    <3>2. [record[x] EXCEPT !.window = w].remoteInvocationCounter = record[x].remoteInvocationCounter
      BY <1>1, <2>4 DEF Update, TypeOK, Rows
    <3> QED BY <1>1, <2>1, <2>2, <3>1, <3>2 DEF TypeOK
  <2>5. ASSUME NEW e \in Senders, NEW to \in Addresses, OutputCounter(e, to)
        PROVE  ~Acceptable(record'[k].remoteInvocationCounter, c)
    <3>1. record'[k].remoteInvocationCounter = record[k].remoteInvocationCounter
      BY <1>1, <2>1, <2>5 DEF OutputCounter, TypeOK, Rows
    <3> QED BY <2>2, <3>1
  <2>6. ASSUME NEW e \in Entities, InputCounter(e)
        PROVE  ~Acceptable(record'[k].remoteInvocationCounter, c)
    <3>1. PICK d \in decrypted[e] :
            LET x == InKey(e, d)
                r == record[x]
            IN  IF x \in stored /\ Acceptable(r.remoteInvocationCounter, d.counter)
                THEN record' = IF x[2] = x[1]
                       THEN [record EXCEPT ![x].remoteInvocationCounter =
                                Added(r.remoteInvocationCounter, r.window, d.counter)]
                       ELSE record
                ELSE UNCHANGED record
      BY <2>6 DEF InputCounter
    <3> DEFINE seen == record[InKey(e, d)].remoteInvocationCounter
               after == Added(seen, record[InKey(e, d)].window, d.counter)
    <3>2. CASE record' = record
      BY <2>2, <3>2
    <3>3. CASE /\ InKey(e, d) \in stored /\ Acceptable(seen, d.counter)
               /\ record' = [record EXCEPT ![InKey(e, d)].remoteInvocationCounter = after]
      <4>1. d.counter \in Counters /\ seen \in SUBSET Counters /\ InKey(e, d) \in Keys
        BY <1>1, <3>3 DEF TypeOK, Datagrams, Rows
      <4>2. ~Acceptable(seen, c) => ~Acceptable(after, c)
        BY <3>3, <4>1, AddedRefuses
      <4> HIDE DEF after
      <4>3. CASE k = InKey(e, d)
        <5>1. record'[k].remoteInvocationCounter = after
          BY <1>1, <3>3, <4>1, <4>3 DEF TypeOK, Rows
        <5> QED BY <4>2, <4>3, <5>1
      <4>4. CASE k # InKey(e, d)
        BY <1>1, <2>1, <2>2, <3>3, <4>4 DEF TypeOK
      <4> QED BY <4>3, <4>4
    <3> QED BY <3>1, <3>2, <3>3
  <2>7. ASSUME UNCHANGED record
        PROVE  ~Acceptable(record'[k].remoteInvocationCounter, c)
    BY <2>2, <2>7
  <2> QED BY <1>1, <2>3, <2>4, <2>5, <2>6, <2>7 DEF Next, Delete, Read, Decrypt, Encrypt, Crash
<1>2. TypeOK /\ [Next]_vars => [Stays]_vars
  BY <1>1
<1>3. Spec => [][Stays]_vars
  BY <1>2, TypeCorrect, PTL DEF Spec
<1> QED BY <1>3 DEF RefusedStaysRefused

-----------------------------------------------------------------------------
(* Association implements AtMostOnce *)

\* The datagrams let through by one step of InputCounter are taken then, the
\* first time, and no others.
LEMMA InputCounterTakes ==
    ASSUME RecordInv, RecordInv', NEW e \in Entities, InputCounter(e)
    PROVE  (\E d \in Datagrams : Promise!Take(e, d)) \/ UNCHANGED <<Sendings, Takings>>
<1> DEFINE Taken(f) == {<<f, d, 1>> : d \in {x \in accepted[f] : x.to = f}}
<1>1. /\ Takings = UNION {Taken(f) : f \in Entities}
      /\ Takings' = UNION {Taken(f)' : f \in Entities}
      /\ Sendings = {<<d, 1>> : d \in encrypted}
  <2>1. \A f \in Entities : {<<f, d, 2>> : d \in {x \in repeated[f] \ late[f] : x.to = f}} = {}
    BY DEF RecordInv, TakeInv, AcceptedOnce
  <2>2. \A f \in Entities : {<<f, d, 2>> : d \in {x \in repeated'[f] \ late'[f] : x.to = f}} = {}
    BY DEF RecordInv, TakeInv, AcceptedOnce
  <2>3. Takings = UNION {Taken(f) : f \in Entities}
    BY <2>1 DEF Takings
  <2>4. Takings' = UNION {Taken(f)' : f \in Entities}
    BY <2>2 DEF Takings
  <2> QED BY <2>3, <2>4 DEF RecordInv, SendInv, Sendings
<1>2. Sendings' = Sendings
  BY DEF InputCounter, Sendings, sent
<1>3. CASE accepted' = accepted
  BY <1>1, <1>2, <1>3
<1>4. CASE accepted' # accepted
  <2>1. PICK d \in decrypted[e] : accepted' = [accepted EXCEPT ![e] = @ \cup {d}]
    BY <1>4 DEF InputCounter, taken
  <2>2. d \in Datagrams /\ d \in encrypted
    BY DEF RecordInv, TypeOK, TakeInv
  <2>3. /\ \A f \in Entities \ {e} : accepted'[f] = accepted[f]
        /\ accepted'[e] = accepted[e] \cup {d}
    BY <2>1 DEF RecordInv, TypeOK
  <2>4. CASE d.to # e
    <3>1. \A f \in Entities : Taken(f)' = Taken(f)
      BY <2>3, <2>4
    <3> QED BY <1>1, <1>2, <3>1
  <2>5. CASE d.to = e
    <3>1. d \notin accepted[e]
      BY <1>4, <2>1 DEF RecordInv, TypeOK
    <3>2. <<e, d, 1>> \notin Takings
      BY <1>1, <3>1
    <3>3. Taken(e)' = Taken(e) \cup {<<e, d, 1>>}
      BY <2>3, <2>5
    <3>4. \A f \in Entities \ {e} : Taken(f)' = Taken(f)
      BY <2>3
    <3> HIDE DEF Taken
    <3>5. Takings' = Takings \cup {<<e, d, 1>>}
      BY <1>1, <3>3, <3>4
    <3>6. <<d, 1>> \in Sendings
      BY <1>1, <2>2
    <3> QED BY <1>2, <2>2, <2>5, <3>2, <3>5, <3>6 DEF Promise!Take
  <2> QED BY <2>4, <2>5
<1> QED BY <1>3, <1>4

LEMMA EncryptSends ==
    ASSUME RecordInv, RecordInv', NEW e \in Entities, Encrypt(e)
    PROVE  (\E d \in Datagrams : Promise!Send(d)) \/ UNCHANGED <<Sendings, Takings>>
<1>1. Sendings = {<<d, 1>> : d \in encrypted} /\ Sendings' = {<<d, 1>> : d \in encrypted'}
  <2>1. reused \ crossed = {} /\ reused' \ crossed' = {}
    BY DEF RecordInv, SendInv
  <2> QED BY <2>1 DEF Sendings
<1>2. Takings' = Takings
  BY DEF Encrypt, Takings, taken
<1>3. CASE encrypted' = encrypted
  BY <1>1, <1>2, <1>3
<1>4. CASE encrypted' # encrypted
  <2>1. PICK d : encrypted' = encrypted \cup {d}
    BY <1>4 DEF Encrypt, sent
  <2>2. d \in Datagrams /\ d \notin encrypted
    BY <1>4, <2>1 DEF RecordInv, TypeOK
  <2>3. <<d, 1>> \notin Sendings /\ Sendings' = Sendings \cup {<<d, 1>>}
    BY <1>1, <2>1, <2>2
  <2> QED BY <1>2, <2>2, <2>3 DEF Promise!Send
<1> QED BY <1>3, <1>4

\* Every step encrypts a datagram for the first time, lets one through for the
\* first time at the entity it is addressed to, or does neither; what a re-creation
\* overtook between two readings of its record is not promised.
THEOREM Implements ==
    ASSUME ~Concurrent
    PROVE  Spec => ImplementsAtMostOnce
<1>1. Init => Promise!Init
  <2> SUFFICES ASSUME Init PROVE Sendings = {} /\ Takings = {}
    BY DEF Promise!Init
  <2>1. \A e \in Entities : {x \in accepted[e] : x.to = e} = {} /\ {x \in repeated[e] : x.to = e} = {}
    BY DEF Init
  <2> QED BY <2>1 DEF Init, Sendings, Takings
<1>2. RecordInv /\ RecordInv' /\ [Next]_vars => [Promise!Next]_<<Sendings, Takings>>
  <2> SUFFICES ASSUME RecordInv, RecordInv', [Next]_vars
               PROVE  Promise!Next \/ UNCHANGED <<Sendings, Takings>>
    BY DEF Promise!Next
  <2>1. ASSUME NEW e \in Entities, Encrypt(e)
        PROVE  Promise!Next \/ UNCHANGED <<Sendings, Takings>>
    BY <2>1, EncryptSends DEF Promise!Next
  <2>2. ASSUME NEW e \in Entities, InputCounter(e)
        PROVE  Promise!Next \/ UNCHANGED <<Sendings, Takings>>
    BY <2>2, InputCounterTakes DEF Promise!Next
  <2>3. ASSUME UNCHANGED <<encrypted, reused, crossed, accepted, repeated, late>>
        PROVE  UNCHANGED <<Sendings, Takings>>
    BY <2>3 DEF Sendings, Takings
  <2>4. CASE UNCHANGED vars
    BY <2>3, <2>4 DEF vars, sent, taken
  <2> QED BY <2>1, <2>2, <2>3, <2>4
          DEF Next, Create, Update, Delete, Read, OutputCounter, Decrypt, Crash, sent, taken
<1> QED BY <1>1, <1>2, RecordInvariant, PTL DEF Spec, ImplementsAtMostOnce, Promise!Spec
=============================================================================
