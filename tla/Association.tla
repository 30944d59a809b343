---------------------------- MODULE Association -----------------------------
(***************************************************************************)
(* The association records of rcore (association.rb, association_record.rb)*)
(* under the peer of modules/core (pr6_peer.c): every datagram takes the   *)
(* next invocation counter of the sender's record, every counter received  *)
(* is tested against a window in the receiver's record and added to it.    *)
(*                                                                         *)
(* Each entity keeps its records in a database, read and written in one    *)
(* transaction per counter; everything else is lost when it crashes.  A    *)
(* datagram that was encrypted may arrive any number of times, in any      *)
(* order, or never.  An administrator creates and deletes records at any   *)
(* time, also between the two transactions of one message, and reads and   *)
(* rewrites them.                                                          *)
(*                                                                         *)
(* A record is addressed by entity, local address and remote address; the  *)
(* local address is the entity, or a group it listens to.  The assocID the *)
(* database uses instead of the two addresses is the subject of EUI64Pair. *)
(***************************************************************************)
EXTENDS Naturals, FiniteSets

CONSTANTS
    Entities, Groups,
    Senders,        \* entities that send messages
    Keys,           \* <<entity, local, remote>> of the records
    Windows,        \* Windows[e]: values of remoteInvocationCounterWindow in use at e
    MAX_COUNTER,    \* 0xffffffff in the code
    MaxGen,         \* bound: times a record is created
    Concurrent      \* copies of a record are written back while messages are processed

Addresses == Entities \cup Groups

ASSUME AssociationAssumption ==
    /\ Entities \cap Groups = {} /\ Senders \subseteq Entities
    /\ Keys \subseteq Entities \X Addresses \X Addresses
    /\ \A k \in Keys : k[2] # k[3] /\ (k[2] \in Entities => k[2] = k[1])
    /\ Windows \in [Entities -> SUBSET (Nat \ {0})]
    /\ MAX_COUNTER \in Nat /\ MaxGen \in Nat
    /\ Concurrent \in BOOLEAN

Counters == 1..MAX_COUNTER

\* `gen` stands for the secret: every creation of a record uses a new one, and
\* the two ends of an association are created with the same secrets in turn.
Rows == [gen : 1..MaxGen, window : Nat, remoteInvocationCounter : SUBSET Counters,
         invocationCounter : 0..MAX_COUNTER]

NoRow == [gen |-> 0, window |-> 0, remoteInvocationCounter |-> {}, invocationCounter |-> 0]

Datagrams == [from : Entities, to : Addresses, gen : 1..MaxGen, counter : Counters]

VARIABLES
    record,     \* record[k]: the row of k, with the number of its last creation
    stored,     \* the keys whose row exists
    copy,       \* copy[k]: the Association object an administrator holds (none or one)
    reserved,   \* reserved[e]: counter taken for a message not yet encrypted (none or one),
                \* with the creation of the record it was taken from
    decrypted,  \* decrypted[e]: datagram whose counter is yet to be tested (none or one)
    encrypted,  \* datagrams that were encrypted
    reused,     \* datagrams that were encrypted more than once
    crossed,    \* datagrams encrypted under a later creation than their counter's
    accepted,   \* accepted[e]: datagrams e let through
    repeated,   \* repeated[e]: datagrams e let through more than once
    late        \* late[e]: datagrams tested under a later creation than they decrypted under

sent == <<encrypted, reused, crossed>>
taken == <<accepted, repeated, late>>
vars == <<record, stored, copy, reserved, decrypted, sent, taken>>

OutKey(e, to) == <<e, e, to>>
InKey(e, d) == <<e, d.to, d.from>>

Init ==
    /\ record = [k \in Keys |-> NoRow]
    /\ stored = {}
    /\ copy = [k \in Keys |-> {}]
    /\ reserved = [e \in Entities |-> {}]
    /\ decrypted = [e \in Entities |-> {}]
    /\ encrypted = {} /\ reused = {} /\ crossed = {}
    /\ accepted = [e \in Entities |-> {}]
    /\ repeated = [e \in Entities |-> {}]
    /\ late = [e \in Entities |-> {}]

-----------------------------------------------------------------------------
(* Association#inputCounter *)

Least(S) == CHOOSE x \in S : \A y \in S : x <= y

\* Faulty variant: only counters still in the window are refused.
Acceptable_NoFloor(seen, c) == c \notin seen

Acceptable(seen, c) == seen = {} \/ (c \notin seen /\ Least(seen) < c)

\* Faulty variant: the newest counter makes room instead of the oldest.
Added_EvictNewest(seen, window, c) ==
    (IF Cardinality(seen) = window
     THEN seen \ {CHOOSE x \in seen : \A y \in seen : y <= x} ELSE seen) \cup {c}

Added(seen, window, c) ==
    (IF Cardinality(seen) = window THEN seen \ {Least(seen)} ELSE seen) \cup {c}

-----------------------------------------------------------------------------
(* Administration *)

\* Unless Concurrent, a copy is read only while its entity processes no message,
\* messages wait for it to be written back, and it is written only over the row it
\* was read from.
Idle(e) == Concurrent \/ (reserved[e] = {} /\ decrypted[e] = {})
NoCopy(e) == Concurrent \/ \A k \in Keys : k[1] = e => copy[k] = {}

Create(k, w) ==
    /\ k \notin stored
    /\ record[k].gen < MaxGen
    /\ stored' = stored \cup {k}
    /\ record' = [record EXCEPT ![k] = [gen |-> record[k].gen + 1, window |-> w,
                        remoteInvocationCounter |-> {}, invocationCounter |-> 0]]
    /\ UNCHANGED <<copy, reserved, decrypted, sent, taken>>

Delete(k) ==
    /\ k \in stored
    /\ stored' = stored \ {k}
    /\ UNCHANGED <<record, copy, reserved, decrypted, sent, taken>>

Read(k) ==
    /\ k \in stored /\ Idle(k[1])
    /\ copy' = [copy EXCEPT ![k] = {record[k]}]
    /\ UNCHANGED <<record, stored, reserved, decrypted, sent, taken>>

\* Writes every column of the copy back, the counters included.
Update(k, w) ==
    /\ k \in stored
    /\ \E a \in copy[k] :
          /\ Concurrent \/ a = record[k]
          /\ record' = [record EXCEPT ![k] = [a EXCEPT !.window = w]]
    /\ copy' = [copy EXCEPT ![k] = {}]
    /\ UNCHANGED <<stored, reserved, decrypted, sent, taken>>

-----------------------------------------------------------------------------
(* PR6_PeerOutput: a counter, then the encryption under it *)

\* Faulty variant: the counter wraps at its limit.
OutputCounter_Wraps(e, to) ==
    /\ OutKey(e, to) \in stored /\ reserved[e] = {} /\ NoCopy(e)
    /\ LET k == OutKey(e, to)
           n == IF record[k].invocationCounter < MAX_COUNTER THEN record[k].invocationCounter + 1 ELSE 1
       IN  /\ record' = [record EXCEPT ![k].invocationCounter = n]
           /\ reserved' = [reserved EXCEPT ![e] = {[to |-> to, gen |-> record[k].gen, counter |-> n]}]
    /\ UNCHANGED <<stored, copy, decrypted, sent, taken>>

\* Faulty variant: the counter has no limit.
OutputCounter_NoLimit(e, to) ==
    /\ OutKey(e, to) \in stored /\ reserved[e] = {} /\ NoCopy(e)
    /\ LET k == OutKey(e, to)
           n == record[k].invocationCounter + 1
       IN  /\ record' = [record EXCEPT ![k].invocationCounter = n]
           /\ reserved' = [reserved EXCEPT ![e] = {[to |-> to, gen |-> record[k].gen, counter |-> n]}]
    /\ UNCHANGED <<stored, copy, decrypted, sent, taken>>

\* At the limit there is no counter and no output.
OutputCounter(e, to) ==
    /\ OutKey(e, to) \in stored /\ reserved[e] = {} /\ NoCopy(e)
    /\ LET k == OutKey(e, to)
           n == record[k].invocationCounter + 1
       IN  /\ record[k].invocationCounter < MAX_COUNTER
           /\ record' = [record EXCEPT ![k].invocationCounter = n]
           /\ reserved' = [reserved EXCEPT ![e] = {[to |-> to, gen |-> record[k].gen, counter |-> n]}]
    /\ UNCHANGED <<stored, copy, decrypted, sent, taken>>

\* The record is read again for its secret, which is another one if it was created
\* again since; if it is gone nothing is sent.
Encrypt(e) ==
    /\ \E r \in reserved[e] :
          LET k == OutKey(e, r.to)
              d == [from |-> e, to |-> r.to, gen |-> record[k].gen, counter |-> r.counter]
          IN  IF k \in stored
              THEN /\ encrypted' = encrypted \cup {d}
                   /\ reused' = reused \cup ({d} \cap encrypted)
                   /\ crossed' = IF r.gen = record[k].gen THEN crossed ELSE crossed \cup {d}
              ELSE UNCHANGED sent
    /\ reserved' = [reserved EXCEPT ![e] = {}]
    /\ UNCHANGED <<record, stored, copy, decrypted, taken>>

-----------------------------------------------------------------------------
(* PR6_PeerInput: the decryption, then the test of the counter *)

Authentic(e, d) ==
    /\ d \in encrypted
    /\ record[InKey(e, d)].gen = d.gen

\* Faulty variant: what arrives is not authenticated before its counter is tested.
Decrypt_NoMac(e, d) ==
    /\ decrypted[e] = {} /\ NoCopy(e) /\ InKey(e, d) \in stored
    /\ record[InKey(e, d)].gen = d.gen
    /\ decrypted' = [decrypted EXCEPT ![e] = {d}]
    /\ UNCHANGED <<record, stored, copy, reserved, sent, taken>>

\* Anything may arrive; what was not encrypted under this record's secret (a
\* datagram damaged on its way, or from before the record was created) fails
\* here, before it can touch the window.
Decrypt(e, d) ==
    /\ decrypted[e] = {} /\ NoCopy(e)
    /\ InKey(e, d) \in stored
    /\ Authentic(e, d)
    /\ decrypted' = [decrypted EXCEPT ![e] = {d}]
    /\ UNCHANGED <<record, stored, copy, reserved, sent, taken>>

\* Faulty variant: an accepted counter is saved only once the window is full.
InputCounter_NotSaved(e) ==
    /\ \E d \in decrypted[e] :
          LET k == InKey(e, d)
              r == record[k]
          IN  IF k \in stored /\ Acceptable(r.remoteInvocationCounter, d.counter)
              THEN /\ accepted' = [accepted EXCEPT ![e] = @ \cup {d}]
                   /\ repeated' = [repeated EXCEPT ![e] = @ \cup ({d} \cap accepted[e])]
                   /\ late' = [late EXCEPT ![e] = IF d.gen = r.gen THEN @ ELSE @ \cup {d}]
                   /\ record' = IF Cardinality(r.remoteInvocationCounter) = r.window
                         THEN [record EXCEPT ![k].remoteInvocationCounter =
                                  Added(r.remoteInvocationCounter, r.window, d.counter)]
                         ELSE record
              ELSE UNCHANGED <<taken, record>>
    /\ decrypted' = [decrypted EXCEPT ![e] = {}]
    /\ UNCHANGED <<stored, copy, reserved, sent>>

\* The record is read again for its window, which is empty if it was created again
\* since.  The window is saved in the row `entityID: a.localID`
\* (association_record.rb:96), which is this record's row only if its local address
\* is the entity itself.
InputCounter(e) ==
    /\ \E d \in decrypted[e] :
          LET k == InKey(e, d)
              r == record[k]
          IN  IF k \in stored /\ Acceptable(r.remoteInvocationCounter, d.counter)
              THEN /\ accepted' = [accepted EXCEPT ![e] = @ \cup {d}]
                   /\ repeated' = [repeated EXCEPT ![e] = @ \cup ({d} \cap accepted[e])]
                   /\ late' = [late EXCEPT ![e] = IF d.gen = r.gen THEN @ ELSE @ \cup {d}]
                   /\ record' = IF k[2] = k[1]
                         THEN [record EXCEPT ![k].remoteInvocationCounter =
                                  Added(r.remoteInvocationCounter, r.window, d.counter)]
                         ELSE record
              ELSE UNCHANGED <<taken, record>>
    /\ decrypted' = [decrypted EXCEPT ![e] = {}]
    /\ UNCHANGED <<stored, copy, reserved, sent>>

\* What is in memory is lost, the database remains.
Crash(e) ==
    /\ reserved' = [reserved EXCEPT ![e] = {}]
    /\ decrypted' = [decrypted EXCEPT ![e] = {}]
    /\ copy' = [k \in Keys |-> IF k[1] = e THEN {} ELSE copy[k]]
    /\ UNCHANGED <<record, stored, sent, taken>>

Next ==
    \/ \E k \in Keys : \/ \E w \in Windows[k[1]] : Create(k, w) \/ Update(k, w)
                       \/ Delete(k) \/ Read(k)
    \/ \E e \in Senders, to \in Addresses : OutputCounter(e, to)
    \/ \E e \in Entities : \/ \E d \in Datagrams : Decrypt(e, d)
                           \/ Encrypt(e) \/ InputCounter(e) \/ Crash(e)

Spec == Init /\ [][Next]_vars

-----------------------------------------------------------------------------
TypeOK ==
    /\ record \in [Keys -> Rows \cup {NoRow}]
    /\ stored \subseteq Keys /\ \A k \in stored : record[k] \in Rows
    /\ copy \in [Keys -> SUBSET Rows]
    /\ reserved \in [Entities -> SUBSET [to : Addresses, gen : 1..MaxGen, counter : Counters]]
    /\ decrypted \in [Entities -> SUBSET Datagrams]
    /\ reused \subseteq encrypted /\ crossed \subseteq encrypted /\ encrypted \subseteq Datagrams
    /\ accepted \in [Entities -> SUBSET Datagrams]
    /\ repeated \in [Entities -> SUBSET Datagrams] /\ late \in [Entities -> SUBSET Datagrams]

\* One counter of one record creation encrypts one datagram, so no two datagrams
\* share an initialisation vector under one secret: not after a crash between taking
\* the counter and using it, not at the last counter, not when a record is deleted and
\* created again between two messages.  Only a counter carried from the old record to
\* the new secret, by a re-creation between the two readings of the record
\* (pr6_peer.c:224, :238; association.rb:144-150), is met again.
UniqueIV == reused \subseteq crossed

\* A datagram addressed to an entity is let through by it at most once,
\* duplicated, delayed or reordered as it may be, across crashes and windows of
\* every size (association.rb:152-166).  Only one whose counter is tested in the new
\* record after it decrypted under the old one (pr6_peer.c:142, :144) may come twice.
AcceptedOnce == \A e \in Entities : \A d \in repeated[e] \ late[e] : d.to # e

\* The same for datagrams addressed to a group: "protection against replayed
\* messages" (readme.md:23).
GroupAcceptedOnce == \A e \in Entities : \A d \in repeated[e] : d.to \notin Groups

\* The window of a record holds only counters of datagrams that were encrypted
\* for it, or had decrypted under the record before it: what fails authentication
\* uses up no counter (pr6_peer.c:142-144).
WindowIsGenuine ==
    \A k \in stored : \A c \in record[k].remoteInvocationCounter :
        \/ [from |-> k[3], to |-> k[2], gen |-> record[k].gen, counter |-> c] \in encrypted
        \/ \E d \in late[k[1]] : InKey(k[1], d) = k /\ d.counter = c /\ d.gen < record[k].gen

\* A counter a record refuses is refused for as long as the record exists, also
\* when the window moves on or its size is changed.
RefusedStaysRefused ==
    [][\A k \in stored : k \in stored' /\ record'[k].gen = record[k].gen =>
          \A c \in Counters :
              Acceptable(record'[k].remoteInvocationCounter, c)
                  => Acceptable(record[k].remoteInvocationCounter, c)]_vars

\* Datagrams between entities implement the abstract promise, those apart that a
\* re-creation overtook.
Sendings == {<<d, 1>> : d \in encrypted} \cup {<<d, 2>> : d \in reused \ crossed}

Takings ==
    UNION {{<<e, d, 1>> : d \in {x \in accepted[e] : x.to = e}} \cup
           {<<e, d, 2>> : d \in {x \in repeated[e] \ late[e] : x.to = e}} : e \in Entities}

Promise == INSTANCE AtMostOnce WITH sent <- Sendings, taken <- Takings

ImplementsAtMostOnce == Promise!Spec
=============================================================================
