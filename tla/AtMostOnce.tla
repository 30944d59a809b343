---------------------------- MODULE AtMostOnce ------------------------------
(***************************************************************************)
(* What the invocation counters of PR6 promise ("protection against        *)
(* replayed messages", readme.md:23): a datagram is encrypted once, and    *)
(* the entity it is addressed to takes it at most once, whatever the       *)
(* network loses, repeats or reorders.                                     *)
(***************************************************************************)
EXTENDS Naturals

CONSTANTS
    Entities,
    Datagrams       \* records with the fields `from` and `to`, among others

VARIABLES
    sent,           \* <<d, n>>: d was encrypted for the n-th time
    taken           \* <<e, d, n>>: e took d for the n-th time

Init == sent = {} /\ taken = {}

Send(d) ==
    /\ <<d, 1>> \notin sent
    /\ sent' = sent \cup {<<d, 1>>}
    /\ UNCHANGED taken

Take(e, d) ==
    /\ d.to = e
    /\ <<d, 1>> \in sent
    /\ <<e, d, 1>> \notin taken
    /\ taken' = taken \cup {<<e, d, 1>>}
    /\ UNCHANGED sent

Next == \E d \in Datagrams : Send(d) \/ \E e \in Entities : Take(e, d)

Spec == Init /\ [][Next]_<<sent, taken>>
=============================================================================
