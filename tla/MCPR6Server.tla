---------------------------- MODULE MCPR6Server -----------------------------
(* The server, or an input for the codec, the wrapper and the object       *)
(* interface it relies on.                                                 *)
EXTENDS PR6Server, Algorithms

\* No method, two with different roles, two with the same.
SmallMethodLists ==
    {<<>>,
     <<[methodIndex |-> 1, role |-> {"a"}], [methodIndex |-> 0, role |-> {"b"}]>>,
     <<[methodIndex |-> 2, role |-> {}], [methodIndex |-> 3, role |-> {"a", "b"}]>>}

\* The server runs, or there is an input and nothing happens.
Serving == kind = "server" /\ input = <<>>

InitOrGiven == Init /\ (Serving \/ Given)

Serve == kind = "server" /\ Next /\ UNCHANGED <<kind, input>>

SpecOrGiven == InitOrGiven /\ [][Serve]_<<vars, kind, input>> /\ Fairness
=============================================================================
