--------------------------- MODULE MCAssociation ----------------------------
(* Instances of Association for TLC: constant values a .cfg cannot write. *)
EXTENDS Association, TLC

CONSTANTS a, b, g

\* one association, both ends
Pair == {<<a, a, b>>, <<b, b, a>>}
\* a sends to a group b listens to
Group == {<<a, a, g>>, <<b, g, a>>}

\* only the receiver's window is resized
Resized == (a :> {2}) @@ (b :> {1, 2})
Fixed == [e \in Entities |-> {2}]
=============================================================================
