----------------------------- MODULE EUI64Pair ------------------------------
(***************************************************************************)
(* EUI64.pair: the identifier under which an association of two addresses  *)
(* is stored (with the entity) and its jobs are found.  It is computed in  *)
(* floating point, whose numbers have a mantissa of PRECISION values.      *)
(***************************************************************************)
EXTENDS Naturals

CONSTANTS
    PRECISION,      \* 2^53 for a Float
    Addresses       \* EUI64 values

VARIABLE pairs      \* <<localID, remoteID>> of the associations made

\* The distance of the numbers with a mantissa around n.
Unit(n) ==
    LET unit[k \in Nat] == IF n < PRECISION * k THEN k ELSE unit[2 * k]
    IN  unit[1]

\* To the nearest of them, of two to the even one.
Rounded(n) ==
    IF n < PRECISION THEN n
    ELSE LET u == Unit(n)
             q == n \div u
             r == n % u
         IN  IF 2 * r > u \/ (2 * r = u /\ q % 2 = 1) THEN (q + 1) * u ELSE q * u

\* 0.5 * (k1 + k2) * (k1 + k2 + 1): halving is exact. What is then added, k1 or k2,
\* is dropped: the method returns `pair` as it was before.
pair(k1, k2) ==
    LET s == k1 + k2 IN Rounded(Rounded(s) * Rounded(s + 1)) \div 2

Init == pairs = {}

\* An association is made of two addresses, at either end.
Associate(localID, remoteID) ==
    /\ localID # remoteID
    /\ pairs' = pairs \cup {<<localID, remoteID>>}

Next == \E localID, remoteID \in Addresses : Associate(localID, remoteID)

Spec == Init /\ [][Next]_pairs

-----------------------------------------------------------------------------
\* The identifier pairs: two associations with one identifier are of the same two
\* addresses, the one way round or the other ("Cantor pairing function for two EUI64
\* Strings", eui64_pair.rb:26).
OneIDOnePair ==
    \A p, q \in pairs : pair(p[1], p[2]) = pair(q[1], q[2]) => {p[1], p[2]} = {q[1], q[2]}
=============================================================================
