---------------------------- MODULE MCMeshGossip ----------------------------
(* Three nodes; values of the function-valued constants for TLC.            *)
EXTENDS MeshGossip, TLC

CONSTANTS a, b, c, e1, e2, e3, e4, la, lb

NoLan == [n \in Node |-> NoAddr]
\* a and b share a LAN, c is elsewhere.
LanAB == [n \in Node |-> CASE n = a -> la [] n = b -> lb [] OTHER -> NoAddr]
SiteAB == [n \in Node |-> IF n = c THEN "c" ELSE "ab"]
SiteEach == [n \in Node |-> n]
NoSkew == [n \in Node |-> 0]

\* a and b know c, c knows nobody yet.
CardsToC == {<<a, c>>, <<b, c>>}
CardAB == {<<a, b>>}
\* b and a, and a and c, know each other.
CardChain == {<<a, b>>, <<b, a>>, <<c, a>>, <<a, c>>}

PublicSymmetry == Permutations({e1, e2, e3, e4} \cap Endpoint)
=============================================================================
