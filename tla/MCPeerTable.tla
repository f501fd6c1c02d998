---------------------------- MODULE MCPeerTable ----------------------------
(* Model values and symmetry for the threads of PeerTable.                  *)
EXTENDS PeerTable, TLC

AddrSymmetry == Permutations(Addr)
VipSymmetry == Permutations(Vip)
AllSymmetry == AddrSymmetry \cup VipSymmetry

\* What the next states, TableBound and JustInserted depend on: not on what is
\* saved or heard, nor on what a thread left behind in its locals.
TableView ==
  <<time, cells, table, added,
    [t \in Thread |-> IF At(t, "idle") THEN [pc |-> "idle"] ELSE th[t]]>>
=============================================================================
