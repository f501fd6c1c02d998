---------------------------- MODULE MCDirectory ----------------------------
(* Model values, clocks and symmetry for Directory.                         *)
EXTENDS Directory, TLC

CONSTANTS Fast, FastBy      \* the members whose clock is ahead, and by how much

MCAhead == [m \in Member |-> IF m \in Fast THEN FastBy ELSE 0]
AddrSymmetry == Permutations(Addr)
=============================================================================
