------------------------------ MODULE Enrolment ------------------------------
(***************************************************************************)
(* What setup.rs promises: "each call either completes fully or leaves no  *)
(* trace behind".  A call makes a person a member of one network, in one   *)
(* step, or it does not; only an application that ends at the wrong moment *)
(* leaves half of a membership.  A network that is created gets a key of   *)
(* its own and is claimed once; membership and invites are of claimed      *)
(* networks.  Setup shows that its files and steps amount to this.         *)
(***************************************************************************)
EXTENDS Naturals

CONSTANTS Person, Host, MaxNets

VARIABLES
  folder,    \* folder[p]: the two files that make p a member
  call,      \* call[p]: the network that p's call is about
  keys,      \* network keys generated so far
  claimed,
  invites,
  crashed    \* history: whose application ended during a call

vars == <<folder, call, keys, claimed, invites, crashed>>

Empty == [cfg |-> [net |-> 0], dir |-> [net |-> 0]]
Half(n, v) == [cfg |-> [net |-> n, vip |-> v], dir |-> [net |-> 0]]
Member(n, v) == [cfg |-> [net |-> n, vip |-> v], dir |-> [net |-> n, key |-> TRUE]]
NoCall == [net |-> 0, create |-> FALSE]

Init ==
  /\ folder = [p \in Person |-> Empty]
  /\ call = [p \in Person |-> NoCall]
  /\ keys = 0 /\ claimed = {} /\ invites = {} /\ crashed = {}

Create(p) ==
  /\ folder[p] = Empty /\ call[p] = NoCall /\ keys < MaxNets
  /\ keys' = keys + 1
  /\ call' = [call EXCEPT ![p] = [net |-> keys + 1, create |-> TRUE]]
  /\ UNCHANGED <<folder, claimed, invites, crashed>>

Join(p) ==
  /\ folder[p] = Empty /\ call[p] = NoCall
  /\ \E n \in invites : call' = [call EXCEPT ![p] = [net |-> n, create |-> FALSE]]
  /\ UNCHANGED <<folder, keys, claimed, invites, crashed>>

\* The answer may be lost, and the call ends.
Claim(p) ==
  /\ call[p].create /\ call[p].net \notin claimed /\ folder[p] = Empty
  /\ claimed' = claimed \cup {call[p].net}
  /\ call' \in {call, [call EXCEPT ![p] = NoCall]}
  /\ UNCHANGED <<folder, keys, invites, crashed>>

Enrol(p) ==
  /\ call[p].net \in claimed /\ folder[p] = Empty
  /\ \E v \in 1..Host : folder' = [folder EXCEPT ![p] = Member(call[p].net, v)]
  /\ UNCHANGED <<call, keys, claimed, invites, crashed>>

End(p) ==
  /\ call[p] # NoCall
  /\ call' = [call EXCEPT ![p] = NoCall]
  /\ \/ UNCHANGED invites
     \/ call[p].net \in claimed /\ invites' = invites \cup {call[p].net}
  /\ crashed' \in {crashed, crashed \cup {p}}
  /\ UNCHANGED <<folder, keys, claimed>>

\* The application ends half-way.
Break(p) ==
  /\ call[p].net \in claimed /\ folder[p] = Empty
  /\ \E v \in 1..Host : folder' = [folder EXCEPT ![p] = Half(call[p].net, v)]
  /\ call' = [call EXCEPT ![p] = NoCall]
  /\ crashed' = crashed \cup {p}
  /\ UNCHANGED <<keys, claimed, invites>>

Leave(p) ==
  /\ call[p] = NoCall
  /\ folder' = [folder EXCEPT ![p] = Empty]
  /\ UNCHANGED <<call, keys, claimed, invites, crashed>>

Next ==
  \E p \in Person :
    Create(p) \/ Join(p) \/ Claim(p) \/ Enrol(p) \/ End(p) \/ Break(p) \/ Leave(p)

Spec == Init /\ [][Next]_vars
=============================================================================
