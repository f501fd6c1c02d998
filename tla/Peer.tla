-------------------------------- MODULE Peer --------------------------------
(***************************************************************************)
(* One record of the peer table and the operations core/src/peer.rs has on *)
(* it.  Here every operation is one step: the interleavings inside         *)
(* observe() and observe_epoch() are the subject of module PeerTable.       *)
(***************************************************************************)
EXTENDS Naturals

CONSTANTS
  Endpoint,   \* socket addresses (ip:port), public ones and LAN ones
  NoAddr      \* Rust's None for an Option<SocketAddr>

ASSUME NoAddrAssumption == NoAddr \notin Endpoint

OptAddr == Endpoint \cup {NoAddr}

\* conf is configured_addr_str, addr and epoch are confirmed_addr and
\* confirmed_epoch, lan is lan_candidate.  Names, services, round trip times
\* and the registry candidate do not influence the address and are left out.
Peer == [conf: Endpoint, addr: OptAddr, epoch: Nat, lan: OptAddr]

\* A peer read from mesh.toml or from an imported card.
New(a) == [conf |-> a, addr |-> NoAddr, epoch |-> 0, lan |-> NoAddr]

\* A peer first heard of from a packet or from gossip.
FromGossip(a, e, lan) == [conf |-> a, addr |-> a, epoch |-> e, lan |-> lan]

CurrentSendAddr(r) == IF r.addr # NoAddr THEN r.addr ELSE r.conf

\* Direct observation overwrites, whatever the stored epoch is.
Observe(r, a, now) == [r EXCEPT !.addr = a, !.epoch = now]

\* Faulty variants: a tie is fresh enough, and anything is.
ObserveEpochOrTie(r, a, e) ==
  IF e >= r.epoch THEN [r EXCEPT !.addr = a, !.epoch = e] ELSE r
ObserveEpochAlways(r, a, e) == [r EXCEPT !.addr = a, !.epoch = e]

\* Second-hand information is applied only when strictly fresher.
ObserveEpoch(r, a, e) ==
  IF e > r.epoch THEN [r EXCEPT !.addr = a, !.epoch = e] ELSE r

\* A LAN candidate is overwritten, never erased, by gossip.
SetLanCandidate(r, lan) == IF lan = NoAddr THEN r ELSE [r EXCEPT !.lan = lan]

\* What the keepalive ticker probes: each distinct candidate once.
PingTargets(r) == {CurrentSendAddr(r), r.lan} \ {NoAddr}
=============================================================================
