-------------------------- MODULE MeshGossipProofs --------------------------
(***************************************************************************)
(* Theorems of MeshGossip, for every number of nodes, every set of         *)
(* endpoints, delay, clock skew, table size and clock bound.               *)
(***************************************************************************)
EXTENDS MeshGossip, TLAPS

(* The network. *)

\* Whatever a burst loses, nothing but the burst is added to the network.
LEMMA SendAdds ==
  ASSUME NEW burst, Send(burst)
  PROVE  net' \subseteq net \cup burst
  BY DEF Send

\* The source address a packet shows is one of the sender.
LEMMA SourceOwn ==
  ASSUME NEW n \in Node, NEW dst, TypeOK
  PROVE  /\ Source(n, dst) \in Endpoint
         /\ Source(n, dst) \in {pub[n], Lan[n]}
  BY MeshAssumption DEF Source, TypeOK, OptAddr

(* What is honest stays honest when history grows and time passes. *)

LEMMA EverGrows ==
  ASSUME NEW h, NEW g, h \subseteq g, NEW p, NEW a, Ever(h, p, a)
  PROVE  Ever(g, p, a)
  BY DEF Ever

LEMMA HonestGrows ==
  ASSUME NEW h, NEW g, h \subseteq g, NEW t \in Nat, NEW u \in Nat, t <= u,
         NEW p, NEW a, NEW e \in Nat, Honest(h, t, p, a, e)
  PROVE  Honest(g, u, p, a, e)
  BY EverGrows, MeshAssumption DEF Honest

LEMMA HonestWasThere ==
  ASSUME NEW h, NEW t, NEW p, NEW a, NEW e, Honest(h, t, p, a, e)
  PROVE  Ever(h, p, a)
  BY DEF Honest, Ever

LEMMA HonestTableGrows ==
  ASSUME NEW h, NEW g, h \subseteq g, NEW t \in Nat, NEW u \in Nat, t <= u,
         NEW tb \in [Node -> Peer \cup {NoPeer}], HonestTable(h, t, tb)
  PROVE  HonestTable(g, u, tb)
  <1> SUFFICES ASSUME NEW p \in Node, tb[p] # NoPeer
               PROVE  IF tb[p].addr = NoAddr THEN tb[p].epoch = 0 /\ Ever(g, p, tb[p].conf)
                      ELSE Honest(g, u, p, tb[p].addr, tb[p].epoch)
    BY DEF HonestTable
  <1>1. tb[p].epoch \in Nat
    BY DEF Peer
  <1>2. IF tb[p].addr = NoAddr THEN tb[p].epoch = 0 /\ Ever(h, p, tb[p].conf)
        ELSE Honest(h, t, p, tb[p].addr, tb[p].epoch)
    BY DEF HonestTable
  <1> QED
    BY <1>1, <1>2, EverGrows, HonestGrows

LEMMA HonestEntriesGrow ==
  ASSUME NEW h, NEW g, h \subseteq g, NEW t \in Nat, NEW u \in Nat, t <= u,
         NEW es \in [Node -> Entry \cup {NoPeer}], HonestEntries(h, t, es)
  PROVE  HonestEntries(g, u, es)
  <1> SUFFICES ASSUME NEW p \in Node, es[p] # NoPeer
               PROVE  Honest(g, u, p, es[p].addr, es[p].epoch)
    BY DEF HonestEntries
  <1>1. es[p].epoch \in Nat
    BY DEF Entry
  <1> QED
    BY <1>1, HonestGrows DEF HonestEntries

(* What a node puts on the network is honest when its own memory is. *)

LEMMA SendAddrTyped ==
  ASSUME NEW r \in Peer
  PROVE  CurrentSendAddr(r) \in Endpoint
  BY DEF CurrentSendAddr, Peer, OptAddr

LEMMA BuildHonest ==
  ASSUME TypeOK, AllHonest, NEW n \in Node, NEW mine \in [addr: OptAddr, epoch: Nat],
         mine.addr # NoAddr => Honest(where, clock, n, mine.addr, mine.epoch)
  PROVE  /\ BuildLocalGossipEntries(n, mine) \in [Node -> Entry \cup {NoPeer}]
         /\ HonestEntries(where, clock, BuildLocalGossipEntries(n, mine))
  <1> DEFINE es == BuildLocalGossipEntries(n, mine)
             own == [addr |-> mine.addr, epoch |-> mine.epoch, lan |-> Lan[n]]
             of(p) == [addr |-> CurrentSendAddr(peers[n][p]),
                       epoch |-> peers[n][p].epoch, lan |-> peers[n][p].lan]
  <1>1. mine.addr # NoAddr => own \in Entry
    BY MeshAssumption DEF Entry, OptAddr
  <1>2. ASSUME NEW p \in Node, peers[n][p] # NoPeer
        PROVE  of(p) \in Entry /\ Honest(where, clock, p, of(p).addr, of(p).epoch)
    <2>1. peers[n][p] \in Peer
      BY <1>2 DEF TypeOK
    <2>2. of(p) \in Entry
      BY <2>1, SendAddrTyped DEF Entry, Peer
    <2>3. CASE peers[n][p].addr = NoAddr
      <3>1. peers[n][p].epoch = 0 /\ Ever(where, p, peers[n][p].conf)
        BY <2>3, <1>2 DEF AllHonest, HonestTable
      <3> QED
        BY <3>1, <2>2, <2>3, MeshAssumption DEF Honest, CurrentSendAddr, TypeOK
    <2>4. CASE peers[n][p].addr # NoAddr
      BY <2>2, <2>4, <1>2 DEF AllHonest, HonestTable, CurrentSendAddr
    <2> QED
      BY <2>3, <2>4
  <1>3. \A p \in Node : es[p] = IF p = n THEN IF mine.addr = NoAddr THEN NoPeer ELSE own
                              ELSE IF peers[n][p] = NoPeer THEN NoPeer ELSE of(p)
    BY DEF BuildLocalGossipEntries
  <1>4. es \in [Node -> Entry \cup {NoPeer}]
    <2>1. \A p \in Node : es[p] \in Entry \cup {NoPeer}
      BY <1>1, <1>2, <1>3
    <2> QED
      BY <2>1 DEF BuildLocalGossipEntries
  <1>5. HonestEntries(where, clock, es)
    <2> SUFFICES ASSUME NEW p \in Node, es[p] # NoPeer
                 PROVE  Honest(where, clock, p, es[p].addr, es[p].epoch)
      BY DEF HonestEntries
    <2>1. CASE p = n
      <3>1. es[n] = IF mine.addr = NoAddr THEN NoPeer ELSE own
        BY <1>3
      <3>2. mine.addr # NoAddr
        BY <3>1, <2>1
      <3>3. es[p] = own
        BY <3>1, <3>2, <2>1
      <3>4. es[p].addr = mine.addr /\ es[p].epoch = mine.epoch
        BY <3>3
      <3>5. Honest(where, clock, n, mine.addr, mine.epoch)
        BY <3>2
      <3> HIDE DEF es
      <3> QED
        BY <2>1, <3>4, <3>5
    <2>2. CASE p # n
      BY <2>2, <1>2, <1>3
    <2> QED
      BY <2>1, <2>2
  <1> QED
    BY <1>4, <1>5

LEMMA DatagramHonest ==
  ASSUME IInv, NEW n \in Node, NEW kind \in {"ping", "pong", "data", "gossip"},
         NEW dst \in Endpoint, NEW es \in [Node -> Entry \cup {NoPeer}],
         HonestEntries(where, clock, es)
  PROVE  /\ Datagram(n, kind, dst, es) \in Packet
         /\ HonestPacket(where, clock, Datagram(n, kind, dst, es))
  <1>1. Source(n, dst) \in Endpoint /\ Source(n, dst) \in {pub[n], Lan[n]}
    BY SourceOwn DEF IInv
  <1>2. clock \in Nat /\ [node |-> n, addr |-> pub[n], at |-> clock] \in where
    BY DEF IInv, TypeOK, HistoryCurrent, PlacesAt
  <1>3. Datagram(n, kind, dst, es) \in Packet
    BY <1>1, <1>2 DEF Datagram, Packet
  <1>4. HonestPacket(where, clock, Datagram(n, kind, dst, es))
    BY <1>1, <1>2, MeshAssumption DEF Datagram, HonestPacket
  <1> QED
    BY <1>3, <1>4

LEMMA NoEntriesHonest ==
  /\ NoEntries \in [Node -> Entry \cup {NoPeer}]
  /\ HonestEntries(where, clock, NoEntries)
  BY DEF NoEntries, HonestEntries

LEMMA BurstHonest ==
  ASSUME IInv, NEW burst, Send(burst),
         \A m \in burst : m \in Packet /\ HonestPacket(where, clock, m)
  PROVE  /\ net' \subseteq Packet
         /\ \A m \in net' : HonestPacket(where, clock, m)
  BY SendAdds DEF IInv, TypeOK, AllHonest

LEMMA GossipBurstHonest ==
  ASSUME IInv, NEW n \in Node, NEW mine \in [addr: OptAddr, epoch: Nat],
         mine.addr # NoAddr => Honest(where, clock, n, mine.addr, mine.epoch),
         SendGossipBurst(n, mine)
  PROVE  /\ net' \subseteq Packet
         /\ \A m \in net' : HonestPacket(where, clock, m)
  <1> DEFINE es == BuildLocalGossipEntries(n, mine)
             burst == {Datagram(n, "gossip", CurrentSendAddr(peers[n][p]), es) : p \in Known(n)}
  <1>1. es \in [Node -> Entry \cup {NoPeer}] /\ HonestEntries(where, clock, es)
    BY BuildHonest DEF IInv
  <1>2. \A p \in Known(n) : CurrentSendAddr(peers[n][p]) \in Endpoint
    BY SendAddrTyped DEF Known, IInv, TypeOK
  <1> HIDE DEF es
  <1>3. \A m \in burst : m \in Packet /\ HonestPacket(where, clock, m)
    BY <1>1, <1>2, DatagramHonest
  <1>4. Send(burst)
    BY DEF SendGossipBurst, es
  <1> HIDE DEF burst
  <1> QED
    BY <1>3, <1>4, BurstHonest

(* What a node learns from an honest packet is honest. *)

LEMMA LearnedHonest ==
  ASSUME IInv, NEW n \in Node, NEW m \in net
  PROVE  /\ Learned(n, m) \in [Node -> Peer \cup {NoPeer}]
         /\ HonestTable(where, clock, Learned(n, m))
  <1> DEFINE r == IF m.from \in Known(n) THEN peers[n][m.from]
                  ELSE FromGossip(m.src, Now(n), NoAddr)
             o == Observe(r, m.src, Now(n))
  <1>1. m \in Packet /\ HonestPacket(where, clock, m) /\ m.from \in Node /\ m.src \in Endpoint
        /\ m.at \in Nat
    BY DEF IInv, TypeOK, AllHonest, Packet
  <1>2. clock \in Nat /\ Now(n) \in Nat /\ clock <= Now(n) /\ Now(n) <= clock + MaxSkew
    BY MeshAssumption DEF IInv, TypeOK, Now
  <1>3. r \in Peer
    BY <1>1, <1>2 DEF FromGossip, Peer, OptAddr, Known, IInv, TypeOK
  <1>4. o \in Peer /\ o.addr = m.src /\ o.epoch = Now(n)
    BY <1>1, <1>2, <1>3 DEF Observe, Peer, OptAddr
  <1>5. Honest(where, clock, m.from, m.src, Now(n))
    <2>1. CASE m.src = Lan[m.from]
      BY <2>1, <1>2 DEF Honest
    <2>2. CASE [node |-> m.from, addr |-> m.src, at |-> m.at] \in where
      <3>1. m.at <= clock /\ clock <= m.at + MaxDelay
        BY <1>1 DEF HonestPacket
      <3>2. m.at <= Now(n) /\ Now(n) <= m.at + MaxDelay + MaxSkew
        BY <3>1, <1>1, <1>2, MeshAssumption
      <3> DEFINE w == [node |-> m.from, addr |-> m.src, at |-> m.at]
      <3>3. w \in where /\ w.node = m.from /\ w.addr = m.src /\ w.at = m.at
        BY <2>2
      <3> HIDE DEF w
      <3> QED
        BY <3>2, <3>3, <1>2 DEF Honest
    <2> QED
      BY <2>1, <2>2, <1>1 DEF HonestPacket
  <1>6. Learned(n, m) = [peers[n] EXCEPT ![m.from] = o]
    BY DEF Learned
  <1>7. peers[n] \in [Node -> Peer \cup {NoPeer}] /\ HonestTable(where, clock, peers[n])
    BY DEF IInv, TypeOK, AllHonest
  <1> HIDE DEF o
  <1>8. HonestTable(where, clock, Learned(n, m))
    BY <1>1, <1>4, <1>5, <1>6, <1>7, NoAddrAssumption DEF HonestTable
  <1> QED
    BY <1>1, <1>4, <1>6, <1>7, <1>8

LEMMA MergeHonest ==
  ASSUME NEW h, NEW t, NEW p \in Node, NEW r \in Peer, NEW e \in Entry,
         IF r.addr = NoAddr THEN r.epoch = 0 /\ Ever(h, p, r.conf)
         ELSE Honest(h, t, p, r.addr, r.epoch),
         Honest(h, t, p, e.addr, e.epoch)
  PROVE  /\ Merge(r, e) \in Peer
         /\ IF Merge(r, e).addr = NoAddr
            THEN Merge(r, e).epoch = 0 /\ Ever(h, p, Merge(r, e).conf)
            ELSE Honest(h, t, p, Merge(r, e).addr, Merge(r, e).epoch)
  <1> DEFINE s == SetLanCandidate(r, e.lan)
  <1>1. s \in Peer /\ s.addr = r.addr /\ s.epoch = r.epoch /\ s.conf = r.conf
    BY DEF SetLanCandidate, Peer, Entry
  <1> HIDE DEF s
  <1>2. CASE e.epoch > s.epoch
    <2>1. Merge(r, e) = [s EXCEPT !.addr = e.addr, !.epoch = e.epoch]
      BY <1>2 DEF Merge, ObserveEpoch, s
    <2>2. Merge(r, e) \in Peer /\ Merge(r, e).addr = e.addr /\ Merge(r, e).epoch = e.epoch
      BY <1>1, <2>1 DEF Peer, Entry, OptAddr
    <2>3. e.addr # NoAddr
      BY NoAddrAssumption DEF Entry
    <2> QED
      BY <2>2, <2>3
  <1>3. CASE ~(e.epoch > s.epoch)
    <2>1. Merge(r, e) = s
      BY <1>3 DEF Merge, ObserveEpoch, s
    <2> QED
      BY <1>1, <2>1
  <1> QED
    BY <1>2, <1>3

LEMMA AppliedHonest ==
  ASSUME IInv, NEW n \in Node, NEW fresh \in SUBSET Node,
         NEW tb \in [Node -> Peer \cup {NoPeer}], HonestTable(where, clock, tb),
         NEW es \in [Node -> Entry \cup {NoPeer}], HonestEntries(where, clock, es)
  PROVE  /\ Applied(n, tb, es, fresh) \in [Node -> Peer \cup {NoPeer}]
         /\ HonestTable(where, clock, Applied(n, tb, es, fresh))
  <1> DEFINE ap == Applied(n, tb, es, fresh)
             ok(p, r) == r # NoPeer =>
                           IF r.addr = NoAddr THEN r.epoch = 0 /\ Ever(where, p, r.conf)
                           ELSE Honest(where, clock, p, r.addr, r.epoch)
  <1>1. ASSUME NEW p \in Node
        PROVE  ap[p] \in Peer \cup {NoPeer} /\ ok(p, ap[p])
    <2>1. tb[p] \in Peer \cup {NoPeer} /\ ok(p, tb[p])
      BY DEF HonestTable
    <2>2. CASE p = n \/ es[p] = NoPeer
      <3>1. ap[p] = tb[p]
        BY <2>2 DEF Applied
      <3> QED
        BY <2>1, <3>1
    <2>3. CASE ~(p = n \/ es[p] = NoPeer)
      <3>1. es[p] \in Entry /\ Honest(where, clock, p, es[p].addr, es[p].epoch)
        BY <2>3 DEF HonestEntries
      <3>2. CASE p \in fresh
        <4> DEFINE f == FromGossip(es[p].addr, es[p].epoch, es[p].lan)
        <4>1. ap[p] = f
          BY <2>3, <3>2 DEF Applied
        <4>2. f \in Peer /\ f.addr = es[p].addr /\ f.epoch = es[p].epoch /\ f.addr # NoAddr
          BY <3>1, NoAddrAssumption DEF FromGossip, Peer, Entry, OptAddr
        <4> HIDE DEF f, ap
        <4> QED
          BY <4>1, <4>2, <3>1
      <3>3. CASE p \notin fresh /\ tb[p] = NoPeer
        <4>1. ap[p] = NoPeer
          BY <2>3, <3>3 DEF Applied
        <4> QED
          BY <4>1
      <3>4. CASE p \notin fresh /\ tb[p] # NoPeer
        <4>1. ap[p] = Merge(tb[p], es[p])
          BY <2>3, <3>4 DEF Applied
        <4> HIDE DEF ap
        <4> QED
          BY <4>1, <2>1, <3>1, <3>4, MergeHonest
      <3> QED
        BY <3>2, <3>3, <3>4
    <2> QED
      BY <2>2, <2>3
  <1>2. ap \in [Node -> Peer \cup {NoPeer}]
    <2>1. ap = [p \in Node |-> ap[p]]
      BY DEF Applied
    <2> HIDE DEF ap
    <2> QED
      BY <1>1, <2>1
  <1> HIDE DEF ap
  <1>3. HonestTable(where, clock, ap)
    BY <1>1 DEF HonestTable
  <1> QED
    BY <1>2, <1>3 DEF ap

(* The inductive invariant. *)

LEMMA InitIInv ==
  ASSUME Init PROVE IInv
  <1>1. \A n, p \in Node : disk[n][p] # NoAddr => disk[n][p] = pub[p]
    BY DEF Init
  <1>2. pub \in [Node -> Endpoint] /\ disk \in [Node -> [Node -> OptAddr]]
    BY DEF Init, PublicAddr, OptAddr
  <1>3. ASSUME NEW p \in Node PROVE Ever(where, p, pub[p])
    <2> DEFINE r == [node |-> p, addr |-> pub[p], at |-> 1]
    <2>1. r \in where
      BY DEF Init, PlacesAt
    <2>2. r.node = p /\ r.addr = pub[p]
      OBVIOUS
    <2> HIDE DEF r
    <2> QED
      BY <2>1, <2>2 DEF Ever
  <1>4. \A n, p \in Node : peers[n][p] = IF disk[n][p] = NoAddr THEN NoPeer ELSE New(disk[n][p])
    BY DEF Init, LoadPeers
  <1>5. \A a \in Endpoint : New(a) \in Peer /\ New(a).addr = NoAddr
                           /\ New(a).epoch = 0 /\ New(a).conf = a
    BY DEF New, Peer, OptAddr
  <1>6. TypeOK
    <2>1. peers \in [Node -> [Node -> Peer \cup {NoPeer}]]
      <3>1. \A n, p \in Node : peers[n][p] \in Peer \cup {NoPeer}
        BY <1>2, <1>4, <1>5 DEF OptAddr
      <3>2. \A n \in Node : peers[n] = [p \in Node |-> peers[n][p]]
        BY DEF Init, LoadPeers
      <3>3. peers = [n \in Node |-> peers[n]]
        BY DEF Init
      <3> QED
        BY <3>1, <3>2, <3>3
    <2>2. where \subseteq Place
      BY <1>2 DEF Init, PlacesAt, Place
    <2> QED
      BY <1>2, <2>1, <2>2 DEF TypeOK, Init, NoSelf, OptAddr
  <1>7. HistoryCurrent
    BY DEF HistoryCurrent, Init, PlacesAt
  <1>8. AllHonest
    <2>1. \A n, p \in Node : peers[n][p] # NoPeer =>
            peers[n][p].addr = NoAddr /\ peers[n][p].epoch = 0 /\ Ever(where, p, peers[n][p].conf)
      BY <1>1, <1>2, <1>3, <1>4, <1>5 DEF OptAddr
    <2>2. \A n \in Node : HonestTable(where, clock, peers[n])
      BY <2>1 DEF HonestTable
    <2> QED
      BY <1>1, <1>3, <2>2 DEF AllHonest, Init, NoSelf
  <1> QED
    BY <1>6, <1>7, <1>8 DEF IInv

\* A step that does not move anybody has to keep what it writes honest.
LEMMA StillStep ==
  ASSUME IInv, UNCHANGED <<clock, pub, where>>,
         net' \subseteq Packet, \A m \in net' : HonestPacket(where, clock, m),
         peers' \in [Node -> [Node -> Peer \cup {NoPeer}]],
         \A n \in Node : HonestTable(where, clock, peers'[n]),
         disk' \in [Node -> [Node -> OptAddr]],
         \A n, p \in Node : disk'[n][p] # NoAddr => Ever(where, p, disk'[n][p]),
         self' \in [Node -> [addr: OptAddr, epoch: Nat]],
         \A n \in Node : self'[n].addr # NoAddr
                         => Honest(where, clock, n, self'[n].addr, self'[n].epoch)
  PROVE  IInv'
  <1>1. TypeOK'
    BY DEF IInv, TypeOK
  <1>2. HistoryCurrent'
    BY DEF IInv, HistoryCurrent, PlacesAt
  <1>3. AllHonest'
    BY DEF AllHonest
  <1> QED
    BY <1>1, <1>2, <1>3 DEF IInv

\* A step that moves somebody, or time, only adds to the history.
LEMMA MovingStep ==
  ASSUME IInv, TypeOK', HistoryCurrent', where \subseteq where', clock <= clock',
         net' \subseteq net, \A m \in net' : clock' <= m.at + MaxDelay,
         UNCHANGED mem
  PROVE  IInv'
  <1>1. clock \in Nat /\ clock' \in Nat
    BY DEF IInv, TypeOK
  <1>2. ASSUME NEW m \in net' PROVE HonestPacket(where', clock', m)
    <2>1. m \in Packet /\ HonestPacket(where, clock, m) /\ m.at \in Nat
          /\ m.entries \in [Node -> Entry \cup {NoPeer}]
      BY <1>2 DEF IInv, AllHonest, TypeOK, Packet
    <2>2. HonestEntries(where', clock', m.entries)
      BY <1>1, <2>1, HonestEntriesGrow DEF HonestPacket
    <2> QED
      BY <1>1, <1>2, <2>1, <2>2 DEF HonestPacket
  <1>3. ASSUME NEW n \in Node
        PROVE  /\ HonestTable(where', clock', peers[n])
               /\ \A p \in Node : disk[n][p] # NoAddr => Ever(where', p, disk[n][p])
               /\ self[n].addr # NoAddr => Honest(where', clock', n, self[n].addr, self[n].epoch)
    <2>1. HonestTable(where', clock', peers[n])
      BY <1>1, HonestTableGrows DEF IInv, AllHonest, TypeOK
    <2>2. \A p \in Node : disk[n][p] # NoAddr => Ever(where', p, disk[n][p])
      BY EverGrows DEF IInv, AllHonest
    <2>3. self[n].epoch \in Nat
      BY DEF IInv, TypeOK
    <2>4. self[n].addr # NoAddr => Honest(where', clock', n, self[n].addr, self[n].epoch)
      BY <1>1, <2>3, HonestGrows DEF IInv, AllHonest
    <2> QED
      BY <2>1, <2>2, <2>4
  <1> QED
    BY <1>2, <1>3 DEF IInv, AllHonest, mem

\* At the present, a node's public endpoint and its LAN endpoint are honest.
LEMMA PresentHonest ==
  ASSUME IInv, NEW n \in Node
  PROVE  Honest(where, clock, n, pub[n], Now(n))
  <1> DEFINE r == [node |-> n, addr |-> pub[n], at |-> clock]
  <1>1. r \in where
    BY DEF IInv, HistoryCurrent, PlacesAt
  <1>2. r.node = n /\ r.addr = pub[n] /\ r.at = clock
    OBVIOUS
  <1>3. clock \in Nat /\ Now(n) \in Nat /\ clock <= Now(n) /\ Now(n) <= clock + MaxSkew
    BY MeshAssumption DEF IInv, TypeOK, Now
  <1> HIDE DEF r
  <1> QED
    BY <1>1, <1>2, <1>3, MeshAssumption DEF Honest

LEMMA TickStep ==
  ASSUME IInv, Tick PROVE IInv'
  <1>1. TypeOK'
    BY DEF IInv, Tick, TypeOK, PlacesAt, Place, mem
  <1>2. HistoryCurrent'
    <2>1. \A r \in PlacesAt(clock + 1, pub) : r.at = clock + 1
      BY DEF PlacesAt
    <2>2. \A r \in where : r.at \in Nat /\ r.at <= clock
      BY DEF IInv, TypeOK, Place, HistoryCurrent
    <2>3. clock \in Nat
      BY DEF IInv, TypeOK
    <2>4. where' = where \cup PlacesAt(clock + 1, pub) /\ clock' = clock + 1 /\ pub' = pub
      BY DEF Tick
    <2>5. PlacesAt(clock', pub') \subseteq where'
      BY <2>4
    <2>6. \A r \in where' : r.at <= clock'
      BY <2>1, <2>2, <2>3, <2>4
    <2> QED
      BY <2>5, <2>6 DEF HistoryCurrent
  <1>3. clock \in Nat
    BY DEF IInv, TypeOK
  <1> QED
    BY <1>1, <1>2, <1>3, MovingStep DEF Tick

LEMMA RebindStep ==
  ASSUME IInv, NEW n \in Node, Rebind(n) PROVE IInv'
  <1>1. PICK a \in PublicAddr :
          /\ pub' = [pub EXCEPT ![n] = a]
          /\ where' = where \cup {[node |-> n, addr |-> a, at |-> clock]}
    BY DEF Rebind
  <1>2. UNCHANGED <<clock, mem, net>>
    BY DEF Rebind
  <1>3. TypeOK'
    BY <1>1, <1>2 DEF IInv, TypeOK, mem, Place, PublicAddr
  <1>4. HistoryCurrent'
    <2>1. \A q \in Node : [node |-> q, addr |-> pub'[q], at |-> clock] \in where'
      BY <1>1 DEF IInv, TypeOK, HistoryCurrent, PlacesAt
    <2>2. \A r \in where' : r.at <= clock
      BY <1>1 DEF IInv, TypeOK, HistoryCurrent
    <2> QED
      BY <1>2, <2>1, <2>2 DEF HistoryCurrent, PlacesAt
  <1>5. clock \in Nat /\ \A m \in net : clock <= m.at + MaxDelay
    BY DEF IInv, TypeOK, AllHonest, HonestPacket
  <1> QED
    BY <1>1, <1>2, <1>3, <1>4, <1>5, MovingStep

\* Threads that only send.
LEMMA SendStep ==
  ASSUME IInv, NEW burst, Send(burst), UNCHANGED <<clock, pub, where, mem>>,
         \A m \in burst : m \in Packet /\ HonestPacket(where, clock, m)
  PROVE  IInv'
  <1>1. net' \subseteq Packet /\ \A m \in net' : HonestPacket(where, clock, m)
    BY BurstHonest
  <1> QED
    BY <1>1, StillStep DEF IInv, TypeOK, AllHonest, mem

LEMMA KeepaliveStep ==
  ASSUME IInv, NEW n \in Node, Keepalive(n) PROVE IInv'
  <1> DEFINE dsts == UNION {PingTargets(peers[n][p]) : p \in Known(n)}
             burst == {Datagram(n, "ping", a, NoEntries) : a \in dsts}
  <1>1. \A p \in Known(n) : PingTargets(peers[n][p]) \subseteq Endpoint
    BY SendAddrTyped DEF PingTargets, Known, IInv, TypeOK, Peer, OptAddr
  <1>2. \A m \in burst : m \in Packet /\ HonestPacket(where, clock, m)
    BY <1>1, NoEntriesHonest, DatagramHonest
  <1>3. Send(burst) /\ UNCHANGED <<clock, pub, where, mem>>
    BY DEF Keepalive
  <1> HIDE DEF burst
  <1> QED
    BY <1>2, <1>3, SendStep

LEMMA TunToUdpStep ==
  ASSUME IInv, NEW n \in Node, TunToUdp(n) PROVE IInv'
  <1> DEFINE burst(ps) ==
               {Datagram(n, "data", CurrentSendAddr(peers[n][p]), NoEntries) : p \in ps}
  <1>1. PICK ps \in {{p} : p \in Known(n)} \cup {Known(n)} : Send(burst(ps))
    BY DEF TunToUdp
  <1>2. \A p \in ps : CurrentSendAddr(peers[n][p]) \in Endpoint
    BY SendAddrTyped DEF Known, IInv, TypeOK
  <1>3. \A m \in burst(ps) : m \in Packet /\ HonestPacket(where, clock, m)
    BY <1>2, NoEntriesHonest, DatagramHonest
  <1>4. UNCHANGED <<clock, pub, where, mem>>
    BY DEF TunToUdp
  <1> HIDE DEF burst
  <1> QED
    BY <1>1, <1>3, <1>4, SendStep

LEMMA GossipStep ==
  ASSUME IInv, NEW n \in Node, Gossip(n) PROVE IInv'
  <1>1. self[n] \in [addr: OptAddr, epoch: Nat]
        /\ (self[n].addr # NoAddr => Honest(where, clock, n, self[n].addr, self[n].epoch))
    BY DEF IInv, TypeOK, AllHonest
  <1>2. net' \subseteq Packet /\ \A m \in net' : HonestPacket(where, clock, m)
    BY <1>1, GossipBurstHonest DEF Gossip
  <1> QED
    BY <1>2, StillStep DEF IInv, TypeOK, AllHonest, Gossip, mem

LEMMA SelfStunStep ==
  ASSUME IInv, NEW n \in Node, SelfStun(n) PROVE IInv'
  <1> DEFINE mine == [addr |-> pub[n], epoch |-> Now(n)]
  <1>1. mine \in [addr: OptAddr, epoch: Nat]
    BY MeshAssumption DEF IInv, TypeOK, Now, OptAddr
  <1>2. Honest(where, clock, n, mine.addr, mine.epoch)
    BY PresentHonest
  <1>3. net' \subseteq Packet /\ \A m \in net' : HonestPacket(where, clock, m)
    <2>1. CASE SendGossipBurst(n, mine)
      BY <1>1, <1>2, <2>1, GossipBurstHonest
    <2>2. CASE net' = net
      BY <2>2 DEF IInv, TypeOK, AllHonest
    <2> QED
      BY <2>1, <2>2 DEF SelfStun
  <1>4. self' = [self EXCEPT ![n] = mine] /\ UNCHANGED <<clock, pub, where, peers, disk>>
    BY DEF SelfStun
  <1> HIDE DEF mine
  <1>5. self' \in [Node -> [addr: OptAddr, epoch: Nat]]
        /\ \A q \in Node : self'[q].addr # NoAddr
                          => Honest(where, clock, q, self'[q].addr, self'[q].epoch)
    BY <1>1, <1>2, <1>4 DEF IInv, TypeOK, AllHonest
  <1> QED
    BY <1>3, <1>4, <1>5, StillStep DEF IInv, TypeOK, AllHonest

\* SavedSender writes an address the sender had.
LEMMA SavedSenderHonest ==
  ASSUME IInv, NEW n \in Node, NEW m \in net
  PROVE  /\ m.from \in Node /\ m.src \in Endpoint
         /\ SavedSender(n, m) \in [Node -> OptAddr]
         /\ \A p \in Node : SavedSender(n, m)[p] # NoAddr
                         => Ever(where, p, SavedSender(n, m)[p])
  <1>1. m.from \in Node /\ m.src \in Endpoint
    BY DEF IInv, TypeOK, Packet
  <1>2. Ever(where, m.from, m.src)
    <2>1. m.src = Lan[m.from] \/ [node |-> m.from, addr |-> m.src, at |-> m.at] \in where
      BY DEF IInv, AllHonest, HonestPacket
    <2> DEFINE w == [node |-> m.from, addr |-> m.src, at |-> m.at]
    <2>2. w.node = m.from /\ w.addr = m.src
      OBVIOUS
    <2> HIDE DEF w
    <2> QED
      BY <2>1, <2>2 DEF Ever, w
  <1>3. disk[n] \in [Node -> OptAddr]
        /\ \A p \in Node : disk[n][p] # NoAddr => Ever(where, p, disk[n][p])
    BY DEF IInv, TypeOK, AllHonest
  <1> QED
    BY <1>1, <1>2, <1>3 DEF SavedSender, OptAddr

\* A receive step writes one table and one mesh.toml.
LEMMA ReceiveWrites ==
  ASSUME IInv, NEW n \in Node, NEW tb \in [Node -> Peer \cup {NoPeer}],
         HonestTable(where, clock, tb), NEW cfg \in [Node -> OptAddr],
         \A p \in Node : cfg[p] # NoAddr => Ever(where, p, cfg[p]),
         peers' = [peers EXCEPT ![n] = tb], disk' = [disk EXCEPT ![n] = cfg],
         UNCHANGED <<clock, pub, where, self>>,
         net' \subseteq Packet, \A m \in net' : HonestPacket(where, clock, m)
  PROVE  IInv'
  <1>1. peers' \in [Node -> [Node -> Peer \cup {NoPeer}]] /\ disk' \in [Node -> [Node -> OptAddr]]
    BY DEF IInv, TypeOK
  <1>2. ASSUME NEW q \in Node
        PROVE  /\ HonestTable(where, clock, peers'[q])
               /\ \A p \in Node : disk'[q][p] # NoAddr => Ever(where, p, disk'[q][p])
    BY DEF IInv, TypeOK, AllHonest
  <1> QED
    BY <1>1, <1>2, StillStep DEF IInv, TypeOK, AllHonest

LEMMA NetUnchanged ==
  ASSUME IInv, net' = net
  PROVE  net' \subseteq Packet /\ \A m \in net' : HonestPacket(where, clock, m)
  BY DEF IInv, TypeOK, AllHonest

LEMMA RecvPingStep ==
  ASSUME IInv, NEW n \in Node, NEW m \in net, RecvPing(n, m) PROVE IInv'
  <1> DEFINE pong == Datagram(n, "pong", m.src, NoEntries)
  <1>1. pong \in Packet /\ HonestPacket(where, clock, pong)
    BY SavedSenderHonest, NoEntriesHonest, DatagramHonest
  <1>2. Send({pong})
    BY DEF RecvPing
  <1>3. net' \subseteq Packet /\ \A k \in net' : HonestPacket(where, clock, k)
    <2> HIDE DEF pong
    <2> QED
      BY <1>1, <1>2, BurstHonest
  <1> QED
    BY <1>3, LearnedHonest, SavedSenderHonest, ReceiveWrites DEF RecvPing

LEMMA RecvOtherStep ==
  ASSUME IInv, NEW n \in Node, NEW m \in net, RecvOther(n, m) PROVE IInv'
  BY NetUnchanged, LearnedHonest, SavedSenderHonest, ReceiveWrites DEF RecvOther

LEMMA HonestTableSend ==
  ASSUME NEW h, NEW t, NEW tb \in [Node -> Peer \cup {NoPeer}], HonestTable(h, t, tb),
         NEW p \in Node, tb[p] # NoPeer
  PROVE  CurrentSendAddr(tb[p]) \in Endpoint /\ Ever(h, p, CurrentSendAddr(tb[p]))
  BY SendAddrTyped, HonestWasThere DEF HonestTable, CurrentSendAddr

\* Learning keeps every peer that was known.
LEMMA LearnedKeeps ==
  ASSUME IInv, NEW n \in Node, NEW m \in net, NEW p \in Known(n)
  PROVE  /\ Learned(n, m)[p] \in Peer
         /\ p # m.from => Learned(n, m)[p] = peers[n][p]
  <1>1. /\ peers[n] \in [Node -> Peer \cup {NoPeer}] /\ m.from \in Node
        /\ m.src \in Endpoint /\ Now(n) \in Nat /\ p \in Node /\ peers[n][p] \in Peer
    BY MeshAssumption DEF IInv, TypeOK, Packet, Now, Known
  <1>2. CASE p = m.from
    <2>1. Learned(n, m)[p] = Observe(peers[n][p], m.src, Now(n))
      BY <1>1, <1>2 DEF Learned
    <2> QED
      BY <1>1, <1>2, <2>1 DEF Observe, Peer, OptAddr
  <1>3. CASE p # m.from
    BY <1>1, <1>3 DEF Learned
  <1> QED
    BY <1>2, <1>3

\* What a payload changes, it changes into a peer; it never forgets one, and
\* leaves the configured address of a peer it does not add.
LEMMA AppliedKeeps ==
  ASSUME NEW n \in Node, NEW fresh, NEW tb \in [Node -> Peer \cup {NoPeer}],
         NEW es \in [Node -> Entry \cup {NoPeer}], NEW p \in Node,
         tb[p] # NoPeer \/ Applied(n, tb, es, fresh)[p] # tb[p]
  PROVE  /\ Applied(n, tb, es, fresh)[p] \in Peer
         /\ p \notin fresh /\ tb[p] # NoPeer
            => Applied(n, tb, es, fresh)[p].conf = tb[p].conf
  <1> DEFINE ap == Applied(n, tb, es, fresh)
  <1>1. CASE p = n \/ es[p] = NoPeer
    <2>1. ap[p] = tb[p]
      BY <1>1 DEF Applied
    <2> QED
      BY <2>1
  <1>2. CASE p \in fresh /\ ~(p = n \/ es[p] = NoPeer)
    <2>1. ap[p] = FromGossip(es[p].addr, es[p].epoch, es[p].lan) /\ es[p] \in Entry
      BY <1>2 DEF Applied
    <2> HIDE DEF ap
    <2> QED
      BY <1>2, <2>1 DEF FromGossip, Peer, Entry, OptAddr, ap
  <1>3. CASE p \notin fresh /\ ~(p = n \/ es[p] = NoPeer)
    <2>1. tb[p] # NoPeer /\ tb[p] \in Peer /\ es[p] \in Entry
      BY <1>3 DEF Applied
    <2>2. ap[p] = Merge(tb[p], es[p])
      BY <1>3, <2>1 DEF Applied
    <2> DEFINE r == SetLanCandidate(tb[p], es[p].lan)
    <2>3. r \in Peer /\ r.conf = tb[p].conf
      BY <2>1 DEF SetLanCandidate, Peer, Entry
    <2> HIDE DEF r
    <2>4. ap[p] = r \/ ap[p] = [r EXCEPT !.addr = es[p].addr, !.epoch = es[p].epoch]
      BY <2>2 DEF Merge, ObserveEpoch, r
    <2> HIDE DEF ap
    <2>5. ap[p] \in Peer /\ ap[p].conf = r.conf
      BY <2>1, <2>3, <2>4 DEF Peer, Entry, OptAddr
    <2> QED
      BY <2>1, <2>3, <2>5 DEF ap
  <1> QED
    BY <1>1, <1>2, <1>3

LEMMA RecvGossipStep ==
  ASSUME IInv, NEW n \in Node, NEW m \in net, RecvGossip(n, m) PROVE IInv'
  <1> DEFINE heard == Learned(n, m)
             about == {p \in Node \ {n} : m.entries[p] # NoPeer}
  <1>1. PICK fresh \in Room(n, about \ Known(n)), renamed \in SUBSET (about \cap Known(n)) :
          LET table == Applied(n, heard, m.entries, fresh) IN
          /\ peers' = [peers EXCEPT ![n] = table]
          /\ disk' = [disk EXCEPT ![n] = Saved(SavedSender(n, m), heard, table, renamed)]
    BY DEF RecvGossip
  <1> DEFINE table == Applied(n, heard, m.entries, fresh)
             cfg == Saved(SavedSender(n, m), heard, table, renamed)
  <1>2. heard \in [Node -> Peer \cup {NoPeer}] /\ HonestTable(where, clock, heard)
    BY LearnedHonest
  <1>3. m.entries \in [Node -> Entry \cup {NoPeer}] /\ HonestEntries(where, clock, m.entries)
    BY DEF IInv, TypeOK, AllHonest, Packet, HonestPacket
  <1>4. fresh \in SUBSET Node /\ fresh \subseteq about /\ fresh \cap Known(n) = {}
    BY <1>1 DEF Room
  <1> HIDE DEF heard
  <1>5. table \in [Node -> Peer \cup {NoPeer}] /\ HonestTable(where, clock, table)
    BY <1>2, <1>3, <1>4, AppliedHonest
  <1>6. ASSUME NEW p \in Node, p \in renamed \/ table[p] # heard[p]
        PROVE  table[p] # NoPeer
    <2>1. p \in renamed => heard[p] \in Peer
      BY <1>1, LearnedKeeps DEF heard
    <2>2. table[p] \in Peer
      BY <1>2, <1>3, <1>6, <2>1, AppliedKeeps, MeshAssumption
    <2> QED
      BY <2>2, MeshAssumption
  <1> HIDE DEF table
  <1>7. cfg \in [Node -> OptAddr]
        /\ \A p \in Node : cfg[p] # NoAddr => Ever(where, p, cfg[p])
    <2>1. ASSUME NEW p \in Node
          PROVE  cfg[p] \in OptAddr /\ (cfg[p] # NoAddr => Ever(where, p, cfg[p]))
      <3>1. CASE p \in renamed \/ table[p] # heard[p]
        <4>1. CurrentSendAddr(table[p]) \in Endpoint /\ Ever(where, p, CurrentSendAddr(table[p]))
          BY <1>5, <1>6, <3>1, HonestTableSend
        <4> QED
          BY <4>1, SavedSenderHonest DEF Saved, OptAddr
      <3>2. CASE ~(p \in renamed \/ table[p] # heard[p])
        BY <3>2, SavedSenderHonest DEF Saved
      <3> QED
        BY <3>1, <3>2
    <2>2. cfg = [p \in Node |-> cfg[p]]
      BY DEF Saved
    <2> HIDE DEF cfg
    <2> QED
      BY <2>1, <2>2
  <1>8. peers' = [peers EXCEPT ![n] = table] /\ disk' = [disk EXCEPT ![n] = cfg]
    BY <1>1 DEF table
  <1> HIDE DEF cfg
  <1> QED
    BY <1>5, <1>7, <1>8, NetUnchanged, ReceiveWrites DEF RecvGossip

LEMMA AddPeerLiveStep ==
  ASSUME IInv, NEW n \in Node, NEW p \in Node, NEW a \in Endpoint, AddPeerLive(n, p, a)
  PROVE  IInv'
  <1> DEFINE r == IF peers[n][p] = NoPeer THEN New(a) ELSE ObserveEpoch(peers[n][p], a, Now(n))
             tb == [peers[n] EXCEPT ![p] = r]
             cfg == [disk[n] EXCEPT ![p] = a]
  <1>1. Ever(where, p, a)
    BY DEF AddPeerLive, Ever
  <1>2. clock \in Nat /\ Now(n) \in Nat /\ Now(n) <= clock + MaxSkew
    BY MeshAssumption DEF IInv, TypeOK, Now
  <1>3. peers[n] \in [Node -> Peer \cup {NoPeer}] /\ disk[n] \in [Node -> OptAddr]
        /\ HonestTable(where, clock, peers[n])
        /\ \A q \in Node : disk[n][q] # NoAddr => Ever(where, q, disk[n][q])
    BY DEF IInv, TypeOK, AllHonest
  <1>4. r \in Peer /\ IF r.addr = NoAddr THEN r.epoch = 0 /\ Ever(where, p, r.conf)
                     ELSE Honest(where, clock, p, r.addr, r.epoch)
    <2>1. CASE peers[n][p] = NoPeer
      BY <1>1, <2>1 DEF New, Peer, OptAddr
    <2>2. CASE peers[n][p] # NoPeer
      <3> DEFINE o == peers[n][p]
      <3>1. o \in Peer /\ Reimports
            /\ IF o.addr = NoAddr THEN o.epoch = 0 /\ Ever(where, p, o.conf)
               ELSE Honest(where, clock, p, o.addr, o.epoch)
        BY <1>3, <2>2 DEF HonestTable, AddPeerLive, Known
      <3>2. r = o \/ r = [o EXCEPT !.addr = a, !.epoch = Now(n)]
        BY <2>2 DEF ObserveEpoch
      <3>3. Honest(where, clock, p, a, Now(n))
        BY <1>1, <1>2, <3>1 DEF Honest
      <3> HIDE DEF o, r
      <3>4. CASE r = o
        BY <3>1, <3>4
      <3>5. CASE r = [o EXCEPT !.addr = a, !.epoch = Now(n)]
        <4>1. r \in Peer /\ r.addr = a /\ r.epoch = Now(n) /\ a # NoAddr
          BY <1>2, <3>1, <3>5, NoAddrAssumption DEF Peer, OptAddr
        <4> QED
          BY <4>1, <3>3
      <3> QED
        BY <3>2, <3>4, <3>5
    <2> QED
      BY <2>1, <2>2
  <1>5. peers' = [peers EXCEPT ![n] = tb] /\ disk' = [disk EXCEPT ![n] = cfg]
    BY DEF AddPeerLive, IInv, TypeOK
  <1>6. UNCHANGED <<clock, pub, where, self>> /\ net' = net
    BY DEF AddPeerLive
  <1> HIDE DEF r
  <1>7. tb \in [Node -> Peer \cup {NoPeer}] /\ HonestTable(where, clock, tb)
    BY <1>3, <1>4 DEF HonestTable
  <1>8. cfg \in [Node -> OptAddr] /\ \A q \in Node : cfg[q] # NoAddr => Ever(where, q, cfg[q])
    BY <1>1, <1>3 DEF OptAddr
  <1> HIDE DEF tb, cfg
  <1> QED
    BY <1>5, <1>6, <1>7, <1>8, NetUnchanged, ReceiveWrites

LEMMA RestartStep ==
  ASSUME IInv, NEW n \in Node, Restart(n) PROVE IInv'
  <1> DEFINE tb == LoadPeers(disk[n])
  <1>1. disk[n] \in [Node -> OptAddr] /\ \A p \in Node : disk[n][p] # NoAddr => Ever(where, p, disk[n][p])
    BY DEF IInv, TypeOK, AllHonest
  <1>2. \A a \in Endpoint : New(a) \in Peer /\ New(a).addr = NoAddr
                           /\ New(a).epoch = 0 /\ New(a).conf = a
    BY DEF New, Peer, OptAddr
  <1>3. tb \in [Node -> Peer \cup {NoPeer}]
    BY <1>1, <1>2 DEF LoadPeers, OptAddr
  <1>4. HonestTable(where, clock, tb)
    BY <1>1, <1>2 DEF LoadPeers, OptAddr, HonestTable
  <1>5. peers' = [peers EXCEPT ![n] = tb] /\ self' = [self EXCEPT ![n] = NoSelf]
        /\ UNCHANGED <<clock, pub, where, disk, net>>
    BY DEF Restart
  <1> HIDE DEF tb
  <1>6. peers' \in [Node -> [Node -> Peer \cup {NoPeer}]]
        /\ \A q \in Node : HonestTable(where, clock, peers'[q])
    BY <1>3, <1>4, <1>5 DEF IInv, TypeOK, AllHonest
  <1>7. self' \in [Node -> [addr: OptAddr, epoch: Nat]]
        /\ \A q \in Node : self'[q].addr # NoAddr
                          => Honest(where, clock, q, self'[q].addr, self'[q].epoch)
    BY <1>5 DEF IInv, TypeOK, AllHonest, NoSelf, OptAddr
  <1> QED
    BY <1>5, <1>6, <1>7, NetUnchanged, StillStep DEF IInv, TypeOK, AllHonest

LEMMA NextIInv ==
  ASSUME IInv, [Next]_vars PROVE IInv'
  <1>1. CASE Tick
    BY <1>1, TickStep
  <1>2. ASSUME NEW n \in Node,
               Rebind(n) \/ Keepalive(n) \/ TunToUdp(n) \/ Gossip(n) \/ SelfStun(n) \/ Restart(n)
        PROVE  IInv'
    BY <1>2, RebindStep, KeepaliveStep, TunToUdpStep, GossipStep, SelfStunStep, RestartStep
  <1>3. ASSUME NEW n \in Node, NEW m \in net, Receive(n, m) PROVE IInv'
    BY <1>3, RecvPingStep, RecvOtherStep, RecvGossipStep DEF Receive
  <1>4. ASSUME NEW n \in Node, NEW p \in Node, NEW a \in Endpoint, AddPeerLive(n, p, a)
        PROVE  IInv'
    BY <1>4, AddPeerLiveStep
  <1>5. CASE UNCHANGED vars
    BY <1>5 DEF vars, IInv, TypeOK, HistoryCurrent, AllHonest, PlacesAt
  <1> QED
    BY <1>1, <1>2, <1>3, <1>4, <1>5 DEF Next

LEMMA AlwaysIInv == Spec => []IInv
  <1>1. Init => IInv
    BY InitIInv
  <1>2. IInv /\ [Next]_vars => IInv'
    BY NextIInv
  <1> QED
    BY <1>1, <1>2, PTL DEF Spec

\* Every handler keeps the tables, the saved configuration and the packets
\* well formed: no entry without an endpoint is ever sent to or saved.
THEOREM TypeCorrect == Spec => []TypeOK
  <1>1. IInv => TypeOK
    BY DEF IInv
  <1> QED
    BY <1>1, AlwaysIInv, PTL

\* No address is ever attributed to a peer that never had it, through any
\* number of gossip hops, losses, delays, restarts and imported cards.
THEOREM ProvenanceHolds == Spec => []Provenance
  <1>1. ASSUME IInv PROVE Provenance
    <2>1. \A n, p \in Node : peers[n][p] # NoPeer => Ever(where, p, CurrentSendAddr(peers[n][p]))
      BY <1>1, HonestTableSend DEF IInv, TypeOK, AllHonest
    <2>2. \A n \in Node : self[n].addr # NoAddr => Ever(where, n, self[n].addr)
      BY <1>1, HonestWasThere DEF IInv, AllHonest
    <2>3. \A m \in net : \A p \in Node :
            m.entries[p] # NoPeer => Ever(where, p, m.entries[p].addr)
      BY <1>1, HonestWasThere DEF IInv, AllHonest, HonestPacket, HonestEntries
    <2> QED
      BY <1>1, <2>1, <2>2, <2>3 DEF Provenance, IInv, AllHonest
  <1> QED
    BY <1>1, AlwaysIInv, PTL

\* The freshness order of gossip is sound: an entry stamped after the peer's
\* last move, packet delay and clock skew allowed for, is its address now.
THEOREM FreshMeansCurrentHolds == Spec => []FreshMeansCurrent
  <1>1. ASSUME IInv, ~Reimports, NEW n \in Node, NEW p \in Node,
               peers[n][p] # NoPeer, peers[n][p].addr # NoAddr,
               \A r \in where : r.node = p /\ r.addr # pub[p]
                              => r.at + MaxDelay + MaxSkew < peers[n][p].epoch
        PROVE  peers[n][p].addr \in {pub[p], Lan[p]}
    <2> DEFINE a == peers[n][p].addr
               e == peers[n][p].epoch
    <2>1. Honest(where, clock, p, a, e)
      BY <1>1 DEF IInv, AllHonest, HonestTable
    <2>2. e \in Nat
      BY <1>1 DEF IInv, TypeOK, Peer
    <2>3. CASE a = Lan[p]
      BY <2>3
    <2>4. CASE e = 0 /\ Ever(where, p, a)
      <3>1. CASE a # Lan[p]
        <4>1. PICK r \in where : r.node = p /\ r.addr = a
          BY <2>4, <3>1 DEF Ever
        <4>2. r.at \in Nat
          BY <1>1 DEF IInv, TypeOK, Place
        <4>3. ~(r.at + MaxDelay + MaxSkew < e)
          BY <2>4, <4>2, MeshAssumption
        <4>4. r.addr = pub[p]
          BY <1>1, <4>1, <4>3
        <4> QED
          BY <4>1, <4>4
      <3> QED
        BY <3>1
    <2>5. CASE \E r \in where : /\ r.node = p /\ r.addr = a
                               /\ r.at <= e /\ e <= r.at + MaxDelay + MaxSkew
      <3>1. PICK r \in where : r.node = p /\ r.addr = a /\ e <= r.at + MaxDelay + MaxSkew
        BY <2>5
      <3>2. r.at \in Nat
        BY <1>1 DEF IInv, TypeOK, Place
      <3>3. ~(r.at + MaxDelay + MaxSkew < e)
        BY <2>2, <3>1, <3>2, MeshAssumption
      <3>4. r.addr = pub[p]
        BY <1>1, <3>1, <3>3
      <3> QED
        BY <3>1, <3>4
    <2> QED
      BY <1>1, <2>1, <2>3, <2>4, <2>5 DEF Honest
  <1>2. IInv => FreshMeansCurrent
    BY <1>1 DEF FreshMeansCurrent
  <1> QED
    BY <1>2, AlwaysIInv, PTL

\* Without clock skew, no second-hand entry, not even one in the same packet,
\* ever overrides the address the packet came from.
THEOREM DirectObservationHolds ==
  ASSUME MaxSkew = 0 PROVE Spec => DirectObservationWins
  <1>1. ASSUME IInv, NEW n \in Node, NEW m \in net, Receive(n, m)
        PROVE  peers'[n][m.from].addr = m.src
    <2> DEFINE heard == Learned(n, m)
    <2>1. m.from \in Node /\ m.src \in Endpoint /\ Now(n) = clock /\ clock \in Nat
      BY <1>1, MeshAssumption DEF IInv, TypeOK, Packet, Now
    <2>2. peers \in [Node -> [Node -> Peer \cup {NoPeer}]]
      BY <1>1 DEF IInv, TypeOK
    <2>3. heard[m.from] \in Peer /\ heard[m.from].addr = m.src /\ heard[m.from].epoch = clock
      <3> DEFINE r == IF m.from \in Known(n) THEN peers[n][m.from]
                      ELSE FromGossip(m.src, Now(n), NoAddr)
      <3>1. r \in Peer
        BY <2>1, <2>2 DEF FromGossip, Peer, OptAddr, Known
      <3>2. heard[m.from] = Observe(r, m.src, Now(n))
        BY <2>1, <2>2 DEF Learned
      <3> HIDE DEF r, heard
      <3> QED
        BY <2>1, <3>1, <3>2 DEF Observe, Peer, OptAddr
    <2>4. CASE RecvPing(n, m) \/ RecvOther(n, m)
      BY <2>2, <2>3, <2>4 DEF RecvPing, RecvOther
    <2>5. CASE RecvGossip(n, m)
      <3>1. PICK fresh : /\ fresh \subseteq {p \in Node \ {n} : m.entries[p] # NoPeer} \ Known(n)
                         /\ peers' = [peers EXCEPT ![n] = Applied(n, heard, m.entries, fresh)]
        BY <2>5 DEF RecvGossip, Room
      <3>2. m.from \in Known(n)
        BY <2>5 DEF RecvGossip, Accepts
      <3>3. peers'[n][m.from] = Applied(n, heard, m.entries, fresh)[m.from]
        BY <2>2, <3>1
      <3> HIDE DEF heard
      <3>4. CASE m.from = n \/ m.entries[m.from] = NoPeer
        BY <2>1, <2>3, <3>3, <3>4 DEF Applied
      <3>5. CASE ~(m.from = n \/ m.entries[m.from] = NoPeer)
        <4>1. m.entries[m.from] \in Entry /\ m.entries[m.from].epoch <= clock
          <5>1. m.entries \in [Node -> Entry \cup {NoPeer}] /\ HonestEntries(where, clock, m.entries)
            BY <1>1 DEF IInv, TypeOK, Packet, AllHonest, HonestPacket
          <5>2. m.entries[m.from] \in Entry
            BY <5>1, <2>1, <3>5
          <5>3. m.entries[m.from].epoch <= clock + MaxSkew
            BY <5>1, <2>1, <3>5 DEF HonestEntries, Honest
          <5> QED
            BY <5>2, <5>3, <2>1 DEF Entry
        <4>2. peers'[n][m.from] = Merge(heard[m.from], m.entries[m.from])
          BY <2>1, <2>3, <3>1, <3>2, <3>3, <3>5, MeshAssumption DEF Applied
        <4> DEFINE r == SetLanCandidate(heard[m.from], m.entries[m.from].lan)
        <4>3. r.addr = m.src /\ r.epoch = clock
          BY <2>3, <4>1 DEF SetLanCandidate, Peer
        <4>4. m.entries[m.from].epoch \in Nat
          BY <4>1 DEF Entry
        <4>5. peers'[n][m.from] = r
          <5> HIDE DEF r
          <5> QED
            BY <2>1, <4>1, <4>2, <4>3, <4>4 DEF Merge, ObserveEpoch, r
        <4> QED
          BY <4>3, <4>5
      <3> QED
        BY <3>4, <3>5
    <2> QED
      BY <1>1, <2>4, <2>5 DEF Receive
  <1>2. IInv => [\A n \in Node : \A m \in net :
                   Receive(n, m) => peers'[n][m.from].addr = m.src]_vars
    BY <1>1
  <1> QED
    BY <1>2, AlwaysIInv, PTL DEF DirectObservationWins

(* What a restart would load is what the node runs with. *)

LEMMA SavesLearned ==
  ASSUME IInv, NEW n \in Node, NEW m \in net, Saves(disk[n], peers[n])
  PROVE  Saves(SavedSender(n, m), Learned(n, m))
  <1> DEFINE r == IF m.from \in Known(n) THEN peers[n][m.from]
                  ELSE FromGossip(m.src, Now(n), NoAddr)
             o == Observe(r, m.src, Now(n))
             cfg == SavedSender(n, m)
             tb == Learned(n, m)
  <1>1. /\ m.from \in Node /\ m.src \in Endpoint /\ m.src # NoAddr /\ Now(n) \in Nat
        /\ peers[n] \in [Node -> Peer \cup {NoPeer}] /\ disk[n] \in [Node -> OptAddr]
    BY MeshAssumption, NoAddrAssumption DEF IInv, TypeOK, Packet, Now
  <1>2. r \in Peer
    BY <1>1 DEF FromGossip, Peer, OptAddr, Known
  <1>3. o \in Peer /\ o # NoPeer /\ CurrentSendAddr(o) = m.src
    BY <1>1, <1>2, MeshAssumption DEF Observe, Peer, OptAddr, CurrentSendAddr
  <1>4. tb = [peers[n] EXCEPT ![m.from] = o]
    BY DEF Learned
  <1> HIDE DEF o, r
  <1>5. cfg[m.from] # NoAddr /\ (~Reimports => cfg[m.from] = m.src)
    <2>1. CASE m.from \in Known(n) /\ peers[n][m.from].addr = m.src
      <3>1. cfg = disk[n] /\ peers[n][m.from] # NoPeer
        BY <2>1 DEF SavedSender, Known
      <3>2. disk[n][m.from] # NoAddr /\ (~Reimports => disk[n][m.from] = m.src)
        BY <1>1, <2>1, <3>1 DEF Saves, CurrentSendAddr
      <3> QED
        BY <3>1, <3>2
    <2>2. CASE ~(m.from \in Known(n) /\ peers[n][m.from].addr = m.src)
      BY <1>1, <2>2 DEF SavedSender
    <2> QED
      BY <2>1, <2>2
  <1>6. \A p \in Node : p # m.from => cfg[p] = disk[n][p] /\ tb[p] = peers[n][p]
    BY <1>1, <1>4 DEF SavedSender
  <1>7. tb[m.from] = o
    BY <1>1, <1>4
  <1> HIDE DEF cfg, tb
  <1>8. Saves(cfg, tb)
    BY <1>1, <1>3, <1>5, <1>6, <1>7 DEF Saves
  <1> QED
    BY <1>8 DEF cfg, tb

LEMMA SavesApplied ==
  ASSUME NEW n \in Node, NEW fresh, NEW tb \in [Node -> Peer \cup {NoPeer}],
         NEW es \in [Node -> Entry \cup {NoPeer}], NEW cfg \in [Node -> OptAddr],
         NEW renamed, \A p \in renamed : tb[p] # NoPeer,
         \A p \in fresh : p \in Node /\ p # n /\ es[p] # NoPeer
                         /\ (tb[p] = NoPeer),
         Saves(cfg, tb)
  PROVE  LET ap == Applied(n, tb, es, fresh)
         IN  Saves(Saved(cfg, tb, ap, renamed), ap)
  <1> DEFINE ap == Applied(n, tb, es, fresh)
             new == Saved(cfg, tb, ap, renamed)
  <1>1. ASSUME NEW p \in Node
        PROVE  /\ new[p] = NoAddr <=> ap[p] = NoPeer
               /\ ap[p] # NoPeer /\ ~Reimports => new[p] = CurrentSendAddr(ap[p])
    <2>1. new[p] = IF \/ ap[p] # tb[p] /\ (tb[p] = NoPeer \/ ap[p].addr # tb[p].addr)
                      \/ p \in renamed
                   THEN CurrentSendAddr(ap[p]) ELSE cfg[p]
      BY DEF Saved
    <2>2. tb[p] # NoPeer \/ ap[p] # tb[p]
          => ap[p] \in Peer /\ (tb[p] # NoPeer => ap[p].conf = tb[p].conf)
      BY AppliedKeeps
    <2> HIDE DEF ap, new
    <2>3. CASE tb[p] = NoPeer /\ ap[p] = tb[p]
      BY <2>1, <2>3 DEF Saves
    <2>4. CASE p \in renamed \/ (ap[p] # tb[p] /\ (tb[p] = NoPeer \/ ap[p].addr # tb[p].addr))
      <3>1. ap[p] \in Peer /\ new[p] = CurrentSendAddr(ap[p])
        BY <2>1, <2>2, <2>4
      <3> QED
        BY <3>1, SendAddrTyped, NoAddrAssumption, MeshAssumption
    <2>5. CASE tb[p] # NoPeer /\ p \notin renamed /\ (ap[p] = tb[p] \/ ap[p].addr = tb[p].addr)
      <3>1. ap[p] \in Peer /\ ap[p].conf = tb[p].conf /\ ap[p].addr = tb[p].addr
        BY <2>2, <2>5
      <3>2. new[p] = cfg[p]
        BY <2>1, <2>5
      <3>3. CurrentSendAddr(ap[p]) = CurrentSendAddr(tb[p])
        BY <3>1 DEF CurrentSendAddr
      <3> QED
        BY <2>5, <3>1, <3>2, <3>3, MeshAssumption DEF Saves
    <2> QED
      BY <2>3, <2>4, <2>5
  <1> HIDE DEF ap, new
  <1>2. Saves(new, ap)
    BY <1>1 DEF Saves
  <1> QED
    BY <1>2 DEF new, ap

LEMMA ReceiveSaves ==
  ASSUME IInv, NEW n \in Node, NEW m \in net, Receive(n, m), Saves(disk[n], peers[n])
  PROVE  Saves(disk'[n], peers'[n])
  <1>1. Saves(SavedSender(n, m), Learned(n, m))
    BY SavesLearned
  <1>2. peers \in [Node -> [Node -> Peer \cup {NoPeer}]] /\ disk \in [Node -> [Node -> OptAddr]]
    BY DEF IInv, TypeOK
  <1>3. CASE RecvPing(n, m) \/ RecvOther(n, m)
    BY <1>1, <1>2, <1>3 DEF RecvPing, RecvOther
  <1>4. CASE RecvGossip(n, m)
    <2> DEFINE heard == Learned(n, m)
               about == {p \in Node \ {n} : m.entries[p] # NoPeer}
    <2>1. PICK fresh \in Room(n, about \ Known(n)), renamed \in SUBSET (about \cap Known(n)) :
            LET table == Applied(n, heard, m.entries, fresh) IN
            /\ peers' = [peers EXCEPT ![n] = table]
            /\ disk' = [disk EXCEPT ![n] = Saved(SavedSender(n, m), heard, table, renamed)]
      BY <1>4 DEF RecvGossip
    <2> DEFINE table == Applied(n, heard, m.entries, fresh)
    <2>2. m.entries \in [Node -> Entry \cup {NoPeer}]
      BY DEF IInv, TypeOK, Packet
    <2>3. heard \in [Node -> Peer \cup {NoPeer}]
      BY LearnedHonest
    <2>4. \A p \in renamed : heard[p] # NoPeer
      BY <2>1, LearnedKeeps, MeshAssumption
    <2>5. m.from \in Known(n)
      BY <1>4 DEF RecvGossip, Accepts
    <2>6. \A p \in fresh : p \in Node /\ p # n /\ m.entries[p] # NoPeer /\ p \notin Known(n)
      BY <2>1 DEF Room
    <2>7. \A p \in fresh : heard[p] = NoPeer
      BY <1>2, <2>5, <2>6 DEF Learned, Known
    <2>8. SavedSender(n, m) \in [Node -> OptAddr]
      BY SavedSenderHonest
    <2> HIDE DEF heard
    <2>9. Saves(Saved(SavedSender(n, m), heard, table, renamed), table)
      BY <1>1, <2>2, <2>3, <2>4, <2>6, <2>7, <2>8, SavesApplied DEF heard
    <2>10. peers'[n] = table /\ disk'[n] = Saved(SavedSender(n, m), heard, table, renamed)
      BY <1>2, <2>1
    <2> QED
      BY <2>9, <2>10
  <1> QED
    BY <1>3, <1>4 DEF Receive

LEMMA NextSaves ==
  ASSUME IInv, [Next]_vars, SavedMatchesTable PROVE SavedMatchesTable'
  <1> SUFFICES ASSUME NEW n \in Node PROVE Saves(disk'[n], peers'[n])
    BY DEF SavedMatchesTable, Saves
  <1>1. /\ peers \in [Node -> [Node -> Peer \cup {NoPeer}]]
        /\ disk \in [Node -> [Node -> OptAddr]] /\ Saves(disk[n], peers[n])
    BY DEF IInv, TypeOK, SavedMatchesTable
  <1>2. CASE UNCHANGED <<peers, disk>>
    BY <1>1, <1>2
  <1>3. ASSUME NEW q \in Node, NEW m \in net, Receive(q, m)
        PROVE  Saves(disk'[n], peers'[n])
    <2>1. CASE q = n
      BY <1>1, <1>3, <2>1, ReceiveSaves
    <2>2. CASE q # n
      <3>1. peers'[n] = peers[n] /\ disk'[n] = disk[n]
        BY <1>1, <1>3, <2>2 DEF Receive, RecvPing, RecvOther, RecvGossip
      <3> QED
        BY <1>1, <3>1
    <2> QED
      BY <2>1, <2>2
  <1>4. ASSUME NEW q \in Node, NEW k \in Node, NEW a \in Endpoint, AddPeerLive(q, k, a)
        PROVE  Saves(disk'[n], peers'[n])
    <2> DEFINE r == IF peers[q][k] = NoPeer THEN New(a) ELSE ObserveEpoch(peers[q][k], a, Now(q))
    <2>1. peers'[n] = (IF n = q THEN [peers[n] EXCEPT ![k] = r] ELSE peers[n])
          /\ disk'[n] = (IF n = q THEN [disk[n] EXCEPT ![k] = a] ELSE disk[n])
      BY <1>1, <1>4 DEF AddPeerLive
    <2>2. n = q => r # NoPeer /\ (~Reimports => CurrentSendAddr(r) = a)
      <3>1. CASE peers[q][k] = NoPeer
        <4>1. r = New(a) /\ New(a) \in Peer
          BY <3>1 DEF New, Peer, OptAddr
        <4> QED
          BY <4>1, MeshAssumption DEF New, CurrentSendAddr
      <3>2. CASE peers[q][k] # NoPeer
        <4>1. Reimports
          BY <1>4, <3>2 DEF AddPeerLive, Known
        <4>2. peers[q][k] \in Peer /\ Now(q) \in Nat
          BY <1>1, <3>2, MeshAssumption DEF IInv, TypeOK, Now
        <4>3. r \in Peer
          BY <3>2, <4>2 DEF ObserveEpoch, Peer, OptAddr
        <4> QED
          BY <4>1, <4>3, MeshAssumption
      <3> QED
        BY <3>1, <3>2
    <2> HIDE DEF r
    <2> QED
      BY <1>1, <2>1, <2>2, NoAddrAssumption DEF Saves
  <1>5. ASSUME NEW q \in Node, Restart(q) PROVE Saves(disk'[n], peers'[n])
    <2>1. CASE q # n
      BY <1>1, <1>5, <2>1 DEF Restart
    <2>2. CASE q = n
      <3>1. peers'[n] = LoadPeers(disk[n]) /\ disk'[n] = disk[n]
        BY <1>1, <1>5, <2>2 DEF Restart
      <3>2. \A a \in Endpoint : New(a) # NoPeer /\ CurrentSendAddr(New(a)) = a
        <4>1. \A a \in Endpoint : New(a) \in Peer
          BY DEF New, Peer, OptAddr
        <4> QED
          BY <4>1, MeshAssumption DEF New, CurrentSendAddr
      <3> QED
        BY <1>1, <3>1, <3>2 DEF Saves, LoadPeers, OptAddr
    <2> QED
      BY <2>1, <2>2
  <1> QED
    BY <1>2, <1>3, <1>4, <1>5
    DEF Next, vars, mem, Tick, Rebind, Keepalive, TunToUdp, Gossip, SelfStun

\* mesh.toml and the table name the same peers, at the addresses the mesh
\* sends to, so a restart loses nothing a node had learned.
THEOREM SavedMatchesTableHolds == Spec => []SavedMatchesTable
  <1>1. ASSUME Init PROVE SavedMatchesTable
    <2>1. \A n \in Node : disk[n] \in [Node -> OptAddr] /\ peers[n] = LoadPeers(disk[n])
      BY <1>1, InitIInv DEF Init, IInv, TypeOK
    <2>2. \A a \in Endpoint : New(a) # NoPeer /\ CurrentSendAddr(New(a)) = a
      <3>1. \A a \in Endpoint : New(a) \in Peer
        BY DEF New, Peer, OptAddr
      <3> QED
        BY <3>1, MeshAssumption DEF New, CurrentSendAddr
    <2>3. ASSUME NEW n \in Node PROVE Saves(disk[n], peers[n])
      <3>1. disk[n] \in [Node -> OptAddr] /\ peers[n] = LoadPeers(disk[n])
        BY <2>1
      <3> QED
        BY <3>1, <2>2 DEF Saves, LoadPeers, OptAddr
    <2> QED
      BY <2>3 DEF SavedMatchesTable
  <1>2. IInv /\ SavedMatchesTable /\ [Next]_vars => SavedMatchesTable'
    BY NextSaves
  <1> QED
    BY <1>1, <1>2, AlwaysIInv, PTL DEF Spec

\* Without clock skew, the freshness of an entry never goes back while the
\* process runs, so a node never returns to information it has outgrown.
THEOREM EpochMonotoneHolds ==
  ASSUME MaxSkew = 0 PROVE Spec => EpochMonotone
  <1> DEFINE Kept(n, p) ==
        peers[n][p] # NoPeer
        => /\ peers'[n][p] # NoPeer
           /\ \/ peers'[n][p].addr = NoAddr
              \/ peers'[n][p].epoch >= peers[n][p].epoch
  <1>1. ASSUME IInv, SavedMatchesTable, [Next]_vars,
               NEW n \in Node, NEW p \in Node, peers[n][p] # NoPeer
        PROVE  Kept(n, p)
    <2>1. /\ peers \in [Node -> [Node -> Peer \cup {NoPeer}]] /\ clock \in Nat
          /\ peers[n][p] \in Peer /\ peers[n][p].epoch \in Nat
          /\ \A q \in Node : Now(q) = clock
      BY <1>1, MeshAssumption DEF IInv, TypeOK, Peer, Now
    <2>2. peers[n][p].epoch <= clock
      <3>1. CASE peers[n][p].addr = NoAddr
        BY <1>1, <2>1, <3>1 DEF IInv, AllHonest, HonestTable
      <3>2. CASE peers[n][p].addr # NoAddr
        BY <1>1, <2>1, <3>2 DEF IInv, AllHonest, HonestTable, Honest
      <3> QED
        BY <3>1, <3>2
    <2>3. CASE UNCHANGED peers
      BY <1>1, <2>1, <2>3
    <2>4. ASSUME NEW m \in net
          PROVE  /\ Learned(n, m)[p] \in Peer
                 /\ Learned(n, m)[p].epoch >= peers[n][p].epoch
      <3>1. m.from \in Node /\ m.src \in Endpoint
        BY <1>1 DEF IInv, TypeOK, Packet
      <3>2. CASE p = m.from
        <4>1. Learned(n, m)[p] = Observe(peers[n][p], m.src, clock)
          BY <1>1, <2>1, <3>2 DEF Learned, Known
        <4> QED
          BY <2>1, <2>2, <3>1, <4>1 DEF Observe, Peer, OptAddr
      <3>3. CASE p # m.from
        BY <2>1, <3>3 DEF Learned
      <3> QED
        BY <3>2, <3>3
    <2>5. ASSUME NEW q \in Node, NEW m \in net, Receive(q, m) PROVE Kept(n, p)
      <3>1. CASE q # n
        <4>1. peers'[n] = peers[n]
          BY <2>5, <3>1, <2>1 DEF Receive, RecvPing, RecvOther, RecvGossip
        <4> QED
          BY <1>1, <2>1, <4>1
      <3>2. CASE q = n /\ (RecvPing(q, m) \/ RecvOther(q, m))
        <4>1. peers'[n] = Learned(n, m)
          BY <3>2, <2>1 DEF RecvPing, RecvOther
        <4> QED
          BY <2>4, <4>1, MeshAssumption
      <3>3. CASE q = n /\ RecvGossip(q, m)
        <4> DEFINE heard == Learned(n, m)
        <4>1. PICK fresh : /\ fresh \subseteq {k \in Node \ {n} : m.entries[k] # NoPeer} \ Known(n)
                           /\ peers' = [peers EXCEPT ![n] = Applied(n, heard, m.entries, fresh)]
          BY <3>3 DEF RecvGossip, Room
        <4>2. peers'[n][p] = Applied(n, heard, m.entries, fresh)[p] /\ p \notin fresh
          BY <1>1, <2>1, <4>1 DEF Known
        <4>3. heard[p] \in Peer /\ heard[p].epoch >= peers[n][p].epoch /\ heard[p] # NoPeer
          BY <2>4, MeshAssumption
        <4>4. m.entries \in [Node -> Entry \cup {NoPeer}]
          BY <1>1 DEF IInv, TypeOK, Packet
        <4> HIDE DEF heard
        <4>5. CASE p = n \/ m.entries[p] = NoPeer
          BY <4>2, <4>3, <4>5 DEF Applied
        <4>6. CASE ~(p = n \/ m.entries[p] = NoPeer)
          <5> DEFINE r == SetLanCandidate(heard[p], m.entries[p].lan)
          <5>1. m.entries[p] \in Entry /\ m.entries[p].epoch \in Nat
            BY <4>4, <4>6 DEF Entry
          <5>2. r \in Peer /\ r.epoch = heard[p].epoch /\ r.epoch \in Nat
            BY <4>3, <5>1 DEF SetLanCandidate, Peer, Entry
          <5>3. peers'[n][p] = ObserveEpoch(r, m.entries[p].addr, m.entries[p].epoch)
            BY <4>2, <4>3, <4>6 DEF Applied, Merge
          <5> HIDE DEF r
          <5>4. CASE m.entries[p].epoch > r.epoch
            <6>1. peers'[n][p] = [r EXCEPT !.addr = m.entries[p].addr, !.epoch = m.entries[p].epoch]
              BY <5>3, <5>4 DEF ObserveEpoch
            <6>2. peers'[n][p] \in Peer /\ peers'[n][p].epoch = m.entries[p].epoch
              BY <5>1, <5>2, <6>1 DEF Peer, Entry, OptAddr
            <6> QED
              BY <2>1, <4>3, <5>1, <5>2, <5>4, <6>2, MeshAssumption
          <5>5. CASE ~(m.entries[p].epoch > r.epoch)
            <6>1. peers'[n][p] = r
              BY <5>3, <5>5 DEF ObserveEpoch
            <6> QED
              BY <4>3, <5>2, <6>1, MeshAssumption
          <5> QED
            BY <5>4, <5>5
        <4> QED
          BY <4>5, <4>6
      <3> QED
        BY <3>1, <3>2, <3>3, <2>5 DEF Receive
    <2>6. ASSUME NEW q \in Node, NEW k \in Node, NEW a \in Endpoint, AddPeerLive(q, k, a)
          PROVE  Kept(n, p)
      <3>1. CASE q = n /\ k = p
        <4>1. peers'[n][p] = ObserveEpoch(peers[n][p], a, clock)
          BY <1>1, <2>1, <2>6, <3>1 DEF AddPeerLive
        <4>2. CASE clock > peers[n][p].epoch
          <5>1. peers'[n][p] = [peers[n][p] EXCEPT !.addr = a, !.epoch = clock]
            BY <4>1, <4>2 DEF ObserveEpoch
          <5>2. peers'[n][p] \in Peer /\ peers'[n][p].epoch = clock
            BY <2>1, <5>1 DEF Peer, OptAddr
          <5> QED
            BY <2>1, <2>2, <5>2, MeshAssumption
        <4>3. CASE ~(clock > peers[n][p].epoch)
          BY <1>1, <2>1, <4>1, <4>3 DEF ObserveEpoch
        <4> QED
          BY <4>2, <4>3
      <3>2. CASE ~(q = n /\ k = p)
        <4>1. peers'[n][p] = peers[n][p]
          BY <2>1, <2>6, <3>2 DEF AddPeerLive
        <4> QED
          BY <1>1, <2>1, <4>1
      <3> QED
        BY <3>1, <3>2
    <2>7. ASSUME NEW q \in Node, Restart(q) PROVE Kept(n, p)
      <3>1. CASE q # n
        BY <1>1, <2>1, <2>7, <3>1 DEF Restart
      <3>2. CASE q = n
        <4>1. disk[n][p] \in Endpoint
          BY <1>1 DEF SavedMatchesTable, Saves, IInv, TypeOK, OptAddr
        <4>2. peers'[n][p] = New(disk[n][p])
          BY <2>1, <2>7, <3>2, <4>1, NoAddrAssumption DEF Restart, LoadPeers
        <4>3. New(disk[n][p]) \in Peer /\ New(disk[n][p]).addr = NoAddr
          BY <4>1 DEF New, Peer, OptAddr
        <4> QED
          BY <4>2, <4>3, MeshAssumption
      <3> QED
        BY <3>1, <3>2
    <2> QED
      BY <1>1, <2>3, <2>5, <2>6, <2>7
      DEF Next, vars, mem, Tick, Rebind, Keepalive, TunToUdp, Gossip, SelfStun
  <1>2. IInv /\ SavedMatchesTable /\ [Next]_vars => [\A n, p \in Node : Kept(n, p)]_vars
    BY <1>1
  <1> QED
    BY <1>2, AlwaysIInv, SavedMatchesTableHolds, PTL DEF EpochMonotone, Spec
=============================================================================
