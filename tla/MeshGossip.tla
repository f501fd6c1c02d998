----------------------------- MODULE MeshGossip -----------------------------
(***************************************************************************)
(* The peer-discovery core of core/src/mesh.rs: every node keeps a table   *)
(* of peers, probes them (PING/PONG), gossips its whole table, learns its  *)
(* own public endpoint by STUN, and saves what it learns to mesh.toml.     *)
(* Around it: NATs that reassign public endpoints, a UDP network that      *)
(* loses, duplicates, reorders and delays packets, clocks that run ahead,  *)
(* users who import peer cards, and processes that restart from disk.      *)
(* The configuration without [directory] and repository_discovery is       *)
(* modelled, and a handler is one step.                                    *)
(***************************************************************************)
EXTENDS Naturals, FiniteSets, Peer

CONSTANTS
  Node,         \* the members, named by their virtual IP
  NoPeer,       \* "not in the table", or "not in this gossip payload"
  Lan,          \* Lan[n]: n's LAN endpoint, NoAddr if it has none
  Site,         \* Site[n]: the physical LAN n is attached to
  Skew,         \* Skew[n]: seconds by which n's clock is ahead
  MaxSkew,
  MaxDelay,     \* a packet is delivered at most this many seconds late
  MaxPeers,     \* MAX_PEERS
  Cards,        \* <<n, p>>: n starts with p's card in its mesh.toml
  Movers,       \* nodes whose NAT may reassign their endpoint
  Restarters,   \* nodes whose process may stop and start again
  Stunners,     \* nodes whose STUN probes get an answer
  Traffic,      \* TRUE: applications use the virtual LAN
  Importers,    \* nodes whose user imports peer cards while it runs
  Reimports,    \* TRUE: also cards of peers that are already known
  MaxClock,     \* bound: seconds of real time
  MaxInFlight   \* bound: packets in the network at once

PublicAddr == Endpoint \ {Lan[n] : n \in Node}

ASSUME MeshAssumption ==
  /\ Lan \in [Node -> OptAddr]
  /\ Skew \in [Node -> 0..MaxSkew]
  /\ MaxSkew \in Nat /\ MaxDelay \in Nat /\ MaxClock \in Nat
  /\ NoPeer \notin Peer
  /\ Reimports \in BOOLEAN /\ Traffic \in BOOLEAN
  /\ Movers \subseteq Node /\ Restarters \subseteq Node /\ Importers \subseteq Node
  /\ Stunners \subseteq Node
  /\ Cards \subseteq {c \in Node \X Node : c[1] # c[2]}

VARIABLES
  clock,   \* real time in seconds
  pub,     \* pub[n]: the public endpoint n's NAT maps it to now
  where,   \* history: the endpoints each node has had, second by second
  peers,   \* peers[n][p]: n's record of p in MeshState.peers
  self,    \* self[n]: MeshState.my_public_addr, with its epoch
  disk,    \* disk[n][p]: p's address in n's mesh.toml
  net      \* UDP datagrams on their way

vars == <<clock, pub, where, peers, self, disk, net>>
mem  == <<peers, self, disk>>

Now(n) == clock + Skew[n]
Known(n) == {p \in Node : peers[n][p] # NoPeer}
Place == [node: Node, addr: Endpoint, at: Nat]
PlacesAt(t, f) == {[node |-> n, addr |-> f[n], at |-> t] : n \in Node}

\* GossipEntry: what a payload says of one node.
Entry == [addr: Endpoint, epoch: Nat, lan: OptAddr]
NoEntries == [p \in Node |-> NoPeer]
Packet == [kind: {"ping", "pong", "data", "gossip"}, from: Node, src: Endpoint,
           dst: Endpoint, at: Nat, entries: [Node -> Entry \cup {NoPeer}]]

TypeOK ==
  /\ clock \in Nat
  /\ pub \in [Node -> Endpoint]
  /\ where \subseteq Place
  /\ peers \in [Node -> [Node -> Peer \cup {NoPeer}]]
  /\ self \in [Node -> [addr: OptAddr, epoch: Nat]]
  /\ disk \in [Node -> [Node -> OptAddr]]
  /\ net \subseteq Packet

NoSelf == [addr |-> NoAddr, epoch |-> 0]

\* Faulty variant: an entry without an address is loaded too.
LoadAllPeers(cfg) == [p \in Node |-> New(cfg[p])]

\* start(): the table is built from mesh.toml.
LoadPeers(cfg) ==
  [p \in Node |-> IF cfg[p] = NoAddr THEN NoPeer ELSE New(cfg[p])]

Init ==
  /\ clock = 1
  /\ pub \in {f \in [Node -> PublicAddr] :
                \A n, m \in Node : f[n] = f[m] => n = m}
  /\ where = PlacesAt(1, pub)
  /\ disk = [n \in Node |-> [p \in Node |->
                IF <<n, p>> \in Cards THEN pub[p] ELSE NoAddr]]
  /\ peers = [n \in Node |-> LoadPeers(disk[n])]
  /\ self = [n \in Node |-> NoSelf]
  /\ net = {}

-----------------------------------------------------------------------------
(* The network.  A datagram stays in net, deliverable again and in any     *)
(* order, until it is older than MaxDelay or lost; when a thread sends,    *)
(* any of its burst and of what is on its way may be lost.                  *)

OnLan(n, a) == \E q \in Node : a = Lan[q] /\ Site[q] = Site[n]

\* The source address the receiver will see.
Source(n, dst) ==
  IF OnLan(n, dst) /\ Lan[n] # NoAddr THEN Lan[n] ELSE pub[n]

Reaches(m, n) ==
  /\ n # m.from
  /\ m.dst = pub[n] \/ (m.dst = Lan[n] /\ Site[n] = Site[m.from])

Datagram(n, kind, dst, entries) ==
  [kind |-> kind, from |-> n, src |-> Source(n, dst), dst |-> dst,
   at |-> clock, entries |-> entries]

Send(burst) ==
  net' \in {some \in SUBSET (net \cup burst) : Cardinality(some) <= MaxInFlight}

Tick ==
  /\ clock < MaxClock
  /\ clock' = clock + 1
  /\ where' = where \cup PlacesAt(clock + 1, pub)
  /\ net' = {m \in net : clock + 1 <= m.at + MaxDelay}
  /\ UNCHANGED <<pub, mem>>

\* The NAT of n maps it to another free endpoint, at most once a second.
Rebind(n) ==
  /\ n \in Movers
  /\ \A r \in where : r.node = n /\ r.at = clock => r.addr = pub[n]
  /\ \E a \in PublicAddr \ {pub[q] : q \in Node} :
        /\ pub' = [pub EXCEPT ![n] = a]
        /\ where' = where \cup {[node |-> n, addr |-> a, at |-> clock]}
  /\ UNCHANGED <<clock, mem, net>>

-----------------------------------------------------------------------------
(* Sending threads.                                                         *)

Keepalive(n) ==
  /\ Send({Datagram(n, "ping", a, NoEntries) :
             a \in UNION {PingTargets(peers[n][p]) : p \in Known(n)}})
  /\ UNCHANGED <<clock, pub, where, mem>>

\* Traffic of the virtual LAN: to one peer, or flooded to all.
TunToUdp(n) ==
  /\ Traffic
  /\ \E dsts \in {{p} : p \in Known(n)} \cup {Known(n)} :
        Send({Datagram(n, "data", CurrentSendAddr(peers[n][p]), NoEntries) :
                p \in dsts})
  /\ UNCHANGED <<clock, pub, where, mem>>

\* Faulty variants: second-hand information is stamped with the present; our
\* own address stands in for one that nobody has confirmed.
RestampedEntries(n, mine) ==
  [p \in Node |->
     IF p = n
     THEN IF mine.addr = NoAddr THEN NoPeer
          ELSE [addr |-> mine.addr, epoch |-> mine.epoch, lan |-> Lan[n]]
     ELSE IF peers[n][p] = NoPeer THEN NoPeer
          ELSE [addr  |-> CurrentSendAddr(peers[n][p]),
                epoch |-> Now(n), lan |-> peers[n][p].lan]]
OwnAddrForUnconfirmed(n, mine) ==
  [p \in Node |->
     IF mine.addr # NoAddr /\ (p = n \/ (peers[n][p] # NoPeer /\ peers[n][p].addr = NoAddr))
     THEN [addr |-> mine.addr, epoch |-> mine.epoch, lan |-> Lan[n]]
     ELSE IF p = n \/ peers[n][p] = NoPeer THEN NoPeer
          ELSE [addr  |-> CurrentSendAddr(peers[n][p]),
                epoch |-> peers[n][p].epoch, lan |-> peers[n][p].lan]]

BuildLocalGossipEntries(n, mine) ==
  [p \in Node |->
     IF p = n
     THEN IF mine.addr = NoAddr THEN NoPeer
          ELSE [addr |-> mine.addr, epoch |-> mine.epoch, lan |-> Lan[n]]
     ELSE IF peers[n][p] = NoPeer THEN NoPeer
          ELSE [addr  |-> CurrentSendAddr(peers[n][p]),
                epoch |-> peers[n][p].epoch, lan |-> peers[n][p].lan]]

SendGossipBurst(n, mine) ==
  Send({Datagram(n, "gossip", CurrentSendAddr(peers[n][p]),
                 BuildLocalGossipEntries(n, mine)) : p \in Known(n)})

Gossip(n) ==
  /\ SendGossipBurst(n, self[n])
  /\ UNCHANGED <<clock, pub, where, mem>>

\* A STUN probe that succeeds; one that fails changes nothing.
SelfStun(n) ==
  LET mine == [addr |-> pub[n], epoch |-> Now(n)] IN
  /\ n \in Stunners
  /\ self' = [self EXCEPT ![n] = mine]
  /\ IF self[n].addr # pub[n] THEN SendGossipBurst(n, mine) ELSE net' = net
  /\ UNCHANGED <<clock, pub, where, peers, disk>>

-----------------------------------------------------------------------------
(* The receive loop.                                                        *)

\* A sender is accepted when it is known, or when it introduces itself by a
\* PING and the table has room.
Accepts(n, m) ==
  \/ m.from \in Known(n)
  \/ m.kind = "ping" /\ Cardinality(Known(n)) < MaxPeers

\* learn_peer_from_ping, then observe().
Learned(n, m) ==
  LET r == IF m.from \in Known(n) THEN peers[n][m.from]
           ELSE FromGossip(m.src, Now(n), NoAddr)
  IN [peers[n] EXCEPT ![m.from] = Observe(r, m.src, Now(n))]

\* Faulty variant: only a new sender is saved.
SavedNewSender(n, m) ==
  IF m.from \in Known(n) THEN disk[n] ELSE [disk[n] EXCEPT ![m.from] = m.src]

\* persist_peer_addr when the sender is new or was observed elsewhere.
SavedSender(n, m) ==
  IF m.from \in Known(n) /\ peers[n][m.from].addr = m.src THEN disk[n]
  ELSE [disk[n] EXCEPT ![m.from] = m.src]

RecvPing(n, m) ==
  /\ m.kind = "ping" /\ Reaches(m, n) /\ Accepts(n, m)
  /\ peers' = [peers EXCEPT ![n] = Learned(n, m)]
  /\ disk' = [disk EXCEPT ![n] = SavedSender(n, m)]
  /\ Send({Datagram(n, "pong", m.src, NoEntries)})
  /\ UNCHANGED <<clock, pub, where, self>>

\* PONG and DATA: the address is observed, the rest is not modelled here.
RecvOther(n, m) ==
  /\ m.kind \in {"pong", "data"} /\ Reaches(m, n) /\ Accepts(n, m)
  /\ peers' = [peers EXCEPT ![n] = Learned(n, m)]
  /\ disk' = [disk EXCEPT ![n] = SavedSender(n, m)]
  /\ UNCHANGED <<clock, pub, where, self, net>>

\* apply_gossip_entry on a known peer.
Merge(r, e) == ObserveEpoch(SetLanCandidate(r, e.lan), e.addr, e.epoch)

\* Which strangers of a payload are added: all of them, or as many as fit,
\* in the order the sender's hash map happened to list them.
Room(n, strangers) ==
  {s \in SUBSET strangers :
     /\ s = {} \/ Cardinality(Known(n) \cup s) <= MaxPeers
     /\ s = strangers \/ Cardinality(Known(n) \cup s) >= MaxPeers}

Applied(n, table, entries, fresh) ==
  [p \in Node |->
     IF p = n \/ entries[p] = NoPeer THEN table[p]
     ELSE IF p \in fresh
          THEN FromGossip(entries[p].addr, entries[p].epoch, entries[p].lan)
     ELSE IF table[p] = NoPeer THEN NoPeer
     ELSE Merge(table[p], entries[p])]

\* persist_peer_addr for every entry that added, moved or renamed a peer.
Saved(cfg, before, after, renamed) ==
  [p \in Node |->
     IF \/ after[p] # before[p] /\ (before[p] = NoPeer \/ after[p].addr # before[p].addr)
        \/ p \in renamed
     THEN CurrentSendAddr(after[p]) ELSE cfg[p]]

RecvGossip(n, m) ==
  /\ m.kind = "gossip" /\ Reaches(m, n) /\ Accepts(n, m)
  /\ LET heard     == Learned(n, m)
         about     == {p \in Node \ {n} : m.entries[p] # NoPeer}
         strangers == about \ Known(n)
     IN \E fresh \in Room(n, strangers), renamed \in SUBSET (about \cap Known(n)) :
          LET table == Applied(n, heard, m.entries, fresh) IN
          /\ peers' = [peers EXCEPT ![n] = table]
          /\ disk' = [disk EXCEPT ![n] = Saved(SavedSender(n, m), heard, table, renamed)]
  /\ UNCHANGED <<clock, pub, where, self, net>>

Receive(n, m) == RecvPing(n, m) \/ RecvOther(n, m) \/ RecvGossip(n, m)

-----------------------------------------------------------------------------
(* The user and the process.                                                *)

\* add_peer_live: a card of p shows an endpoint p had when it was made.
\* No room check; the card is saved even when observe_epoch ignores it.
AddPeerLive(n, p, a) ==
  /\ n \in Importers /\ n # p
  /\ \E r \in where : r.node = p /\ r.addr = a
  /\ p \in Known(n) => Reimports
  /\ peers' = [peers EXCEPT ![n][p] =
                 IF @ = NoPeer THEN New(a) ELSE ObserveEpoch(@, a, Now(n))]
  /\ disk' = [disk EXCEPT ![n][p] = a]
  /\ UNCHANGED <<clock, pub, where, self, net>>

\* Stop or crash, and start again from mesh.toml.
Restart(n) ==
  /\ n \in Restarters
  /\ peers' = [peers EXCEPT ![n] = LoadPeers(disk[n])]
  /\ self' = [self EXCEPT ![n] = NoSelf]
  /\ UNCHANGED <<clock, pub, where, disk, net>>

Next ==
  \/ Tick
  \/ \E n \in Node :
       \/ Rebind(n) \/ Keepalive(n) \/ TunToUdp(n) \/ Gossip(n)
       \/ SelfStun(n) \/ Restart(n)
       \/ \E m \in net : Receive(n, m)
       \/ \E p \in Node, a \in Endpoint : AddPeerLive(n, p, a)

Spec == Init /\ [][Next]_vars

-----------------------------------------------------------------------------
(* Properties.                                                              *)

\* h is a history of places, as in where, and t a time, as in clock.
Ever(h, p, a) == a = Lan[p] \/ \E r \in h : r.node = p /\ r.addr = a

\* a is where p was, give or take the delay of a packet and the clock skew,
\* at time e; an epoch of 0 only says that p was there once, and so does an
\* old card imported again, which is stamped with the present.  No epoch is
\* later than the fastest clock.
Honest(h, t, p, a, e) ==
  /\ e <= t + MaxSkew
  /\ \/ a = Lan[p]
     \/ (e = 0 \/ Reimports) /\ Ever(h, p, a)
     \/ \E r \in h : /\ r.node = p /\ r.addr = a
                     /\ r.at <= e /\ e <= r.at + MaxDelay + MaxSkew

HonestEntries(h, t, es) ==
  \A p \in Node : es[p] # NoPeer => Honest(h, t, p, es[p].addr, es[p].epoch)

HonestPacket(h, t, m) ==
  /\ m.at <= t /\ t <= m.at + MaxDelay
  /\ m.src = Lan[m.from] \/ [node |-> m.from, addr |-> m.src, at |-> m.at] \in h
  /\ HonestEntries(h, t, m.entries)

HonestTable(h, t, tb) ==
  \A p \in Node : tb[p] # NoPeer =>
    IF tb[p].addr = NoAddr THEN tb[p].epoch = 0 /\ Ever(h, p, tb[p].conf)
    ELSE Honest(h, t, p, tb[p].addr, tb[p].epoch)

\* The inductive invariant.
HistoryCurrent ==
  /\ PlacesAt(clock, pub) \subseteq where
  /\ \A r \in where : r.at <= clock

AllHonest ==
  /\ \A m \in net : HonestPacket(where, clock, m)
  /\ \A n \in Node :
       /\ HonestTable(where, clock, peers[n])
       /\ \A p \in Node : disk[n][p] # NoAddr => Ever(where, p, disk[n][p])
       /\ self[n].addr # NoAddr => Honest(where, clock, n, self[n].addr, self[n].epoch)

IInv == TypeOK /\ HistoryCurrent /\ AllHonest

\* No address is ever attributed to a peer that never had it: whatever is
\* lost, reordered, delayed, restarted or re-gossiped, a table entry, a line
\* of mesh.toml, an advertised self address and a gossip entry in flight
\* name an endpoint the peer really had (peer.rs observe, observe_epoch;
\* mesh.rs apply_gossip_entry, persist_peer_addr).
Provenance ==
  /\ \A n, p \in Node :
       /\ peers[n][p] # NoPeer => Ever(where, p, CurrentSendAddr(peers[n][p]))
       /\ disk[n][p] # NoAddr => Ever(where, p, disk[n][p])
  /\ \A n \in Node : self[n].addr # NoAddr => Ever(where, n, self[n].addr)
  /\ \A m \in net : \A p \in Node :
       m.entries[p] # NoPeer => Ever(where, p, m.entries[p].addr)

\* "Freshest wins" is sound: an entry stamped later than the peer's last
\* move (plus packet delay and clock skew) shows the peer's current address,
\* through any number of gossip hops (peer.rs confirmed_epoch).
FreshMeansCurrent ==
  ~Reimports =>
    \A n, p \in Node :
      (/\ peers[n][p] # NoPeer /\ peers[n][p].addr # NoAddr
       /\ \A r \in where : r.node = p /\ r.addr # pub[p]
                           => r.at + MaxDelay + MaxSkew < peers[n][p].epoch)
      => peers[n][p].addr \in {pub[p], Lan[p]}

\* cfg, a mesh.toml, names the peers of table tb, where tb sends to them;
\* only a card imported for a known peer may be saved and not followed.
Saves(cfg, tb) ==
  \A p \in Node :
    /\ cfg[p] = NoAddr <=> tb[p] = NoPeer
    /\ tb[p] # NoPeer /\ ~Reimports => cfg[p] = CurrentSendAddr(tb[p])

\* mesh.toml names exactly the peers of the table at the address the mesh
\* sends to, so a restart loses nothing (mesh.rs persist_peer_addr and its
\* five callers; the "warm" restart of its comment).
SavedMatchesTable == \A n \in Node : Saves(disk[n], peers[n])

\* After a packet of p has been handled, p's address is the one the packet
\* came from, whatever second-hand entry about p it carried (peer.rs
\* observe: "Direct observation always wins").
DirectObservationWins ==
  [][\A n \in Node : \A m \in net :
       Receive(n, m) => peers'[n][m.from].addr = m.src]_vars

\* The freshness a node has for a peer never goes back while it runs, so it
\* never again accepts information older than what it acted on (peer.rs
\* observe_epoch; observe stamps the present whatever was stored).
EpochMonotone ==
  [][\A n, p \in Node :
       peers[n][p] # NoPeer
       => /\ peers'[n][p] # NoPeer
          /\ \/ peers'[n][p].addr = NoAddr
             \/ peers'[n][p].epoch >= peers[n][p].epoch]_vars

\* A LAN endpoint is only ever a probing candidate for nodes that are not on
\* that LAN (peer.rs lan_candidate).
LanStaysLocal ==
  \A n, p \in Node :
    /\ peers[n][p] # NoPeer /\ Site[n] # Site[p] /\ Lan[p] # NoAddr
    => CurrentSendAddr(peers[n][p]) # Lan[p]
=============================================================================
