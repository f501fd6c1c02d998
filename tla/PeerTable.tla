----------------------------- MODULE PeerTable -----------------------------
(***************************************************************************)
(* The peer table of one running mesh, at the granularity of its locks and *)
(* atomics.  MeshState.peers is a lock around a map from virtual IPs to    *)
(* Arc<Peer>; a Peer keeps its address behind one lock and its epoch in an *)
(* atomic.  mesh.rs start() spawns the threads that use it: the receive    *)
(* loop, the directory thread and the registry thread; the GUI adds peers  *)
(* from its own thread.  MeshGossip treats each handler as one step, this  *)
(* module is about what happens between the steps.                         *)
(***************************************************************************)
EXTENDS Naturals, Sequences, FiniteSets

CONSTANTS
  Vip,        \* virtual IPs of peers
  Addr,       \* socket addresses
  NoAddr,
  Recv,       \* the receive loop: one thread, or none
  Directory,  \* the directory thread, if directory.toml exists
  Gui,        \* the thread calling add_peer_live, if any
  Registry,   \* the registry thread, if repository_discovery is set
  MaxPeers,   \* MAX_PEERS
  MaxTime,    \* bound: seconds
  MaxCells    \* bound: Peer objects ever created

Learners == Recv \cup Directory          \* threads that run apply_gossip_entry
Thread   == Learners \cup Gui
OptAddr  == Addr \cup {NoAddr}

ASSUME PeerTableAssumption ==
  /\ NoAddr \notin Addr
  /\ MaxPeers \in Nat /\ MaxTime \in Nat /\ MaxCells \in Nat
  /\ IsFiniteSet(Vip) /\ IsFiniteSet(Learners)
  /\ Gui \cap Learners = {}

VARIABLES
  time,
  cells,   \* the Peer objects ever allocated
  table,   \* table[v]: index of v's object in cells, 0 when v is unknown
  disk,    \* disk[v]: v's address in mesh.toml
  th,      \* th[t]: what thread t is doing, with its local variables
  heard,   \* history: the freshest news there was of each peer
  added    \* history: the peers add_peer_live inserted

vars == <<time, cells, table, disk, th, heard, added>>

Cell == [conf: Addr, addr: OptAddr, epoch: Nat]
Fact == [vip: Vip, addr: Addr, epoch: Nat]
Pc == {"idle", "find", "count", "insert", "save", "find again", "observe",
       "check", "write", "stamp"}
Local == [pc: Pc, kind: {"ping", "packet", "entry", "card"}, vip: Vip,
          addr: Addr, epoch: Nat, cell: Nat, changed: BOOLEAN]

TypeOK ==
  /\ time \in Nat
  /\ cells \in Seq(Cell)
  /\ table \in [Vip -> 0..Len(cells)]
  /\ disk \in [Vip -> OptAddr]
  /\ th \in [Thread -> Local]
  /\ heard \subseteq Fact /\ added \subseteq Vip

Known == {v \in Vip : table[v] # 0}
SendAddr(c) == IF cells[c].addr # NoAddr THEN cells[c].addr ELSE cells[c].conf
At(t, pc) == th[t].pc = pc
Go(t, pc) == th' = [th EXCEPT ![t].pc = pc]
Told(t) == [vip |-> th[t].vip, addr |-> th[t].addr, epoch |-> th[t].epoch]

\* Of the news with a date, only the freshest of a peer is remembered.
Freshest(facts) ==
  {f \in facts : /\ f.epoch > 0
                 /\ \A g \in facts : g.vip = f.vip => g.epoch <= f.epoch}
Hear(f) == heard' = Freshest(heard \cup {f})

Init ==
  /\ time = 1
  /\ cells = << >>
  /\ table = [v \in Vip |-> 0]
  /\ disk = [v \in Vip |-> NoAddr]
  /\ \E v \in Vip, a \in Addr : th = [t \in Thread |->
       [pc |-> "idle", kind |-> "packet", vip |-> v, addr |-> a,
        epoch |-> 0, cell |-> 0, changed |-> FALSE]]
  /\ heard = {} /\ added = {}

Tick ==
  /\ time < MaxTime
  /\ time' = time + 1
  /\ UNCHANGED <<cells, table, disk, th, heard, added>>

\* A packet of v, a gossip or directory entry about v, or a card of v.
Start(t, kind, v, a, e) ==
  /\ At(t, "idle")
  /\ th' = [th EXCEPT ![t] = [pc |-> "find", kind |-> kind, vip |-> v, addr |-> a,
                              epoch |-> e, cell |-> 0, changed |-> FALSE]]
  /\ UNCHANGED <<time, cells, table, disk, heard, added>>

RecvPacket(t) ==
  \E v \in Vip, a \in Addr, kind \in {"ping", "packet"} : Start(t, kind, v, a, 0)

\* Gossip about an address nobody confirmed has epoch 0, a directory record
\* has the time it was published.
TakeEntry(t) ==
  \E v \in Vip, a \in Addr, e \in 0..time :
    /\ t \in Directory => e > 0
    /\ Start(t, "entry", v, a, e)

AddPeerLive(t) == \E v \in Vip, a \in Addr : Start(t, "card", v, a, time)

\* Faulty variant: data from a stranger is handled like a peer's.
FindAnybody(t) ==
  /\ At(t, "find")
  /\ LET kind == th[t].kind
         known == IF kind \in {"ping", "packet"} THEN "observe" ELSE "check"
         unknown == IF kind = "packet" THEN "observe"
                    ELSE IF kind = "card" THEN "insert" ELSE "count"
     IN th' = [th EXCEPT ![t].cell = table[th[t].vip],
                         ![t].pc = IF table[th[t].vip] # 0 THEN known ELSE unknown]
  /\ UNCHANGED <<time, cells, table, disk, heard, added>>

\* get_peer, under a read lock of its own.  Data from a stranger is dropped.
Find(t) ==
  /\ At(t, "find")
  /\ LET kind == th[t].kind
         known == IF kind \in {"ping", "packet"} THEN "observe" ELSE "check"
         unknown == IF kind = "packet" THEN "idle"
                    ELSE IF kind = "card" THEN "insert" ELSE "count"
     IN th' = [th EXCEPT ![t].cell = table[th[t].vip],
                         ![t].pc = IF table[th[t].vip] # 0 THEN known ELSE unknown]
  /\ UNCHANGED <<time, cells, table, disk, heard, added>>

\* Faulty variant: the cap is forgotten.
CountNothing(t) ==
  /\ At(t, "count")
  /\ Go(t, "insert")
  /\ UNCHANGED <<time, cells, table, disk, heard, added>>

\* peer_count() < MAX_PEERS, under another read lock.
Count(t) ==
  /\ At(t, "count")
  /\ Go(t, IF Cardinality(Known) < MaxPeers THEN "insert" ELSE "idle")
  /\ UNCHANGED <<time, cells, table, disk, heard, added>>

\* The map's insert, under the write lock: it replaces what is there.
Insert(t) ==
  /\ At(t, "insert") /\ Len(cells) < MaxCells
  /\ LET v == th[t].vip
         a == th[t].addr
         e == IF th[t].kind = "ping" THEN time
              ELSE IF th[t].kind = "card" THEN 0 ELSE th[t].epoch
     IN /\ cells' = Append(cells, [conf |-> a, epoch |-> e,
                                   addr |-> IF th[t].kind = "card" THEN NoAddr ELSE a])
        /\ table' = [table EXCEPT ![v] = Len(cells) + 1]
        /\ Hear([vip |-> v, addr |-> a, epoch |-> e])
        /\ added' = IF th[t].kind = "card" THEN added \cup {v} ELSE added
  /\ Go(t, "save")
  /\ UNCHANGED <<time, disk>>

\* persist_peer_addr.  The receive loop saves a renamed peer's address as it
\* is in the table; the directory thread saves the one of its document.
Save(t) ==
  /\ At(t, "save")
  /\ LET v == th[t].vip
         renamed == t \in Recv /\ th[t].kind = "entry" /\ th[t].cell # 0 /\ ~th[t].changed
     IN disk' = [disk EXCEPT ![v] = IF renamed THEN SendAddr(table[v]) ELSE th[t].addr]
  /\ Go(t, IF th[t].kind = "ping" /\ th[t].cell = 0 THEN "find again" ELSE "idle")
  /\ UNCHANGED <<time, cells, table, heard, added>>

\* get_peer(..).expect("just inserted")
FindAgain(t) ==
  /\ At(t, "find again")
  /\ th' = [th EXCEPT ![t].cell = table[th[t].vip], ![t].pc = "observe"]
  /\ UNCHANGED <<time, cells, table, disk, heard, added>>

-----------------------------------------------------------------------------
(* Peer::observe and Peer::observe_epoch.                                   *)

\* The address lock: compare, overwrite, release.
Overwrite(t, e) ==
  LET c == th[t].cell IN
  /\ cells' = [cells EXCEPT ![c].addr = th[t].addr]
  /\ th' = [th EXCEPT ![t].pc = "stamp", ![t].epoch = e,
                      ![t].changed = cells[c].addr # th[t].addr]
  /\ UNCHANGED <<time, table, disk, added>>

\* observe() reads the clock, then overwrites unconditionally.
Observe(t) ==
  /\ At(t, "observe")
  /\ Overwrite(t, time)
  /\ Hear([Told(t) EXCEPT !.epoch = time])

\* observe_epoch() loads the epoch without holding the lock.  When the news
\* is not fresher, a new name may still make the caller save the entry, and
\* add_peer_live always saves the card.
Check(t) ==
  /\ At(t, "check")
  /\ IF th[t].epoch > cells[th[t].cell].epoch
     THEN Go(t, "write")
     ELSE \E renamed \in BOOLEAN :
            Go(t, IF renamed \/ th[t].kind = "card" THEN "save" ELSE "idle")
  /\ Hear(Told(t))
  /\ UNCHANGED <<time, cells, table, disk, added>>

Write(t) ==
  /\ At(t, "write")
  /\ Overwrite(t, th[t].epoch)
  /\ UNCHANGED heard

\* The epoch is stored after the lock is released.
Stamp(t) ==
  /\ At(t, "stamp")
  /\ cells' = [cells EXCEPT ![th[t].cell].epoch = th[t].epoch]
  /\ \E renamed \in IF th[t].kind = "entry" THEN BOOLEAN ELSE {FALSE} :
       Go(t, IF th[t].changed \/ renamed \/ th[t].kind = "card" THEN "save" ELSE "idle")
  /\ UNCHANGED <<time, table, disk, heard, added>>

-----------------------------------------------------------------------------
\* Faulty variant: the table is updated before the peer exists.
RegistryAddsNothing(v, a) ==
  /\ Registry # {} /\ v \notin Known
  /\ Cardinality(Known) < MaxPeers /\ Len(cells) < MaxCells
  /\ table' = [table EXCEPT ![v] = Len(cells) + 1]
  /\ UNCHANGED <<time, cells, disk, th, heard, added>>

\* One pass of the registry thread over one entry, under the write lock; a
\* known peer only gets a candidate to probe.  Nothing is saved.
RegistryAdds(v, a) ==
  /\ Registry # {} /\ v \notin Known
  /\ Cardinality(Known) < MaxPeers /\ Len(cells) < MaxCells
  /\ cells' = Append(cells, [conf |-> a, addr |-> NoAddr, epoch |-> 0])
  /\ table' = [table EXCEPT ![v] = Len(cells) + 1]
  /\ UNCHANGED <<time, disk, th, heard, added>>

Step(t) ==
  \/ Find(t) \/ Count(t) \/ Insert(t) \/ Save(t) \/ FindAgain(t)
  \/ Observe(t) \/ Check(t) \/ Write(t) \/ Stamp(t)

Next ==
  \/ Tick
  \/ \E t \in Recv : RecvPacket(t)
  \/ \E t \in Learners : TakeEntry(t)
  \/ \E t \in Gui : AddPeerLive(t)
  \/ \E t \in Thread : Step(t)
  \/ \E v \in Vip, a \in Addr : RegistryAdds(v, a)

Spec == Init /\ [][Next]_vars

-----------------------------------------------------------------------------
(* Properties.                                                              *)

Quiet == \A t \in Thread : At(t, "idle")
News(v) == {f \in heard : f.vip = v}

\* Once every handler has returned, the address in use for a peer is one it
\* was told about last: news that was rejected or overtaken does not survive
\* (peer.rs observe_epoch: "direct observation and more-recent gossip both
\* correctly take precedence over stale information").
FreshestWins ==
  Quiet => \A v \in Vip : News(v) # {} =>
    /\ v \in Known
    /\ \E f \in News(v) : f.addr = SendAddr(table[v])

\* Once every handler has returned, mesh.toml has the address in use for every
\* peer something was heard of: neither the order of the saves nor a renaming
\* rolls it back (mesh.rs persist_peer_addr, apply_directory_members).
SavedIsCurrent ==
  Quiet => \A v \in Vip : News(v) # {} => disk[v] = SendAddr(table[v])

\* peer_count() and insert() are separate, so the table may outgrow MAX_PEERS,
\* but by no more than one peer for every thread that counts and then inserts
\* (learn_peer_from_ping, apply_gossip_entry); the registry thread does both
\* under one lock, and only the user's own cards are not counted.
TableBound == Cardinality(Known \ added) <= MaxPeers + Cardinality(Learners)

\* The lookup after learn_peer_from_ping's insert finds the peer: expect("just
\* inserted") never panics, and every thread inside a Peer method holds one.
JustInserted ==
  \A t \in Thread :
    /\ At(t, "find again") => th[t].vip \in Known
    /\ th[t].pc \in {"observe", "check", "write", "stamp"} => th[t].cell # 0

(* The inductive invariant of TableBound and JustInserted.                  *)

KindsMatch ==
  /\ \A t \in Learners : th[t].kind # "card"
  /\ \A t \in Gui : ~At(t, "count") /\ (At(t, "idle") \/ th[t].kind = "card")

\* A thread that has counted has room for its peer.
Inserting == {t \in Learners : At(t, "insert")}
RoomLeft ==
  Cardinality(Known \ added) + Cardinality(Inserting) <= MaxPeers + Cardinality(Learners)

CellsExist ==
  \A t \in Thread :
    /\ th[t].cell <= Len(cells)
    /\ th[t].pc \in {"observe", "check", "write", "stamp"} => th[t].cell # 0
    /\ th[t].cell # 0 \/ th[t].pc \in {"save", "find again"} => th[t].vip \in Known

IInv == TypeOK /\ KindsMatch /\ RoomLeft /\ CellsExist

(* With one thread besides the registry's, what the comments promise holds. *)

Alone == \A s, t \in Thread : s = t
ReceiveOnly == Alone /\ Thread \subseteq Recv

\* The news of a peer have one date, and none is from the future.
OneDate ==
  /\ time > 0
  /\ \A f \in heard : f.epoch > 0 /\ f.epoch <= time
  /\ \A f, g \in heard : f.vip = g.vip => f.epoch = g.epoch

OwnCells == \A v, w \in Known : table[v] = table[w] => v = w

\* Between two handlers a peer's object has the date and an address of the news.
Writing(v) == \E t \in Thread : th[t].vip = v /\ th[t].pc \in {"write", "stamp"}
FollowsNews(v) ==
  IF News(v) = {} THEN v \in Known => cells[table[v]].epoch = 0
  ELSE /\ v \in Known
       /\ \E f \in News(v) : f.epoch = cells[table[v]].epoch /\ f.addr = SendAddr(table[v])
Follows == \A v \in Vip : ~Writing(v) => FollowsNews(v)

\* The object a thread works on is the peer's, and what it writes is in the news.
Held ==
  \A t \in Thread :
    /\ th[t].epoch <= time
    /\ th[t].pc \in {"count", "insert"} => News(th[t].vip) = {}
    /\ th[t].pc \in {"observe", "check", "write", "stamp"} => th[t].cell = table[th[t].vip]
    /\ th[t].pc \in {"write", "stamp"} => Told(t) \in heard
    /\ At(t, "stamp") => cells[th[t].cell].addr = th[t].addr

LoneInv == OneDate /\ OwnCells /\ Follows /\ Held

\* Outside the handler of its packet or entry, an address in use is on disk.
Saving(v) == \E t \in Thread : th[t].vip = v /\ th[t].pc \in {"stamp", "save"}
OnDisk ==
  /\ \A v \in Known : ~Saving(v) /\ cells[table[v]].addr # NoAddr
                      => disk[v] = cells[table[v]].addr
  /\ \A v \in Known : ~Writing(v) /\ News(v) # {} => cells[table[v]].addr # NoAddr
SavingRight ==
  \A t \in Thread :
    /\ th[t].pc \in {"count", "insert"} => th[t].cell = 0
    /\ th[t].pc \in {"find", "count", "insert", "find again", "observe", "check", "write"}
         => ~th[t].changed
    /\ At(t, "check") => th[t].kind = "entry"
    /\ At(t, "stamp") /\ ~th[t].changed => disk[th[t].vip] = th[t].addr
    /\ At(t, "save") =>
         \/ /\ th[t].changed <=> th[t].cell # 0
            /\ cells[table[th[t].vip]].addr = th[t].addr
         \/ th[t].kind = "entry" /\ th[t].cell # 0 /\ ~th[t].changed

SavedInv == LoneInv /\ OnDisk /\ SavingRight
=============================================================================
