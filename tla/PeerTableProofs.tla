-------------------------- MODULE PeerTableProofs --------------------------
(***************************************************************************)
(* Theorems of PeerTable, for every number of threads, peers and addresses *)
(* and every interleaving of their critical sections.                      *)
(***************************************************************************)
EXTENDS PeerTable, FiniteSetTheorems, TLAPS

LEMMA CellFacts ==
  ASSUME TypeOK, NEW c \in 1..Len(cells)
  PROVE  cells[c] \in Cell /\ SendAddr(c) \in Addr
  <1>1. cells[c] \in Cell
    BY DEF TypeOK
  <1> QED
    BY <1>1 DEF SendAddr, Cell, OptAddr

LEMMA LocalFacts ==
  ASSUME TypeOK, NEW t \in Thread
  PROVE  /\ th[t] \in Local /\ th[t].pc \in Pc /\ th[t].vip \in Vip
         /\ th[t].addr \in Addr /\ th[t].epoch \in Nat /\ th[t].cell \in Nat
         /\ th[t].changed \in BOOLEAN
         /\ th[t].kind \in {"ping", "packet", "entry", "card", "gossip"}
  BY DEF TypeOK, Local

\* Moving to another step keeps a thread's local variables.
LEMMA GoFacts ==
  ASSUME TypeOK, NEW t \in Thread, NEW pc \in Pc, Go(t, pc)
  PROVE  /\ th' \in [Thread -> Local]
         /\ th'[t].pc = pc /\ th'[t].kind = th[t].kind /\ th'[t].vip = th[t].vip
         /\ th'[t].cell = th[t].cell
         /\ \A u \in Thread \ {t} : th'[u] = th[u]
  <1>1. th[t] \in Local /\ th \in [Thread -> Local]
    BY DEF TypeOK
  <1>2. th' = [th EXCEPT ![t] = [th[t] EXCEPT !.pc = pc]]
    BY DEF Go
  <1> QED
    BY <1>1, <1>2 DEF Local

\* A new object is appended, none is changed.
LEMMA AppendFacts ==
  ASSUME TypeOK, NEW c \in Cell, cells' = Append(cells, c)
  PROVE  /\ cells' \in Seq(Cell) /\ Len(cells') = Len(cells) + 1 /\ Len(cells) \in Nat
  BY DEF TypeOK

(* Type correctness.  Every step of a thread uses a cell that exists. *)

LEMMA InitIInv ==
  ASSUME Init PROVE IInv
  <1>1. PICK v \in Vip, a \in Addr : th = [t \in Thread |->
          [pc |-> "idle", kind |-> "packet", vip |-> v, addr |-> a,
           epoch |-> 0, cell |-> 0, changed |-> FALSE]]
    BY DEF Init
  <1>2. TypeOK
    BY <1>1 DEF Init, TypeOK, Local, OptAddr, Pc
  <1>3. KindsMatch
    BY <1>1 DEF KindsMatch, At, Thread
  <1>4. CellsExist
    <2>1. \A t \in Thread : th[t].cell = 0 /\ th[t].pc = "idle"
      BY <1>1
    <2>2. Len(cells) = 0
      BY DEF Init
    <2> SUFFICES ASSUME NEW t \in Thread
                 PROVE  /\ th[t].cell <= Len(cells)
                        /\ th[t].pc \notin {"observe", "check", "write", "stamp"}
                        /\ th[t].cell = 0 /\ th[t].pc \notin {"save", "find again"}
      BY DEF CellsExist
    <2>3. th[t].cell = 0 /\ th[t].pc = "idle"
      BY <2>1
    <2> QED
      BY <2>2, <2>3 DEF At
  <1>5. RoomLeft
    <2>1. Inserting = {} /\ Known \ added = {}
      BY <1>1 DEF Inserting, At, Known, Init, Thread
    <2>2. Cardinality(Learners) \in Nat
      BY FS_CardinalityType, PeerTableAssumption
    <2>3. Cardinality({}) = 0 /\ MaxPeers \in Nat
      BY FS_EmptySet, PeerTableAssumption
    <2>4. Cardinality(Inserting) = 0 /\ Cardinality(Known \ added) = 0
      BY <2>1, <2>3, Zenon
    <2> QED
      BY <2>2, <2>3, <2>4 DEF RoomLeft
  <1> QED
    BY <1>2, <1>3, <1>4, <1>5 DEF IInv

LEMMA FiniteSets ==
  ASSUME TypeOK
  PROVE  /\ IsFiniteSet(Known \ added) /\ IsFiniteSet(Inserting) /\ IsFiniteSet(Learners)
         /\ Cardinality(Known \ added) \in Nat /\ Cardinality(Inserting) \in Nat
         /\ Cardinality(Learners) \in Nat
         /\ Cardinality(Inserting) <= Cardinality(Learners)
  <1>1. IsFiniteSet(Vip) /\ IsFiniteSet(Learners)
    BY PeerTableAssumption
  <1>2. Known \ added \in SUBSET Vip
    BY DEF Known
  <1>3. Inserting \in SUBSET Learners
    BY DEF Inserting
  <1> QED
    BY <1>1, <1>2, <1>3, FS_Subset, FS_CardinalityType

LEMMA RoomArithmetic ==
  \A k, i, j, l, m \in Nat : k + i <= m + l /\ j <= i => k + j <= m + l
  OBVIOUS

\* What a step that leaves the shared state alone has to say of it.
LEMMA SharedSame ==
  ASSUME IInv, UNCHANGED <<time, cells, table, disk, heard, added>>
  PROVE  /\ cells' \in Seq(Cell) /\ Len(cells') = Len(cells) /\ Len(cells) \in Nat
         /\ UNCHANGED <<table, added>>
         /\ time' \in Nat /\ disk' \in [Vip -> OptAddr]
         /\ heard' \subseteq Fact
  BY DEF IInv, TypeOK

\* A step of one thread that adds no peer.
LEMMA LocalKeeps ==
  ASSUME IInv, NEW t \in Thread, NEW r \in Local, th' = [th EXCEPT ![t] = r],
         cells' \in Seq(Cell), Len(cells') = Len(cells), UNCHANGED <<table, added>>,
         time' \in Nat, disk' \in [Vip -> OptAddr], heard' \subseteq Fact,
         t \in Learners => r.kind # "card",
         t \in Gui => r.pc # "count" /\ (r.pc = "idle" \/ r.kind = "card"),
         r.cell <= Len(cells),
         r.pc \in {"observe", "check", "write", "stamp"} => r.cell # 0,
         r.cell # 0 \/ r.pc \in {"save", "find again"} => r.vip \in Known
  PROVE  TypeOK' /\ KindsMatch' /\ CellsExist'
  <1>1. th \in [Thread -> Local] /\ th'[t] = r /\ \A u \in Thread \ {t} : th'[u] = th[u]
    BY DEF IInv, TypeOK
  <1>2. TypeOK'
    BY DEF IInv, TypeOK
  <1>3. Known' = Known
    BY DEF Known
  <1>4. KindsMatch'
    BY <1>1 DEF IInv, KindsMatch, At, Thread
  <1>5. CellsExist'
    <2> SUFFICES ASSUME NEW u \in Thread
                 PROVE  /\ th'[u].cell <= Len(cells')
                        /\ th'[u].pc \in {"observe", "check", "write", "stamp"}
                           => th'[u].cell # 0
                        /\ th'[u].cell # 0 \/ th'[u].pc \in {"save", "find again"} => th'[u].vip \in Known'
      BY DEF CellsExist, At
    <2>1. CASE u = t
      BY <1>1, <1>3, <2>1
    <2>2. CASE u # t
      BY <1>1, <1>3, <2>2 DEF IInv, CellsExist, At
    <2> QED
      BY <2>1, <2>2
  <1> QED
    BY <1>2, <1>4, <1>5

\* A step that neither adds a peer nor prepares to.
LEMMA RoomStep ==
  ASSUME IInv, UNCHANGED <<table, added>>, Inserting' \subseteq Inserting
  PROVE  RoomLeft'
  <1>1. Cardinality(Inserting') <= Cardinality(Inserting) /\ Cardinality(Inserting') \in Nat
    BY FiniteSets, FS_Subset, FS_CardinalityType DEF IInv
  <1>2. Cardinality((Known \ added)') = Cardinality(Known \ added)
    BY DEF Known
  <1>3. Cardinality(Known \ added) + Cardinality(Inserting) <= MaxPeers + Cardinality(Learners)
    BY DEF IInv, RoomLeft
  <1>4. /\ Cardinality(Known \ added) \in Nat /\ Cardinality(Inserting) \in Nat
        /\ Cardinality(Learners) \in Nat /\ MaxPeers \in Nat
    BY FiniteSets, PeerTableAssumption DEF IInv
  <1>5. Cardinality(Known \ added) + Cardinality(Inserting') <= MaxPeers + Cardinality(Learners)
    BY <1>1, <1>3, <1>4, RoomArithmetic, Zenon
  <1> QED
    BY <1>2, <1>5, Zenon DEF RoomLeft

LEMMA LocalStep ==
  ASSUME IInv, NEW t \in Thread, NEW r \in Local, th' = [th EXCEPT ![t] = r],
         cells' \in Seq(Cell), Len(cells') = Len(cells), UNCHANGED <<table, added>>,
         time' \in Nat, disk' \in [Vip -> OptAddr], heard' \subseteq Fact,
         t \in Learners => r.kind # "card" /\ r.pc # "insert",
         t \in Gui => r.pc # "count" /\ (r.pc = "idle" \/ r.kind = "card"),
         r.cell <= Len(cells),
         r.pc \in {"observe", "check", "write", "stamp"} => r.cell # 0,
         r.cell # 0 \/ r.pc \in {"save", "find again"} => r.vip \in Known
  PROVE  IInv'
  <1>1. TypeOK' /\ KindsMatch' /\ CellsExist'
    BY LocalKeeps
  <1>2. th'[t] = r /\ \A u \in Thread \ {t} : th'[u] = th[u]
    BY DEF IInv, TypeOK
  <1>3. Inserting' \subseteq Inserting
    BY <1>2 DEF Inserting, At, Thread
  <1>4. RoomLeft'
    BY <1>3, RoomStep
  <1> QED
    BY <1>1, <1>4 DEF IInv

LEMMA StartStep ==
  ASSUME IInv, NEW t \in Thread, NEW kind \in {"ping", "packet", "entry", "card"},
         NEW v \in Vip, NEW a \in Addr, NEW e \in Nat, Start(t, kind, v, a, e),
         t \in Learners => kind # "card", t \in Gui => kind = "card"
  PROVE  IInv'
  <1> DEFINE r == [pc |-> "find", kind |-> kind, vip |-> v, addr |-> a,
                   epoch |-> e, cell |-> 0, changed |-> FALSE]
  <1>1. r \in Local
    BY DEF Local, Pc, OptAddr
  <1>2. th' = [th EXCEPT ![t] = r] /\ t \in Thread
        /\ UNCHANGED <<time, cells, table, disk, heard, added>>
    BY DEF Start, Thread
  <1>3. r.pc = "find" /\ r.kind = kind /\ r.cell = 0
    OBVIOUS
  <1> HIDE DEF r
  <1>4. /\ cells' \in Seq(Cell) /\ Len(cells') = Len(cells) /\ UNCHANGED <<table, added>>
        /\ time' \in Nat /\ disk' \in [Vip -> OptAddr] /\ heard' \subseteq Fact
        /\ r.cell <= Len(cells)
    BY <1>2, <1>3, SharedSame
  <1> QED
    BY <1>1, <1>2, <1>3, <1>4, LocalStep

LEMMA FindStep ==
  ASSUME IInv, NEW t \in Thread, Find(t) PROVE IInv'
  <1> DEFINE pc == LET kind == th[t].kind
                       known == IF kind \in {"ping", "packet"} THEN "observe" ELSE "check"
                       unknown == IF kind = "packet" THEN "idle"
                                  ELSE IF kind = "card" THEN "insert" ELSE "count"
                   IN  IF table[th[t].vip] # 0 THEN known ELSE unknown
             r == [th[t] EXCEPT !.cell = table[th[t].vip], !.pc = pc]
  <1>1. /\ t \in Thread /\ th \in [Thread -> Local] /\ At(t, "find") /\ th[t].vip \in Vip
        /\ table[th[t].vip] \in 0..Len(cells) /\ Len(cells) \in Nat /\ table[th[t].vip] \in Nat
        /\ th[t] \in Local
    BY LocalFacts DEF Find, IInv, TypeOK, Thread
  <1>2. pc \in Pc
    BY DEF Pc
  <1>3. th' = [th EXCEPT ![t] = r] /\ UNCHANGED <<time, cells, table, disk, heard, added>>
    BY <1>1 DEF Find
  <1>4. t \in Learners => th[t].kind # "card"
    BY DEF IInv, KindsMatch
  <1>5. t \in Gui => th[t].kind = "card"
    BY <1>1 DEF IInv, KindsMatch, At
  <1>6. /\ pc \in {"observe", "check", "write", "stamp"} => table[th[t].vip] # 0
        /\ pc = "insert" => th[t].kind = "card"
        /\ pc = "count" => th[t].kind # "card"
        /\ pc \notin {"save", "find again"}
    OBVIOUS
  <1> HIDE DEF pc
  <1>7. r \in Local /\ r.pc = pc /\ r.kind = th[t].kind /\ r.vip = th[t].vip
        /\ r.cell = table[th[t].vip]
    BY <1>1, <1>2 DEF Local
  <1> HIDE DEF r
  <1>8. r.cell # 0 => r.vip \in Known
    BY <1>1, <1>7 DEF Known
  <1>9. /\ cells' \in Seq(Cell) /\ Len(cells') = Len(cells) /\ UNCHANGED <<table, added>>
        /\ time' \in Nat /\ disk' \in [Vip -> OptAddr] /\ heard' \subseteq Fact
        /\ r.cell <= Len(cells)
    BY <1>1, <1>3, <1>7, SharedSame
  <1> QED
    BY <1>1, <1>3, <1>4, <1>5, <1>6, <1>7, <1>8, <1>9, LocalStep

\* A thread moves on and keeps its local variables.
LEMMA GoStep ==
  ASSUME IInv, NEW t \in Thread, NEW pc \in Pc \ {"count", "insert"}, Go(t, pc), ~At(t, "idle"),
         cells' \in Seq(Cell), Len(cells') = Len(cells), UNCHANGED <<table, added>>,
         time' \in Nat, disk' \in [Vip -> OptAddr], heard' \subseteq Fact,
         pc \in {"observe", "check", "write", "stamp"} => th[t].cell # 0,
         pc \in {"save", "find again"} => th[t].vip \in Known
  PROVE  IInv'
  <1> DEFINE r == [th[t] EXCEPT !.pc = pc]
  <1>1. th[t] \in Local /\ pc \in Pc /\ pc # "insert" /\ pc # "count"
    BY LocalFacts DEF IInv
  <1>2. /\ r \in Local /\ r.pc = pc /\ r.kind = th[t].kind /\ r.vip = th[t].vip
        /\ r.cell = th[t].cell
    BY <1>1 DEF Local
  <1>3. th' = [th EXCEPT ![t] = r]
    BY DEF Go
  <1> HIDE DEF r
  <1>4. t \in Learners => r.kind # "card"
    BY <1>2 DEF IInv, KindsMatch
  <1>5. t \in Gui => r.kind = "card"
    BY <1>2 DEF IInv, KindsMatch, At
  <1>6. th[t].cell <= Len(cells) /\ (th[t].cell # 0 => th[t].vip \in Known)
    BY DEF IInv, CellsExist
  <1> QED
    BY <1>1, <1>2, <1>3, <1>4, <1>5, <1>6, LocalStep

\* What a Told(t) is.
LEMMA ToldFact ==
  ASSUME TypeOK, NEW t \in Thread, NEW e \in Nat
  PROVE  Told(t) \in Fact /\ [Told(t) EXCEPT !.epoch = e] \in Fact
  BY LocalFacts DEF Told, Fact

LEMMA SaveStep ==
  ASSUME IInv, NEW t \in Thread, Save(t) PROVE IInv'
  <1>1. t \in Thread /\ At(t, "save") /\ UNCHANGED <<time, cells, table, heard, added>>
    BY DEF Save, Thread
  <1>2. th[t].vip \in Vip /\ th[t].addr \in OptAddr
    BY <1>1, LocalFacts DEF IInv, OptAddr
  <1> DEFINE v == th[t].vip
             renamed == t \in Recv /\ th[t].kind = "entry" /\ th[t].cell # 0 /\ ~th[t].changed
             a == IF renamed THEN SendAddr(table[v]) ELSE th[t].addr
  <1>3. a \in OptAddr
    <2>1. CASE renamed
      <3>1. v \in Known
        BY <1>1, <2>1 DEF IInv, CellsExist
      <3>2. table[v] \in 0..Len(cells) /\ table[v] # 0 /\ Len(cells) \in Nat
        BY <3>1, <1>2 DEF IInv, TypeOK, Known
      <3>3. table[v] \in 1..Len(cells)
        BY <3>2
      <3>4. SendAddr(table[v]) \in Addr
        BY <3>3, CellFacts, Zenon DEF IInv
      <3> QED
        BY <2>1, <3>4 DEF OptAddr
    <2>2. CASE ~renamed
      BY <1>2, <2>2
    <2> QED
      BY <2>1, <2>2
  <1>4. disk' = [disk EXCEPT ![v] = a]
    BY DEF Save
  <1> HIDE DEF a
  <1>5. disk' \in [Vip -> OptAddr]
    BY <1>3, <1>4 DEF IInv, TypeOK
  <1>6. time \in Nat /\ cells \in Seq(Cell) /\ heard \subseteq Fact
    BY DEF IInv, TypeOK
  <1>7. CASE th[t].kind = "ping" /\ th[t].cell = 0
    \* The thread inserted the peer just before.
    <2>1. Go(t, "find again") /\ "find again" \in Pc \ {"count", "insert"}
      BY <1>7 DEF Save, Pc
    <2>2. th[t].vip \in Known
      BY <1>1 DEF IInv, CellsExist, At
    <2> QED
      BY <1>1, <1>5, <1>6, <2>1, <2>2, GoStep DEF At
  <1>8. CASE ~(th[t].kind = "ping" /\ th[t].cell = 0)
    <2>1. Go(t, "idle") /\ "idle" \in Pc \ {"count", "insert"}
      BY <1>8 DEF Save, Pc
    <2> QED
      BY <1>1, <1>5, <1>6, <2>1, GoStep DEF At
  <1> QED
    BY <1>7, <1>8

LEMMA HeldCell ==
  ASSUME IInv, NEW t \in Thread, th[t].cell # 0
  PROVE  /\ th[t].cell \in 1..Len(cells) /\ th[t].cell <= Len(cells)
         /\ th[t].vip \in Known
  <1>1. th[t].cell \in Nat
    BY LocalFacts DEF IInv
  <1>2. Len(cells) \in Nat
    BY DEF IInv, TypeOK
  <1>3. th[t].cell <= Len(cells) /\ th[t].vip \in Known
    BY DEF IInv, CellsExist
  <1> QED
    BY <1>1, <1>2, <1>3

LEMMA KnownCell ==
  ASSUME IInv, NEW v \in Known
  PROVE  table[v] \in 1..Len(cells) /\ table[v] <= Len(cells) /\ table[v] # 0
  <1>1. v \in Vip /\ table[v] # 0
    BY DEF Known
  <1>2. table[v] \in 0..Len(cells) /\ Len(cells) \in Nat
    BY <1>1 DEF IInv, TypeOK
  <1> QED
    BY <1>1, <1>2

LEMMA FindAgainStep ==
  ASSUME IInv, NEW t \in Thread, FindAgain(t) PROVE IInv'
  <1> DEFINE r == [th[t] EXCEPT !.cell = table[th[t].vip], !.pc = "observe"]
  <1>1. /\ t \in Thread /\ th[t] \in Local /\ At(t, "find again") /\ th[t].vip \in Vip
        /\ UNCHANGED <<time, cells, table, disk, heard, added>>
    BY LocalFacts DEF FindAgain, Thread, IInv
  <1>2. th[t].vip \in Known
    BY <1>1 DEF IInv, CellsExist, At
  <1>3. table[th[t].vip] \in 1..Len(cells) /\ table[th[t].vip] # 0
    BY <1>2, KnownCell
  <1>4. table[th[t].vip] \in Nat /\ table[th[t].vip] <= Len(cells)
    BY <1>2, <1>3, KnownCell
  <1>5. th' = [th EXCEPT ![t] = r]
    BY <1>1 DEF FindAgain
  <1>6. /\ r \in Local /\ r.pc = "observe" /\ r.kind = th[t].kind /\ r.vip = th[t].vip
        /\ r.cell = table[th[t].vip]
    BY <1>1, <1>4 DEF Local, Pc
  <1> HIDE DEF r
  <1>7. t \in Learners => r.kind # "card"
    BY <1>6 DEF IInv, KindsMatch
  <1>8. t \in Gui => r.kind = "card"
    BY <1>1, <1>6 DEF IInv, KindsMatch, At
  <1>9. /\ cells' \in Seq(Cell) /\ Len(cells') = Len(cells) /\ UNCHANGED <<table, added>>
        /\ time' \in Nat /\ disk' \in [Vip -> OptAddr] /\ heard' \subseteq Fact
    BY <1>1, SharedSame
  <1>10. r.cell <= Len(cells) /\ r.cell # 0 /\ r.vip \in Known
    BY <1>2, <1>3, <1>4, <1>6, Zenon
  <1> QED
    BY <1>1, <1>5, <1>6, <1>7, <1>8, <1>9, <1>10, LocalStep

\* A cell that a thread overwrites stays a cell.
LEMMA CellKept ==
  ASSUME TypeOK, NEW c \in 1..Len(cells), NEW d \in Cell, cells' = [cells EXCEPT ![c] = d]
  PROVE  cells' \in Seq(Cell) /\ Len(cells') = Len(cells)
  BY DEF TypeOK

\* What is remembered of the news are facts.
LEMMA HearFact ==
  ASSUME heard \subseteq Fact, NEW f \in Fact, Hear(f)
  PROVE  heard' \subseteq Fact
  BY DEF Hear, Freshest

LEMMA OverwriteStep ==
  ASSUME IInv, NEW t \in Thread, NEW e \in Nat, Overwrite(t, e),
         th[t].pc \in {"observe", "write"}, heard' \subseteq Fact
  PROVE  IInv'
  <1> DEFINE c == th[t].cell
             r == [th[t] EXCEPT !.pc = "stamp", !.epoch = e,
                                !.changed = cells[c].addr # th[t].addr]
             d == [cells[c] EXCEPT !.addr = th[t].addr]
  <1>1. /\ t \in Thread /\ th[t] \in Local /\ th[t].addr \in OptAddr /\ c \in Nat
        /\ ~At(t, "idle")
    BY LocalFacts DEF Thread, IInv, At, OptAddr
  <1>2. c # 0
    BY <1>1 DEF IInv, CellsExist
  <1>3. c \in 1..Len(cells) /\ c <= Len(cells) /\ th[t].vip \in Known
    BY <1>1, <1>2, HeldCell
  <1>4. cells[c] \in Cell
    BY <1>3, CellFacts, Zenon DEF IInv
  <1>5. d \in Cell
    BY <1>1, <1>4 DEF Cell
  <1>6. cells' = [cells EXCEPT ![c] = d] /\ th' = [th EXCEPT ![t] = r]
        /\ UNCHANGED <<time, table, disk, added>>
    BY DEF Overwrite
  <1>7. /\ r \in Local /\ r.pc = "stamp" /\ r.kind = th[t].kind /\ r.vip = th[t].vip
        /\ r.cell = c
    BY <1>1 DEF Local, Pc
  <1> HIDE DEF r, d, c
  <1>8. cells' \in Seq(Cell) /\ Len(cells') = Len(cells)
    BY <1>3, <1>5, <1>6, CellKept DEF IInv
  <1>9. t \in Learners => r.kind # "card"
    BY <1>7 DEF IInv, KindsMatch
  <1>10. t \in Gui => r.kind = "card"
    BY <1>1, <1>7 DEF IInv, KindsMatch, At
  <1>11. time' \in Nat /\ disk' \in [Vip -> OptAddr]
    BY <1>6 DEF IInv, TypeOK
  <1>12. r.cell <= Len(cells) /\ r.cell # 0 /\ r.vip \in Known
    BY <1>2, <1>3, <1>7, Zenon
  <1> QED
    BY <1>1, <1>6, <1>7, <1>8, <1>9, <1>10, <1>11, <1>12, LocalStep

LEMMA ObserveStep ==
  ASSUME IInv, NEW t \in Thread, Observe(t) PROVE IInv'
  <1>1. time \in Nat /\ heard \subseteq Fact /\ t \in Thread
    BY DEF IInv, TypeOK, Thread
  <1>2. [Told(t) EXCEPT !.epoch = time] \in Fact
    BY <1>1, ToldFact DEF IInv
  <1>3. heard' \subseteq Fact
    BY <1>1, <1>2, HearFact DEF Observe
  <1> QED
    BY <1>1, <1>3, OverwriteStep DEF Observe, At

LEMMA WriteStep ==
  ASSUME IInv, NEW t \in Thread, Write(t) PROVE IInv'
  <1>1. th[t].epoch \in Nat /\ heard' \subseteq Fact
    BY LocalFacts DEF IInv, TypeOK, Thread, Write
  <1> QED
    BY <1>1, OverwriteStep DEF Write, At

LEMMA CheckStep ==
  ASSUME IInv, NEW t \in Thread, Check(t) PROVE IInv'
  <1>1. /\ t \in Thread /\ At(t, "check") /\ ~At(t, "idle")
        /\ UNCHANGED <<time, cells, table, disk, added>>
    BY DEF Check, Thread, At
  <1>2. th[t].cell # 0 /\ th[t].vip \in Known
    BY <1>1 DEF IInv, CellsExist, At
  <1>3. th[t].epoch \in Nat
    BY <1>1, LocalFacts DEF IInv
  <1>4. Told(t) \in Fact
    BY <1>1, ToldFact DEF IInv
  <1>5. /\ cells' \in Seq(Cell) /\ Len(cells') = Len(cells) /\ UNCHANGED <<table, added>>
        /\ time' \in Nat /\ disk' \in [Vip -> OptAddr] /\ heard' \subseteq Fact
    BY <1>1, <1>4, HearFact DEF IInv, TypeOK, Check
  <1>6. PICK pc \in {"write", "save", "idle"} : Go(t, pc)
    BY DEF Check
  <1>7. pc \in Pc \ {"count", "insert"}
    BY DEF Pc
  <1> QED
    BY <1>1, <1>2, <1>5, <1>6, <1>7, GoStep

LEMMA StampStep ==
  ASSUME IInv, NEW t \in Thread, Stamp(t) PROVE IInv'
  <1> DEFINE c == th[t].cell
             d == [cells[c] EXCEPT !.epoch = th[t].epoch]
  <1>1. /\ t \in Thread /\ At(t, "stamp") /\ ~At(t, "idle") /\ c \in Nat
        /\ th[t].epoch \in Nat /\ UNCHANGED <<time, table, disk, heard, added>>
    BY LocalFacts DEF Stamp, Thread, At, IInv
  <1>2. c # 0
    BY <1>1 DEF IInv, CellsExist, At
  <1>3. c \in 1..Len(cells) /\ th[t].vip \in Known
    BY <1>1, <1>2, HeldCell
  <1>4. cells[c] \in Cell
    BY <1>3, CellFacts, Zenon DEF IInv
  <1>5. d \in Cell
    BY <1>1, <1>4 DEF Cell
  <1>6. cells' = [cells EXCEPT ![c] = d]
    BY DEF Stamp
  <1>7. PICK pc \in {"save", "idle"} : Go(t, pc)
    BY DEF Stamp
  <1> HIDE DEF d
  <1>8. cells' \in Seq(Cell) /\ Len(cells') = Len(cells)
    BY <1>3, <1>5, <1>6, CellKept DEF IInv
  <1>9. /\ UNCHANGED <<table, added>> /\ time' \in Nat /\ disk' \in [Vip -> OptAddr]
        /\ heard' \subseteq Fact
    BY <1>1 DEF IInv, TypeOK
  <1>10. pc \in Pc \ {"count", "insert"}
    BY DEF Pc
  <1> QED
    BY <1>1, <1>2, <1>3, <1>7, <1>8, <1>9, <1>10, GoStep

(* The steps that add a peer, or are about to.                              *)

\* There is room for every learner if the table is not full.
LEMMA RoomWhenBelow ==
  ASSUME TypeOK, NEW K, K \subseteq Known, Cardinality(Known) < MaxPeers,
         NEW I, I \subseteq Learners
  PROVE  /\ Cardinality(K) + Cardinality(I) <= MaxPeers + Cardinality(Learners)
         /\ Cardinality(K) + 1 + Cardinality(I) <= MaxPeers + Cardinality(Learners)
  <1>1. IsFiniteSet(Known)
    BY PeerTableAssumption, FS_Subset DEF Known
  <1>2. /\ Cardinality(K) <= Cardinality(Known) /\ Cardinality(K) \in Nat
        /\ Cardinality(Known) \in Nat
    BY <1>1, FS_Subset, FS_CardinalityType
  <1>3. /\ Cardinality(I) <= Cardinality(Learners) /\ Cardinality(I) \in Nat
        /\ Cardinality(Learners) \in Nat
    BY PeerTableAssumption, FS_Subset, FS_CardinalityType
  <1>4. \A k, n, i, l, m \in Nat :
          k <= n /\ n < m /\ i <= l => k + i <= m + l /\ k + 1 + i <= m + l
    OBVIOUS
  <1>5. MaxPeers \in Nat
    BY PeerTableAssumption
  <1> QED
    BY <1>2, <1>3, <1>4, <1>5

LEMMA CountStep ==
  ASSUME IInv, NEW t \in Thread, Count(t) PROVE IInv'
  <1>1. /\ t \in Thread /\ At(t, "count") /\ ~At(t, "idle")
        /\ UNCHANGED <<time, cells, table, disk, heard, added>>
    BY DEF Count, Thread, At
  <1>2. t \notin Gui
    BY <1>1 DEF IInv, KindsMatch
  <1>3. /\ cells' \in Seq(Cell) /\ Len(cells') = Len(cells) /\ UNCHANGED <<table, added>>
        /\ time' \in Nat /\ disk' \in [Vip -> OptAddr] /\ heard' \subseteq Fact
    BY <1>1, SharedSame
  <1>4. CASE Cardinality(Known) < MaxPeers
    <2> DEFINE r == [th[t] EXCEPT !.pc = "insert"]
    <2>1. th[t] \in Local
      BY <1>1, LocalFacts DEF IInv
    <2>2. /\ r \in Local /\ r.pc = "insert" /\ r.kind = th[t].kind /\ r.vip = th[t].vip
          /\ r.cell = th[t].cell
      BY <2>1 DEF Local, Pc
    <2>3. th' = [th EXCEPT ![t] = r]
      BY <1>4 DEF Count, Go
    <2> HIDE DEF r
    <2>4. t \in Learners => r.kind # "card"
      BY <2>2 DEF IInv, KindsMatch
    <2>5. th[t].cell <= Len(cells) /\ (th[t].cell # 0 => th[t].vip \in Known)
      BY <1>1 DEF IInv, CellsExist
    <2>6. TypeOK' /\ KindsMatch' /\ CellsExist'
      BY <1>1, <1>2, <1>3, <2>2, <2>3, <2>4, <2>5, LocalKeeps
    <2>7. (Known \ added)' \subseteq Known /\ Inserting' \subseteq Learners
          /\ Known' = Known
      BY <1>1 DEF Known, Inserting
    <2>8. Cardinality((Known \ added)') + Cardinality(Inserting')
            <= MaxPeers + Cardinality(Learners)
      BY <1>4, <2>7, RoomWhenBelow, Zenon DEF IInv
    <2> QED
      BY <2>6, <2>8 DEF IInv, RoomLeft
  <1>5. CASE ~(Cardinality(Known) < MaxPeers)
    <2>1. Go(t, "idle") /\ "idle" \in Pc \ {"count", "insert"}
      BY <1>5 DEF Count, Pc
    <2> QED
      BY <1>1, <1>3, <2>1, GoStep
  <1> QED
    BY <1>4, <1>5

\* Appending an object for v, which may or may not have one already.
LEMMA TableGrows ==
  ASSUME IInv, NEW v \in Vip, NEW c \in Cell, cells' = Append(cells, c),
         table' = [table EXCEPT ![v] = Len(cells) + 1]
  PROVE  /\ cells' \in Seq(Cell) /\ Len(cells') = Len(cells) + 1 /\ Len(cells) \in Nat
         /\ table' \in [Vip -> 0..Len(cells')]
         /\ Known' = Known \cup {v}
         /\ \A n \in Nat : n <= Len(cells) => n <= Len(cells')
  <1>1. cells' \in Seq(Cell) /\ Len(cells') = Len(cells) + 1 /\ Len(cells) \in Nat
    BY AppendFacts DEF IInv
  <1>2. table \in [Vip -> 0..Len(cells)]
    BY DEF IInv, TypeOK
  <1>3. Len(cells) + 1 \in 0..Len(cells') /\ Len(cells) + 1 # 0
        /\ 0..Len(cells) \subseteq 0..Len(cells')
    BY <1>1
  <1>4. table' \in [Vip -> 0..Len(cells')]
    BY <1>2, <1>3
  <1>5. \A u \in Vip : table'[u] # 0 <=> (u = v \/ table[u] # 0)
    BY <1>2, <1>3
  <1>6. Known' = Known \cup {v}
    BY <1>5 DEF Known
  <1>7. \A n \in Nat : n <= Len(cells) => n <= Len(cells')
    BY <1>1
  <1> QED
    BY <1>1, <1>4, <1>6, <1>7

LEMMA OneMore ==
  ASSUME IInv, NEW v, NEW K, K \subseteq (Known \ added) \cup {v}
  PROVE  Cardinality(K) \in Nat /\ Cardinality(K) <= Cardinality(Known \ added) + 1
  <1> DEFINE n == Cardinality(Known \ added)
             m == Cardinality((Known \ added) \cup {v})
  <1>1. /\ IsFiniteSet((Known \ added) \cup {v})
        /\ m = IF v \in Known \ added THEN n ELSE n + 1
    BY FiniteSets, FS_AddElement DEF IInv
  <1>2. n \in Nat
    BY FiniteSets DEF IInv
  <1>3. Cardinality(K) <= m /\ IsFiniteSet(K)
    BY <1>1, FS_Subset
  <1>4. Cardinality(K) \in Nat
    BY <1>3, FS_CardinalityType
  <1> HIDE DEF n, m
  <1>5. m \in Nat /\ m <= n + 1
    BY <1>1, <1>2
  <1>6. Cardinality(K) <= n + 1
    BY <1>2, <1>3, <1>4, <1>5
  <1> QED
    BY <1>4, <1>6 DEF n

LEMMA RegistryAddsStep ==
  ASSUME IInv, NEW v \in Vip, NEW a \in Addr, RegistryAdds(v, a) PROVE IInv'
  <1> DEFINE c == [conf |-> a, addr |-> NoAddr, epoch |-> 0]
  <1>1. c \in Cell
    BY DEF Cell, OptAddr
  <1>2. /\ v \notin Known /\ Cardinality(Known) < MaxPeers
        /\ cells' = Append(cells, c) /\ table' = [table EXCEPT ![v] = Len(cells) + 1]
        /\ UNCHANGED <<time, disk, th, heard, added>>
    BY DEF RegistryAdds
  <1> HIDE DEF c
  <1>3. /\ cells' \in Seq(Cell) /\ table' \in [Vip -> 0..Len(cells')]
        /\ Known' = Known \cup {v} /\ \A n \in Nat : n <= Len(cells) => n <= Len(cells')
    BY <1>1, <1>2, TableGrows
  <1>4. TypeOK'
    BY <1>2, <1>3 DEF IInv, TypeOK
  <1>5. KindsMatch'
    BY <1>2 DEF IInv, KindsMatch, At
  <1>6. CellsExist'
    <2> SUFFICES ASSUME NEW u \in Thread
                 PROVE  /\ th[u].cell <= Len(cells')
                        /\ th[u].pc \in {"observe", "check", "write", "stamp"}
                           => th[u].cell # 0
                        /\ th[u].cell # 0 \/ th[u].pc \in {"save", "find again"}
                           => th[u].vip \in Known'
      BY <1>2 DEF CellsExist, At
    <2>1. th[u].cell \in Nat
      BY LocalFacts DEF IInv
    <2>2. /\ th[u].cell <= Len(cells)
          /\ th[u].pc \in {"observe", "check", "write", "stamp"}
             => th[u].cell # 0
          /\ th[u].cell # 0 \/ th[u].pc \in {"save", "find again"} => th[u].vip \in Known
      BY DEF IInv, CellsExist, At
    <2>3. th[u].cell <= Len(cells')
      BY <1>3, <2>1, <2>2
    <2> QED
      BY <1>3, <2>2, <2>3
  <1>7. RoomLeft'
    <2>1. (Known \ added)' \subseteq (Known \ added) \cup {v} /\ Inserting' = Inserting
      BY <1>2, <1>3 DEF Inserting, At
    <2>2. /\ Cardinality((Known \ added)') <= Cardinality(Known \ added) + 1
          /\ Cardinality((Known \ added)') \in Nat
      BY <2>1, OneMore
    <2>3. Known \ added \subseteq Known /\ Inserting \subseteq Learners
      BY DEF Inserting
    <2>4. Cardinality(Known \ added) + 1 + Cardinality(Inserting)
            <= MaxPeers + Cardinality(Learners)
      BY <1>2, <2>3, RoomWhenBelow, Zenon DEF IInv
    <2>5. \A k, n, i, l, m \in Nat : k <= n + 1 /\ n + 1 + i <= m + l => k + i <= m + l
      OBVIOUS
    <2>6. /\ Cardinality(Known \ added) \in Nat /\ Cardinality(Inserting) \in Nat
          /\ Cardinality(Learners) \in Nat /\ MaxPeers \in Nat
      BY FiniteSets, PeerTableAssumption DEF IInv
    <2>7. Cardinality((Known \ added)') + Cardinality(Inserting)
            <= MaxPeers + Cardinality(Learners)
      BY <2>2, <2>4, <2>5, <2>6, Zenon
    <2> QED
      BY <2>1, <2>7, Zenon DEF RoomLeft
  <1> QED
    BY <1>4, <1>5, <1>6, <1>7 DEF IInv

LEMMA InsertStep ==
  ASSUME IInv, NEW t \in Thread, Insert(t) PROVE IInv'
  <1> DEFINE v == th[t].vip
             e == IF th[t].kind = "ping" THEN time
                  ELSE IF th[t].kind = "card" THEN 0 ELSE th[t].epoch
             c == [conf |-> th[t].addr, epoch |-> e,
                   addr |-> IF th[t].kind = "card" THEN NoAddr ELSE th[t].addr]
             r == [th[t] EXCEPT !.pc = "save"]
  <1>1. t \in Thread /\ At(t, "insert") /\ th[t] \in Local /\ v \in Vip /\ th[t].epoch \in Nat
    BY LocalFacts DEF Insert, Thread, IInv
  <1>2. th[t].addr \in Addr
    BY <1>1, LocalFacts DEF IInv
  <1>3. e \in Nat
    BY <1>1 DEF IInv, TypeOK
  <1>4. c \in Cell /\ [vip |-> v, addr |-> th[t].addr, epoch |-> e] \in Fact
    BY <1>1, <1>2, <1>3 DEF Cell, Fact, OptAddr
  <1>5. /\ cells' = Append(cells, c) /\ table' = [table EXCEPT ![v] = Len(cells) + 1]
        /\ Hear([vip |-> v, addr |-> th[t].addr, epoch |-> e])
        /\ added' = IF th[t].kind = "card" THEN added \cup {v} ELSE added
        /\ UNCHANGED <<time, disk>> /\ th' = [th EXCEPT ![t] = r]
    BY DEF Insert, Go
  <1>6. /\ r \in Local /\ r.pc = "save" /\ r.kind = th[t].kind /\ r.vip = v
        /\ r.cell = th[t].cell
    BY <1>1 DEF Local, Pc
  <1> HIDE DEF c, r, e
  <1>7. /\ cells' \in Seq(Cell) /\ table' \in [Vip -> 0..Len(cells')]
        /\ Known' = Known \cup {v} /\ \A n \in Nat : n <= Len(cells) => n <= Len(cells')
    BY <1>1, <1>4, <1>5, TableGrows
  <1>8. th \in [Thread -> Local] /\ th'[t] = r /\ \A u \in Thread \ {t} : th'[u] = th[u]
    <2>1. th \in [Thread -> Local]
      BY DEF IInv, TypeOK
    <2>2. th' = [th EXCEPT ![t] = r]
      BY <1>5
    <2> QED
      BY <1>1, <2>1, <2>2
  <1>9. TypeOK'
    <2>1. th' \in [Thread -> Local]
      <3>1. th' = [th EXCEPT ![t] = r] /\ r \in Local /\ th \in [Thread -> Local]
        BY <1>5, <1>6, <1>8
      <3> QED
        BY <3>1
    <2>2. added' \subseteq Vip
      BY <1>1, <1>5 DEF IInv, TypeOK
    <2>3. heard' \subseteq Fact
      BY <1>4, <1>5, HearFact DEF IInv, TypeOK
    <2>4. time' \in Nat /\ disk' \in [Vip -> OptAddr]
      BY <1>5 DEF IInv, TypeOK
    <2> QED
      BY <1>7, <2>1, <2>2, <2>3, <2>4 DEF TypeOK
  <1>10. KindsMatch'
    BY <1>1, <1>6, <1>8 DEF IInv, KindsMatch, At, Thread
  <1>11. CellsExist'
    <2> SUFFICES ASSUME NEW u \in Thread
                 PROVE  /\ th'[u].cell <= Len(cells')
                        /\ th'[u].pc \in {"observe", "check", "write", "stamp"}
                           => th'[u].cell # 0
                        /\ th'[u].cell # 0 \/ th'[u].pc \in {"save", "find again"}
                           => th'[u].vip \in Known'
      BY DEF CellsExist, At
    <2>1. th[u].cell \in Nat
      BY LocalFacts DEF IInv
    <2>2. /\ th[u].cell <= Len(cells)
          /\ th[u].pc \in {"observe", "check", "write", "stamp"}
             => th[u].cell # 0
          /\ th[u].cell # 0 \/ th[u].pc \in {"save", "find again"} => th[u].vip \in Known
      BY DEF IInv, CellsExist, At
    <2>3. th[u].cell <= Len(cells')
      BY <1>7, <2>1, <2>2
    <2>4. CASE u = t
      BY <1>6, <1>7, <1>8, <2>3, <2>4
    <2>5. CASE u # t
      BY <1>7, <1>8, <2>2, <2>3, <2>5
    <2> QED
      BY <2>4, <2>5
  <1>12. /\ Cardinality(Known \ added) \in Nat /\ Cardinality(Inserting) \in Nat
         /\ Cardinality(Learners) \in Nat /\ MaxPeers \in Nat
         /\ Cardinality(Known \ added) + Cardinality(Inserting)
              <= MaxPeers + Cardinality(Learners)
    BY FiniteSets, PeerTableAssumption DEF IInv, RoomLeft
  <1>13. RoomLeft'
    <2>1. CASE t \in Learners
      \* The room it had reserved is used up.
      <3>1. th[t].kind # "card"
        BY <2>1 DEF IInv, KindsMatch
      <3>2. (Known \ added)' \subseteq (Known \ added) \cup {v}
        BY <1>5, <1>7, <3>1
      <3>3. Cardinality((Known \ added)') \in Nat
            /\ Cardinality((Known \ added)') <= Cardinality(Known \ added) + 1
        BY <3>2, OneMore
      <3>4. Inserting' = Inserting \ {t} /\ t \in Inserting
        BY <1>1, <1>6, <1>8, <2>1 DEF Inserting, At, Thread
      <3>5. Cardinality(Inserting \ {t}) = Cardinality(Inserting) - 1
            /\ Cardinality(Inserting \ {t}) \in Nat
        BY <3>4, FiniteSets, FS_RemoveElement, FS_CardinalityType DEF IInv
      <3>6. \A k, n, i, j, l, m \in Nat :
              k <= n + 1 /\ j = i - 1 /\ n + i <= m + l => k + j <= m + l
        OBVIOUS
      <3>7. Cardinality((Known \ added)') + Cardinality(Inserting \ {t})
              <= MaxPeers + Cardinality(Learners)
        BY <1>12, <3>3, <3>5, <3>6, Zenon
      <3> QED
        BY <3>4, <3>7, Zenon DEF RoomLeft
    <2>2. CASE t \notin Learners
      \* The user's own cards are not counted.
      <3>1. t \in Gui /\ th[t].kind = "card"
        BY <1>1, <2>2 DEF Thread, IInv, KindsMatch, At
      <3>2. (Known \ added)' \subseteq Known \ added
        BY <1>5, <1>7, <3>1
      <3>3. Inserting' = Inserting
        BY <1>8, <2>2 DEF Inserting, At, Thread
      <3>4. Cardinality((Known \ added)') <= Cardinality(Known \ added)
            /\ Cardinality((Known \ added)') \in Nat
        BY <3>2, FiniteSets, FS_Subset, FS_CardinalityType DEF IInv
      <3>5. \A k, n, i, l, m \in Nat : k <= n /\ n + i <= m + l => k + i <= m + l
        OBVIOUS
      <3>6. Cardinality((Known \ added)') + Cardinality(Inserting)
              <= MaxPeers + Cardinality(Learners)
        BY <1>12, <3>4, <3>5, Zenon
      <3> QED
        BY <3>3, <3>6, Zenon DEF RoomLeft
    <2> QED
      BY <2>1, <2>2
  <1> QED
    BY <1>9, <1>10, <1>11, <1>13 DEF IInv

-----------------------------------------------------------------------------

\* A step that moves no thread and touches no peer.
LEMMA QuietStep ==
  ASSUME IInv, time' \in Nat, UNCHANGED <<cells, table, disk, th, heard, added>>
  PROVE  IInv'
  <1>1. TypeOK' /\ KindsMatch' /\ CellsExist'
    BY DEF IInv, TypeOK, KindsMatch, CellsExist, At, Known
  <1>2. Inserting' \subseteq Inserting
    BY DEF Inserting, At
  <1>3. RoomLeft'
    BY <1>2, RoomStep
  <1> QED
    BY <1>1, <1>3 DEF IInv

LEMMA StepStep ==
  ASSUME IInv, NEW t \in Thread, Step(t) PROVE IInv'
  BY FindStep, CountStep, InsertStep, SaveStep, FindAgainStep, ObserveStep, CheckStep,
     WriteStep, StampStep DEF Step

LEMMA NextIInv ==
  ASSUME IInv, [Next]_vars PROVE IInv'
  <1>1. time \in Nat /\ Gui \cap Learners = {}
    BY PeerTableAssumption DEF IInv, TypeOK
  <1>2. CASE Tick
    BY <1>1, <1>2, QuietStep DEF Tick
  <1>3. CASE UNCHANGED vars
    BY <1>1, <1>3, QuietStep DEF vars
  <1>4. ASSUME NEW t \in Recv, RecvPacket(t) PROVE IInv'
    <2>1. PICK v \in Vip, a \in Addr, kind \in {"ping", "packet"} : Start(t, kind, v, a, 0)
      BY <1>4 DEF RecvPacket
    <2>2. t \in Thread /\ t \in Learners /\ t \notin Gui
      BY <1>1 DEF Thread, Learners
    <2> QED
      BY <2>1, <2>2, StartStep
  <1>5. ASSUME NEW t \in Learners, TakeEntry(t) PROVE IInv'
    <2>1. PICK v \in Vip, a \in Addr, e \in 0..time : Start(t, "entry", v, a, e)
      BY <1>5 DEF TakeEntry
    <2>2. t \in Thread /\ t \notin Gui /\ e \in Nat
      BY <1>1 DEF Thread
    <2> QED
      BY <2>1, <2>2, StartStep
  <1>6. ASSUME NEW t \in Gui, AddPeerLive(t) PROVE IInv'
    <2>1. PICK v \in Vip, a \in Addr : Start(t, "card", v, a, time)
      BY <1>6 DEF AddPeerLive
    <2>2. t \in Thread /\ t \notin Learners
      BY <1>1 DEF Thread
    <2> QED
      BY <1>1, <2>1, <2>2, StartStep
  <1> QED
    BY <1>2, <1>3, <1>4, <1>5, <1>6, StepStep, RegistryAddsStep DEF Next

LEMMA AlwaysIInv == Spec => []IInv
  <1>1. Init => IInv
    BY InitIInv
  <1>2. IInv /\ [Next]_vars => IInv'
    BY NextIInv
  <1> QED
    BY <1>1, <1>2, PTL DEF Spec

\* Every variable keeps its type: in particular every entry of the table is an
\* object that exists.
THEOREM TypeCorrect == Spec => []TypeOK
  <1>1. IInv => TypeOK
    BY DEF IInv
  <1> QED
    BY <1>1, AlwaysIInv, PTL

\* However the threads that learn peers interleave, the table outgrows
\* MAX_PEERS by at most one peer for each of them.
THEOREM TableBoundHolds == Spec => []TableBound
  <1>1. IInv => TableBound
    <2> SUFFICES ASSUME IInv PROVE TableBound
      OBVIOUS
    <2>1. /\ Cardinality(Known \ added) \in Nat /\ Cardinality(Inserting) \in Nat
          /\ Cardinality(Learners) \in Nat /\ MaxPeers \in Nat
          /\ Cardinality(Known \ added) + Cardinality(Inserting)
               <= MaxPeers + Cardinality(Learners)
      BY FiniteSets, PeerTableAssumption DEF IInv, RoomLeft
    <2>2. \A k, i, l, m \in Nat : k + i <= m + l => k <= m + l
      OBVIOUS
    <2>3. Cardinality(Known \ added) <= MaxPeers + Cardinality(Learners)
      BY <2>1, <2>2, Zenon
    <2> QED
      BY <2>3 DEF TableBound
  <1> QED
    BY <1>1, AlwaysIInv, PTL

\* expect("just inserted") never fails, and every thread inside a method of
\* Peer holds one.
THEOREM JustInsertedHolds == Spec => []JustInserted
  <1>1. IInv => JustInserted
    BY DEF IInv, CellsExist, JustInserted, At, Thread
  <1> QED
    BY <1>1, AlwaysIInv, PTL

-----------------------------------------------------------------------------
(* One thread besides the registry's: freshest wins.                        *)

\* What remembering a fact does to the news of its peer and of the others.
LEMMA HearDoes ==
  ASSUME TypeOK, OneDate, NEW f \in Fact, f.epoch <= time, Hear(f), time' = time
  PROVE  /\ OneDate'
         /\ \A w \in Vip : w # f.vip => News(w)' = News(w)
         /\ f.epoch > 0 /\ (\A g \in News(f.vip) : g.epoch <= f.epoch) => f \in News(f.vip)'
         /\ \A g \in News(f.vip) : g.epoch >= f.epoch => g \in News(f.vip)'
         /\ News(f.vip) = {} /\ f.epoch = 0 => News(f.vip)' = {}
  <1> DEFINE facts == heard \cup {f}
  <1>1. heard' = {g \in facts : g.epoch > 0 /\ \A h \in facts : h.vip = g.vip => h.epoch <= g.epoch}
    BY DEF Hear, Freshest
  <1>2. /\ facts \subseteq Fact /\ time \in Nat /\ \A g \in facts : g.epoch \in Nat
        /\ \A g \in heard : g.epoch > 0 /\ g.epoch <= time
        /\ \A g, h \in heard : g.vip = h.vip => g.epoch = h.epoch
    BY DEF TypeOK, OneDate, Fact
  <1>3. OneDate'
    <2>1. \A g \in heard' : g.epoch > 0 /\ g.epoch <= time
      BY <1>1, <1>2
    <2>2. ASSUME NEW g \in heard', NEW h \in heard', g.vip = h.vip
          PROVE  g.epoch = h.epoch
      BY <1>1, <1>2, <2>2
    <2> QED
      BY <2>1, <2>2 DEF OneDate
  <1>4. ASSUME NEW w \in Vip, w # f.vip PROVE News(w)' = News(w)
    BY <1>1, <1>2, <1>4 DEF News
  <1>5. ASSUME f.epoch > 0, \A g \in News(f.vip) : g.epoch <= f.epoch
        PROVE  f \in News(f.vip)'
    BY <1>1, <1>2, <1>5 DEF News
  <1>6. ASSUME NEW g \in News(f.vip), g.epoch >= f.epoch PROVE g \in News(f.vip)'
    BY <1>1, <1>2, <1>6 DEF News
  <1>7. ASSUME News(f.vip) = {}, f.epoch = 0 PROVE News(f.vip)' = {}
    BY <1>1, <1>2, <1>7 DEF News
  <1> QED
    BY <1>3, <1>4, <1>5, <1>6, <1>7

\* What holds of a peer goes on when its news and its object are left alone.
LEMMA FollowsKept ==
  ASSUME NEW w \in Vip, FollowsNews(w), News(w)' = News(w), table'[w] = table[w],
         w \in Known => cells'[table[w]] = cells[table[w]]
  PROVE  FollowsNews(w)'
  <1>1. w \in Known' <=> w \in Known
    BY DEF Known
  <1>2. w \in Known => SendAddr(table[w])' = SendAddr(table[w])
    BY DEF SendAddr
  <1> QED
    BY <1>1, <1>2 DEF FollowsNews

\* A step of the thread in which it neither writes nor has written.
LEMMA LoneGo ==
  ASSUME Alone, IInv, LoneInv, NEW t \in Thread, NEW r \in Local, th' = [th EXCEPT ![t] = r],
         UNCHANGED <<time, cells, table, heard>>,
         th[t].pc \notin {"write", "stamp"}, r.pc \notin {"write", "stamp"},
         r.epoch <= time, r.pc \in {"count", "insert"} => News(r.vip) = {},
         r.pc \in {"observe", "check"} => r.cell = table[r.vip]
  PROVE  LoneInv'
  <1>1. th'[t] = r /\ \A u \in Thread : u = t
    BY DEF IInv, TypeOK, Alone
  <1>2. OneDate' /\ OwnCells'
    BY DEF LoneInv, OneDate, OwnCells, Known
  <1>3. Follows'
    <2> SUFFICES ASSUME NEW w \in Vip PROVE FollowsNews(w)'
      BY DEF Follows
    <2>1. FollowsNews(w)
      BY <1>1 DEF LoneInv, Follows, Writing
    <2> QED
      BY <2>1, FollowsKept DEF News
  <1>4. Held'
    <2> SUFFICES ASSUME NEW u \in Thread
                 PROVE  /\ r.epoch <= time
                        /\ r.pc \in {"count", "insert"} => News(r.vip)' = {}
                        /\ r.pc \in {"observe", "check", "write", "stamp"} => r.cell = table[r.vip]
                        /\ r.pc \notin {"write", "stamp"}
      BY <1>1 DEF Held, At
    <2> QED
      BY DEF News
  <1> QED
    BY <1>2, <1>3, <1>4 DEF LoneInv

\* The thread writes the address of what it holds, and moves to "stamp".
LEMMA OverwriteDoes ==
  ASSUME IInv, NEW t \in Thread, NEW e \in Nat, Overwrite(t, e), th[t].cell \in 1..Len(cells)
  PROVE  /\ th' \in [Thread -> Local] /\ th'[t].pc = "stamp" /\ th'[t].kind = th[t].kind
         /\ th'[t].vip = th[t].vip /\ th'[t].addr = th[t].addr /\ th'[t].cell = th[t].cell
         /\ th'[t].epoch = e /\ (th'[t].changed <=> cells[th[t].cell].addr # th[t].addr)
         /\ cells'[th[t].cell].addr = th[t].addr
         /\ cells'[th[t].cell].epoch = cells[th[t].cell].epoch
         /\ \A d \in 1..Len(cells) : d # th[t].cell => cells'[d] = cells[d]
         /\ UNCHANGED <<time, table, disk, added>>
  <1>1. /\ th[t] \in Local /\ th \in [Thread -> Local] /\ cells \in Seq(Cell)
        /\ cells[th[t].cell] \in Cell
    BY CellFacts DEF IInv, TypeOK
  <1>2. /\ th' = [th EXCEPT ![t] = [th[t] EXCEPT !.pc = "stamp", !.epoch = e,
                                      !.changed = cells[th[t].cell].addr # th[t].addr]]
        /\ cells' = [cells EXCEPT ![th[t].cell] = [cells[th[t].cell] EXCEPT !.addr = th[t].addr]]
        /\ UNCHANGED <<time, table, disk, added>>
    BY DEF Overwrite
  <1>3. [th[t] EXCEPT !.pc = "stamp", !.epoch = e,
                      !.changed = cells[th[t].cell].addr # th[t].addr] \in Local
    BY <1>1 DEF Local, Pc
  <1> DEFINE o == [cells[th[t].cell] EXCEPT !.addr = th[t].addr]
  <1>o. cells' = [cells EXCEPT ![th[t].cell] = o]
    BY <1>2
  <1> HIDE DEF o
  <1>4. /\ cells'[th[t].cell] = o
        /\ \A d \in 1..Len(cells) : d # th[t].cell => cells'[d] = cells[d]
    <2>1. PICK c \in 1..Len(cells) : c = th[t].cell
      OBVIOUS
    <2>2. cells' = [cells EXCEPT ![c] = o] /\ DOMAIN cells = 1..Len(cells)
      BY <1>1, <1>o, <2>1
    <2>3. cells'[c] = o /\ \A d \in 1..Len(cells) : d # c => cells'[d] = cells[d]
      BY ONLY <2>2, c \in 1..Len(cells)
    <2> QED
      BY <2>1, <2>3
  <1>5. o.addr = th[t].addr /\ o.epoch = cells[th[t].cell].epoch
    BY <1>1 DEF Cell, o
  <1>6. /\ th' \in [Thread -> Local] /\ th'[t].pc = "stamp" /\ th'[t].kind = th[t].kind
        /\ th'[t].vip = th[t].vip /\ th'[t].addr = th[t].addr /\ th'[t].cell = th[t].cell
        /\ th'[t].epoch = e /\ (th'[t].changed <=> cells[th[t].cell].addr # th[t].addr)
    BY <1>1, <1>2, <1>3 DEF Local
  <1> QED
    BY <1>2, <1>4, <1>5, <1>6

\* The thread holds the object of its peer, which has a date of the news.
LEMMA Holding ==
  ASSUME Alone, IInv, LoneInv, NEW t \in Thread,
         th[t].pc \in {"observe", "check", "write", "stamp"}
  PROVE  /\ th[t].vip \in Known /\ th[t].cell = table[th[t].vip] /\ th[t].cell \in 1..Len(cells)
         /\ \A w \in Known : w # th[t].vip => table[w] # th[t].cell /\ table[w] \in 1..Len(cells)
         /\ th[t].pc \in {"observe", "check"} => FollowsNews(th[t].vip)
         /\ \A w \in Vip : w # th[t].vip => FollowsNews(w)
  <1>1. th[t].cell # 0 /\ th[t].cell = table[th[t].vip]
    BY DEF IInv, CellsExist, LoneInv, Held
  <1>2. th[t].vip \in Known /\ th[t].cell \in 1..Len(cells)
    BY <1>1, HeldCell
  <1>3. \A w \in Known : w # th[t].vip => table[w] # th[t].cell /\ table[w] \in 1..Len(cells)
    BY <1>1, <1>2, KnownCell DEF LoneInv, OwnCells
  <1>4. \A u \in Thread : u = t
    BY DEF Alone
  <1>5. \A w \in Vip : w # th[t].vip => FollowsNews(w)
    BY <1>4 DEF LoneInv, Follows, Writing
  <1>6. th[t].pc \in {"observe", "check"} => FollowsNews(th[t].vip)
    BY <1>2, <1>4 DEF LoneInv, Follows, Writing, Known
  <1> QED
    BY <1>1, <1>2, <1>3, <1>5, <1>6

\* Overwriting leaves the other peers alone.
LEMMA OverwriteLone ==
  ASSUME Alone, IInv, LoneInv, NEW t \in Thread, NEW e \in Nat, Overwrite(t, e),
         th[t].pc \in {"observe", "write"}, e <= time, OneDate',
         \A w \in Vip : w # th[t].vip => News(w)' = News(w), Told(t)' \in heard'
  PROVE  LoneInv'
  <1>1. \A u \in Thread : u = t
    BY DEF Alone
  <1>2. /\ th'[t].pc = "stamp" /\ th'[t].vip = th[t].vip /\ th'[t].addr = th[t].addr
        /\ th'[t].cell = th[t].cell /\ th'[t].epoch = e
        /\ cells'[th[t].cell].addr = th[t].addr
        /\ \A d \in 1..Len(cells) : d # th[t].cell => cells'[d] = cells[d]
        /\ UNCHANGED <<time, table, disk, added>>
    BY OverwriteDoes, Holding
  <1>3. OwnCells'
    BY <1>2 DEF LoneInv, OwnCells, Known
  <1>4. Follows'
    <2> SUFFICES ASSUME NEW w \in Vip, w # th[t].vip PROVE FollowsNews(w)'
      BY <1>2 DEF Follows, Writing
    <2> QED
      BY <1>2, Holding, FollowsKept
  <1>5. Held'
    BY <1>1, <1>2, Holding DEF Held, At
  <1> QED
    BY <1>3, <1>4, <1>5 DEF LoneInv

LEMMA ObserveLone ==
  ASSUME Alone, IInv, LoneInv, NEW t \in Thread, Observe(t)
  PROVE  LoneInv'
  <1>f. PICK f : f = [Told(t) EXCEPT !.epoch = time]
    OBVIOUS
  <1>1. /\ th[t].pc = "observe" /\ Overwrite(t, time) /\ Hear(f) /\ time' = time /\ time \in Nat
        /\ th[t].vip \in Vip
    BY <1>f, LocalFacts DEF Observe, At, Overwrite, IInv, TypeOK
  <1>2. f \in Fact /\ f.vip = th[t].vip /\ f.addr = th[t].addr /\ f.epoch = time
    BY <1>f, <1>1, ToldFact DEF IInv, Told
  <1>3. time > 0 /\ \A g \in News(f.vip) : g.epoch <= time
    BY DEF LoneInv, OneDate, News
  <1>4. /\ OneDate' /\ f \in News(f.vip)' /\ \A w \in Vip : w # f.vip => News(w)' = News(w)
    BY <1>1, <1>2, <1>3, HearDoes DEF IInv, LoneInv, TypeOK
  <1>5. /\ th'[t].vip = th[t].vip /\ th'[t].addr = th[t].addr /\ th'[t].epoch = time
    BY <1>1, OverwriteDoes, Holding
  <1>6. Told(t)' \in heard'
    <2>1. Told(t)' = [vip |-> f.vip, addr |-> f.addr, epoch |-> f.epoch]
      BY <1>2, <1>5 DEF Told
    <2>2. Told(t)' = f
      BY <1>2, <2>1 DEF Fact
    <2> QED
      BY <1>4, <2>2 DEF News
  <1> QED
    BY <1>1, <1>2, <1>4, <1>6, OverwriteLone

LEMMA WriteLone ==
  ASSUME Alone, IInv, LoneInv, NEW t \in Thread, Write(t)
  PROVE  LoneInv'
  <1>1. /\ th[t].pc = "write" /\ Overwrite(t, th[t].epoch) /\ heard' = heard
        /\ th[t].epoch \in Nat /\ th[t].epoch <= time /\ Told(t) \in heard
    BY LocalFacts DEF Write, At, IInv, LoneInv, Held
  <1>2. /\ th'[t].vip = th[t].vip /\ th'[t].addr = th[t].addr /\ th'[t].epoch = th[t].epoch
        /\ time' = time
    BY <1>1, OverwriteDoes, Holding
  <1>3. Told(t)' \in heard'
    BY <1>1, <1>2 DEF Told
  <1>4. OneDate' /\ \A w \in Vip : News(w)' = News(w)
    BY <1>1, <1>2 DEF LoneInv, OneDate, News
  <1> QED
    BY <1>1, <1>3, <1>4, OverwriteLone

LEMMA CheckLone ==
  ASSUME Alone, IInv, LoneInv, NEW t \in Thread, Check(t)
  PROVE  LoneInv'
  <1>p. PICK v, e, c, f : v = th[t].vip /\ e = th[t].epoch /\ c = th[t].cell /\ f = Told(t)
    OBVIOUS
  <1>1. /\ th[t].pc = "check" /\ Hear(f) /\ UNCHANGED <<time, cells, table>>
        /\ v \in Vip /\ e \in Nat /\ e <= time /\ \A u \in Thread : u = t
    BY <1>p, LocalFacts DEF Check, At, IInv, LoneInv, Held, Alone
  <1>2. f \in Fact /\ f.vip = v /\ f.epoch = e
    BY <1>p, <1>1, ToldFact DEF IInv, Told
  <1>3. /\ v \in Known /\ c = table[v] /\ FollowsNews(v) /\ \A w \in Vip : w # v => FollowsNews(w)
        /\ cells[c] \in Cell /\ cells[c].epoch \in Nat
    BY <1>p, <1>1, Holding, CellFacts DEF IInv, Cell
  <1>4. /\ OneDate' /\ \A w \in Vip : w # v => News(w)' = News(w)
        /\ e > 0 /\ (\A g \in News(v) : g.epoch <= e) => f \in News(v)'
        /\ \A g \in News(v) : g.epoch >= e => g \in News(v)'
        /\ News(v) = {} /\ e = 0 => News(v)' = {}
    BY <1>1, <1>2, HearDoes DEF IInv, LoneInv
  <1>5. PICK pc \in {"write", "save", "idle"} :
          Go(t, pc) /\ (pc = "write" <=> e > cells[c].epoch)
    <2>1. CASE e > cells[c].epoch
      BY <1>p, <2>1 DEF Check
    <2>2. CASE ~(e > cells[c].epoch)
      BY <1>p, <2>2 DEF Check
    <2> QED
      BY <2>1, <2>2
  <1>6. /\ th'[t].pc = pc /\ th'[t].vip = v /\ th'[t].cell = c /\ th'[t].epoch = e
        /\ th'[t].addr = th[t].addr
    <2>1. th[t] \in Local /\ th \in [Thread -> Local]
      BY LocalFacts DEF IInv, TypeOK
    <2> QED
      BY <1>p, <1>5, <2>1 DEF Go, Local
  <1>7. \A g \in News(v) : g.epoch = cells[c].epoch
    BY <1>3 DEF LoneInv, OneDate, FollowsNews, News
  <1>8. OwnCells'
    BY <1>1 DEF LoneInv, OwnCells, Known
  <1>9. \A w \in Vip : w # v => FollowsNews(w)'
    BY <1>1, <1>3, <1>4, FollowsKept
  <1>10. CASE pc = "write"
    <2>1. f \in News(v)'
      BY <1>1, <1>3, <1>4, <1>5, <1>7, <1>10
    <2>2. Told(t)' \in heard'
      BY <1>p, <1>6, <2>1 DEF Told, News
    <2>3. Follows'
      BY <1>6, <1>9, <1>10 DEF Follows, Writing
    <2>4. Held'
      BY <1>1, <1>3, <1>6, <1>10, <2>2 DEF Held, At
    <2> QED
      BY <1>4, <1>8, <2>3, <2>4 DEF LoneInv
  <1>11. CASE pc # "write"
    <2>1. FollowsNews(v)'
      <3>1. SendAddr(table[v])' = SendAddr(table[v]) /\ (v \in Known)'
        BY <1>1, <1>3 DEF SendAddr, Known
      <3>2. CASE News(v) = {}
        <4>1. e = 0
          BY <1>1, <1>3, <1>5, <1>11, <3>2 DEF FollowsNews
        <4> QED
          BY <1>1, <1>3, <1>4, <3>2, <4>1 DEF FollowsNews
      <3>3. CASE News(v) # {}
        <4>1. PICK g \in News(v) : g.epoch = cells[table[v]].epoch /\ g.addr = SendAddr(table[v])
          BY <1>3, <3>3 DEF FollowsNews
        <4>2. g \in News(v)'
          BY <1>1, <1>3, <1>4, <1>5, <1>11, <4>1
        <4> QED
          BY <1>1, <3>1, <4>1, <4>2 DEF FollowsNews
      <3> QED
        BY <3>2, <3>3
    <2>2. Follows'
      BY <1>9, <2>1 DEF Follows
    <2>3. Held'
      BY <1>1, <1>5, <1>6, <1>11 DEF Held, At
    <2> QED
      BY <1>4, <1>8, <2>2, <2>3 DEF LoneInv
  <1> QED
    BY <1>10, <1>11

LEMMA StampLone ==
  ASSUME Alone, IInv, LoneInv, NEW t \in Thread, Stamp(t)
  PROVE  LoneInv'
  <1>p. PICK v, c : v = th[t].vip /\ c = th[t].cell
    OBVIOUS
  <1>1. /\ th[t].pc = "stamp" /\ UNCHANGED <<time, table, disk, heard, added>>
        /\ cells' = [cells EXCEPT ![c] = [cells[c] EXCEPT !.epoch = th[t].epoch]]
        /\ v \in Vip /\ th[t].addr \in Addr /\ th[t].epoch <= time /\ \A u \in Thread : u = t
    BY <1>p, LocalFacts DEF Stamp, At, IInv, LoneInv, Held, Alone
  <1>2. /\ v \in Known /\ c = table[v] /\ c \in 1..Len(cells)
        /\ \A w \in Known : w # v => table[w] # c /\ table[w] \in 1..Len(cells)
        /\ \A w \in Vip : w # v => FollowsNews(w)
        /\ cells[c] \in Cell /\ cells[c].addr = th[t].addr /\ Told(t) \in News(v)
    BY <1>p, <1>1, Holding, CellFacts DEF IInv, LoneInv, Held, At, News, Told
  <1>3. /\ cells'[c].epoch = th[t].epoch /\ cells'[c].addr = th[t].addr
        /\ \A d \in 1..Len(cells) : d # c => cells'[d] = cells[d]
    BY <1>1, <1>2 DEF IInv, TypeOK, Cell
  <1>4. PICK pc \in {"save", "idle"} : Go(t, pc)
    BY DEF Stamp
  <1>5. th'[t].pc = pc /\ th'[t].vip = v /\ th'[t].epoch = th[t].epoch
    <2>1. th[t] \in Local /\ th \in [Thread -> Local]
      BY LocalFacts DEF IInv, TypeOK
    <2> QED
      BY <1>p, <1>4, <2>1 DEF Go, Local
  <1>6. FollowsNews(v)'
    <2>1. SendAddr(table[v])' = th[t].addr
      BY <1>1, <1>2, <1>3, PeerTableAssumption DEF SendAddr
    <2>2. Told(t) \in News(v)' /\ Told(t).epoch = th[t].epoch /\ Told(t).addr = th[t].addr
      BY <1>1, <1>2, <1>p DEF News, Told
    <2>3. (v \in Known)'
      BY <1>1, <1>2 DEF Known
    <2> QED
      BY <1>1, <1>2, <1>3, <2>1, <2>2, <2>3 DEF FollowsNews
  <1>7. ASSUME NEW w \in Vip, w # v PROVE FollowsNews(w)'
    BY <1>1, <1>2, <1>3, <1>7, FollowsKept DEF News
  <1>8. Follows'
    BY <1>6, <1>7 DEF Follows
  <1>9. OneDate' /\ OwnCells'
    BY <1>1 DEF LoneInv, OneDate, OwnCells, Known
  <1>10. Held'
    BY <1>1, <1>4, <1>5 DEF Held, At
  <1> QED
    BY <1>8, <1>9, <1>10 DEF LoneInv

\* A new object is nobody else's.
LEMMA NewObject ==
  ASSUME IInv, OwnCells, NEW v \in Vip, NEW c \in Cell, cells' = Append(cells, c),
         table' = [table EXCEPT ![v] = Len(cells) + 1]
  PROVE  /\ OwnCells' /\ Known' = Known \cup {v} /\ table'[v] = Len(cells) + 1
         /\ cells'[table'[v]] = c
         /\ \A w \in Vip : w # v => table'[w] = table[w]
         /\ \A d \in 1..Len(cells) : cells'[d] = cells[d]
         /\ \A w \in Known : w # v => cells'[table[w]] = cells[table[w]]
  <1>1. /\ table \in [Vip -> 0..Len(cells)] /\ cells \in Seq(Cell) /\ Len(cells) \in Nat
        /\ Known' = Known \cup {v}
    BY TableGrows DEF IInv, TypeOK
  <1>2. /\ table'[v] = Len(cells) + 1 /\ \A w \in Vip : w # v => table'[w] = table[w]
    BY <1>1
  <1>3. cells'[Len(cells) + 1] = c /\ \A d \in 1..Len(cells) : cells'[d] = cells[d]
    BY <1>1
  <1>4. \A w \in Known : table[w] \in 1..Len(cells)
    BY KnownCell
  <1>5. OwnCells'
    <2> SUFFICES ASSUME NEW w \in Known \cup {v}, NEW x \in Known \cup {v}, table'[w] = table'[x]
                 PROVE  w = x
      BY <1>1 DEF OwnCells
    <2> QED
      BY <1>1, <1>2, <1>4 DEF OwnCells, Known
  <1> QED
    BY <1>1, <1>2, <1>3, <1>4, <1>5

LEMMA InsertLone ==
  ASSUME Alone, IInv, LoneInv, NEW t \in Thread, Insert(t)
  PROVE  LoneInv'
  <1>p. PICK v, e, a : v = th[t].vip /\ a = th[t].addr
                      /\ e = IF th[t].kind = "ping" THEN time
                             ELSE IF th[t].kind = "card" THEN 0 ELSE th[t].epoch
    OBVIOUS
  <1>q. PICK c, f : /\ c = [conf |-> a, epoch |-> e,
                            addr |-> IF th[t].kind = "card" THEN NoAddr ELSE a]
                    /\ f = [vip |-> v, addr |-> a, epoch |-> e]
    OBVIOUS
  <1>1. /\ th[t].pc = "insert" /\ th[t] \in Local /\ v \in Vip /\ a \in Addr
        /\ th[t].epoch \in Nat /\ th[t].epoch <= time /\ News(v) = {} /\ time \in Nat
        /\ th \in [Thread -> Local] /\ \A u \in Thread : u = t
    BY <1>p, LocalFacts DEF Insert, At, IInv, TypeOK, LoneInv, Held, Alone
  <1>2. e \in Nat /\ e <= time
    BY <1>p, <1>1
  <1>3. /\ cells' = Append(cells, c) /\ table' = [table EXCEPT ![v] = Len(cells) + 1]
        /\ Hear(f) /\ time' = time /\ Go(t, "save")
    BY <1>p, <1>q DEF Insert
  <1>4. /\ c \in Cell /\ f \in Fact /\ f.vip = v /\ f.epoch = e /\ f.addr = a
        /\ c.epoch = e /\ c.conf = a /\ c.addr \in {NoAddr, a}
    BY <1>q, <1>1, <1>2 DEF Cell, Fact, OptAddr
  <1>5. /\ OwnCells' /\ Known' = Known \cup {v} /\ cells'[table'[v]] = c
        /\ \A w \in Vip : w # v => table'[w] = table[w]
        /\ \A w \in Known : w # v => cells'[table[w]] = cells[table[w]]
    <2>1. OwnCells /\ v \in Vip /\ c \in Cell
      BY <1>1, <1>4 DEF LoneInv
    <2>2. cells' = Append(cells, c) /\ table' = [table EXCEPT ![v] = Len(cells) + 1]
      BY <1>3
    <2> QED
      BY <2>1, <2>2, NewObject
  <1>6. /\ OneDate' /\ \A w \in Vip : w # v => News(w)' = News(w)
        /\ e > 0 => f \in News(v)'
        /\ e = 0 => News(v)' = {}
    BY <1>1, <1>2, <1>3, <1>4, HearDoes DEF IInv, LoneInv
  <1>7. th'[t].pc = "save" /\ th'[t].epoch = th[t].epoch /\ th[t].vip = v
    BY <1>p, <1>1, <1>3 DEF Go, Local
  <1>8. FollowsNews(v)'
    <2>1. SendAddr(table[v])' = a
      BY <1>4, <1>5 DEF SendAddr
    <2> QED
      BY <1>1, <1>2, <1>4, <1>5, <1>6, <2>1 DEF FollowsNews
  <1>9. ASSUME NEW w \in Vip, w # v PROVE FollowsNews(w)'
    <2>1. FollowsNews(w)
      BY <1>1 DEF LoneInv, Follows, Writing
    <2> QED
      BY <1>5, <1>6, <1>9, <2>1, FollowsKept
  <1>10. Follows'
    BY <1>8, <1>9 DEF Follows
  <1>11. Held'
    BY <1>1, <1>3, <1>7 DEF Held, At
  <1> QED
    BY <1>5, <1>6, <1>10, <1>11 DEF LoneInv

LEMMA RegistryAddsLone ==
  ASSUME Alone, IInv, LoneInv, NEW v \in Vip, NEW a \in Addr, RegistryAdds(v, a)
  PROVE  LoneInv'
  <1> DEFINE c == [conf |-> a, addr |-> NoAddr, epoch |-> 0]
  <1>1. /\ v \notin Known /\ cells' = Append(cells, c)
        /\ table' = [table EXCEPT ![v] = Len(cells) + 1]
        /\ UNCHANGED <<time, disk, th, heard, added>>
    BY DEF RegistryAdds
  <1>2. c \in Cell /\ c.epoch = 0
    BY DEF Cell, OptAddr
  <1> HIDE DEF c
  <1>3. /\ OwnCells' /\ Known' = Known \cup {v} /\ cells'[table'[v]] = c
        /\ \A w \in Vip : w # v => table'[w] = table[w]
        /\ \A d \in 1..Len(cells) : cells'[d] = cells[d]
        /\ \A w \in Known : w # v => cells'[table[w]] = cells[table[w]]
    BY <1>1, <1>2, NewObject DEF LoneInv
  <1>4. OneDate' /\ \A w \in Vip : News(w)' = News(w) /\ (Writing(w)' <=> Writing(w))
    BY <1>1 DEF LoneInv, OneDate, News, Writing
  <1>5. \A t \in Thread : th[t].pc \in {"observe", "check", "write", "stamp"} =>
          /\ th[t].vip \in Known /\ th[t].vip \in Vip /\ th[t].vip # v
          /\ th[t].cell \in 1..Len(cells)
    BY <1>1, Holding DEF Known
  <1>6. ~Writing(v)
    BY <1>5 DEF Writing
  <1>7. News(v) = {}
    BY <1>1, <1>6 DEF LoneInv, Follows, FollowsNews
  <1>8. Follows'
    <2> SUFFICES ASSUME NEW w \in Vip, ~Writing(w) PROVE FollowsNews(w)'
      BY <1>4 DEF Follows
    <2>1. CASE w = v
      BY <1>2, <1>3, <1>4, <1>7, <2>1 DEF FollowsNews
    <2>2. CASE w # v
      BY <1>3, <1>4, <2>2, FollowsKept DEF LoneInv, Follows
    <2> QED
      BY <2>1, <2>2
  <1>9. Held'
    BY <1>1, <1>3, <1>5 DEF LoneInv, Held, At, News, Told
  <1> QED
    BY <1>3, <1>4, <1>8, <1>9 DEF LoneInv

LEMMA TickLone ==
  ASSUME IInv, LoneInv, Tick PROVE LoneInv'
  <1>1. /\ time \in Nat /\ time' = time + 1 /\ heard \subseteq Fact
        /\ UNCHANGED <<cells, table, disk, th, heard, added>>
    BY DEF Tick, IInv, TypeOK
  <1>2. OneDate'
    BY <1>1 DEF LoneInv, OneDate, Fact
  <1>3. OwnCells' /\ Follows'
    BY <1>1 DEF LoneInv, OwnCells, Known, Follows, FollowsNews, News, Writing, SendAddr
  <1>4. \A t \in Thread : th[t].epoch \in Nat
    BY LocalFacts DEF IInv
  <1>5. Held'
    BY <1>1, <1>4 DEF LoneInv, Held, At, News, Told
  <1> QED
    BY <1>2, <1>3, <1>5 DEF LoneInv

LEMMA StartLone ==
  ASSUME Alone, IInv, LoneInv, NEW t \in Thread, NEW kind \in {"ping", "packet", "entry", "card"},
         NEW v \in Vip, NEW a \in Addr, NEW e \in Nat, e <= time, Start(t, kind, v, a, e)
  PROVE  LoneInv'
  <1> DEFINE r == [pc |-> "find", kind |-> kind, vip |-> v, addr |-> a,
                   epoch |-> e, cell |-> 0, changed |-> FALSE]
  <1>1. r \in Local /\ r.pc = "find" /\ r.epoch = e
    BY DEF Local, Pc
  <1>2. /\ th[t].pc = "idle" /\ th' = [th EXCEPT ![t] = r]
        /\ UNCHANGED <<time, cells, table, heard>>
    BY DEF Start, At
  <1> HIDE DEF r
  <1> QED
    BY <1>1, <1>2, LoneGo

\* The steps of the thread that only look at the table.
LEMMA LookLone ==
  ASSUME Alone, IInv, LoneInv, NEW t \in Thread,
         Find(t) \/ Count(t) \/ Save(t) \/ FindAgain(t)
  PROVE  LoneInv'
  <1> DEFINE v == th[t].vip
  <1>1. /\ th[t] \in Local /\ v \in Vip /\ th[t].epoch <= time /\ th[t].epoch \in Nat
        /\ table[v] \in Nat /\ \A u \in Thread : u = t
    BY LocalFacts DEF IInv, TypeOK, LoneInv, Held, Alone
  <1>2. CASE Find(t)
    <2> DEFINE pc == LET kind == th[t].kind
                         known == IF kind \in {"ping", "packet"} THEN "observe" ELSE "check"
                         unknown == IF kind = "packet" THEN "idle"
                                    ELSE IF kind = "card" THEN "insert" ELSE "count"
                     IN  IF table[v] # 0 THEN known ELSE unknown
               r == [th[t] EXCEPT !.cell = table[v], !.pc = pc]
    <2>1. /\ th[t].pc = "find" /\ th' = [th EXCEPT ![t] = r]
          /\ UNCHANGED <<time, cells, table, heard>>
      BY <1>2 DEF Find, At
    <2>2. pc \in Pc \ {"write", "stamp"} /\ (pc \in {"count", "insert"} => table[v] = 0)
      BY DEF Pc
    <2> HIDE DEF pc
    <2>3. r \in Local /\ r.pc = pc /\ r.vip = v /\ r.cell = table[v] /\ r.epoch = th[t].epoch
      BY <1>1, <2>2 DEF Local
    <2>4. table[v] = 0 => News(v) = {}
      BY <1>1, <2>1 DEF LoneInv, Follows, FollowsNews, Writing, Known
    <2> HIDE DEF r
    <2> QED
      BY <1>1, <2>1, <2>2, <2>3, <2>4, LoneGo
  <1>3. ASSUME NEW pc \in {"insert", "save", "idle", "find again"}, Go(t, pc),
               th[t].pc \notin {"write", "stamp"}, UNCHANGED <<time, cells, table, heard>>,
               pc = "insert" => News(v) = {}
        PROVE  LoneInv'
    <2> DEFINE r == [th[t] EXCEPT !.pc = pc]
    <2>1. r \in Local /\ r.pc = pc /\ r.vip = v /\ r.epoch = th[t].epoch
      BY <1>1 DEF Local, Pc
    <2>2. th' = [th EXCEPT ![t] = r]
      BY <1>3 DEF Go
    <2> HIDE DEF r
    <2> QED
      BY <1>1, <1>3, <2>1, <2>2, LoneGo
  <1>4. CASE Count(t)
    BY <1>3, <1>4 DEF Count, At, LoneInv, Held
  <1>5. CASE Save(t)
    BY <1>3, <1>5 DEF Save, At
  <1>6. CASE FindAgain(t)
    <2> DEFINE r == [th[t] EXCEPT !.cell = table[v], !.pc = "observe"]
    <2>1. r \in Local /\ r.pc = "observe" /\ r.vip = v /\ r.cell = table[v]
          /\ r.epoch = th[t].epoch
      BY <1>1 DEF Local, Pc
    <2>2. /\ th[t].pc = "find again" /\ th' = [th EXCEPT ![t] = r]
          /\ UNCHANGED <<time, cells, table, heard>>
      BY <1>6 DEF FindAgain, At
    <2> HIDE DEF r
    <2> QED
      BY <1>1, <2>1, <2>2, LoneGo
  <1> QED
    BY <1>2, <1>4, <1>5, <1>6

LEMMA InitLone == Init => LoneInv
  <1> SUFFICES ASSUME Init PROVE LoneInv
    OBVIOUS
  <1>1. \A t \in Thread : th[t].pc = "idle" /\ th[t].epoch = 0
    BY DEF Init
  <1>2. Known = {} /\ heard = {} /\ time = 1
    BY DEF Init, Known
  <1> QED
    BY <1>1, <1>2 DEF LoneInv, OneDate, OwnCells, Follows, FollowsNews, News, Held, At

LEMMA NextLone ==
  ASSUME Alone, IInv, LoneInv, [Next]_vars PROVE LoneInv'
  <1>1. time \in Nat
    BY DEF IInv, TypeOK
  <1>2. ASSUME NEW t \in Recv, RecvPacket(t) PROVE LoneInv'
    BY <1>1, <1>2, StartLone DEF RecvPacket, Thread, Learners
  <1>3. ASSUME NEW t \in Learners, TakeEntry(t) PROVE LoneInv'
    BY <1>1, <1>3, StartLone DEF TakeEntry, Thread
  <1>4. ASSUME NEW t \in Gui, AddPeerLive(t) PROVE LoneInv'
    BY <1>1, <1>4, StartLone DEF AddPeerLive, Thread
  <1>5. ASSUME NEW t \in Thread, Step(t) PROVE LoneInv'
    BY <1>5, LookLone, InsertLone, ObserveLone, CheckLone, WriteLone, StampLone DEF Step
  <1>6. CASE UNCHANGED vars
    BY <1>6 DEF vars, LoneInv, OneDate, OwnCells, Known, Follows, FollowsNews, News, Writing,
                SendAddr, Held, At, Told
  <1> QED
    BY <1>2, <1>3, <1>4, <1>5, <1>6, TickLone, RegistryAddsLone DEF Next

\* "Direct observation and more-recent gossip both correctly take precedence over
\* stale information" (peer.rs observe_epoch), if besides the registry's only
\* one thread learns addresses: what goes wrong otherwise is only the test of
\* the epoch outside the lock.
THEOREM FreshestWinsAlone == ASSUME Alone PROVE Spec => []FreshestWins
  <1>1. Init => IInv /\ LoneInv
    BY InitIInv, InitLone
  <1>2. IInv /\ LoneInv /\ [Next]_vars => (IInv /\ LoneInv)'
    BY NextIInv, NextLone
  <1>3. LoneInv => FreshestWins
    BY DEF LoneInv, Follows, FollowsNews, FreshestWins, Quiet, Writing, At
  <1> QED
    BY <1>1, <1>2, <1>3, PTL DEF Spec

-----------------------------------------------------------------------------
(* The receive loop alone: mesh.toml follows the table.                     *)

\* A step of the thread in which it saves nothing and has written nothing.
LEMMA SavedGo ==
  ASSUME ReceiveOnly, IInv, SavedInv, NEW t \in Thread, NEW r \in Local,
         th' = [th EXCEPT ![t] = r], UNCHANGED <<cells, table, disk, heard>>,
         th[t].pc \notin {"write", "stamp", "save"}, r.pc \notin {"write", "stamp", "save"},
         r.pc \in {"count", "insert"} => r.cell = 0, r.pc # "idle" => ~r.changed,
         r.pc = "check" => r.kind = "entry"
  PROVE  OnDisk' /\ SavingRight'
  <1>1. th'[t] = r /\ \A u \in Thread : u = t
    BY DEF IInv, TypeOK, ReceiveOnly, Alone
  <1>2. /\ \A w \in Known : cells[table[w]].addr # NoAddr => disk[w] = cells[table[w]].addr
        /\ \A w \in Known : News(w) # {} => cells[table[w]].addr # NoAddr
    BY <1>1 DEF SavedInv, OnDisk, Saving, Writing
  <1>3. OnDisk'
    BY <1>2 DEF OnDisk, Known, News
  <1>4. SavingRight'
    BY <1>1 DEF SavingRight, At
  <1> QED
    BY <1>3, <1>4

LEMMA LookSaved ==
  ASSUME ReceiveOnly, IInv, SavedInv, NEW t \in Thread, Find(t) \/ Count(t) \/ FindAgain(t)
  PROVE  OnDisk' /\ SavingRight'
  <1> DEFINE v == th[t].vip
  <1>1. /\ th[t] \in Local /\ v \in Vip /\ table[v] \in Nat /\ th[t].kind # "card"
        /\ th[t].kind \in {"ping", "packet", "entry", "card"}
    BY LocalFacts DEF IInv, TypeOK, KindsMatch, ReceiveOnly, Learners, Local
  <1>2. CASE Find(t)
    <2> DEFINE pc == LET kind == th[t].kind
                         known == IF kind \in {"ping", "packet"} THEN "observe" ELSE "check"
                         unknown == IF kind = "packet" THEN "idle"
                                    ELSE IF kind = "card" THEN "insert" ELSE "count"
                     IN  IF table[v] # 0 THEN known ELSE unknown
               r == [th[t] EXCEPT !.cell = table[v], !.pc = pc]
    <2>1. /\ th[t].pc = "find" /\ th' = [th EXCEPT ![t] = r]
          /\ UNCHANGED <<cells, table, disk, heard>>
      BY <1>2 DEF Find, At
    <2>2. /\ pc \in Pc \ {"write", "stamp", "save"} /\ (pc \in {"count", "insert"} => table[v] = 0)
          /\ pc = "check" => th[t].kind = "entry"
      BY <1>1 DEF Pc
    <2> HIDE DEF pc
    <2>3. r \in Local /\ r.pc = pc /\ r.cell = table[v] /\ r.kind = th[t].kind
          /\ r.changed = th[t].changed
      BY <1>1, <2>2 DEF Local
    <2>4. ~th[t].changed
      BY <2>1 DEF SavedInv, SavingRight
    <2> HIDE DEF r
    <2> QED
      BY <2>1, <2>2, <2>3, <2>4, SavedGo
  <1>3. CASE Count(t)
    <2>1. PICK pc \in {"insert", "idle"} : Go(t, pc)
      BY <1>3 DEF Count
    <2> DEFINE r == [th[t] EXCEPT !.pc = pc]
    <2>2. r \in Local /\ r.pc = pc /\ r.cell = th[t].cell /\ r.changed = th[t].changed
      BY <1>1 DEF Local, Pc
    <2>3. /\ th[t].pc = "count" /\ th' = [th EXCEPT ![t] = r]
          /\ UNCHANGED <<cells, table, disk, heard>>
      BY <1>3, <2>1 DEF Count, At, Go
    <2>4. ~th[t].changed /\ th[t].cell = 0
      BY <2>3 DEF SavedInv, SavingRight
    <2> HIDE DEF r
    <2> QED
      BY <2>2, <2>3, <2>4, SavedGo
  <1>4. CASE FindAgain(t)
    <2> DEFINE r == [th[t] EXCEPT !.cell = table[v], !.pc = "observe"]
    <2>1. r \in Local /\ r.pc = "observe" /\ r.changed = th[t].changed
      BY <1>1 DEF Local, Pc
    <2>2. /\ th[t].pc = "find again" /\ th' = [th EXCEPT ![t] = r]
          /\ UNCHANGED <<cells, table, disk, heard>>
      BY <1>4 DEF FindAgain, At
    <2>3. ~th[t].changed
      BY <2>2 DEF SavedInv, SavingRight
    <2> HIDE DEF r
    <2> QED
      BY <2>1, <2>2, <2>3, SavedGo
  <1> QED
    BY <1>2, <1>3, <1>4

LEMMA StartSaved ==
  ASSUME ReceiveOnly, IInv, SavedInv, NEW t \in Thread, NEW v \in Vip, NEW a \in Addr,
         NEW kind \in {"ping", "packet", "entry"}, NEW e \in Nat, Start(t, kind, v, a, e)
  PROVE  OnDisk' /\ SavingRight'
  <1> DEFINE r == [pc |-> "find", kind |-> kind, vip |-> v, addr |-> a,
                   epoch |-> e, cell |-> 0, changed |-> FALSE]
  <1>1. r \in Local /\ r.pc = "find" /\ ~r.changed
    BY DEF Local, Pc
  <1>2. /\ th[t].pc = "idle" /\ th' = [th EXCEPT ![t] = r]
        /\ UNCHANGED <<cells, table, disk, heard>>
    BY DEF Start, At
  <1> HIDE DEF r
  <1> QED
    BY <1>1, <1>2, SavedGo

\* A save leaves what the table has, whichever of the two it writes.
LEMMA SaveSaved ==
  ASSUME ReceiveOnly, IInv, SavedInv, NEW t \in Thread, Save(t)
  PROVE  OnDisk' /\ SavingRight'
  <1>p. PICK v : v = th[t].vip
    OBVIOUS
  <1>1. /\ th[t].pc = "save" /\ v \in Known /\ v \in Vip /\ t \in Recv /\ table[v] \in 1..Len(cells)
        /\ \A u \in Thread : u = t
        /\ UNCHANGED <<cells, table, heard>>
    BY <1>p, LocalFacts, KnownCell DEF Save, At, IInv, CellsExist, Known, ReceiveOnly, Alone
  <1>2. PICK b : /\ disk' = [disk EXCEPT ![v] = b]
                 /\ cells[table[v]].addr # NoAddr => b = cells[table[v]].addr
    <2>1. CASE t \in Recv /\ th[t].kind = "entry" /\ th[t].cell # 0 /\ ~th[t].changed
      BY <1>p, <2>1 DEF Save, SendAddr
    <2>2. CASE ~(t \in Recv /\ th[t].kind = "entry" /\ th[t].cell # 0 /\ ~th[t].changed)
      <3>1. cells[table[v]].addr = th[t].addr
        BY <1>p, <1>1, <2>2 DEF SavedInv, SavingRight, At
      <3> QED
        BY <1>p, <2>2, <3>1 DEF Save
    <2> QED
      BY <2>1, <2>2
  <1>3. PICK pc \in {"find again", "idle"} :
          Go(t, pc) /\ (pc = "find again" => th[t].kind = "ping" /\ th[t].cell = 0)
    BY DEF Save
  <1>4. /\ th'[t].pc = pc /\ th'[t].changed = th[t].changed /\ th[t].changed \in BOOLEAN
    <2>1. th[t] \in Local /\ th \in [Thread -> Local]
      BY LocalFacts DEF IInv, TypeOK
    <2> QED
      BY <1>3, <2>1 DEF Go, Local
  <1>5. pc = "find again" => ~th[t].changed
    BY <1>1, <1>3, <1>4 DEF SavedInv, SavingRight, At
  <1>6. /\ disk' \in [Vip -> OptAddr] /\ disk \in [Vip -> OptAddr]
        /\ \A w \in Vip : w # v => disk'[w] = disk[w]
        /\ cells[table[v]].addr # NoAddr => disk'[v] = cells[table[v]].addr
    BY <1>1, <1>2, SaveStep DEF IInv, TypeOK, Step
  <1>7. /\ \A w \in Known : w # v /\ cells[table[w]].addr # NoAddr => disk[w] = cells[table[w]].addr
        /\ \A w \in Known : News(w) # {} => cells[table[w]].addr # NoAddr
    BY <1>p, <1>1 DEF SavedInv, OnDisk, Saving, Writing
  <1>8. OnDisk'
    BY <1>1, <1>6, <1>7 DEF OnDisk, Known, News
  <1>9. SavingRight'
    BY <1>1, <1>3, <1>4, <1>5 DEF SavingRight, At
  <1> QED
    BY <1>8, <1>9

LEMMA ReceiverFacts ==
  ASSUME ReceiveOnly, IInv, SavedInv, NEW t \in Thread
  PROVE  /\ Alone /\ LoneInv /\ OneDate /\ OwnCells /\ TypeOK /\ time \in Nat
         /\ th[t] \in Local /\ th \in [Thread -> Local] /\ th[t].epoch <= time
         /\ t \in Recv /\ th[t].kind # "card" /\ \A u \in Thread : u = t
  <1>1. /\ Alone /\ \A u \in Thread : u = t
        /\ t \in Recv
    BY DEF ReceiveOnly, Alone
  <1>2. LoneInv /\ OneDate /\ OwnCells /\ th[t].epoch <= time
    BY DEF SavedInv, LoneInv, Held
  <1>3. TypeOK /\ time \in Nat /\ th[t] \in Local /\ th \in [Thread -> Local]
    BY DEF IInv, TypeOK
  <1>4. th[t].kind # "card"
    BY <1>1 DEF IInv, KindsMatch, Learners
  <1> QED
    BY <1>1, <1>2, <1>3, <1>4

LEMMA InsertSaved ==
  ASSUME ReceiveOnly, IInv, SavedInv, LoneInv', NEW t \in Thread, Insert(t)
  PROVE  OnDisk' /\ SavingRight'
  <1>p. PICK v, a, e : v = th[t].vip /\ a = th[t].addr
                       /\ e = IF th[t].kind = "ping" THEN time ELSE th[t].epoch
    OBVIOUS
  <1>q. PICK c, f : /\ c = [conf |-> a, epoch |-> e, addr |-> a]
                    /\ f = [vip |-> v, addr |-> a, epoch |-> e]
    OBVIOUS
  <1>1. /\ th[t].pc = "insert" /\ th[t] \in Local /\ v \in Vip /\ a \in Addr /\ e \in Nat /\ e <= time
        /\ th \in [Thread -> Local] /\ th[t].kind # "card" /\ th[t].cell = 0 /\ ~th[t].changed
        /\ \A u \in Thread : u = t
    <2>1. th[t].pc = "insert" /\ TypeOK
      BY ReceiverFacts DEF Insert, At
    <2>2. th[t].cell = 0 /\ ~th[t].changed
      BY <2>1 DEF SavedInv, SavingRight, At
    <2> QED
      BY <1>p, <2>1, <2>2, LocalFacts, ReceiverFacts
  <1>2. /\ cells' = Append(cells, c) /\ table' = [table EXCEPT ![v] = Len(cells) + 1]
        /\ Hear(f) /\ time' = time /\ Go(t, "save") /\ disk' = disk
    BY <1>p, <1>q, <1>1 DEF Insert
  <1>3. c \in Cell /\ f \in Fact /\ f.vip = v /\ f.epoch = e /\ c.addr = a
    BY <1>q, <1>1 DEF Cell, Fact, OptAddr
  <1>4. /\ Known' = Known \cup {v} /\ cells'[table'[v]] = c
        /\ \A w \in Vip : w # v => table'[w] = table[w]
        /\ \A w \in Known : w # v => cells'[table[w]] = cells[table[w]]
    <2>1. OwnCells
      BY ReceiverFacts
    <2>2. cells' = Append(cells, c) /\ table' = [table EXCEPT ![v] = Len(cells) + 1]
      BY <1>2
    <2>3. v \in Vip /\ c \in Cell
      BY <1>1, <1>3
    <2> QED
      BY <2>1, <2>2, <2>3, NewObject
  <1>5. \A w \in Vip : w # v => News(w)' = News(w)
    BY <1>1, <1>2, <1>3, ReceiverFacts, HearDoes
  <1>6. th'[t] = [th[t] EXCEPT !.pc = "save"]
    BY <1>1, <1>2 DEF Go
  <1>7. /\ th'[t].pc = "save" /\ th'[t].vip = v /\ th'[t].addr = a /\ th'[t].cell = 0 /\ ~th'[t].changed
    BY <1>p, <1>1, <1>6 DEF Local
  <1>8. /\ \A w \in Known : cells[table[w]].addr # NoAddr => disk[w] = cells[table[w]].addr
        /\ \A w \in Known : News(w) # {} => cells[table[w]].addr # NoAddr
    BY <1>1 DEF SavedInv, OnDisk, Saving, Writing
  <1>9. a # NoAddr
    BY <1>1, PeerTableAssumption
  <1>10. \A w \in Known : w \in Vip
    BY DEF Known
  <1>11. OnDisk'
    <2>1. ASSUME NEW w \in Known \cup {v}, ~Saving(w)', cells'[table'[w]].addr # NoAddr
          PROVE  disk'[w] = cells'[table'[w]].addr
      <3>1. w # v
        BY <1>7, <2>1 DEF Saving
      <3>2. w \in Known /\ w \in Vip
        BY <1>10, <3>1
      <3>3. cells'[table'[w]] = cells[table[w]] /\ disk'[w] = disk[w]
        BY <1>2, <1>4, <3>1, <3>2
      <3> QED
        BY <1>8, <2>1, <3>2, <3>3
    <2>2. ASSUME NEW w \in Known \cup {v}, News(w)' # {}
          PROVE  cells'[table'[w]].addr # NoAddr
      <3>1. CASE w = v
        BY <1>3, <1>4, <1>9, <3>1
      <3>2. CASE w # v
        BY <1>4, <1>5, <1>8, <1>10, <2>2, <3>2
      <3> QED
        BY <3>1, <3>2
    <2> QED
      BY <1>4, <2>1, <2>2 DEF OnDisk
  <1>12. SavingRight'
    BY <1>1, <1>3, <1>4, <1>7 DEF SavingRight, At
  <1> QED
    BY <1>11, <1>12

\* What is on disk of a peer that nothing changed: the address it had.
LEMMA OverwriteSaved ==
  ASSUME ReceiveOnly, IInv, SavedInv, NEW t \in Thread, NEW e \in Nat, Overwrite(t, e),
         th[t].pc \in {"observe", "write"},
         \A w \in Vip : w # th[t].vip => News(w)' = News(w)
  PROVE  OnDisk' /\ SavingRight'
  <1>p. PICK v, c : v = th[t].vip /\ c = th[t].cell
    OBVIOUS
  <1>1. /\ v \in Known /\ v \in Vip /\ c = table[v] /\ c \in 1..Len(cells)
        /\ \A w \in Known : w # v => table[w] # c /\ table[w] \in 1..Len(cells)
        /\ \A u \in Thread : u = t
    BY <1>p, Holding DEF SavedInv, ReceiveOnly, Alone, Known
  <1>2. /\ th'[t].pc = "stamp" /\ th'[t].vip = v /\ th'[t].addr = th[t].addr
        /\ th'[t].changed <=> cells[c].addr # th[t].addr
        /\ \A d \in 1..Len(cells) : d # c => cells'[d] = cells[d]
        /\ table' = table /\ disk' = disk
    <2>1. th[t].cell \in 1..Len(cells)
      BY <1>p, <1>1
    <2> QED
      BY <1>p, <2>1, OverwriteDoes
  <1>3. /\ cells[c].addr # NoAddr => disk[v] = cells[c].addr
        /\ \A w \in Known : cells[table[w]].addr # NoAddr => disk[w] = cells[table[w]].addr
        /\ \A w \in Known : w # v /\ News(w) # {} => cells[table[w]].addr # NoAddr
    BY <1>p, <1>1 DEF SavedInv, OnDisk, Saving, Writing
  <1>4. th[t].addr \in Addr
    BY LocalFacts DEF IInv
  <1>5. Known' = Known /\ \A w \in Known : w \in Vip
    BY <1>2 DEF Known
  <1>6. Saving(v)' /\ Writing(v)'
    BY <1>2 DEF Saving, Writing
  <1>7. OnDisk'
    BY <1>p, <1>1, <1>2, <1>3, <1>5, <1>6 DEF OnDisk
  <1>8. SavingRight'
    BY <1>1, <1>2, <1>3, <1>4, PeerTableAssumption DEF SavingRight, At
  <1> QED
    BY <1>7, <1>8

LEMMA ObserveSaved ==
  ASSUME ReceiveOnly, IInv, SavedInv, NEW t \in Thread, Observe(t) \/ Write(t)
  PROVE  OnDisk' /\ SavingRight'
  <1>1. CASE Observe(t)
    <2>f. PICK f : f = [Told(t) EXCEPT !.epoch = time]
      OBVIOUS
    <2>1. /\ th[t].pc = "observe" /\ Overwrite(t, time) /\ Hear(f) /\ time' = time /\ time \in Nat
          /\ th[t].vip \in Vip
      BY <1>1, <2>f, LocalFacts DEF Observe, At, Overwrite, IInv, TypeOK
    <2>2. f \in Fact /\ f.vip = th[t].vip /\ f.epoch = time
      BY <2>f, <2>1, ToldFact DEF IInv, Told
    <2>3. \A w \in Vip : w # th[t].vip => News(w)' = News(w)
      BY <2>1, <2>2, HearDoes DEF IInv, SavedInv, LoneInv
    <2> QED
      BY <2>1, <2>3, OverwriteSaved
  <1>2. CASE Write(t)
    <2>1. th[t].pc = "write" /\ Overwrite(t, th[t].epoch) /\ heard' = heard /\ th[t].epoch \in Nat
      BY <1>2, LocalFacts DEF Write, At, IInv
    <2>2. \A w \in Vip : News(w)' = News(w)
      BY <2>1 DEF News
    <2> QED
      BY <2>1, <2>2, OverwriteSaved
  <1> QED
    BY <1>1, <1>2

LEMMA CheckSaved ==
  ASSUME ReceiveOnly, IInv, SavedInv, NEW t \in Thread, Check(t)
  PROVE  OnDisk' /\ SavingRight'
  <1>p. PICK v, e, c, f : v = th[t].vip /\ e = th[t].epoch /\ c = th[t].cell /\ f = Told(t)
    OBVIOUS
  <1>1. /\ th[t].pc = "check" /\ Hear(f) /\ UNCHANGED <<time, cells, table, disk>>
        /\ v \in Vip /\ e \in Nat /\ e <= time /\ \A u \in Thread : u = t
        /\ ~th[t].changed /\ th[t].kind = "entry"
    BY <1>p, LocalFacts DEF Check, At, IInv, SavedInv, SavingRight, LoneInv, Held, ReceiveOnly, Alone
  <1>2. f \in Fact /\ f.vip = v /\ f.epoch = e
    BY <1>p, <1>1, ToldFact DEF IInv, Told
  <1>3. v \in Known /\ c = table[v] /\ c \in 1..Len(cells) /\ FollowsNews(v)
    BY <1>p, <1>1, Holding DEF SavedInv, ReceiveOnly
  <1>4. /\ \A w \in Vip : w # v => News(w)' = News(w)
        /\ News(v) = {} /\ e = 0 => News(v)' = {}
    BY <1>1, <1>2, HearDoes DEF IInv, SavedInv, LoneInv
  <1>5. PICK pc \in {"write", "save", "idle"} :
          Go(t, pc) /\ (pc = "write" <=> e > cells[c].epoch)
    <2>1. CASE e > cells[c].epoch
      BY <1>p, <2>1 DEF Check
    <2>2. CASE ~(e > cells[c].epoch)
      BY <1>p, <2>2 DEF Check
    <2> QED
      BY <2>1, <2>2
  <1>6. /\ th'[t].pc = pc /\ th'[t].vip = v /\ th'[t].cell = c /\ ~th'[t].changed
        /\ th'[t].kind = "entry"
    <2>1. th[t] \in Local /\ th \in [Thread -> Local]
      BY LocalFacts DEF IInv, TypeOK
    <2> QED
      BY <1>p, <1>1, <1>5, <2>1 DEF Go, Local
  <1>7. /\ \A w \in Known : cells[table[w]].addr # NoAddr => disk[w] = cells[table[w]].addr
        /\ \A w \in Known : News(w) # {} => cells[table[w]].addr # NoAddr
    BY <1>1 DEF SavedInv, OnDisk, Saving, Writing
  <1>8. ASSUME pc # "write", News(v) = {} PROVE News(v)' = {}
    BY <1>1, <1>3, <1>4, <1>5, <1>8 DEF FollowsNews
  <1>9. \A w \in Known : ~Writing(w)' /\ News(w)' # {} => News(w) # {}
    BY <1>4, <1>6, <1>8 DEF Known, Writing
  <1>10. OnDisk'
    BY <1>1, <1>7, <1>9 DEF OnDisk, Known
  <1>11. SavingRight'
    <2>1. c # 0
      BY <1>p, <1>1 DEF IInv, CellsExist, At
    <2> QED
      BY <1>1, <1>5, <1>6, <2>1 DEF SavingRight, At
  <1> QED
    BY <1>10, <1>11

LEMMA StampSaved ==
  ASSUME ReceiveOnly, IInv, SavedInv, NEW t \in Thread, Stamp(t)
  PROVE  OnDisk' /\ SavingRight'
  <1>p. PICK v, c, a : v = th[t].vip /\ c = th[t].cell /\ a = th[t].addr
    OBVIOUS
  <1>1. /\ th[t].pc = "stamp" /\ UNCHANGED <<time, table, disk, heard, added>>
        /\ cells' = [cells EXCEPT ![c] = [cells[c] EXCEPT !.epoch = th[t].epoch]]
        /\ v \in Vip /\ a \in Addr /\ \A u \in Thread : u = t
        /\ ~th[t].changed => disk[v] = a
    BY <1>p, LocalFacts DEF Stamp, At, IInv, SavedInv, SavingRight, ReceiveOnly, Alone
  <1>2. /\ v \in Known /\ c = table[v] /\ c \in 1..Len(cells)
        /\ \A w \in Known : w # v => table[w] # c /\ table[w] \in 1..Len(cells)
        /\ cells[c] \in Cell /\ cells[c].addr = a
    BY <1>p, <1>1, Holding, CellFacts DEF IInv, SavedInv, LoneInv, Held, At, ReceiveOnly
  <1>3. cells'[c].addr = a /\ \A d \in 1..Len(cells) : d # c => cells'[d] = cells[d]
    BY <1>1, <1>2 DEF IInv, TypeOK, Cell
  <1>4. PICK pc \in {"save", "idle"} :
          /\ Go(t, pc)
          /\ th[t].changed => pc = "save"
          /\ pc = "save" => th[t].changed \/ th[t].kind \in {"entry", "card"}
    BY DEF Stamp
  <1>5. /\ th'[t].pc = pc /\ th'[t].vip = v /\ th'[t].addr = a /\ th'[t].cell = c
        /\ th'[t].changed = th[t].changed /\ th'[t].kind = th[t].kind /\ th[t].kind # "card"
    <2>1. th'[t] = [th[t] EXCEPT !.pc = pc] /\ th[t] \in Local
      BY <1>4, ReceiverFacts DEF Go
    <2> QED
      BY <1>p, <2>1, ReceiverFacts DEF Local
  <1>6. /\ \A w \in Known : w # v /\ cells[table[w]].addr # NoAddr => disk[w] = cells[table[w]].addr
        /\ \A w \in Known : w # v /\ News(w) # {} => cells[table[w]].addr # NoAddr
    BY <1>p, <1>1 DEF SavedInv, OnDisk, Saving, Writing
  <1>7. a # NoAddr /\ Known' = Known /\ \A w \in Vip : News(w)' = News(w)
    BY <1>1, PeerTableAssumption DEF Known, News
  <1>8. OnDisk'
    <2>1. ASSUME NEW w \in Known, ~Saving(w)', cells'[table[w]].addr # NoAddr
          PROVE  disk[w] = cells'[table[w]].addr
      <3>1. CASE w = v
        <4>1. pc = "idle" /\ th[t].changed \in BOOLEAN
          BY <1>4, <1>5, <2>1, <3>1, LocalFacts DEF Saving, IInv
        <4>2. ~th[t].changed
          BY <1>4, <4>1
        <4>3. disk[v] = a
          BY <1>1, <4>2
        <4> QED
          BY <1>2, <1>3, <3>1, <4>3
      <3>2. CASE w # v
        BY <1>2, <1>3, <1>6, <2>1, <3>2
      <3> QED
        BY <3>1, <3>2
    <2>2. ASSUME NEW w \in Known, News(w) # {} PROVE cells'[table[w]].addr # NoAddr
      BY <1>2, <1>3, <1>6, <1>7, <2>2
    <2> QED
      BY <1>1, <1>7, <2>1, <2>2 DEF OnDisk, News
  <1>9. SavingRight'
    <2>1. c # 0 /\ cells'[table'[v]].addr = a
      BY <1>p, <1>1, <1>2, <1>3 DEF IInv, CellsExist, At
    <2>2. pc = "save" => \/ th[t].changed
                         \/ th[t].kind = "entry" /\ ~th[t].changed
      BY <1>4, <1>5
    <2> QED
      BY <1>1, <1>5, <2>1, <2>2 DEF SavingRight, At
  <1> QED
    BY <1>8, <1>9

LEMMA RegistryAddsSaved ==
  ASSUME ReceiveOnly, IInv, SavedInv, NEW v \in Vip, NEW a \in Addr, RegistryAdds(v, a)
  PROVE  OnDisk' /\ SavingRight'
  <1> DEFINE c == [conf |-> a, addr |-> NoAddr, epoch |-> 0]
  <1>1. /\ v \notin Known /\ cells' = Append(cells, c)
        /\ table' = [table EXCEPT ![v] = Len(cells) + 1]
        /\ UNCHANGED <<time, disk, th, heard, added>>
    BY DEF RegistryAdds
  <1>2. c \in Cell /\ c.addr = NoAddr
    BY DEF Cell, OptAddr
  <1> HIDE DEF c
  <1>3. /\ Known' = Known \cup {v} /\ cells'[table'[v]] = c
        /\ \A w \in Vip : w # v => table'[w] = table[w]
        /\ \A w \in Known : w # v => cells'[table[w]] = cells[table[w]]
    BY <1>1, <1>2, NewObject DEF SavedInv, LoneInv
  <1>4. \A w \in Vip : News(w)' = News(w) /\ (Writing(w)' <=> Writing(w)) /\ (Saving(w)' <=> Saving(w))
    BY <1>1 DEF News, Writing, Saving
  <1>5. News(v) = {}
    <2>1. ~Writing(v)
      BY <1>1, Holding DEF Writing, SavedInv, ReceiveOnly
    <2> QED
      BY <1>1, <2>1 DEF SavedInv, LoneInv, Follows, FollowsNews
  <1>6. \A w \in Known : w \in Vip /\ w # v
    BY <1>1 DEF Known
  <1>7. OnDisk'
    <2>1. ASSUME NEW w \in Known \cup {v}, ~Saving(w)', cells'[table'[w]].addr # NoAddr
          PROVE  disk'[w] = cells'[table'[w]].addr
      <3>1. w # v
        BY <1>2, <1>3, <2>1
      <3>2. w \in Known /\ w \in Vip
        BY <1>6, <3>1
      <3>3. cells'[table'[w]] = cells[table[w]] /\ disk'[w] = disk[w] /\ ~Saving(w)
        BY <1>1, <1>3, <1>4, <2>1, <3>1, <3>2
      <3> QED
        BY <2>1, <3>2, <3>3 DEF SavedInv, OnDisk
    <2>2. ASSUME NEW w \in Known \cup {v}, ~Writing(w)', News(w)' # {}
          PROVE  cells'[table'[w]].addr # NoAddr
      BY <1>1, <1>3, <1>4, <1>5, <1>6, <2>2 DEF SavedInv, OnDisk
    <2> QED
      BY <1>3, <2>1, <2>2 DEF OnDisk
  <1>8. SavingRight'
    <2>1. ASSUME NEW t \in Thread, th[t].pc = "save"
          PROVE  cells'[table'[th[t].vip]] = cells[table[th[t].vip]]
      <3>1. th[t].vip \in Known
        BY <2>1 DEF IInv, CellsExist, At
      <3> QED
        BY <1>3, <1>6, <3>1
    <2>2. SavingRight /\ th' = th /\ disk' = disk
      BY <1>1 DEF SavedInv
    <2> QED
      BY <2>1, <2>2 DEF SavingRight, At
  <1> QED
    BY <1>7, <1>8

LEMMA InitSaved == Init => OnDisk /\ SavingRight
  <1> SUFFICES ASSUME Init PROVE OnDisk /\ SavingRight
    OBVIOUS
  <1>1. \A t \in Thread : th[t].pc = "idle"
    BY DEF Init
  <1>2. Known = {}
    BY DEF Init, Known
  <1> QED
    BY <1>1, <1>2 DEF OnDisk, SavingRight, At

LEMMA NextSaved ==
  ASSUME ReceiveOnly, IInv, SavedInv, [Next]_vars PROVE SavedInv'
  <1>1. LoneInv'
    BY NextLone DEF ReceiveOnly, SavedInv
  <1>2. time \in Nat
    BY DEF IInv, TypeOK
  <1>3. ASSUME NEW t \in Recv, RecvPacket(t) PROVE OnDisk' /\ SavingRight'
    BY <1>2, <1>3, StartSaved DEF RecvPacket, Thread, Learners
  <1>4. ASSUME NEW t \in Learners, TakeEntry(t) PROVE OnDisk' /\ SavingRight'
    BY <1>2, <1>4, StartSaved DEF TakeEntry, Thread
  <1>5. ASSUME NEW t \in Thread, Step(t) PROVE OnDisk' /\ SavingRight'
    BY <1>1, <1>5, LookSaved, SaveSaved, InsertSaved, ObserveSaved, CheckSaved, StampSaved DEF Step
  <1>6. \A t \in Gui : FALSE
    BY PeerTableAssumption DEF ReceiveOnly, Thread, Learners
  <1>7. ASSUME Tick \/ UNCHANGED vars PROVE OnDisk' /\ SavingRight'
    <2>1. UNCHANGED <<cells, table, disk, th, heard>>
      BY <1>7 DEF Tick, vars
    <2>2. OnDisk'
      BY <2>1 DEF SavedInv, OnDisk, Known, Saving, Writing, News
    <2>3. SavingRight'
      BY <2>1 DEF SavedInv, SavingRight, At
    <2> QED
      BY <2>2, <2>3
  <1> QED
    BY <1>1, <1>3, <1>4, <1>5, <1>6, <1>7, RegistryAddsSaved DEF Next, SavedInv

\* mesh.toml has the address in use for every peer something was heard of
\* (mesh.rs persist_peer_addr), if besides the registry's only the receive loop
\* runs: that it does not always is the work of the other threads.
THEOREM SavedIsCurrentAlone == ASSUME ReceiveOnly PROVE Spec => []SavedIsCurrent
  <1>1. Init => IInv /\ SavedInv
    BY InitIInv, InitLone, InitSaved DEF SavedInv
  <1>2. IInv /\ SavedInv /\ [Next]_vars => (IInv /\ SavedInv)'
    BY NextIInv, NextSaved
  <1>3. SavedInv => SavedIsCurrent
    <2> SUFFICES ASSUME SavedInv, Quiet, NEW v \in Vip, News(v) # {}
                 PROVE  disk[v] = SendAddr(table[v])
      BY DEF SavedIsCurrent
    <2>1. ~Writing(v) /\ ~Saving(v)
      BY DEF Quiet, Writing, Saving, At
    <2>2. v \in Known
      BY <2>1 DEF SavedInv, LoneInv, Follows, FollowsNews
    <2> QED
      BY <2>1, <2>2 DEF SavedInv, OnDisk, SendAddr
  <1> QED
    BY <1>1, <1>2, <1>3, PTL DEF Spec
=============================================================================
