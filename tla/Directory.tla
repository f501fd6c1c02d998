----------------------------- MODULE Directory -----------------------------
(***************************************************************************)
(* The shared directory: every member's DirectoryClient reads and rewrites *)
(* one authenticated document, kept as an opaque blob by storage services  *)
(* that know neither locks nor compare-and-swap (backends/mod.rs,          *)
(* backends/client.rs, and the directory thread of mesh.rs).  A sync is a  *)
(* read of every service followed, if something is due, by a write to      *)
(* every service; each request is one step, so syncs of several members    *)
(* interleave between any two requests.                                    *)
(***************************************************************************)
EXTENDS Naturals, FiniteSets

CONSTANTS
  Member,      \* virtual IPs
  Addr,        \* public addresses
  NoAddr,
  Stores,      \* number of configured services, asked in order 1, 2, ...
  StaleAfter,  \* STALE_AFTER_SECS
  Heartbeat,   \* HEARTBEAT_SECS
  ClockSkew,   \* CLOCK_SKEW_SECS
  Ahead,       \* Ahead[m]: by how much m's clock is ahead of the others'
  Movers,      \* members whose public address changes
  Restarters,  \* members that restart
  MaxSync,     \* how long a sync takes at most: curl gives up on a request
  Timely,      \* is that less than SYNC_INTERVAL_SECS, the pause between two syncs?
  MaxTime,     \* bound: the clock, and the end of outages and moves
  MaxSeq       \* bound: until MaxTime, syncs only read once this number is in use

OptAddr == Addr \cup {NoAddr}

ASSUME DirectoryAssumption ==
  /\ NoAddr \notin Addr /\ Stores \in Nat \ {0}
  /\ StaleAfter \in Nat /\ Heartbeat \in Nat /\ ClockSkew \in Nat
  /\ Ahead \in [Member -> Nat] /\ Movers \subseteq Member /\ Restarters \subseteq Member
  /\ Timely \in BOOLEAN /\ MaxSync \in Nat /\ MaxTime \in Nat /\ MaxSeq \in Nat

VARIABLES
  time,
  addr,     \* addr[m]: m's public address as m knows it
  store,    \* store[i]: the document service i keeps
  client,   \* client[m]: the DirectoryClient of m
  job,      \* job[m]: the sync m is in
  claimed   \* history: every record a member has made about itself

vars == <<time, addr, store, client, job, claimed>>

PeerRecord == [vip: Member, addr: Addr, at: Nat]
Document == [seq: Nat, issued: Nat, peers: SUBSET PeerRecord]
NoDocument == [seq |-> 0, issued |-> 0, peers |-> {}]   \* nothing published yet

Client == [floor: Nat, latest: Document, lastAddr: OptAddr, lastAt: Nat]
NewClient == [floor |-> 0, latest |-> NoDocument, lastAddr |-> NoAddr, lastAt |-> 0]

\* read: every document this sync was given; met: who has been in a sync since
\* this one began.
Job == [pc: {"idle", "fetch", "publish"}, pos: 1..Stores + 1, now: Nat, addr: OptAddr,
        answered: BOOLEAN, best: Document, doc: Document, ok: BOOLEAN,
        read: SUBSET Document, met: SUBSET Member]
NoJob == [pc |-> "idle", pos |-> 1, now |-> 0, addr |-> NoAddr, answered |-> FALSE,
          best |-> NoDocument, doc |-> NoDocument, ok |-> FALSE, read |-> {},
          met |-> {}]

TypeOK ==
  /\ time \in Nat
  /\ addr \in [Member -> OptAddr]
  /\ store \in [1..Stores -> Document]
  /\ client \in [Member -> Client]
  /\ job \in [Member -> Job]
  /\ claimed \subseteq PeerRecord

Clock(m) == time + Ahead[m]
IsFresh(r, now) == r.at + StaleAfter >= now
Valid(d, now) == d.issued <= now + ClockSkew
Newer(d, e) == d.seq > e.seq \/ (d.seq = e.seq /\ d.issued > e.issued)
Busy(m) == job[m].pc # "idle"
Unsettled == time < MaxTime

Init ==
  /\ time = 1
  /\ addr \in [Member -> Addr]
  /\ store = [i \in 1..Stores |-> NoDocument]
  /\ client = [m \in Member |-> NewClient]
  /\ job = [m \in Member |-> NoJob]
  /\ claimed = {}

Tick ==
  /\ time < MaxTime
  /\ \A m \in Member : Busy(m) => Clock(m) < job[m].now + MaxSync
  /\ time' = time + 1
  /\ UNCHANGED <<addr, store, client, job, claimed>>

\* Self-STUN or the user gives m another address, or takes it away.
Move(m) ==
  /\ m \in Movers /\ Unsettled
  /\ \E a \in OptAddr : addr' = [addr EXCEPT ![m] = a]
  /\ UNCHANGED <<time, store, client, job, claimed>>

\* The floor is not kept on disk.
Restart(m) ==
  /\ m \in Restarters /\ Unsettled
  /\ client' = [client EXCEPT ![m] = NewClient]
  /\ job' = [job EXCEPT ![m] = NoJob]
  /\ UNCHANGED <<time, addr, store, claimed>>

NearBound(m) ==
  Unsettled /\ (client[m].floor >= MaxSeq \/ \E i \in 1..Stores : store[i].seq >= MaxSeq)

Sync(m) ==
  /\ ~Busy(m)
  /\ Timely => \A n \in Member : Busy(n) => m \notin job[n].met
  /\ job' = [n \in Member |->
       IF n = m THEN [NoJob EXCEPT !.pc = "fetch", !.now = Clock(m),
                                   !.addr = IF NearBound(m) THEN NoAddr ELSE addr[m],
                                   !.met = IF Timely THEN {k \in Member : Busy(k)} ELSE {}]
       ELSE IF Timely /\ Busy(n) THEN [job[n] EXCEPT !.met = @ \cup {m}]
       ELSE job[n]]
  /\ UNCHANGED <<time, addr, store, client, claimed>>

\* sync() with what was read, and publish_if_due().
MyRecord(m, j) == [vip |-> m, addr |-> j.addr, at |-> j.now]
\* Faulty variant: a read that brings nothing new starts over.
AcceptedOrReset(c, j) ==
  IF j.best = NoDocument THEN NewClient
  ELSE [c EXCEPT !.latest = j.best, !.floor = IF @ > j.best.seq THEN @ ELSE j.best.seq]

Accepted(c, j) ==
  IF j.best = NoDocument THEN c
  ELSE [c EXCEPT !.latest = j.best, !.floor = IF @ > j.best.seq THEN @ ELSE j.best.seq]
Differs(m, c, j) == ~\E r \in c.latest.peers : r.vip = m /\ r.addr = j.addr
HeartbeatDue(c, j) == c.lastAddr # j.addr \/ j.now >= c.lastAt + Heartbeat
\* Faulty variant: without an address of our own, too.
DueAnyway(m, c, j) == j.answered /\ (Differs(m, c, j) \/ HeartbeatDue(c, j))

Due(m, c, j) ==
  /\ j.addr # NoAddr /\ j.answered
  /\ Differs(m, c, j) \/ HeartbeatDue(c, j)
\* Faulty variant: the others' records are refreshed.
NextDocumentRestamped(m, c, j) ==
  [seq |-> (IF c.latest.seq > c.floor THEN c.latest.seq ELSE c.floor) + 1,
   issued |-> j.now,
   peers |-> {[r EXCEPT !.at = j.now] : r \in {q \in c.latest.peers : q.vip # m}}
               \cup {MyRecord(m, j)}]

NextDocument(m, c, j) ==
  [seq |-> (IF c.latest.seq > c.floor THEN c.latest.seq ELSE c.floor) + 1,
   issued |-> j.now,
   peers |-> {r \in c.latest.peers : r.vip # m /\ IsFresh(r, j.now)} \cup {MyRecord(m, j)}]

\* Faulty variant: the next document is built before the one read is accepted.
ConcludeEarly(m, j) ==
  LET c == Accepted(client[m], j) IN
  /\ client' = [client EXCEPT ![m] = c]
  /\ IF Due(m, c, j)
     THEN /\ job' = [job EXCEPT ![m] = [j EXCEPT !.pc = "publish", !.pos = 1,
                                                 !.doc = NextDocument(m, client[m], j)]]
          /\ claimed' = claimed \cup {MyRecord(m, j)}
     ELSE job' = [job EXCEPT ![m] = NoJob] /\ UNCHANGED claimed

Conclude(m, j) ==
  LET c == Accepted(client[m], j) IN
  /\ client' = [client EXCEPT ![m] = c]
  /\ IF Due(m, c, j)
     THEN /\ job' = [job EXCEPT ![m] = [j EXCEPT !.pc = "publish", !.pos = 1,
                                                 !.doc = NextDocument(m, c, j)]]
          /\ claimed' = claimed \cup {MyRecord(m, j)}
     ELSE job' = [job EXCEPT ![m] = NoJob] /\ UNCHANGED claimed

\* Faulty variants: a document below the floor is taken, and one on it is not.
AnswerBelow(m) ==
  LET j == job[m]
      d == store[j.pos]
      better == /\ d # NoDocument /\ Valid(d, j.now)
                /\ j.best = NoDocument \/ Newer(d, j.best)
  IN [j EXCEPT !.pos = @ + 1, !.answered = TRUE,
               !.read = IF d # NoDocument THEN @ \cup {d} ELSE @,
               !.best = IF better THEN d ELSE @]
AnswerAbove(m) ==
  LET j == job[m]
      d == store[j.pos]
      better == /\ d # NoDocument /\ Valid(d, j.now) /\ d.seq > client[m].floor
                /\ j.best = NoDocument \/ Newer(d, j.best)
  IN [j EXCEPT !.pos = @ + 1, !.answered = TRUE,
               !.read = IF d # NoDocument THEN @ \cup {d} ELSE @,
               !.best = IF better THEN d ELSE @]

\* fetch_latest, one service: the newest document that is valid and not below
\* the floor.  One that is not acceptable still counts as an answer.
Answer(m) ==
  LET j == job[m]
      d == store[j.pos]
      better == /\ d # NoDocument /\ Valid(d, j.now) /\ d.seq >= client[m].floor
                /\ j.best = NoDocument \/ Newer(d, j.best)
  IN [j EXCEPT !.pos = @ + 1, !.answered = TRUE,
               !.read = IF d # NoDocument THEN @ \cup {d} ELSE @,
               !.best = IF better THEN d ELSE @]

Fetch(m) ==
  /\ job[m].pc = "fetch"
  /\ \E j \in {Answer(m)} \cup IF Unsettled THEN {[job[m] EXCEPT !.pos = @ + 1]} ELSE {} :
       IF j.pos > Stores THEN Conclude(m, j)
       ELSE job' = [job EXCEPT ![m] = j] /\ UNCHANGED <<client, claimed>>
  /\ UNCHANGED <<time, addr, store>>

\* publish_all, one service: it may refuse, and its answer may be lost.  One
\* success is enough to remember the document as ours.
Publish(m) ==
  /\ job[m].pc = "publish"
  /\ \E stored, ok \in BOOLEAN :
       LET j == [job[m] EXCEPT !.pos = @ + 1, !.ok = @ \/ ok] IN
       /\ ok => stored
       /\ ~ok => Unsettled
       /\ store' = IF stored THEN [store EXCEPT ![job[m].pos] = j.doc] ELSE store
       /\ job' = [job EXCEPT ![m] = IF j.pos > Stores THEN NoJob ELSE j]
       /\ client' = IF j.pos > Stores /\ j.ok
                    THEN [client EXCEPT ![m] = [floor |-> j.doc.seq, latest |-> j.doc,
                                                lastAddr |-> j.addr, lastAt |-> j.now]]
                    ELSE client
  /\ UNCHANGED <<time, addr, claimed>>

Step(m) == Fetch(m) \/ Publish(m)

Next == Tick \/ \E m \in Member : Move(m) \/ Restart(m) \/ Sync(m) \/ Step(m)

Spec == Init /\ [][Next]_vars

\* The clock advances, requests end and the directory thread wakes up every
\* SYNC_INTERVAL_SECS.
Fairness == WF_vars(Tick) /\ \A m \in Member : WF_vars(Sync(m)) /\ WF_vars(Step(m))
FairSpec == Spec /\ Fairness

-----------------------------------------------------------------------------
(* Properties.                                                              *)

Documents ==
  {store[i] : i \in 1..Stores}
    \cup UNION {{client[m].latest, job[m].best, job[m].doc} \cup job[m].read : m \in Member}

\* However documents are rewritten, every record in one was made by the member
\* it is about: others only carry it along (client.rs: "Other members' records
\* are carried forward unchanged").
CarriedUnchanged == \A d \in Documents : d.peers \subseteq claimed

\* What a client goes by is as new as what it refuses to go below, and what it
\* is about to publish is above it, although the two are set from a read that
\* other members' writes may have overtaken (client.rs sync, publish_if_due).
FloorSound ==
  \A m \in Member :
    /\ client[m].latest.seq = client[m].floor
    /\ job[m].pc = "publish" => job[m].doc.seq > client[m].floor

\* The anti-rollback floor only goes back in a restart.
FloorMonotone ==
  [][\A m \in Member : ~Restart(m) => client'[m].floor >= client[m].floor]_vars

\* A member lists everybody who is fresh in the newest document it was given:
\* it never shrinks the membership because it failed to read it (client.rs:
\* "We cannot tell the current membership, so publishing now would replace the
\* real directory with one that lists only us").
MembershipKept ==
  \A m \in Member : job[m].pc = "publish" =>
    \A d \in job[m].read :
      /\ d.seq >= client[m].floor
      /\ \A e \in job[m].read \ {d} : Newer(d, e)
      => \A r \in d.peers :
           r.vip # m /\ IsFresh(r, job[m].now) => r \in job[m].doc.peers

\* Once addresses and services are stable, the directory lists every member
\* at its address for good: a record lost to a concurrent write comes back
\* (mesh.rs: "Any change [...] reaches every member within about one sync
\* interval").
Listed ==
  \A m \in Member : addr[m] # NoAddr =>
    \A i \in 1..Stores : \E r \in store[i].peers : r.vip = m /\ r.addr = addr[m]
EventuallyListed == <>[]Listed

(* The inductive invariant of the safety properties.                        *)

InSync ==
  \A m \in Member :
    /\ Busy(m) => job[m].pos <= Stores
    /\ job[m].pc = "fetch" =>
         job[m].best = NoDocument \/ job[m].best.seq >= client[m].floor

IInv == TypeOK /\ CarriedUnchanged /\ FloorSound /\ InSync

\* MembershipKept needs clocks that differ by less than what is tolerated of a
\* document's date, the length of a sync included (CLOCK_SKEW_SECS).
ClocksAgree == \A m, n \in Member : MaxSync + Ahead[n] <= Ahead[m] + ClockSkew

\* No document is dated later than some member's clock, and a sync is short.
InTime(d) == d.issued <= time \/ \E n \in Member : d.issued <= Clock(n)
Timed ==
  /\ \A i \in 1..Stores : InTime(store[i])
  /\ \A m \in Member :
       /\ Busy(m) => job[m].now <= Clock(m) /\ Clock(m) <= job[m].now + MaxSync
       /\ job[m].pc = "publish" => job[m].doc.issued = job[m].now

\* The best document so far is one that was read, and none that was read and is
\* not below the floor is newer.
IsBest(j, floor) ==
  /\ j.best = NoDocument \/ j.best \in j.read
  /\ \A d \in j.read : d.seq >= floor => j.best # NoDocument /\ ~Newer(d, j.best)
BestRead == \A m \in Member : job[m].pc = "fetch" => IsBest(job[m], client[m].floor)

KInv == Timed /\ BestRead /\ MembershipKept
=============================================================================
