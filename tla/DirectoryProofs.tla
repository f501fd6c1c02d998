-------------------------- MODULE DirectoryProofs --------------------------
(***************************************************************************)
(* Theorems of Directory, for every number of members, services and clocks *)
(* and every interleaving of their requests.                               *)
(***************************************************************************)
EXTENDS Directory, TLAPS

\* A document whose every record was made by its member.
Carried(d) == d.peers \subseteq claimed

LEMMA NoDocumentFacts ==
  /\ NoDocument \in Document /\ NoDocument.seq = 0 /\ NoDocument.peers = {}
  /\ Carried(NoDocument)
  BY DEF NoDocument, Document, Carried

LEMMA NoJobFacts ==
  /\ NoJob \in Job /\ NoJob.pc = "idle" /\ NoJob.pos = 1 /\ NoJob.read = {}
  /\ NoJob.best = NoDocument /\ NoJob.doc = NoDocument
  BY NoDocumentFacts, DirectoryAssumption DEF NoJob, Job, OptAddr

LEMMA NewClientFacts ==
  /\ NewClient \in Client /\ NewClient.floor = 0 /\ NewClient.latest = NoDocument
  BY NoDocumentFacts DEF NewClient, Client, OptAddr

LEMMA JobFacts ==
  ASSUME TypeOK, NEW m \in Member
  PROVE  /\ job[m] \in Job /\ job[m].pc \in {"idle", "fetch", "publish"}
         /\ job[m].pos \in 1..Stores + 1 /\ job[m].now \in Nat /\ job[m].addr \in OptAddr
         /\ job[m].answered \in BOOLEAN /\ job[m].ok \in BOOLEAN
         /\ job[m].best \in Document /\ job[m].doc \in Document
         /\ job[m].read \subseteq Document /\ job[m].met \subseteq Member
  BY DEF TypeOK, Job

LEMMA ClientFacts ==
  ASSUME TypeOK, NEW m \in Member
  PROVE  /\ client[m] \in Client /\ client[m].floor \in Nat /\ client[m].latest \in Document
         /\ client[m].lastAddr \in OptAddr /\ client[m].lastAt \in Nat
         /\ client[m].latest.seq \in Nat
  BY DEF TypeOK, Client, Document

\* CarriedUnchanged, one place at a time.
LEMMA CarriedFacts ==
  CarriedUnchanged <=>
    /\ \A i \in 1..Stores : Carried(store[i])
    /\ \A m \in Member :
         /\ Carried(client[m].latest) /\ Carried(job[m].best) /\ Carried(job[m].doc)
         /\ \A d \in job[m].read : Carried(d)
  <1>1. \A d : d \in Documents <=>
          \/ \E i \in 1..Stores : d = store[i]
          \/ \E m \in Member :
               d = client[m].latest \/ d = job[m].best \/ d = job[m].doc \/ d \in job[m].read
    BY DEF Documents
  <1>2. ASSUME CarriedUnchanged
        PROVE  /\ \A i \in 1..Stores : Carried(store[i])
               /\ \A m \in Member :
                    /\ Carried(client[m].latest) /\ Carried(job[m].best) /\ Carried(job[m].doc)
                    /\ \A d \in job[m].read : Carried(d)
    BY <1>1, <1>2, Zenon DEF CarriedUnchanged, Carried
  <1>3. ASSUME \A i \in 1..Stores : Carried(store[i]),
               \A m \in Member :
                 /\ Carried(client[m].latest) /\ Carried(job[m].best) /\ Carried(job[m].doc)
                 /\ \A d \in job[m].read : Carried(d)
        PROVE  CarriedUnchanged
    <2> SUFFICES ASSUME NEW d \in Documents PROVE Carried(d)
      BY DEF CarriedUnchanged, Carried
    <2> QED
      BY <1>1, <1>3
  <1> QED
    BY <1>2, <1>3

LEMMA InitIInv == Init => IInv
  <1> SUFFICES ASSUME Init PROVE IInv
    OBVIOUS
  <1>1. TypeOK
    BY NoDocumentFacts, NoJobFacts, NewClientFacts DEF Init, TypeOK, OptAddr
  <1>2. CarriedUnchanged
    BY NoDocumentFacts, NoJobFacts, NewClientFacts, CarriedFacts DEF Init
  <1>3. FloorSound /\ InSync
    BY NoDocumentFacts, NoJobFacts, NewClientFacts DEF Init, FloorSound, InSync, Busy
  <1> QED
    BY <1>1, <1>2, <1>3 DEF IInv

\* The same for the next state.
LEMMA CarriedNext ==
  ASSUME \A i \in 1..Stores : store'[i].peers \subseteq claimed',
         \A m \in Member :
           /\ client'[m].latest.peers \subseteq claimed'
           /\ job'[m].best.peers \subseteq claimed' /\ job'[m].doc.peers \subseteq claimed'
           /\ \A d \in job'[m].read : d.peers \subseteq claimed'
  PROVE  CarriedUnchanged'
  <1> SUFFICES ASSUME NEW d \in Documents' PROVE d.peers \subseteq claimed'
    BY DEF CarriedUnchanged
  <1>1. \/ \E i \in 1..Stores : d = store'[i]
        \/ \E m \in Member : \/ d = client'[m].latest \/ d = job'[m].best
                            \/ d = job'[m].doc \/ d \in job'[m].read
    BY DEF Documents
  <1> QED
    BY <1>1

\* Every step but a sync's start changes the job and the client of one member
\* at most; a start also notes itself in the others' jobs.
LEMMA MemberStep ==
  ASSUME IInv, NEW m \in Member, NEW j \in Job, NEW c \in Client,
         job' \in [Member -> Job], job'[m] = j,
         \A n \in Member \ {m} :
           /\ job'[n].pc = job[n].pc /\ job'[n].pos = job[n].pos /\ job'[n].best = job[n].best
           /\ job'[n].doc = job[n].doc /\ job'[n].read = job[n].read,
         client' = [client EXCEPT ![m] = c],
         store' \in [1..Stores -> Document], time' \in Nat, addr' \in [Member -> OptAddr],
         claimed \subseteq claimed', claimed' \subseteq PeerRecord,
         \A i \in 1..Stores : store'[i].peers \subseteq claimed',
         c.latest.peers \subseteq claimed', j.best.peers \subseteq claimed',
         j.doc.peers \subseteq claimed', \A d \in j.read : d.peers \subseteq claimed',
         c.latest.seq = c.floor, j.pc = "publish" => j.doc.seq > c.floor,
         j.pc # "idle" => j.pos <= Stores,
         j.pc = "fetch" => j.best = NoDocument \/ j.best.seq >= c.floor
  PROVE  IInv'
  <1>1. client \in [Member -> Client] /\ client'[m] = c
        /\ \A n \in Member \ {m} : client'[n] = client[n]
    BY DEF IInv, TypeOK
  <1>2. TypeOK'
    BY <1>1 DEF TypeOK
  <1>3. CarriedUnchanged'
    <2> SUFFICES ASSUME NEW n \in Member
                 PROVE  /\ client'[n].latest.peers \subseteq claimed'
                        /\ job'[n].best.peers \subseteq claimed'
                        /\ job'[n].doc.peers \subseteq claimed'
                        /\ \A d \in job'[n].read : d.peers \subseteq claimed'
      BY CarriedNext
    <2>1. CASE n = m
      BY <1>1, <2>1
    <2>2. CASE n # m
      <3>1. /\ Carried(client[n].latest) /\ Carried(job[n].best) /\ Carried(job[n].doc)
            /\ \A d \in job[n].read : Carried(d)
        BY CarriedFacts DEF IInv
      <3> QED
        BY <1>1, <2>2, <3>1 DEF Carried
    <2> QED
      BY <2>1, <2>2
  <1>4. FloorSound'
    <2> SUFFICES ASSUME NEW n \in Member
                 PROVE  /\ client'[n].latest.seq = client'[n].floor
                        /\ job'[n].pc = "publish" => job'[n].doc.seq > client'[n].floor
      BY DEF FloorSound
    <2>1. CASE n = m
      BY <1>1, <2>1
    <2>2. CASE n # m
      BY <1>1, <2>2 DEF IInv, FloorSound
    <2> QED
      BY <2>1, <2>2
  <1>5. InSync'
    <2> SUFFICES ASSUME NEW n \in Member
                 PROVE  /\ job'[n].pc # "idle" => job'[n].pos <= Stores
                        /\ job'[n].pc = "fetch" =>
                             job'[n].best = NoDocument \/ job'[n].best.seq >= client'[n].floor
      BY DEF InSync, Busy
    <2>1. CASE n = m
      BY <1>1, <2>1
    <2>2. CASE n # m
      BY <1>1, <2>2 DEF IInv, InSync, Busy
    <2> QED
      BY <2>1, <2>2
  <1> QED
    BY <1>2, <1>3, <1>4, <1>5 DEF IInv

\* What every step needs to know of the state before.
LEMMA Before ==
  ASSUME IInv, NEW m \in Member
  PROVE  /\ \A i \in 1..Stores : store[i].peers \subseteq claimed
         /\ client[m].latest.peers \subseteq claimed /\ job[m].best.peers \subseteq claimed
         /\ job[m].doc.peers \subseteq claimed /\ \A d \in job[m].read : d.peers \subseteq claimed
         /\ client[m].latest.seq = client[m].floor
         /\ job[m].pc = "publish" => job[m].doc.seq > client[m].floor
         /\ job[m].pc # "idle" => job[m].pos <= Stores
         /\ job[m].pc = "fetch" => job[m].best = NoDocument \/ job[m].best.seq >= client[m].floor
  <1>1. CarriedUnchanged /\ FloorSound /\ InSync
    BY DEF IInv
  <1>2. /\ \A i \in 1..Stores : Carried(store[i])
        /\ Carried(client[m].latest) /\ Carried(job[m].best) /\ Carried(job[m].doc)
        /\ \A d \in job[m].read : Carried(d)
    BY <1>1, CarriedFacts
  <1> QED
    BY <1>1, <1>2 DEF Carried, FloorSound, InSync, Busy

\* A step that leaves clients and jobs alone.
LEMMA QuietStep ==
  ASSUME IInv, time' \in Nat, addr' \in [Member -> OptAddr],
         UNCHANGED <<store, client, job, claimed>>
  PROVE  IInv'
  <1>1. TypeOK'
    BY DEF IInv, TypeOK
  <1>2. CarriedUnchanged' /\ FloorSound' /\ InSync'
    BY DEF IInv, CarriedUnchanged, Documents, FloorSound, InSync, Busy
  <1> QED
    BY <1>1, <1>2 DEF IInv

LEMMA RestartStep ==
  ASSUME IInv, NEW m \in Member, Restart(m) PROVE IInv'
  <1>1. /\ job' = [job EXCEPT ![m] = NoJob] /\ client' = [client EXCEPT ![m] = NewClient]
        /\ UNCHANGED <<time, addr, store, claimed>>
    BY DEF Restart
  <1>2. job \in [Member -> Job] /\ time \in Nat /\ addr \in [Member -> OptAddr]
        /\ store \in [1..Stores -> Document] /\ claimed \subseteq PeerRecord
    BY DEF IInv, TypeOK
  <1>3. job' \in [Member -> Job] /\ job'[m] = NoJob /\ \A n \in Member \ {m} : job'[n] = job[n]
    BY <1>1, <1>2, NoJobFacts
  <1> QED
    BY <1>1, <1>2, <1>3, MemberStep, Before, NoJobFacts, NewClientFacts, NoDocumentFacts

LEMMA SyncStep ==
  ASSUME IInv, NEW m \in Member, Sync(m) PROVE IInv'
  <1> DEFINE a == IF NearBound(m) THEN NoAddr ELSE addr[m]
             met == IF Timely THEN {k \in Member : Busy(k)} ELSE {}
             j == [NoJob EXCEPT !.pc = "fetch", !.now = Clock(m), !.addr = a, !.met = met]
  <1>1. /\ job \in [Member -> Job] /\ time \in Nat /\ addr \in [Member -> OptAddr]
        /\ store \in [1..Stores -> Document] /\ claimed \subseteq PeerRecord
        /\ client \in [Member -> Client]
    BY DEF IInv, TypeOK
  <1>2. a \in OptAddr /\ met \subseteq Member /\ Clock(m) \in Nat
    BY <1>1, DirectoryAssumption DEF Clock, OptAddr
  <1> HIDE DEF a, met, j
  <1>3. /\ j \in Job /\ j.pc = "fetch" /\ j.best = NoDocument /\ j.doc = NoDocument /\ j.read = {}
        /\ j.pos = 1
    BY <1>2, NoJobFacts DEF j, Job
  <1>4. /\ UNCHANGED <<time, addr, store, client, claimed>>
        /\ job' = [n \in Member |->
             IF n = m THEN j
             ELSE IF Timely /\ Busy(n) THEN [job[n] EXCEPT !.met = @ \cup {m}]
             ELSE job[n]]
    BY DEF Sync, a, met, j
  <1>5. \A n \in Member \ {m} :
          /\ job'[n] \in Job
          /\ job'[n].pc = job[n].pc /\ job'[n].pos = job[n].pos /\ job'[n].best = job[n].best
          /\ job'[n].doc = job[n].doc /\ job'[n].read = job[n].read
    <2> SUFFICES ASSUME NEW n \in Member \ {m}
                 PROVE  /\ job'[n] \in Job
                        /\ job'[n].pc = job[n].pc /\ job'[n].pos = job[n].pos
                        /\ job'[n].best = job[n].best
                        /\ job'[n].doc = job[n].doc /\ job'[n].read = job[n].read
      OBVIOUS
    <2>1. job[n] \in Job
      BY <1>1
    <2>2. [job[n] EXCEPT !.met = @ \cup {m}] \in Job
      BY <2>1 DEF Job
    <2>3. job'[n] = [job[n] EXCEPT !.met = @ \cup {m}] \/ job'[n] = job[n]
      BY <1>4
    <2> QED
      BY <2>1, <2>2, <2>3 DEF Job
  <1>6. job'[m] = j /\ job' \in [Member -> Job]
    BY <1>3, <1>4, <1>5
  <1>7. client[m] \in Client /\ client' = [client EXCEPT ![m] = client[m]]
    BY <1>1, <1>4
  <1>8. 1 <= Stores
    BY DirectoryAssumption
  <1>9. /\ \A i \in 1..Stores : store'[i].peers \subseteq claimed'
        /\ client[m].latest.peers \subseteq claimed' /\ client[m].latest.seq = client[m].floor
        /\ NoDocument.peers \subseteq claimed'
    BY <1>4, Before, NoDocumentFacts
  <1>10. /\ time' \in Nat /\ addr' \in [Member -> OptAddr] /\ store' \in [1..Stores -> Document]
         /\ claimed \subseteq claimed' /\ claimed' \subseteq PeerRecord
    BY <1>1, <1>4
  <1> QED
    BY <1>3, <1>5, <1>6, <1>7, <1>8, <1>9, <1>10, MemberStep

\* The job after one more service answered, or did not.
LEMMA FetchFacts ==
  ASSUME IInv, NEW m \in Member, job[m].pc = "fetch",
         NEW j \in {Answer(m)} \cup IF Unsettled THEN {[job[m] EXCEPT !.pos = @ + 1]} ELSE {}
  PROVE  /\ j \in Job /\ j.pc = "fetch" /\ j.addr \in OptAddr /\ j.now \in Nat
         /\ j.pos = job[m].pos + 1 /\ j.doc = job[m].doc
         /\ j.best.peers \subseteq claimed /\ \A d \in j.read : d.peers \subseteq claimed
         /\ j.best = NoDocument \/ j.best.seq >= client[m].floor
  <1> DEFINE d == store[job[m].pos]
             better == /\ d # NoDocument /\ Valid(d, job[m].now) /\ d.seq >= client[m].floor
                       /\ job[m].best = NoDocument \/ Newer(d, job[m].best)
             read == IF d # NoDocument THEN job[m].read \cup {d} ELSE job[m].read
             best == IF better THEN d ELSE job[m].best
             pos == job[m].pos + 1
  <1>1. /\ job[m] \in Job /\ job[m].pos \in 1..Stores /\ pos \in 1..Stores + 1
        /\ job[m].best \in Document /\ job[m].read \subseteq Document
        /\ job[m].addr \in OptAddr /\ job[m].now \in Nat
    <2>1. job[m].pos \in 1..Stores + 1 /\ job[m].pos <= Stores /\ Stores \in Nat
      BY JobFacts, Before, DirectoryAssumption DEF IInv
    <2>2. job[m].pos \in 1..Stores /\ pos \in 1..Stores + 1
      BY <2>1
    <2> QED
      BY <2>2, JobFacts DEF IInv
  <1>2. d \in Document
    BY <1>1 DEF IInv, TypeOK
  <1>3. /\ d.peers \subseteq claimed /\ job[m].best.peers \subseteq claimed
        /\ \A e \in job[m].read : e.peers \subseteq claimed
        /\ job[m].best = NoDocument \/ job[m].best.seq >= client[m].floor
    BY <1>1, Before
  <1>4. /\ read \subseteq Document /\ best \in Document /\ best.peers \subseteq claimed
        /\ \A e \in read : e.peers \subseteq claimed
        /\ best = NoDocument \/ best.seq >= client[m].floor
    BY <1>1, <1>2, <1>3
  <1>5. Answer(m) = [job[m] EXCEPT !.pos = pos, !.answered = TRUE, !.read = read, !.best = best]
    BY <1>1 DEF Answer, Job
  <1>p. pos = job[m].pos + 1
    OBVIOUS
  <1> HIDE DEF d, better, read, best, pos
  <1>6. CASE j = Answer(m)
    <2>1. /\ j.pc = "fetch" /\ j.pos = pos /\ j.read = read /\ j.best = best
          /\ j.addr = job[m].addr /\ j.now = job[m].now /\ j.doc = job[m].doc
      BY <1>1, <1>5, <1>6 DEF Job
    <2>2. j \in Job
      BY <1>1, <1>4, <1>5, <1>6 DEF Job
    <2> QED
      BY <1>1, <1>p, <1>4, <2>1, <2>2
  <1>7. CASE j = [job[m] EXCEPT !.pos = @ + 1]
    <2>1. j = [job[m] EXCEPT !.pos = pos]
      BY <1>1, <1>7 DEF Job, pos
    <2> QED
      BY <1>1, <1>3, <2>1 DEF Job, pos
  <1> QED
    BY <1>6, <1>7

\* One member's job and client change, with the clock, the addresses and the
\* documents as they were.
LEMMA ConcludeStep ==
  ASSUME IInv, NEW m \in Member, NEW j \in Job, Conclude(m, j), j.pc = "fetch",
         UNCHANGED <<time, addr, store>>, j.addr \in OptAddr, j.now \in Nat,
         j.doc = job[m].doc, j.best.peers \subseteq claimed,
         \A d \in j.read : d.peers \subseteq claimed,
         j.best = NoDocument \/ j.best.seq >= client[m].floor
  PROVE  IInv'
  <1> DEFINE c == Accepted(client[m], j)
             doc == NextDocument(m, c, j)
             j2 == [j EXCEPT !.pc = "publish", !.pos = 1, !.doc = doc]
  <1>1. /\ job \in [Member -> Job] /\ time \in Nat /\ addr \in [Member -> OptAddr]
        /\ store \in [1..Stores -> Document] /\ claimed \subseteq PeerRecord
        /\ client \in [Member -> Client] /\ j.best \in Document
    BY DEF IInv, TypeOK, Job
  <1>2. /\ c \in Client /\ c.latest.seq = c.floor /\ c.latest.peers \subseteq claimed
        /\ c.latest \in Document /\ c.floor \in Nat
    <2>1. /\ client[m] \in Client /\ client[m].floor \in Nat /\ client[m].latest \in Document
          /\ client[m].latest.peers \subseteq claimed /\ client[m].latest.seq = client[m].floor
      BY ClientFacts, Before DEF IInv
    <2>2. CASE j.best = NoDocument
      <3>1. c = client[m]
        BY <2>2 DEF Accepted
      <3> QED
        BY <2>1, <3>1
    <2>3. CASE j.best # NoDocument
      <3>1. j.best.seq \in Nat /\ j.best.seq >= client[m].floor
        BY <1>1, <2>3 DEF Document
      <3>2. (IF client[m].floor > j.best.seq THEN client[m].floor ELSE j.best.seq) = j.best.seq
        BY <2>1, <3>1
      <3>3. c = [client[m] EXCEPT !.latest = j.best, !.floor = j.best.seq]
        BY <2>1, <2>3, <3>2 DEF Accepted, Client
      <3> QED
        BY <1>1, <2>1, <3>1, <3>3 DEF Client
    <2> QED
      BY <2>2, <2>3
  <1> HIDE DEF c
  <1>3. client' = [client EXCEPT ![m] = c]
    BY DEF Conclude, c
  <1>4. /\ \A i \in 1..Stores : store[i].peers \subseteq claimed
        /\ NoDocument.peers \subseteq claimed
    BY Before, NoDocumentFacts
  <1>5. CASE Due(m, c, j)
    <2>1. MyRecord(m, j) \in PeerRecord
      BY <1>5 DEF MyRecord, PeerRecord, Due, OptAddr
    <2>2. claimed' = claimed \cup {MyRecord(m, j)} /\ job' = [job EXCEPT ![m] = j2]
      BY <1>5 DEF Conclude, c
    <2>3. doc.seq = c.floor + 1 /\ doc.issued = j.now /\ doc.peers \subseteq claimed'
      BY <1>2, <2>2 DEF NextDocument
    <2>4. claimed' \subseteq PeerRecord /\ claimed \subseteq claimed'
      BY <1>1, <2>1, <2>2
    <2>5. doc \in Document
      <3>1. doc.peers \subseteq PeerRecord /\ c.floor + 1 \in Nat
        BY <1>2, <2>3, <2>4
      <3>2. doc = [seq |-> doc.seq, issued |-> doc.issued, peers |-> doc.peers]
        BY DEF NextDocument
      <3> QED
        BY <2>3, <3>1, <3>2 DEF Document
    <2>6. doc.seq > c.floor
      BY <1>2, <2>3
    <2> HIDE DEF doc
    <2>7. 1 \in 1..Stores + 1 /\ 1 <= Stores
      BY DirectoryAssumption
    <2>8. /\ j2 \in Job /\ j2.pc = "publish" /\ j2.pos = 1 /\ j2.doc = doc
          /\ j2.best = j.best /\ j2.read = j.read
      BY <2>5, <2>7 DEF Job
    <2> HIDE DEF j2
    <2>9. job'[m] = j2 /\ job' \in [Member -> Job] /\ \A n \in Member \ {m} : job'[n] = job[n]
      BY <1>1, <2>2, <2>8
    <2>10. /\ c.latest.peers \subseteq claimed' /\ j2.best.peers \subseteq claimed'
           /\ j2.doc.peers \subseteq claimed' /\ \A d \in j2.read : d.peers \subseteq claimed'
           /\ \A i \in 1..Stores : store'[i].peers \subseteq claimed'
      BY <1>2, <1>4, <2>3, <2>4, <2>8
    <2>11. /\ time' \in Nat /\ addr' \in [Member -> OptAddr]
           /\ store' \in [1..Stores -> Document]
      BY <1>1
    <2> QED
      BY <1>2, <1>3, <2>4, <2>6, <2>7, <2>8, <2>9, <2>10, <2>11, MemberStep
  <1>6. CASE ~Due(m, c, j)
    <2>1. UNCHANGED claimed /\ job' = [job EXCEPT ![m] = NoJob]
      BY <1>6 DEF Conclude, c
    <2>2. job'[m] = NoJob /\ job' \in [Member -> Job] /\ \A n \in Member \ {m} : job'[n] = job[n]
      BY <1>1, <2>1, NoJobFacts
    <2>3. /\ \A i \in 1..Stores : store'[i].peers \subseteq claimed'
          /\ c.latest.peers \subseteq claimed' /\ NoDocument.peers \subseteq claimed'
          /\ claimed \subseteq claimed' /\ claimed' \subseteq PeerRecord
      BY <1>1, <1>2, <1>4, <2>1
    <2>4. /\ time' \in Nat /\ addr' \in [Member -> OptAddr]
          /\ store' \in [1..Stores -> Document]
      BY <1>1
    <2> QED
      BY <1>2, <1>3, <2>2, <2>3, <2>4, NoJobFacts, MemberStep
  <1> QED
    BY <1>5, <1>6

LEMMA FetchStep ==
  ASSUME IInv, NEW m \in Member, Fetch(m) PROVE IInv'
  <1>1. job[m].pc = "fetch" /\ UNCHANGED <<time, addr, store>>
    BY DEF Fetch
  <1>2. PICK j \in {Answer(m)} \cup IF Unsettled THEN {[job[m] EXCEPT !.pos = @ + 1]} ELSE {} :
          IF j.pos > Stores THEN Conclude(m, j)
          ELSE job' = [job EXCEPT ![m] = j] /\ UNCHANGED <<client, claimed>>
    BY DEF Fetch
  <1>3. /\ j \in Job /\ j.pc = "fetch" /\ j.addr \in OptAddr /\ j.now \in Nat
        /\ j.pos = job[m].pos + 1 /\ j.doc = job[m].doc
        /\ j.best.peers \subseteq claimed /\ \A d \in j.read : d.peers \subseteq claimed
        /\ j.best = NoDocument \/ j.best.seq >= client[m].floor
    BY <1>1, FetchFacts
  <1>4. CASE j.pos > Stores
    BY <1>1, <1>2, <1>3, <1>4, ConcludeStep
  <1>5. CASE ~(j.pos > Stores)
    <2>1. /\ job \in [Member -> Job] /\ time \in Nat /\ addr \in [Member -> OptAddr]
          /\ store \in [1..Stores -> Document] /\ claimed \subseteq PeerRecord
          /\ client \in [Member -> Client]
      BY DEF IInv, TypeOK
    <2>2. /\ job' = [job EXCEPT ![m] = j] /\ UNCHANGED <<client, claimed>>
      BY <1>2, <1>5
    <2>3. job'[m] = j /\ job' \in [Member -> Job] /\ \A n \in Member \ {m} : job'[n] = job[n]
      BY <1>3, <2>1, <2>2
    <2>4. client[m] \in Client /\ client' = [client EXCEPT ![m] = client[m]]
      BY <2>1, <2>2
    <2>5. j.pos <= Stores
      <3>1. job[m].pos \in Nat /\ Stores \in Nat
        BY JobFacts, DirectoryAssumption DEF IInv
      <3> QED
        BY <1>3, <1>5, <3>1
    <2>6. /\ \A i \in 1..Stores : store'[i].peers \subseteq claimed'
          /\ client[m].latest.peers \subseteq claimed' /\ client[m].latest.seq = client[m].floor
          /\ j.doc.peers \subseteq claimed'
      BY <1>1, <1>3, <2>2, Before
    <2>7. /\ time' \in Nat /\ addr' \in [Member -> OptAddr] /\ store' \in [1..Stores -> Document]
          /\ claimed \subseteq claimed' /\ claimed' \subseteq PeerRecord
          /\ j.best.peers \subseteq claimed' /\ \A d \in j.read : d.peers \subseteq claimed'
      BY <1>1, <1>3, <2>1, <2>2
    <2> QED
      BY <1>3, <2>3, <2>4, <2>5, <2>6, <2>7, MemberStep
  <1> QED
    BY <1>4, <1>5

LEMMA PublishStep ==
  ASSUME IInv, NEW m \in Member, Publish(m) PROVE IInv'
  <1>1. PICK stored \in BOOLEAN, ok \in BOOLEAN :
          LET j == [job[m] EXCEPT !.pos = @ + 1, !.ok = @ \/ ok] IN
          /\ store' = IF stored THEN [store EXCEPT ![job[m].pos] = j.doc] ELSE store
          /\ job' = [job EXCEPT ![m] = IF j.pos > Stores THEN NoJob ELSE j]
          /\ client' = IF j.pos > Stores /\ j.ok
                       THEN [client EXCEPT ![m] = [floor |-> j.doc.seq, latest |-> j.doc,
                                                   lastAddr |-> j.addr, lastAt |-> j.now]]
                       ELSE client
    BY DEF Publish
  <1> DEFINE ok2 == job[m].ok \/ ok
             j == [job[m] EXCEPT !.pos = @ + 1, !.ok = @ \/ ok]
             k == IF j.pos > Stores THEN NoJob ELSE j
             mine == [floor |-> job[m].doc.seq, latest |-> job[m].doc,
                      lastAddr |-> job[m].addr, lastAt |-> job[m].now]
             c == IF j.pos > Stores /\ j.ok THEN mine ELSE client[m]
  <1>2. job[m].pc = "publish" /\ UNCHANGED <<time, addr, claimed>>
    BY DEF Publish
  <1>3. /\ job \in [Member -> Job] /\ time \in Nat /\ addr \in [Member -> OptAddr]
        /\ store \in [1..Stores -> Document] /\ claimed \subseteq PeerRecord
        /\ client \in [Member -> Client]
    BY DEF IInv, TypeOK
  <1>4. /\ job[m] \in Job /\ job[m].pos \in Nat /\ job[m].pos >= 1 /\ job[m].pos <= Stores
        /\ Stores \in Nat /\ job[m].now \in Nat /\ job[m].addr \in OptAddr
        /\ job[m].doc \in Document /\ job[m].ok \in BOOLEAN
    BY <1>2, JobFacts, Before, DirectoryAssumption DEF IInv
  <1>5. /\ job[m].doc.peers \subseteq claimed /\ job[m].doc.seq > client[m].floor
        /\ job[m].doc.seq \in Nat /\ job[m].best.peers \subseteq claimed
        /\ \A d \in job[m].read : d.peers \subseteq claimed
        /\ client[m].latest.peers \subseteq claimed /\ client[m].latest.seq = client[m].floor
        /\ \A i \in 1..Stores : store[i].peers \subseteq claimed
    BY <1>2, <1>4, Before DEF Document
  <1>6. job[m].pos + 1 \in 1..Stores + 1
    BY <1>4
  <1>7. ok2 \in BOOLEAN
    BY Zenon
  <1>8. j = [job[m] EXCEPT !.pos = job[m].pos + 1, !.ok = ok2]
    OBVIOUS
  <1> HIDE DEF ok2
  <1>9. /\ j \in Job /\ j.pc = "publish" /\ j.pos = job[m].pos + 1 /\ j.doc = job[m].doc
        /\ j.best = job[m].best /\ j.read = job[m].read /\ j.addr = job[m].addr
        /\ j.now = job[m].now
    <2> HIDE DEF j
    <2> QED
      BY <1>2, <1>4, <1>6, <1>7, <1>8 DEF Job
  <1>10. store' = IF stored THEN [store EXCEPT ![job[m].pos] = job[m].doc] ELSE store
    BY <1>1, <1>9
  <1>11. job' = [job EXCEPT ![m] = k]
    BY <1>1
  <1>12. client' = [client EXCEPT ![m] = c]
    <2>1. client = [client EXCEPT ![m] = client[m]]
      BY <1>3
    <2>2. [floor |-> j.doc.seq, latest |-> j.doc, lastAddr |-> j.addr, lastAt |-> j.now] = mine
      BY <1>9
    <2>3. client' = IF j.pos > Stores /\ j.ok THEN [client EXCEPT ![m] = mine] ELSE client
      BY <1>1, <2>2
    <2> HIDE DEF j, mine
    <2> QED
      BY <2>1, <2>3
  <1> HIDE DEF j
  <1>13. /\ mine \in Client /\ mine.latest = job[m].doc /\ mine.floor = job[m].doc.seq
    BY <1>4, <1>5 DEF Client
  <1> HIDE DEF mine
  <1>14. /\ c \in Client /\ c.latest.seq = c.floor /\ c.latest.peers \subseteq claimed
         /\ ~(j.pos > Stores) => c = client[m]
    BY <1>3, <1>5, <1>13
  <1>15. /\ k \in Job /\ k.best.peers \subseteq claimed /\ k.doc.peers \subseteq claimed
         /\ \A d \in k.read : d.peers \subseteq claimed
         /\ k.pc \in {"idle", "publish"}
         /\ k.pc # "idle" => k = j /\ ~(j.pos > Stores)
    BY <1>5, <1>9, NoJobFacts, NoDocumentFacts
  <1>16. k.pc # "idle" => k.pos <= Stores
    BY <1>4, <1>9, <1>15
  <1>17. k.pc = "publish" => k.doc.seq > c.floor
    BY <1>5, <1>9, <1>14, <1>15
  <1> HIDE DEF k, c
  <1>18. job'[m] = k /\ job' \in [Member -> Job] /\ \A n \in Member \ {m} : job'[n] = job[n]
    BY <1>3, <1>11, <1>15
  <1>19. /\ store' \in [1..Stores -> Document]
         /\ \A i \in 1..Stores : store'[i].peers \subseteq claimed'
    BY <1>2, <1>3, <1>4, <1>5, <1>10
  <1>20. /\ c.latest.peers \subseteq claimed' /\ k.best.peers \subseteq claimed'
         /\ k.doc.peers \subseteq claimed' /\ \A d \in k.read : d.peers \subseteq claimed'
         /\ claimed \subseteq claimed' /\ claimed' \subseteq PeerRecord
         /\ time' \in Nat /\ addr' \in [Member -> OptAddr]
    BY <1>2, <1>3, <1>14, <1>15
  <1> QED
    BY <1>12, <1>14, <1>15, <1>16, <1>17, <1>18, <1>19, <1>20, MemberStep

LEMMA NextIInv ==
  ASSUME IInv, [Next]_vars PROVE IInv'
  <1>1. time \in Nat /\ addr \in [Member -> OptAddr]
    BY DEF IInv, TypeOK
  <1>2. CASE Tick
    BY <1>1, <1>2, QuietStep DEF Tick
  <1>3. CASE UNCHANGED vars
    BY <1>1, <1>3, QuietStep DEF vars
  <1>4. ASSUME NEW m \in Member, Move(m) PROVE IInv'
    BY <1>1, <1>4, QuietStep DEF Move
  <1> QED
    BY <1>2, <1>3, <1>4, RestartStep, SyncStep, FetchStep, PublishStep DEF Next, Step

LEMMA AlwaysIInv == Spec => []IInv
  <1>1. IInv /\ [Next]_vars => IInv'
    BY NextIInv
  <1> QED
    BY <1>1, InitIInv, PTL DEF Spec

\* Every document, job and client keeps its type.
THEOREM TypeCorrect == Spec => []TypeOK
  <1>1. IInv => TypeOK
    BY DEF IInv
  <1> QED
    BY <1>1, AlwaysIInv, PTL

\* Every record of every document, wherever it is stored or held, was made by
\* the member it is about.
THEOREM CarriedUnchangedHolds == Spec => []CarriedUnchanged
  <1>1. IInv => CarriedUnchanged
    BY DEF IInv
  <1> QED
    BY <1>1, AlwaysIInv, PTL

\* A client's floor is the number of the document it goes by, and it publishes
\* above its floor.
THEOREM FloorSoundHolds == Spec => []FloorSound
  <1>1. IInv => FloorSound
    BY DEF IInv
  <1> QED
    BY <1>1, AlwaysIInv, PTL

-----------------------------------------------------------------------------

LEMMA AcceptedFloor ==
  ASSUME IInv, NEW m \in Member, NEW j \in Job
  PROVE  Accepted(client[m], j).floor >= client[m].floor
  <1>1. client[m] \in Client /\ client[m].floor \in Nat
    BY ClientFacts DEF IInv
  <1>2. j.best.seq \in Nat
    BY DEF Job, Document
  <1>3. CASE j.best = NoDocument
    BY <1>1, <1>3 DEF Accepted
  <1>4. CASE j.best # NoDocument
    <2>1. Accepted(client[m], j).floor =
            IF client[m].floor > j.best.seq THEN client[m].floor ELSE j.best.seq
      BY <1>1, <1>4 DEF Accepted, Client
    <2> QED
      BY <1>1, <1>2, <2>1
  <1> QED
    BY <1>3, <1>4

LEMMA NextFloor ==
  ASSUME IInv, [Next]_vars, NEW m \in Member, ~Restart(m)
  PROVE  client'[m].floor >= client[m].floor
  <1>1. client \in [Member -> Client] /\ client[m].floor \in Nat
    BY ClientFacts DEF IInv, TypeOK
  <1>2. CASE UNCHANGED client
    BY <1>1, <1>2
  <1>3. ASSUME NEW n \in Member, Restart(n) PROVE client'[m].floor >= client[m].floor
    <2>1. n # m
      BY <1>3
    <2>2. client'[m] = client[m]
      BY <1>1, <1>3, <2>1 DEF Restart
    <2> QED
      BY <1>1, <2>2
  <1>4. ASSUME NEW n \in Member, Fetch(n) PROVE client'[m].floor >= client[m].floor
    <2>1. job[n].pc = "fetch"
      BY <1>4 DEF Fetch
    <2>2. PICK j \in {Answer(n)} \cup IF Unsettled THEN {[job[n] EXCEPT !.pos = @ + 1]} ELSE {} :
            IF j.pos > Stores THEN Conclude(n, j)
            ELSE job' = [job EXCEPT ![n] = j] /\ UNCHANGED <<client, claimed>>
      BY <1>4 DEF Fetch
    <2>3. j \in Job
      BY <2>1, FetchFacts
    <2>4. UNCHANGED client \/ client' = [client EXCEPT ![n] = Accepted(client[n], j)]
      BY <2>2 DEF Conclude
    <2>5. CASE n = m /\ client' = [client EXCEPT ![n] = Accepted(client[n], j)]
      <3>1. client'[m] = Accepted(client[m], j)
        BY <1>1, <2>5
      <3> QED
        BY <2>3, <3>1, AcceptedFloor
    <2>6. CASE n # m \/ UNCHANGED client
      <3>1. client'[m] = client[m]
        BY <1>1, <2>4, <2>6
      <3> QED
        BY <1>1, <3>1
    <2> QED
      BY <2>4, <2>5, <2>6
  <1>5. ASSUME NEW n \in Member, Publish(n) PROVE client'[m].floor >= client[m].floor
    <2>1. job[n].pc = "publish" /\ job[n] \in Job
      BY <1>5, JobFacts DEF Publish, IInv
    <2>2. job[n].doc.seq > client[n].floor /\ client[n].floor \in Nat /\ job[n].doc.seq \in Nat
      BY <2>1, Before, ClientFacts, JobFacts DEF IInv, Document
    <2>3. PICK ok \in BOOLEAN :
            LET j == [job[n] EXCEPT !.pos = @ + 1, !.ok = @ \/ ok] IN
            client' = IF j.pos > Stores /\ j.ok
                      THEN [client EXCEPT ![n] = [floor |-> j.doc.seq, latest |-> j.doc,
                                                  lastAddr |-> j.addr, lastAt |-> j.now]]
                      ELSE client
      BY <1>5 DEF Publish
    <2> DEFINE j == [job[n] EXCEPT !.pos = @ + 1, !.ok = @ \/ ok]
               c == [floor |-> j.doc.seq, latest |-> j.doc, lastAddr |-> j.addr, lastAt |-> j.now]
    <2>4. client' = [client EXCEPT ![n] = c] \/ UNCHANGED client
      BY <2>3
    <2>5. c.floor = j.doc.seq
      OBVIOUS
    <2>6. j.doc = job[n].doc
      BY <2>1 DEF Job
    <2> HIDE DEF c, j
    <2>7. c.floor >= client[n].floor
      BY <2>2, <2>5, <2>6
    <2> QED
      BY <1>1, <2>4, <2>7
  <1> QED
    BY <1>2, <1>3, <1>4, <1>5 DEF Next, Step, vars, Tick, Move, Sync

\* The anti-rollback floor of a client that is not restarted never goes back,
\* whatever the services return.
THEOREM FloorMonotoneHolds == Spec => FloorMonotone
  <1>1. IInv /\ [Next]_vars => [\A m \in Member : ~Restart(m) => client'[m].floor >= client[m].floor]_vars
    BY NextFloor
  <1> QED
    BY <1>1, AlwaysIInv, PTL DEF Spec, FloorMonotone

-----------------------------------------------------------------------------
(* Members that are in the newest document read are kept.                   *)

\* MembershipKept for one member.
Keeps(m, j, c) ==
  j.pc = "publish" =>
    \A d \in j.read :
      d.seq >= c.floor /\ (\A e \in j.read \ {d} : Newer(d, e)) =>
        \A r \in d.peers : r.vip # m /\ IsFresh(r, j.now) => r \in j.doc.peers

LEMMA KeepsAll == MembershipKept <=> \A m \in Member : Keeps(m, job[m], client[m])
  BY DEF MembershipKept, Keeps

LEMMA KeepsAllNext ==
  ASSUME \A m \in Member : Keeps(m, job'[m], client'[m])
  PROVE  MembershipKept'
  BY DEF MembershipKept, Keeps

\* KInv, for one member.
LEMMA KeptOf ==
  ASSUME KInv, NEW m \in Member
  PROVE  /\ job[m].pc # "idle" => job[m].now <= Clock(m) /\ Clock(m) <= job[m].now + MaxSync
         /\ job[m].pc = "publish" => job[m].doc.issued = job[m].now
         /\ job[m].pc = "fetch" => IsBest(job[m], client[m].floor)
         /\ Keeps(m, job[m], client[m])
  BY KeepsAll DEF KInv, Timed, BestRead, Busy

\* Every step but the clock's is one member's.
LEMMA MemberKept ==
  ASSUME IInv, KInv, NEW m \in Member, time' = time,
         \A n \in Member \ {m} :
           /\ client'[n] = client[n]
           /\ job'[n].pc = job[n].pc /\ job'[n].best = job[n].best /\ job'[n].doc = job[n].doc
           /\ job'[n].read = job[n].read /\ job'[n].now = job[n].now,
         \A i \in 1..Stores : InTime(store'[i]),
         job'[m].pc # "idle" =>
           job'[m].now <= Clock(m) /\ Clock(m) <= job'[m].now + MaxSync,
         job'[m].pc = "publish" => job'[m].doc.issued = job'[m].now,
         job'[m].pc = "fetch" => IsBest(job'[m], client'[m].floor),
         Keeps(m, job'[m], client'[m])
  PROVE  KInv'
  <1>1. ASSUME NEW n \in Member
        PROVE  /\ job'[n].pc # "idle" =>
                    job'[n].now <= Clock(n) /\ Clock(n) <= job'[n].now + MaxSync
               /\ job'[n].pc = "publish" => job'[n].doc.issued = job'[n].now
               /\ job'[n].pc = "fetch" => IsBest(job'[n], client'[n].floor)
               /\ Keeps(n, job'[n], client'[n])
    <2>1. CASE n = m
      BY <2>1
    <2>2. CASE n # m
      BY <2>2, KeptOf DEF IsBest, Keeps
    <2> QED
      BY <2>1, <2>2
  <1>2. \A d : InTime(d)' <=> d'.issued <= time \/ \E n \in Member : d'.issued <= Clock(n)
    BY DEF InTime, Clock
  <1>3. Timed'
    BY <1>1, <1>2 DEF Timed, InTime, Busy, Clock
  <1>4. BestRead'
    BY <1>1 DEF BestRead, IsBest, Newer
  <1>5. MembershipKept'
    BY <1>1, KeepsAllNext
  <1> QED
    BY <1>3, <1>4, <1>5 DEF KInv

\* A document that a service has is not from the future.
LEMMA StoredIsValid ==
  ASSUME ClocksAgree, IInv, KInv, NEW m \in Member, Busy(m), NEW i \in 1..Stores
  PROVE  Valid(store[i], job[m].now)
  <1>1. /\ store[i].issued \in Nat /\ time \in Nat /\ job[m].now \in Nat
        /\ \A n \in Member : Ahead[n] \in Nat
        /\ MaxSync \in Nat /\ ClockSkew \in Nat
    BY JobFacts, DirectoryAssumption DEF IInv, TypeOK, Document
  <1>2. time + Ahead[m] <= job[m].now + MaxSync /\ InTime(store[i])
    BY DEF KInv, Timed, Clock
  <1>3. \A n \in Member : MaxSync + Ahead[n] <= Ahead[m] + ClockSkew
    BY DEF ClocksAgree
  <1>4. CASE store[i].issued <= time
    <2>1. MaxSync + Ahead[m] <= Ahead[m] + ClockSkew
      BY <1>3
    <2> QED
      BY <1>1, <1>2, <1>4, <2>1 DEF Valid
  <1>5. ASSUME NEW n \in Member, store[i].issued <= time + Ahead[n]
        PROVE  store[i].issued <= job[m].now + ClockSkew
    <2>1. MaxSync + Ahead[n] <= Ahead[m] + ClockSkew /\ Ahead[n] \in Nat /\ Ahead[m] \in Nat
      BY <1>1, <1>3
    <2> QED
      BY <1>1, <1>2, <1>5, <2>1
  <1> QED
    BY <1>2, <1>4, <1>5 DEF InTime, Valid, Clock

LEMMA NewerFacts ==
  ASSUME NEW d \in Document, NEW e \in Document, NEW f \in Document
  PROVE  /\ ~Newer(d, d)
         /\ Newer(d, e) /\ ~Newer(f, e) => ~Newer(f, d)
  BY DEF Newer, Document

\* An answer that is better replaces the best, and one that is not is not newer.
LEMMA AnswerIsBest ==
  ASSUME ClocksAgree, IInv, KInv, NEW m \in Member, job[m].pc = "fetch",
         NEW j \in {Answer(m)} \cup IF Unsettled THEN {[job[m] EXCEPT !.pos = @ + 1]} ELSE {}
  PROVE  IsBest(j, client[m].floor) /\ j.now = job[m].now
  <1> DEFINE d == store[job[m].pos]
             floor == client[m].floor
             better == /\ d # NoDocument /\ Valid(d, job[m].now) /\ d.seq >= floor
                       /\ job[m].best = NoDocument \/ Newer(d, job[m].best)
  <1>1. /\ job[m] \in Job /\ job[m].pos \in 1..Stores
        /\ job[m].best \in Document /\ job[m].read \subseteq Document
        /\ floor \in Nat /\ job[m].pos \in Nat
    BY JobFacts, ClientFacts, Before, DirectoryAssumption DEF IInv
  <1>2. d \in Document /\ Valid(d, job[m].now)
    BY <1>1, StoredIsValid DEF IInv, TypeOK, Busy
  <1>3. /\ job[m].best = NoDocument \/ job[m].best \in job[m].read
        /\ \A e \in job[m].read :
             e.seq >= floor => job[m].best # NoDocument /\ ~Newer(e, job[m].best)
    BY KeptOf DEF IsBest
  <1>4. CASE j = [job[m] EXCEPT !.pos = @ + 1]
    <2>1. j.best = job[m].best /\ j.read = job[m].read /\ j.now = job[m].now
      BY <1>1, <1>4 DEF Job
    <2> QED
      BY <1>3, <2>1 DEF IsBest
  <1>5. CASE j = Answer(m)
    <2>1. /\ j.read = (IF d # NoDocument THEN job[m].read \cup {d} ELSE job[m].read)
          /\ j.best = (IF better THEN d ELSE job[m].best) /\ j.now = job[m].now
      BY <1>1, <1>5 DEF Answer, Job
    <2> HIDE DEF d, floor
    <2>2. CASE better
      <3>1. j.best = d /\ j.read = job[m].read \cup {d} /\ d # NoDocument
        BY <2>1, <2>2
      <3>2. ASSUME NEW e \in j.read, e.seq >= floor PROVE ~Newer(e, d)
        <4>1. CASE e = d
          BY <1>2, <4>1, NewerFacts
        <4>2. CASE e \in job[m].read
          <5>1. e \in Document /\ job[m].best # NoDocument /\ ~Newer(e, job[m].best)
            BY <1>1, <1>3, <3>2, <4>2
          <5>2. Newer(d, job[m].best)
            BY <2>2, <5>1
          <5> QED
            BY <1>1, <1>2, <5>1, <5>2, NewerFacts
        <4> QED
          BY <3>1, <3>2, <4>1, <4>2
      <3> QED
        BY <2>1, <3>1, <3>2 DEF IsBest, floor
    <2>3. CASE ~better
      <3>1. j.best = job[m].best /\ j.read \subseteq job[m].read \cup {d}
            /\ job[m].read \subseteq j.read /\ (d \in j.read => d # NoDocument \/ d \in job[m].read)
        BY <2>1, <2>3
      <3>2. d # NoDocument /\ d.seq >= floor =>
              job[m].best # NoDocument /\ ~Newer(d, job[m].best)
        BY <1>2, <2>3
      <3> QED
        BY <1>3, <2>1, <3>1, <3>2 DEF IsBest, floor
    <2> QED
      BY <2>2, <2>3
  <1> QED
    BY <1>4, <1>5

\* The next document has the fresh records of the best one.
LEMMA ConcludeKeeps ==
  ASSUME IInv, NEW m \in Member, NEW j \in Job, IsBest(j, client[m].floor)
  PROVE  LET c == Accepted(client[m], j)
             k == [j EXCEPT !.pc = "publish", !.pos = 1, !.doc = NextDocument(m, c, j)] IN
         /\ Keeps(m, k, c)
         /\ k.pc = "publish" /\ k.now = j.now /\ k.doc.issued = j.now
  <1> DEFINE c == Accepted(client[m], j)
             doc == NextDocument(m, c, j)
             k == [j EXCEPT !.pc = "publish", !.pos = 1, !.doc = doc]
  <1>1. /\ k.pc = "publish" /\ k.now = j.now /\ k.doc = doc /\ k.read = j.read
    BY DEF Job
  <1>2. doc.issued = j.now
        /\ \A r \in c.latest.peers : r.vip # m /\ IsFresh(r, j.now) => r \in doc.peers
    BY DEF NextDocument
  <1>3. ASSUME NEW d \in j.read, d.seq >= c.floor, \A e \in j.read \ {d} : Newer(d, e)
        PROVE  c.latest = d
    <2>1. client[m] \in Client /\ client[m].floor \in Nat /\ c.floor >= client[m].floor
      BY ClientFacts, AcceptedFloor DEF IInv
    <2>2. c.floor \in Nat /\ d.seq \in Nat
      BY <1>3, <2>1 DEF Accepted, Job, Document, Client
    <2>3. d.seq >= client[m].floor
      BY <1>3, <2>1, <2>2
    <2>4. j.best # NoDocument /\ ~Newer(d, j.best) /\ j.best \in j.read
      BY <2>3 DEF IsBest
    <2>5. j.best = d
      BY <1>3, <2>4
    <2>6. c.latest = j.best
      BY <2>1, <2>4 DEF Accepted, Client
    <2> QED
      BY <2>5, <2>6
  <1> HIDE DEF c, doc, k
  <1>4. Keeps(m, k, c)
    BY <1>1, <1>2, <1>3 DEF Keeps
  <1> QED
    BY <1>1, <1>2, <1>4 DEF c, doc, k

LEMMA FetchKept ==
  ASSUME ClocksAgree, IInv, KInv, NEW m \in Member, Fetch(m)
  PROVE  KInv'
  <1>1. /\ job[m].pc = "fetch" /\ UNCHANGED <<time, addr, store>>
        /\ job \in [Member -> Job] /\ client \in [Member -> Client]
    BY DEF Fetch, IInv, TypeOK
  <1>2. PICK j \in {Answer(m)} \cup IF Unsettled THEN {[job[m] EXCEPT !.pos = @ + 1]} ELSE {} :
          IF j.pos > Stores THEN Conclude(m, j)
          ELSE job' = [job EXCEPT ![m] = j] /\ UNCHANGED <<client, claimed>>
    BY DEF Fetch
  <1>3. j \in Job /\ j.pc = "fetch" /\ IsBest(j, client[m].floor) /\ j.now = job[m].now
    BY <1>1, FetchFacts, AnswerIsBest
  <1> DEFINE c == Accepted(client[m], j)
             k == [j EXCEPT !.pc = "publish", !.pos = 1, !.doc = NextDocument(m, c, j)]
  <1>4. \/ /\ job' = [job EXCEPT ![m] = k] \/ job' = [job EXCEPT ![m] = NoJob]
           /\ client' = [client EXCEPT ![m] = c]
        \/ job' = [job EXCEPT ![m] = j] /\ client' = client
    BY <1>2 DEF Conclude
  <1>5. Keeps(m, k, c) /\ k.pc = "publish" /\ k.now = j.now /\ k.doc.issued = j.now
    BY <1>3, ConcludeKeeps
  <1> HIDE DEF c, k
  <1>6. \A n \in Member \ {m} : client'[n] = client[n] /\ job'[n] = job[n]
    BY <1>1, <1>4
  <1>7. \/ job'[m] = k /\ client'[m] = c
        \/ job'[m] = NoJob
        \/ job'[m] = j /\ client'[m] = client[m]
    <2>1. \A f : job' = [job EXCEPT ![m] = f] => job'[m] = f
      BY <1>1
    <2>2. client' = [client EXCEPT ![m] = c] => client'[m] = c
      BY <1>1
    <2> QED
      BY <1>4, <2>1, <2>2
  <1>8. job[m].now <= Clock(m) /\ Clock(m) <= job[m].now + MaxSync
    BY <1>1, KeptOf
  <1>9. /\ job'[m].pc # "idle" => job'[m].now = job[m].now
        /\ job'[m].pc = "publish" => job'[m].doc.issued = job'[m].now
        /\ job'[m].pc = "fetch" => IsBest(job'[m], client'[m].floor)
        /\ Keeps(m, job'[m], client'[m])
    <2>1. CASE job'[m] = k /\ client'[m] = c
      BY <1>3, <1>5, <2>1
    <2>2. CASE job'[m] = NoJob
      BY <2>2, NoJobFacts DEF Keeps
    <2>3. CASE job'[m] = j /\ client'[m] = client[m]
      BY <1>3, <2>3 DEF Keeps
    <2> QED
      BY <1>7, <2>1, <2>2, <2>3
  <1>10. \A i \in 1..Stores : InTime(store'[i])
    BY <1>1 DEF KInv, Timed
  <1> QED
    BY <1>1, <1>6, <1>8, <1>9, <1>10, MemberKept

LEMMA PublishKept ==
  ASSUME IInv, KInv, NEW m \in Member, Publish(m)
  PROVE  KInv'
  <1>1. /\ job[m].pc = "publish" /\ UNCHANGED <<time, addr, claimed>>
        /\ job \in [Member -> Job] /\ job[m] \in Job /\ client \in [Member -> Client]
        /\ store \in [1..Stores -> Document]
    BY DEF Publish, IInv, TypeOK
  <1>2. PICK stored \in BOOLEAN, ok \in BOOLEAN :
          LET j == [job[m] EXCEPT !.pos = @ + 1, !.ok = @ \/ ok] IN
          /\ store' = IF stored THEN [store EXCEPT ![job[m].pos] = j.doc] ELSE store
          /\ job' = [job EXCEPT ![m] = IF j.pos > Stores THEN NoJob ELSE j]
          /\ client' = IF j.pos > Stores /\ j.ok
                       THEN [client EXCEPT ![m] = [floor |-> j.doc.seq, latest |-> j.doc,
                                                   lastAddr |-> j.addr, lastAt |-> j.now]]
                       ELSE client
    BY DEF Publish
  <1> DEFINE j == [job[m] EXCEPT !.pos = @ + 1, !.ok = @ \/ ok]
             mine == [floor |-> j.doc.seq, latest |-> j.doc, lastAddr |-> j.addr, lastAt |-> j.now]
  <1>3. /\ j.pc = "publish" /\ j.doc = job[m].doc /\ j.read = job[m].read /\ j.now = job[m].now
    BY <1>1 DEF Job
  <1>4. /\ store' = (IF stored THEN [store EXCEPT ![job[m].pos] = job[m].doc] ELSE store)
        /\ job' = [job EXCEPT ![m] = NoJob] \/ (job' = [job EXCEPT ![m] = j] /\ client' = client)
        /\ client' = client \/ client' = [client EXCEPT ![m] = mine]
    <2>1. store' = (IF stored THEN [store EXCEPT ![job[m].pos] = j.doc] ELSE store)
      BY <1>2
    <2>2. /\ job' = [job EXCEPT ![m] = IF j.pos > Stores THEN NoJob ELSE j]
          /\ client' = IF j.pos > Stores /\ j.ok THEN [client EXCEPT ![m] = mine] ELSE client
      BY <1>2
    <2> HIDE DEF j, mine
    <2>3. CASE j.pos > Stores
      BY <1>3, <2>1, <2>2, <2>3
    <2>4. CASE ~(j.pos > Stores)
      BY <1>3, <2>1, <2>2, <2>4
    <2> QED
      BY <2>3, <2>4
  <1> HIDE DEF j, mine
  <1>5. \A n \in Member \ {m} : client'[n] = client[n] /\ job'[n] = job[n]
    BY <1>1, <1>4
  <1>6. job'[m] = NoJob \/ (job'[m] = j /\ client'[m] = client[m])
    BY <1>1, <1>4
  <1>7. /\ job[m].now <= Clock(m) /\ Clock(m) <= job[m].now + MaxSync
        /\ job[m].doc.issued = job[m].now /\ Keeps(m, job[m], client[m])
    BY <1>1, KeptOf
  <1>8. /\ job'[m].pc # "idle" => job'[m].now = job[m].now
        /\ job'[m].pc = "publish" => job'[m].doc.issued = job'[m].now
        /\ job'[m].pc # "fetch"
        /\ Keeps(m, job'[m], client'[m])
    <2>1. CASE job'[m] = NoJob
      BY <2>1, NoJobFacts DEF Keeps
    <2>2. CASE job'[m] = j /\ client'[m] = client[m]
      BY <1>1, <1>3, <1>7, <2>2 DEF Keeps
    <2> QED
      BY <1>6, <2>1, <2>2
  <1>9. \A i \in 1..Stores : InTime(store'[i])
    <2>1. InTime(job[m].doc)
      BY <1>7 DEF InTime
    <2>2. \A i \in 1..Stores : store'[i] = job[m].doc \/ store'[i] = store[i]
      BY <1>1, <1>4
    <2> QED
      BY <2>1, <2>2 DEF KInv, Timed, InTime
  <1> QED
    BY <1>1, <1>5, <1>7, <1>8, <1>9, MemberKept

LEMMA SyncKept ==
  ASSUME IInv, KInv, NEW m \in Member, Sync(m)
  PROVE  KInv'
  <1> DEFINE a == IF NearBound(m) THEN NoAddr ELSE addr[m]
             met == IF Timely THEN {k \in Member : Busy(k)} ELSE {}
             j == [NoJob EXCEPT !.pc = "fetch", !.now = Clock(m), !.addr = a, !.met = met]
  <1>1. /\ UNCHANGED <<time, addr, store, client, claimed>> /\ job \in [Member -> Job]
        /\ time \in Nat /\ Ahead[m] \in Nat /\ MaxSync \in Nat
    BY DirectoryAssumption DEF Sync, IInv, TypeOK
  <1>2. job' = [n \in Member |->
             IF n = m THEN j
             ELSE IF Timely /\ Busy(n) THEN [job[n] EXCEPT !.met = @ \cup {m}]
             ELSE job[n]]
    BY DEF Sync
  <1>3. /\ j.pc = "fetch" /\ j.now = Clock(m) /\ j.best = NoDocument /\ j.read = {}
    BY DEF NoJob
  <1> HIDE DEF j
  <1>4. job'[m] = j
    BY <1>2
  <1>5. \A n \in Member \ {m} :
          /\ job'[n].pc = job[n].pc /\ job'[n].best = job[n].best /\ job'[n].doc = job[n].doc
          /\ job'[n].read = job[n].read /\ job'[n].now = job[n].now
    <2> SUFFICES ASSUME NEW n \in Member \ {m}
                 PROVE  /\ job'[n].pc = job[n].pc /\ job'[n].best = job[n].best
                        /\ job'[n].doc = job[n].doc /\ job'[n].read = job[n].read
                        /\ job'[n].now = job[n].now
      OBVIOUS
    <2>1. job[n] \in Job
      BY <1>1
    <2>2. job'[n] = [job[n] EXCEPT !.met = @ \cup {m}] \/ job'[n] = job[n]
      BY <1>2
    <2> QED
      BY <2>1, <2>2 DEF Job
  <1>6. Clock(m) <= Clock(m) /\ Clock(m) <= Clock(m) + MaxSync
    BY <1>1 DEF Clock
  <1>7. IsBest(j, client[m].floor) /\ Keeps(m, j, client[m])
    BY <1>3 DEF IsBest, Keeps
  <1>8. \A i \in 1..Stores : InTime(store'[i])
    <2>1. store' = store
      BY <1>1
    <2> QED
      BY <2>1 DEF KInv, Timed
  <1> QED
    BY <1>1, <1>3, <1>4, <1>5, <1>6, <1>7, <1>8, MemberKept

LEMMA RestartKept ==
  ASSUME IInv, KInv, NEW m \in Member, Restart(m)
  PROVE  KInv'
  <1>1. /\ job' = [job EXCEPT ![m] = NoJob] /\ client' = [client EXCEPT ![m] = NewClient]
        /\ UNCHANGED <<time, addr, store, claimed>>
        /\ job \in [Member -> Job] /\ client \in [Member -> Client]
    BY DEF Restart, IInv, TypeOK
  <1>2. job'[m] = NoJob /\ \A n \in Member \ {m} : job'[n] = job[n] /\ client'[n] = client[n]
    BY <1>1
  <1>3. \A i \in 1..Stores : InTime(store'[i])
    BY <1>1 DEF KInv, Timed
  <1> QED
    BY <1>1, <1>2, <1>3, NoJobFacts, MemberKept DEF Keeps

LEMMA TickKept ==
  ASSUME IInv, KInv, Tick
  PROVE  KInv'
  <1>1. /\ UNCHANGED <<addr, store, client, job, claimed>> /\ time' = time + 1 /\ time \in Nat
        /\ \A m \in Member : Ahead[m] \in Nat /\ job[m].now \in Nat
        /\ MaxSync \in Nat /\ \A i \in 1..Stores : store[i].issued \in Nat
    BY JobFacts, DirectoryAssumption DEF Tick, IInv, TypeOK, Document
  <1>2. ASSUME NEW i \in 1..Stores PROVE InTime(store[i])'
    BY <1>1, <1>2 DEF KInv, Timed, InTime, Clock
  <1>3. ASSUME NEW m \in Member
        PROVE  /\ Busy(m)' => (job[m].now <= Clock(m) /\ Clock(m) <= job[m].now + MaxSync)'
               /\ (job[m].pc = "publish" => job[m].doc.issued = job[m].now)'
    <2>1. Busy(m) => Clock(m) < job[m].now + MaxSync /\ job[m].now <= Clock(m)
      BY DEF Tick, KInv, Timed
    <2>2. Ahead[m] \in Nat /\ job[m].now \in Nat
      BY <1>1
    <2> QED
      BY <1>1, <2>1, <2>2, KeptOf DEF Busy, Clock
  <1>4. BestRead' /\ MembershipKept'
    BY <1>1 DEF KInv, BestRead, MembershipKept, IsBest
  <1> QED
    BY <1>2, <1>3, <1>4 DEF KInv, Timed

\* Nobody who is fresh in the newest document read is left out of the next one
\* (client.rs publish_if_due), if clocks differ by no more than is tolerated.
THEOREM MembershipKeptHolds == ASSUME ClocksAgree PROVE Spec => []MembershipKept
  <1>1. Init => KInv
    <2> SUFFICES ASSUME Init PROVE KInv
      OBVIOUS
    <2>1. NoDocument.issued = 0 /\ time \in Nat /\ 0 <= time
      BY DEF Init, NoDocument
    <2>2. Timed
      BY <2>1, NoJobFacts DEF Init, Timed, InTime, Busy
    <2>3. BestRead /\ MembershipKept
      BY NoJobFacts DEF Init, BestRead, MembershipKept
    <2> QED
      BY <2>2, <2>3 DEF KInv
  <1>2. IInv /\ KInv /\ [Next]_vars => KInv'
    <2> SUFFICES ASSUME IInv, KInv, [Next]_vars PROVE KInv'
      OBVIOUS
    <2>1. ASSUME NEW m \in Member, Move(m) PROVE KInv'
      BY <2>1
      DEF Move, KInv, Timed, InTime, Clock, Busy, BestRead, IsBest, MembershipKept
    <2>2. CASE UNCHANGED vars
      BY <2>2
      DEF vars, KInv, Timed, InTime, Clock, Busy, BestRead, IsBest, MembershipKept
    <2> QED
      BY <2>1, <2>2, TickKept, RestartKept, SyncKept, FetchKept, PublishKept DEF Next, Step
  <1>3. KInv => MembershipKept
    BY DEF KInv
  <1> QED
    BY <1>1, <1>2, <1>3, AlwaysIInv, PTL DEF Spec
=============================================================================
