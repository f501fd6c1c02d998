----------------------------- MODULE SetupProofs -----------------------------
(***************************************************************************)
(* Theorems of Setup, for any people, addresses, networks and interruptions; *)
(* those about what a failure leaves for services that answer a claim with *)
(* a well-formed key.                                                      *)
(***************************************************************************)
EXTENDS Setup, WellFoundedInduction, TLAPS

LEMMA Distinct ==
  /\ Nothing.net = 0
  /\ \A n \in 1..MaxNets, v \in 1..Host :
       /\ ConfigOf(n, v) \in Config /\ ConfigOf(n, v) # Nothing
       /\ ConfigOf(n, v).net = n /\ ConfigOf(n, v).vip = v
  /\ \A n \in 1..MaxNets, k \in BOOLEAN :
       /\ DirOf(n, k) \in DirectorySettings /\ DirOf(n, k) # Nothing
       /\ DirOf(n, k).net = n /\ DirOf(n, k).key = k
  BY SetupAssumption DEF Nothing, ConfigOf, DirOf, Config, DirectorySettings

LEMMA ConfigFacts ==
  ASSUME NEW n \in 1..MaxNets, NEW v \in 1..Host
  PROVE  ConfigOf(n, v) # Nothing /\ ConfigOf(n, v).net = n /\ ConfigOf(n, v).vip = v
  BY Distinct

LEMMA DirFacts ==
  ASSUME NEW n \in 1..MaxNets, NEW k \in BOOLEAN
  PROVE  DirOf(n, k) # Nothing /\ DirOf(n, k).net = n /\ DirOf(n, k).key = k
  BY Distinct

LEMMA NothingFacts ==
  /\ Nothing \in Config /\ Nothing \in DirectorySettings
  /\ \A c \in Config : c # Nothing => c.net \in 1..MaxNets /\ c.vip \in 1..Host
  /\ \A d \in DirectorySettings : d # Nothing => d.net \in 1..MaxNets /\ d.key \in BOOLEAN
  BY DEF Config, DirectorySettings

LEMMA FolderFacts ==
  ASSUME TypeOK, NEW p \in Person
  PROVE  /\ disk[p] \in Folder
         /\ disk[p].cfg \in Config /\ disk[p].dir \in DirectorySettings
         /\ disk[p].cfgTmp \in Config /\ disk[p].dirTmp \in DirectorySettings
  BY DEF TypeOK, Folder

LEMMA EmptyFacts ==
  /\ EmptyFolder \in Folder /\ EmptyFolder.cfg = Nothing /\ EmptyFolder.dir = Nothing
  /\ EmptyFolder.cfgTmp = Nothing /\ EmptyFolder.dirTmp = Nothing
  BY NothingFacts DEF EmptyFolder, Folder

LEMMA JobFacts ==
  ASSUME TypeOK, NEW p \in Person
  PROVE  /\ job[p] \in Job /\ job[p].pc \in Pc /\ job[p].create \in BOOLEAN
         /\ job[p].net \in 0..MaxNets /\ job[p].vip \in 0..Host
         /\ job[p].key \in {"none", "good", "bad"}
  BY DEF TypeOK, Job

LEMMA NoJobFacts ==
  /\ NoJob \in Job /\ NoJob.pc = "idle" /\ ~NoJob.create /\ NoJob.key = "none"
  BY SetupAssumption DEF NoJob, Job, Pc

LEMMA GotoFacts ==
  ASSUME TypeOK, NEW p \in Person, NEW pc \in Pc, Goto(p, pc)
  PROVE  /\ job' \in [Person -> Job] /\ \A q \in Person : q # p => job'[q] = job[q]
         /\ job'[p].pc = pc /\ job'[p].create = job[p].create /\ job'[p].net = job[p].net
         /\ job'[p].vip = job[p].vip /\ job'[p].key = job[p].key
  BY DEF TypeOK, Job, Goto

LEMMA EndsFacts ==
  ASSUME TypeOK, NEW p \in Person, NEW s \in Stage, Ends(p, s)
  PROVE  /\ job' \in [Person -> Job] /\ \A q \in Person : q # p => job'[q] = job[q]
         /\ job'[p] = NoJob
         /\ stage' \in [Person -> Stage] /\ \A q \in Person : q # p => stage'[q] = stage[q]
         /\ stage'[p] = s
  BY NoJobFacts DEF TypeOK, Ends

LEMMA WriteFacts ==
  ASSUME TypeOK, NEW p \in Person, NEW f \in Folder, NEW pc \in Pc, Write(p, f, pc)
  PROVE  /\ job' \in [Person -> Job] /\ \A q \in Person : q # p => job'[q] = job[q]
         /\ job'[p].pc = pc /\ job'[p].create = job[p].create /\ job'[p].net = job[p].net
         /\ job'[p].vip = job[p].vip /\ job'[p].key = job[p].key
         /\ disk' \in [Person -> Folder] /\ \A q \in Person : q # p => disk'[q] = disk[q]
         /\ disk'[p] = f
         /\ UNCHANGED <<stage, nets, claimed, answered, invites, members, quits, crashed, listed>>
  BY GotoFacts DEF TypeOK, Write

LEMMA CleanUpFacts ==
  ASSUME TypeOK, NEW p \in Person
  PROVE  CleanUp(p) \in Folder
  BY NothingFacts, FolderFacts DEF CleanUp, Folder

\* What is known of one person.
LEMMA Here ==
  ASSUME IInv, NEW p \in Person
  PROVE  /\ TypeOK /\ JobOK(p) /\ KeyOK(p)
         /\ job[p].pc # "idle" => job[p].net \in 1..nets /\ job[p].net \in 1..MaxNets
         /\ nets \in Nat /\ nets <= MaxNets
  <1>1. TypeOK /\ JobOK(p) /\ KeyOK(p)
    BY DEF IInv, JobSound, KeySound
  <1>2. nets \in Nat /\ nets <= MaxNets
    BY SetupAssumption DEF IInv, TypeOK
  <1>3. job[p].pc # "idle" => job[p].net \in 1..nets
    BY <1>1 DEF JobOK
  <1> QED
    BY <1>1, <1>2, <1>3, SetupAssumption

LEMMA Creating ==
  ASSUME IInv, NEW p \in Person, job[p].create
  PROVE  job[p].pc # "idle" /\ job[p].net \in 1..nets
  BY Here, NoJobFacts DEF JobOK

LEMMA NotAnsweredYet ==
  ASSUME IInv, NEW p \in Person, job[p].create, job[p].pc \in Unclaimed
  PROVE  job[p].net \notin answered
  BY Here DEF KeyOK, TypeOK

\* A job stays sound while its person does nothing.
LEMMA JobOKSame ==
  ASSUME NEW p \in Person, JobOK(p), 1..nets \subseteq 1..nets',
         job'[p] = job[p], disk'[p] = disk[p], stage'[p] = stage[p]
  PROVE  JobOK(p)'
  <1>1. job[p].pc # "idle" =>
          job[p].net \in 1..nets' /\ (job[p].pc # "members" => job[p].vip \in 1..Host)
    BY DEF JobOK
  <1> QED
    BY <1>1 DEF JobOK

\* Every set of numbers has a least one.
LEMMA MinOfNat ==
  ASSUME NEW T, T \subseteq Nat, T # {}
  PROVE  \E v \in T : \A u \in T : v <= u
  <1> DEFINE R == OpToRel(<, Nat)
  <1>1. \A u, v \in Nat : <<u, v>> \in R <=> u < v
    BY DEF OpToRel
  <1>2. IsWellFoundedOn(R, Nat)
    BY NatLessThanWellFounded
  <1> HIDE DEF R
  <1>3. \E v \in T : \A u \in T : ~(<<u, v>> \in R)
    <2>1. ASSUME NEW Q, NEW S, IsWellFoundedOn(Q, S), NEW U, U \subseteq S, U # {}
          PROVE  \E x \in U : \A y \in U : ~(<<y, x>> \in Q)
      BY <2>1, WFMin
    <2> QED
      BY <1>2, <2>1
  <1>4. PICK v \in T : \A u \in T : ~(<<u, v>> \in R)
    BY <1>3
  <1>5. \A u \in T : v <= u
    <2> TAKE u \in T
    <2>1. u \in Nat /\ v \in Nat
      OBVIOUS
    <2>2. ~(u < v)
      BY <1>1, <1>4, <2>1, Zenon
    <2> QED
      BY <2>1, <2>2
  <1> QED
    BY <1>5

\* The address that is suggested is a free one if there is one.
LEMMA SuggestedIsFree ==
  ASSUME NEW taken \in SUBSET (1..Host)
  PROVE  /\ SuggestFreeIp(taken) \in 1..Host
         /\ ~(2..Host \subseteq taken) => SuggestFreeIp(taken) \notin taken
  <1>1. CASE 2..Host \subseteq taken
    BY <1>1, SetupAssumption DEF SuggestFreeIp
  <1>2. CASE ~(2..Host \subseteq taken)
    <2> DEFINE free == (2..Host) \ taken
    <2>1. free \subseteq Nat /\ free # {}
      BY <1>2, SetupAssumption
    <2>2. \E v \in free : \A u \in free : v <= u
      BY <2>1, MinOfNat
    <2>3. SuggestFreeIp(taken) = CHOOSE v \in free : \A u \in free : v <= u
      BY <1>2 DEF SuggestFreeIp
    <2> HIDE DEF free
    <2>4. SuggestFreeIp(taken) \in free
      BY <2>2, <2>3
    <2> QED
      BY <2>4, SetupAssumption DEF free
  <1> QED
    BY <1>1, <1>2

LEMMA InitInv == Init => IInv
  <1> SUFFICES ASSUME Init PROVE IInv
    OBVIOUS
  <1>1. TypeOK
    BY SetupAssumption, EmptyFacts, NoJobFacts DEF Init, TypeOK, Stage
  <1>2. JobSound /\ KeySound /\ NetsSound /\ ChosenFree
    BY NoJobFacts
    DEF Init, JobSound, JobOK, KeySound, KeyOK, NetsSound, ChosenFree, Unnamed, Unclaimed
  <1>3. OfOneNetwork /\ MembersCanPublish /\ ListedAddressKept /\ Tidy /\ KeyKept
    BY NoJobFacts, EmptyFacts
    DEF Init, OfOneNetwork, MembersCanPublish, ListedAddressKept, Tidy, TidyOK, KeyKept
  <1> QED
    BY <1>1, <1>2, <1>3 DEF IInv

-----------------------------------------------------------------------------
(* The steps.                                                               *)

LEMMA CreateNetworkStep ==
  ASSUME IInv, NEW p \in Person, CreateNetwork(p)
  PROVE  IInv'
  <1>0. /\ job' \in [Person -> Job] /\ \A q \in Person : q # p => job'[q] = job[q]
        /\ stage' \in [Person -> Stage] /\ \A q \in Person : q # p => stage'[q] = stage[q]
        /\ stage[p] = "setup" /\ disk[p].cfg = Nothing /\ disk[p].dir = Nothing
        /\ nets < MaxNets /\ nets' = nets + 1 /\ stage'[p] = "working"
        /\ job'[p].pc = "cfgTmp" /\ job'[p].create /\ job'[p].net = nets + 1
        /\ job'[p].vip \in 1..Host
        /\ job'[p].key = "none"
        /\ listed' \in [Person -> SUBSET (1..Host)] /\ listed'[p] = {}
        /\ \A q \in Person : q # p => listed'[q] = listed[q]
        /\ UNCHANGED <<disk, claimed, answered, invites, members, quits, crashed>>
    <2>1. PICK v \in {1} \cup Ask :
            job' = [job EXCEPT ![p] = [pc |-> "cfgTmp", create |-> TRUE, net |-> nets + 1,
                                       vip |-> v, key |-> "none"]]
      BY DEF CreateNetwork
    <2>3. v \in 1..Host /\ v \in 0..Host /\ (nets + 1) \in 0..MaxNets /\ "cfgTmp" \in Pc
      BY SetupAssumption DEF CreateNetwork, IInv, TypeOK, Pc
    <2>4. [pc |-> "cfgTmp", create |-> TRUE, net |-> nets + 1, vip |-> v, key |-> "none"] \in Job
      BY <2>3 DEF Job
    <2> QED
      BY <2>1, <2>3, <2>4 DEF CreateNetwork, IInv, TypeOK, Stage, AlreadySetUp
  <1>1. TypeOK'
    BY <1>0, Here, FolderFacts, SetupAssumption DEF TypeOK, Stage, Shown, IInv, NetsSound
  <1>a. ASSUME NEW q \in Person, q # p
        PROVE  job'[q] = job[q] /\ disk'[q] = disk[q] /\ stage'[q] = stage[q]
    BY <1>0, <1>a
  <1>n. 1..nets \subseteq 1..nets'
    BY <1>0, Here
  <1>2. ASSUME NEW q \in Person PROVE JobOK(q)'
    <2>1. CASE q # p
      BY <1>a, <1>n, <2>1, Here, JobOKSame
    <2>2. CASE q = p
      <3>1. job'[p].net \in 1..nets' /\ job'[p].vip \in 1..Host /\ stage'[p] = "working"
        BY <1>0, Here
      <3>2. disk'[p].cfg = Nothing /\ disk'[p].dir = Nothing
        BY <1>0
      <3> QED
        BY <1>0, <2>2, <3>1, <3>2 DEF JobOK, Unnamed, Unclaimed
    <2> QED
      BY <2>1, <2>2
  <1>3. ASSUME NEW q \in Person PROVE KeyOK(q)'
    <2>1. CASE q # p
      BY <1>0, <2>1, Here, JobFacts DEF KeyOK, IInv, NetsSound
    <2>2. CASE q = p
      BY <1>0, <2>2, Here, JobFacts, NoJobFacts
      DEF JobOK, KeyOK, IInv, NetsSound, Unclaimed, Pc, TypeOK
    <2> QED
      BY <2>1, <2>2
  <1>4. NetsSound'
    <2>1. claimed \subseteq claimed' /\ claimed' \subseteq 1..nets'
      BY <1>0, <1>n, Here DEF IInv, NetsSound
    <2>2. invites' \subseteq claimed'
      BY <1>0, <2>1, Here, JobFacts DEF IInv, NetsSound, KeyOK, Shown, Unclaimed
    <2>3. ASSUME NEW q \in Person, job'[p].create, job'[q].create, job'[p].net = job'[q].net, q # p
          PROVE  FALSE
      BY <1>0, <1>a, <2>3, Creating, Here, NoJobFacts DEF IInv, NetsSound
    <2>4. ASSUME NEW q \in Person, NEW r \in Person, q # p, r # p,
                 job'[r].create, job'[q].create, job'[r].net = job'[q].net
          PROVE  q = r
      BY <1>a, <2>4 DEF IInv, NetsSound
    <2> QED
      BY <2>1, <2>2, <2>3, <2>4 DEF NetsSound
  <1>5. ChosenFree'
    BY <1>0, Here, JobFacts, NoJobFacts DEF IInv, JobOK, ChosenFree, Unnamed, Unclaimed
  <1>6. OfOneNetwork' /\ MembersCanPublish' /\ ListedAddressKept'
    BY <1>0, Here, JobFacts, Distinct
    DEF IInv, OfOneNetwork, MembersCanPublish, ListedAddressKept,
        JobOK, KeyOK, ChosenFree, Unnamed, Unclaimed
  <1>7. ASSUME ~BadKey PROVE Tidy'
    <2> SUFFICES ASSUME NEW q \in Person \ crashed' PROVE TidyOK(q)'
      BY DEF Tidy
    <2>1. q \in Person \ crashed => TidyOK(q)
      BY <1>7 DEF IInv, Tidy
    <2>2. CASE q # p
      BY <1>0, <2>1, <2>2 DEF TidyOK
    <2>3. CASE q = p
      BY <1>0, <1>7, <2>1, <2>3, Here, JobFacts, FolderFacts, NoJobFacts, Distinct
      DEF TidyOK, JobOK, KeyOK, Unnamed, Unclaimed, Pc
    <2> QED
      BY <2>2, <2>3
  <1>8. ASSUME ~BadKey PROVE KeyKept'
    <2> SUFFICES ASSUME NEW n \in answered', crashed' = {}
                 PROVE  n \in invites' \/ \E q \in Person : job'[q].net = n /\ job'[q].create
      BY DEF KeyKept
    <2>1. invites \subseteq invites' /\ crashed = {}
      BY <1>0 DEF Shown
    <2>2. n \in answered => n \in invites \/ \E q \in Person : job[q].net = n /\ job[q].create
      BY <1>8, <2>1 DEF IInv, KeyKept
    <2>3. ASSUME NEW q \in Person, n \in answered, job[q].net = n, job[q].create
          PROVE  n \in invites' \/ \E r \in Person : job'[r].net = n /\ job'[r].create
      <3>1. CASE q # p
        BY <1>0, <2>3, <3>1
      <3>2. CASE q = p
        BY <1>0, <1>8, <2>1, <2>3, <3>2, Here, JobFacts, NoJobFacts
        DEF JobOK, KeyOK, Shown, Unclaimed, Pc
      <3> QED
        BY <3>1, <3>2
    <2> QED
      BY <1>0, <2>1, <2>2, <2>3, Here DEF JobOK
  <1> QED
    BY <1>1, <1>2, <1>3, <1>4, <1>5, <1>6, <1>7, <1>8 DEF IInv, JobSound, KeySound

LEMMA JoinNetworkStep ==
  ASSUME IInv, NEW p \in Person, JoinNetwork(p)
  PROVE  IInv'
  <1>0. /\ job' \in [Person -> Job] /\ \A q \in Person : q # p => job'[q] = job[q]
        /\ stage' \in [Person -> Stage] /\ \A q \in Person : q # p => stage'[q] = stage[q]
        /\ stage[p] = "setup" /\ disk[p].cfg = Nothing /\ disk[p].dir = Nothing
        /\ stage'[p] = "working"
        /\ job'[p].pc = "members" /\ ~job'[p].create /\ job'[p].net \in invites
        /\ job'[p].vip \in 0..Host
        /\ job'[p].key = "none"
        /\ UNCHANGED <<disk, nets, claimed, answered, invites, members, quits, crashed, listed>>
    <2>1. PICK n \in invites, v \in {0} \cup Ask :
            job' = [job EXCEPT ![p] = [pc |-> "members", create |-> FALSE, net |-> n,
                                       vip |-> v, key |-> "none"]]
      BY DEF JoinNetwork
    <2>3. v \in 0..Host /\ n \in 0..MaxNets /\ "members" \in Pc
      BY SetupAssumption DEF IInv, TypeOK, Pc
    <2>4. [pc |-> "members", create |-> FALSE, net |-> n, vip |-> v, key |-> "none"] \in Job
      BY <2>3 DEF Job
    <2> QED
      BY <2>1, <2>3, <2>4 DEF JoinNetwork, IInv, TypeOK, Stage, AlreadySetUp
  <1>1. TypeOK'
    BY <1>0, Here, FolderFacts, SetupAssumption DEF TypeOK, Stage, Shown, IInv, NetsSound
  <1>a. ASSUME NEW q \in Person, q # p
        PROVE  job'[q] = job[q] /\ disk'[q] = disk[q] /\ stage'[q] = stage[q]
    BY <1>0, <1>a
  <1>n. 1..nets \subseteq 1..nets'
    BY <1>0, Here
  <1>2. ASSUME NEW q \in Person PROVE JobOK(q)'
    <2>1. CASE q # p
      BY <1>a, <1>n, <2>1, Here, JobOKSame
    <2>2. CASE q = p
      BY <1>0, <2>2, Here, JobFacts, FolderFacts, NoJobFacts, Distinct
      DEF JobOK, KeyOK, IInv, NetsSound, Unnamed, Unclaimed, Pc
    <2> QED
      BY <2>1, <2>2
  <1>3. ASSUME NEW q \in Person PROVE KeyOK(q)'
    <2>1. CASE q # p
      BY <1>0, <2>1, Here, JobFacts DEF KeyOK, IInv, NetsSound
    <2>2. CASE q = p
      BY <1>0, <2>2, Here, JobFacts, NoJobFacts
      DEF JobOK, KeyOK, IInv, NetsSound, Unclaimed, Pc, TypeOK
    <2> QED
      BY <2>1, <2>2
  <1>4. NetsSound'
    <2>1. claimed \subseteq claimed' /\ claimed' \subseteq 1..nets'
      BY <1>0, <1>n, Here DEF IInv, NetsSound
    <2>2. invites' \subseteq claimed'
      BY <1>0, <2>1, Here, JobFacts DEF IInv, NetsSound, KeyOK, Shown, Unclaimed
    <2>3. ASSUME NEW q \in Person, job'[p].create, job'[q].create, job'[p].net = job'[q].net, q # p
          PROVE  FALSE
      BY <1>0, <1>a, <2>3, Creating, Here, NoJobFacts DEF IInv, NetsSound
    <2>4. ASSUME NEW q \in Person, NEW r \in Person, q # p, r # p,
                 job'[r].create, job'[q].create, job'[r].net = job'[q].net
          PROVE  q = r
      BY <1>a, <2>4 DEF IInv, NetsSound
    <2> QED
      BY <2>1, <2>2, <2>3, <2>4 DEF NetsSound
  <1>5. ChosenFree'
    BY <1>0, Here, JobFacts, NoJobFacts DEF IInv, JobOK, ChosenFree, Unnamed, Unclaimed
  <1>6. OfOneNetwork' /\ MembersCanPublish' /\ ListedAddressKept'
    BY <1>0, Here, JobFacts, Distinct
    DEF IInv, OfOneNetwork, MembersCanPublish, ListedAddressKept,
        JobOK, KeyOK, ChosenFree, Unnamed, Unclaimed
  <1>7. ASSUME ~BadKey PROVE Tidy'
    <2> SUFFICES ASSUME NEW q \in Person \ crashed' PROVE TidyOK(q)'
      BY DEF Tidy
    <2>1. q \in Person \ crashed => TidyOK(q)
      BY <1>7 DEF IInv, Tidy
    <2>2. CASE q # p
      BY <1>0, <2>1, <2>2 DEF TidyOK
    <2>3. CASE q = p
      BY <1>0, <1>7, <2>1, <2>3, Here, JobFacts, FolderFacts, NoJobFacts, Distinct
      DEF TidyOK, JobOK, KeyOK, Unnamed, Unclaimed, Pc
    <2> QED
      BY <2>2, <2>3
  <1>8. ASSUME ~BadKey PROVE KeyKept'
    <2> SUFFICES ASSUME NEW n \in answered', crashed' = {}
                 PROVE  n \in invites' \/ \E q \in Person : job'[q].net = n /\ job'[q].create
      BY DEF KeyKept
    <2>1. invites \subseteq invites' /\ crashed = {}
      BY <1>0 DEF Shown
    <2>2. n \in answered => n \in invites \/ \E q \in Person : job[q].net = n /\ job[q].create
      BY <1>8, <2>1 DEF IInv, KeyKept
    <2>3. ASSUME NEW q \in Person, n \in answered, job[q].net = n, job[q].create
          PROVE  n \in invites' \/ \E r \in Person : job'[r].net = n /\ job'[r].create
      <3>1. CASE q # p
        BY <1>0, <2>3, <3>1
      <3>2. CASE q = p
        BY <1>0, <1>8, <2>1, <2>3, <3>2, Here, JobFacts, NoJobFacts
        DEF JobOK, KeyOK, Shown, Unclaimed, Pc
      <3> QED
        BY <3>1, <3>2
    <2> QED
      BY <1>0, <2>1, <2>2, <2>3, Here DEF JobOK
  <1> QED
    BY <1>1, <1>2, <1>3, <1>4, <1>5, <1>6, <1>7, <1>8 DEF IInv, JobSound, KeySound

LEMMA ReadMembersStep ==
  ASSUME IInv, NEW p \in Person, ReadMembers(p)
  PROVE  IInv'
  <1>0. /\ job' \in [Person -> Job] /\ \A q \in Person : q # p => job'[q] = job[q]
        /\ stage' \in [Person -> Stage] /\ \A q \in Person : q # p => stage'[q] = stage[q]
        /\ job[p].pc = "members"
        /\ listed' \in [Person -> SUBSET (1..Host)]
        /\ \A q \in Person : q # p => listed'[q] = listed[q]
        /\ \/ job'[p] = NoJob /\ stage'[p] = "setup" /\ listed' = listed
           \/ /\ UNCHANGED stage /\ job'[p].pc = "cfgTmp" /\ job'[p].create = job[p].create
              /\ job'[p].net = job[p].net /\ job'[p].vip \in 1..Host /\ job'[p].key = job[p].key
              /\ ~(2..Host \subseteq listed'[p]) => job'[p].vip \notin listed'[p]
        /\ UNCHANGED <<disk, nets, claimed, answered, invites, members, quits, crashed>>
    <2> DEFINE taken == {r.vip : r \in {m \in members : m.net = job[p].net}}
               want == job[p].vip
               v == IF want # 0 THEN want ELSE SuggestFreeIp(taken)
    <2>1. taken \in SUBSET (1..Host)
      BY DEF IInv, TypeOK, Record
    <2> HIDE DEF taken
    <2>2. CASE want \in taken
      BY <2>2, EndsFacts DEF IInv, TypeOK, ReadMembers, Stage, taken
    <2>3. CASE want \notin taken
      <3>1. /\ job' = [job EXCEPT ![p].pc = "cfgTmp", ![p].vip = v]
            /\ listed' = [listed EXCEPT ![p] = taken] /\ UNCHANGED stage
        BY <2>3 DEF ReadMembers, taken
      <3>2. v \in 1..Host /\ (~(2..Host \subseteq taken) => v \notin taken)
        BY <2>1, <2>3, SuggestedIsFree, JobFacts DEF IInv
      <3> HIDE DEF v
      <3>3. job \in [Person -> Job] /\ job[p] \in Job /\ v \in 0..Host /\ "cfgTmp" \in Pc
        BY <3>2 DEF IInv, TypeOK, Pc
      <3>4. /\ job' \in [Person -> Job] /\ \A q \in Person : q # p => job'[q] = job[q]
            /\ job'[p].pc = "cfgTmp" /\ job'[p].create = job[p].create
            /\ job'[p].net = job[p].net /\ job'[p].vip = v /\ job'[p].key = job[p].key
        BY <3>1, <3>3 DEF Job
      <3>5. /\ listed' \in [Person -> SUBSET (1..Host)] /\ listed'[p] = taken
            /\ \A q \in Person : q # p => listed'[q] = listed[q]
        BY <2>1, <3>1 DEF IInv, TypeOK
      <3> QED
        BY <3>1, <3>2, <3>4, <3>5 DEF IInv, TypeOK, ReadMembers
    <2> QED
      BY <2>2, <2>3
  <1>1. TypeOK'
    BY <1>0, Here, FolderFacts, SetupAssumption DEF TypeOK, Stage, Shown, IInv, NetsSound
  <1>a. ASSUME NEW q \in Person, q # p
        PROVE  job'[q] = job[q] /\ disk'[q] = disk[q] /\ stage'[q] = stage[q]
    BY <1>0, <1>a
  <1>n. 1..nets \subseteq 1..nets'
    BY <1>0, Here
  <1>2. ASSUME NEW q \in Person PROVE JobOK(q)'
    <2>1. CASE q # p
      BY <1>a, <1>n, <2>1, Here, JobOKSame
    <2>2. CASE q = p
      <3>1. job'[p].pc = "cfgTmp" => job'[p].net \in 1..nets' /\ job'[p].vip \in 1..Host /\ stage'[p] = "working"
        BY <1>0, Here, JobFacts, NoJobFacts DEF JobOK
      <3>2. disk'[p].cfg = Nothing /\ disk'[p].dir = Nothing
        BY <1>0, Here, JobFacts DEF JobOK, Unnamed, Unclaimed
      <3>3. job'[p].pc \in {"idle", "cfgTmp"} /\ (job'[p].pc = "idle" => job'[p] = NoJob /\ stage'[p] = "setup")
        BY <1>0, NoJobFacts
      <3> QED
        BY <1>0, <2>2, <3>1, <3>2, <3>3 DEF JobOK, Unnamed, Unclaimed
    <2> QED
      BY <2>1, <2>2
  <1>3. ASSUME NEW q \in Person PROVE KeyOK(q)'
    <2>1. CASE q # p
      BY <1>0, <2>1, Here, JobFacts DEF KeyOK, IInv, NetsSound
    <2>2. CASE q = p
      BY <1>0, <2>2, Here, JobFacts, NoJobFacts
      DEF JobOK, KeyOK, IInv, NetsSound, Unclaimed, Pc, TypeOK
    <2> QED
      BY <2>1, <2>2
  <1>4. NetsSound'
    <2>1. claimed \subseteq claimed' /\ claimed' \subseteq 1..nets'
      BY <1>0, <1>n, Here DEF IInv, NetsSound
    <2>2. invites' \subseteq claimed'
      BY <1>0, <2>1, Here, JobFacts DEF IInv, NetsSound, KeyOK, Shown, Unclaimed
    <2>3. ASSUME NEW q \in Person, job'[p].create, job'[q].create, job'[p].net = job'[q].net, q # p
          PROVE  FALSE
      BY <1>0, <1>a, <2>3, Creating, Here, NoJobFacts DEF IInv, NetsSound
    <2>4. ASSUME NEW q \in Person, NEW r \in Person, q # p, r # p,
                 job'[r].create, job'[q].create, job'[r].net = job'[q].net
          PROVE  q = r
      BY <1>a, <2>4 DEF IInv, NetsSound
    <2> QED
      BY <2>1, <2>2, <2>3, <2>4 DEF NetsSound
  <1>5. ChosenFree'
    BY <1>0, Here, JobFacts, NoJobFacts DEF IInv, JobOK, ChosenFree, Unnamed, Unclaimed
  <1>6. OfOneNetwork' /\ MembersCanPublish' /\ ListedAddressKept'
    <2>1. disk[p].cfg = Nothing /\ disk' = disk /\ claimed' = claimed
      BY <1>0, Here DEF JobOK, Unnamed
    <2>2. OfOneNetwork' /\ MembersCanPublish'
      BY <2>1 DEF IInv, OfOneNetwork, MembersCanPublish
    <2>3. ListedAddressKept'
      BY <1>0, <2>1 DEF IInv, ListedAddressKept
    <2> QED
      BY <2>2, <2>3
  <1>7. ASSUME ~BadKey PROVE Tidy'
    <2> SUFFICES ASSUME NEW q \in Person \ crashed' PROVE TidyOK(q)'
      BY DEF Tidy
    <2>1. q \in Person \ crashed => TidyOK(q)
      BY <1>7 DEF IInv, Tidy
    <2>2. CASE q # p
      BY <1>0, <2>1, <2>2 DEF TidyOK
    <2>3. CASE q = p
      BY <1>0, <1>7, <2>1, <2>3, Here, JobFacts, FolderFacts, NoJobFacts, Distinct
      DEF TidyOK, JobOK, KeyOK, Unnamed, Unclaimed, Pc
    <2> QED
      BY <2>2, <2>3
  <1>8. ASSUME ~BadKey PROVE KeyKept'
    <2> SUFFICES ASSUME NEW n \in answered', crashed' = {}
                 PROVE  n \in invites' \/ \E q \in Person : job'[q].net = n /\ job'[q].create
      BY DEF KeyKept
    <2>1. invites \subseteq invites' /\ crashed = {}
      BY <1>0 DEF Shown
    <2>2. n \in answered => n \in invites \/ \E q \in Person : job[q].net = n /\ job[q].create
      BY <1>8, <2>1 DEF IInv, KeyKept
    <2>3. ASSUME NEW q \in Person, n \in answered, job[q].net = n, job[q].create
          PROVE  n \in invites' \/ \E r \in Person : job'[r].net = n /\ job'[r].create
      <3>1. CASE q # p
        BY <1>0, <2>3, <3>1
      <3>2. CASE q = p
        BY <1>0, <1>8, <2>1, <2>3, <3>2, Here, JobFacts, NoJobFacts
        DEF JobOK, KeyOK, Shown, Unclaimed, Pc
      <3> QED
        BY <3>1, <3>2
    <2> QED
      BY <1>0, <2>1, <2>2, <2>3, Here DEF JobOK
  <1> QED
    BY <1>1, <1>2, <1>3, <1>4, <1>5, <1>6, <1>7, <1>8 DEF IInv, JobSound, KeySound

LEMMA MembersFailStep ==
  ASSUME IInv, NEW p \in Person, MembersFail(p)
  PROVE  IInv'
  <1>0. /\ job' \in [Person -> Job] /\ \A q \in Person : q # p => job'[q] = job[q]
        /\ stage' \in [Person -> Stage] /\ \A q \in Person : q # p => stage'[q] = stage[q]
        /\ job[p].pc = "members" /\ job'[p] = NoJob /\ stage'[p] = "setup"
        /\ UNCHANGED <<disk, nets, claimed, answered, invites, members, quits, crashed, listed>>
    BY EndsFacts DEF IInv, MembersFail, Stage
  <1>1. TypeOK'
    BY <1>0, Here, FolderFacts, SetupAssumption DEF TypeOK, Stage, Shown, IInv, NetsSound
  <1>a. ASSUME NEW q \in Person, q # p
        PROVE  job'[q] = job[q] /\ disk'[q] = disk[q] /\ stage'[q] = stage[q]
    BY <1>0, <1>a
  <1>n. 1..nets \subseteq 1..nets'
    BY <1>0, Here
  <1>2. ASSUME NEW q \in Person PROVE JobOK(q)'
    <2>1. CASE q # p
      BY <1>a, <1>n, <2>1, Here, JobOKSame
    <2>2. CASE q = p
      BY <1>0, <2>2, Here, JobFacts, FolderFacts, NoJobFacts, Distinct
      DEF JobOK, KeyOK, IInv, NetsSound, Unnamed, Unclaimed, Pc
    <2> QED
      BY <2>1, <2>2
  <1>3. ASSUME NEW q \in Person PROVE KeyOK(q)'
    <2>1. CASE q # p
      BY <1>0, <2>1, Here, JobFacts DEF KeyOK, IInv, NetsSound
    <2>2. CASE q = p
      BY <1>0, <2>2, Here, JobFacts, NoJobFacts
      DEF JobOK, KeyOK, IInv, NetsSound, Unclaimed, Pc, TypeOK
    <2> QED
      BY <2>1, <2>2
  <1>4. NetsSound'
    <2>1. claimed \subseteq claimed' /\ claimed' \subseteq 1..nets'
      BY <1>0, <1>n, Here DEF IInv, NetsSound
    <2>2. invites' \subseteq claimed'
      BY <1>0, <2>1, Here, JobFacts DEF IInv, NetsSound, KeyOK, Shown, Unclaimed
    <2>3. ASSUME NEW q \in Person, job'[p].create, job'[q].create, job'[p].net = job'[q].net, q # p
          PROVE  FALSE
      BY <1>0, <1>a, <2>3, Creating, Here, NoJobFacts DEF IInv, NetsSound
    <2>4. ASSUME NEW q \in Person, NEW r \in Person, q # p, r # p,
                 job'[r].create, job'[q].create, job'[r].net = job'[q].net
          PROVE  q = r
      BY <1>a, <2>4 DEF IInv, NetsSound
    <2> QED
      BY <2>1, <2>2, <2>3, <2>4 DEF NetsSound
  <1>5. ChosenFree'
    BY <1>0, Here, JobFacts, NoJobFacts DEF IInv, JobOK, ChosenFree, Unnamed, Unclaimed
  <1>6. OfOneNetwork' /\ MembersCanPublish' /\ ListedAddressKept'
    BY <1>0, Here, JobFacts, Distinct
    DEF IInv, OfOneNetwork, MembersCanPublish, ListedAddressKept,
        JobOK, KeyOK, ChosenFree, Unnamed, Unclaimed
  <1>7. ASSUME ~BadKey PROVE Tidy'
    <2> SUFFICES ASSUME NEW q \in Person \ crashed' PROVE TidyOK(q)'
      BY DEF Tidy
    <2>1. q \in Person \ crashed => TidyOK(q)
      BY <1>7 DEF IInv, Tidy
    <2>2. CASE q # p
      BY <1>0, <2>1, <2>2 DEF TidyOK
    <2>3. CASE q = p
      BY <1>0, <1>7, <2>1, <2>3, Here, JobFacts, FolderFacts, NoJobFacts, Distinct
      DEF TidyOK, JobOK, KeyOK, Unnamed, Unclaimed, Pc
    <2> QED
      BY <2>2, <2>3
  <1>8. ASSUME ~BadKey PROVE KeyKept'
    <2> SUFFICES ASSUME NEW n \in answered', crashed' = {}
                 PROVE  n \in invites' \/ \E q \in Person : job'[q].net = n /\ job'[q].create
      BY DEF KeyKept
    <2>1. invites \subseteq invites' /\ crashed = {}
      BY <1>0 DEF Shown
    <2>2. n \in answered => n \in invites \/ \E q \in Person : job[q].net = n /\ job[q].create
      BY <1>8, <2>1 DEF IInv, KeyKept
    <2>3. ASSUME NEW q \in Person, n \in answered, job[q].net = n, job[q].create
          PROVE  n \in invites' \/ \E r \in Person : job'[r].net = n /\ job'[r].create
      <3>1. CASE q # p
        BY <1>0, <2>3, <3>1
      <3>2. CASE q = p
        BY <1>0, <1>8, <2>1, <2>3, <3>2, Here, JobFacts, NoJobFacts
        DEF JobOK, KeyOK, Shown, Unclaimed, Pc
      <3> QED
        BY <3>1, <3>2
    <2> QED
      BY <1>0, <2>1, <2>2, <2>3, Here DEF JobOK
  <1> QED
    BY <1>1, <1>2, <1>3, <1>4, <1>5, <1>6, <1>7, <1>8 DEF IInv, JobSound, KeySound

LEMMA StageConfigStep ==
  ASSUME IInv, NEW p \in Person, StageConfig(p)
  PROVE  IInv'
  <1>0. /\ job' \in [Person -> Job] /\ \A q \in Person : q # p => job'[q] = job[q]
        /\ disk' \in [Person -> Folder] /\ \A q \in Person : q # p => disk'[q] = disk[q]
        /\ job[p].pc = "cfgTmp" /\ job'[p].pc = "dirTmp"
        /\ job'[p].create = job[p].create /\ job'[p].net = job[p].net /\ job'[p].vip = job[p].vip
        /\ job'[p].key = job[p].key
        /\ disk'[p].cfgTmp = ConfigOf(job[p].net, job[p].vip)
        /\ disk'[p].cfg = disk[p].cfg /\ disk'[p].dir = disk[p].dir
        /\ disk'[p].dirTmp = disk[p].dirTmp
        /\ UNCHANGED <<stage, nets, claimed, answered, invites, members, quits, crashed, listed>>
    <2> DEFINE f == [disk[p] EXCEPT !.cfgTmp = ConfigOf(job[p].net, job[p].vip)]
               n == "dirTmp"
    <2>1. job[p].pc \notin {"idle", "members"} /\ Write(p, f, n) /\ n \in Pc
      BY DEF StageConfig, Pc
    <2>2. job[p].net \in 1..MaxNets /\ job[p].vip \in 1..Host
          /\ job[p].create \in BOOLEAN
      BY <2>1, Here, JobFacts DEF JobOK
    <2>3. /\ f \in Folder
          /\ f.cfgTmp = ConfigOf(job[p].net, job[p].vip) /\ f.cfg = disk[p].cfg
          /\ f.dir = disk[p].dir /\ f.dirTmp = disk[p].dirTmp
      <3>1. disk[p] \in Folder /\ ConfigOf(job[p].net, job[p].vip) \in Config
        BY <2>2, Here, Distinct, NothingFacts, FolderFacts
      <3> QED
        BY <3>1 DEF Folder
    <2> HIDE DEF f, n
    <2>4. /\ job' \in [Person -> Job] /\ \A q \in Person : q # p => job'[q] = job[q]
          /\ disk' \in [Person -> Folder] /\ \A q \in Person : q # p => disk'[q] = disk[q]
          /\ job'[p].pc = n /\ disk'[p] = f
          /\ job'[p].create = job[p].create /\ job'[p].net = job[p].net
          /\ job'[p].vip = job[p].vip /\ job'[p].key = job[p].key
          /\ UNCHANGED <<stage, nets, claimed, answered, invites, members, quits, crashed, listed>>
      BY <2>1, <2>3, WriteFacts DEF IInv
    <2> QED
      BY <2>3, <2>4 DEF StageConfig, n
  <1>1. TypeOK'
    BY <1>0, Here, FolderFacts, SetupAssumption DEF TypeOK, Stage, Shown, IInv, NetsSound
  <1>a. ASSUME NEW q \in Person, q # p
        PROVE  job'[q] = job[q] /\ disk'[q] = disk[q] /\ stage'[q] = stage[q]
    BY <1>0, <1>a
  <1>n. 1..nets \subseteq 1..nets'
    BY <1>0, Here
  <1>2. ASSUME NEW q \in Person PROVE JobOK(q)'
    <2>1. CASE q # p
      BY <1>a, <1>n, <2>1, Here, JobOKSame
    <2>2. CASE q = p
      BY <1>0, <2>2, Here, JobFacts, FolderFacts, NoJobFacts, Distinct
      DEF JobOK, KeyOK, IInv, NetsSound, Unnamed, Unclaimed, Pc
    <2> QED
      BY <2>1, <2>2
  <1>3. ASSUME NEW q \in Person PROVE KeyOK(q)'
    <2>1. CASE q # p
      BY <1>0, <2>1, Here, JobFacts DEF KeyOK, IInv, NetsSound
    <2>2. CASE q = p
      BY <1>0, <2>2, Here, JobFacts, NoJobFacts
      DEF JobOK, KeyOK, IInv, NetsSound, Unclaimed, Pc, TypeOK
    <2> QED
      BY <2>1, <2>2
  <1>4. NetsSound'
    <2>1. claimed \subseteq claimed' /\ claimed' \subseteq 1..nets'
      BY <1>0, <1>n, Here DEF IInv, NetsSound
    <2>2. invites' \subseteq claimed'
      BY <1>0, <2>1, Here, JobFacts DEF IInv, NetsSound, KeyOK, Shown, Unclaimed
    <2>3. ASSUME NEW q \in Person, job'[p].create, job'[q].create, job'[p].net = job'[q].net, q # p
          PROVE  FALSE
      <3>1. job'[q] = job[q]
        BY <1>a, <2>3
      <3>2. job[p].create /\ job[q].create /\ job[p].net = job[q].net
        BY <1>0, <2>3, <3>1
      <3> QED
        BY <2>3, <3>2 DEF IInv, NetsSound
    <2>4. ASSUME NEW q \in Person, NEW r \in Person, q # p, r # p,
                 job'[r].create, job'[q].create, job'[r].net = job'[q].net
          PROVE  q = r
      BY <1>a, <2>4 DEF IInv, NetsSound
    <2> QED
      BY <2>1, <2>2, <2>3, <2>4 DEF NetsSound
  <1>5. ChosenFree'
    BY <1>0, Here, JobFacts, NoJobFacts DEF IInv, JobOK, ChosenFree, Unnamed, Unclaimed
  <1>6. OfOneNetwork' /\ MembersCanPublish' /\ ListedAddressKept'
    BY <1>0, Here, JobFacts, Distinct
    DEF IInv, OfOneNetwork, MembersCanPublish, ListedAddressKept,
        JobOK, KeyOK, ChosenFree, Unnamed, Unclaimed
  <1>7. ASSUME ~BadKey PROVE Tidy'
    <2> SUFFICES ASSUME NEW q \in Person \ crashed' PROVE TidyOK(q)'
      BY DEF Tidy
    <2>1. q \in Person \ crashed => TidyOK(q)
      BY <1>7 DEF IInv, Tidy
    <2>2. CASE q # p
      BY <1>0, <2>1, <2>2 DEF TidyOK
    <2>3. CASE q = p
      BY <1>0, <1>7, <2>1, <2>3, Here, JobFacts, FolderFacts, NoJobFacts, Distinct
      DEF TidyOK, JobOK, KeyOK, Unnamed, Unclaimed, Pc
    <2> QED
      BY <2>2, <2>3
  <1>8. ASSUME ~BadKey PROVE KeyKept'
    <2> SUFFICES ASSUME NEW n \in answered', crashed' = {}
                 PROVE  n \in invites' \/ \E q \in Person : job'[q].net = n /\ job'[q].create
      BY DEF KeyKept
    <2>1. invites \subseteq invites' /\ crashed = {}
      BY <1>0 DEF Shown
    <2>2. n \in answered => n \in invites \/ \E q \in Person : job[q].net = n /\ job[q].create
      BY <1>8, <2>1 DEF IInv, KeyKept
    <2>3. ASSUME NEW q \in Person, n \in answered, job[q].net = n, job[q].create
          PROVE  n \in invites' \/ \E r \in Person : job'[r].net = n /\ job'[r].create
      <3>1. CASE q # p
        BY <1>0, <2>3, <3>1
      <3>2. CASE q = p
        BY <1>0, <1>8, <2>1, <2>3, <3>2, Here, JobFacts, NoJobFacts
        DEF JobOK, KeyOK, Shown, Unclaimed, Pc
      <3> QED
        BY <3>1, <3>2
    <2> QED
      BY <1>0, <2>1, <2>2, <2>3, Here DEF JobOK
  <1> QED
    BY <1>1, <1>2, <1>3, <1>4, <1>5, <1>6, <1>7, <1>8 DEF IInv, JobSound, KeySound

LEMMA StageDirectoryStep ==
  ASSUME IInv, NEW p \in Person, StageDirectory(p)
  PROVE  IInv'
  <1>0. /\ job' \in [Person -> Job] /\ \A q \in Person : q # p => job'[q] = job[q]
        /\ disk' \in [Person -> Folder] /\ \A q \in Person : q # p => disk'[q] = disk[q]
        /\ job[p].pc = "dirTmp" /\ job'[p].pc = (IF job[p].create THEN "claim" ELSE "keyTmp")
        /\ job'[p].create = job[p].create /\ job'[p].net = job[p].net /\ job'[p].vip = job[p].vip
        /\ job'[p].key = job[p].key
        /\ disk'[p].dirTmp = DirOf(job[p].net, ~job[p].create)
        /\ disk'[p].cfg = disk[p].cfg /\ disk'[p].dir = disk[p].dir
        /\ disk'[p].cfgTmp = disk[p].cfgTmp
        /\ UNCHANGED <<stage, nets, claimed, answered, invites, members, quits, crashed, listed>>
    <2> DEFINE f == [disk[p] EXCEPT !.dirTmp = DirOf(job[p].net, ~job[p].create)]
               n == IF job[p].create THEN "claim" ELSE "keyTmp"
    <2>1. job[p].pc \notin {"idle", "members"} /\ Write(p, f, n) /\ n \in Pc
      BY DEF StageDirectory, Pc
    <2>2. job[p].net \in 1..MaxNets /\ job[p].vip \in 1..Host
          /\ job[p].create \in BOOLEAN
      BY <2>1, Here, JobFacts DEF JobOK
    <2>3. /\ f \in Folder
          /\ f.dirTmp = DirOf(job[p].net, ~job[p].create) /\ f.cfg = disk[p].cfg
          /\ f.dir = disk[p].dir /\ f.cfgTmp = disk[p].cfgTmp
      <3>1. disk[p] \in Folder /\ DirOf(job[p].net, ~job[p].create) \in DirectorySettings
        BY <2>2, Here, Distinct, NothingFacts, FolderFacts
      <3> QED
        BY <3>1 DEF Folder
    <2> HIDE DEF f, n
    <2>4. /\ job' \in [Person -> Job] /\ \A q \in Person : q # p => job'[q] = job[q]
          /\ disk' \in [Person -> Folder] /\ \A q \in Person : q # p => disk'[q] = disk[q]
          /\ job'[p].pc = n /\ disk'[p] = f
          /\ job'[p].create = job[p].create /\ job'[p].net = job[p].net
          /\ job'[p].vip = job[p].vip /\ job'[p].key = job[p].key
          /\ UNCHANGED <<stage, nets, claimed, answered, invites, members, quits, crashed, listed>>
      BY <2>1, <2>3, WriteFacts DEF IInv
    <2> QED
      BY <2>3, <2>4 DEF StageDirectory, n
  <1>1. TypeOK'
    BY <1>0, Here, FolderFacts, SetupAssumption DEF TypeOK, Stage, Shown, IInv, NetsSound
  <1>a. ASSUME NEW q \in Person, q # p
        PROVE  job'[q] = job[q] /\ disk'[q] = disk[q] /\ stage'[q] = stage[q]
    BY <1>0, <1>a
  <1>n. 1..nets \subseteq 1..nets'
    BY <1>0, Here
  <1>2. ASSUME NEW q \in Person PROVE JobOK(q)'
    <2>1. CASE q # p
      BY <1>a, <1>n, <2>1, Here, JobOKSame
    <2>2. CASE q = p
      <3>1. job'[p].net \in 1..nets' /\ job'[p].vip \in 1..Host /\ stage'[p] = "working"
        BY <1>0, Here, JobFacts DEF JobOK
      <3>2. job'[p].pc \in {"claim", "keyTmp"} /\ (job'[p].pc = "claim" => job'[p].create)
        BY <1>0, JobFacts
      <3>3. /\ disk'[p].cfg = Nothing /\ disk'[p].dir = Nothing
            /\ disk'[p].cfgTmp = ConfigOf(job'[p].net, job'[p].vip)
        <4>1. JobOK(p) /\ job[p].pc \in {"dirTmp"}
          BY <1>0, Here
        <4> QED
          BY <1>0, <4>1 DEF JobOK, Unnamed, Unclaimed
      <3> QED
        BY <1>0, <2>2, <3>1, <3>2, <3>3 DEF JobOK, Unnamed, Unclaimed
    <2> QED
      BY <2>1, <2>2
  <1>3. ASSUME NEW q \in Person PROVE KeyOK(q)'
    <2>1. CASE q # p
      BY <1>0, <2>1, Here, JobFacts DEF KeyOK, IInv, NetsSound
    <2>2. CASE q = p
      BY <1>0, <2>2, Here, JobFacts, NoJobFacts
      DEF JobOK, KeyOK, IInv, NetsSound, Unclaimed, Pc, TypeOK
    <2> QED
      BY <2>1, <2>2
  <1>4. NetsSound'
    <2>1. claimed \subseteq claimed' /\ claimed' \subseteq 1..nets'
      BY <1>0, <1>n, Here DEF IInv, NetsSound
    <2>2. invites' \subseteq claimed'
      BY <1>0, <2>1, Here, JobFacts DEF IInv, NetsSound, KeyOK, Shown, Unclaimed
    <2>3. ASSUME NEW q \in Person, job'[p].create, job'[q].create, job'[p].net = job'[q].net, q # p
          PROVE  FALSE
      BY <1>0, <1>a, <2>3, Creating, Here, NoJobFacts DEF IInv, NetsSound
    <2>4. ASSUME NEW q \in Person, NEW r \in Person, q # p, r # p,
                 job'[r].create, job'[q].create, job'[r].net = job'[q].net
          PROVE  q = r
      BY <1>a, <2>4 DEF IInv, NetsSound
    <2> QED
      BY <2>1, <2>2, <2>3, <2>4 DEF NetsSound
  <1>5. ChosenFree'
    BY <1>0, Here, JobFacts, NoJobFacts DEF IInv, JobOK, ChosenFree, Unnamed, Unclaimed
  <1>6. OfOneNetwork' /\ MembersCanPublish' /\ ListedAddressKept'
    BY <1>0, Here, JobFacts, Distinct
    DEF IInv, OfOneNetwork, MembersCanPublish, ListedAddressKept,
        JobOK, KeyOK, ChosenFree, Unnamed, Unclaimed
  <1>7. ASSUME ~BadKey PROVE Tidy'
    <2> SUFFICES ASSUME NEW q \in Person \ crashed' PROVE TidyOK(q)'
      BY DEF Tidy
    <2>1. q \in Person \ crashed => TidyOK(q)
      BY <1>7 DEF IInv, Tidy
    <2>2. CASE q # p
      BY <1>0, <2>1, <2>2 DEF TidyOK
    <2>3. CASE q = p
      BY <1>0, <1>7, <2>1, <2>3, Here, JobFacts, FolderFacts, NoJobFacts, Distinct
      DEF TidyOK, JobOK, KeyOK, Unnamed, Unclaimed, Pc
    <2> QED
      BY <2>2, <2>3
  <1>8. ASSUME ~BadKey PROVE KeyKept'
    <2> SUFFICES ASSUME NEW n \in answered', crashed' = {}
                 PROVE  n \in invites' \/ \E q \in Person : job'[q].net = n /\ job'[q].create
      BY DEF KeyKept
    <2>1. invites \subseteq invites' /\ crashed = {}
      BY <1>0 DEF Shown
    <2>2. n \in answered => n \in invites \/ \E q \in Person : job[q].net = n /\ job[q].create
      BY <1>8, <2>1 DEF IInv, KeyKept
    <2>3. ASSUME NEW q \in Person, n \in answered, job[q].net = n, job[q].create
          PROVE  n \in invites' \/ \E r \in Person : job'[r].net = n /\ job'[r].create
      <3>1. CASE q # p
        BY <1>0, <2>3, <3>1
      <3>2. CASE q = p
        BY <1>0, <1>8, <2>1, <2>3, <3>2, Here, JobFacts, NoJobFacts
        DEF JobOK, KeyOK, Shown, Unclaimed, Pc
      <3> QED
        BY <3>1, <3>2
    <2> QED
      BY <1>0, <2>1, <2>2, <2>3, Here DEF JobOK
  <1> QED
    BY <1>1, <1>2, <1>3, <1>4, <1>5, <1>6, <1>7, <1>8 DEF IInv, JobSound, KeySound

LEMMA WriteKeyStep ==
  ASSUME IInv, NEW p \in Person, WriteKey(p)
  PROVE  IInv'
  <1>0. /\ job' \in [Person -> Job] /\ \A q \in Person : q # p => job'[q] = job[q]
        /\ disk' \in [Person -> Folder] /\ \A q \in Person : q # p => disk'[q] = disk[q]
        /\ job[p].pc = "keyTmp" /\ job'[p].pc = "cfg"
        /\ job'[p].create = job[p].create /\ job'[p].net = job[p].net /\ job'[p].vip = job[p].vip
        /\ job'[p].key = job[p].key
        /\ disk'[p].dirTmp = DirOf(job[p].net, TRUE)
        /\ disk'[p].cfg = disk[p].cfg /\ disk'[p].dir = disk[p].dir
        /\ disk'[p].cfgTmp = disk[p].cfgTmp
        /\ UNCHANGED <<stage, nets, claimed, answered, invites, members, quits, crashed, listed>>
    <2> DEFINE f == [disk[p] EXCEPT !.dirTmp = DirOf(job[p].net, TRUE)]
               n == "cfg"
    <2>1. job[p].pc \notin {"idle", "members"} /\ Write(p, f, n) /\ n \in Pc
      BY DEF WriteKey, Pc
    <2>2. job[p].net \in 1..MaxNets /\ job[p].vip \in 1..Host
          /\ job[p].create \in BOOLEAN
      BY <2>1, Here, JobFacts DEF JobOK
    <2>3. /\ f \in Folder
          /\ f.dirTmp = DirOf(job[p].net, TRUE) /\ f.cfg = disk[p].cfg /\ f.dir = disk[p].dir
          /\ f.cfgTmp = disk[p].cfgTmp
      <3>1. disk[p] \in Folder /\ DirOf(job[p].net, TRUE) \in DirectorySettings
        BY <2>2, Here, Distinct, NothingFacts, FolderFacts
      <3> QED
        BY <3>1 DEF Folder
    <2> HIDE DEF f, n
    <2>4. /\ job' \in [Person -> Job] /\ \A q \in Person : q # p => job'[q] = job[q]
          /\ disk' \in [Person -> Folder] /\ \A q \in Person : q # p => disk'[q] = disk[q]
          /\ job'[p].pc = n /\ disk'[p] = f
          /\ job'[p].create = job[p].create /\ job'[p].net = job[p].net
          /\ job'[p].vip = job[p].vip /\ job'[p].key = job[p].key
          /\ UNCHANGED <<stage, nets, claimed, answered, invites, members, quits, crashed, listed>>
      BY <2>1, <2>3, WriteFacts DEF IInv
    <2> QED
      BY <2>3, <2>4 DEF WriteKey, n
  <1>1. TypeOK'
    BY <1>0, Here, FolderFacts, SetupAssumption DEF TypeOK, Stage, Shown, IInv, NetsSound
  <1>a. ASSUME NEW q \in Person, q # p
        PROVE  job'[q] = job[q] /\ disk'[q] = disk[q] /\ stage'[q] = stage[q]
    BY <1>0, <1>a
  <1>n. 1..nets \subseteq 1..nets'
    BY <1>0, Here
  <1>2. ASSUME NEW q \in Person PROVE JobOK(q)'
    <2>1. CASE q # p
      BY <1>a, <1>n, <2>1, Here, JobOKSame
    <2>2. CASE q = p
      <3>1. job'[p].net \in 1..nets' /\ job'[p].vip \in 1..Host /\ stage'[p] = "working"
        BY <1>0, Here, JobFacts DEF JobOK
      <3>2. /\ disk'[p].cfg = Nothing /\ disk'[p].dir = Nothing
            /\ disk'[p].cfgTmp = ConfigOf(job'[p].net, job'[p].vip)
            /\ disk'[p].dirTmp = DirOf(job'[p].net, TRUE)
        BY <1>0, Here, JobFacts DEF JobOK, Unnamed, Unclaimed
      <3> QED
        BY <1>0, <2>2, <3>1, <3>2 DEF JobOK, Unnamed, Unclaimed
    <2> QED
      BY <2>1, <2>2
  <1>3. ASSUME NEW q \in Person PROVE KeyOK(q)'
    <2>1. CASE q # p
      BY <1>0, <2>1, Here, JobFacts DEF KeyOK, IInv, NetsSound
    <2>2. CASE q = p
      BY <1>0, <2>2, Here, JobFacts, NoJobFacts
      DEF JobOK, KeyOK, IInv, NetsSound, Unclaimed, Pc, TypeOK
    <2> QED
      BY <2>1, <2>2
  <1>4. NetsSound'
    <2>1. claimed \subseteq claimed' /\ claimed' \subseteq 1..nets'
      BY <1>0, <1>n, Here DEF IInv, NetsSound
    <2>2. invites' \subseteq claimed'
      BY <1>0, <2>1, Here, JobFacts DEF IInv, NetsSound, KeyOK, Shown, Unclaimed
    <2>3. ASSUME NEW q \in Person, job'[p].create, job'[q].create, job'[p].net = job'[q].net, q # p
          PROVE  FALSE
      <3>1. job'[q] = job[q]
        BY <1>a, <2>3
      <3>2. job[p].create /\ job[q].create /\ job[p].net = job[q].net
        BY <1>0, <2>3, <3>1
      <3> QED
        BY <2>3, <3>2 DEF IInv, NetsSound
    <2>4. ASSUME NEW q \in Person, NEW r \in Person, q # p, r # p,
                 job'[r].create, job'[q].create, job'[r].net = job'[q].net
          PROVE  q = r
      BY <1>a, <2>4 DEF IInv, NetsSound
    <2> QED
      BY <2>1, <2>2, <2>3, <2>4 DEF NetsSound
  <1>5. ChosenFree'
    BY <1>0, Here, JobFacts, NoJobFacts DEF IInv, JobOK, ChosenFree, Unnamed, Unclaimed
  <1>6. OfOneNetwork' /\ MembersCanPublish' /\ ListedAddressKept'
    BY <1>0, Here, JobFacts, Distinct
    DEF IInv, OfOneNetwork, MembersCanPublish, ListedAddressKept,
        JobOK, KeyOK, ChosenFree, Unnamed, Unclaimed
  <1>7. ASSUME ~BadKey PROVE Tidy'
    <2> SUFFICES ASSUME NEW q \in Person \ crashed' PROVE TidyOK(q)'
      BY DEF Tidy
    <2>1. q \in Person \ crashed => TidyOK(q)
      BY <1>7 DEF IInv, Tidy
    <2>2. CASE q # p
      BY <1>0, <2>1, <2>2 DEF TidyOK
    <2>3. CASE q = p
      BY <1>0, <1>7, <2>1, <2>3, Here, JobFacts, FolderFacts, NoJobFacts, Distinct
      DEF TidyOK, JobOK, KeyOK, Unnamed, Unclaimed, Pc
    <2> QED
      BY <2>2, <2>3
  <1>8. ASSUME ~BadKey PROVE KeyKept'
    <2> SUFFICES ASSUME NEW n \in answered', crashed' = {}
                 PROVE  n \in invites' \/ \E q \in Person : job'[q].net = n /\ job'[q].create
      BY DEF KeyKept
    <2>1. invites \subseteq invites' /\ crashed = {}
      BY <1>0 DEF Shown
    <2>2. n \in answered => n \in invites \/ \E q \in Person : job[q].net = n /\ job[q].create
      BY <1>8, <2>1 DEF IInv, KeyKept
    <2>3. ASSUME NEW q \in Person, n \in answered, job[q].net = n, job[q].create
          PROVE  n \in invites' \/ \E r \in Person : job'[r].net = n /\ job'[r].create
      <3>1. CASE q # p
        BY <1>0, <2>3, <3>1
      <3>2. CASE q = p
        BY <1>0, <1>8, <2>1, <2>3, <3>2, Here, JobFacts, NoJobFacts
        DEF JobOK, KeyOK, Shown, Unclaimed, Pc
      <3> QED
        BY <3>1, <3>2
    <2> QED
      BY <1>0, <2>1, <2>2, <2>3, Here DEF JobOK
  <1> QED
    BY <1>1, <1>2, <1>3, <1>4, <1>5, <1>6, <1>7, <1>8 DEF IInv, JobSound, KeySound

LEMMA RenameConfigStep ==
  ASSUME IInv, NEW p \in Person, RenameConfig(p)
  PROVE  IInv'
  <1>0. /\ job' \in [Person -> Job] /\ \A q \in Person : q # p => job'[q] = job[q]
        /\ disk' \in [Person -> Folder] /\ \A q \in Person : q # p => disk'[q] = disk[q]
        /\ job[p].pc = "cfg" /\ job'[p].pc = "dir"
        /\ job'[p].create = job[p].create /\ job'[p].net = job[p].net /\ job'[p].vip = job[p].vip
        /\ job'[p].key = job[p].key
        /\ disk'[p].cfg = disk[p].cfgTmp
        /\ disk'[p].cfgTmp = Nothing
        /\ disk'[p].dir = disk[p].dir /\ disk'[p].dirTmp = disk[p].dirTmp
        /\ UNCHANGED <<stage, nets, claimed, answered, invites, members, quits, crashed, listed>>
    <2> DEFINE f == [disk[p] EXCEPT !.cfg = disk[p].cfgTmp, !.cfgTmp = Nothing]
               n == "dir"
    <2>1. job[p].pc \notin {"idle", "members"} /\ Write(p, f, n) /\ n \in Pc
      BY DEF RenameConfig, Pc
    <2>2. job[p].net \in 1..MaxNets /\ job[p].vip \in 1..Host
          /\ job[p].create \in BOOLEAN
      BY <2>1, Here, JobFacts DEF JobOK
    <2>3. /\ f \in Folder
          /\ f.cfg = disk[p].cfgTmp /\ f.cfgTmp = Nothing /\ f.dir = disk[p].dir
          /\ f.dirTmp = disk[p].dirTmp
      <3>1. disk[p] \in Folder /\ disk[p].cfgTmp \in Config /\ Nothing \in Config
        BY <2>2, Here, Distinct, NothingFacts, FolderFacts
      <3> QED
        BY <3>1 DEF Folder
    <2> HIDE DEF f, n
    <2>4. /\ job' \in [Person -> Job] /\ \A q \in Person : q # p => job'[q] = job[q]
          /\ disk' \in [Person -> Folder] /\ \A q \in Person : q # p => disk'[q] = disk[q]
          /\ job'[p].pc = n /\ disk'[p] = f
          /\ job'[p].create = job[p].create /\ job'[p].net = job[p].net
          /\ job'[p].vip = job[p].vip /\ job'[p].key = job[p].key
          /\ UNCHANGED <<stage, nets, claimed, answered, invites, members, quits, crashed, listed>>
      BY <2>1, <2>3, WriteFacts DEF IInv
    <2> QED
      BY <2>3, <2>4 DEF RenameConfig, n
  <1>1. TypeOK'
    BY <1>0, Here, FolderFacts, SetupAssumption DEF TypeOK, Stage, Shown, IInv, NetsSound
  <1>a. ASSUME NEW q \in Person, q # p
        PROVE  job'[q] = job[q] /\ disk'[q] = disk[q] /\ stage'[q] = stage[q]
    BY <1>0, <1>a
  <1>n. 1..nets \subseteq 1..nets'
    BY <1>0, Here
  <1>b. job[p].net \in 1..MaxNets /\ job[p].vip \in 1..Host
    BY <1>0, Here DEF JobOK
  <1>c. /\ ConfigOf(job[p].net, job[p].vip) # Nothing
        /\ ConfigOf(job[p].net, job[p].vip).net = job[p].net
        /\ ConfigOf(job[p].net, job[p].vip).vip = job[p].vip
        /\ DirOf(job[p].net, TRUE) # Nothing
        /\ DirOf(job[p].net, TRUE).net = job[p].net /\ DirOf(job[p].net, TRUE).key = TRUE
    <2>1. /\ ConfigOf(job[p].net, job[p].vip) # Nothing
          /\ ConfigOf(job[p].net, job[p].vip).net = job[p].net
          /\ ConfigOf(job[p].net, job[p].vip).vip = job[p].vip
      BY <1>b, ConfigFacts
    <2>2. /\ DirOf(job[p].net, TRUE) # Nothing
          /\ DirOf(job[p].net, TRUE).net = job[p].net /\ DirOf(job[p].net, TRUE).key = TRUE
      BY <1>b, DirFacts
    <2> QED
      BY <2>1, <2>2
  <1>2. ASSUME NEW q \in Person PROVE JobOK(q)'
    <2>1. CASE q # p
      BY <1>a, <1>n, <2>1, Here, JobOKSame
    <2>2. CASE q = p
      <3>1. job'[p].net \in 1..nets' /\ job'[p].vip \in 1..Host /\ stage'[p] = "working"
        BY <1>0, Here, JobFacts DEF JobOK
      <3>2. /\ disk'[p].cfg = ConfigOf(job'[p].net, job'[p].vip) /\ disk'[p].dir = Nothing
            /\ disk'[p].dirTmp = DirOf(job'[p].net, TRUE)
        BY <1>0, Here DEF JobOK, Unnamed
      <3>3. disk'[p].cfg # Nothing
        BY <1>0, <1>c, <3>2
      <3> QED
        BY <1>0, <2>2, <3>1, <3>2, <3>3 DEF JobOK, Unnamed, Unclaimed
    <2> QED
      BY <2>1, <2>2
  <1>3. ASSUME NEW q \in Person PROVE KeyOK(q)'
    <2>1. CASE q # p
      BY <1>0, <2>1, Here, JobFacts DEF KeyOK, IInv, NetsSound
    <2>2. CASE q = p
      BY <1>0, <2>2, Here, JobFacts, NoJobFacts
      DEF JobOK, KeyOK, IInv, NetsSound, Unclaimed, Pc, TypeOK
    <2> QED
      BY <2>1, <2>2
  <1>4. NetsSound'
    <2>1. claimed \subseteq claimed' /\ claimed' \subseteq 1..nets'
      BY <1>0, <1>n, Here DEF IInv, NetsSound
    <2>2. invites' \subseteq claimed'
      BY <1>0, <2>1, Here, JobFacts DEF IInv, NetsSound, KeyOK, Shown, Unclaimed
    <2>3. ASSUME NEW q \in Person, job'[p].create, job'[q].create, job'[p].net = job'[q].net, q # p
          PROVE  FALSE
      <3>1. job'[q] = job[q]
        BY <1>a, <2>3
      <3>2. job[p].create /\ job[q].create /\ job[p].net = job[q].net
        BY <1>0, <2>3, <3>1
      <3> QED
        BY <2>3, <3>2 DEF IInv, NetsSound
    <2>4. ASSUME NEW q \in Person, NEW r \in Person, q # p, r # p,
                 job'[r].create, job'[q].create, job'[r].net = job'[q].net
          PROVE  q = r
      BY <1>a, <2>4 DEF IInv, NetsSound
    <2> QED
      BY <2>1, <2>2, <2>3, <2>4 DEF NetsSound
  <1>5. ChosenFree'
    BY <1>0, Here, JobFacts, NoJobFacts DEF IInv, JobOK, ChosenFree, Unnamed, Unclaimed
  <1>6. OfOneNetwork' /\ MembersCanPublish' /\ ListedAddressKept'
    <2>1. /\ disk'[p].cfg = ConfigOf(job[p].net, job[p].vip) /\ disk'[p].dir = Nothing
          /\ disk'[p].cfg.vip = job[p].vip
      <3>1. disk[p].cfgTmp = ConfigOf(job[p].net, job[p].vip) /\ disk[p].dir = Nothing
        BY <1>0, Here DEF JobOK, Unnamed
      <3> QED
        BY <1>0, <1>c, <3>1
    <2>2. OfOneNetwork' /\ MembersCanPublish'
      BY <1>0, <2>1 DEF IInv, OfOneNetwork, MembersCanPublish
    <2>3. ListedAddressKept'
      BY <1>0, <2>1 DEF IInv, ListedAddressKept, ChosenFree, Unnamed, Unclaimed
    <2> QED
      BY <2>2, <2>3
  <1>7. ASSUME ~BadKey PROVE Tidy'
    <2> SUFFICES ASSUME NEW q \in Person \ crashed' PROVE TidyOK(q)'
      BY DEF Tidy
    <2>1. q \in Person \ crashed => TidyOK(q)
      BY <1>7 DEF IInv, Tidy
    <2>2. CASE q # p
      BY <1>0, <2>1, <2>2 DEF TidyOK
    <2>3. CASE q = p
      BY <1>0, <1>7, <2>1, <2>3, Here, JobFacts, FolderFacts, NoJobFacts, Distinct
      DEF TidyOK, JobOK, KeyOK, Unnamed, Unclaimed, Pc
    <2> QED
      BY <2>2, <2>3
  <1>8. ASSUME ~BadKey PROVE KeyKept'
    <2> SUFFICES ASSUME NEW n \in answered', crashed' = {}
                 PROVE  n \in invites' \/ \E q \in Person : job'[q].net = n /\ job'[q].create
      BY DEF KeyKept
    <2>1. invites \subseteq invites' /\ crashed = {}
      BY <1>0 DEF Shown
    <2>2. n \in answered => n \in invites \/ \E q \in Person : job[q].net = n /\ job[q].create
      BY <1>8, <2>1 DEF IInv, KeyKept
    <2>3. ASSUME NEW q \in Person, n \in answered, job[q].net = n, job[q].create
          PROVE  n \in invites' \/ \E r \in Person : job'[r].net = n /\ job'[r].create
      <3>1. CASE q # p
        BY <1>0, <2>3, <3>1
      <3>2. CASE q = p
        BY <1>0, <1>8, <2>1, <2>3, <3>2, Here, JobFacts, NoJobFacts
        DEF JobOK, KeyOK, Shown, Unclaimed, Pc
      <3> QED
        BY <3>1, <3>2
    <2> QED
      BY <1>0, <2>1, <2>2, <2>3, Here DEF JobOK
  <1> QED
    BY <1>1, <1>2, <1>3, <1>4, <1>5, <1>6, <1>7, <1>8 DEF IInv, JobSound, KeySound

LEMMA RenameDirectoryStep ==
  ASSUME IInv, NEW p \in Person, RenameDirectory(p)
  PROVE  IInv'
  <1>0. /\ job' \in [Person -> Job] /\ \A q \in Person : q # p => job'[q] = job[q]
        /\ disk' \in [Person -> Folder] /\ \A q \in Person : q # p => disk'[q] = disk[q]
        /\ job[p].pc = "dir" /\ job'[p].pc = "load"
        /\ job'[p].create = job[p].create /\ job'[p].net = job[p].net /\ job'[p].vip = job[p].vip
        /\ job'[p].key = job[p].key
        /\ disk'[p].dir = disk[p].dirTmp
        /\ disk'[p].dirTmp = Nothing
        /\ disk'[p].cfg = disk[p].cfg /\ disk'[p].cfgTmp = disk[p].cfgTmp
        /\ UNCHANGED <<stage, nets, claimed, answered, invites, members, quits, crashed, listed>>
    <2> DEFINE f == [disk[p] EXCEPT !.dir = disk[p].dirTmp, !.dirTmp = Nothing]
               n == "load"
    <2>1. job[p].pc \notin {"idle", "members"} /\ Write(p, f, n) /\ n \in Pc
      BY DEF RenameDirectory, Pc
    <2>2. job[p].net \in 1..MaxNets /\ job[p].vip \in 1..Host
          /\ job[p].create \in BOOLEAN
      BY <2>1, Here, JobFacts DEF JobOK
    <2>3. /\ f \in Folder
          /\ f.dir = disk[p].dirTmp /\ f.dirTmp = Nothing /\ f.cfg = disk[p].cfg
          /\ f.cfgTmp = disk[p].cfgTmp
      <3>1. /\ disk[p] \in Folder /\ disk[p].dirTmp \in DirectorySettings
            /\ Nothing \in DirectorySettings
        BY <2>2, Here, Distinct, NothingFacts, FolderFacts
      <3> QED
        BY <3>1 DEF Folder
    <2> HIDE DEF f, n
    <2>4. /\ job' \in [Person -> Job] /\ \A q \in Person : q # p => job'[q] = job[q]
          /\ disk' \in [Person -> Folder] /\ \A q \in Person : q # p => disk'[q] = disk[q]
          /\ job'[p].pc = n /\ disk'[p] = f
          /\ job'[p].create = job[p].create /\ job'[p].net = job[p].net
          /\ job'[p].vip = job[p].vip /\ job'[p].key = job[p].key
          /\ UNCHANGED <<stage, nets, claimed, answered, invites, members, quits, crashed, listed>>
      BY <2>1, <2>3, WriteFacts DEF IInv
    <2> QED
      BY <2>3, <2>4 DEF RenameDirectory, n
  <1>1. TypeOK'
    BY <1>0, Here, FolderFacts, SetupAssumption DEF TypeOK, Stage, Shown, IInv, NetsSound
  <1>a. ASSUME NEW q \in Person, q # p
        PROVE  job'[q] = job[q] /\ disk'[q] = disk[q] /\ stage'[q] = stage[q]
    BY <1>0, <1>a
  <1>n. 1..nets \subseteq 1..nets'
    BY <1>0, Here
  <1>b. job[p].net \in 1..MaxNets /\ job[p].vip \in 1..Host
    BY <1>0, Here DEF JobOK
  <1>c. /\ ConfigOf(job[p].net, job[p].vip) # Nothing
        /\ ConfigOf(job[p].net, job[p].vip).net = job[p].net
        /\ ConfigOf(job[p].net, job[p].vip).vip = job[p].vip
        /\ DirOf(job[p].net, TRUE) # Nothing
        /\ DirOf(job[p].net, TRUE).net = job[p].net /\ DirOf(job[p].net, TRUE).key = TRUE
    <2>1. /\ ConfigOf(job[p].net, job[p].vip) # Nothing
          /\ ConfigOf(job[p].net, job[p].vip).net = job[p].net
          /\ ConfigOf(job[p].net, job[p].vip).vip = job[p].vip
      BY <1>b, ConfigFacts
    <2>2. /\ DirOf(job[p].net, TRUE) # Nothing
          /\ DirOf(job[p].net, TRUE).net = job[p].net /\ DirOf(job[p].net, TRUE).key = TRUE
      BY <1>b, DirFacts
    <2> QED
      BY <2>1, <2>2
  <1>2. ASSUME NEW q \in Person PROVE JobOK(q)'
    <2>1. CASE q # p
      BY <1>a, <1>n, <2>1, Here, JobOKSame
    <2>2. CASE q = p
      <3>1. job'[p].net \in 1..nets' /\ job'[p].vip \in 1..Host /\ stage'[p] = "working"
        BY <1>0, Here, JobFacts DEF JobOK
      <3>2. /\ disk'[p].cfg = ConfigOf(job'[p].net, job'[p].vip)
            /\ disk'[p].dir = DirOf(job'[p].net, TRUE)
        <4>1. JobOK(p)
          BY Here
        <4> QED
          BY <1>0, <4>1 DEF JobOK
      <3>3. disk'[p].cfg # Nothing /\ disk'[p].dir # Nothing
        BY <1>0, <1>c, <3>2
      <3> QED
        BY <1>0, <2>2, <3>1, <3>2, <3>3 DEF JobOK, Unnamed, Unclaimed
    <2> QED
      BY <2>1, <2>2
  <1>3. ASSUME NEW q \in Person PROVE KeyOK(q)'
    <2>1. CASE q # p
      BY <1>0, <2>1, Here, JobFacts DEF KeyOK, IInv, NetsSound
    <2>2. CASE q = p
      BY <1>0, <2>2, Here, JobFacts, NoJobFacts
      DEF JobOK, KeyOK, IInv, NetsSound, Unclaimed, Pc, TypeOK
    <2> QED
      BY <2>1, <2>2
  <1>4. NetsSound'
    <2>1. claimed \subseteq claimed' /\ claimed' \subseteq 1..nets'
      BY <1>0, <1>n, Here DEF IInv, NetsSound
    <2>2. invites' \subseteq claimed'
      BY <1>0, <2>1, Here, JobFacts DEF IInv, NetsSound, KeyOK, Shown, Unclaimed
    <2>3. ASSUME NEW q \in Person, job'[p].create, job'[q].create, job'[p].net = job'[q].net, q # p
          PROVE  FALSE
      <3>1. job'[q] = job[q]
        BY <1>a, <2>3
      <3>2. job[p].create /\ job[q].create /\ job[p].net = job[q].net
        BY <1>0, <2>3, <3>1
      <3> QED
        BY <2>3, <3>2 DEF IInv, NetsSound
    <2>4. ASSUME NEW q \in Person, NEW r \in Person, q # p, r # p,
                 job'[r].create, job'[q].create, job'[r].net = job'[q].net
          PROVE  q = r
      BY <1>a, <2>4 DEF IInv, NetsSound
    <2> QED
      BY <2>1, <2>2, <2>3, <2>4 DEF NetsSound
  <1>5. ChosenFree'
    BY <1>0, Here, JobFacts, NoJobFacts DEF IInv, JobOK, ChosenFree, Unnamed, Unclaimed
  <1>6. OfOneNetwork' /\ MembersCanPublish' /\ ListedAddressKept'
    <2>1. /\ disk'[p].cfg = ConfigOf(job[p].net, job[p].vip)
          /\ disk'[p].dir = DirOf(job[p].net, TRUE) /\ disk'[p].cfg = disk[p].cfg
      BY <1>0, Here DEF JobOK
    <2>3. /\ disk'[p].cfg.net = job[p].net /\ disk'[p].dir.net = job[p].net /\ disk'[p].dir.key
      BY <2>1, <1>c
    <2>4. job[p].net \in claimed
      BY <1>0, Here, JobFacts DEF JobOK, KeyOK, Unclaimed
    <2>5. OfOneNetwork' /\ MembersCanPublish'
      BY <1>0, <2>3, <2>4 DEF IInv, OfOneNetwork, MembersCanPublish
    <2>6. ListedAddressKept'
      BY <1>0, <2>1 DEF IInv, ListedAddressKept
    <2> QED
      BY <2>5, <2>6
  <1>7. ASSUME ~BadKey PROVE Tidy'
    <2> SUFFICES ASSUME NEW q \in Person \ crashed' PROVE TidyOK(q)'
      BY DEF Tidy
    <2>1. q \in Person \ crashed => TidyOK(q)
      BY <1>7 DEF IInv, Tidy
    <2>2. CASE q # p
      BY <1>0, <2>1, <2>2 DEF TidyOK
    <2>3. CASE q = p
      BY <1>0, <1>7, <2>1, <2>3, Here, JobFacts, FolderFacts, NoJobFacts, Distinct
      DEF TidyOK, JobOK, KeyOK, Unnamed, Unclaimed, Pc
    <2> QED
      BY <2>2, <2>3
  <1>8. ASSUME ~BadKey PROVE KeyKept'
    <2> SUFFICES ASSUME NEW n \in answered', crashed' = {}
                 PROVE  n \in invites' \/ \E q \in Person : job'[q].net = n /\ job'[q].create
      BY DEF KeyKept
    <2>1. invites \subseteq invites' /\ crashed = {}
      BY <1>0 DEF Shown
    <2>2. n \in answered => n \in invites \/ \E q \in Person : job[q].net = n /\ job[q].create
      BY <1>8, <2>1 DEF IInv, KeyKept
    <2>3. ASSUME NEW q \in Person, n \in answered, job[q].net = n, job[q].create
          PROVE  n \in invites' \/ \E r \in Person : job'[r].net = n /\ job'[r].create
      <3>1. CASE q # p
        BY <1>0, <2>3, <3>1
      <3>2. CASE q = p
        BY <1>0, <1>8, <2>1, <2>3, <3>2, Here, JobFacts, NoJobFacts
        DEF JobOK, KeyOK, Shown, Unclaimed, Pc
      <3> QED
        BY <3>1, <3>2
    <2> QED
      BY <1>0, <2>1, <2>2, <2>3, Here DEF JobOK
  <1> QED
    BY <1>1, <1>2, <1>3, <1>4, <1>5, <1>6, <1>7, <1>8 DEF IInv, JobSound, KeySound

LEMMA ClaimStep ==
  ASSUME IInv, NEW p \in Person, Claim(p)
  PROVE  IInv'
  <1>0. /\ job' \in [Person -> Job] /\ \A q \in Person : q # p => job'[q] = job[q]
        /\ job[p].pc = "claim" /\ job'[p].pc = "encode"
        /\ job'[p].create = job[p].create /\ job'[p].net = job[p].net /\ job'[p].vip = job[p].vip
        /\ job'[p].key \in {"good", "bad"} /\ (job'[p].key = "bad" => BadKey)
        /\ claimed' = claimed \cup {job[p].net} /\ answered' = answered \cup {job[p].net}
        /\ UNCHANGED <<disk, stage, nets, invites, members, quits, crashed, listed>>
    <2>1. PICK k \in {"good"} \cup IF BadKey THEN {"bad"} ELSE {} :
            job' = [job EXCEPT ![p].pc = "encode", ![p].key = k]
      BY DEF Claim
    <2>2. k \in {"good", "bad"} /\ (k = "bad" => BadKey)
      OBVIOUS
    <2>3. job[p] \in Job /\ job \in [Person -> Job]
      BY DEF IInv, TypeOK
    <2>4. job' \in [Person -> Job] /\ \A q \in Person : q # p => job'[q] = job[q]
      BY <2>1, <2>2, <2>3 DEF Job, Pc
    <2>5. /\ job'[p].pc = "encode" /\ job'[p].create = job[p].create /\ job'[p].net = job[p].net
          /\ job'[p].vip = job[p].vip /\ job'[p].key = k
      BY <2>1, <2>2, <2>3 DEF Job
    <2> QED
      BY <2>2, <2>4, <2>5 DEF Claim
  <1>1. TypeOK'
    BY <1>0, Here, FolderFacts, SetupAssumption DEF TypeOK, Stage, Shown, IInv, NetsSound
  <1>a. ASSUME NEW q \in Person, q # p
        PROVE  job'[q] = job[q] /\ disk'[q] = disk[q] /\ stage'[q] = stage[q]
    BY <1>0, <1>a
  <1>n. 1..nets \subseteq 1..nets'
    BY <1>0, Here
  <1>2. ASSUME NEW q \in Person PROVE JobOK(q)'
    <2>1. CASE q # p
      BY <1>a, <1>n, <2>1, Here, JobOKSame
    <2>2. CASE q = p
      <3>1. /\ job[p].create /\ stage[p] = "working" /\ job[p].net \in 1..nets
            /\ job[p].vip \in 1..Host
        BY <1>0, Here DEF JobOK
      <3>2. /\ disk[p].cfgTmp = ConfigOf(job[p].net, job[p].vip)
            /\ disk[p].cfg = Nothing /\ disk[p].dir = Nothing
        BY <1>0, Here DEF JobOK, Unnamed, Unclaimed
      <3>3. job'[p].create
        BY <1>0, <3>1
      <3> QED
        BY <1>0, <2>2, <3>1, <3>2, <3>3 DEF JobOK, Unnamed, Unclaimed
    <2> QED
      BY <2>1, <2>2
  <1>3. ASSUME NEW q \in Person PROVE KeyOK(q)'
    <2>3. job[p].create
      BY <1>0, Here DEF JobOK
    <2>1. CASE q # p
      <3>1. job'[q] = job[q] /\ KeyOK(q)
        BY <1>0, <2>1, Here
      <3>2. job[q].create => job[q].net # job[p].net
        BY <2>1, <2>3 DEF IInv, NetsSound
      <3> QED
        BY <1>0, <3>1, <3>2 DEF KeyOK
    <2>2. CASE q = p
      <3>1. job'[p].create
        BY <1>0, <2>3
      <3>2. /\ job'[p].key \in {"good", "bad"} /\ (job'[p].key = "bad" => BadKey)
            /\ job'[p].pc = "encode" /\ job'[p].net \in claimed'
        BY <1>0
      <3> QED
        BY <2>2, <3>1, <3>2 DEF KeyOK, Unclaimed
    <2> QED
      BY <2>1, <2>2
  <1>4. NetsSound'
    <2>1. claimed \subseteq claimed' /\ claimed' \subseteq 1..nets'
      BY <1>0, <1>n, Here DEF IInv, NetsSound
    <2>2. invites' \subseteq claimed'
      BY <1>0, <2>1, Here, JobFacts DEF IInv, NetsSound, KeyOK, Shown, Unclaimed
    <2>3. ASSUME NEW q \in Person, job'[p].create, job'[q].create, job'[p].net = job'[q].net, q # p
          PROVE  FALSE
      BY <1>0, <1>a, <2>3, Creating, Here, NoJobFacts DEF IInv, NetsSound
    <2>4. ASSUME NEW q \in Person, NEW r \in Person, q # p, r # p,
                 job'[r].create, job'[q].create, job'[r].net = job'[q].net
          PROVE  q = r
      BY <1>a, <2>4 DEF IInv, NetsSound
    <2> QED
      BY <2>1, <2>2, <2>3, <2>4 DEF NetsSound
  <1>5. ChosenFree'
    BY <1>0, Here, JobFacts, NoJobFacts DEF IInv, JobOK, ChosenFree, Unnamed, Unclaimed
  <1>6. OfOneNetwork' /\ MembersCanPublish' /\ ListedAddressKept'
    BY <1>0, Here, JobFacts, Distinct
    DEF IInv, OfOneNetwork, MembersCanPublish, ListedAddressKept,
        JobOK, KeyOK, ChosenFree, Unnamed, Unclaimed
  <1>7. ASSUME ~BadKey PROVE Tidy'
    <2> SUFFICES ASSUME NEW q \in Person \ crashed' PROVE TidyOK(q)'
      BY DEF Tidy
    <2>1. q \in Person \ crashed => TidyOK(q)
      BY <1>7 DEF IInv, Tidy
    <2>2. CASE q # p
      BY <1>0, <2>1, <2>2 DEF TidyOK
    <2>3. CASE q = p
      BY <1>0, <1>7, <2>1, <2>3, Here, JobFacts, FolderFacts, NoJobFacts, Distinct
      DEF TidyOK, JobOK, KeyOK, Unnamed, Unclaimed, Pc
    <2> QED
      BY <2>2, <2>3
  <1>8. ASSUME ~BadKey PROVE KeyKept'
    <2> SUFFICES ASSUME NEW n \in answered', crashed' = {}
                 PROVE  n \in invites' \/ \E q \in Person : job'[q].net = n /\ job'[q].create
      BY DEF KeyKept
    <2>1. invites \subseteq invites' /\ crashed = {}
      BY <1>0 DEF Shown
    <2>2. n \in answered => n \in invites \/ \E q \in Person : job[q].net = n /\ job[q].create
      BY <1>8, <2>1 DEF IInv, KeyKept
    <2>3. ASSUME NEW q \in Person, n \in answered, job[q].net = n, job[q].create
          PROVE  n \in invites' \/ \E r \in Person : job'[r].net = n /\ job'[r].create
      <3>1. CASE q # p
        BY <1>0, <2>3, <3>1
      <3>2. CASE q = p
        BY <1>0, <1>8, <2>1, <2>3, <3>2, Here, JobFacts, NoJobFacts
        DEF JobOK, KeyOK, Shown, Unclaimed, Pc
      <3> QED
        BY <3>1, <3>2
    <2> QED
      <3>1. CASE n \in answered
        BY <2>1, <2>2, <2>3, <3>1
      <3>2. CASE n = job[p].net
        <4>1. job[p].create
          BY <1>0, Here DEF JobOK
        <4> QED
          BY <1>0, <3>2, <4>1
      <3> QED
        BY <1>0, <3>1, <3>2
  <1> QED
    BY <1>1, <1>2, <1>3, <1>4, <1>5, <1>6, <1>7, <1>8 DEF IInv, JobSound, KeySound

LEMMA ClaimFailsStep ==
  ASSUME IInv, NEW p \in Person, ClaimFails(p)
  PROVE  IInv'
  <1>0. /\ job' \in [Person -> Job] /\ \A q \in Person : q # p => job'[q] = job[q]
        /\ stage' \in [Person -> Stage] /\ \A q \in Person : q # p => stage'[q] = stage[q]
        /\ disk' \in [Person -> Folder] /\ \A q \in Person : q # p => disk'[q] = disk[q]
        /\ job[p].pc = "claim" /\ job'[p] = NoJob /\ stage'[p] = "setup"
        /\ disk'[p].cfg = disk[p].cfg /\ disk'[p].dir = disk[p].dir
        /\ disk'[p].cfgTmp = Nothing /\ disk'[p].dirTmp = Nothing
        /\ claimed' \in {claimed, claimed \cup {job[p].net}}
        /\ UNCHANGED <<nets, answered, invites, members, quits, crashed, listed>>
    <2>1. CleanUp(p) \in Folder /\ disk' = [disk EXCEPT ![p] = CleanUp(p)] /\ job[p].pc # "dir"
      BY CleanUpFacts DEF IInv, ClaimFails
    <2>2. /\ disk' \in [Person -> Folder] /\ disk'[p] = CleanUp(p)
          /\ \A q \in Person : q # p => disk'[q] = disk[q]
      BY <2>1 DEF IInv, TypeOK
    <2> QED
      BY <2>1, <2>2, EndsFacts DEF IInv, CleanUp, ClaimFails, Stage
  <1>1. TypeOK'
    BY <1>0, Here, FolderFacts, SetupAssumption DEF TypeOK, Stage, Shown, IInv, NetsSound
  <1>a. ASSUME NEW q \in Person, q # p
        PROVE  job'[q] = job[q] /\ disk'[q] = disk[q] /\ stage'[q] = stage[q]
    BY <1>0, <1>a
  <1>n. 1..nets \subseteq 1..nets'
    BY <1>0, Here
  <1>2. ASSUME NEW q \in Person PROVE JobOK(q)'
    <2>1. CASE q # p
      BY <1>a, <1>n, <2>1, Here, JobOKSame
    <2>2. CASE q = p
      BY <1>0, <2>2, Here, JobFacts, FolderFacts, NoJobFacts, Distinct
      DEF JobOK, KeyOK, IInv, NetsSound, Unnamed, Unclaimed, Pc
    <2> QED
      BY <2>1, <2>2
  <1>3. ASSUME NEW q \in Person PROVE KeyOK(q)'
    <2>1. CASE q # p
      BY <1>0, <2>1, Here, JobFacts DEF KeyOK, IInv, NetsSound
    <2>2. CASE q = p
      BY <1>0, <2>2, Here, JobFacts, NoJobFacts
      DEF JobOK, KeyOK, IInv, NetsSound, Unclaimed, Pc, TypeOK
    <2> QED
      BY <2>1, <2>2
  <1>4. NetsSound'
    <2>1. claimed \subseteq claimed' /\ claimed' \subseteq 1..nets'
      BY <1>0, <1>n, Here DEF IInv, NetsSound
    <2>2. invites' \subseteq claimed'
      BY <1>0, <2>1, Here, JobFacts DEF IInv, NetsSound, KeyOK, Shown, Unclaimed
    <2>3. ASSUME NEW q \in Person, job'[p].create, job'[q].create, job'[p].net = job'[q].net, q # p
          PROVE  FALSE
      BY <1>0, <1>a, <2>3, Creating, Here, NoJobFacts DEF IInv, NetsSound
    <2>4. ASSUME NEW q \in Person, NEW r \in Person, q # p, r # p,
                 job'[r].create, job'[q].create, job'[r].net = job'[q].net
          PROVE  q = r
      BY <1>a, <2>4 DEF IInv, NetsSound
    <2> QED
      BY <2>1, <2>2, <2>3, <2>4 DEF NetsSound
  <1>5. ChosenFree'
    BY <1>0, Here, JobFacts, NoJobFacts DEF IInv, JobOK, ChosenFree, Unnamed, Unclaimed
  <1>6. OfOneNetwork' /\ MembersCanPublish' /\ ListedAddressKept'
    BY <1>0, Here, JobFacts, Distinct
    DEF IInv, OfOneNetwork, MembersCanPublish, ListedAddressKept,
        JobOK, KeyOK, ChosenFree, Unnamed, Unclaimed
  <1>7. ASSUME ~BadKey PROVE Tidy'
    <2> SUFFICES ASSUME NEW q \in Person \ crashed' PROVE TidyOK(q)'
      BY DEF Tidy
    <2>1. q \in Person \ crashed => TidyOK(q)
      BY <1>7 DEF IInv, Tidy
    <2>2. CASE q # p
      BY <1>0, <2>1, <2>2 DEF TidyOK
    <2>3. CASE q = p
      BY <1>0, <1>7, <2>1, <2>3, Here, JobFacts, FolderFacts, NoJobFacts, Distinct
      DEF TidyOK, JobOK, KeyOK, Unnamed, Unclaimed, Pc
    <2> QED
      BY <2>2, <2>3
  <1>8. ASSUME ~BadKey PROVE KeyKept'
    <2> SUFFICES ASSUME NEW n \in answered', crashed' = {}
                 PROVE  n \in invites' \/ \E q \in Person : job'[q].net = n /\ job'[q].create
      BY DEF KeyKept
    <2>1. invites \subseteq invites' /\ crashed = {}
      BY <1>0 DEF Shown
    <2>2. n \in answered => n \in invites \/ \E q \in Person : job[q].net = n /\ job[q].create
      BY <1>8, <2>1 DEF IInv, KeyKept
    <2>3. ASSUME NEW q \in Person, n \in answered, job[q].net = n, job[q].create
          PROVE  n \in invites' \/ \E r \in Person : job'[r].net = n /\ job'[r].create
      <3>1. CASE q # p
        BY <1>0, <2>3, <3>1
      <3>2. CASE q = p
        BY <1>0, <1>8, <2>1, <2>3, <3>2, Here, JobFacts, NoJobFacts, NotAnsweredYet
        DEF JobOK, KeyOK, Shown, Unclaimed, Pc
      <3> QED
        BY <3>1, <3>2
    <2> QED
      BY <1>0, <2>1, <2>2, <2>3, Here DEF JobOK
  <1> QED
    BY <1>1, <1>2, <1>3, <1>4, <1>5, <1>6, <1>7, <1>8 DEF IInv, JobSound, KeySound

LEMMA EncodeInviteStep ==
  ASSUME IInv, NEW p \in Person, EncodeInvite(p)
  PROVE  IInv'
  <1>0. /\ job' \in [Person -> Job] /\ \A q \in Person : q # p => job'[q] = job[q]
        /\ stage' \in [Person -> Stage] /\ \A q \in Person : q # p => stage'[q] = stage[q]
        /\ job[p].pc = "encode"
        /\ job[p].key = "good" => /\ UNCHANGED stage /\ job'[p].pc = "keyTmp" /\ job'[p].create = job[p].create /\ job'[p].net = job[p].net /\ job'[p].vip = job[p].vip /\ job'[p].key = job[p].key
        /\ job[p].key # "good" => job'[p] = NoJob /\ stage'[p] = "setup"
        /\ UNCHANGED <<disk, nets, claimed, answered, invites, members, quits, crashed, listed>>
    <2>1. CASE job[p].key = "good"
      BY <2>1, GotoFacts DEF IInv, TypeOK, EncodeInvite, Pc
    <2>2. CASE job[p].key # "good"
      BY <2>2, EndsFacts DEF IInv, EncodeInvite, Stage
    <2> QED
      BY <2>1, <2>2
  <1>1. TypeOK'
    BY <1>0, Here, FolderFacts, SetupAssumption DEF TypeOK, Stage, Shown, IInv, NetsSound
  <1>a. ASSUME NEW q \in Person, q # p
        PROVE  job'[q] = job[q] /\ disk'[q] = disk[q] /\ stage'[q] = stage[q]
    BY <1>0, <1>a
  <1>n. 1..nets \subseteq 1..nets'
    BY <1>0, Here
  <1>2. ASSUME NEW q \in Person PROVE JobOK(q)'
    <2>1. CASE q # p
      BY <1>a, <1>n, <2>1, Here, JobOKSame
    <2>2. CASE q = p
      <3>1. job[p].key = "good" => job'[p].net \in 1..nets' /\ job'[p].vip \in 1..Host /\ stage'[p] = "working"
        BY <1>0, Here, JobFacts DEF JobOK
      <3>2. disk'[p].cfg = Nothing /\ disk'[p].dir = Nothing /\ (job[p].key = "good" => disk'[p].cfgTmp = ConfigOf(job'[p].net, job'[p].vip))
        BY <1>0, Here, JobFacts DEF JobOK, Unnamed, Unclaimed
      <3>3. job[p].key # "good" => job'[p].pc = "idle"
        BY <1>0, NoJobFacts
      <3> QED
        BY <1>0, <2>2, <3>1, <3>2, <3>3 DEF JobOK, Unnamed, Unclaimed
    <2> QED
      BY <2>1, <2>2
  <1>3. ASSUME NEW q \in Person PROVE KeyOK(q)'
    <2>1. CASE q # p
      BY <1>0, <2>1, Here, JobFacts DEF KeyOK, IInv, NetsSound
    <2>2. CASE q = p
      BY <1>0, <2>2, Here, JobFacts, NoJobFacts
      DEF JobOK, KeyOK, IInv, NetsSound, Unclaimed, Pc, TypeOK
    <2> QED
      BY <2>1, <2>2
  <1>4. NetsSound'
    <2>1. claimed \subseteq claimed' /\ claimed' \subseteq 1..nets'
      BY <1>0, <1>n, Here DEF IInv, NetsSound
    <2>2. invites' \subseteq claimed'
      BY <1>0, <2>1, Here, JobFacts DEF IInv, NetsSound, KeyOK, Shown, Unclaimed
    <2>3. ASSUME NEW q \in Person, job'[p].create, job'[q].create, job'[p].net = job'[q].net, q # p
          PROVE  FALSE
      BY <1>0, <1>a, <2>3, Creating, Here, NoJobFacts DEF IInv, NetsSound
    <2>4. ASSUME NEW q \in Person, NEW r \in Person, q # p, r # p,
                 job'[r].create, job'[q].create, job'[r].net = job'[q].net
          PROVE  q = r
      BY <1>a, <2>4 DEF IInv, NetsSound
    <2> QED
      BY <2>1, <2>2, <2>3, <2>4 DEF NetsSound
  <1>5. ChosenFree'
    BY <1>0, Here, JobFacts, NoJobFacts DEF IInv, JobOK, ChosenFree, Unnamed, Unclaimed
  <1>6. OfOneNetwork' /\ MembersCanPublish' /\ ListedAddressKept'
    BY <1>0, Here, JobFacts, Distinct
    DEF IInv, OfOneNetwork, MembersCanPublish, ListedAddressKept,
        JobOK, KeyOK, ChosenFree, Unnamed, Unclaimed
  <1>7. ASSUME ~BadKey PROVE Tidy'
    <2> SUFFICES ASSUME NEW q \in Person \ crashed' PROVE TidyOK(q)'
      BY DEF Tidy
    <2>1. q \in Person \ crashed => TidyOK(q)
      BY <1>7 DEF IInv, Tidy
    <2>2. CASE q # p
      BY <1>0, <2>1, <2>2 DEF TidyOK
    <2>3. CASE q = p
      BY <1>0, <1>7, <2>1, <2>3, Here, JobFacts, FolderFacts, NoJobFacts, Distinct
      DEF TidyOK, JobOK, KeyOK, Unnamed, Unclaimed, Pc
    <2> QED
      BY <2>2, <2>3
  <1>8. ASSUME ~BadKey PROVE KeyKept'
    <2> SUFFICES ASSUME NEW n \in answered', crashed' = {}
                 PROVE  n \in invites' \/ \E q \in Person : job'[q].net = n /\ job'[q].create
      BY DEF KeyKept
    <2>1. invites \subseteq invites' /\ crashed = {}
      BY <1>0 DEF Shown
    <2>2. n \in answered => n \in invites \/ \E q \in Person : job[q].net = n /\ job[q].create
      BY <1>8, <2>1 DEF IInv, KeyKept
    <2>3. ASSUME NEW q \in Person, n \in answered, job[q].net = n, job[q].create
          PROVE  n \in invites' \/ \E r \in Person : job'[r].net = n /\ job'[r].create
      <3>1. CASE q # p
        BY <1>0, <2>3, <3>1
      <3>2. CASE q = p
        BY <1>0, <1>8, <2>1, <2>3, <3>2, Here, JobFacts, NoJobFacts
        DEF JobOK, KeyOK, Shown, Unclaimed, Pc
      <3> QED
        BY <3>1, <3>2
    <2> QED
      BY <1>0, <2>1, <2>2, <2>3, Here DEF JobOK
  <1> QED
    BY <1>1, <1>2, <1>3, <1>4, <1>5, <1>6, <1>7, <1>8 DEF IInv, JobSound, KeySound

LEMMA DiskFailsStep ==
  ASSUME IInv, NEW p \in Person, DiskFails(p)
  PROVE  IInv'
  <1>0. /\ job' \in [Person -> Job] /\ \A q \in Person : q # p => job'[q] = job[q]
        /\ stage' \in [Person -> Stage] /\ \A q \in Person : q # p => stage'[q] = stage[q]
        /\ disk' \in [Person -> Folder] /\ \A q \in Person : q # p => disk'[q] = disk[q]
        /\ job[p].pc \in {"cfgTmp", "dirTmp", "keyTmp", "cfg", "dir"} /\ job'[p] = NoJob
        /\ stage'[p] = "setup"
        /\ disk'[p].cfg = (IF job[p].pc = "dir" THEN Nothing ELSE disk[p].cfg)
        /\ disk'[p].dir = disk[p].dir
        /\ disk'[p].cfgTmp = Nothing /\ disk'[p].dirTmp = Nothing
        /\ invites' = Shown(p)
        /\ UNCHANGED <<nets, claimed, answered, members, quits, crashed, listed>>
    <2>1. CleanUp(p) \in Folder /\ disk' = [disk EXCEPT ![p] = CleanUp(p)]
      BY CleanUpFacts DEF IInv, DiskFails
    <2>2. /\ disk' \in [Person -> Folder] /\ disk'[p] = CleanUp(p)
          /\ \A q \in Person : q # p => disk'[q] = disk[q]
      BY <2>1 DEF IInv, TypeOK
    <2> QED
      BY <2>1, <2>2, EndsFacts DEF IInv, CleanUp, DiskFails, Stage
  <1>1. TypeOK'
    BY <1>0, Here, FolderFacts, SetupAssumption DEF TypeOK, Stage, Shown, IInv, NetsSound
  <1>a. ASSUME NEW q \in Person, q # p
        PROVE  job'[q] = job[q] /\ disk'[q] = disk[q] /\ stage'[q] = stage[q]
    BY <1>0, <1>a
  <1>n. 1..nets \subseteq 1..nets'
    BY <1>0, Here
  <1>2. ASSUME NEW q \in Person PROVE JobOK(q)'
    <2>1. CASE q # p
      BY <1>a, <1>n, <2>1, Here, JobOKSame
    <2>2. CASE q = p
      BY <1>0, <2>2, Here, JobFacts, FolderFacts, NoJobFacts, Distinct
      DEF JobOK, KeyOK, IInv, NetsSound, Unnamed, Unclaimed, Pc
    <2> QED
      BY <2>1, <2>2
  <1>3. ASSUME NEW q \in Person PROVE KeyOK(q)'
    <2>1. CASE q # p
      BY <1>0, <2>1, Here, JobFacts DEF KeyOK, IInv, NetsSound
    <2>2. CASE q = p
      BY <1>0, <2>2, Here, JobFacts, NoJobFacts
      DEF JobOK, KeyOK, IInv, NetsSound, Unclaimed, Pc, TypeOK
    <2> QED
      BY <2>1, <2>2
  <1>4. NetsSound'
    <2>1. claimed \subseteq claimed' /\ claimed' \subseteq 1..nets'
      BY <1>0, <1>n, Here DEF IInv, NetsSound
    <2>2. invites' \subseteq claimed'
      BY <1>0, <2>1, Here, JobFacts DEF IInv, NetsSound, KeyOK, Shown, Unclaimed
    <2>3. ASSUME NEW q \in Person, job'[p].create, job'[q].create, job'[p].net = job'[q].net, q # p
          PROVE  FALSE
      BY <1>0, <1>a, <2>3, Creating, Here, NoJobFacts DEF IInv, NetsSound
    <2>4. ASSUME NEW q \in Person, NEW r \in Person, q # p, r # p,
                 job'[r].create, job'[q].create, job'[r].net = job'[q].net
          PROVE  q = r
      BY <1>a, <2>4 DEF IInv, NetsSound
    <2> QED
      BY <2>1, <2>2, <2>3, <2>4 DEF NetsSound
  <1>5. ChosenFree'
    BY <1>0, Here, JobFacts, NoJobFacts DEF IInv, JobOK, ChosenFree, Unnamed, Unclaimed
  <1>6. OfOneNetwork' /\ MembersCanPublish' /\ ListedAddressKept'
    BY <1>0, Here, JobFacts, Distinct
    DEF IInv, OfOneNetwork, MembersCanPublish, ListedAddressKept,
        JobOK, KeyOK, ChosenFree, Unnamed, Unclaimed
  <1>7. ASSUME ~BadKey PROVE Tidy'
    <2> SUFFICES ASSUME NEW q \in Person \ crashed' PROVE TidyOK(q)'
      BY DEF Tidy
    <2>1. q \in Person \ crashed => TidyOK(q)
      BY <1>7 DEF IInv, Tidy
    <2>2. CASE q # p
      BY <1>0, <2>1, <2>2 DEF TidyOK
    <2>3. CASE q = p
      <3>1. disk'[p].cfg = Nothing /\ disk'[p].dir = Nothing
        <4>1. JobOK(p)
          BY Here
        <4>2. job[p].pc \in Unnamed \/ job[p].pc = "dir"
          BY <1>0 DEF Unnamed, Unclaimed
        <4> QED
          BY <1>0, <4>1, <4>2 DEF JobOK
      <3> QED
        BY <1>0, <2>3, <3>1, NoJobFacts DEF TidyOK
    <2> QED
      BY <2>2, <2>3
  <1>8. ASSUME ~BadKey PROVE KeyKept'
    <2> SUFFICES ASSUME NEW n \in answered', crashed' = {}
                 PROVE  n \in invites' \/ \E q \in Person : job'[q].net = n /\ job'[q].create
      BY DEF KeyKept
    <2>1. invites \subseteq invites' /\ crashed = {}
      BY <1>0 DEF Shown
    <2>2. n \in answered => n \in invites \/ \E q \in Person : job[q].net = n /\ job[q].create
      BY <1>8, <2>1 DEF IInv, KeyKept
    <2>3. ASSUME NEW q \in Person, n \in answered, job[q].net = n, job[q].create
          PROVE  n \in invites' \/ \E r \in Person : job'[r].net = n /\ job'[r].create
      <3>1. CASE q # p
        BY <1>0, <2>3, <3>1
      <3>2. CASE q = p
        BY <1>0, <1>8, <2>1, <2>3, <3>2, Here, JobFacts, NoJobFacts, NotAnsweredYet
        DEF JobOK, KeyOK, Shown, Unclaimed, Pc
      <3> QED
        BY <3>1, <3>2
    <2> QED
      BY <1>0, <2>1, <2>2, <2>3, Here DEF JobOK
  <1> QED
    BY <1>1, <1>2, <1>3, <1>4, <1>5, <1>6, <1>7, <1>8 DEF IInv, JobSound, KeySound

LEMMA FinishStep ==
  ASSUME IInv, NEW p \in Person, Finish(p)
  PROVE  IInv'
  <1>0. /\ job' \in [Person -> Job] /\ \A q \in Person : q # p => job'[q] = job[q]
        /\ stage' \in [Person -> Stage] /\ \A q \in Person : q # p => stage'[q] = stage[q]
        /\ job[p].pc = "load" /\ job'[p] = NoJob /\ stage'[p] \in {"created", "setup", "running"}
        /\ invites' = Shown(p)
        /\ UNCHANGED <<disk, nets, claimed, answered, members, quits, crashed, listed>>
    BY EndsFacts DEF IInv, Finish, Stage
  <1>1. TypeOK'
    BY <1>0, Here, FolderFacts, SetupAssumption DEF TypeOK, Stage, Shown, IInv, NetsSound
  <1>a. ASSUME NEW q \in Person, q # p
        PROVE  job'[q] = job[q] /\ disk'[q] = disk[q] /\ stage'[q] = stage[q]
    BY <1>0, <1>a
  <1>n. 1..nets \subseteq 1..nets'
    BY <1>0, Here
  <1>2. ASSUME NEW q \in Person PROVE JobOK(q)'
    <2>1. CASE q # p
      BY <1>a, <1>n, <2>1, Here, JobOKSame
    <2>2. CASE q = p
      BY <1>0, <2>2, Here, JobFacts, FolderFacts, NoJobFacts, Distinct
      DEF JobOK, KeyOK, IInv, NetsSound, Unnamed, Unclaimed, Pc
    <2> QED
      BY <2>1, <2>2
  <1>3. ASSUME NEW q \in Person PROVE KeyOK(q)'
    <2>1. CASE q # p
      BY <1>0, <2>1, Here, JobFacts DEF KeyOK, IInv, NetsSound
    <2>2. CASE q = p
      BY <1>0, <2>2, Here, JobFacts, NoJobFacts
      DEF JobOK, KeyOK, IInv, NetsSound, Unclaimed, Pc, TypeOK
    <2> QED
      BY <2>1, <2>2
  <1>4. NetsSound'
    <2>1. claimed \subseteq claimed' /\ claimed' \subseteq 1..nets'
      BY <1>0, <1>n, Here DEF IInv, NetsSound
    <2>2. invites' \subseteq claimed'
      BY <1>0, <2>1, Here, JobFacts DEF IInv, NetsSound, KeyOK, Shown, Unclaimed
    <2>3. ASSUME NEW q \in Person, job'[p].create, job'[q].create, job'[p].net = job'[q].net, q # p
          PROVE  FALSE
      BY <1>0, <1>a, <2>3, Creating, Here, NoJobFacts DEF IInv, NetsSound
    <2>4. ASSUME NEW q \in Person, NEW r \in Person, q # p, r # p,
                 job'[r].create, job'[q].create, job'[r].net = job'[q].net
          PROVE  q = r
      BY <1>a, <2>4 DEF IInv, NetsSound
    <2> QED
      BY <2>1, <2>2, <2>3, <2>4 DEF NetsSound
  <1>5. ChosenFree'
    BY <1>0, Here, JobFacts, NoJobFacts DEF IInv, JobOK, ChosenFree, Unnamed, Unclaimed
  <1>6. OfOneNetwork' /\ MembersCanPublish' /\ ListedAddressKept'
    BY <1>0, Here, JobFacts, Distinct
    DEF IInv, OfOneNetwork, MembersCanPublish, ListedAddressKept,
        JobOK, KeyOK, ChosenFree, Unnamed, Unclaimed
  <1>7. ASSUME ~BadKey PROVE Tidy'
    <2> SUFFICES ASSUME NEW q \in Person \ crashed' PROVE TidyOK(q)'
      BY DEF Tidy
    <2>1. q \in Person \ crashed => TidyOK(q)
      BY <1>7 DEF IInv, Tidy
    <2>2. CASE q # p
      BY <1>0, <2>1, <2>2 DEF TidyOK
    <2>3. CASE q = p
      BY <1>0, <1>7, <2>1, <2>3, Here, JobFacts, FolderFacts, NoJobFacts, Distinct
      DEF TidyOK, JobOK, KeyOK, Unnamed, Unclaimed, Pc
    <2> QED
      BY <2>2, <2>3
  <1>8. ASSUME ~BadKey PROVE KeyKept'
    <2> SUFFICES ASSUME NEW n \in answered', crashed' = {}
                 PROVE  n \in invites' \/ \E q \in Person : job'[q].net = n /\ job'[q].create
      BY DEF KeyKept
    <2>1. invites \subseteq invites' /\ crashed = {}
      BY <1>0 DEF Shown
    <2>2. n \in answered => n \in invites \/ \E q \in Person : job[q].net = n /\ job[q].create
      BY <1>8, <2>1 DEF IInv, KeyKept
    <2>3. ASSUME NEW q \in Person, n \in answered, job[q].net = n, job[q].create
          PROVE  n \in invites' \/ \E r \in Person : job'[r].net = n /\ job'[r].create
      <3>1. CASE q # p
        BY <1>0, <2>3, <3>1
      <3>2. CASE q = p
        BY <1>0, <1>8, <2>1, <2>3, <3>2, Here, JobFacts, NoJobFacts
        DEF JobOK, KeyOK, Shown, Unclaimed, Pc
      <3> QED
        BY <3>1, <3>2
    <2> QED
      BY <1>0, <2>1, <2>2, <2>3, Here DEF JobOK
  <1> QED
    BY <1>1, <1>2, <1>3, <1>4, <1>5, <1>6, <1>7, <1>8 DEF IInv, JobSound, KeySound

LEMMA StartNetworkStep ==
  ASSUME IInv, NEW p \in Person, StartNetwork(p)
  PROVE  IInv'
  <1>0. /\ stage' \in [Person -> Stage] /\ \A q \in Person : q # p => stage'[q] = stage[q]
        /\ stage[p] = "created" /\ stage'[p] = "running"
        /\ UNCHANGED <<disk, job, nets, claimed, answered, invites, members, quits, crashed, listed>>
    BY DEF IInv, TypeOK, StartNetwork, Stage
  <1>1. TypeOK'
    BY <1>0, Here, FolderFacts, SetupAssumption DEF TypeOK, Stage, Shown, IInv, NetsSound
  <1>a. ASSUME NEW q \in Person, q # p
        PROVE  job'[q] = job[q] /\ disk'[q] = disk[q] /\ stage'[q] = stage[q]
    BY <1>0, <1>a
  <1>n. 1..nets \subseteq 1..nets'
    BY <1>0, Here
  <1>2. ASSUME NEW q \in Person PROVE JobOK(q)'
    <2>1. CASE q # p
      BY <1>a, <1>n, <2>1, Here, JobOKSame
    <2>2. CASE q = p
      BY <1>0, <2>2, Here, JobFacts, FolderFacts, NoJobFacts, Distinct
      DEF JobOK, KeyOK, IInv, NetsSound, Unnamed, Unclaimed, Pc
    <2> QED
      BY <2>1, <2>2
  <1>3. ASSUME NEW q \in Person PROVE KeyOK(q)'
    <2>1. CASE q # p
      BY <1>0, <2>1, Here, JobFacts DEF KeyOK, IInv, NetsSound
    <2>2. CASE q = p
      BY <1>0, <2>2, Here, JobFacts, NoJobFacts
      DEF JobOK, KeyOK, IInv, NetsSound, Unclaimed, Pc, TypeOK
    <2> QED
      BY <2>1, <2>2
  <1>4. NetsSound'
    <2>1. claimed \subseteq claimed' /\ claimed' \subseteq 1..nets'
      BY <1>0, <1>n, Here DEF IInv, NetsSound
    <2>2. invites' \subseteq claimed'
      BY <1>0, <2>1, Here, JobFacts DEF IInv, NetsSound, KeyOK, Shown, Unclaimed
    <2>3. ASSUME NEW q \in Person, job'[p].create, job'[q].create, job'[p].net = job'[q].net, q # p
          PROVE  FALSE
      BY <1>0, <1>a, <2>3, Creating, Here, NoJobFacts DEF IInv, NetsSound
    <2>4. ASSUME NEW q \in Person, NEW r \in Person, q # p, r # p,
                 job'[r].create, job'[q].create, job'[r].net = job'[q].net
          PROVE  q = r
      BY <1>a, <2>4 DEF IInv, NetsSound
    <2> QED
      BY <2>1, <2>2, <2>3, <2>4 DEF NetsSound
  <1>5. ChosenFree'
    BY <1>0, Here, JobFacts, NoJobFacts DEF IInv, JobOK, ChosenFree, Unnamed, Unclaimed
  <1>6. OfOneNetwork' /\ MembersCanPublish' /\ ListedAddressKept'
    BY <1>0, Here, JobFacts, Distinct
    DEF IInv, OfOneNetwork, MembersCanPublish, ListedAddressKept,
        JobOK, KeyOK, ChosenFree, Unnamed, Unclaimed
  <1>7. ASSUME ~BadKey PROVE Tidy'
    <2> SUFFICES ASSUME NEW q \in Person \ crashed' PROVE TidyOK(q)'
      BY DEF Tidy
    <2>1. q \in Person \ crashed => TidyOK(q)
      BY <1>7 DEF IInv, Tidy
    <2>2. CASE q # p
      BY <1>0, <2>1, <2>2 DEF TidyOK
    <2>3. CASE q = p
      BY <1>0, <1>7, <2>1, <2>3, Here, JobFacts, FolderFacts, NoJobFacts, Distinct
      DEF TidyOK, JobOK, KeyOK, Unnamed, Unclaimed, Pc
    <2> QED
      BY <2>2, <2>3
  <1>8. ASSUME ~BadKey PROVE KeyKept'
    <2> SUFFICES ASSUME NEW n \in answered', crashed' = {}
                 PROVE  n \in invites' \/ \E q \in Person : job'[q].net = n /\ job'[q].create
      BY DEF KeyKept
    <2>1. invites \subseteq invites' /\ crashed = {}
      BY <1>0 DEF Shown
    <2>2. n \in answered => n \in invites \/ \E q \in Person : job[q].net = n /\ job[q].create
      BY <1>8, <2>1 DEF IInv, KeyKept
    <2>3. ASSUME NEW q \in Person, n \in answered, job[q].net = n, job[q].create
          PROVE  n \in invites' \/ \E r \in Person : job'[r].net = n /\ job'[r].create
      <3>1. CASE q # p
        BY <1>0, <2>3, <3>1
      <3>2. CASE q = p
        BY <1>0, <1>8, <2>1, <2>3, <3>2, Here, JobFacts, NoJobFacts
        DEF JobOK, KeyOK, Shown, Unclaimed, Pc
      <3> QED
        BY <3>1, <3>2
    <2> QED
      BY <1>0, <2>1, <2>2, <2>3, Here DEF JobOK
  <1> QED
    BY <1>1, <1>2, <1>3, <1>4, <1>5, <1>6, <1>7, <1>8 DEF IInv, JobSound, KeySound

LEMMA QuitStep ==
  ASSUME IInv, NEW p \in Person, Quit(p)
  PROVE  IInv'
  <1>0. /\ job' \in [Person -> Job] /\ \A q \in Person : q # p => job'[q] = job[q]
        /\ stage' \in [Person -> Stage] /\ \A q \in Person : q # p => stage'[q] = stage[q]
        /\ job'[p] = NoJob /\ stage'[p] = "off" /\ quits' \in 0..MaxQuits
        /\ crashed' = (IF job[p].pc # "idle" THEN crashed \cup {p} ELSE crashed)
        /\ UNCHANGED <<disk, nets, claimed, answered, invites, members, listed>>
    <2>1. quits' \in 0..MaxQuits
      BY SetupAssumption DEF IInv, TypeOK, Quit
    <2> QED
      BY <2>1, NoJobFacts DEF IInv, TypeOK, Quit, Stage
  <1>1. TypeOK'
    BY <1>0, Here, FolderFacts, SetupAssumption DEF TypeOK, Stage, Shown, IInv, NetsSound
  <1>a. ASSUME NEW q \in Person, q # p
        PROVE  job'[q] = job[q] /\ disk'[q] = disk[q] /\ stage'[q] = stage[q]
    BY <1>0, <1>a
  <1>n. 1..nets \subseteq 1..nets'
    BY <1>0, Here
  <1>2. ASSUME NEW q \in Person PROVE JobOK(q)'
    <2>1. CASE q # p
      BY <1>a, <1>n, <2>1, Here, JobOKSame
    <2>2. CASE q = p
      BY <1>0, <2>2, Here, JobFacts, FolderFacts, NoJobFacts, Distinct
      DEF JobOK, KeyOK, IInv, NetsSound, Unnamed, Unclaimed, Pc
    <2> QED
      BY <2>1, <2>2
  <1>3. ASSUME NEW q \in Person PROVE KeyOK(q)'
    <2>1. CASE q # p
      BY <1>0, <2>1, Here, JobFacts DEF KeyOK, IInv, NetsSound
    <2>2. CASE q = p
      BY <1>0, <2>2, Here, JobFacts, NoJobFacts
      DEF JobOK, KeyOK, IInv, NetsSound, Unclaimed, Pc, TypeOK
    <2> QED
      BY <2>1, <2>2
  <1>4. NetsSound'
    <2>1. claimed \subseteq claimed' /\ claimed' \subseteq 1..nets'
      BY <1>0, <1>n, Here DEF IInv, NetsSound
    <2>2. invites' \subseteq claimed'
      BY <1>0, <2>1, Here, JobFacts DEF IInv, NetsSound, KeyOK, Shown, Unclaimed
    <2>3. ASSUME NEW q \in Person, job'[p].create, job'[q].create, job'[p].net = job'[q].net, q # p
          PROVE  FALSE
      BY <1>0, <1>a, <2>3, Creating, Here, NoJobFacts DEF IInv, NetsSound
    <2>4. ASSUME NEW q \in Person, NEW r \in Person, q # p, r # p,
                 job'[r].create, job'[q].create, job'[r].net = job'[q].net
          PROVE  q = r
      BY <1>a, <2>4 DEF IInv, NetsSound
    <2> QED
      BY <2>1, <2>2, <2>3, <2>4 DEF NetsSound
  <1>5. ChosenFree'
    BY <1>0, Here, JobFacts, NoJobFacts DEF IInv, JobOK, ChosenFree, Unnamed, Unclaimed
  <1>6. OfOneNetwork' /\ MembersCanPublish' /\ ListedAddressKept'
    BY <1>0, Here, JobFacts, Distinct
    DEF IInv, OfOneNetwork, MembersCanPublish, ListedAddressKept,
        JobOK, KeyOK, ChosenFree, Unnamed, Unclaimed
  <1>7. ASSUME ~BadKey PROVE Tidy'
    <2> SUFFICES ASSUME NEW q \in Person \ crashed' PROVE TidyOK(q)'
      BY DEF Tidy
    <2>1. q \in Person \ crashed => TidyOK(q)
      BY <1>7 DEF IInv, Tidy
    <2>2. CASE q # p
      BY <1>0, <2>1, <2>2 DEF TidyOK
    <2>3. CASE q = p
      BY <1>0, <1>7, <2>1, <2>3, Here, JobFacts, FolderFacts, NoJobFacts, Distinct
      DEF TidyOK, JobOK, KeyOK, Unnamed, Unclaimed, Pc
    <2> QED
      BY <2>2, <2>3
  <1>8. ASSUME ~BadKey PROVE KeyKept'
    <2> SUFFICES ASSUME NEW n \in answered', crashed' = {}
                 PROVE  n \in invites' \/ \E q \in Person : job'[q].net = n /\ job'[q].create
      BY DEF KeyKept
    <2>1. invites \subseteq invites' /\ crashed = {}
      BY <1>0 DEF Shown
    <2>2. n \in answered => n \in invites \/ \E q \in Person : job[q].net = n /\ job[q].create
      BY <1>8, <2>1 DEF IInv, KeyKept
    <2>3. ASSUME NEW q \in Person, n \in answered, job[q].net = n, job[q].create
          PROVE  n \in invites' \/ \E r \in Person : job'[r].net = n /\ job'[r].create
      <3>1. CASE q # p
        BY <1>0, <2>3, <3>1
      <3>2. CASE q = p
        BY <1>0, <1>8, <2>1, <2>3, <3>2, Here, JobFacts, NoJobFacts
        DEF JobOK, KeyOK, Shown, Unclaimed, Pc
      <3> QED
        BY <3>1, <3>2
    <2> QED
      BY <1>0, <2>1, <2>2, <2>3, Here DEF JobOK
  <1> QED
    BY <1>1, <1>2, <1>3, <1>4, <1>5, <1>6, <1>7, <1>8 DEF IInv, JobSound, KeySound

LEMMA LaunchStep ==
  ASSUME IInv, NEW p \in Person, Launch(p)
  PROVE  IInv'
  <1>0. /\ stage' \in [Person -> Stage] /\ \A q \in Person : q # p => stage'[q] = stage[q]
        /\ stage[p] = "off" /\ stage'[p] = (IF disk[p].cfg # Nothing THEN "running" ELSE "setup")
        /\ UNCHANGED <<disk, job, nets, claimed, answered, invites, members, quits, crashed, listed>>
    BY DEF IInv, TypeOK, Launch, Stage
  <1>1. TypeOK'
    BY <1>0, Here, FolderFacts, SetupAssumption DEF TypeOK, Stage, Shown, IInv, NetsSound
  <1>a. ASSUME NEW q \in Person, q # p
        PROVE  job'[q] = job[q] /\ disk'[q] = disk[q] /\ stage'[q] = stage[q]
    BY <1>0, <1>a
  <1>n. 1..nets \subseteq 1..nets'
    BY <1>0, Here
  <1>2. ASSUME NEW q \in Person PROVE JobOK(q)'
    <2>1. CASE q # p
      BY <1>a, <1>n, <2>1, Here, JobOKSame
    <2>2. CASE q = p
      BY <1>0, <2>2, Here, JobFacts, FolderFacts, NoJobFacts, Distinct
      DEF JobOK, KeyOK, IInv, NetsSound, Unnamed, Unclaimed, Pc
    <2> QED
      BY <2>1, <2>2
  <1>3. ASSUME NEW q \in Person PROVE KeyOK(q)'
    <2>1. CASE q # p
      BY <1>0, <2>1, Here, JobFacts DEF KeyOK, IInv, NetsSound
    <2>2. CASE q = p
      BY <1>0, <2>2, Here, JobFacts, NoJobFacts
      DEF JobOK, KeyOK, IInv, NetsSound, Unclaimed, Pc, TypeOK
    <2> QED
      BY <2>1, <2>2
  <1>4. NetsSound'
    <2>1. claimed \subseteq claimed' /\ claimed' \subseteq 1..nets'
      BY <1>0, <1>n, Here DEF IInv, NetsSound
    <2>2. invites' \subseteq claimed'
      BY <1>0, <2>1, Here, JobFacts DEF IInv, NetsSound, KeyOK, Shown, Unclaimed
    <2>3. ASSUME NEW q \in Person, job'[p].create, job'[q].create, job'[p].net = job'[q].net, q # p
          PROVE  FALSE
      BY <1>0, <1>a, <2>3, Creating, Here, NoJobFacts DEF IInv, NetsSound
    <2>4. ASSUME NEW q \in Person, NEW r \in Person, q # p, r # p,
                 job'[r].create, job'[q].create, job'[r].net = job'[q].net
          PROVE  q = r
      BY <1>a, <2>4 DEF IInv, NetsSound
    <2> QED
      BY <2>1, <2>2, <2>3, <2>4 DEF NetsSound
  <1>5. ChosenFree'
    BY <1>0, Here, JobFacts, NoJobFacts DEF IInv, JobOK, ChosenFree, Unnamed, Unclaimed
  <1>6. OfOneNetwork' /\ MembersCanPublish' /\ ListedAddressKept'
    BY <1>0, Here, JobFacts, Distinct
    DEF IInv, OfOneNetwork, MembersCanPublish, ListedAddressKept,
        JobOK, KeyOK, ChosenFree, Unnamed, Unclaimed
  <1>7. ASSUME ~BadKey PROVE Tidy'
    <2> SUFFICES ASSUME NEW q \in Person \ crashed' PROVE TidyOK(q)'
      BY DEF Tidy
    <2>1. q \in Person \ crashed => TidyOK(q)
      BY <1>7 DEF IInv, Tidy
    <2>2. CASE q # p
      BY <1>0, <2>1, <2>2 DEF TidyOK
    <2>3. CASE q = p
      BY <1>0, <1>7, <2>1, <2>3, Here, JobFacts, FolderFacts, NoJobFacts, Distinct
      DEF TidyOK, JobOK, KeyOK, Unnamed, Unclaimed, Pc
    <2> QED
      BY <2>2, <2>3
  <1>8. ASSUME ~BadKey PROVE KeyKept'
    <2> SUFFICES ASSUME NEW n \in answered', crashed' = {}
                 PROVE  n \in invites' \/ \E q \in Person : job'[q].net = n /\ job'[q].create
      BY DEF KeyKept
    <2>1. invites \subseteq invites' /\ crashed = {}
      BY <1>0 DEF Shown
    <2>2. n \in answered => n \in invites \/ \E q \in Person : job[q].net = n /\ job[q].create
      BY <1>8, <2>1 DEF IInv, KeyKept
    <2>3. ASSUME NEW q \in Person, n \in answered, job[q].net = n, job[q].create
          PROVE  n \in invites' \/ \E r \in Person : job'[r].net = n /\ job'[r].create
      <3>1. CASE q # p
        BY <1>0, <2>3, <3>1
      <3>2. CASE q = p
        BY <1>0, <1>8, <2>1, <2>3, <3>2, Here, JobFacts, NoJobFacts
        DEF JobOK, KeyOK, Shown, Unclaimed, Pc
      <3> QED
        BY <3>1, <3>2
    <2> QED
      BY <1>0, <2>1, <2>2, <2>3, Here DEF JobOK
  <1> QED
    BY <1>1, <1>2, <1>3, <1>4, <1>5, <1>6, <1>7, <1>8 DEF IInv, JobSound, KeySound

LEMMA RemoveFilesStep ==
  ASSUME IInv, NEW p \in Person, RemoveFiles(p)
  PROVE  IInv'
  <1>0. /\ disk' \in [Person -> Folder] /\ \A q \in Person : q # p => disk'[q] = disk[q]
        /\ stage[p] = "off" /\ disk'[p].cfg = Nothing /\ disk'[p].dir = Nothing
        /\ disk'[p].cfgTmp = disk[p].cfgTmp /\ disk'[p].dirTmp = disk[p].dirTmp
        /\ listed' \in [Person -> SUBSET (1..Host)] /\ listed'[p] = {}
        /\ \A q \in Person : q # p => listed'[q] = listed[q]
        /\ UNCHANGED <<stage, job, nets, claimed, answered, invites, members, quits, crashed>>
    BY NothingFacts, FolderFacts DEF IInv, TypeOK, RemoveFiles, Folder
  <1>1. TypeOK'
    BY <1>0, Here, FolderFacts, SetupAssumption DEF TypeOK, Stage, Shown, IInv, NetsSound
  <1>a. ASSUME NEW q \in Person, q # p
        PROVE  job'[q] = job[q] /\ disk'[q] = disk[q] /\ stage'[q] = stage[q]
    BY <1>0, <1>a
  <1>n. 1..nets \subseteq 1..nets'
    BY <1>0, Here
  <1>2. ASSUME NEW q \in Person PROVE JobOK(q)'
    <2>1. CASE q # p
      BY <1>a, <1>n, <2>1, Here, JobOKSame
    <2>2. CASE q = p
      BY <1>0, <2>2, Here, JobFacts, FolderFacts, NoJobFacts, Distinct
      DEF JobOK, KeyOK, IInv, NetsSound, Unnamed, Unclaimed, Pc
    <2> QED
      BY <2>1, <2>2
  <1>3. ASSUME NEW q \in Person PROVE KeyOK(q)'
    <2>1. CASE q # p
      BY <1>0, <2>1, Here, JobFacts DEF KeyOK, IInv, NetsSound
    <2>2. CASE q = p
      BY <1>0, <2>2, Here, JobFacts, NoJobFacts
      DEF JobOK, KeyOK, IInv, NetsSound, Unclaimed, Pc, TypeOK
    <2> QED
      BY <2>1, <2>2
  <1>4. NetsSound'
    <2>1. claimed \subseteq claimed' /\ claimed' \subseteq 1..nets'
      BY <1>0, <1>n, Here DEF IInv, NetsSound
    <2>2. invites' \subseteq claimed'
      BY <1>0, <2>1, Here, JobFacts DEF IInv, NetsSound, KeyOK, Shown, Unclaimed
    <2>3. ASSUME NEW q \in Person, job'[p].create, job'[q].create, job'[p].net = job'[q].net, q # p
          PROVE  FALSE
      BY <1>0, <1>a, <2>3, Creating, Here, NoJobFacts DEF IInv, NetsSound
    <2>4. ASSUME NEW q \in Person, NEW r \in Person, q # p, r # p,
                 job'[r].create, job'[q].create, job'[r].net = job'[q].net
          PROVE  q = r
      BY <1>a, <2>4 DEF IInv, NetsSound
    <2> QED
      BY <2>1, <2>2, <2>3, <2>4 DEF NetsSound
  <1>5. ChosenFree'
    BY <1>0, Here, JobFacts, NoJobFacts DEF IInv, JobOK, ChosenFree, Unnamed, Unclaimed
  <1>6. OfOneNetwork' /\ MembersCanPublish' /\ ListedAddressKept'
    BY <1>0, Here, JobFacts, Distinct
    DEF IInv, OfOneNetwork, MembersCanPublish, ListedAddressKept,
        JobOK, KeyOK, ChosenFree, Unnamed, Unclaimed
  <1>7. ASSUME ~BadKey PROVE Tidy'
    <2> SUFFICES ASSUME NEW q \in Person \ crashed' PROVE TidyOK(q)'
      BY DEF Tidy
    <2>1. q \in Person \ crashed => TidyOK(q)
      BY <1>7 DEF IInv, Tidy
    <2>2. CASE q # p
      BY <1>0, <2>1, <2>2 DEF TidyOK
    <2>3. CASE q = p
      BY <1>0, <1>7, <2>1, <2>3, Here, JobFacts, FolderFacts, NoJobFacts, Distinct
      DEF TidyOK, JobOK, KeyOK, Unnamed, Unclaimed, Pc
    <2> QED
      BY <2>2, <2>3
  <1>8. ASSUME ~BadKey PROVE KeyKept'
    <2> SUFFICES ASSUME NEW n \in answered', crashed' = {}
                 PROVE  n \in invites' \/ \E q \in Person : job'[q].net = n /\ job'[q].create
      BY DEF KeyKept
    <2>1. invites \subseteq invites' /\ crashed = {}
      BY <1>0 DEF Shown
    <2>2. n \in answered => n \in invites \/ \E q \in Person : job[q].net = n /\ job[q].create
      BY <1>8, <2>1 DEF IInv, KeyKept
    <2>3. ASSUME NEW q \in Person, n \in answered, job[q].net = n, job[q].create
          PROVE  n \in invites' \/ \E r \in Person : job'[r].net = n /\ job'[r].create
      <3>1. CASE q # p
        BY <1>0, <2>3, <3>1
      <3>2. CASE q = p
        BY <1>0, <1>8, <2>1, <2>3, <3>2, Here, JobFacts, NoJobFacts
        DEF JobOK, KeyOK, Shown, Unclaimed, Pc
      <3> QED
        BY <3>1, <3>2
    <2> QED
      BY <1>0, <2>1, <2>2, <2>3, Here DEF JobOK
  <1> QED
    BY <1>1, <1>2, <1>3, <1>4, <1>5, <1>6, <1>7, <1>8 DEF IInv, JobSound, KeySound

LEMMA PublishSelfStep ==
  ASSUME IInv, NEW p \in Person, PublishSelf(p)
  PROVE  IInv'
  <1>0. /\ members' \subseteq Record
        /\ UNCHANGED <<disk, stage, job, nets, claimed, answered, invites, quits, crashed, listed>>
    <2>1. disk[p].cfg # Nothing /\ disk[p].cfg \in Config
      BY Here, FolderFacts DEF JobOK, PublishSelf
    <2>2. Mine(p) \in Record
      BY <2>1, NothingFacts DEF Mine, Record
    <2> QED
      BY <2>2 DEF PublishSelf, IInv, TypeOK
  <1>1. TypeOK'
    BY <1>0, Here, FolderFacts, SetupAssumption DEF TypeOK, Stage, Shown, IInv, NetsSound
  <1>a. ASSUME NEW q \in Person, q # p
        PROVE  job'[q] = job[q] /\ disk'[q] = disk[q] /\ stage'[q] = stage[q]
    BY <1>0, <1>a
  <1>n. 1..nets \subseteq 1..nets'
    BY <1>0, Here
  <1>2. ASSUME NEW q \in Person PROVE JobOK(q)'
    <2>1. CASE q # p
      BY <1>a, <1>n, <2>1, Here, JobOKSame
    <2>2. CASE q = p
      BY <1>0, <2>2, Here, JobFacts, FolderFacts, NoJobFacts, Distinct
      DEF JobOK, KeyOK, IInv, NetsSound, Unnamed, Unclaimed, Pc
    <2> QED
      BY <2>1, <2>2
  <1>3. ASSUME NEW q \in Person PROVE KeyOK(q)'
    <2>1. CASE q # p
      BY <1>0, <2>1, Here, JobFacts DEF KeyOK, IInv, NetsSound
    <2>2. CASE q = p
      BY <1>0, <2>2, Here, JobFacts, NoJobFacts
      DEF JobOK, KeyOK, IInv, NetsSound, Unclaimed, Pc, TypeOK
    <2> QED
      BY <2>1, <2>2
  <1>4. NetsSound'
    <2>1. claimed \subseteq claimed' /\ claimed' \subseteq 1..nets'
      BY <1>0, <1>n, Here DEF IInv, NetsSound
    <2>2. invites' \subseteq claimed'
      BY <1>0, <2>1, Here, JobFacts DEF IInv, NetsSound, KeyOK, Shown, Unclaimed
    <2>3. ASSUME NEW q \in Person, job'[p].create, job'[q].create, job'[p].net = job'[q].net, q # p
          PROVE  FALSE
      BY <1>0, <1>a, <2>3, Creating, Here, NoJobFacts DEF IInv, NetsSound
    <2>4. ASSUME NEW q \in Person, NEW r \in Person, q # p, r # p,
                 job'[r].create, job'[q].create, job'[r].net = job'[q].net
          PROVE  q = r
      BY <1>a, <2>4 DEF IInv, NetsSound
    <2> QED
      BY <2>1, <2>2, <2>3, <2>4 DEF NetsSound
  <1>5. ChosenFree'
    BY <1>0, Here, JobFacts, NoJobFacts DEF IInv, JobOK, ChosenFree, Unnamed, Unclaimed
  <1>6. OfOneNetwork' /\ MembersCanPublish' /\ ListedAddressKept'
    BY <1>0, Here, JobFacts, Distinct
    DEF IInv, OfOneNetwork, MembersCanPublish, ListedAddressKept,
        JobOK, KeyOK, ChosenFree, Unnamed, Unclaimed
  <1>7. ASSUME ~BadKey PROVE Tidy'
    <2> SUFFICES ASSUME NEW q \in Person \ crashed' PROVE TidyOK(q)'
      BY DEF Tidy
    <2>1. q \in Person \ crashed => TidyOK(q)
      BY <1>7 DEF IInv, Tidy
    <2>2. CASE q # p
      BY <1>0, <2>1, <2>2 DEF TidyOK
    <2>3. CASE q = p
      BY <1>0, <1>7, <2>1, <2>3, Here, JobFacts, FolderFacts, NoJobFacts, Distinct
      DEF TidyOK, JobOK, KeyOK, Unnamed, Unclaimed, Pc
    <2> QED
      BY <2>2, <2>3
  <1>8. ASSUME ~BadKey PROVE KeyKept'
    <2> SUFFICES ASSUME NEW n \in answered', crashed' = {}
                 PROVE  n \in invites' \/ \E q \in Person : job'[q].net = n /\ job'[q].create
      BY DEF KeyKept
    <2>1. invites \subseteq invites' /\ crashed = {}
      BY <1>0 DEF Shown
    <2>2. n \in answered => n \in invites \/ \E q \in Person : job[q].net = n /\ job[q].create
      BY <1>8, <2>1 DEF IInv, KeyKept
    <2>3. ASSUME NEW q \in Person, n \in answered, job[q].net = n, job[q].create
          PROVE  n \in invites' \/ \E r \in Person : job'[r].net = n /\ job'[r].create
      <3>1. CASE q # p
        BY <1>0, <2>3, <3>1
      <3>2. CASE q = p
        BY <1>0, <1>8, <2>1, <2>3, <3>2, Here, JobFacts, NoJobFacts
        DEF JobOK, KeyOK, Shown, Unclaimed, Pc
      <3> QED
        BY <3>1, <3>2
    <2> QED
      BY <1>0, <2>1, <2>2, <2>3, Here DEF JobOK
  <1> QED
    BY <1>1, <1>2, <1>3, <1>4, <1>5, <1>6, <1>7, <1>8 DEF IInv, JobSound, KeySound

LEMMA ForgetStep ==
  ASSUME IInv, NEW p \in Person, Forget(p)
  PROVE  IInv'
  <1>0. /\ members' \subseteq Record
        /\ UNCHANGED <<disk, stage, job, nets, claimed, answered, invites, quits, crashed, listed>>
    BY DEF Forget, IInv, TypeOK
  <1>1. TypeOK'
    BY <1>0, Here, FolderFacts, SetupAssumption DEF TypeOK, Stage, Shown, IInv, NetsSound
  <1>a. ASSUME NEW q \in Person, q # p
        PROVE  job'[q] = job[q] /\ disk'[q] = disk[q] /\ stage'[q] = stage[q]
    BY <1>0, <1>a
  <1>n. 1..nets \subseteq 1..nets'
    BY <1>0, Here
  <1>2. ASSUME NEW q \in Person PROVE JobOK(q)'
    <2>1. CASE q # p
      BY <1>a, <1>n, <2>1, Here, JobOKSame
    <2>2. CASE q = p
      BY <1>0, <2>2, Here, JobFacts, FolderFacts, NoJobFacts, Distinct
      DEF JobOK, KeyOK, IInv, NetsSound, Unnamed, Unclaimed, Pc
    <2> QED
      BY <2>1, <2>2
  <1>3. ASSUME NEW q \in Person PROVE KeyOK(q)'
    <2>1. CASE q # p
      BY <1>0, <2>1, Here, JobFacts DEF KeyOK, IInv, NetsSound
    <2>2. CASE q = p
      BY <1>0, <2>2, Here, JobFacts, NoJobFacts
      DEF JobOK, KeyOK, IInv, NetsSound, Unclaimed, Pc, TypeOK
    <2> QED
      BY <2>1, <2>2
  <1>4. NetsSound'
    <2>1. claimed \subseteq claimed' /\ claimed' \subseteq 1..nets'
      BY <1>0, <1>n, Here DEF IInv, NetsSound
    <2>2. invites' \subseteq claimed'
      BY <1>0, <2>1, Here, JobFacts DEF IInv, NetsSound, KeyOK, Shown, Unclaimed
    <2>3. ASSUME NEW q \in Person, job'[p].create, job'[q].create, job'[p].net = job'[q].net, q # p
          PROVE  FALSE
      BY <1>0, <1>a, <2>3, Creating, Here, NoJobFacts DEF IInv, NetsSound
    <2>4. ASSUME NEW q \in Person, NEW r \in Person, q # p, r # p,
                 job'[r].create, job'[q].create, job'[r].net = job'[q].net
          PROVE  q = r
      BY <1>a, <2>4 DEF IInv, NetsSound
    <2> QED
      BY <2>1, <2>2, <2>3, <2>4 DEF NetsSound
  <1>5. ChosenFree'
    BY <1>0, Here, JobFacts, NoJobFacts DEF IInv, JobOK, ChosenFree, Unnamed, Unclaimed
  <1>6. OfOneNetwork' /\ MembersCanPublish' /\ ListedAddressKept'
    BY <1>0, Here, JobFacts, Distinct
    DEF IInv, OfOneNetwork, MembersCanPublish, ListedAddressKept,
        JobOK, KeyOK, ChosenFree, Unnamed, Unclaimed
  <1>7. ASSUME ~BadKey PROVE Tidy'
    <2> SUFFICES ASSUME NEW q \in Person \ crashed' PROVE TidyOK(q)'
      BY DEF Tidy
    <2>1. q \in Person \ crashed => TidyOK(q)
      BY <1>7 DEF IInv, Tidy
    <2>2. CASE q # p
      BY <1>0, <2>1, <2>2 DEF TidyOK
    <2>3. CASE q = p
      BY <1>0, <1>7, <2>1, <2>3, Here, JobFacts, FolderFacts, NoJobFacts, Distinct
      DEF TidyOK, JobOK, KeyOK, Unnamed, Unclaimed, Pc
    <2> QED
      BY <2>2, <2>3
  <1>8. ASSUME ~BadKey PROVE KeyKept'
    <2> SUFFICES ASSUME NEW n \in answered', crashed' = {}
                 PROVE  n \in invites' \/ \E q \in Person : job'[q].net = n /\ job'[q].create
      BY DEF KeyKept
    <2>1. invites \subseteq invites' /\ crashed = {}
      BY <1>0 DEF Shown
    <2>2. n \in answered => n \in invites \/ \E q \in Person : job[q].net = n /\ job[q].create
      BY <1>8, <2>1 DEF IInv, KeyKept
    <2>3. ASSUME NEW q \in Person, n \in answered, job[q].net = n, job[q].create
          PROVE  n \in invites' \/ \E r \in Person : job'[r].net = n /\ job'[r].create
      <3>1. CASE q # p
        BY <1>0, <2>3, <3>1
      <3>2. CASE q = p
        BY <1>0, <1>8, <2>1, <2>3, <3>2, Here, JobFacts, NoJobFacts
        DEF JobOK, KeyOK, Shown, Unclaimed, Pc
      <3> QED
        BY <3>1, <3>2
    <2> QED
      BY <1>0, <2>1, <2>2, <2>3, Here DEF JobOK
  <1> QED
    BY <1>1, <1>2, <1>3, <1>4, <1>5, <1>6, <1>7, <1>8 DEF IInv, JobSound, KeySound

-----------------------------------------------------------------------------
(* The invariant, and what follows.                                         *)

LEMMA StutterStep == ASSUME IInv, UNCHANGED vars PROVE IInv'
  <1>1. /\ job' = job /\ disk' = disk /\ stage' = stage /\ nets' = nets /\ claimed' = claimed
        /\ answered' = answered /\ invites' = invites /\ members' = members /\ quits' = quits
        /\ crashed' = crashed /\ listed' = listed
    BY DEF vars
  <1>2. TypeOK' /\ NetsSound' /\ ChosenFree'
    BY <1>1 DEF IInv, TypeOK, NetsSound, ChosenFree
  <1>3. JobSound'
    BY <1>1, JobOKSame DEF IInv, JobSound
  <1>4. KeySound'
    BY <1>1 DEF IInv, KeySound, KeyOK
  <1>5. OfOneNetwork' /\ MembersCanPublish' /\ ListedAddressKept'
    BY <1>1 DEF IInv, OfOneNetwork, MembersCanPublish, ListedAddressKept
  <1>6. (~BadKey => Tidy /\ KeyKept)'
    BY <1>1 DEF IInv, Tidy, TidyOK, KeyKept
  <1> QED
    BY <1>1, <1>2, <1>3, <1>4, <1>5, <1>6 DEF IInv

LEMMA NextInv == IInv /\ [Next]_vars => IInv'
  <1> SUFFICES ASSUME IInv, [Next]_vars PROVE IInv'
    OBVIOUS
  <1>1. ASSUME NEW p \in Person, Step(p) PROVE IInv'
    BY <1>1, ReadMembersStep, MembersFailStep, StageConfigStep, StageDirectoryStep, ClaimStep,
       ClaimFailsStep, EncodeInviteStep, WriteKeyStep, RenameConfigStep, RenameDirectoryStep,
       DiskFailsStep, FinishStep
    DEF Step
  <1>2. ASSUME NEW p \in Person, User(p) PROVE IInv'
    BY <1>2, CreateNetworkStep, JoinNetworkStep, StartNetworkStep, QuitStep, LaunchStep,
       RemoveFilesStep, StutterStep
    DEF User, Refuse
  <1>3. ASSUME NEW p \in Person, PublishSelf(p) \/ Forget(p) PROVE IInv'
    BY <1>3, PublishSelfStep, ForgetStep
  <1>4. CASE UNCHANGED vars
    BY <1>4, StutterStep
  <1> QED
    BY <1>1, <1>2, <1>3, <1>4 DEF Next

LEMMA AlwaysIInv == Spec => []IInv
  BY InitInv, NextInv, PTL DEF Spec

\* Every variable is of its type.
THEOREM TypeCorrect == Spec => []TypeOK
  BY AlwaysIInv, PTL DEF IInv

\* Whatever crashes leave behind, a folder is never of two networks (setup.rs
\* Staged).
THEOREM OfOneNetworkHolds == Spec => []OfOneNetwork
  BY AlwaysIInv, PTL DEF IInv

\* A directory.toml that is in place has the write key of a claimed network
\* (setup.rs join_network, create_network).
THEOREM MembersCanPublishHolds == Spec => []MembersCanPublish
  BY AlwaysIInv, PTL DEF IInv

\* Nobody takes an address of the list it has read (setup.rs suggest_free_ip).
THEOREM ListedAddressKeptHolds == Spec => []ListedAddressKept
  BY AlwaysIInv, PTL DEF IInv

\* "Each call either completes fully or leaves no trace behind" (setup.rs:2).
THEOREM AllOrNothingHolds == ASSUME ~BadKey PROVE Spec => []AllOrNothing
  <1>1. IInv => AllOrNothing
    BY DEF IInv, Tidy, TidyOK, AllOrNothing
  <1> QED
    BY <1>1, AlwaysIInv, PTL

\* The write key of a network that was claimed is not lost (setup.rs:14).
THEOREM KeyKeptHolds == ASSUME ~BadKey PROVE Spec => []KeyKept
  <1>1. IInv => KeyKept
    BY DEF IInv
  <1> QED
    BY <1>1, AlwaysIInv, PTL

-----------------------------------------------------------------------------
(* The steps of the files are those of module Enrolment, or none.          *)

FolderMap == [q \in Person |-> FolderOf(q)]
CallMap == [q \in Person |-> CallOf(q)]

\* A step that is about one person changes what is said of that one.
LEMMA OneMoves ==
  ASSUME NEW p \in Person,
         \A q \in Person : q # p => job'[q] = job[q] /\ disk'[q] = disk[q]
  PROVE  /\ FolderMap' = [FolderMap EXCEPT ![p] = FolderOf(p)']
         /\ CallMap' = [CallMap EXCEPT ![p] = CallOf(p)']
         /\ FolderMap[p] = FolderOf(p) /\ CallMap[p] = CallOf(p)
  BY DEF FolderMap, CallMap, FolderOf, CallOf

LEMMA NobodyMoves ==
  ASSUME NEW p \in Person,
         \A q \in Person : q # p => job'[q] = job[q] /\ disk'[q] = disk[q],
         FolderOf(p)' = FolderOf(p), CallOf(p)' = CallOf(p)
  PROVE  FolderMap' = FolderMap /\ CallMap' = CallMap
  BY DEF FolderMap, CallMap, FolderOf, CallOf

LEMMA OnlyCallMoves ==
  ASSUME NEW p \in Person,
         \A q \in Person : q # p => job'[q] = job[q] /\ disk'[q] = disk[q],
         FolderOf(p)' = FolderOf(p)
  PROVE  FolderMap' = FolderMap /\ CallMap' = [CallMap EXCEPT ![p] = CallOf(p)']
  BY DEF FolderMap, CallMap, FolderOf, CallOf

\* What a call is to the rest of the program at each point of it.
LEMMA Seen ==
  ASSUME IInv, NEW p \in Person
  PROVE  /\ CallOf(p) = Calls!NoCall <=> job[p].pc = "idle"
         /\ job[p].pc \in Unnamed \cup {"dir"} => FolderOf(p) = Calls!Empty
         /\ job[p].pc \notin Unclaimed \cup {"idle"} => job[p].net \in claimed
         /\ job[p].pc \in Unclaimed /\ ~job[p].create => job[p].net \in claimed
         /\ Shown(p) \in {invites, invites \cup {job[p].net}}
         /\ job[p].key = "good" => job[p].net \in claimed
  <1>1. job[p] \in Job /\ JobOK(p) /\ KeyOK(p)
    BY Here, JobFacts
  <1>2. CallOf(p) = Calls!NoCall <=> job[p].pc = "idle"
    <2>1. CASE job[p].pc = "idle"
      <3>1. job[p].net = 0 /\ job[p].create = FALSE
        BY <1>1, <2>1 DEF JobOK, NoJob
      <3> QED
        BY <2>1, <3>1 DEF CallOf, Calls!NoCall
    <2>2. CASE job[p].pc # "idle"
      <3>1. job[p].net \in 1..nets
        BY <2>2, Here
      <3>2. job[p].net # 0
        BY <3>1, Here
      <3>3. CallOf(p).net = job[p].net /\ Calls!NoCall.net = 0
        BY DEF CallOf, Calls!NoCall
      <3> QED
        BY <2>2, <3>2, <3>3
    <2> QED
      BY <2>1, <2>2
  <1>3. job[p].pc \in Unnamed \cup {"dir"} => FolderOf(p) = Calls!Empty
    BY <1>1 DEF FolderOf, Calls!Empty, JobOK, Nothing, Unnamed, Unclaimed
  <1>4. /\ job[p].pc \notin Unclaimed \cup {"idle"} => job[p].net \in claimed
        /\ job[p].pc \in Unclaimed /\ ~job[p].create => job[p].net \in claimed
    BY <1>1, JobFacts, Here DEF KeyOK, Unclaimed
  <1>5. job[p].key = "good" => job[p].net \in claimed
    BY <1>1, JobFacts, Here DEF KeyOK, Unclaimed
  <1> QED
    BY <1>2, <1>3, <1>4, <1>5 DEF Shown

Unmoved == UNCHANGED <<FolderMap, CallMap, nets, claimed, invites, crashed>>
Mapped == Calls!Next \/ Unmoved

\* The end of a call in which the folder is as it was.
LEMMA EndMaps ==
  ASSUME IInv, NEW p \in Person, job[p].pc # "idle",
         \A q \in Person : q # p => job'[q] = job[q] /\ disk'[q] = disk[q],
         job'[p] = NoJob, FolderOf(p)' = FolderOf(p),
         invites' \in {invites, Shown(p)}, crashed' \in {crashed, crashed \cup {p}},
         UNCHANGED <<nets, claimed>>
  PROVE  Calls!Next
  <1>1. CallOf(p)' = Calls!NoCall
    BY DEF CallOf, NoJob, Calls!NoCall
  <1>2. CallMap[p] = CallOf(p) /\ CallOf(p).net = job[p].net /\ CallOf(p) # Calls!NoCall
    BY Seen DEF CallMap, CallOf
  <1>3. FolderMap' = FolderMap /\ CallMap' = [CallMap EXCEPT ![p] = Calls!NoCall]
    BY <1>1, OnlyCallMoves
  <1>4. \/ invites' = invites
        \/ job[p].net \in claimed /\ invites' = invites \cup {job[p].net}
    BY Seen DEF Shown
  <1>5. Calls!End(p)
    BY <1>2, <1>3, <1>4 DEF Calls!End, FolderMap, CallMap
  <1> QED
    BY <1>5 DEF Calls!Next

LEMMA CreateMaps ==
  ASSUME IInv, NEW p \in Person, CreateNetwork(p)
  PROVE  Calls!Next
  <1>1. /\ \A q \in Person : q # p => job'[q] = job[q] /\ disk'[q] = disk[q]
        /\ job'[p].pc = "cfgTmp" /\ job'[p].create /\ job'[p].net = nets + 1
        /\ disk' = disk /\ disk[p].cfg = Nothing /\ disk[p].dir = Nothing
        /\ stage[p] = "setup" /\ nets < MaxNets /\ nets' = nets + 1
        /\ UNCHANGED <<claimed, invites, crashed>>
    <2>1. job \in [Person -> Job]
      BY DEF IInv, TypeOK
    <2> QED
      BY <2>1 DEF CreateNetwork, AlreadySetUp
  <1>2. job[p].pc = "idle"
    BY <1>1, Here DEF JobOK
  <1>3. FolderOf(p) = Calls!Empty /\ FolderOf(p)' = FolderOf(p)
    BY <1>1, <1>2 DEF FolderOf, Calls!Empty, Nothing
  <1>4. CallOf(p)' = [net |-> nets + 1, create |-> TRUE]
    <2>1. job'[p].create \in BOOLEAN
      BY CreateNetworkStep, JobFacts DEF IInv, TypeOK, Job
    <2> QED
      BY <1>1, <2>1 DEF CallOf
  <1>5. Calls!Create(p)
    <2>1. FolderMap[p] = Calls!Empty /\ CallMap[p] = Calls!NoCall
      BY <1>2, <1>3, Seen DEF FolderMap, CallMap
    <2>2. FolderMap' = FolderMap
          /\ CallMap' = [CallMap EXCEPT ![p] = [net |-> nets + 1, create |-> TRUE]]
      BY <1>1, <1>3, <1>4, OnlyCallMoves
    <2> QED
      BY <1>1, <2>1, <2>2 DEF Calls!Create, FolderMap, CallMap
  <1> QED
    BY <1>5 DEF Calls!Next

LEMMA JoinMaps ==
  ASSUME IInv, NEW p \in Person, JoinNetwork(p)
  PROVE  Calls!Next
  <1>1. PICK n \in invites :
          /\ \A q \in Person : q # p => job'[q] = job[q] /\ disk'[q] = disk[q]
          /\ job'[p].pc = "members" /\ job'[p].create = FALSE /\ job'[p].net = n
    <2>1. job \in [Person -> Job]
      BY DEF IInv, TypeOK
    <2> QED
      BY <2>1 DEF JoinNetwork
  <1>2. /\ disk' = disk /\ disk[p].cfg = Nothing /\ disk[p].dir = Nothing
        /\ stage[p] = "setup" /\ UNCHANGED <<nets, claimed, invites, crashed>>
    BY DEF JoinNetwork, AlreadySetUp
  <1>3. job[p].pc = "idle"
    BY <1>2, Here DEF JobOK
  <1>4. FolderOf(p) = Calls!Empty /\ FolderOf(p)' = FolderOf(p)
    BY <1>1, <1>2, <1>3 DEF FolderOf, Calls!Empty, Nothing
  <1>5. CallOf(p)' = [net |-> n, create |-> FALSE]
    BY <1>1 DEF CallOf
  <1>6. Calls!Join(p)
    <2>1. FolderMap[p] = Calls!Empty /\ CallMap[p] = Calls!NoCall
      BY <1>3, <1>4, Seen DEF FolderMap, CallMap
    <2>2. FolderMap' = FolderMap
          /\ CallMap' = [CallMap EXCEPT ![p] = [net |-> n, create |-> FALSE]]
      BY <1>1, <1>4, <1>5, OnlyCallMoves
    <2> QED
      BY <1>2, <2>1, <2>2 DEF Calls!Join, FolderMap, CallMap
  <1> QED
    BY <1>6 DEF Calls!Next

LEMMA ReadMembersMaps ==
  ASSUME IInv, NEW p \in Person, ReadMembers(p)
  PROVE  Mapped
  <1>1. /\ job[p].pc = "members" /\ disk' = disk
        /\ UNCHANGED <<nets, claimed, invites, crashed>>
    BY DEF ReadMembers
  <1>2. CASE Ends(p, "setup")
    <2>1. job'[p] = NoJob /\ \A q \in Person : q # p => job'[q] = job[q]
      BY <1>2, EndsFacts DEF IInv, Stage
    <2>2. FolderOf(p)' = FolderOf(p)
      BY <1>1, <2>1, NoJobFacts DEF FolderOf
    <2>3. Calls!Next
      BY <1>1, <2>1, <2>2, EndMaps
    <2> QED
      BY <2>3 DEF Mapped
  <1>3. CASE ~Ends(p, "setup")
    <2>1. /\ job'[p].pc = "cfgTmp" /\ job'[p].create = job[p].create /\ job'[p].net = job[p].net
          /\ \A q \in Person : q # p => job'[q] = job[q]
      <3>1. job \in [Person -> Job]
        BY DEF IInv, TypeOK
      <3>2. \E v : job' = [job EXCEPT ![p].pc = "cfgTmp", ![p].vip = v]
        BY <1>3 DEF ReadMembers
      <3> QED
        BY <3>1, <3>2 DEF Job
    <2>2. FolderOf(p)' = FolderOf(p) /\ CallOf(p)' = CallOf(p)
      BY <1>1, <2>1 DEF FolderOf, CallOf
    <2> QED
      BY <1>1, <2>1, <2>2, NobodyMoves DEF Mapped, Unmoved
  <1> QED
    BY <1>2, <1>3

LEMMA MembersFailMaps ==
  ASSUME IInv, NEW p \in Person, MembersFail(p)
  PROVE  Calls!Next
  <1>1. /\ job[p].pc = "members" /\ disk' = disk /\ Ends(p, "setup")
        /\ UNCHANGED <<nets, claimed, invites, crashed>>
    BY DEF MembersFail
  <1>2. job'[p] = NoJob /\ \A q \in Person : q # p => job'[q] = job[q]
    BY <1>1, EndsFacts DEF IInv, Stage
  <1>3. FolderOf(p)' = FolderOf(p)
    BY <1>1, <1>2, NoJobFacts DEF FolderOf
  <1> QED
    BY <1>1, <1>2, <1>3, EndMaps

\* Writing the temporary files, and the first rename.
LEMMA WritingMaps ==
  ASSUME IInv, NEW p \in Person,
         StageConfig(p) \/ StageDirectory(p) \/ WriteKey(p) \/ RenameConfig(p)
  PROVE  Unmoved
  <1>1. PICK f, pc :
          /\ Write(p, f, pc)
          /\ \/ /\ job[p].pc \in Unnamed /\ pc # "dir" /\ pc \in Pc
                /\ f.cfg = disk[p].cfg /\ f.dir = disk[p].dir /\ f \in Folder
             \/ /\ job[p].pc = "cfg" /\ pc = "dir" /\ f \in Folder
    <2>1. disk[p] \in Folder /\ \A t \in DirectorySettings : [disk[p] EXCEPT !.dirTmp = t] \in Folder
      BY FolderFacts DEF IInv, Folder
    <2>2. \A t \in Config : [disk[p] EXCEPT !.cfgTmp = t] \in Folder
      BY FolderFacts DEF IInv, Folder
    <2>3. CASE StageConfig(p)
      <3>1. job[p].pc = "cfgTmp" /\ job[p].net \in 1..MaxNets /\ job[p].vip \in 1..Host
        BY <2>3, Here DEF StageConfig, JobOK
      <3>2. ConfigOf(job[p].net, job[p].vip) \in Config
        BY <3>1, Distinct
      <3> QED
        BY <2>1, <2>2, <2>3, <3>1, <3>2 DEF StageConfig, Unnamed, Unclaimed, Pc, Folder
    <2>4. CASE StageDirectory(p)
      <3>1. job[p].pc = "dirTmp" /\ job[p].net \in 1..MaxNets /\ job[p].create \in BOOLEAN
        BY <2>4, Here, JobFacts DEF StageDirectory
      <3>2. DirOf(job[p].net, ~job[p].create) \in DirectorySettings
        BY <3>1, Distinct
      <3> QED
        BY <2>1, <2>4, <3>1, <3>2 DEF StageDirectory, Unnamed, Unclaimed, Pc, Folder
    <2>5. CASE WriteKey(p)
      <3>1. job[p].pc = "keyTmp" /\ job[p].net \in 1..MaxNets
        BY <2>5, Here DEF WriteKey
      <3>2. DirOf(job[p].net, TRUE) \in DirectorySettings
        BY <3>1, Distinct
      <3> QED
        BY <2>1, <2>5, <3>1, <3>2 DEF WriteKey, Unnamed, Unclaimed, Pc, Folder
    <2>6. CASE RenameConfig(p)
      <3>1. [disk[p] EXCEPT !.cfg = disk[p].cfgTmp, !.cfgTmp = Nothing] \in Folder
        BY FolderFacts, NothingFacts DEF IInv, Folder
      <3> QED
        BY <2>6, <3>1 DEF RenameConfig
    <2> QED
      BY <2>3, <2>4, <2>5, <2>6
  <1>2. pc \in Pc
    BY <1>1 DEF Pc
  <1>3. /\ \A q \in Person : q # p => job'[q] = job[q] /\ disk'[q] = disk[q]
        /\ job'[p].pc = pc /\ job'[p].create = job[p].create /\ job'[p].net = job[p].net
        /\ disk'[p] = f /\ UNCHANGED <<nets, claimed, invites, crashed>>
    BY <1>1, <1>2, WriteFacts DEF IInv
  <1>4. CallOf(p)' = CallOf(p)
    BY <1>3 DEF CallOf
  <1>5. FolderOf(p)' = FolderOf(p)
    <2>1. job[p].pc \in Unnamed => FolderOf(p) = [cfg |-> Nothing, dir |-> Nothing]
      BY Here DEF JobOK, FolderOf, Unnamed, Unclaimed
    <2>2. CASE pc # "dir"
      BY <1>1, <1>3, <2>2 DEF FolderOf, Unnamed, Unclaimed
    <2>3. CASE pc = "dir"
      BY <1>1, <1>3, <2>1, <2>3 DEF FolderOf, Unnamed
    <2> QED
      BY <2>2, <2>3
  <1> QED
    BY <1>3, <1>4, <1>5, NobodyMoves DEF Unmoved

LEMMA ClaimMaps ==
  ASSUME IInv, NEW p \in Person, Claim(p)
  PROVE  Calls!Next
  <1>1. /\ \A q \in Person : q # p => job'[q] = job[q] /\ disk'[q] = disk[q]
        /\ job[p].pc = "claim" /\ job'[p].pc = "encode" /\ job'[p].create = job[p].create
        /\ job'[p].net = job[p].net /\ disk' = disk /\ claimed' = claimed \cup {job[p].net}
        /\ UNCHANGED <<nets, invites, crashed>>
    <2>1. job \in [Person -> Job]
      BY DEF IInv, TypeOK
    <2> QED
      BY <2>1 DEF Claim, Job
  <1>2. job[p].create /\ job[p].net \notin claimed
    BY <1>1, Here DEF JobOK, KeyOK, Unclaimed
  <1>3. FolderOf(p) = Calls!Empty /\ FolderOf(p)' = FolderOf(p) /\ CallOf(p)' = CallOf(p)
    BY <1>1, Seen DEF Unnamed, Unclaimed, FolderOf, CallOf
  <1>4. FolderMap' = FolderMap /\ CallMap' = CallMap
    BY <1>1, <1>3, NobodyMoves
  <1>5. FolderMap[p] = Calls!Empty /\ CallMap[p].create /\ CallMap[p].net = job[p].net
    BY <1>2, <1>3 DEF FolderMap, CallMap, CallOf
  <1>6. Calls!Claim(p)
    BY <1>1, <1>2, <1>4, <1>5 DEF Calls!Claim, FolderMap, CallMap
  <1> QED
    BY <1>6 DEF Calls!Next

LEMMA ClaimFailsMaps ==
  ASSUME IInv, NEW p \in Person, ClaimFails(p)
  PROVE  Calls!Next
  <1>1. /\ job[p].pc = "claim" /\ Ends(p, "setup")
        /\ disk' = [disk EXCEPT ![p] = CleanUp(p)] /\ disk \in [Person -> Folder]
        /\ claimed' \in {claimed, claimed \cup {job[p].net}}
        /\ UNCHANGED <<nets, invites, crashed>>
    BY DEF ClaimFails, IInv, TypeOK
  <1>2. /\ job'[p] = NoJob
        /\ \A q \in Person : q # p => job'[q] = job[q] /\ disk'[q] = disk[q]
    BY <1>1, EndsFacts DEF IInv, Stage
  <1>3. FolderOf(p) = Calls!Empty /\ FolderOf(p)' = FolderOf(p)
    BY <1>1, <1>2, Seen, NoJobFacts DEF FolderOf, CleanUp, Unnamed, Unclaimed
  <1>4. CASE claimed' = claimed
    BY <1>1, <1>2, <1>3, <1>4, EndMaps
  <1>5. CASE claimed' = claimed \cup {job[p].net}
    <2>1. job[p].create /\ job[p].net \notin claimed
      BY <1>1, Here DEF JobOK, KeyOK, Unclaimed
    <2>2. FolderMap[p] = Calls!Empty /\ CallMap[p].create /\ CallMap[p].net = job[p].net
      BY <1>3, <2>1 DEF FolderMap, CallMap, CallOf
    <2>3. CallOf(p)' = Calls!NoCall
      BY <1>2 DEF CallOf, NoJob, Calls!NoCall
    <2>4. FolderMap' = FolderMap /\ CallMap' = [CallMap EXCEPT ![p] = Calls!NoCall]
      BY <1>2, <1>3, <2>3, OnlyCallMoves
    <2>5. Calls!Claim(p)
      BY <1>1, <1>5, <2>1, <2>2, <2>4 DEF Calls!Claim, FolderMap, CallMap
    <2> QED
      BY <2>5 DEF Calls!Next
  <1> QED
    BY <1>1, <1>4, <1>5

LEMMA EncodeInviteMaps ==
  ASSUME IInv, NEW p \in Person, EncodeInvite(p)
  PROVE  Mapped
  <1>1. /\ job[p].pc = "encode" /\ disk' = disk
        /\ UNCHANGED <<nets, claimed, invites, crashed>>
    BY DEF EncodeInvite
  <1>2. CASE Ends(p, "setup")
    <2>1. job'[p] = NoJob /\ \A q \in Person : q # p => job'[q] = job[q]
      BY <1>2, EndsFacts DEF IInv, Stage
    <2>2. FolderOf(p)' = FolderOf(p)
      BY <1>1, <2>1, NoJobFacts DEF FolderOf
    <2>3. Calls!Next
      BY <1>1, <2>1, <2>2, EndMaps
    <2> QED
      BY <2>3 DEF Mapped
  <1>3. CASE Goto(p, "keyTmp")
    <2>1. /\ job'[p].pc = "keyTmp" /\ job'[p].create = job[p].create /\ job'[p].net = job[p].net
          /\ \A q \in Person : q # p => job'[q] = job[q]
      BY <1>3, GotoFacts DEF IInv, Pc
    <2>2. FolderOf(p)' = FolderOf(p) /\ CallOf(p)' = CallOf(p)
      BY <1>1, <2>1 DEF FolderOf, CallOf
    <2> QED
      BY <1>1, <2>1, <2>2, NobodyMoves DEF Mapped, Unmoved
  <1> QED
    BY <1>2, <1>3 DEF EncodeInvite

\* The second rename makes the membership.
LEMMA RenameDirectoryMaps ==
  ASSUME IInv, NEW p \in Person, RenameDirectory(p)
  PROVE  Calls!Next
  <1> DEFINE n == job[p].net
             v == job[p].vip
             f == [disk[p] EXCEPT !.dir = disk[p].dirTmp, !.dirTmp = Nothing]
  <1>1. job[p].pc = "dir" /\ n \in 1..MaxNets /\ v \in 1..Host /\ f \in Folder
    BY Here, FolderFacts, NothingFacts DEF RenameDirectory, JobOK, IInv, Folder
  <1>2. /\ disk[p] \in Folder /\ disk[p].cfg = ConfigOf(n, v) /\ disk[p].dirTmp = DirOf(n, TRUE)
        /\ n \in claimed
    BY <1>1, Here, Seen, FolderFacts DEF JobOK, Unclaimed
  <1>3. /\ \A q \in Person : q # p => job'[q] = job[q] /\ disk'[q] = disk[q]
        /\ job'[p].pc = "load" /\ job'[p].create = job[p].create /\ job'[p].net = n
        /\ disk'[p] = f /\ UNCHANGED <<nets, claimed, invites, crashed>>
    BY <1>1, WriteFacts DEF IInv, Pc, RenameDirectory
  <1>4. f.cfg = ConfigOf(n, v) /\ f.dir = DirOf(n, TRUE)
    BY <1>2 DEF Folder
  <1> HIDE DEF f, n, v
  <1>5. FolderOf(p)' = Calls!Member(n, v)
    BY <1>3, <1>4 DEF FolderOf, Calls!Member, ConfigOf, DirOf
  <1>6. FolderMap[p] = Calls!Empty /\ CallMap[p].net = n
    BY <1>1, Seen DEF FolderMap, CallMap, CallOf, n
  <1>7. CallOf(p)' = CallOf(p)
    BY <1>3 DEF CallOf, n
  <1>8. CallMap' = CallMap /\ FolderMap' = [FolderMap EXCEPT ![p] = Calls!Member(n, v)]
    <2>1. /\ FolderMap' = [FolderMap EXCEPT ![p] = FolderOf(p)']
          /\ CallMap' = [CallMap EXCEPT ![p] = CallOf(p)'] /\ CallMap[p] = CallOf(p)
      BY <1>3, OneMoves
    <2>2. CallMap' = [CallMap EXCEPT ![p] = CallMap[p]]
      BY <1>7, <2>1
    <2>3. [CallMap EXCEPT ![p] = CallMap[p]] = CallMap
      BY DEF CallMap
    <2> QED
      BY <1>5, <2>1, <2>2, <2>3
  <1>9. Calls!Enrol(p)
    BY <1>1, <1>2, <1>3, <1>6, <1>8 DEF Calls!Enrol, FolderMap, CallMap
  <1> QED
    BY <1>9 DEF Calls!Next

LEMMA DiskFailsMaps ==
  ASSUME IInv, NEW p \in Person, DiskFails(p)
  PROVE  Calls!Next
  <1>1. /\ job[p].pc \in {"cfgTmp", "dirTmp", "keyTmp", "cfg", "dir"} /\ Ends(p, "setup")
        /\ disk' = [disk EXCEPT ![p] = CleanUp(p)] /\ disk \in [Person -> Folder]
        /\ invites' = Shown(p) /\ UNCHANGED <<nets, claimed, crashed>>
    BY DEF DiskFails, IInv, TypeOK
  <1>2. /\ job'[p] = NoJob /\ disk'[p] = CleanUp(p)
        /\ \A q \in Person : q # p => job'[q] = job[q] /\ disk'[q] = disk[q]
    BY <1>1, EndsFacts DEF IInv, Stage
  <1>3. FolderOf(p)' = [cfg |-> CleanUp(p).cfg, dir |-> CleanUp(p).dir]
    BY <1>2, NoJobFacts DEF FolderOf
  <1>4. CleanUp(p).cfg = Nothing /\ CleanUp(p).dir = Nothing
    BY <1>1, Here DEF CleanUp, JobOK, Unnamed, Unclaimed
  <1>5. FolderOf(p)' = FolderOf(p)
    BY <1>1, <1>3, <1>4, Seen DEF Calls!Empty, Nothing, Unnamed, Unclaimed
  <1> QED
    BY <1>1, <1>2, <1>5, EndMaps

LEMMA FinishMaps ==
  ASSUME IInv, NEW p \in Person, Finish(p)
  PROVE  Calls!Next
  <1>1. /\ job[p].pc = "load" /\ disk' = disk /\ job'[p] = NoJob
        /\ \A q \in Person : q # p => job'[q] = job[q]
        /\ invites' = Shown(p) /\ UNCHANGED <<nets, claimed, crashed>>
    BY EndsFacts DEF Finish, IInv, Stage
  <1>2. FolderOf(p)' = FolderOf(p)
    BY <1>1, NoJobFacts DEF FolderOf
  <1> QED
    BY <1>1, <1>2, EndMaps

LEMMA QuitMaps ==
  ASSUME IInv, NEW p \in Person, Quit(p)
  PROVE  Mapped
  <1>1. /\ disk' = disk /\ job'[p] = NoJob /\ \A q \in Person : q # p => job'[q] = job[q]
        /\ crashed' = (IF job[p].pc # "idle" THEN crashed \cup {p} ELSE crashed)
        /\ UNCHANGED <<nets, claimed, invites>>
    BY DEF Quit, IInv, TypeOK
  <1>2. CallOf(p)' = Calls!NoCall
    BY <1>1 DEF CallOf, NoJob, Calls!NoCall
  <1>3. CASE job[p].pc = "idle"
    <2>1. FolderOf(p)' = FolderOf(p) /\ CallOf(p)' = CallOf(p)
      BY <1>1, <1>2, <1>3, Seen, NoJobFacts DEF FolderOf
    <2> QED
      BY <1>1, <1>3, <2>1, NobodyMoves DEF Mapped, Unmoved
  <1>4. CASE job[p].pc \notin {"idle", "dir"}
    <2>1. FolderOf(p)' = FolderOf(p)
      BY <1>1, <1>4, NoJobFacts DEF FolderOf
    <2>2. Calls!Next
      BY <1>1, <1>4, <2>1, EndMaps
    <2> QED
      BY <2>2 DEF Mapped
  <1>5. CASE job[p].pc = "dir"
    <2> DEFINE n == job[p].net
               v == job[p].vip
    <2>1. /\ n \in claimed /\ v \in 1..Host
          /\ disk[p].cfg = ConfigOf(n, v) /\ disk[p].dir = Nothing
      BY <1>5, Here, Seen DEF JobOK, Unclaimed
    <2>2. FolderOf(p)' = Calls!Half(n, v)
      BY <1>1, <2>1, NoJobFacts DEF FolderOf, Calls!Half, ConfigOf, Nothing
    <2> HIDE DEF n, v
    <2>3. FolderMap[p] = Calls!Empty /\ CallMap[p].net = n
      BY <1>5, Seen DEF FolderMap, CallMap, CallOf, n
    <2>4. /\ FolderMap' = [FolderMap EXCEPT ![p] = Calls!Half(n, v)]
          /\ CallMap' = [CallMap EXCEPT ![p] = Calls!NoCall]
      BY <1>1, <1>2, <2>2, OneMoves
    <2>5. Calls!Break(p)
      BY <1>1, <1>5, <2>1, <2>3, <2>4 DEF Calls!Break, FolderMap, CallMap
    <2> QED
      BY <2>5 DEF Mapped, Calls!Next
  <1> QED
    BY <1>3, <1>4, <1>5

LEMMA RemoveFilesMaps ==
  ASSUME IInv, NEW p \in Person, RemoveFiles(p)
  PROVE  Calls!Next
  <1>1. /\ \A q \in Person : q # p => job'[q] = job[q] /\ disk'[q] = disk[q]
        /\ job' = job /\ disk'[p].cfg = Nothing /\ disk'[p].dir = Nothing
        /\ stage[p] = "off" /\ UNCHANGED <<nets, claimed, invites, crashed>>
    <2>1. disk \in [Person -> Folder]
      BY DEF IInv, TypeOK
    <2> QED
      BY <2>1 DEF RemoveFiles, Folder
  <1>2. job[p].pc = "idle"
    BY <1>1, Here DEF JobOK
  <1>3. FolderOf(p)' = Calls!Empty /\ CallOf(p)' = CallOf(p)
    BY <1>1, <1>2 DEF FolderOf, CallOf, Calls!Empty, Nothing
  <1>4. CallMap[p] = Calls!NoCall
    BY <1>2, Seen DEF CallMap
  <1>5. CallMap' = CallMap /\ FolderMap' = [FolderMap EXCEPT ![p] = Calls!Empty]
    BY <1>1, <1>3, OneMoves DEF CallMap, CallOf
  <1>6. Calls!Leave(p)
    BY <1>1, <1>4, <1>5 DEF Calls!Leave, FolderMap, CallMap
  <1> QED
    BY <1>6 DEF Calls!Next

LEMMA InitMaps == Init => Calls!Init
  BY NoJobFacts, EmptyFacts
  DEF Init, Calls!Init, FolderOf, CallOf, Calls!Empty, Calls!NoCall, NoJob, Nothing

LEMMA NextMaps == IInv /\ [Next]_vars => Mapped
  <1> SUFFICES ASSUME IInv, [Next]_vars PROVE Mapped
    OBVIOUS
  <1>1. ASSUME NEW p \in Person, Step(p) PROVE Mapped
    BY <1>1, ReadMembersMaps, MembersFailMaps, WritingMaps, ClaimMaps, ClaimFailsMaps,
       EncodeInviteMaps, RenameDirectoryMaps, DiskFailsMaps, FinishMaps
    DEF Step, Mapped
  <1>2. UNCHANGED <<disk, job, nets, claimed, invites, crashed>> => Mapped
    BY DEF Mapped, Unmoved, FolderMap, CallMap, FolderOf, CallOf
  <1>3. ASSUME NEW p \in Person, User(p) PROVE Mapped
    BY <1>2, <1>3, CreateMaps, JoinMaps, QuitMaps, RemoveFilesMaps
    DEF User, Refuse, StartNetwork, Launch, Mapped, vars
  <1>4. ASSUME NEW p \in Person, PublishSelf(p) \/ Forget(p) PROVE Mapped
    BY <1>2, <1>4 DEF PublishSelf, Forget
  <1>5. CASE UNCHANGED vars
    BY <1>2, <1>5 DEF vars
  <1> QED
    BY <1>1, <1>3, <1>4, <1>5 DEF Next

\* Each call of setup.rs is one step or none, whichever of its own steps fails
\* (setup.rs:2), and only the end of the application leaves a half of it.
THEOREM ImplementsEnrolmentHolds == Spec => ImplementsEnrolment
  <1>1. IInv /\ [Next]_vars
          => [Calls!Next]_<<[p \in Person |-> FolderOf(p)], [p \in Person |-> CallOf(p)],
                            nets, claimed, invites, crashed>>
    BY NextMaps DEF Mapped, Unmoved, FolderMap, CallMap
  <1> QED
    BY AlwaysIInv, InitMaps, <1>1, PTL DEF Spec, ImplementsEnrolment, Calls!Spec, Calls!vars
=============================================================================
