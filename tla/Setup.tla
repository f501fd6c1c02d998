-------------------------------- MODULE Setup --------------------------------
(***************************************************************************)
(* Creating and joining a network (setup.rs, invite.rs, mantle.rs claim,   *)
(* and the setup screen of the GUI that runs them as a background job).    *)
(* Each person has a folder with mesh.toml and directory.toml.  Both files *)
(* are staged under temporary names, the network is claimed or its members *)
(* are read, and the files are renamed one after the other.  Every file    *)
(* operation and request is a step; each may fail, and the application may *)
(* end between any two.                                                    *)
(***************************************************************************)
EXTENDS Naturals, FiniteSets

CONSTANTS
  Person,
  Host,        \* last bytes of the virtual addresses: 1..Host
  Ask,         \* the addresses people type in; others leave the field empty
  BadKey,      \* may the service answer a claim with an ill-formed key?
  MaxNets,     \* bound: networks claimed or about to be
  MaxQuits     \* bound: how often an application ends

ASSUME SetupAssumption ==
  /\ Host \in Nat /\ Host >= 2 /\ Ask \subseteq 1..Host
  /\ BadKey \in BOOLEAN /\ MaxNets \in Nat /\ MaxQuits \in Nat

Nothing == [net |-> 0]
ConfigOf(n, v) == [net |-> n, vip |-> v]
DirOf(n, k) == [net |-> n, key |-> k]

Config == [net: 1..MaxNets, vip: 1..Host] \cup {Nothing}
DirectorySettings == [net: 1..MaxNets, key: BOOLEAN] \cup {Nothing}
Folder == [cfg: Config, dir: DirectorySettings, cfgTmp: Config, dirTmp: DirectorySettings]
EmptyFolder == [cfg |-> Nothing, dir |-> Nothing, cfgTmp |-> Nothing, dirTmp |-> Nothing]

Stage == {"off", "setup", "working", "created", "running"}
Pc == {"idle", "members", "cfgTmp", "dirTmp", "claim", "encode", "keyTmp", "cfg", "dir", "load"}
Job == [pc: Pc, create: BOOLEAN, net: 0..MaxNets, vip: 0..Host, key: {"none", "good", "bad"}]
NoJob == [pc |-> "idle", create |-> FALSE, net |-> 0, vip |-> 0, key |-> "none"]

VARIABLES
  disk,      \* disk[p]: p's folder
  stage,     \* stage[p]: what p's application shows
  job,       \* job[p]: the setup job
  nets,      \* network keys generated so far
  claimed,   \* namespaces claimed at the service
  answered,  \* history: those whose claim was answered
  invites,   \* networks whose invite somebody was shown
  members,   \* the shared directories
  quits,
  crashed,   \* history: whose application ended during a job
  listed     \* history: listed[p]: the addresses in the list p chose its own by

vars ==
  <<disk, stage, job, nets, claimed, answered, invites, members, quits, crashed, listed>>

Record == [net: 1..MaxNets, who: Person, vip: 1..Host]

TypeOK ==
  /\ disk \in [Person -> Folder]
  /\ stage \in [Person -> Stage]
  /\ job \in [Person -> Job]
  /\ nets \in 0..MaxNets
  /\ answered \subseteq claimed /\ claimed \subseteq 1..MaxNets
  /\ invites \subseteq 1..MaxNets
  /\ members \subseteq Record
  /\ crashed \subseteq Person
  /\ quits \in 0..MaxQuits
  /\ listed \in [Person -> SUBSET (1..Host)]

Init ==
  /\ disk = [p \in Person |-> EmptyFolder]
  /\ stage = [p \in Person |-> "setup"]
  /\ job = [p \in Person |-> NoJob]
  /\ nets = 0 /\ claimed = {} /\ answered = {} /\ invites = {} /\ members = {}
  /\ quits = 0 /\ crashed = {}
  /\ listed = [p \in Person |-> {}]

AlreadySetUp(p) == disk[p].cfg # Nothing \/ disk[p].dir # Nothing

Goto(p, pc) == job' = [job EXCEPT ![p].pc = pc]

\* The job ends; poll_job shows the screen it started from, or the next one.
Ends(p, s) ==
  /\ job' = [job EXCEPT ![p] = NoJob]
  /\ stage' = [stage EXCEPT ![p] = s]
\* The temporary files are removed, and mesh.toml if it has been renamed alone.
CleanUp(p) ==
  [cfg |-> IF job[p].pc = "dir" THEN Nothing ELSE disk[p].cfg, dir |-> disk[p].dir,
   cfgTmp |-> Nothing, dirTmp |-> Nothing]

\* An empty name, an address out of range, a damaged invite or a folder that
\* has a network already: the form shows an error, nothing else happens.
Refuse(p) == stage[p] = "setup" /\ UNCHANGED vars

\* create_network up to Staged::prepare.  No address given: the first one.
CreateNetwork(p) ==
  /\ stage[p] = "setup" /\ ~AlreadySetUp(p) /\ nets < MaxNets
  /\ nets' = nets + 1
  /\ \E v \in {1} \cup Ask :
       job' = [job EXCEPT ![p] = [pc |-> "cfgTmp", create |-> TRUE, net |-> nets + 1, vip |-> v,
                                  key |-> "none"]]
  /\ stage' = [stage EXCEPT ![p] = "working"]
  /\ listed' = [listed EXCEPT ![p] = {}]
  /\ UNCHANGED <<disk, claimed, answered, invites, members, quits, crashed>>

\* join_network with an invite somebody was shown, up to reading the members.
JoinNetwork(p) ==
  /\ stage[p] = "setup" /\ ~AlreadySetUp(p)
  /\ \E n \in invites, v \in {0} \cup Ask :
       job' = [job EXCEPT ![p] = [pc |-> "members", create |-> FALSE, net |-> n, vip |-> v,
                                  key |-> "none"]]
  /\ stage' = [stage EXCEPT ![p] = "working"]
  /\ UNCHANGED <<disk, nets, claimed, answered, invites, members, quits, crashed, listed>>

\* Faulty variant: the one after the highest in the list.
SuggestNextIp(taken) ==
  IF taken = {} THEN 2 ELSE 1 + CHOOSE v \in taken : \A u \in taken : u <= v

\* The first address from 2 on that nobody in the list has, or the last one.
SuggestFreeIp(taken) ==
  IF 2..Host \subseteq taken THEN Host
  ELSE CHOOSE v \in (2..Host) \ taken : \A u \in (2..Host) \ taken : v <= u

ReadMembers(p) ==
  LET taken == {r.vip : r \in {m \in members : m.net = job[p].net}}
      want == job[p].vip IN
  /\ job[p].pc = "members"
  /\ IF want \in taken
     THEN Ends(p, "setup") /\ UNCHANGED listed
     ELSE /\ job' = [job EXCEPT ![p].pc = "cfgTmp",
                                ![p].vip = IF want # 0 THEN want ELSE SuggestFreeIp(taken)]
          /\ listed' = [listed EXCEPT ![p] = taken]
          /\ UNCHANGED stage
  /\ UNCHANGED <<disk, nets, claimed, answered, invites, members, quits, crashed>>

\* No service answered.
MembersFail(p) ==
  /\ job[p].pc = "members"
  /\ Ends(p, "setup")
  /\ UNCHANGED <<disk, nets, claimed, answered, invites, members, quits, crashed, listed>>

Write(p, folder, next) ==
  /\ disk' = [disk EXCEPT ![p] = folder]
  /\ Goto(p, next)
  /\ UNCHANGED <<stage, nets, claimed, answered, invites, members, quits, crashed, listed>>

\* Staged::prepare.
StageConfig(p) ==
  /\ job[p].pc = "cfgTmp"
  /\ Write(p, [disk[p] EXCEPT !.cfgTmp = ConfigOf(job[p].net, job[p].vip)], "dirTmp")
\* Faulty variant: a temporary file that is there already is kept.
StageDirectoryOnce(p) ==
  /\ job[p].pc = "dirTmp"
  /\ Write(p, [disk[p] EXCEPT !.dirTmp = IF @ # Nothing THEN @
                                         ELSE DirOf(job[p].net, ~job[p].create)],
           IF job[p].create THEN "claim" ELSE "cfg")

StageDirectory(p) ==
  /\ job[p].pc = "dirTmp"
  /\ Write(p, [disk[p] EXCEPT !.dirTmp = DirOf(job[p].net, ~job[p].create)],
           IF job[p].create THEN "claim" ELSE "keyTmp")

\* mantle::claim: the service may claim the name and its answer be lost, or be
\* one that the invite cannot carry.
Claim(p) ==
  /\ job[p].pc = "claim"
  /\ \E k \in {"good"} \cup IF BadKey THEN {"bad"} ELSE {} :
       job' = [job EXCEPT ![p].pc = "encode", ![p].key = k]
  /\ claimed' = claimed \cup {job[p].net}
  /\ answered' = answered \cup {job[p].net}
  /\ UNCHANGED <<disk, stage, nets, invites, members, quits, crashed, listed>>

ClaimFails(p) ==
  /\ job[p].pc = "claim"
  /\ \E reached \in BOOLEAN :
       claimed' = IF reached THEN claimed \cup {job[p].net} ELSE claimed
  /\ Ends(p, "setup")
  /\ disk' = [disk EXCEPT ![p] = CleanUp(p)]
  /\ UNCHANGED <<nets, answered, invites, members, quits, crashed, listed>>

\* invite::encode checks the settings: a bad key ends the call there and then.
EncodeInvite(p) ==
  /\ job[p].pc = "encode"
  /\ IF job[p].key = "good" THEN Goto(p, "keyTmp") /\ UNCHANGED stage
     ELSE Ends(p, "setup")
  /\ UNCHANGED <<disk, nets, claimed, answered, invites, members, quits, crashed, listed>>

\* Staged::commit.
WriteKey(p) ==
  /\ job[p].pc = "keyTmp"
  /\ Write(p, [disk[p] EXCEPT !.dirTmp = DirOf(job[p].net, TRUE)], "cfg")
RenameConfig(p) ==
  /\ job[p].pc = "cfg"
  /\ Write(p, [disk[p] EXCEPT !.cfg = disk[p].cfgTmp, !.cfgTmp = Nothing], "dir")
RenameDirectory(p) ==
  /\ job[p].pc = "dir"
  /\ Write(p, [disk[p] EXCEPT !.dir = disk[p].dirTmp, !.dirTmp = Nothing], "load")

\* A file operation fails.  After a claim the error carries the invite.
Shown(p) == IF job[p].key = "good" THEN invites \cup {job[p].net} ELSE invites
\* Faulty variants: the first file is left in place; the error is a plain one.
DiskFailsNoRollback(p) ==
  /\ job[p].pc \in {"cfgTmp", "dirTmp", "keyTmp", "cfg", "dir"}
  /\ disk' = [disk EXCEPT ![p] = [CleanUp(p) EXCEPT !.cfg = disk[p].cfg]]
  /\ invites' = Shown(p)
  /\ Ends(p, "setup")
  /\ UNCHANGED <<nets, claimed, answered, members, quits, crashed, listed>>
DiskFailsSilently(p) ==
  /\ job[p].pc \in {"cfgTmp", "dirTmp", "keyTmp", "cfg", "dir"}
  /\ disk' = [disk EXCEPT ![p] = CleanUp(p)]
  /\ Ends(p, "setup")
  /\ UNCHANGED <<nets, claimed, answered, invites, members, quits, crashed, listed>>

DiskFails(p) ==
  /\ job[p].pc \in {"cfgTmp", "dirTmp", "keyTmp", "cfg", "dir"}
  /\ disk' = [disk EXCEPT ![p] = CleanUp(p)]
  /\ invites' = Shown(p)
  /\ Ends(p, "setup")
  /\ UNCHANGED <<nets, claimed, answered, members, quits, crashed, listed>>

\* The creator is shown the invite, with or without an error; one who joined
\* is in the network at once.
Finish(p) ==
  /\ job[p].pc = "load"
  /\ invites' = Shown(p)
  /\ \E s \in IF job[p].create THEN {"created", "setup"} ELSE {"running"} : Ends(p, s)
  /\ UNCHANGED <<disk, nets, claimed, answered, members, quits, crashed, listed>>

StartNetwork(p) ==
  /\ stage[p] = "created"
  /\ stage' = [stage EXCEPT ![p] = "running"]
  /\ UNCHANGED <<disk, job, nets, claimed, answered, invites, members, quits, crashed, listed>>

\* The application ends.  Started again, it runs what is on disk.
Quit(p) ==
  /\ stage[p] # "off" /\ quits < MaxQuits
  /\ quits' = quits + 1
  /\ stage' = [stage EXCEPT ![p] = "off"]
  /\ job' = [job EXCEPT ![p] = NoJob]
  /\ crashed' = IF job[p].pc # "idle" THEN crashed \cup {p} ELSE crashed
  /\ UNCHANGED <<disk, nets, claimed, answered, invites, members, listed>>
Launch(p) ==
  /\ stage[p] = "off"
  /\ stage' = [stage EXCEPT ![p] = IF disk[p].cfg # Nothing THEN "running" ELSE "setup"]
  /\ UNCHANGED <<disk, job, nets, claimed, answered, invites, members, quits, crashed, listed>>

\* "Remove those files to start over."
RemoveFiles(p) ==
  /\ stage[p] = "off" /\ AlreadySetUp(p)
  /\ disk' = [disk EXCEPT ![p].cfg = Nothing, ![p].dir = Nothing]
  /\ listed' = [listed EXCEPT ![p] = {}]
  /\ UNCHANGED <<stage, job, nets, claimed, answered, invites, members, quits, crashed>>

\* The directory (see module Directory): a running member with the write key
\* lists itself, and one that is away too long is dropped.
Mine(p) == [net |-> disk[p].cfg.net, who |-> p, vip |-> disk[p].cfg.vip]
PublishSelf(p) ==
  /\ stage[p] = "running" /\ disk[p].dir # Nothing /\ disk[p].dir.key
  /\ members' = members \cup {Mine(p)}
  /\ UNCHANGED <<disk, stage, job, nets, claimed, answered, invites, quits, crashed, listed>>
Forget(p) ==
  /\ stage[p] # "running"
  /\ \E r \in members : r.who = p /\ members' = members \ {r}
  /\ UNCHANGED <<disk, stage, job, nets, claimed, answered, invites, quits, crashed, listed>>

Step(p) ==
  \/ ReadMembers(p) \/ MembersFail(p)
  \/ StageConfig(p) \/ StageDirectory(p)
  \/ Claim(p) \/ ClaimFails(p) \/ EncodeInvite(p)
  \/ WriteKey(p) \/ RenameConfig(p) \/ RenameDirectory(p)
  \/ DiskFails(p) \/ Finish(p)

User(p) ==
  \/ Refuse(p) \/ CreateNetwork(p) \/ JoinNetwork(p) \/ StartNetwork(p)
  \/ Quit(p) \/ Launch(p) \/ RemoveFiles(p)

Next == \E p \in Person : Step(p) \/ User(p) \/ PublishSelf(p) \/ Forget(p)

Spec == Init /\ [][Next]_vars

-----------------------------------------------------------------------------
(* Properties.                                                              *)

\* "Each call either completes fully or leaves no trace behind" (setup.rs:2):
\* between jobs a folder has both files or none, and no temporary file,
\* whichever step of whichever earlier job failed.
AllOrNothing ==
  \A p \in Person \ crashed : job[p].pc = "idle" =>
    /\ disk[p].cfg = Nothing <=> disk[p].dir = Nothing
    /\ disk[p].cfgTmp = Nothing /\ disk[p].dirTmp = Nothing

\* Even after crashes, and with what they left behind, the two files of a
\* folder are never of two networks.
OfOneNetwork ==
  \A p \in Person :
    disk[p].cfg # Nothing /\ disk[p].dir # Nothing => disk[p].cfg.net = disk[p].dir.net

\* A network that answered the claim can be written to by somebody: its write
\* key was shown, or is still held by the job ("the error text contains the
\* invite, so the write key is not lost", setup.rs:14).
KeyKept ==
  \A n \in answered :
    \/ n \in invites
    \/ \E p \in Person : job[p].net = n /\ job[p].create
    \/ crashed # {}

\* Whoever is in a network has the key to its directory, with which it can
\* list itself; a folder that a crash left half done has no directory at all.
MembersCanPublish ==
  \A p \in Person : disk[p].dir # Nothing => disk[p].dir.key /\ disk[p].dir.net \in claimed

\* Nobody who joined has an address that was in the list it read, unless there
\* was no free one.
ListedAddressKept ==
  \A p \in Person :
    disk[p].cfg # Nothing /\ ~(2..Host \subseteq listed[p]) => disk[p].cfg.vip \notin listed[p]

\* The folder as the other files of the program may find it: a call that is
\* between the two renames has not happened yet, as it is undone when it fails.
FolderOf(p) ==
  IF job[p].pc = "dir" THEN [cfg |-> Nothing, dir |-> Nothing]
  ELSE [cfg |-> disk[p].cfg, dir |-> disk[p].dir]
CallOf(p) == [net |-> job[p].net, create |-> job[p].create]

Calls ==
  INSTANCE Enrolment WITH
    folder <- [p \in Person |-> FolderOf(p)], call <- [p \in Person |-> CallOf(p)], keys <- nets

\* Each call, whatever fails in it, makes its person a member of a claimed
\* network with the write key in one step, or does nothing; what is left of a
\* crash or of temporary files is never taken for another network's (setup.rs:2).
ImplementsEnrolment == Calls!Spec

-----------------------------------------------------------------------------
(* The invariant that the proofs use.                                       *)

Unclaimed == {"cfgTmp", "dirTmp", "claim"}
Unnamed == {"members", "encode", "keyTmp", "cfg"} \cup Unclaimed

\* A job works on an empty folder, and what it has staged is its own.
JobOK(p) ==
  LET j == job[p]
      d == disk[p] IN
  /\ j.pc # "idle" <=> stage[p] = "working"
  /\ j.pc = "idle" => j = NoJob
  /\ j.pc # "idle" => j.net \in 1..nets /\ (j.pc # "members" => j.vip \in 1..Host)
  /\ j.pc = "members" => ~j.create
  /\ j.pc \in {"claim", "encode"} => j.create
  /\ j.pc \in Unnamed => d.cfg = Nothing /\ d.dir = Nothing
  /\ j.pc \in {"dirTmp", "claim", "encode", "keyTmp", "cfg"} => d.cfgTmp = ConfigOf(j.net, j.vip)
  /\ j.pc \in {"cfg", "dir"} => d.dirTmp = DirOf(j.net, TRUE)
  /\ j.pc = "dir" => d.cfg = ConfigOf(j.net, j.vip) /\ d.dir = Nothing
  /\ j.pc = "load" => d.cfg # Nothing /\ d.dir # Nothing
  /\ stage[p] \in {"created", "running"} => d.cfg # Nothing
JobSound == \A p \in Person : JobOK(p)

\* A job has a write key when its network is claimed, and is the only one to
\* have it until an invite is shown: a network key is generated once.
KeyOK(p) ==
  LET j == job[p] IN
  /\ ~j.create => j.key = "none" /\ (j.pc # "idle" => j.net \in claimed)
  /\ j.create /\ j.pc \in Unclaimed => j.key = "none" /\ j.net \notin claimed
  /\ j.create /\ j.pc \notin Unclaimed => j.key # "none" /\ j.net \in claimed
  /\ j.key = "bad" => BadKey /\ j.pc = "encode"
KeySound == \A p \in Person : KeyOK(p)
NetsSound ==
  /\ claimed \subseteq 1..nets /\ invites \subseteq claimed
  /\ \A p, q \in Person : job[p].create /\ job[q].create /\ job[p].net = job[q].net => p = q

\* The address a job has chosen is a free one.
ChosenFree ==
  \A p \in Person :
    job[p].pc \in Unnamed \ {"members"} /\ ~(2..Host \subseteq listed[p]) =>
      job[p].vip \notin listed[p]

\* What a job that nothing interrupted has in its folder besides.
TidyOK(p) ==
  LET d == disk[p] IN
  /\ job[p].pc \in {"idle", "members", "cfgTmp", "dir", "load"} => d.cfgTmp = Nothing
  /\ job[p].pc \in {"idle", "members", "cfgTmp", "dirTmp", "load"} => d.dirTmp = Nothing
  /\ job[p].pc = "idle" => (d.cfg = Nothing <=> d.dir = Nothing)
Tidy == \A p \in Person \ crashed : TidyOK(p)

IInv ==
  /\ TypeOK /\ JobSound /\ KeySound /\ NetsSound /\ ChosenFree
  /\ OfOneNetwork /\ MembersCanPublish /\ ListedAddressKept
  /\ ~BadKey => Tidy /\ KeyKept
=============================================================================
