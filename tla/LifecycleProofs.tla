--------------------------- MODULE LifecycleProofs ---------------------------
(***************************************************************************)
(* Theorems of Lifecycle, for any number of meshes, quits, edits, names    *)
(* and versions of resolv.conf, whether or not system files are readable,  *)
(* and of Names, for any members, labels, services and threads.            *)
(***************************************************************************)
EXTENDS Lifecycle, Names, FiniteSetTheorems, SequenceTheorems,
  WellFoundedInduction, TLAPS

Sync == [pc: {"idle", "read", "open", "write", "rename"}, block: SUBSET Name, text: Text, fd: Fd]

LEMMA TextFacts ==
  /\ Torn \in Text /\ NoFile \notin Text /\ Torn.theirs = 0
  /\ \A x \in Text : x.theirs \in 0..(MaxEdits + 1) /\ x.block \in SUBSET Name
  /\ \A n \in 0..(MaxEdits + 1), b \in SUBSET Name :
       /\ [theirs |-> n, block |-> b] \in Text /\ [theirs |-> n, block |-> b].theirs = n
  BY HostsAssumption DEF Torn, NoFile, Text, Whole

LEMMA NoSyncFacts ==
  /\ NoSync \in Sync /\ NoSync.pc = "idle" /\ NoSync.fd = "none"
  BY TextFacts DEF NoSync, Sync, Fd

LEMMA SyncFacts ==
  ASSUME HostsTypeOK, NEW t \in Thread
  PROVE  /\ sync \in [Thread -> Sync] /\ sync[t] \in Sync
         /\ sync[t].text \in Text /\ sync[t].block \in SUBSET Name /\ sync[t].fd \in Fd
  BY DEF HostsTypeOK, Sync

\* A rewrite begins.
LEMMA BegunFacts ==
  ASSUME HostsTypeOK, HostsSound, NEW t \in Thread, NEW b \in SUBSET Name,
         sync' = Begun(t, b), UNCHANGED hostsRest
  PROVE  HostsTypeOK' /\ HostsSound'
  <1>1. /\ sync' \in [Thread -> Sync] /\ sync'[t].pc = "read" /\ sync'[t].fd = "none"
        /\ \A u \in Thread : u # t => sync'[u] = sync[u]
    BY SyncFacts, NoSyncFacts DEF Begun, Sync, HostsTypeOK
  <1>2. HostsTypeOK'
    BY <1>1 DEF HostsTypeOK, hostsRest, Sync
  <1>3. HostsSound'
    <2>1. Rewriting' \subseteq Rewriting
      BY <1>1 DEF Rewriting
    <2>2. ASSUME NEW u \in Thread, RewriteOK(u) PROVE RewriteOK(u)'
      BY <1>1, <2>1, <2>2 DEF RewriteOK, hostsRest
    <2> QED
      BY <2>2 DEF HostsSound, hostsRest
  <1> QED
    BY <1>2, <1>3

\* Who renames a file, or removes it, leaves the descriptors of the others.
LEMMA MovedFacts ==
  ASSUME HostsTypeOK, NEW t \in Thread, NEW to \in {"hosts", "gone"}, sync' = Moved(t, to)
  PROVE  /\ sync' \in [Thread -> Sync] /\ sync'[t] = NoSync
         /\ \A u \in Thread : u # t =>
              /\ sync'[u].pc = sync[u].pc /\ sync'[u].text = sync[u].text
              /\ sync[u].fd = "none" => sync'[u].fd = "none"
  <1>1. /\ sync' = [u \in Thread |-> Moved(t, to)[u]]
        /\ \A u \in Thread : Moved(t, to)[u] =
             IF u = t THEN NoSync
             ELSE IF sync[u].fd = "tmp" THEN [sync[u] EXCEPT !.fd = to]
             ELSE IF sync[u].fd = "hosts" /\ to = "hosts" THEN [sync[u] EXCEPT !.fd = "gone"]
             ELSE sync[u]
    BY DEF Moved
  <1>2. ASSUME NEW u \in Thread, NEW x \in Fd
        PROVE  /\ [sync[u] EXCEPT !.fd = x] \in Sync
               /\ [sync[u] EXCEPT !.fd = x].pc = sync[u].pc
               /\ [sync[u] EXCEPT !.fd = x].text = sync[u].text
    <2>1. sync[u] \in Sync
      BY <1>2, SyncFacts
    <2> QED
      BY <1>2, <2>1 DEF Sync
  <1>3. to \in Fd /\ "gone" \in Fd
    BY DEF Fd
  <1>4. ASSUME NEW u \in Thread PROVE Moved(t, to)[u] \in Sync
    <2>1. /\ NoSync \in Sync /\ sync[u] \in Sync
          /\ [sync[u] EXCEPT !.fd = to] \in Sync /\ [sync[u] EXCEPT !.fd = "gone"] \in Sync
      BY <1>2, <1>3, <1>4, SyncFacts, NoSyncFacts
    <2>2. Moved(t, to)[u] \in
            {NoSync, sync[u], [sync[u] EXCEPT !.fd = to], [sync[u] EXCEPT !.fd = "gone"]}
      BY <1>1, <1>4
    <2> QED
      BY <2>1, <2>2
  <1>5. sync' \in [Thread -> Sync]
    BY <1>1, <1>4
  <1>6. sync'[t] = NoSync
    BY <1>1
  <1>7. ASSUME NEW u \in Thread, u # t
        PROVE  /\ sync'[u].pc = sync[u].pc /\ sync'[u].text = sync[u].text
               /\ sync[u].fd = "none" => sync'[u].fd = "none"
    <2>1. sync'[u] = Moved(t, to)[u]
      BY <1>1
    <2>2. CASE sync[u].fd = "tmp"
      <3>1. sync'[u] = [sync[u] EXCEPT !.fd = to]
        BY <1>1, <1>7, <2>1, <2>2
      <3> QED
        BY <1>2, <1>3, <2>2, <3>1
    <2>3. CASE sync[u].fd # "tmp" /\ sync[u].fd = "hosts" /\ to = "hosts"
      <3>1. sync'[u] = [sync[u] EXCEPT !.fd = "gone"]
        BY <1>1, <1>7, <2>1, <2>3
      <3>2. /\ [sync[u] EXCEPT !.fd = "gone"].pc = sync[u].pc
            /\ [sync[u] EXCEPT !.fd = "gone"].text = sync[u].text
        BY <1>2, <1>3
      <3> QED
        BY <2>3, <3>1, <3>2
    <2>4. CASE sync[u].fd # "tmp" /\ ~(sync[u].fd = "hosts" /\ to = "hosts")
      <3>1. sync'[u] = sync[u]
        BY <1>1, <1>7, <2>1, <2>4
      <3> QED
        BY <3>1
    <2> QED
      BY <2>2, <2>3, <2>4
  <1> QED
    BY <1>5, <1>6, <1>7

-----------------------------------------------------------------------------
(* The hosts file.                                                          *)

LEMMA HostsTypeStep ==
  ASSUME HostsTypeOK, NEW t \in Thread, SyncStep(t)
  PROVE  HostsTypeOK'
  <1> USE SyncFacts DEF HostsTypeOK
  <1>t. sync[t] \in Sync /\ sync \in [Thread -> Sync]
    OBVIOUS
  <1>1. CASE Read(t)
    <2>1. [theirs |-> hosts.theirs, block |-> sync[t].block] \in Text
      BY TextFacts
    <2> QED
      BY <1>1, <1>t, <2>1 DEF Read, Sync
  <1>2. CASE ReadFails(t)
    <2>1. [theirs |-> 0, block |-> sync[t].block] \in Text
      BY TextFacts, HostsAssumption
    <2> QED
      BY <1>2, <1>t, <2>1 DEF ReadFails, Sync
  <1>3. CASE Open(t)
    BY <1>3, <1>t, TextFacts DEF Open, Sync, Fd
  <1>4. CASE Write(t)
    <2>1. \A x : Written(x, sync[t].text) \subseteq Text
      BY TextFacts DEF Written
    <2> QED
      BY <1>4, <1>t, <2>1 DEF Write, Sync, Fd
  <1>5. CASE WriteFails(t)
    BY <1>5, NoSyncFacts DEF WriteFails, Sync
  <1>6. CASE Rename(t)
    BY <1>6, MovedFacts DEF Rename, Sync
  <1>7. CASE RenameFails(t)
    BY <1>7, MovedFacts DEF RenameFails, Sync
  <1> QED
    BY <1>1, <1>2, <1>3, <1>4, <1>5, <1>6, <1>7 DEF SyncStep

LEMMA HostsSoundStep ==
  ASSUME HostsTypeOK, HostsSound, NEW t \in Thread, SyncStep(t)
  PROVE  HostsSound'
  <1> SUFFICES ASSUME ~raced' PROVE hosts'.theirs = edits' + 1 /\ \A u \in Thread : RewriteOK(u)'
    BY DEF HostsSound
  <1>0. ~raced /\ edits' = edits
    <2>1. Read(t) \/ ReadFails(t) => ~raced /\ edits' = edits
      BY DEF Read, ReadFails
    <2>2. Open(t) \/ Write(t) \/ WriteFails(t) => ~raced /\ edits' = edits
      BY DEF Open, Write, WriteFails
    <2>3. Rename(t) \/ RenameFails(t) => ~raced /\ edits' = edits
      BY DEF Rename, RenameFails
    <2> QED
      BY <2>1, <2>2, <2>3 DEF SyncStep
  <1>h. hosts.theirs = edits + 1 /\ \A u \in Thread : RewriteOK(u)
    BY <1>0 DEF HostsSound
  <1>t. sync \in [Thread -> Sync] /\ sync[t] \in Sync
    BY SyncFacts
  <1>1. CASE Read(t)
    <2>1. Rewriting = {} /\ hosts' = hosts /\ tmp' = tmp
      BY <1>1 DEF Read
    <2>2. /\ sync'[t].pc = "open" /\ sync'[t].fd = sync[t].fd /\ sync'[t].text.theirs = edits + 1
          /\ \A u \in Thread : u # t => sync'[u] = sync[u]
      BY <1>1, <1>t, <1>h DEF Read, Sync
    <2>3. sync[t].fd = "none" /\ Rewriting' \subseteq {t}
      BY <1>1, <1>h, <2>1, <2>2 DEF Read, Rewriting, RewriteOK
    <2>4. ASSUME NEW u \in Thread PROVE RewriteOK(u)'
      <3>1. CASE u = t
        BY <1>0, <2>2, <2>3, <3>1 DEF RewriteOK
      <3>2. CASE u # t
        BY <1>h, <2>1, <2>2, <3>2 DEF RewriteOK, Rewriting
      <3> QED
        BY <3>1, <3>2
    <2> QED
      BY <1>0, <1>h, <2>1, <2>4
  <1>2. CASE ReadFails(t)
    BY <1>2 DEF ReadFails
  <1>r. ASSUME sync[t].pc \in {"open", "write", "rename"}
        PROVE  /\ sync[t].text.theirs = edits + 1 /\ Rewriting = {t}
               /\ \A u \in Thread : u # t =>
                    sync[u].pc \notin {"open", "write", "rename"} /\ sync[u].fd = "none"
    BY <1>h, <1>r DEF RewriteOK, Rewriting
  <1>o. ASSUME sync[t].pc \in {"open", "write", "rename"},
               \A u \in Thread : u # t =>
                 /\ sync'[u].pc = sync[u].pc /\ (sync[u].fd = "none" => sync'[u].fd = "none")
        PROVE  /\ \A u \in Thread : u # t => RewriteOK(u)'
               /\ Rewriting' \subseteq {t}
    BY <1>r, <1>o DEF RewriteOK, Rewriting
  <1>3. CASE Open(t)
    <2>1. /\ sync'[t].pc = "write" /\ sync'[t].fd = "tmp" /\ sync'[t].text = sync[t].text
          /\ \A u \in Thread : u # t => sync'[u] = sync[u]
          /\ tmp' = Torn /\ hosts' = hosts /\ sync[t].pc = "open"
      BY <1>3, <1>t DEF Open, Sync
    <2>2. (\A u \in Thread : u # t => RewriteOK(u)') /\ Rewriting' \subseteq {t}
      BY <1>o, <2>1
    <2>3. RewriteOK(t)'
      BY <1>0, <1>r, <2>1, <2>2 DEF RewriteOK
    <2> QED
      BY <1>0, <1>h, <2>1, <2>2, <2>3
  <1>4. CASE Write(t)
    <2>1. sync[t].pc = "write" /\ sync[t].fd = "tmp" /\ tmp = Torn
      BY <1>4, <1>h DEF Write, RewriteOK
    <2>2. /\ sync'[t].pc = "rename" /\ sync'[t].fd = "none" /\ sync'[t].text = sync[t].text
          /\ \A u \in Thread : u # t => sync'[u] = sync[u]
          /\ tmp' = sync[t].text /\ hosts' = hosts
      BY <1>4, <1>t, <2>1 DEF Write, Written, Sync
    <2>3. (\A u \in Thread : u # t => RewriteOK(u)') /\ Rewriting' \subseteq {t}
      BY <1>o, <2>1, <2>2
    <2>4. RewriteOK(t)'
      BY <1>0, <1>r, <2>1, <2>2, <2>3 DEF RewriteOK
    <2> QED
      BY <1>0, <1>h, <2>2, <2>3, <2>4
  <1>5. CASE WriteFails(t)
    <2>1. /\ sync'[t] = NoSync /\ \A u \in Thread : u # t => sync'[u] = sync[u]
          /\ hosts' = hosts /\ sync[t].pc \in {"open", "write", "rename"}
      BY <1>5, <1>t DEF WriteFails
    <2>2. \A u \in Thread : u # t => RewriteOK(u)'
      BY <1>o, <2>1
    <2>3. RewriteOK(t)'
      BY <2>1, NoSyncFacts DEF RewriteOK
    <2> QED
      BY <1>0, <1>h, <2>1, <2>2, <2>3
  <1>6. CASE Rename(t)
    <2>1. /\ sync'[t] = NoSync /\ hosts' = tmp /\ sync[t].pc = "rename"
          /\ \A u \in Thread : u # t =>
               /\ sync'[u].pc = sync[u].pc /\ (sync[u].fd = "none" => sync'[u].fd = "none")
      BY <1>6, MovedFacts DEF Rename
    <2>2. hosts'.theirs = edits + 1
      BY <1>h, <1>r, <2>1 DEF RewriteOK
    <2>3. \A u \in Thread : u # t => RewriteOK(u)'
      BY <1>o, <2>1
    <2>4. RewriteOK(t)'
      BY <2>1, NoSyncFacts DEF RewriteOK
    <2> QED
      BY <1>0, <2>2, <2>3, <2>4
  <1>7. CASE RenameFails(t)
    <2>1. /\ sync'[t] = NoSync /\ hosts' = hosts /\ sync[t].pc = "rename"
          /\ \A u \in Thread : u # t =>
               /\ sync'[u].pc = sync[u].pc /\ (sync[u].fd = "none" => sync'[u].fd = "none")
      BY <1>7, MovedFacts DEF RenameFails
    <2>2. \A u \in Thread : u # t => RewriteOK(u)'
      BY <1>o, <2>1
    <2>3. RewriteOK(t)'
      BY <2>1, NoSyncFacts DEF RewriteOK
    <2> QED
      BY <1>0, <1>h, <2>1, <2>2, <2>3
  <1> QED
    BY <1>1, <1>2, <1>3, <1>4, <1>5, <1>6, <1>7 DEF SyncStep

LEMMA EditStep ==
  ASSUME HostsTypeOK, HostsSound, Edit
  PROVE  HostsTypeOK' /\ HostsSound'
  <1>1. edits' \in 0..MaxEdits /\ edits' = edits + 1
    BY HostsAssumption DEF Edit, HostsTypeOK
  <1>2. hosts' \in Text /\ (hosts.theirs # 0 => hosts'.theirs = edits + 2)
    BY <1>1, HostsAssumption DEF Edit, HostsTypeOK, Text, Whole
  <1>3. HostsTypeOK'
    BY <1>1, <1>2 DEF Edit, HostsTypeOK
  <1>4. ASSUME ~raced' PROVE hosts'.theirs = edits' + 1 /\ \A u \in Thread : RewriteOK(u)'
    <2>1. Rewriting = {} /\ ~raced /\ sync' = sync /\ tmp' = tmp
      BY <1>4 DEF Edit
    <2>2. hosts.theirs = edits + 1 /\ \A u \in Thread : RewriteOK(u)
      BY <2>1 DEF HostsSound
    <2>3. hosts'.theirs = edits' + 1
      BY <1>1, <1>2, <2>2, HostsAssumption DEF HostsTypeOK
    <2> QED
      BY <2>1, <2>2, <2>3 DEF RewriteOK, Rewriting
  <1> QED
    BY <1>3, <1>4 DEF HostsSound

LEMMA AbandonStep ==
  ASSUME HostsTypeOK, HostsSound, Abandon, UNCHANGED <<hosts, edits, raced>>
  PROVE  HostsTypeOK' /\ HostsSound'
  <1>1. HostsTypeOK'
    BY NoSyncFacts DEF Abandon, HostsTypeOK, Sync
  <1>2. \A t \in Thread : sync'[t] = NoSync
    BY DEF Abandon
  <1>3. \A t \in Thread : RewriteOK(t)'
    BY <1>2, NoSyncFacts DEF RewriteOK
  <1> QED
    BY <1>1, <1>3 DEF HostsSound

LEMMA HostsStays ==
  ASSUME HostsTypeOK, HostsSound, UNCHANGED hostsVars
  PROVE  HostsTypeOK' /\ HostsSound'
  BY DEF HostsTypeOK, HostsSound, RewriteOK, Rewriting, hostsVars

-----------------------------------------------------------------------------
(* The hosts file among the steps of the machine.                           *)

LEMMA UiIsThread == Ui \in Thread /\ Mesh \subseteq Thread /\ Peer \subseteq Name /\ MyName \in Name
  BY LifecycleAssumption

LEMMA ToRefreshFacts ==
  ASSUME IInv, cur \in Mesh, ToRefresh, UNCHANGED hostsRest
  PROVE  HostsTypeOK' /\ HostsSound'
  <1>1. {MyName} \cup known[cur] \in SUBSET Name
    BY UiIsThread DEF IInv, TypeOK
  <1> QED
    BY <1>1, UiIsThread, BegunFacts DEF ToRefresh, Refreshed, IInv, TypeOK

LEMMA ToClearFacts ==
  ASSUME IInv, ToClear, UNCHANGED hostsRest
  PROVE  HostsTypeOK' /\ HostsSound'
  <1>1. {} \in SUBSET Name
    OBVIOUS
  <1> QED
    BY <1>1, UiIsThread, BegunFacts DEF ToClear, IInv, TypeOK

LEMMA LearnFacts ==
  ASSUME IInv, NEW g \in Mesh, Learn(g)
  PROVE  HostsTypeOK' /\ HostsSound'
  <1>1. PICK p \in Peer \ known[g] : sync' = Begun(g, {MyName} \cup known[g] \cup {p})
    BY DEF Learn
  <1>2. {MyName} \cup known[g] \cup {p} \in SUBSET Name
    BY UiIsThread DEF IInv, TypeOK
  <1> QED
    BY <1>1, <1>2, UiIsThread, BegunFacts DEF Learn, IInv, TypeOK

LEMMA HostsStep ==
  ASSUME IInv, [Next]_vars
  PROVE  HostsTypeOK' /\ HostsSound'
  <1>0. HostsTypeOK /\ HostsSound
    BY DEF IInv, TypeOK
  <1>c. ui \in {"bind", "look", "backup", "point"} => cur \in Mesh
    BY DEF IInv, Pointed
  <1>1. CASE Start \/ Bind \/ Refresh \/ Device \/ DeviceFails \/ BackUp \/ LookFails
    BY <1>0, <1>1, HostsStays
    DEF Start, Bind, Refresh, Device, DeviceFails, BackUp, LookFails, hostsVars
  <1>2. CASE BindFails \/ BackUpFails \/ Point \/ PointFails
    BY <1>c, <1>2, ToRefreshFacts DEF BindFails, BackUpFails, Point, PointFails
  <1>3. CASE Look
    <2>1. CASE conf.ours
      BY <1>c, <1>3, <2>1, ToRefreshFacts DEF Look
    <2>2. CASE ~conf.ours
      BY <1>0, <1>3, <2>2, HostsStays DEF Look, hostsVars, hostsRest
    <2> QED
      BY <2>1, <2>2
  <1>4. CASE Stop \/ Clear
    BY <1>0, <1>4, HostsStays DEF Stop, Clear
  <1>5. CASE Undo
    <2>1. CASE backup = Absent
      BY <1>5, <2>1, ToClearFacts DEF Undo
    <2>2. CASE backup # Absent
      BY <1>0, <1>5, <2>2, HostsStays DEF Undo, hostsVars, hostsRest
    <2> QED
      BY <2>1, <2>2
  <1>6. CASE UndoFails \/ UnBack
    BY <1>6, ToClearFacts DEF UndoFails, UnBack
  <1>7. CASE SyncAny
    BY <1>0, <1>7, HostsTypeStep, HostsSoundStep DEF SyncAny
  <1>8. CASE Quit
    BY <1>0, <1>8, AbandonStep DEF Quit
  <1>9. CASE Launch \/ SystemWrites
    BY <1>0, <1>9, HostsStays DEF Launch, SystemWrites
  <1>10. CASE Others
    BY <1>0, <1>10, EditStep DEF Others
  <1>11. ASSUME NEW g \in Mesh, Threads(g)
         PROVE  HostsTypeOK' /\ HostsSound'
    <2>1. CASE Learn(g)
      BY <2>1, LearnFacts
    <2>2. CASE ResolverEnds(g) \/ Check(g) \/ Pass(g) \/ Learned(g)
      BY <1>0, <2>2, HostsStays DEF ResolverEnds, Check, Pass, Learned
    <2> QED
      BY <1>11, <2>1, <2>2 DEF Threads
  <1>12. CASE UNCHANGED vars
    BY <1>0, <1>12, HostsStays DEF vars
  <1> QED
    BY <1>1, <1>2, <1>3, <1>4, <1>5, <1>6, <1>7, <1>8, <1>9, <1>10, <1>11, <1>12
    DEF Next, Starting, Stopping

-----------------------------------------------------------------------------
(* The process and resolv.conf.                                             *)

\* The types of what Lifecycle adds to HostsFile.
MachineTypeOK ==
  /\ up \in BOOLEAN /\ mode \in {"stopped", "running"} /\ ui \in UiPc
  /\ seen \in Text2 /\ cur \in Mesh \cup {0} /\ quits \in 0..MaxQuits
  /\ flag \in [Mesh -> BOOLEAN]
  /\ recv \in [Mesh -> {"none", "check", "wait", "refresh"}]
  /\ known \in [Mesh -> SUBSET Peer]
  /\ resolver \in [Mesh -> {"none", "on", "off"}]
  /\ handle \in [Mesh -> BOOLEAN]
  /\ conf \in Conf /\ backup \in Text2 \cup {Absent} /\ sysver \in 1..MaxSys
  /\ left \in BOOLEAN /\ spoilt \in BOOLEAN

LEMMA ConfFacts ==
  /\ \A c \in Conf : c.ours \in BOOLEAN /\ c.base \in Text2
  /\ \A b \in BOOLEAN, x \in Text2 :
       /\ [ours |-> b, base |-> x] \in Conf
       /\ [ours |-> b, base |-> x].ours = b /\ [ours |-> b, base |-> x].base = x
  /\ Cut \in Text2 /\ Absent \notin Text2 /\ 1..MaxSys \subseteq Text2
  BY LifecycleAssumption DEF Conf, Text2, Cut, Absent

LEMMA MachineTypeStep ==
  ASSUME IInv, [Next]_vars
  PROVE  MachineTypeOK'
  <1>0. MachineTypeOK
    BY DEF IInv, TypeOK, MachineTypeOK
  <1> USE <1>0 DEF MachineTypeOK
  <1>1. CASE Start \/ Launch
    BY <1>1 DEF Start, Launch, UiPc, meshVars, confVars, history
  <1>2. CASE Bind \/ BindFails \/ Refresh \/ DeviceFails \/ Clear
    BY <1>2 DEF Bind, BindFails, Refresh, DeviceFails, Clear, ToRefresh, UiPc, meshVars, confVars, history
  <1>3. CASE Look \/ LookFails
    <2>1. ui' \in UiPc /\ seen' \in Text2 /\ spoilt' \in BOOLEAN
      BY <1>3, ConfFacts DEF Look, LookFails, ToRefresh, UiPc, history
    <2>2. UNCHANGED <<up, mode, cur, quits, meshVars, confVars, left>>
      BY <1>3 DEF Look, LookFails, history
    <2> QED
      BY <2>1, <2>2 DEF meshVars, confVars
  <1>4. CASE BackUp \/ BackUpFails
    <2>1. ui' \in UiPc /\ seen' \in Text2 /\ spoilt' \in BOOLEAN /\ backup' \in Text2 \cup {Absent}
      BY <1>4, ConfFacts DEF BackUp, BackUpFails, ToRefresh, UiPc, history
    <2>2. UNCHANGED <<up, mode, cur, quits, meshVars, conf, sysver, left>>
      BY <1>4 DEF BackUp, BackUpFails, history
    <2> QED
      BY <2>1, <2>2 DEF meshVars
  <1>5. CASE Point \/ PointFails
    <2>1. ui' \in UiPc /\ seen' \in Text2 /\ conf' \in Conf
      <3>1. seen' = Cut /\ ui' = "refresh"
        BY <1>5 DEF Point, PointFails, ToRefresh
      <3>2. \/ conf' = conf
            \/ \E b \in BOOLEAN, x \in Text2 : conf' = [ours |-> b, base |-> x]
        BY <1>5, ConfFacts DEF Point, PointFails
      <3> QED
        BY <3>1, <3>2, ConfFacts DEF UiPc
    <2>2. UNCHANGED <<up, mode, cur, quits, meshVars, backup, sysver, history>>
      BY <1>5 DEF Point, PointFails
    <2> QED
      BY <2>1, <2>2 DEF meshVars, history
  <1>6. CASE Device \/ Stop
    BY <1>6 DEF Device, Stop, UiPc, meshVars, confVars, history
  <1>7. CASE Undo \/ UndoFails \/ UnBack
    <2>1. CASE Undo
      <3>1. conf' \in Conf /\ left' \in BOOLEAN /\ spoilt' \in BOOLEAN
        BY <2>1, ConfFacts DEF Undo
      <3> QED
        BY <2>1, <3>1 DEF Undo, ToClear, UiPc, meshVars, confVars, history
    <2>2. CASE UndoFails \/ UnBack
      BY <2>2, ConfFacts DEF UndoFails, UnBack, ToClear, UiPc, meshVars, confVars, history
    <2> QED
      BY <1>7, <2>1, <2>2
  <1>8. CASE SyncAny \/ Others
    BY <1>8 DEF SyncAny, Others, uiVars, meshVars, confVars, history
  <1>9. CASE Quit
    <2>1. conf' \in Conf /\ left' \in BOOLEAN /\ spoilt' \in BOOLEAN /\ backup' \in Text2 \cup {Absent}
      BY <1>9, ConfFacts DEF Quit
    <2>2. quits' \in 0..MaxQuits
      BY <1>9, LifecycleAssumption DEF Quit
    <2> QED
      BY <1>9, <2>1, <2>2, ConfFacts DEF Quit, UiPc
  <1>10. CASE SystemWrites
    <2>1. sysver' \in 1..MaxSys /\ sysver' = sysver + 1
      BY <1>10, LifecycleAssumption DEF SystemWrites
    <2>2. conf' \in Conf
      BY <1>10, <2>1, ConfFacts DEF SystemWrites
    <2> QED
      BY <1>10, <2>1, <2>2 DEF SystemWrites, uiVars, meshVars
  <1>11. ASSUME NEW g \in Mesh, Threads(g)
         PROVE  MachineTypeOK'
    <2>1. CASE Learn(g)
      BY <2>1 DEF Learn, uiVars, confVars, history
    <2>2. CASE ResolverEnds(g) \/ Check(g) \/ Pass(g) \/ Learned(g)
      BY <2>2 DEF ResolverEnds, Check, Pass, Learned, uiVars, confVars, history
    <2> QED
      BY <1>11, <2>1, <2>2 DEF Threads
  <1>12. CASE UNCHANGED vars
    BY <1>12 DEF vars, uiVars, meshVars, confVars, history
  <1> QED
    BY <1>1, <1>2, <1>3, <1>4, <1>5, <1>6, <1>7, <1>8, <1>9, <1>10, <1>11, <1>12
    DEF Next, Starting, Stopping

\* A resolver is on whenever resolv.conf names it.
LEMMA PointedStep ==
  ASSUME IInv, [Next]_vars
  PROVE  Pointed'
  <1>0. Pointed /\ MachineTypeOK
    BY DEF IInv, TypeOK, MachineTypeOK
  <1>r. resolver \in [Mesh -> {"none", "on", "off"}] /\ conf \in Conf /\ left \in BOOLEAN
    BY <1>0 DEF MachineTypeOK
  <1>p. Pointed
    BY <1>0
  <1> HIDE <1>0
  <1> USE <1>p DEF Pointed
  <1>1. CASE Start \/ Launch
    BY <1>1 DEF Start, Launch, meshVars, confVars, history
  <1>2. CASE Bind
    <2>1. /\ cur \in Mesh /\ resolver' = [resolver EXCEPT ![cur] = "on"]
          /\ ui = "bind" /\ ui' = "look" /\ UNCHANGED <<cur, up>>
      BY <1>2 DEF Bind
    <2>2. resolver'[cur] = "on"
      BY <1>r, <2>1
    <2> QED
      BY <2>1, <2>2
  <1>3. CASE BindFails \/ Refresh \/ DeviceFails \/ Device \/ Clear
    BY <1>3 DEF BindFails, Refresh, DeviceFails, Device, Clear, ToRefresh, meshVars, confVars, history
  <1>4. CASE Look \/ LookFails \/ BackUp \/ BackUpFails
    BY <1>4 DEF Look, LookFails, BackUp, BackUpFails, ToRefresh, meshVars, confVars, history
  <1>5. CASE Point \/ PointFails
    BY <1>5 DEF Point, PointFails, ToRefresh, meshVars, history
  <1>6. CASE Stop
    BY <1>6 DEF Stop, confVars, history
  <1>7. CASE Undo \/ UndoFails \/ UnBack
    <2>1. CASE Undo
      <3>1. ui' \in {"clear", "unback"} /\ UNCHANGED up /\ ui # "idle"
        BY <2>1 DEF Undo, ToClear
      <3>2. CASE backup = Absent
        BY <2>1, <3>1, <3>2 DEF Undo
      <3>3. CASE backup # Absent
        BY <2>1, <3>1, <3>3 DEF Undo
      <3> QED
        BY <3>2, <3>3
    <2>2. CASE UndoFails
      BY <2>2 DEF UndoFails, ToClear, confVars
    <2>3. CASE UnBack
      BY <2>3 DEF UnBack, ToClear, meshVars, history
    <2> QED
      BY <1>7, <2>1, <2>2, <2>3
  <1>8. CASE SyncAny \/ Others
    BY <1>8 DEF SyncAny, Others, uiVars, meshVars, confVars, history
  <1>9. CASE Quit
    <2>1. ~(conf'.ours /\ ~left') /\ ui' = "idle"
      BY <1>9 DEF Quit
    <2> QED
      BY <2>1
  <1>10. CASE SystemWrites
    <2>1. ~conf'.ours /\ UNCHANGED <<uiVars, meshVars>>
      BY <1>10 DEF SystemWrites
    <2> QED
      BY <2>1 DEF uiVars, meshVars
  <1>11. ASSUME NEW g \in Mesh, Threads(g)
         PROVE  Pointed'
    <2>1. CASE ResolverEnds(g)
      <3>1. \A h \in Mesh : resolver[h] = "on" => resolver'[h] = "on"
        BY <1>r, <2>1 DEF ResolverEnds
      <3> QED
        BY <2>1, <3>1 DEF ResolverEnds, uiVars, confVars, history
    <2>2. CASE Check(g) \/ Pass(g) \/ Learn(g) \/ Learned(g)
      BY <2>2 DEF Check, Pass, Learn, Learned, uiVars, confVars, history
    <2> QED
      BY <1>11, <2>1, <2>2 DEF Threads
  <1>12. CASE UNCHANGED vars
    BY <1>12 DEF vars, uiVars, meshVars, confVars, history
  <1> QED
    BY <1>1, <1>2, <1>3, <1>4, <1>5, <1>6, <1>7, <1>8, <1>9, <1>10, <1>11, <1>12
    DEF Next, Starting, Stopping

\* The system's resolv.conf is in place, or in the backup.
LEMMA BackedUpStep ==
  ASSUME IInv, [Next]_vars
  PROVE  BackedUp'
  <1>0. BackedUp /\ MachineTypeOK
    BY DEF IInv, TypeOK, MachineTypeOK
  <1>a. Cut \in Text2 /\ seen # Absent /\ sysver # Absent /\ Cut # Absent
    BY <1>0, ConfFacts DEF MachineTypeOK
  <1> USE <1>0 DEF BackedUp, OriginalKept
  <1>1. CASE Start \/ Launch \/ Bind \/ BindFails \/ Refresh
    BY <1>1 DEF Start, Launch, Bind, BindFails, Refresh, ToRefresh, confVars, history
  <1>2. CASE DeviceFails \/ Device \/ Clear \/ Stop
    BY <1>2 DEF DeviceFails, Device, Clear, Stop, confVars, history
  <1>3. CASE Look
    BY <1>3 DEF Look, ToRefresh, confVars, history
  <1>4. CASE LookFails
    BY <1>4 DEF LookFails, confVars
  <1>5. CASE BackUp \/ BackUpFails
    BY <1>5, <1>a DEF BackUp, BackUpFails, ToRefresh, history
  <1>6. CASE Point \/ PointFails
    BY <1>6 DEF Point, PointFails, ToRefresh, history
  <1>7. CASE Undo
    <2>1. UNCHANGED <<backup, sysver>> /\ ui = "undo"
      BY <1>7 DEF Undo
    <2>2. CASE backup = Absent
      BY <1>7, <2>1, <2>2 DEF Undo, ToClear
    <2>3. CASE backup # Absent
      <3>1. ui' = "unback" /\ (~spoilt' => ~spoilt /\ conf' = [ours |-> FALSE, base |-> backup])
        BY <1>7, <2>3 DEF Undo
      <3> QED
        BY <2>1, <2>3, <3>1
    <2> QED
      BY <2>2, <2>3
  <1>8. CASE UndoFails \/ UnBack
    BY <1>8 DEF UndoFails, UnBack, ToClear, confVars, history
  <1>9. CASE SyncAny \/ Others
    BY <1>9 DEF SyncAny, Others, uiVars, confVars, history
  <1>10. CASE Quit
    <2>1. ui' = "idle" /\ sysver' = sysver
      BY <1>10 DEF Quit
    <2>2. ~spoilt' => /\ ~spoilt /\ backup' = backup
                      /\ conf' = conf \/ backup # Absent
      BY <1>10 DEF Quit
    <2> QED
      BY <2>1, <2>2
  <1>11. CASE SystemWrites
    <2>1. /\ conf' = [ours |-> FALSE, base |-> sysver'] /\ UNCHANGED <<ui, backup, seen>>
          /\ spoilt' = (spoilt \/ backup # Absent \/ ui \in {"backup", "point"})
      BY <1>11 DEF SystemWrites, uiVars
    <2> QED
      BY <2>1
  <1>12. ASSUME NEW g \in Mesh, Threads(g)
         PROVE  BackedUp'
    BY <1>12
    DEF Threads, ResolverEnds, Check, Pass, Learn, Learned, uiVars, confVars, history
  <1>13. CASE UNCHANGED vars
    BY <1>13 DEF vars, uiVars, confVars, history
  <1> QED
    BY <1>1, <1>2, <1>3, <1>4, <1>5, <1>6, <1>7, <1>8, <1>9, <1>10, <1>11, <1>12, <1>13
    DEF Next, Starting, Stopping

-----------------------------------------------------------------------------
(* The invariant, and what follows.                                         *)

LEMMA InitInv == Init => IInv
  <1> SUFFICES ASSUME Init PROVE IInv
    OBVIOUS
  <1>1. HostsTypeOK
    <2>1. [theirs |-> 1, block |-> {}] \in Text
      <3>1. 1 \in 0..(MaxEdits + 1)
        BY HostsAssumption
      <3>2. {} \in SUBSET Name
        OBVIOUS
      <3> QED
        BY <3>1, <3>2, TextFacts
    <2>2. sync \in [Thread -> Sync]
      BY NoSyncFacts DEF Init, HostsInit
    <2>3. edits \in 0..MaxEdits
      BY HostsAssumption DEF Init, HostsInit
    <2> QED
      BY <2>1, <2>2, <2>3 DEF Init, HostsInit, HostsTypeOK, Sync
  <1>2. TypeOK
    <2>1. 1 \in Text2 /\ 1 \in 1..MaxSys /\ Cut \in Text2
      BY LifecycleAssumption DEF Text2, Cut
    <2>2. conf \in Conf
      <3>1. conf = [ours |-> FALSE, base |-> 1]
        BY DEF Init
      <3> QED
        BY <2>1, <3>1 DEF Conf
    <2>3. quits \in 0..MaxQuits
      BY LifecycleAssumption DEF Init
    <2>4. known \in [Mesh -> SUBSET Peer]
      BY DEF Init
    <2> QED
      BY <1>1, <2>1, <2>2, <2>3, <2>4 DEF Init, TypeOK, UiPc
  <1>3. HostsSound
    BY NoSyncFacts DEF Init, HostsInit, HostsSound, RewriteOK
  <1>4. Pointed /\ BackedUp
    BY DEF Init, Pointed, BackedUp, OriginalKept
  <1> QED
    BY <1>2, <1>3, <1>4 DEF IInv

LEMMA AlwaysIInv == Spec => []IInv
  <1>1. IInv /\ [Next]_vars => IInv'
    <2> SUFFICES ASSUME IInv, [Next]_vars PROVE IInv'
      OBVIOUS
    <2>1. TypeOK'
      BY HostsStep, MachineTypeStep DEF TypeOK, MachineTypeOK
    <2> QED
      BY <2>1, HostsStep, PointedStep, BackedUpStep DEF IInv
  <1> QED
    BY <1>1, InitInv, PTL DEF Spec

\* Every variable is of its type.
THEOREM TypeCorrect == Spec => []TypeOK
  BY AlwaysIInv, PTL DEF IInv

\* A machine that asks 127.0.0.1 gets an answer, whatever failed in start()
\* (dns.rs start, stop, try_auto_configure_system).
THEOREM ResolvableHolds == Spec => []Resolvable
  <1>1. IInv => Resolvable
    BY DEF IInv, Pointed, Resolvable
  <1> QED
    BY <1>1, AlwaysIInv, PTL

\* The system's resolv.conf can be had back (dns.rs try_undo_auto_configure).
THEOREM OriginalKeptHolds == Spec => []OriginalKept
  <1>1. IInv => OriginalKept
    BY DEF IInv, BackedUp
  <1> QED
    BY <1>1, AlwaysIInv, PTL

\* Without two rewrites at once, nothing that others put in the hosts file is
\* lost, whichever step fails (hosts.rs sync).
THEOREM ForeignKeptHolds == Spec => []ForeignKept
  <1>1. IInv => ForeignKept
    BY DEF IInv, HostsSound, ForeignKept
  <1> QED
    BY <1>1, AlwaysIInv, PTL

-----------------------------------------------------------------------------
(* Names.                                                                   *)

\* A snapshot, whatever the order of the others.
LEMMA SnapshotsFit ==
  ASSUME NamesFit, NEW ps, NEW infos \in Snapshots(ps),
         \A i \in Known(ps) \cup {Me} : ps[i].name \in Label
  PROVE  WellFormed(infos)
  <1> DEFINE others == Known(ps) \ {Me}
             n == Cardinality(others)
  <1>1. IsFiniteSet(Ip) /\ Cardinality(Ip) \in Nat
    BY FS_CardinalityType DEF NamesFit
  <1>2. others \subseteq Ip
    BY DEF Known
  <1>3. IsFiniteSet(others) /\ n <= Cardinality(Ip)
    BY <1>1, <1>2, FS_Subset
  <1>4. n \in Nat
    BY <1>3, FS_CardinalityType
  <1>5. PICK s \in [1..n -> others] :
          /\ \A j, k \in 1..n : s[j] = s[k] => j = k
          /\ infos = [k \in 1..(n + 1) |->
                        LET i == IF k = 1 THEN Me ELSE s[k - 1] IN
                        [ip |-> i, name |-> ps[i].name, services |-> ps[i].services]]
    BY DEF Snapshots
  <1> HIDE DEF n, others
  <1>6. \A k \in 1..(n + 1) :
          /\ k = 1 => infos[k].ip = Me /\ infos[k].name = ps[Me].name
          /\ k # 1 => infos[k].ip = s[k - 1] /\ infos[k].name = ps[s[k - 1]].name
    BY <1>4, <1>5
  <1>7. \A k \in 1..(n + 1) : k # 1 => k - 1 \in 1..n /\ s[k - 1] \in others
    BY <1>4, <1>5
  <1>8. DOMAIN infos = 1..(n + 1) /\ 1 \in 1..(n + 1)
    BY <1>4, <1>5
  <1>9. \A k \in 1..(n + 1) : infos[k].ip \in Ip /\ infos[k].name \in Label
    BY <1>2, <1>6, <1>7 DEF NamesFit, others
  <1>10. \A j, k \in 1..(n + 1) : infos[j].ip = infos[k].ip => j = k
    <2> TAKE j, k \in 1..(n + 1)
    <2> HAVE infos[j].ip = infos[k].ip
    <2>1. CASE j = 1 \/ k = 1
      BY <1>6, <1>7, <2>1 DEF others
    <2>2. CASE j # 1 /\ k # 1
      <3>1. s[j - 1] = s[k - 1] /\ j - 1 \in 1..n /\ k - 1 \in 1..n
        BY <1>6, <1>7, <2>2
      <3>2. j - 1 = k - 1
        BY <1>5, <3>1
      <3> QED
        BY <1>4, <3>2
    <2> QED
      BY <2>1, <2>2
  <1> QED
    BY <1>1, <1>3, <1>4, <1>6, <1>8, <1>9, <1>10 DEF WellFormed

LEMMA NamesInitInv ==
  ASSUME NamesFit, NamesInit
  PROVE  NamesIInv
  <1>1. PICK label \in Label :
          peers = [i \in Ip |-> IF i = Me THEN [Unknown EXCEPT !.name = label] ELSE Unknown]
    BY DEF NamesInit
  <1>2. /\ DOMAIN peers = Ip
        /\ \A i \in Ip : peers[i] = [name |-> peers[i].name, services |-> peers[i].services]
        /\ \A i \in Ip : i # Me => peers[i] = Unknown
        /\ peers[Me].name = label
    BY <1>1 DEF NamesFit, Unknown
  <1>3. \A i \in Known(peers) \cup {Me} : peers[i].name \in Label
    BY <1>2 DEF Known
  <1>4. \A t \in Refresher : th[t] = Idle
    BY DEF NamesInit
  <1>5. DOMAIN th = Refresher
    BY DEF NamesInit
  <1>6. PICK s \in Snapshots(peers) : dns = [infos |-> s, at |-> 0]
    BY DEF NamesInit
  <1>7. WellFormed(dns.infos)
    BY <1>3, <1>6, SnapshotsFit
  <1> QED
    BY <1>2, <1>3, <1>4, <1>5, <1>7 DEF NamesIInv, Idle

LEMMA ChangeInv ==
  ASSUME NamesFit, NamesIInv, NEW t \in Refresher, NEW i \in Ip, NEW label \in Label,
         NEW services, Change(t, i, [name |-> label, services |-> services])
  PROVE  NamesIInv'
  <1>1. /\ peers' = [peers EXCEPT ![i] = [name |-> label, services |-> services]]
        /\ th' = [th EXCEPT ![t].pc = "changed"] /\ dns' = dns
    BY DEF Change
  <1>2. DOMAIN peers' = Ip /\ DOMAIN th' = Refresher
    BY <1>1 DEF NamesIInv
  <1>3. \A j \in Ip : peers'[j] = IF j = i THEN [name |-> label, services |-> services]
                                 ELSE peers[j]
    BY <1>1 DEF NamesIInv
  <1>4. \A j \in Known(peers') \cup {Me} : peers'[j].name \in Label
    BY <1>3 DEF NamesIInv, NamesFit, Known
  <1>5. \A j \in Ip : peers'[j] = [name |-> peers'[j].name, services |-> peers'[j].services]
    BY <1>3 DEF NamesIInv
  <1>6. \A u \in Refresher :
          /\ th'[u] = [pc |-> th'[u].pc, infos |-> th'[u].infos, at |-> th'[u].at]
          /\ th'[u].pc = "sync" => th'[u] = th[u]
    BY <1>1 DEF NamesIInv
  <1>7. \A u \in Refresher : th'[u].pc = "sync" => WellFormed(th'[u].infos)
    BY <1>6 DEF NamesIInv
  <1>8. WellFormed(dns.infos)'
    BY <1>1 DEF NamesIInv, WellFormed
  <1> QED
    BY <1>2, <1>4, <1>5, <1>6, <1>7, <1>8 DEF NamesIInv, Known, WellFormed

\* A rename, or a service offered: the record that is put in has the two fields.
LEMMA HearNameInv ==
  ASSUME NamesFit, NamesIInv, NEW t \in Refresher, NEW i \in Ip, NEW label \in Label,
         HearName(t, i, label)
  PROVE  NamesIInv'
  <1>1. [peers[i] EXCEPT !.name = label] = [name |-> label, services |-> peers[i].services]
    BY DEF NamesIInv
  <1> QED
    BY <1>1, ChangeInv DEF HearName

LEMMA HearServiceInv ==
  ASSUME NamesFit, NamesIInv, NEW i \in Ip, NEW label \in Label, NEW s,
         HearService(i, label, s)
  PROVE  NamesIInv'
  <1>1. Receiver \in Refresher
    BY DEF NamesFit
  <1> QED
    BY <1>1, ChangeInv DEF HearService

LEMMA OwnServicesInv ==
  ASSUME NamesFit, NamesIInv, NEW s, AddService(s) \/ RemoveService(s)
  PROVE  NamesIInv'
  <1>1. Gui \in Refresher /\ Me \in Ip /\ peers[Me].name \in Label
    BY DEF NamesFit, NamesIInv
  <1>2. \A x : [peers[Me] EXCEPT !.services = x] = [name |-> peers[Me].name, services |-> x]
    BY <1>1 DEF NamesIInv
  <1>3. \E x : Change(Gui, Me, [name |-> peers[Me].name, services |-> x])
    <2>1. CASE AddService(s)
      <3>1. Change(Gui, Me, [peers[Me] EXCEPT !.services = With(peers[Me].services, s)])
        BY <2>1 DEF AddService
      <3> QED
        BY <1>2, <3>1
    <2>2. CASE RemoveService(s)
      <3>1. Change(Gui, Me, [peers[Me] EXCEPT !.services = Without(peers[Me].services, s)])
        BY <2>2 DEF RemoveService
      <3> QED
        BY <1>2, <3>1
    <2> QED
      BY <2>1, <2>2
  <1> QED
    BY <1>1, <1>3, ChangeInv

LEMMA RefreshInv ==
  ASSUME NamesFit, NamesIInv, NEW t \in Refresher, Renew(t) \/ Snapshot(t) \/ Update(t)
  PROVE  NamesIInv'
  <1>1. CASE Snapshot(t)
    <2>1. PICK s \in Snapshots(peers) :
            th' = [th EXCEPT ![t] = [pc |-> "sync", infos |-> s, at |-> events]]
      BY <1>1 DEF Snapshot
    <2>2. peers' = peers /\ dns' = dns
      BY <1>1 DEF Snapshot
    <2>3. WellFormed(s)
      BY SnapshotsFit DEF NamesIInv
    <2>4. \A u \in Refresher :
            /\ u = t => th'[u] = [pc |-> "sync", infos |-> s, at |-> events]
            /\ u # t => th'[u] = th[u]
      BY <2>1 DEF NamesIInv
    <2>5. DOMAIN th' = Refresher
      BY <2>1 DEF NamesIInv
    <2>6. \A u \in Refresher :
            /\ th'[u] = [pc |-> th'[u].pc, infos |-> th'[u].infos, at |-> th'[u].at]
            /\ th'[u].pc = "sync" => WellFormed(th'[u].infos)
      BY <2>3, <2>4 DEF NamesIInv
    <2> QED
      BY <2>2, <2>5, <2>6 DEF NamesIInv, Known, WellFormed
  <1>2. CASE Update(t)
    <2>1. /\ th[t].pc = "sync" /\ peers' = peers
          /\ dns' = [infos |-> th[t].infos, at |-> th[t].at]
          /\ th' = [th EXCEPT ![t] = Idle]
      BY <1>2 DEF Update
    <2>2. WellFormed(dns'.infos)
      BY <2>1 DEF NamesIInv
    <2>3. \A u \in Refresher :
            /\ u = t => th'[u] = Idle
            /\ u # t => th'[u] = th[u]
      BY <2>1 DEF NamesIInv
    <2>4. DOMAIN th' = Refresher
      BY <2>1 DEF NamesIInv
    <2>5. \A u \in Refresher :
            /\ th'[u] = [pc |-> th'[u].pc, infos |-> th'[u].infos, at |-> th'[u].at]
            /\ th'[u].pc = "sync" => WellFormed(th'[u].infos)
      BY <2>3 DEF NamesIInv, Idle
    <2> QED
      BY <2>1, <2>2, <2>4, <2>5 DEF NamesIInv, Known, WellFormed
  <1>3. CASE Renew(t)
    <2>1. peers' = peers /\ dns' = dns /\ th' = [th EXCEPT ![t].pc = "changed"]
      BY <1>3 DEF Renew
    <2>2. DOMAIN th' = Refresher
      BY <2>1 DEF NamesIInv
    <2>3. \A u \in Refresher :
            /\ th'[u] = [pc |-> th'[u].pc, infos |-> th'[u].infos, at |-> th'[u].at]
            /\ th'[u].pc = "sync" => th'[u] = th[u]
      BY <2>1 DEF NamesIInv
    <2>4. \A u \in Refresher : th'[u].pc = "sync" => WellFormed(th'[u].infos)
      BY <2>3 DEF NamesIInv
    <2>5. WellFormed(dns.infos)'
      <3>1. WellFormed(dns.infos)
        BY DEF NamesIInv
      <3> QED
        BY <2>1, <3>1 DEF WellFormed
    <2> QED
      BY <2>1, <2>2, <2>3, <2>4, <2>5 DEF NamesIInv, Known
  <1> QED
    BY <1>1, <1>2, <1>3

LEMMA AlwaysNamesIInv ==
  ASSUME NamesFit
  PROVE  NamesSpec => []NamesIInv
  <1>1. NamesIInv /\ [NamesNext]_namesVars => NamesIInv'
    <2> SUFFICES ASSUME NamesIInv, [NamesNext]_namesVars PROVE NamesIInv'
      OBVIOUS
    <2>1. CASE UNCHANGED namesVars
      <3>1. peers' = peers /\ dns' = dns /\ th' = th
        BY <2>1 DEF namesVars
      <3>2. Known(peers)' = Known(peers) /\ WellFormed(dns.infos)'
        <4>1. WellFormed(dns.infos)
          BY DEF NamesIInv
        <4>2. Known(peers)' = Known(peers)
          BY <3>1 DEF Known
        <4>3. WellFormed(dns.infos)'
          BY <3>1, <4>1 DEF WellFormed
        <4> QED
          BY <4>2, <4>3
      <3>3. \A t \in Refresher :
              /\ th'[t] = [pc |-> th'[t].pc, infos |-> th'[t].infos, at |-> th'[t].at]
              /\ th'[t].pc = "sync" => WellFormed(th'[t].infos)
        BY <3>1 DEF NamesIInv
      <3> QED
        BY <3>1, <3>2, <3>3 DEF NamesIInv, Known, WellFormed
    <2> QED
      BY <2>1, HearNameInv, HearServiceInv, OwnServicesInv, RefreshInv DEF NamesNext
  <1> QED
    BY <1>1, NamesInitInv, PTL DEF NamesSpec

\* The first of some entries.
LEMMA FirstFacts ==
  ASSUME NEW infos, WellFormed(infos), NEW S \in SUBSET DOMAIN infos, S # {}
  PROVE  /\ \E k \in S : First(infos, S) = infos[k].ip
         /\ 1 \in S => First(infos, S) = infos[1].ip
  <1> DEFINE R == OpToRel(<, Nat)
             least == CHOOSE i \in S : \A j \in S : i <= j
  <1>1. S \subseteq Nat /\ \A j \in S : 1 <= j
    BY DEF WellFormed
  <1>2. \A i, j \in Nat : <<i, j>> \in R <=> i < j
    BY DEF OpToRel
  <1>3. IsWellFoundedOn(R, Nat)
    BY NatLessThanWellFounded
  <1> HIDE DEF R
  <1>4. \E i \in S : \A j \in S : ~(<<j, i>> \in R)
    <2>1. ASSUME NEW Q, NEW U, IsWellFoundedOn(Q, U), NEW V, V \subseteq U, V # {}
          PROVE  \E x \in V : \A y \in V : ~(<<y, x>> \in Q)
      BY <2>1, WFMin
    <2> QED
      BY <1>1, <1>3, <2>1
  <1>5. PICK i \in S : \A j \in S : ~(<<j, i>> \in R)
    BY <1>4
  <1>6. \A j \in S : i <= j
    <2> TAKE j \in S
    <2>1. i \in Nat /\ j \in Nat
      BY <1>1
    <2>2. ~(j < i)
      BY <1>2, <1>5, <2>1, Zenon
    <2> QED
      BY <2>1, <2>2
  <1>7. least \in S /\ \A j \in S : least <= j
    BY <1>6
  <1>8. First(infos, S) = infos[least].ip
    BY DEF First
  <1> HIDE DEF least
  <1>9. 1 \in S => least = 1
    BY <1>1, <1>7
  <1> QED
    BY <1>7, <1>8, <1>9

LEMMA HostsOfEnds ==
  ASSUME NEW infos, NEW i, NEW q \in HostsOf(infos, i)
  PROVE  /\ Len(q) \in {1, 2} /\ q[Len(q)] = Root(infos, i)
         /\ Len(q) = 1 => q = <<Root(infos, i)>>
  BY DEF HostsOf

\* What a resolver answers.
LEMMA ResolveFacts ==
  ASSUME NamesFit, NEW infos, WellFormed(infos), NEW q
  PROVE  /\ \A i \in DOMAIN infos : q \in HostsOf(infos, i) =>
              \E k \in DOMAIN infos : q \in HostsOf(infos, k) /\ Resolve(infos, q) = infos[k].ip
         /\ q \in HostsOf(infos, 1) => Resolve(infos, q) = Me
         /\ Resolve(infos, q) # NotOurs =>
              \E k \in DOMAIN infos :
                Resolve(infos, q) = infos[k].ip /\ q[Len(q)] = Root(infos, k)
  <1> DEFINE exact == {i \in DOMAIN infos : q \in HostsOf(infos, i)}
             below == {i \in DOMAIN infos : Len(q) > 1 /\ q[Len(q)] = Root(infos, i)}
  <1>1. Resolve(infos, q) = IF exact # {} THEN First(infos, exact)
                            ELSE IF below # {} THEN First(infos, below) ELSE NotOurs
    BY DEF Resolve
  <1>2. 1 \in DOMAIN infos /\ infos[1].ip = Me
    BY DEF WellFormed
  <1>3. ASSUME exact # {}
        PROVE  /\ \E k \in exact : First(infos, exact) = infos[k].ip
               /\ 1 \in exact => First(infos, exact) = infos[1].ip
    BY <1>3, FirstFacts
  <1>4. ASSUME below # {}
        PROVE  \E k \in below : First(infos, below) = infos[k].ip
    BY <1>4, FirstFacts
  <1>5. \A k \in exact : q[Len(q)] = Root(infos, k)
    BY HostsOfEnds
  <1> QED
    BY <1>1, <1>2, <1>3, <1>4, <1>5

\* Whatever other members call themselves and in whatever order the threads'
\* refreshes end, the names of this machine and of its services lead to it.
THEOREM OwnNamesAreOursHolds ==
  ASSUME NamesFit
  PROVE  NamesSpec => []OwnNamesAreOurs
  <1>1. NamesIInv => OwnNamesAreOurs
    BY ResolveFacts DEF NamesIInv, OwnNamesAreOurs
  <1> QED
    BY <1>1, AlwaysNamesIInv, PTL

\* Every answer is the address of a member whose name is asked for, or is the
\* end of what is asked for; a name that is some member's is never asked upstream.
THEOREM AnswersFitHolds ==
  ASSUME NamesFit
  PROVE  NamesSpec => []AnswersFit
  <1>1. NamesIInv => AnswersFit
    <2> SUFFICES ASSUME NamesIInv, NEW q \in Query
                 PROVE  LET ip == Resolve(dns.infos, q) IN
                        IF ip = NotOurs
                        THEN \A i \in DOMAIN dns.infos : q \notin HostsOf(dns.infos, i)
                        ELSE \E i \in DOMAIN dns.infos :
                               dns.infos[i].ip = ip /\ q[Len(q)] = Root(dns.infos, i)
      BY DEF AnswersFit
    <2>1. WellFormed(dns.infos) /\ \A i \in DOMAIN dns.infos : dns.infos[i].ip # NotOurs
      <3>1. WellFormed(dns.infos)
        BY DEF NamesIInv
      <3>2. \A i \in DOMAIN dns.infos : dns.infos[i].ip \in Ip
        BY <3>1 DEF WellFormed
      <3> QED
        BY <3>1, <3>2 DEF NamesFit
    <2> QED
      BY <2>1, ResolveFacts
  <1> QED
    BY <1>1, AlwaysNamesIInv, PTL

\* Names without numbers at the end stay different when they are told apart.
LEMMA RootsDiffer ==
  ASSUME NamesFit, PlainNames, NEW infos, WellFormed(infos),
         NEW i \in DOMAIN infos, NEW j \in DOMAIN infos,
         Root(infos, i) = Root(infos, j)
  PROVE  i = j
  <1> DEFINE Later(k) == \E l \in 1..(k - 1) : infos[l].name = infos[k].name
  <1>1. PICK n \in Nat : DOMAIN infos = 1..(n + 1)
    BY FS_CardinalityType DEF WellFormed, NamesFit
  <1>2. /\ infos[i].name \in Label /\ infos[j].name \in Label
        /\ infos[i].ip \in Ip /\ infos[j].ip \in Ip
        /\ infos[i].ip = infos[j].ip => i = j
    BY DEF WellFormed
  <1>3. ASSUME NEW label \in Label, NEW b \in Nat
        PROVE  label.nums = <<>> /\ Numbered(label, b).nums # <<>> /\ Numbered(label, b).nums[1] = b
    <2>1. label = [word |-> label.word, nums |-> <<>>]
      BY DEF PlainNames
    <2>2. <<>> \in Seq(Nat) /\ Len(<<>>) = 0
      OBVIOUS
    <2>3. Append(<<>>, b) # <<>> /\ Append(<<>>, b)[1] = b
      BY <2>2, AppendProperties
    <2>4. label.nums = <<>>
      BY <2>1
    <2>5. Numbered(label, b).nums = Append(<<>>, b)
      BY <2>1, <2>4 DEF Numbered
    <2> QED
      BY <2>3, <2>4, <2>5
  <1>4. \A k \in DOMAIN infos :
          /\ Later(k) => Root(infos, k) = Numbered(infos[k].name, Octet[infos[k].ip])
          /\ ~Later(k) => Root(infos, k) = infos[k].name
    BY DEF Root
  <1>5. Octet[infos[i].ip] \in Nat /\ Octet[infos[j].ip] \in Nat
    BY <1>2 DEF PlainNames
  <1>6. CASE ~Later(i) /\ ~Later(j)
    <2>1. infos[i].name = infos[j].name
      BY <1>4, <1>6
    <2>2. i \notin 1..(j - 1) /\ j \notin 1..(i - 1)
      BY <1>6, <2>1
    <2> QED
      BY <1>1, <2>2
  <1> HIDE DEF Later
  <1>7. CASE Later(i) /\ Later(j)
    <2>1. Octet[infos[i].ip] = Octet[infos[j].ip]
      BY <1>2, <1>3, <1>4, <1>5, <1>7
    <2> QED
      BY <1>2, <2>1 DEF PlainNames
  <1>8. ~(Later(i) /\ ~Later(j)) /\ ~(~Later(i) /\ Later(j))
    BY <1>2, <1>3, <1>4, <1>5
  <1> QED
    BY <1>6, <1>7, <1>8

\* What hosts.rs promises of names that collide is so in a network of up to 256
\* addresses whose members choose names without numbers at the end: there no
\* two members have one host name, and every host name leads to its member.
THEOREM NobodyDroppedIfPlain ==
  ASSUME NamesFit, PlainNames
  PROVE  NamesSpec => []NobodyDropped
  <1>1. ASSUME NamesIInv PROVE NobodyDropped
    <2> SUFFICES ASSUME NEW i \in DOMAIN dns.infos
                 PROVE  Resolve(dns.infos, <<Root(dns.infos, i)>>) = dns.infos[i].ip
      BY DEF NobodyDropped
    <2> DEFINE q == <<Root(dns.infos, i)>>
    <2>1. WellFormed(dns.infos)
      BY <1>1 DEF NamesIInv
    <2>2. q \in HostsOf(dns.infos, i)
      BY DEF HostsOf
    <2>3. q[Len(q)] = Root(dns.infos, i)
      OBVIOUS
    <2> HIDE DEF q
    <2>4. PICK k \in DOMAIN dns.infos :
            q \in HostsOf(dns.infos, k) /\ Resolve(dns.infos, q) = dns.infos[k].ip
      BY <2>1, <2>2, ResolveFacts
    <2>5. Root(dns.infos, k) = Root(dns.infos, i)
      BY <2>3, <2>4, HostsOfEnds
    <2>6. k = i
      BY <2>1, <2>5, RootsDiffer
    <2> QED
      BY <2>4, <2>6 DEF q
  <1> QED
    BY <1>1, AlwaysNamesIInv, PTL
=============================================================================
