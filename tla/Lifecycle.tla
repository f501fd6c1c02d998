------------------------------ MODULE Lifecycle ------------------------------
(***************************************************************************)
(* One machine: a process that starts and stops meshes (mesh.rs start and  *)
(* stop, called by the GUI's thread), the resolver thread (dns.rs), the    *)
(* threads that refresh the host names, and what the mesh changes outside  *)
(* the process: the hosts file (module HostsFile) and /etc/resolv.conf     *)
(* with its backup.  A start may fail half-way, the process may end        *)
(* between any two steps, and threads look at the flag that stops them     *)
(* only between two iterations.  The configuration has sync_hosts_file,    *)
(* dns_server and dns_auto_configure on.                                   *)
(***************************************************************************)
EXTENDS HostsFile

CONSTANTS
  MaxStarts,  \* bound: meshes that may be started
  MaxQuits,   \* bound: how often the process ends
  MaxSys,     \* bound: versions of resolv.conf written by the system
  MyName,
  Peer        \* names of other members

Mesh == 1..MaxStarts
Ui == 0

ASSUME LifecycleAssumption ==
  /\ MaxStarts \in Nat /\ MaxQuits \in Nat /\ MaxSys \in Nat \ {0}
  /\ Thread = Mesh \cup {Ui}
  /\ MyName \notin Peer /\ Name = Peer \cup {MyName}

Cut == 0                      \* a file that was being written
Absent == MaxSys + 1
Text2 == 0..MaxSys
Conf == [ours: BOOLEAN, base: Text2]
UiPc == {"idle", "bind", "look", "backup", "point", "refresh", "device",
         "undo", "unback", "clear"}

VARIABLES
  up,        \* the process runs
  mode,      \* "stopped" or "running": what the user asked for last and got
  ui,        \* where the GUI's thread is in start() or stop()
  seen,      \* what it read from resolv.conf
  cur,       \* the last mesh started
  flag,      \* flag[g]: the mesh's threads shall go on
  recv,      \* recv[g]: its receive loop, for all threads that refresh names
  known,     \* known[g]: the names in its peer table
  resolver,  \* resolver[g]: its resolver thread: "on", told to stop ("off"), or "none"
  handle,    \* handle[g]: start() returned, so that stop() can reach the resolver
  conf, backup, sysver,    \* resolv.conf, its backup, the system's last version
  quits,
  left,      \* history: resolv.conf still names a resolver that was left
  spoilt     \* history: see OriginalKept

meshVars == <<flag, recv, known, resolver, handle>>
confVars == <<conf, backup, sysver>>
uiVars == <<up, mode, ui, seen, cur, quits>>
history == <<left, spoilt>>
vars == <<hostsVars, uiVars, meshVars, confVars, history>>

TypeOK ==
  /\ HostsTypeOK
  /\ up \in BOOLEAN /\ mode \in {"stopped", "running"} /\ ui \in UiPc
  /\ seen \in Text2 /\ cur \in Mesh \cup {0} /\ quits \in 0..MaxQuits
  /\ flag \in [Mesh -> BOOLEAN]
  /\ recv \in [Mesh -> {"none", "check", "wait", "refresh"}]
  /\ known \in [Mesh -> SUBSET Peer]
  /\ resolver \in [Mesh -> {"none", "on", "off"}]
  /\ handle \in [Mesh -> BOOLEAN]
  /\ conf \in Conf /\ backup \in Text2 \cup {Absent} /\ sysver \in 1..MaxSys
  /\ left \in BOOLEAN /\ spoilt \in BOOLEAN

Init ==
  /\ HostsInit
  /\ up = TRUE /\ mode = "stopped" /\ ui = "idle" /\ seen = Cut /\ cur = 0 /\ quits = 0
  /\ flag = [g \in Mesh |-> FALSE]
  /\ recv = [g \in Mesh |-> "none"]
  /\ known = [g \in Mesh |-> {}]
  /\ resolver = [g \in Mesh |-> "none"]
  /\ handle = [g \in Mesh |-> FALSE]
  /\ conf = [ours |-> FALSE, base |-> 1] /\ backup = Absent /\ sysver = 1
  /\ left = FALSE /\ spoilt = FALSE

-----------------------------------------------------------------------------
(* start().                                                                 *)

Start ==
  /\ up /\ mode = "stopped" /\ ui = "idle" /\ cur + 1 \in Mesh
  /\ cur' = cur + 1 /\ ui' = "bind"
  /\ UNCHANGED <<hostsVars, up, mode, seen, quits, meshVars, confVars, history>>

\* refresh_domain_names: ourselves and the peer table.
Refreshed(t, g) == Begun(t, {MyName} \cup known[g])
ToRefresh == ui' = "refresh" /\ sync' = Refreshed(Ui, cur)
hostsRest == <<hosts, tmp, edits, raced>>

Bound == \E g \in Mesh : resolver[g] # "none"

\* dns::start; without the port the mesh goes on without a resolver.
Bind ==
  /\ ui = "bind" /\ ~Bound
  /\ resolver' = [resolver EXCEPT ![cur] = "on"]
  /\ ui' = "look"
  /\ UNCHANGED <<hostsVars, up, mode, seen, cur, quits, flag, recv, known, handle,
                 confVars, history>>
\* Faulty variant: resolv.conf is pointed at us all the same.
BindFailsUnseen ==
  /\ ui = "bind"
  /\ ui' = "look"
  /\ UNCHANGED <<hostsVars, up, mode, seen, cur, quits, meshVars, confVars, history>>

BindFails ==
  /\ ui = "bind"
  /\ ToRefresh
  /\ UNCHANGED <<hostsRest, up, mode, seen, cur, quits, meshVars, confVars, history>>

\* Faulty variant: a backup that exists is written again.
LookAgain ==
  /\ ui = "look"
  /\ IF conf.ours THEN ToRefresh /\ UNCHANGED seen
     ELSE ui' = "backup" /\ seen' = conf.base /\ UNCHANGED sync
  /\ UNCHANGED <<hostsRest, up, mode, cur, quits, meshVars, confVars, history>>

\* try_auto_configure_system: nothing to do if the first line is ours already;
\* the first backup is kept.
Look ==
  /\ ui = "look"
  /\ IF conf.ours THEN ToRefresh /\ UNCHANGED seen
     ELSE /\ ui' = (IF backup = Absent THEN "backup" ELSE "point")
          /\ seen' = conf.base /\ UNCHANGED sync
  /\ UNCHANGED <<hostsRest, up, mode, cur, quits, meshVars, confVars, history>>
\* Unreadable, it is taken for an empty file.
LookFails ==
  /\ Unreadable /\ ui = "look"
  /\ ui' = (IF backup = Absent THEN "backup" ELSE "point") /\ seen' = Cut
  /\ spoilt' = (spoilt \/ backup = Absent)
  /\ UNCHANGED <<hostsVars, up, mode, cur, quits, meshVars, confVars, left>>

BackUp ==
  /\ ui = "backup"
  /\ backup' = seen /\ ui' = "point"
  /\ UNCHANGED <<hostsVars, up, mode, seen, cur, quits, meshVars, conf, sysver, history>>
BackUpFails ==
  /\ ui = "backup"
  /\ \/ UNCHANGED <<backup, spoilt>>
     \/ backup' = Cut /\ spoilt' = TRUE
  /\ ToRefresh /\ seen' = Cut
  /\ UNCHANGED <<hostsRest, up, mode, cur, quits, meshVars, conf, sysver, left>>

Point ==
  /\ ui = "point"
  /\ conf' = [ours |-> TRUE, base |-> seen]
  /\ ToRefresh /\ seen' = Cut
  /\ UNCHANGED <<hostsRest, up, mode, cur, quits, meshVars, backup, sysver, history>>
PointFails ==
  /\ ui = "point"
  /\ \/ UNCHANGED conf
     \/ conf' = [ours |-> FALSE, base |-> Cut]
  /\ ToRefresh /\ seen' = Cut
  /\ UNCHANGED <<hostsRest, up, mode, cur, quits, meshVars, backup, sysver, history>>

Synced == sync[Ui].pc = "idle"
Refresh ==
  /\ ui = "refresh" /\ Synced
  /\ ui' = "device"
  /\ UNCHANGED <<hostsVars, up, mode, seen, cur, quits, meshVars, confVars, history>>

\* The adapter, the socket, the threads, the handle.
Device ==
  /\ ui = "device"
  /\ flag' = [flag EXCEPT ![cur] = TRUE]
  /\ recv' = [recv EXCEPT ![cur] = "check"]
  /\ handle' = [handle EXCEPT ![cur] = (resolver[cur] = "on")]
  /\ mode' = "running" /\ ui' = "idle"
  /\ UNCHANGED <<hostsVars, up, seen, cur, quits, known, resolver, confVars, history>>

\* No adapter or no socket: start() returns, and undoes nothing.
DeviceFails ==
  /\ ui = "device"
  /\ ui' = "idle"
  /\ UNCHANGED <<hostsVars, up, mode, seen, cur, quits, meshVars, confVars, history>>

-----------------------------------------------------------------------------
(* stop().                                                                  *)

Stop ==
  /\ up /\ mode = "running" /\ ui = "idle"
  /\ flag' = [flag EXCEPT ![cur] = FALSE]
  /\ resolver' = IF handle[cur] THEN [resolver EXCEPT ![cur] = "off"] ELSE resolver
  /\ handle' = [handle EXCEPT ![cur] = FALSE]
  /\ mode' = "stopped" /\ ui' = "undo"
  /\ UNCHANGED <<hostsVars, up, seen, cur, quits, recv, known, confVars, history>>

ToClear == ui' = "clear" /\ sync' = Begun(Ui, {})

\* Faulty variant: whether there is a backup is not asked.
UndoAnyway ==
  /\ ui = "undo"
  /\ ui' = "unback"
  /\ conf' = [ours |-> FALSE, base |-> backup] /\ left' = FALSE
  /\ UNCHANGED <<hostsVars, up, mode, seen, cur, quits, meshVars, backup, sysver, spoilt>>

\* try_undo_auto_configure: errors of the write are ignored, and the backup is
\* removed whether or not it was restored.
Undo ==
  /\ ui = "undo"
  /\ IF backup = Absent
     THEN ToClear /\ left' = conf.ours /\ UNCHANGED <<conf, spoilt>>
     ELSE /\ ui' = "unback" /\ UNCHANGED sync
          /\ \/ conf' = [ours |-> FALSE, base |-> backup] /\ left' = FALSE /\ UNCHANGED spoilt
             \/ conf' \in {conf, [ours |-> FALSE, base |-> Cut]}
                /\ spoilt' = TRUE /\ left' = conf'.ours
  /\ UNCHANGED <<hostsRest, up, mode, seen, cur, quits, meshVars, backup, sysver>>
\* A backup that cannot be read is left alone.
UndoFails ==
  /\ Unreadable /\ ui = "undo"
  /\ ToClear /\ left' = conf.ours
  /\ UNCHANGED <<hostsRest, up, mode, seen, cur, quits, meshVars, confVars, spoilt>>
UnBack ==
  /\ ui = "unback"
  /\ backup' = Absent
  /\ ToClear
  /\ UNCHANGED <<hostsRest, up, mode, seen, cur, quits, meshVars, conf, sysver, history>>

\* remove_block: the block is left empty.
Clear ==
  /\ ui = "clear" /\ Synced
  /\ ui' = "idle"
  /\ UNCHANGED <<hostsVars, up, mode, seen, cur, quits, meshVars, confVars, history>>

-----------------------------------------------------------------------------
(* The threads.                                                             *)

\* A resolver that was told to stop ends within one receive timeout, or after
\* the query it is forwarding.
ResolverEnds(g) ==
  /\ resolver[g] = "off"
  /\ resolver' = [resolver EXCEPT ![g] = "none"]
  /\ UNCHANGED <<hostsVars, uiVars, flag, recv, known, handle, confVars, history>>

\* The table goes with the last thread.
Check(g) ==
  /\ recv[g] = "check"
  /\ recv' = [recv EXCEPT ![g] = IF flag[g] THEN "wait" ELSE "none"]
  /\ known' = IF flag[g] THEN known ELSE [known EXCEPT ![g] = {}]
  /\ UNCHANGED <<hostsVars, uiVars, flag, resolver, handle, confVars, history>>

\* Nothing arrives in time, or nothing that changes the names.
Pass(g) ==
  /\ recv[g] = "wait"
  /\ recv' = [recv EXCEPT ![g] = "check"]
  /\ UNCHANGED <<hostsVars, uiVars, flag, known, resolver, handle, confVars, history>>

\* A stranger: it enters the table, and the names are refreshed.
Learn(g) ==
  /\ recv[g] = "wait"
  /\ \E p \in Peer \ known[g] :
       /\ known' = [known EXCEPT ![g] = @ \cup {p}]
       /\ sync' = Begun(g, {MyName} \cup known[g] \cup {p})
  /\ recv' = [recv EXCEPT ![g] = "refresh"]
  /\ UNCHANGED <<hostsRest, uiVars, flag, resolver, handle, confVars, history>>
Learned(g) ==
  /\ recv[g] = "refresh" /\ sync[g].pc = "idle"
  /\ recv' = [recv EXCEPT ![g] = "check"]
  /\ UNCHANGED <<hostsVars, uiVars, flag, known, resolver, handle, confVars, history>>

SyncAny == \E t \in Thread : SyncStep(t) /\ UNCHANGED <<uiVars, meshVars, confVars, history>>

-----------------------------------------------------------------------------
(* The process ends: a crash, or the tray's Quit, the window or the updater *)
(* (main.rs), none of which calls stop().  A write under way may be cut.    *)
Quit ==
  /\ up /\ quits < MaxQuits
  /\ up' = FALSE /\ quits' = quits + 1
  /\ mode' = "stopped" /\ ui' = "idle" /\ seen' = Cut
  /\ flag' = [g \in Mesh |-> FALSE]
  /\ recv' = [g \in Mesh |-> "none"]
  /\ known' = [g \in Mesh |-> {}]
  /\ resolver' = [g \in Mesh |-> "none"]
  /\ handle' = [g \in Mesh |-> FALSE]
  /\ Abandon
  /\ left' = conf.ours
  /\ \/ UNCHANGED <<conf, backup, spoilt>>
     \/ ui = "backup" /\ backup' = Cut /\ spoilt' = TRUE /\ UNCHANGED conf
     \/ ui \in {"point", "undo"} /\ backup # Absent
        /\ conf' = [ours |-> FALSE, base |-> Cut] /\ UNCHANGED <<backup, spoilt>>
  /\ UNCHANGED <<hosts, edits, raced, cur, sysver>>

\* The GUI starts the mesh that is configured.
Launch ==
  /\ ~up /\ cur + 1 \in Mesh
  /\ up' = TRUE /\ cur' = cur + 1 /\ ui' = "bind"
  /\ UNCHANGED <<hostsVars, mode, seen, quits, meshVars, confVars, history>>

\* NetworkManager, DHCP, ...: the whole file is replaced.
SystemWrites ==
  /\ sysver < MaxSys
  /\ sysver' = sysver + 1
  /\ conf' = [ours |-> FALSE, base |-> sysver + 1]
  /\ left' = FALSE
  /\ spoilt' = (spoilt \/ backup # Absent \/ ui \in {"backup", "point"})
  /\ UNCHANGED <<hostsVars, uiVars, meshVars, backup>>

Others == Edit /\ UNCHANGED <<uiVars, meshVars, confVars, history>>

Starting ==
  \/ Start \/ Bind \/ BindFails \/ Look \/ LookFails \/ BackUp \/ BackUpFails
  \/ Point \/ PointFails \/ Refresh \/ Device \/ DeviceFails
Stopping == Stop \/ Undo \/ UndoFails \/ UnBack \/ Clear
Threads(g) == ResolverEnds(g) \/ Check(g) \/ Pass(g) \/ Learn(g) \/ Learned(g)

Next ==
  \/ Starting \/ Stopping \/ SyncAny \/ Quit \/ Launch \/ SystemWrites \/ Others
  \/ \E g \in Mesh : Threads(g)

Spec == Init /\ [][Next]_vars

-----------------------------------------------------------------------------
(* Properties.                                                              *)

\* While the machine asks 127.0.0.1 there is a resolver that answers, also after
\* starts that failed half-way: the mesh must not break name resolution (dns.rs
\* start, stop, try_undo_auto_configure).  Not so (`left') once the process ended
\* without stop(), or the undo failed.
Resolvable ==
  up /\ ui = "idle" /\ conf.ours /\ ~left => \E g \in Mesh : resolver[g] = "on"

\* The system's own resolv.conf can be had back at any time, through failed
\* starts, retries, quits and relaunches: it is in the backup, or in place if
\* there is none.  Not so (`spoilt') once the system has written it beside a
\* backup, the backup was cut short or made from a file that could not be read, or
\* restoring it failed.
OriginalKept ==
  ~spoilt => IF backup = Absent THEN conf = [ours |-> FALSE, base |-> sysver]
             ELSE backup = sysver

-----------------------------------------------------------------------------
(* The invariant that the proofs use.                                       *)

\* resolv.conf names us only while a resolver is on; the step of stop() that
\* turns the resolver off is followed by the one that gives the file back.
Pointed ==
  /\ conf.ours /\ ~left /\ ui # "undo" => \E g \in Mesh : resolver[g] = "on"
  /\ ~up => ui = "idle"
  /\ ui \in {"bind", "look", "backup", "point"} => cur \in Mesh
  /\ ui \in {"look", "backup", "point"} => resolver[cur] = "on"

\* Where start() and stop() are between the steps on the two files.
BackedUp ==
  /\ OriginalKept
  /\ ui = "backup" => backup = Absent /\ (~spoilt => seen = sysver)
  /\ ui \in {"point", "unback"} => backup # Absent
  /\ ui = "unback" /\ ~spoilt => conf = [ours |-> FALSE, base |-> sysver]

IInv == TypeOK /\ HostsSound /\ Pointed /\ BackedUp
=============================================================================
