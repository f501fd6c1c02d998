-------------------------------- MODULE Warp --------------------------------
(***************************************************************************)
(* The thread of a mesh that keeps the addresses it talks to, and the STUN *)
(* servers, out of a Cloudflare WARP tunnel (warpfix.rs, mesh.rs           *)
(* warp_maintenance_tick), against the client and its user.  The thread    *)
(* has no exit: one mesh is stopped, another is started with other         *)
(* settings, and both go on.  Every warp-cli call is a step.               *)
(***************************************************************************)
EXTENDS FiniteSets

CONSTANTS
  Mesh,      \* meshes started one after the other
  None,      \* no mesh runs
  Peer,      \* public addresses of peers
  Lan,       \* addresses that WARP leaves alone (needs_exclusion is false)
  Server     \* addresses of the STUN servers, which have one name here

ASSUME WarpAssumption ==
  None \notin Mesh /\ (Peer \cup Server) \cap Lan = {}

Addr == Peer \cup Lan \cup Server

VARIABLES
  live,      \* the mesh that runs
  settings,  \* settings[m]: on: both gates are set; manual: a public address is
  targets,   \* targets[m]: the addresses m may send to
  thread,    \* thread[m]
  client,    \* the WARP client: does not answer in time, is off, or is on
  mode,      \* what its list is a list of
  hostCmd,   \* has it a list of names? (older clients have not)
  dns,       \* what the servers' name stands for
  ips,       \* the addresses in its list
  hosts      \* is the servers' name in its list?

clientVars == <<client, mode, hostCmd, dns, ips, hosts>>
warpVars == <<live, settings, targets, thread, clientVars>>

Mode == {"exclude", "include"}
Settings == [on: BOOLEAN, manual: BOOLEAN]
Pc == {"off", "sleep", "status", "ipList", "ipAdd", "hostList", "hostAdd", "resolve"}
\* read: the mode that the last list said; fallback: are these the servers?
Thread == [pc: Pc, todo: SUBSET Addr, stun: BOOLEAN, read: Mode \cup {"none"},
           fallback: BOOLEAN]
Idle(pc) == [pc |-> pc, todo |-> {}, stun |-> FALSE, read |-> "none", fallback |-> FALSE]

WarpTypeOK ==
  /\ live \in Mesh \cup {None}
  /\ settings \in [Mesh -> Settings]
  /\ targets \in [Mesh -> SUBSET (Peer \cup Lan)]
  /\ thread \in [Mesh -> Thread]
  /\ \A m \in Mesh : thread[m].todo \cap Lan = {}
  /\ client \in {"hung", "off", "on"} /\ mode \in Mode
  /\ hostCmd \in BOOLEAN /\ dns \subseteq Server
  /\ ips \subseteq Peer \cup Server /\ hosts \in BOOLEAN

WarpInit ==
  /\ live = None
  /\ settings \in [Mesh -> Settings]
  /\ targets = [m \in Mesh |-> {}]
  /\ thread = [m \in Mesh |-> Idle("off")]
  /\ client \in {"off", "on"} /\ mode \in Mode /\ hostCmd \in BOOLEAN
  /\ dns \in SUBSET Server /\ ips = {} /\ hosts = FALSE

\* start: the thread begins with a tick.  stop: it does not end.
Start(m) ==
  /\ live = None /\ thread[m].pc = "off"
  /\ live' = m
  /\ thread' = [thread EXCEPT ![m] = Idle("sleep")]
  /\ UNCHANGED <<settings, targets, clientVars>>
Stop ==
  /\ live # None
  /\ live' = None
  /\ UNCHANGED <<settings, targets, thread, clientVars>>

\* The peers of the running mesh and the endpoints they have, or may have.
Gossip(m, s) ==
  /\ live = m
  /\ targets' = [targets EXCEPT ![m] = s]
  /\ UNCHANGED <<live, settings, thread, clientVars>>

-----------------------------------------------------------------------------
(* The thread.                                                              *)

Goto(m, t) ==
  /\ thread' = [thread EXCEPT ![m] = t]
  /\ UNCHANGED <<live, settings, targets>>

\* Faulty variant: nothing is left out.
AllOf(s) == s

\* sanitize_targets.
NeedsExclusion(s) == s \ Lan

\* ensure_split_tunnel_exclusions and ensure_split_tunnel_host_exclusions look
\* at a list if they have something to look for.
Hosts(t) == IF t.stun THEN [t EXCEPT !.pc = "hostList"] ELSE Idle("sleep")
AfterIps(t) == IF t.fallback THEN Idle("sleep") ELSE Hosts(t)
Ips(t) == IF t.todo # {} THEN [t EXCEPT !.pc = "ipList"] ELSE AfterIps(t)

\* warp_maintenance_tick: the gates, then snapshots of targets and servers.
Tick(m) ==
  /\ thread[m].pc = "sleep"
  /\ settings[m].on
  /\ Goto(m, [Idle("status") EXCEPT !.todo = NeedsExclusion(targets[m]),
                                    !.stun = ~settings[m].manual])
  /\ UNCHANGED clientVars

\* is_warp_connected.
Status(m) ==
  /\ thread[m].pc = "status"
  /\ Goto(m, IF client = "on" THEN Ips(thread[m]) ELSE Idle("sleep"))
  /\ UNCHANGED clientVars

\* Faulty variant: the mode is not looked at.
IpListAnyMode(m) ==
  LET t == thread[m] IN
  /\ t.pc = "ipList"
  /\ Goto(m, IF client = "hung" \/ t.todo \subseteq ips THEN AfterIps(t)
             ELSE [t EXCEPT !.pc = "ipAdd", !.todo = @ \ ips, !.read = mode])
  /\ UNCHANGED clientVars

\* run_cli gives up after 4 s.  Entries that are listed are left out.
IpList(m) ==
  LET t == thread[m]
      rest == t.todo \ ips IN
  /\ t.pc = "ipList"
  /\ Goto(m, IF client = "hung" THEN AfterIps(t)
             ELSE IF mode = "include" THEN AfterIps([t EXCEPT !.read = mode])
             ELSE IF rest = {} THEN AfterIps([t EXCEPT !.read = mode])
             ELSE [t EXCEPT !.pc = "ipAdd", !.todo = rest, !.read = mode])
  /\ UNCHANGED clientVars

\* One call for every missing address.  A call that is given up may have
\* reached the client.
Without(t, a) == [t EXCEPT !.todo = @ \ {a}]
NextIp(t) == IF t.todo = {} THEN AfterIps(t) ELSE t
IpAdd(m) ==
  /\ thread[m].pc = "ipAdd"
  /\ \E a \in thread[m].todo :
       /\ Goto(m, NextIp(Without(thread[m], a)))
       /\ \/ ips' = ips \cup {a}
          \/ client = "hung" /\ UNCHANGED ips
  /\ UNCHANGED <<client, mode, hostCmd, dns, hosts>>

\* Faulty variant: an unreadable list of names is the end of it.
HostListOrNothing(m) ==
  LET t == thread[m] IN
  /\ t.pc = "hostList"
  /\ Goto(m, IF client = "hung" \/ ~hostCmd \/ mode = "include" \/ hosts THEN Idle("sleep")
             ELSE [t EXCEPT !.pc = "hostAdd", !.read = mode])
  /\ UNCHANGED clientVars

HostList(m) ==
  LET t == thread[m] IN
  /\ t.pc = "hostList"
  /\ Goto(m, IF client = "hung" \/ ~hostCmd
             THEN [t EXCEPT !.pc = "resolve", !.fallback = TRUE]
             ELSE IF mode = "include" \/ hosts THEN Idle("sleep")
             ELSE [t EXCEPT !.pc = "hostAdd", !.read = mode])
  /\ UNCHANGED clientVars

HostAdd(m) ==
  /\ thread[m].pc = "hostAdd"
  /\ Goto(m, Idle("sleep"))
  /\ \/ hosts' = TRUE
     \/ client = "hung" /\ UNCHANGED hosts
  /\ UNCHANGED <<client, mode, hostCmd, dns, ips>>

\* host_exclusion_fallback: the addresses of the servers instead.
Resolve(m) ==
  /\ thread[m].pc = "resolve"
  /\ Goto(m, Ips([thread[m] EXCEPT !.todo = NeedsExclusion(dns)]))
  /\ UNCHANGED clientVars

Maintain(m) ==
  \/ Tick(m) \/ Status(m) \/ IpList(m) \/ IpAdd(m)
  \/ HostList(m) \/ HostAdd(m) \/ Resolve(m)

-----------------------------------------------------------------------------
(* The user, the organization, the client and the name service.             *)

World ==
  /\ \/ client' \in {"hung", "off", "on"} \ {client} /\ UNCHANGED <<mode, hostCmd, dns, ips, hosts>>
     \/ mode' \in Mode \ {mode} /\ UNCHANGED <<client, hostCmd, dns, ips, hosts>>
     \/ ~hostCmd /\ hostCmd' = TRUE /\ UNCHANGED <<client, mode, dns, ips, hosts>>
     \/ dns' \in SUBSET Server \ {dns} /\ UNCHANGED <<client, mode, hostCmd, ips, hosts>>
     \/ ips' \in SUBSET ips \ {ips} /\ UNCHANGED <<client, mode, hostCmd, dns, hosts>>
     \/ hosts /\ hosts' = FALSE /\ UNCHANGED <<client, mode, hostCmd, dns, ips>>
  /\ UNCHANGED <<live, settings, targets, thread>>

WarpNext ==
  \/ \E m \in Mesh : Start(m) \/ Maintain(m) \/ \E s \in SUBSET (Peer \cup Lan) : Gossip(m, s)
  \/ Stop \/ World

\* The thread sleeps for WARP_MAINTENANCE_INTERVAL and every call is bounded.
WarpSpec == WarpInit /\ [][WarpNext]_warpVars /\ \A m \in Mesh : WF_warpVars(Maintain(m))

-----------------------------------------------------------------------------
(* Properties.                                                              *)

\* An entry is added to an include list, which would send mesh traffic into
\* the tunnel, only if the list was an exclude list when the same tick read it,
\* on the fallback path too (warpfix.rs SplitTunnelMode: "so we refuse").
\* Adding is also all that happens: nothing a user listed is removed.
OnlyToExcludeLists ==
  [][\A m \in Mesh : Maintain(m) =>
       /\ ips \subseteq ips' /\ (hosts => hosts')
       /\ (ips' # ips \/ hosts' # hosts) => thread[m].read = "exclude"]_warpVars

\* While the client is on, answers and excludes: every address a started mesh
\* keeps sending to is listed again and again, whatever was removed or failed
\* before, and so are the servers: by name, or by address if the client has no
\* names (mesh.rs warp_split_tunnel_hosts: without it nobody can reach us).
Serviceable(m) == settings[m].on /\ thread[m].pc # "off" /\ client = "on" /\ mode = "exclude"
Excluded ==
  \A m \in Mesh :
    /\ \A a \in Peer : <>[](Serviceable(m) /\ a \in targets[m]) => []<>(a \in ips)
    /\ <>[](Serviceable(m) /\ ~settings[m].manual /\ hostCmd) => []<>hosts
    /\ \A a \in Server :
         <>[](Serviceable(m) /\ ~settings[m].manual /\ ~hostCmd /\ a \in dns) => []<>(a \in ips)

-----------------------------------------------------------------------------
(* The invariant that the proofs use.                                       *)

\* The list that a tick has read last, and found to be one of exclusions, is the
\* one it adds to; servers' addresses come only after their name was no help.
ReadFirst ==
  \A m \in Mesh :
    LET t == thread[m] IN
    /\ t.pc \in {"ipAdd", "hostAdd"} => t.read = "exclude"
    /\ t.pc = "ipAdd" => t.todo # {}
    /\ t.pc = "resolve" => t.fallback
    /\ t.fallback /\ t.pc # "resolve" => t.todo \subseteq Server
    /\ ~t.fallback => t.todo \subseteq Peer

WarpIInv == WarpTypeOK /\ ReadFirst
=============================================================================
