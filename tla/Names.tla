-------------------------------- MODULE Names --------------------------------
(***************************************************************************)
(* Host names of the members (hosts.rs build_entries_with_services, dns.rs *)
(* resolve) and the refreshes that publish them: several threads change    *)
(* the peer table, and each then takes a snapshot of it and hands it to    *)
(* the resolver (mesh.rs refresh_domain_names).  A label, sanitized, is a  *)
(* word and the numbers after it, "alice-12"; a host name is a sequence of *)
(* labels, without the suffix of the mesh.                                 *)
(***************************************************************************)
EXTENDS Naturals, Sequences, FiniteSets

CONSTANTS
  Refresher,   \* threads that change the table: receive loop, directory, GUI
  Receiver,    \* the receive loop
  Gui,         \* the thread of the handle's user
  Ip, Me,      \* members and which one we are
  Octet,       \* the last byte of their addresses
  Label,       \* labels that people choose for themselves, sanitized
  Service,     \* names of services
  Sanitized,   \* their labels: different names may have the same
  Query,       \* host names somebody asks for
  MaxEvents    \* bound: changes of the table

Unknown == [name |-> [word |-> "", nums |-> <<>>], services |-> <<>>]
VARIABLES
  peers,     \* the peer table, and ourselves
  dns,       \* the resolver's table: a snapshot, and (history) of how many events
  th,        \* th[t]: the thread, and the snapshot it has taken
  events

namesVars == <<peers, dns, th, events>>

Known(ps) == {i \in Ip : ps[i] # Unknown}

\* build_domain_infos: ourselves, then the peers in the order of a hash map.
Snapshots(ps) ==
  LET others == Known(ps) \ {Me}
      n == Cardinality(others) IN
  {[k \in 1..(n + 1) |-> LET i == IF k = 1 THEN Me ELSE s[k - 1] IN
                         [ip |-> i, name |-> ps[i].name, services |-> ps[i].services]]
   : s \in {s \in [1..n -> others] : \A j, k \in 1..n : s[j] = s[k] => j = k}}

-----------------------------------------------------------------------------
(* Names and their resolution.                                              *)

Numbered(label, n) == [label EXCEPT !.nums = Append(@, n)]

\* A name that an earlier member has is told apart by the address.
Root(infos, i) ==
  IF \E j \in 1..(i - 1) : infos[j].name = infos[i].name
  THEN Numbered(infos[i].name, Octet[infos[i].ip]) ELSE infos[i].name

\* A service that the same member has twice, by a count.
ServiceLabel(services, k) ==
  LET label == Sanitized[services[k]]
      n == Cardinality({j \in 1..(k - 1) : Sanitized[services[j]] = label}) IN
  IF n = 0 THEN label ELSE Numbered(label, n + 1)

HostsOf(infos, i) ==
  {<<Root(infos, i)>>} \cup
  {<<ServiceLabel(infos[i].services, k), Root(infos, i)>> : k \in DOMAIN infos[i].services}

First(infos, S) == infos[CHOOSE i \in S : \A j \in S : i <= j].ip

\* resolve: the first entry with the name, or else the first member the name is
\* below of; other names are asked upstream.
NotOurs == 0
Resolve(infos, q) ==
  LET exact == {i \in DOMAIN infos : q \in HostsOf(infos, i)}
      below == {i \in DOMAIN infos : Len(q) > 1 /\ q[Len(q)] = Root(infos, i)} IN
  IF exact # {} THEN First(infos, exact)
  ELSE IF below # {} THEN First(infos, below) ELSE NotOurs

-----------------------------------------------------------------------------
(* Refreshes.                                                               *)

Idle == [pc |-> "idle", infos |-> <<>>, at |-> 0]

NamesInit ==
  /\ \E label \in Label :
       peers = [i \in Ip |-> IF i = Me THEN [Unknown EXCEPT !.name = label] ELSE Unknown]
  /\ events = 0
  /\ \E s \in Snapshots(peers) : dns = [infos |-> s, at |-> 0]
  /\ th = [t \in Refresher |-> Idle]

Change(t, i, info) ==
  /\ th[t].pc = "idle" /\ events < MaxEvents /\ peers[i] # info
  /\ peers' = [peers EXCEPT ![i] = info]
  /\ events' = events + 1
  /\ th' = [th EXCEPT ![t].pc = "changed"]
  /\ UNCHANGED dns

\* A new address or port, a service that is not there to remove: the names are
\* the same, and refreshed all the same.
Renew(t) ==
  /\ th[t].pc = "idle"
  /\ th' = [th EXCEPT ![t].pc = "changed"]
  /\ UNCHANGED <<peers, dns, events>>

With(services, s) ==
  IF \E k \in DOMAIN services : services[k] = s THEN services ELSE Append(services, s)

Without(services, s) == SelectSeq(services, LAMBDA x : x # s)

\* A peer appears or is renamed: gossip, a PING, the directory, the registry, an
\* imported card.
HearName(t, i, label) == i # Me /\ Change(t, i, [peers[i] EXCEPT !.name = label])

\* apply_gossip_service: a peer may be heard of first by what it offers.
HearService(i, label, s) ==
  /\ i # Me /\ (i \in Known(peers) => label = peers[i].name)
  /\ Change(Receiver, i, [name |-> label, services |-> With(peers[i].services, s)])

AddService(s) ==
  Change(Gui, Me, [peers[Me] EXCEPT !.services = With(@, s)])
RemoveService(s) ==
  Change(Gui, Me, [peers[Me] EXCEPT !.services = Without(@, s)])

\* refresh_domain_names: the snapshot, ...
Snapshot(t) ==
  /\ th[t].pc = "changed"
  /\ \E s \in Snapshots(peers) :
       th' = [th EXCEPT ![t] = [pc |-> "sync", infos |-> s, at |-> events]]
  /\ UNCHANGED <<peers, dns, events>>

\* ... which goes into the hosts file first (see HostsFile).
Update(t) ==
  /\ th[t].pc = "sync"
  /\ dns' = [infos |-> th[t].infos, at |-> th[t].at]
  /\ th' = [th EXCEPT ![t] = Idle]
  /\ UNCHANGED <<peers, events>>

NamesNext ==
  \/ \E t \in Refresher :
       Renew(t) \/ Snapshot(t) \/ Update(t) \/ \E i \in Ip, label \in Label : HearName(t, i, label)
  \/ \E i \in Ip, label \in Label, s \in Service : HearService(i, label, s)
  \/ \E s \in Service : AddService(s) \/ RemoveService(s)

NamesSpec == NamesInit /\ [][NamesNext]_namesVars

-----------------------------------------------------------------------------
(* Properties.                                                              *)

\* "So names never lag behind reality by more than one such event" (mesh.rs
\* 663-664): when no refresh is under way the resolver knows all changes but
\* the last.
NeverLags == (\A t \in Refresher : th[t].pc = "idle") => dns.at + 1 >= events

\* Whatever other members call themselves, the names of this one and of its
\* services lead to this one, and what is below its name, unless it is a
\* member's own.
OwnNamesAreOurs ==
  \A q \in HostsOf(dns.infos, 1) : Resolve(dns.infos, q) = Me

\* A name is answered with the address of a member that has it, or whose name
\* it is below; all others are asked upstream, as if the resolver were not there.
AnswersFit ==
  \A q \in Query :
    LET ip == Resolve(dns.infos, q) IN
    IF ip = NotOurs THEN \A i \in DOMAIN dns.infos : q \notin HostsOf(dns.infos, i)
    ELSE \E i \in DOMAIN dns.infos :
           dns.infos[i].ip = ip /\ q[Len(q)] = Root(dns.infos, i)

\* "So a naming collision never silently drops an entry" (hosts.rs 94-95).
NobodyDropped ==
  \A i \in DOMAIN dns.infos :
    Resolve(dns.infos, <<Root(dns.infos, i)>>) = dns.infos[i].ip

-----------------------------------------------------------------------------
(* The invariant that the proofs use, and what they need of the constants.  *)

NamesFit ==
  /\ Me \in Ip /\ NotOurs \notin Ip /\ IsFiniteSet(Ip)
  /\ Receiver \in Refresher /\ Gui \in Refresher

\* Nobody chooses a name that ends in a number, and addresses differ in their
\* last byte, as they do in a /24.
PlainNames ==
  /\ \A label \in Label : label = [word |-> label.word, nums |-> <<>>]
  /\ Octet \in [Ip -> Nat] /\ \A i, j \in Ip : Octet[i] = Octet[j] => i = j

\* A snapshot begins with ourselves and has nobody twice, in whatever order.
WellFormed(infos) ==
  \E n \in 0..Cardinality(Ip) :
    /\ DOMAIN infos = 1..(n + 1)
    /\ infos[1].ip = Me
    /\ \A i \in 1..(n + 1) : infos[i].ip \in Ip /\ infos[i].name \in Label
    /\ \A i, j \in 1..(n + 1) : infos[i].ip = infos[j].ip => i = j

NamesIInv ==
  /\ DOMAIN peers = Ip /\ DOMAIN th = Refresher
  /\ \A i \in Ip : peers[i] = [name |-> peers[i].name, services |-> peers[i].services]
  /\ \A i \in Known(peers) \cup {Me} : peers[i].name \in Label
  /\ \A t \in Refresher :
       /\ th[t] = [pc |-> th[t].pc, infos |-> th[t].infos, at |-> th[t].at]
       /\ th[t].pc = "sync" => WellFormed(th[t].infos)
  /\ WellFormed(dns.infos)
=============================================================================
