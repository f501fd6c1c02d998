----------------------------- MODULE SelfStun ------------------------------
(***************************************************************************)
(* How a running mesh keeps its own public address current (mesh.rs): the  *)
(* self-STUN ticker thread, the slot through which the receive loop hands  *)
(* it the answer to its probe, and the three operations the user may call  *)
(* on the MeshHandle meanwhile.  Every lock is released before the next is *)
(* taken, so each critical section is a step.                              *)
(***************************************************************************)
EXTENDS Naturals, FiniteSets

CONSTANTS
  Addr,      \* public addresses
  Manual,    \* those among them the user may enter
  NoAddr,
  Tx, NoTx,  \* STUN transaction ids
  Servers,   \* number of STUN servers, tried in order
  Caching,   \* cache_public_addr
  MaxNet,    \* bound: STUN messages in flight
  MaxWakes   \* bound: wake-ups queued

OptAddr == Addr \cup {NoAddr}

ASSUME SelfStunAssumption ==
  /\ NoAddr \notin Addr /\ Manual \subseteq Addr /\ NoTx \notin Tx
  /\ Servers \in Nat \ {0} /\ Caching \in BOOLEAN
  /\ MaxNet \in Nat /\ MaxWakes \in Nat

VARIABLES
  calm,       \* have the network, the NAT and the user settled for good?
  running,
  nat,        \* the mapping the NAT has for our socket now
  manual,     \* manual_public_ip and manual_public_port in mesh.toml
  cached,     \* cached_public_ip and cached_public_port in mesh.toml
  mine,       \* my_public_addr
  announced,  \* our address in the last gossip burst or tick
  slot,       \* SelfStunWaiter.slot: the transaction waited for
  box,        \* the channel of the last probe
  net,        \* STUN messages in flight
  stun,       \* the ticker: what it does next, and its local variables
  gui,        \* the thread that calls the handle
  wakes,      \* messages queued on stun_wake_tx
  window      \* history: the mappings there were since the probe under way was sent

vars == <<calm, running, nat, manual, cached, mine, announced, slot, box, net, stun,
          gui, wakes, window>>

Message == [kind: {"request", "response"}, tx: Tx, addr: OptAddr]
Pc == {"seed", "seed store", "check", "manual", "manual store", "send", "wait", "clear",
       "store", "burst", "cache", "failed", "sleep", "done"}
Ticker == [pc: Pc, next: {"check", "sleep", "cache"}, server: 1..Servers, tx: Tx \cup {NoTx}, addr: OptAddr]
Caller == [pc: {"idle", "apply", "wake"}, addr: OptAddr]

TypeOK ==
  /\ calm \in BOOLEAN /\ running \in BOOLEAN
  /\ nat \in Addr \ Manual /\ manual \in Manual \cup {NoAddr}
  /\ cached \in OptAddr /\ mine \in OptAddr /\ announced \in OptAddr
  /\ slot \in Tx \cup {NoTx} /\ box \in OptAddr
  /\ net \subseteq Message /\ stun \in Ticker
  /\ gui \in Caller
  /\ wakes \in 0..MaxWakes /\ window \subseteq Addr

At(pc) == stun.pc = pc
Go(pc) == stun' = [stun EXCEPT !.pc = pc]
Asleep == At("sleep") /\ wakes = 0 /\ gui.pc = "idle"
Usable(a) == Caching /\ a # NoAddr       \* cached_public_addr()

Fresh(pc) == [pc |-> pc, next |-> "check", server |-> 1, tx |-> NoTx, addr |-> NoAddr]

Init ==
  /\ calm = FALSE /\ running = TRUE
  /\ nat \in Addr \ Manual
  /\ manual \in Manual \cup {NoAddr}
  /\ cached \in (Addr \ Manual) \cup {NoAddr}
  /\ mine = NoAddr /\ announced = NoAddr
  /\ slot = NoTx /\ box = NoAddr /\ net = {}
  /\ stun = Fresh("seed") /\ gui = [pc |-> "idle", addr |-> NoAddr]
  /\ wakes = 0 /\ window = {}

-----------------------------------------------------------------------------
(* The environment.                                                         *)

Settle ==
  /\ ~calm /\ calm' = TRUE
  /\ UNCHANGED <<running, nat, manual, cached, mine, announced, slot, box, net, stun, gui,
                 wakes, window>>

\* A NAT or CGNAT port reassignment.
Remap ==
  /\ ~calm
  /\ \E a \in Addr \ Manual :
       nat' = a /\ window' = IF window = {} THEN {} ELSE window \cup {a}
  /\ UNCHANGED <<calm, running, manual, cached, mine, announced, slot, box, net, stun, gui,
                 wakes>>

\* A server answers with the mapping it sees; either message may be delayed,
\* duplicated or, until calm, lost.
Serve(m) ==
  /\ m.kind = "request"
  /\ LET r == [kind |-> "response", tx |-> m.tx, addr |-> nat]
     IN net' = (net \ {m}) \cup {r}
  /\ UNCHANGED <<calm, running, nat, manual, cached, mine, announced, slot, box, stun, gui,
                 wakes, window>>

Lose(m) ==
  /\ ~calm /\ net' = net \ {m}
  /\ UNCHANGED <<calm, running, nat, manual, cached, mine, announced, slot, box, stun, gui,
                 wakes, window>>

\* Faulty variant: any answer will do.
DeliverAny(m) ==
  /\ m.kind = "response"
  /\ IF slot # NoTx THEN box' = m.addr /\ slot' = NoTx ELSE UNCHANGED <<box, slot>>
  /\ net' = net \ {m}
  /\ UNCHANGED <<calm, running, nat, manual, cached, mine, announced, stun, gui, wakes,
                 window>>

\* try_deliver, in the receive loop: only the transaction waited for is taken,
\* and only once.
Deliver(m) ==
  /\ m.kind = "response"
  /\ IF m.tx = slot THEN box' = m.addr /\ slot' = NoTx ELSE UNCHANGED <<box, slot>>
  /\ \/ net' = net \ {m}
     \/ ~calm /\ net' = net
  /\ UNCHANGED <<calm, running, nat, manual, cached, mine, announced, stun, gui, wakes,
                 window>>

\* The gossip ticker sends our own address with everybody else's.
GossipTick ==
  /\ running /\ announced' = mine
  /\ UNCHANGED <<calm, running, nat, manual, cached, mine, slot, box, net, stun, gui,
                 wakes, window>>

-----------------------------------------------------------------------------
(* The user: set_manual_public_addr, clear_manual_public_addr and           *)
(* reset_public_addr change mesh.toml, then my_public_addr, then wake the   *)
(* ticker.                                                                  *)

Call(m, c, a) ==
  /\ ~calm /\ gui.pc = "idle"
  /\ manual' = m /\ cached' = c
  /\ gui' = [pc |-> "apply", addr |-> a]
  /\ UNCHANGED <<calm, running, nat, mine, announced, slot, box, net, stun, wakes, window>>

SetManual == \E a \in Manual : Call(a, cached, a)
ClearManual == Call(NoAddr, cached, NoAddr)
Reset == Call(manual, NoAddr, NoAddr)

Apply ==
  /\ gui.pc = "apply"
  /\ mine' = gui.addr
  /\ gui' = [gui EXCEPT !.pc = "wake"]
  /\ UNCHANGED <<calm, running, nat, manual, cached, announced, slot, box, net, stun, wakes,
                 window>>

\* Faulty variant: the ticker is not woken.
NoWake ==
  /\ gui.pc = "wake"
  /\ gui' = [gui EXCEPT !.pc = "idle"]
  /\ UNCHANGED <<calm, running, nat, manual, cached, mine, announced, slot, box, net, stun,
                 wakes, window>>

Wake ==
  /\ gui.pc = "wake" /\ wakes < MaxWakes
  /\ wakes' = wakes + 1
  /\ gui' = [gui EXCEPT !.pc = "idle"]
  /\ UNCHANGED <<calm, running, nat, manual, cached, mine, announced, slot, box, net, stun,
                 window>>

Stop ==
  /\ ~calm /\ running' = FALSE
  /\ UNCHANGED <<calm, nat, manual, cached, mine, announced, slot, box, net, stun, gui,
                 wakes, window>>

\* The process ends, in the middle of anything, and starts again: mesh.toml is
\* what is left, and answers to its probes may still arrive.
Restart ==
  /\ ~calm
  /\ running' = TRUE /\ mine' = NoAddr /\ slot' = NoTx /\ box' = NoAddr
  /\ stun' = Fresh("seed") /\ gui' = [pc |-> "idle", addr |-> NoAddr]
  /\ wakes' = 0 /\ window' = {}
  /\ UNCHANGED <<calm, nat, manual, cached, announced, net>>

-----------------------------------------------------------------------------
(* The ticker thread.                                                       *)

Rest == <<calm, running, nat, manual, gui, window>>

\* Start with the cached address, unless a manual one takes priority.
Seed ==
  /\ At("seed")
  /\ IF manual = NoAddr /\ Usable(cached)
     THEN stun' = [stun EXCEPT !.pc = "seed store", !.addr = cached]
     ELSE Go("check")
  /\ UNCHANGED <<Rest, cached, mine, announced, slot, box, net, wakes>>

SeedStore ==
  /\ At("seed store")
  /\ mine' = stun.addr
  /\ stun' = [stun EXCEPT !.pc = "burst", !.next = "check"]
  /\ UNCHANGED <<Rest, cached, announced, slot, box, net, wakes>>

\* Faulty variant: stop() is not noticed.
CheckOnlyManual ==
  /\ At("check")
  /\ stun' = IF manual # NoAddr THEN [stun EXCEPT !.pc = "manual", !.addr = manual]
             ELSE [stun EXCEPT !.pc = "send"]
  /\ UNCHANGED <<Rest, cached, mine, announced, slot, box, net, wakes>>

Check ==
  /\ At("check")
  /\ stun' = IF ~running THEN [stun EXCEPT !.pc = "done"]
             ELSE IF manual # NoAddr THEN [stun EXCEPT !.pc = "manual", !.addr = manual]
             ELSE [stun EXCEPT !.pc = "send"]
  /\ UNCHANGED <<Rest, cached, mine, announced, slot, box, net, wakes>>

ManualSame ==
  /\ At("manual")
  /\ stun' = IF mine # stun.addr THEN [stun EXCEPT !.pc = "manual store"] ELSE Fresh("sleep")
  /\ UNCHANGED <<Rest, cached, mine, announced, slot, box, net, wakes>>

ManualStore ==
  /\ At("manual store")
  /\ mine' = stun.addr
  /\ stun' = [stun EXCEPT !.pc = "burst", !.next = "sleep"]
  /\ UNCHANGED <<Rest, cached, announced, slot, box, net, wakes>>

\* Faulty variant: off by one.
NextServerOrBeyond ==
  stun' = IF stun.server <= Servers
          THEN [Fresh("send") EXCEPT !.server = stun.server + 1]
          ELSE Fresh("failed")

\* self_stun_probe, one server after the other.
NextServer ==
  stun' = IF stun.server < Servers
          THEN [Fresh("send") EXCEPT !.server = stun.server + 1]
          ELSE Fresh("failed")

\* The server's name does not resolve.
Unresolved ==
  /\ At("send") /\ ~calm
  /\ NextServer
  /\ UNCHANGED <<Rest, cached, mine, announced, slot, box, net, wakes>>

\* A new transaction takes the slot; sending its request may fail, which
\* leaves it there.
Send(x) ==
  /\ At("send") /\ \A m \in net : m.tx # x
  /\ slot' = x /\ box' = NoAddr
  /\ \/ /\ Cardinality(net) < MaxNet
        /\ net' = net \cup {[kind |-> "request", tx |-> x, addr |-> NoAddr]}
        /\ stun' = [stun EXCEPT !.pc = "wait", !.tx = x]
        /\ window' = {nat}
     \/ /\ ~calm
        /\ NextServer /\ UNCHANGED <<net, window>>
  /\ UNCHANGED <<calm, running, nat, manual, gui, cached, mine, announced, wakes>>

Answered ==
  /\ At("wait") /\ box # NoAddr
  /\ stun' = [stun EXCEPT !.pc = "store", !.addr = box] /\ box' = NoAddr
  /\ UNCHANGED <<Rest, cached, mine, announced, slot, net, wakes>>

\* SELF_STUN_TIMEOUT; once calm, answers arrive before it.
TimedOut ==
  /\ At("wait") /\ box = NoAddr
  /\ calm => \A m \in net : m.tx # stun.tx
  /\ Go("clear")
  /\ UNCHANGED <<Rest, cached, mine, announced, slot, box, net, wakes>>

Clear ==
  /\ At("clear")
  /\ slot' = NoTx /\ box' = NoAddr /\ window' = {}
  /\ NextServer
  /\ UNCHANGED <<calm, running, nat, manual, gui, cached, mine, announced, net, wakes>>

Store ==
  /\ At("store")
  /\ mine' = stun.addr
  /\ stun' = [stun EXCEPT !.pc = IF mine # stun.addr THEN "burst" ELSE "cache",
                          !.next = "cache"]
  /\ window' = {}
  /\ UNCHANGED <<calm, running, nat, manual, gui, cached, announced, slot, box, net, wakes>>

Burst ==
  /\ At("burst")
  /\ announced' = mine
  /\ stun' = IF stun.next = "cache" THEN [stun EXCEPT !.pc = "cache"] ELSE Fresh(stun.next)
  /\ UNCHANGED <<Rest, cached, mine, slot, box, net, wakes>>

Cache ==
  /\ At("cache")
  /\ cached' = IF Caching THEN stun.addr ELSE cached
  /\ stun' = Fresh("sleep")
  /\ UNCHANGED <<Rest, mine, announced, slot, box, net, wakes>>

\* No server answered: this only logs.
Failed ==
  /\ At("failed")
  /\ stun' = Fresh("sleep")
  /\ UNCHANGED <<Rest, cached, mine, announced, slot, box, net, wakes>>

\* Faulty variant: only a message.
WakeUpWhenTold ==
  /\ At("sleep") /\ wakes > 0
  /\ wakes' = wakes - 1
  /\ Go("check")
  /\ UNCHANGED <<Rest, cached, mine, announced, slot, box, net>>

\* recv_timeout on the wake channel: a message, or SELF_STUN_INTERVAL.
WakeUp ==
  /\ At("sleep")
  /\ wakes' = IF wakes > 0 THEN wakes - 1 ELSE 0
  /\ Go("check")
  /\ UNCHANGED <<Rest, cached, mine, announced, slot, box, net>>

Tick ==
  \/ Seed \/ SeedStore \/ Check \/ ManualSame \/ ManualStore \/ Unresolved
  \/ \E x \in Tx : Send(x)
  \/ Answered \/ TimedOut \/ Clear \/ Store \/ Burst \/ Cache \/ Failed \/ WakeUp

Next ==
  \/ Settle \/ Remap \/ GossipTick
  \/ \E m \in net : Serve(m) \/ Lose(m) \/ Deliver(m)
  \/ SetManual \/ ClearManual \/ Reset \/ Apply \/ Wake \/ Stop \/ Restart
  \/ Tick

Spec == Init /\ [][Next]_vars

\* Threads run, and messages that are not lost arrive.
Fairness ==
  /\ WF_vars(Tick) /\ WF_vars(Apply \/ Wake)
  /\ WF_vars(\E m \in net : Serve(m) \/ Deliver(m))
FairSpec == Spec /\ Fairness

-----------------------------------------------------------------------------
(* Properties.                                                              *)

\* The ticker adopts only a mapping the NAT has had since it sent the request
\* in hand: late and duplicated answers to earlier ones are not confused with
\* it (mesh.rs SelfStunWaiter, self_stun_probe).
OwnAnswer == At("store") => stun.addr \in window

\* Whatever the user did while a round was under way, a round that ends with no
\* wake-up queued leaves us with the manual address, if there is one (mesh.rs
\* set_manual_public_addr, reset_public_addr, and the ticker's comment).
ManualWins == Asleep /\ manual # NoAddr => mine = manual

\* A manual address the user has cleared is gone (mesh.rs
\* clear_manual_public_addr: "reverting to automatic self-STUN discovery
\* immediately").
ClearedIsGone == Asleep /\ manual = NoAddr => mine \notin Manual

\* When no server answers, the cached address is used (mesh.rs: "fall back to
\* the cached value instead of leaving my_public_addr unset").
FallsBack == Asleep /\ manual = NoAddr /\ Usable(cached) => mine # NoAddr

\* Once the NAT, the network and the user have settled, the address in use
\* becomes and stays the right one (mesh.rs: "the mesh self-heals").
RightAddress == mine = IF manual # NoAddr THEN manual ELSE nat
EventuallyRight == <>[]calm => <>[](~running \/ RightAddress)

\* The ticker ends once the mesh is stopped for good.
StopEnds == <>[]~running => <>At("done")

(* The inductive invariant of OwnAnswer and ManualWins.                     *)

\* What is in the box, and what may still be put there, answers the request
\* in hand; whoever has an answer has given up the slot.
AnswersAreOwn ==
  /\ \A m \in net : m.tx = slot =>
       /\ nat \in window
       /\ m.kind = "response" => m.addr \in window
  /\ box # NoAddr => box \in window /\ slot = NoTx
  /\ At("store") => stun.addr \in window /\ slot = NoTx /\ box = NoAddr

\* As long as no wake-up is on its way, the ticker goes by the manual address
\* there is now.
FollowsManual ==
  gui.pc = "idle" /\ wakes = 0 /\ manual # NoAddr =>
    /\ stun.pc \notin {"send", "wait", "clear", "store", "cache", "failed"}
    /\ stun.pc \in {"manual", "manual store"} => stun.addr = manual
    /\ At("burst") => stun.next # "cache"
    /\ At("sleep") \/ (At("burst") /\ stun.next = "sleep") => mine = manual

IInv == TypeOK /\ AnswersAreOwn /\ FollowsManual
=============================================================================
