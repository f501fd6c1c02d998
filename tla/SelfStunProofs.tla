--------------------------- MODULE SelfStunProofs ---------------------------
(***************************************************************************)
(* Theorems of SelfStun, for any addresses, transaction ids, number of     *)
(* servers and bounds.                                                     *)
(***************************************************************************)
EXTENDS SelfStun, TLAPS

LEMMA FreshFacts ==
  ASSUME NEW pc \in Pc
  PROVE  /\ Fresh(pc) \in Ticker /\ Fresh(pc).pc = pc
         /\ Fresh(pc).next = "check" /\ Fresh(pc).server = 1
  BY SelfStunAssumption DEF Fresh, Ticker, OptAddr

LEMMA TickerFacts ==
  ASSUME TypeOK
  PROVE  /\ stun.pc \in Pc /\ stun.next \in {"check", "sleep", "cache"}
         /\ stun.server \in 1..Servers /\ stun.tx \in Tx \cup {NoTx} /\ stun.addr \in OptAddr
  BY DEF TypeOK, Ticker

LEMMA CallerFacts ==
  ASSUME TypeOK
  PROVE  /\ gui.pc \in {"idle", "apply", "wake"} /\ gui.addr \in OptAddr
         /\ \A pc \in {"idle", "apply", "wake"} :
              /\ [gui EXCEPT !.pc = pc] \in Caller /\ [gui EXCEPT !.pc = pc].pc = pc
              /\ \A a \in OptAddr : [pc |-> pc, addr |-> a] \in Caller
  BY DEF TypeOK, Caller

\* Only Send and the probe's last step write the slot, the box and the window.
LEMMA AnswersKept ==
  ASSUME AnswersAreOwn, UNCHANGED <<nat, window, slot, box>>, net' \subseteq net,
         At("store")' => At("store") /\ stun'.addr = stun.addr
  PROVE  AnswersAreOwn'
  BY DEF AnswersAreOwn, At

LEMMA FollowsKept ==
  ASSUME FollowsManual, UNCHANGED <<gui, wakes, manual, mine, stun>>
  PROVE  FollowsManual'
  BY DEF FollowsManual, At

\* A call of the user that is not over excuses the ticker.
LEMMA CallExcuses ==
  ASSUME gui'.pc # "idle" \/ wakes' # 0
  PROVE  FollowsManual'
  BY DEF FollowsManual

LEMMA InitInv == Init => IInv
  <1> SUFFICES ASSUME Init PROVE IInv
    OBVIOUS
  <1>1. Fresh("seed") \in Ticker /\ Fresh("seed").pc = "seed"
    BY FreshFacts DEF Pc
  <1>2. gui \in Caller /\ wakes \in 0..MaxWakes
    BY SelfStunAssumption DEF Init, Caller, OptAddr
  <1>3. calm \in BOOLEAN /\ running \in BOOLEAN
    BY Zenon DEF Init
  <1>4. TypeOK
    BY <1>1, <1>2, <1>3 DEF Init, TypeOK, OptAddr
  <1>5. AnswersAreOwn
    BY <1>1 DEF Init, AnswersAreOwn, At
  <1>6. FollowsManual
    BY <1>1 DEF Init, FollowsManual, At
  <1> QED
    BY <1>4, <1>5, <1>6 DEF IInv

-----------------------------------------------------------------------------
(* The environment and the user.                                            *)

LEMMA SettleStep ==
  ASSUME IInv, Settle
  PROVE  IInv'
  <1>1. TypeOK'
    BY DEF IInv, TypeOK, Settle
  <1>2. AnswersAreOwn'
    BY AnswersKept DEF IInv, Settle, At
  <1>3. FollowsManual'
    BY FollowsKept DEF IInv, Settle
  <1> QED
    BY <1>1, <1>2, <1>3 DEF IInv

LEMMA GossipTickStep ==
  ASSUME IInv, GossipTick
  PROVE  IInv'
  <1>1. TypeOK'
    BY DEF IInv, TypeOK, GossipTick
  <1>2. AnswersAreOwn'
    BY AnswersKept DEF IInv, GossipTick, At
  <1>3. FollowsManual'
    BY FollowsKept DEF IInv, GossipTick
  <1> QED
    BY <1>1, <1>2, <1>3 DEF IInv

LEMMA StopStep ==
  ASSUME IInv, Stop
  PROVE  IInv'
  <1>1. TypeOK'
    BY DEF IInv, TypeOK, Stop
  <1>2. AnswersAreOwn'
    BY AnswersKept DEF IInv, Stop, At
  <1>3. FollowsManual'
    BY FollowsKept DEF IInv, Stop
  <1> QED
    BY <1>1, <1>2, <1>3 DEF IInv

LEMMA LoseStep ==
  ASSUME IInv, NEW m \in net, Lose(m)
  PROVE  IInv'
  <1>1. TypeOK'
    BY DEF IInv, TypeOK, Lose
  <1>2. AnswersAreOwn'
    BY AnswersKept DEF IInv, Lose, At
  <1>3. FollowsManual'
    BY FollowsKept DEF IInv, Lose
  <1> QED
    BY <1>1, <1>2, <1>3 DEF IInv

LEMMA RemapStep ==
  ASSUME IInv, Remap
  PROVE  IInv'
  <1>1. TypeOK'
    BY DEF IInv, TypeOK, Remap
  <1>2. AnswersAreOwn'
    BY DEF IInv, AnswersAreOwn, Remap, At
  <1>3. FollowsManual'
    BY FollowsKept DEF IInv, Remap
  <1> QED
    BY <1>1, <1>2, <1>3 DEF IInv

LEMMA ServeStep ==
  ASSUME IInv, NEW m \in net, Serve(m)
  PROVE  IInv'
  <1> DEFINE r == [kind |-> "response", tx |-> m.tx, addr |-> nat]
  <1>1. m.tx \in Tx /\ nat \in Addr /\ net' = (net \ {m}) \cup {r}
    BY DEF IInv, TypeOK, Message, Serve
  <1>2. r \in Message /\ r.tx = m.tx /\ r.addr = nat
    BY <1>1 DEF Message, OptAddr
  <1> HIDE DEF r
  <1>3. TypeOK'
    BY <1>1, <1>2 DEF IInv, TypeOK, Serve
  <1>4. AnswersAreOwn'
    BY <1>1, <1>2 DEF IInv, AnswersAreOwn, Serve, At
  <1>5. FollowsManual'
    BY FollowsKept DEF IInv, Serve
  <1> QED
    BY <1>3, <1>4, <1>5 DEF IInv

LEMMA DeliverStep ==
  ASSUME IInv, NEW m \in net, Deliver(m)
  PROVE  IInv'
  <1>1. m.tx \in Tx /\ m.addr \in OptAddr /\ net' \subseteq net
    BY DEF IInv, TypeOK, Message, Deliver
  <1>2. TypeOK'
    <2>1. box' \in OptAddr /\ slot' \in Tx \cup {NoTx}
      BY <1>1 DEF IInv, TypeOK, Deliver
    <2>2. net' \subseteq Message
      BY <1>1 DEF IInv, TypeOK
    <2> QED
      BY <2>1, <2>2 DEF IInv, TypeOK, Deliver
  <1>3. AnswersAreOwn'
    <2>1. CASE m.tx = slot
      <3>1. box' = m.addr /\ slot' = NoTx /\ m.addr \in window /\ slot # NoTx
        BY <1>1, <2>1, SelfStunAssumption DEF IInv, AnswersAreOwn, Deliver
      <3>2. \A k \in net' : k.tx # slot'
        BY <1>1, <3>1, SelfStunAssumption DEF IInv, TypeOK, Message
      <3> QED
        BY <3>1, <3>2 DEF IInv, AnswersAreOwn, Deliver, At
    <2>2. CASE m.tx # slot
      BY <1>1, <2>2, AnswersKept DEF IInv, Deliver, At
    <2> QED
      BY <2>1, <2>2
  <1>4. FollowsManual'
    BY FollowsKept DEF IInv, Deliver
  <1> QED
    BY <1>2, <1>3, <1>4 DEF IInv

LEMMA CallStep ==
  ASSUME IInv, NEW k \in Manual \cup {NoAddr}, NEW c \in OptAddr, NEW a \in OptAddr, Call(k, c, a)
  PROVE  IInv'
  <1>1. gui' \in Caller /\ gui'.pc = "apply"
    BY CallerFacts DEF IInv, Call
  <1>2. TypeOK'
    BY <1>1 DEF IInv, TypeOK, Call
  <1>3. AnswersAreOwn'
    BY AnswersKept DEF IInv, Call, At
  <1>4. FollowsManual'
    BY <1>1, CallExcuses
  <1> QED
    BY <1>2, <1>3, <1>4 DEF IInv

LEMMA UserStep ==
  ASSUME IInv, SetManual \/ ClearManual \/ Reset
  PROVE  IInv'
  <1>1. manual \in Manual \cup {NoAddr} /\ cached \in OptAddr /\ NoAddr \in OptAddr
    BY DEF IInv, TypeOK, OptAddr
  <1>2. \A a \in Manual : a \in OptAddr
    BY SelfStunAssumption DEF OptAddr
  <1>3. CASE SetManual
    BY <1>1, <1>2, <1>3, CallStep DEF SetManual
  <1>4. CASE ClearManual
    BY <1>1, <1>4, CallStep DEF ClearManual
  <1>5. CASE Reset
    BY <1>1, <1>5, CallStep DEF Reset
  <1> QED
    BY <1>3, <1>4, <1>5

LEMMA ApplyStep ==
  ASSUME IInv, Apply
  PROVE  IInv'
  <1>1. gui' \in Caller /\ gui'.pc = "wake" /\ mine' \in OptAddr
    BY CallerFacts DEF IInv, Apply
  <1>2. TypeOK'
    BY <1>1 DEF IInv, TypeOK, Apply
  <1>3. AnswersAreOwn'
    BY AnswersKept DEF IInv, Apply, At
  <1>4. FollowsManual'
    BY <1>1, CallExcuses
  <1> QED
    BY <1>2, <1>3, <1>4 DEF IInv

LEMMA WakeStep ==
  ASSUME IInv, Wake
  PROVE  IInv'
  <1>1. gui' \in Caller /\ wakes' \in 0..MaxWakes /\ wakes' # 0
    <2>1. gui' \in Caller
      BY CallerFacts DEF IInv, Wake
    <2> QED
      BY <2>1, SelfStunAssumption DEF IInv, TypeOK, Wake
  <1>2. TypeOK'
    BY <1>1 DEF IInv, TypeOK, Wake
  <1>3. AnswersAreOwn'
    BY AnswersKept DEF IInv, Wake, At
  <1>4. FollowsManual'
    BY <1>1, CallExcuses
  <1> QED
    BY <1>2, <1>3, <1>4 DEF IInv

LEMMA RestartStep ==
  ASSUME IInv, Restart
  PROVE  IInv'
  <1>1. stun' \in Ticker /\ stun'.pc = "seed"
    BY FreshFacts DEF Restart, Pc
  <1>2. gui' \in Caller /\ wakes' \in 0..MaxWakes
    BY SelfStunAssumption DEF Restart, Caller, OptAddr
  <1>3. TypeOK'
    <2>1. running' \in BOOLEAN
      BY Zenon DEF Restart
    <2> QED
      BY <1>1, <1>2, <2>1 DEF IInv, TypeOK, Restart, OptAddr
  <1>4. AnswersAreOwn'
    <2>1. \A m \in net' : m.tx # slot'
      BY SelfStunAssumption DEF IInv, TypeOK, Message, Restart
    <2> QED
      BY <1>1, <2>1 DEF AnswersAreOwn, Restart, At
  <1>5. FollowsManual'
    BY <1>1 DEF FollowsManual, At
  <1> QED
    BY <1>3, <1>4, <1>5 DEF IInv

-----------------------------------------------------------------------------
(* The ticker.                                                              *)

LEMMA SeedStep ==
  ASSUME IInv, Seed
  PROVE  IInv'
  <1>1. stun' \in Ticker /\ stun'.pc \in {"seed store", "check"}
    BY TickerFacts DEF IInv, TypeOK, Ticker, Seed, Go, Pc
  <1>2. TypeOK'
    BY <1>1 DEF IInv, TypeOK, Seed, Rest
  <1>3. AnswersAreOwn'
    BY <1>1, AnswersKept DEF IInv, Seed, At, Rest
  <1>4. FollowsManual'
    BY <1>1 DEF FollowsManual, At
  <1> QED
    BY <1>2, <1>3, <1>4 DEF IInv

LEMMA SeedStoreStep ==
  ASSUME IInv, SeedStore
  PROVE  IInv'
  <1>1. stun' \in Ticker /\ stun'.pc = "burst" /\ stun'.next = "check"
    BY TickerFacts DEF IInv, TypeOK, Ticker, SeedStore, Pc
  <1>2. TypeOK'
    BY <1>1, TickerFacts DEF IInv, TypeOK, SeedStore, Rest
  <1>3. AnswersAreOwn'
    BY <1>1, AnswersKept DEF IInv, SeedStore, At, Rest
  <1>4. FollowsManual'
    BY <1>1 DEF FollowsManual, At
  <1> QED
    BY <1>2, <1>3, <1>4 DEF IInv

LEMMA CheckStep ==
  ASSUME IInv, Check
  PROVE  IInv'
  <1>1. /\ stun' \in Ticker /\ stun'.pc \in {"done", "manual", "send"}
        /\ stun'.pc = "manual" => stun'.addr = manual
        /\ stun'.pc = "send" => manual = NoAddr
    <2>1. manual \in OptAddr
      BY SelfStunAssumption DEF IInv, TypeOK, OptAddr
    <2> QED
      BY <2>1, TickerFacts DEF IInv, TypeOK, Ticker, Check, Pc
  <1>2. TypeOK'
    BY <1>1 DEF IInv, TypeOK, Check, Rest
  <1>3. AnswersAreOwn'
    BY <1>1, AnswersKept DEF IInv, Check, At, Rest
  <1>4. FollowsManual'
    BY <1>1 DEF FollowsManual, Check, Rest, At
  <1> QED
    BY <1>2, <1>3, <1>4 DEF IInv

LEMMA ManualSameStep ==
  ASSUME IInv, ManualSame
  PROVE  IInv'
  <1>1. /\ At("manual") /\ stun' \in Ticker
        /\ \/ stun'.pc = "manual store" /\ stun'.addr = stun.addr
           \/ stun'.pc = "sleep" /\ mine = stun.addr
    <2>1. TypeOK /\ At("manual") /\ stun \in Ticker /\ "sleep" \in Pc /\ "manual store" \in Pc
      BY DEF IInv, TypeOK, ManualSame, Pc
    <2>2. CASE mine # stun.addr
      <3>1. stun' = [stun EXCEPT !.pc = "manual store"]
        BY <2>2 DEF ManualSame
      <3> QED
        BY <2>1, <3>1 DEF Ticker
    <2>3. CASE mine = stun.addr
      <3>1. stun' = Fresh("sleep")
        BY <2>3 DEF ManualSame
      <3> QED
        BY <2>1, <2>3, <3>1, FreshFacts
    <2> QED
      BY <2>2, <2>3
  <1>2. TypeOK'
    BY <1>1 DEF IInv, TypeOK, ManualSame, Rest
  <1>3. AnswersAreOwn'
    BY <1>1, AnswersKept DEF IInv, ManualSame, At, Rest
  <1>4. FollowsManual'
    BY <1>1 DEF IInv, FollowsManual, ManualSame, Rest, At
  <1> QED
    BY <1>2, <1>3, <1>4 DEF IInv

LEMMA ManualStoreStep ==
  ASSUME IInv, ManualStore
  PROVE  IInv'
  <1>1. /\ At("manual store") /\ stun' \in Ticker /\ stun'.pc = "burst"
        /\ stun'.next = "sleep" /\ stun'.addr = stun.addr
    BY TickerFacts DEF IInv, TypeOK, Ticker, ManualStore, Pc
  <1>2. TypeOK'
    BY <1>1, TickerFacts DEF IInv, TypeOK, ManualStore, Rest
  <1>3. AnswersAreOwn'
    BY <1>1, AnswersKept DEF IInv, ManualStore, At, Rest
  <1>4. FollowsManual'
    BY <1>1 DEF IInv, FollowsManual, ManualStore, Rest, At
  <1> QED
    BY <1>2, <1>3, <1>4 DEF IInv

LEMMA NextServerFacts ==
  ASSUME TypeOK, NextServer
  PROVE  stun' \in Ticker /\ stun'.pc \in {"send", "failed"}
  <1>1. CASE stun.server < Servers
    <2>1. stun.server + 1 \in 1..Servers
      BY <1>1, TickerFacts, SelfStunAssumption
    <2>2. Fresh("send") \in Ticker /\ Fresh("send").pc = "send"
      BY FreshFacts DEF Pc
    <2>3. stun' = [Fresh("send") EXCEPT !.server = stun.server + 1]
      BY <1>1 DEF NextServer
    <2> QED
      BY <2>1, <2>2, <2>3 DEF Ticker
  <1>2. CASE ~(stun.server < Servers)
    BY <1>2, FreshFacts DEF NextServer, Pc
  <1> QED
    BY <1>1, <1>2

LEMMA UnresolvedStep ==
  ASSUME IInv, Unresolved
  PROVE  IInv'
  <1>1. At("send") /\ stun' \in Ticker /\ stun'.pc \in {"send", "failed"}
    BY NextServerFacts DEF IInv, Unresolved
  <1>2. TypeOK'
    BY <1>1 DEF IInv, TypeOK, Unresolved, Rest
  <1>3. AnswersAreOwn'
    BY <1>1, AnswersKept DEF IInv, Unresolved, At, Rest
  <1>4. FollowsManual'
    BY <1>1 DEF IInv, FollowsManual, Unresolved, Rest, At
  <1> QED
    BY <1>2, <1>3, <1>4 DEF IInv

LEMMA SendStep ==
  ASSUME IInv, NEW x \in Tx, Send(x)
  PROVE  IInv'
  <1> DEFINE r == [kind |-> "request", tx |-> x, addr |-> NoAddr]
             sent == net' = net \cup {r} /\ window' = {nat}
  <1>1. /\ At("send") /\ slot' = x /\ box' = NoAddr /\ \A m \in net : m.tx # x
        /\ sent \/ UNCHANGED <<net, window>>
        /\ UNCHANGED <<calm, running, nat, manual, gui, cached, mine, announced, wakes>>
    BY DEF Send
  <1>2. stun' \in Ticker /\ stun'.pc \in {"send", "failed", "wait"}
    <2>1. CASE stun' = [stun EXCEPT !.pc = "wait", !.tx = x]
      BY <2>1, TickerFacts DEF IInv, TypeOK, Ticker, Pc
    <2>2. CASE NextServer
      BY <2>2, NextServerFacts DEF IInv
    <2> QED
      BY <2>1, <2>2 DEF Send
  <1>3. r \in Message /\ r.tx = x /\ r.kind = "request"
    BY DEF Message, OptAddr
  <1> HIDE DEF r
  <1>4. TypeOK'
    <2>1. net' \subseteq Message /\ window' \subseteq Addr
      BY <1>1, <1>3 DEF IInv, TypeOK
    <2> QED
      BY <1>1, <1>2, <2>1 DEF IInv, TypeOK, OptAddr
  <1>5. AnswersAreOwn'
    <2>1. \A m \in net' : m.tx = slot' => nat' \in window' /\ m.kind = "request"
      BY <1>1, <1>3
    <2> QED
      BY <1>1, <1>2, <2>1 DEF AnswersAreOwn, At
  <1>6. FollowsManual'
    BY <1>1, <1>2 DEF IInv, FollowsManual, At
  <1> QED
    BY <1>4, <1>5, <1>6 DEF IInv

LEMMA AnsweredStep ==
  ASSUME IInv, Answered
  PROVE  IInv'
  <1>1. /\ At("wait") /\ stun' \in Ticker /\ stun'.pc = "store" /\ stun'.addr = box
        /\ box # NoAddr
    BY TickerFacts DEF IInv, TypeOK, Ticker, Answered, Pc
  <1>2. TypeOK'
    BY <1>1 DEF IInv, TypeOK, Answered, Rest, OptAddr
  <1>3. AnswersAreOwn'
    BY <1>1 DEF IInv, AnswersAreOwn, Answered, Rest, At
  <1>4. FollowsManual'
    BY <1>1 DEF IInv, FollowsManual, Answered, Rest, At
  <1> QED
    BY <1>2, <1>3, <1>4 DEF IInv

LEMMA TimedOutStep ==
  ASSUME IInv, TimedOut
  PROVE  IInv'
  <1>1. At("wait") /\ stun' \in Ticker /\ stun'.pc = "clear"
    BY TickerFacts DEF IInv, TypeOK, Ticker, TimedOut, Go, Pc
  <1>2. TypeOK'
    BY <1>1 DEF IInv, TypeOK, TimedOut, Rest
  <1>3. AnswersAreOwn'
    BY <1>1, AnswersKept DEF IInv, TimedOut, At, Rest
  <1>4. FollowsManual'
    BY <1>1 DEF IInv, FollowsManual, TimedOut, Rest, At
  <1> QED
    BY <1>2, <1>3, <1>4 DEF IInv

LEMMA ClearStep ==
  ASSUME IInv, Clear
  PROVE  IInv'
  <1>1. At("clear") /\ stun' \in Ticker /\ stun'.pc \in {"send", "failed"}
    BY NextServerFacts DEF IInv, Clear
  <1>2. TypeOK'
    BY <1>1 DEF IInv, TypeOK, Clear, Rest, OptAddr
  <1>3. AnswersAreOwn'
    <2>1. \A m \in net' : m.tx # slot'
      BY SelfStunAssumption DEF IInv, TypeOK, Message, Clear
    <2> QED
      BY <1>1, <2>1 DEF AnswersAreOwn, Clear, At
  <1>4. FollowsManual'
    BY <1>1 DEF IInv, FollowsManual, Clear, At
  <1> QED
    BY <1>2, <1>3, <1>4 DEF IInv

LEMMA StoreStep ==
  ASSUME IInv, Store
  PROVE  IInv'
  <1>1. /\ At("store") /\ stun' \in Ticker
        /\ stun'.pc = "cache" \/ (stun'.pc = "burst" /\ stun'.next = "cache")
    <2>1. "burst" \in Pc /\ "cache" \in Pc
      BY DEF Pc
    <2>2. \E pc \in {"burst", "cache"} :
            At("store") /\ stun' = [stun EXCEPT !.pc = pc, !.next = "cache"]
      BY DEF Store
    <2> QED
      BY <2>1, <2>2, TickerFacts DEF IInv, TypeOK, Ticker
  <1>2. TypeOK'
    BY <1>1, TickerFacts DEF IInv, TypeOK, Store, Rest
  <1>3. AnswersAreOwn'
    <2>1. \A m \in net' : m.tx # slot'
      BY <1>1, SelfStunAssumption DEF IInv, TypeOK, Message, AnswersAreOwn, Store
    <2>2. box' = NoAddr /\ ~At("store")'
      BY <1>1 DEF IInv, AnswersAreOwn, Store, At
    <2> QED
      BY <2>1, <2>2 DEF AnswersAreOwn
  <1>4. FollowsManual'
    BY <1>1 DEF IInv, FollowsManual, Store, At
  <1> QED
    BY <1>2, <1>3, <1>4 DEF IInv

LEMMA BurstStep ==
  ASSUME IInv, Burst
  PROVE  IInv'
  <1>1. /\ At("burst") /\ stun' \in Ticker
        /\ \/ stun.next = "cache" /\ stun'.pc = "cache"
           \/ stun.next # "cache" /\ stun'.pc = stun.next
    <2>1. CASE stun.next = "cache"
      BY <2>1, TickerFacts DEF IInv, TypeOK, Ticker, Burst, Pc
    <2>2. CASE stun.next # "cache"
      <3>1. stun.next \in Pc /\ stun' = Fresh(stun.next) /\ At("burst")
        BY <2>2, TickerFacts DEF IInv, Burst, Pc
      <3> QED
        BY <2>2, <3>1, FreshFacts
    <2> QED
      BY <2>1, <2>2
  <1>2. TypeOK'
    BY <1>1 DEF IInv, TypeOK, Burst, Rest
  <1>3. AnswersAreOwn'
    BY <1>1, TickerFacts, AnswersKept DEF IInv, Burst, Rest, At
  <1>4. FollowsManual'
    BY <1>1, TickerFacts DEF IInv, FollowsManual, Burst, Rest, At
  <1> QED
    BY <1>2, <1>3, <1>4 DEF IInv

LEMMA CacheStep ==
  ASSUME IInv, Cache
  PROVE  IInv'
  <1>1. /\ At("cache") /\ stun' \in Ticker /\ stun'.pc = "sleep" /\ cached' \in OptAddr
    BY FreshFacts, TickerFacts DEF IInv, TypeOK, Cache, Pc
  <1>2. TypeOK'
    BY <1>1 DEF IInv, TypeOK, Cache, Rest
  <1>3. AnswersAreOwn'
    BY <1>1, AnswersKept DEF IInv, Cache, At, Rest
  <1>4. FollowsManual'
    BY <1>1 DEF IInv, FollowsManual, Cache, Rest, At
  <1> QED
    BY <1>2, <1>3, <1>4 DEF IInv

LEMMA FailedStep ==
  ASSUME IInv, Failed
  PROVE  IInv'
  <1>1. At("failed") /\ stun' \in Ticker /\ stun'.pc = "sleep"
    BY FreshFacts DEF IInv, Failed, Pc
  <1>2. TypeOK'
    BY <1>1 DEF IInv, TypeOK, Failed, Rest
  <1>3. AnswersAreOwn'
    BY <1>1, AnswersKept DEF IInv, Failed, At, Rest
  <1>4. FollowsManual'
    BY <1>1 DEF IInv, FollowsManual, Failed, Rest, At
  <1> QED
    BY <1>2, <1>3, <1>4 DEF IInv

LEMMA WakeUpStep ==
  ASSUME IInv, WakeUp
  PROVE  IInv'
  <1>1. stun' \in Ticker /\ stun'.pc = "check" /\ wakes' \in 0..MaxWakes
    <2>1. stun' \in Ticker /\ stun'.pc = "check"
      BY TickerFacts DEF IInv, TypeOK, Ticker, WakeUp, Go, Pc
    <2> QED
      BY <2>1, SelfStunAssumption DEF IInv, TypeOK, WakeUp
  <1>2. TypeOK'
    BY <1>1 DEF IInv, TypeOK, WakeUp, Rest
  <1>3. AnswersAreOwn'
    BY <1>1, AnswersKept DEF IInv, WakeUp, At, Rest
  <1>4. FollowsManual'
    BY <1>1 DEF FollowsManual, At
  <1> QED
    BY <1>2, <1>3, <1>4 DEF IInv

-----------------------------------------------------------------------------
(* The invariant and what follows from it.                                  *)

LEMMA NextInv == IInv /\ [Next]_vars => IInv'
  <1> SUFFICES ASSUME IInv, [Next]_vars PROVE IInv'
    OBVIOUS
  <1>1. CASE UNCHANGED vars
    BY <1>1 DEF vars, IInv, TypeOK, AnswersAreOwn, FollowsManual, At
  <1>2. CASE Settle \/ Remap \/ GossipTick \/ Stop \/ Restart
    BY <1>2, SettleStep, RemapStep, GossipTickStep, StopStep, RestartStep
  <1>3. CASE \E m \in net : Serve(m) \/ Lose(m) \/ Deliver(m)
    BY <1>3, ServeStep, LoseStep, DeliverStep
  <1>4. CASE SetManual \/ ClearManual \/ Reset \/ Apply \/ Wake
    BY <1>4, UserStep, ApplyStep, WakeStep
  <1>5. CASE Tick
    BY <1>5, SeedStep, SeedStoreStep, CheckStep, ManualSameStep, ManualStoreStep,
       UnresolvedStep, SendStep, AnsweredStep, TimedOutStep, ClearStep, StoreStep,
       BurstStep, CacheStep, FailedStep, WakeUpStep DEF Tick
  <1> QED
    BY <1>1, <1>2, <1>3, <1>4, <1>5 DEF Next

LEMMA AlwaysIInv == Spec => []IInv
  BY InitInv, NextInv, PTL DEF Spec

\* Every variable keeps its type.
THEOREM TypeCorrect == Spec => []TypeOK
  BY AlwaysIInv, PTL DEF IInv

\* Whatever the network delays, duplicates or loses, the ticker adopts only a
\* mapping the NAT has had since the request in hand was sent (mesh.rs
\* SelfStunWaiter).
THEOREM OwnAnswerHolds == Spec => []OwnAnswer
  <1>1. IInv => OwnAnswer
    BY DEF IInv, AnswersAreOwn, OwnAnswer
  <1> QED
    BY <1>1, AlwaysIInv, PTL

\* Whenever the user's calls and the ticker's rounds interleave, a ticker that
\* sleeps with no wake-up queued has adopted the manual address (mesh.rs
\* set_manual_public_addr, clear_manual_public_addr, reset_public_addr).
THEOREM ManualWinsHolds == Spec => []ManualWins
  <1>1. IInv => ManualWins
    BY DEF IInv, FollowsManual, ManualWins, Asleep, At
  <1> QED
    BY <1>1, AlwaysIInv, PTL
=============================================================================
