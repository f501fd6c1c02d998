---------------------------- MODULE ExternalProofs ----------------------------
(***************************************************************************)
(* Theorems of the two parts of the mesh that drive another program by its *)
(* command line and answer for what that program keeps: Storage (curl, for *)
(* any members, documents and attempts, and both adapters) and Warp        *)
(* (warp-cli, for any meshes, addresses and servers).  The two have no     *)
(* variable in common.                                                     *)
(***************************************************************************)
EXTENDS Storage, Warp, FiniteSetTheorems, TLAPS

-----------------------------------------------------------------------------
(* Storage.                                                                 *)

USE DEF InCall

LEMMA CallFacts ==
  ASSUME TypeOK, NEW w \in Writer
  PROVE  /\ call[w] \in Call
         /\ call[w].pc \in {"idle", "read", "wait", "stored", "conflict"}
         /\ call[w].doc \in OptDoc /\ call[w].base \in OptDoc
         /\ call[w].tries \in 0..(Attempts - 1) /\ call[w].others \in SUBSET Doc
  BY DEF TypeOK, Call

LEMMA NoCallFacts ==
  /\ NoCall \in Call /\ NoCall.pc = "idle" /\ NoCall.tries = 0 /\ NoCall.others = {}
  BY StorageAssumption DEF NoCall, Call, OptDoc

LEMMA RequestFacts ==
  ASSUME TypeOK, NEW r \in net
  PROVE  /\ r.by \in Writer /\ r.doc \in Doc /\ r.sha \in OptDoc
         /\ r.try \in 0..(Attempts - 1) /\ r.base \in OptDoc
  BY DEF TypeOK, Request

LEMMA InitInv == Init => IInv
  <1> SUFFICES ASSUME Init PROVE IInv
    OBVIOUS
  <1>1. TypeOK
    BY NoCallFacts DEF Init, TypeOK, OptDoc
  <1>2. CallsOwnDocs /\ NetSound /\ LandedSound /\ MantleSimple /\ StaleIsCounted
    BY NoCallFacts DEF Init, CallsOwnDocs, NetSound, LandedSound, MantleSimple, StaleIsCounted
  <1>3. OthersLanded /\ ConflictsAreReal
    BY NoCallFacts, FS_EmptySet DEF Init, OthersLanded, ConflictsAreReal
  <1> QED
    BY <1>1, <1>2, <1>3 DEF IInv

-----------------------------------------------------------------------------
(* The call's end, for any of its reasons.                                  *)

LEMMA EndFacts ==
  ASSUME IInv, NEW w \in Writer, InCall(w), NEW result \in {"ok", "error", "contention"},
         End(w, result)
  PROVE  /\ outcome' \in [Doc -> {"new", "pending", "ok", "error", "contention"}]
         /\ call' \in [Writer -> Call]
         /\ outcome'[call[w].doc] = result /\ call[w].doc \in Doc
         /\ \A d \in Doc : d # call[w].doc => outcome'[d] = outcome[d]
         /\ call'[w] = NoCall
         /\ \A x \in Writer : x # w => call'[x] = call[x]
  BY NoCallFacts DEF IInv, TypeOK, CallsOwnDocs, End

LEMMA EndStep ==
  ASSUME IInv, NEW w \in Writer, InCall(w), NEW result \in {"ok", "error", "contention"},
         result = "ok" => call[w].pc = "stored",
         End(w, result), UNCHANGED <<kind, file, net, landed>>
  PROVE  IInv'
  <1>0. /\ outcome' \in [Doc -> {"new", "pending", "ok", "error", "contention"}]
        /\ call' \in [Writer -> Call]
        /\ outcome'[call[w].doc] = result /\ call[w].doc \in Doc
        /\ \A d \in Doc : d # call[w].doc => outcome'[d] = outcome[d]
        /\ call'[w] = NoCall
        /\ \A x \in Writer : x # w => call'[x] = call[x]
    BY EndFacts
  <1>1. TypeOK'
    BY <1>0 DEF IInv, TypeOK
  <1>2. CallsOwnDocs'
    BY <1>0, NoCallFacts DEF IInv, CallsOwnDocs
  <1>3. NetSound'
    <2> SUFFICES ASSUME NEW r \in net
                 PROVE  /\ r.doc \notin landed
                        /\ outcome'[r.doc] \in {"pending", "error", "contention"}
                        /\ \A q \in net : q.doc = r.doc => q = r
                        /\ \A x \in Writer :
                             call'[x].pc # "idle" /\ call'[x].doc = r.doc =>
                               r.by = x /\ r.try = call'[x].tries /\ call'[x].pc = "wait"
      BY DEF NetSound
    <2>1. r.doc \in Doc
      BY RequestFacts DEF IInv
    <2>2. call[w].pc = "stored" => r.doc # call[w].doc
      BY DEF IInv, CallsOwnDocs, NetSound
    <2> QED
      BY <1>0, <2>1, <2>2, NoCallFacts DEF IInv, NetSound
  <1>4. LandedSound'
    BY <1>0 DEF IInv, LandedSound, CallsOwnDocs
  <1>5. MantleSimple' /\ OthersLanded'
    BY <1>0, NoCallFacts, FS_EmptySet DEF IInv, MantleSimple, OthersLanded
  <1>6. StaleIsCounted'
    BY <1>0, NoCallFacts, RequestFacts DEF IInv, StaleIsCounted, Waiting
  <1>7. ConflictsAreReal'
    BY <1>0, NoCallFacts DEF IInv, ConflictsAreReal
  <1> QED
    BY <1>1, <1>2, <1>3, <1>4, <1>5, <1>6, <1>7 DEF IInv

-----------------------------------------------------------------------------
(* The client's steps.                                                      *)

LEMMA PublishStep ==
  ASSUME IInv, NEW w \in Writer, NEW d \in Doc, Publish(w, d)
  PROVE  IInv'
  <1> DEFINE c == [pc |-> IF kind = "github" THEN "read" ELSE "wait", doc |-> d, tries |-> 0,
                   base |-> file, others |-> {}]
  <1>0. /\ c \in Call /\ c.pc = (IF kind = "github" THEN "read" ELSE "wait") /\ c.doc = d
        /\ c.tries = 0 /\ c.others = {} /\ call[w].pc = "idle" /\ outcome[d] = "new"
    <2>1. call[w].pc = "idle" /\ outcome[d] = "new"
      BY DEF Publish
    <2>2. file \in OptDoc /\ d \in OptDoc /\ 0 \in 0..(Attempts - 1) /\ {} \in SUBSET Doc
      BY StorageAssumption DEF OptDoc, IInv, TypeOK
    <2>3. (IF kind = "github" THEN "read" ELSE "wait") \in
            {"idle", "read", "wait", "stored", "conflict"}
      OBVIOUS
    <2>4. c \in Call
      BY <2>2, <2>3 DEF Call
    <2> QED
      BY <2>1, <2>4
  <1> HIDE DEF c
  <1>1. CASE d \in TooBig
    <2>1. /\ outcome' = [outcome EXCEPT ![d] = "error"]
          /\ UNCHANGED <<kind, file, net, call, landed>>
      BY <1>1 DEF Publish
    <2>2. outcome' \in [Doc -> {"new", "pending", "ok", "error", "contention"}]
          /\ outcome'[d] = "error" /\ \A e \in Doc : e # d => outcome'[e] = outcome[e]
      BY <2>1 DEF IInv, TypeOK
    <2>3. TypeOK'
      BY <2>1, <2>2 DEF IInv, TypeOK
    <2>4. CallsOwnDocs'
      BY <1>0, <2>1, <2>2 DEF IInv, CallsOwnDocs
    <2>5. NetSound'
      BY <1>0, <2>1, <2>2, RequestFacts DEF IInv, NetSound
    <2>6. LandedSound' /\ MantleSimple' /\ OthersLanded' /\ StaleIsCounted' /\ ConflictsAreReal'
      BY <1>0, <2>1, <2>2
      DEF IInv, LandedSound, MantleSimple, OthersLanded, StaleIsCounted, ConflictsAreReal, Waiting
    <2> QED
      BY <2>3, <2>4, <2>5, <2>6 DEF IInv
  <1>2. CASE d \notin TooBig
    <2>1. /\ outcome' = [outcome EXCEPT ![d] = "pending"]
          /\ call' = [call EXCEPT ![w] = c]
          /\ IF kind = "github" THEN UNCHANGED net ELSE Put(w, c, NoDoc)
          /\ UNCHANGED <<kind, file, landed>>
      BY <1>2 DEF Publish, c
    <2> DEFINE q == [by |-> w, doc |-> d, sha |-> NoDoc, try |-> 0, base |-> file]
    <2>2. /\ outcome' \in [Doc -> {"new", "pending", "ok", "error", "contention"}]
          /\ outcome'[d] = "pending" /\ \A e \in Doc : e # d => outcome'[e] = outcome[e]
          /\ call' \in [Writer -> Call] /\ call'[w] = c
          /\ \A x \in Writer : x # w => call'[x] = call[x]
      BY <1>0, <2>1 DEF IInv, TypeOK
    <2>3. c.base = file
      BY DEF c
    <2>4. /\ q \in Request /\ q.by = w /\ q.doc = d /\ q.try = 0 /\ q.sha = NoDoc
          /\ kind = "mantle" => net' = net \cup {q}
          /\ kind = "github" => net' = net
      BY <1>0, <2>1, <2>3, StorageAssumption DEF IInv, TypeOK, Put, Request, OptDoc
    <2> HIDE DEF q
    <2>5. TypeOK'
      BY <2>1, <2>2, <2>4 DEF IInv, TypeOK
    <2>6. \A r \in net : r.doc # d /\ r.doc \in Doc
      BY <1>0, RequestFacts DEF IInv, NetSound
    <2>7. \A x \in Writer : InCall(x) => call[x].doc # d
      BY <1>0 DEF IInv, CallsOwnDocs
    <2>8. d \notin landed /\ kind \in {"github", "mantle"}
      BY <1>0 DEF IInv, LandedSound, TypeOK
    <2>9. CallsOwnDocs'
      BY <1>0, <2>1, <2>2, <2>7, <2>8 DEF IInv, CallsOwnDocs
    <2>10. NetSound'
      <3>1. CASE kind = "github"
        BY <3>1, <1>0, <2>1, <2>2, <2>4, <2>6 DEF IInv, NetSound
      <3>2. CASE kind = "mantle"
        BY <3>2, <1>0, <2>1, <2>2, <2>4, <2>6, <2>7, <2>8 DEF IInv, NetSound
      <3> QED
        BY <3>1, <3>2, <2>8
    <2>11. LandedSound'
      BY <1>0, <2>1, <2>2, <2>8 DEF IInv, LandedSound
    <2>14. MantleSimple'
      BY <1>0, <2>1, <2>2, <2>8 DEF IInv, MantleSimple
    <2>15. ConflictsAreReal'
      <3>1. call'[w].pc # "conflict" /\ call'[w].tries = 0 /\ Cardinality(call'[w].others) = 0
        BY <1>0, <2>2, FS_EmptySet
      <3> QED
        BY <3>1, <2>2 DEF IInv, ConflictsAreReal
    <2>12. OthersLanded'
      BY <1>0, <2>1, <2>2, FS_EmptySet DEF IInv, OthersLanded
    <2>13. StaleIsCounted'
      BY <1>0, <2>1, <2>2, <2>4, <2>6, RequestFacts DEF IInv, StaleIsCounted, Waiting
    <2> QED
      BY <2>5, <2>9, <2>10, <2>11, <2>12, <2>13, <2>14, <2>15 DEF IInv
  <1> QED
    BY <1>1, <1>2

LEMMA ReadStep ==
  ASSUME IInv, NEW w \in Writer, Read(w)
  PROVE  IInv'
  <1> DEFINE c == call[w]
             n == [c EXCEPT !.pc = "wait"]
             q == [by |-> w, doc |-> c.doc, sha |-> file, try |-> c.tries, base |-> c.base]
  <1>0. /\ c.pc = "read" /\ call' = [call EXCEPT ![w] = n] /\ net' = net \cup {q}
        /\ UNCHANGED <<kind, file, outcome, landed>>
    BY DEF Read, Put, IInv, TypeOK
  <1>1. /\ c \in Call /\ c.doc \in Doc /\ c.tries \in 0..(Attempts - 1) /\ c.base \in OptDoc
        /\ outcome[c.doc] = "pending" /\ c.doc \notin landed
        /\ \A x \in Writer : InCall(x) /\ call[x].doc = c.doc => x = w
    BY <1>0, CallFacts DEF IInv, CallsOwnDocs
  <1>2. /\ n \in Call /\ n.pc = "wait" /\ n.doc = c.doc /\ n.tries = c.tries /\ n.others = c.others
        /\ call' \in [Writer -> Call] /\ call'[w] = n
        /\ \A x \in Writer : x # w => call'[x] = call[x]
    BY <1>0, <1>1 DEF IInv, TypeOK, Call
  <1>3. /\ q \in Request /\ q.by = w /\ q.doc = c.doc /\ q.try = c.tries /\ q.sha = file
    BY <1>1 DEF IInv, TypeOK, Request
  <1>4. TypeOK'
    BY <1>0, <1>2, <1>3 DEF IInv, TypeOK
  <1>5. \A r \in net : r.doc # c.doc
    BY <1>0 DEF IInv, NetSound
  <1>6. CallsOwnDocs'
    BY <1>0, <1>1, <1>2 DEF IInv, CallsOwnDocs
  <1>7. NetSound'
    BY <1>0, <1>1, <1>2, <1>3, <1>5 DEF IInv, NetSound
  <1>8. kind # "mantle"
    BY <1>0 DEF IInv, MantleSimple
  <1>9. LandedSound' /\ MantleSimple' /\ OthersLanded' /\ ConflictsAreReal'
    BY <1>0, <1>2, <1>8 DEF IInv, LandedSound, MantleSimple, OthersLanded, ConflictsAreReal
  <1>10. StaleIsCounted'
    BY <1>0, <1>2, <1>3, <1>5, RequestFacts DEF IInv, StaleIsCounted, Waiting
  <1> QED
    BY <1>4, <1>6, <1>7, <1>9, <1>10 DEF IInv

LEMMA RetryStep ==
  ASSUME IInv, NEW w \in Writer, Retry(w)
  PROVE  IInv'
  <1> DEFINE c == call[w]
             n == [c EXCEPT !.pc = "read", !.tries = @ + 1]
  <1>0. /\ c.pc = "conflict" /\ c.tries + 1 < Attempts /\ call' = [call EXCEPT ![w] = n]
        /\ UNCHANGED <<kind, file, net, outcome, landed>>
    BY DEF Retry, IInv, TypeOK
  <1>1. /\ c \in Call /\ c.doc \in Doc /\ c.tries \in 0..(Attempts - 1)
        /\ outcome[c.doc] = "pending" /\ c.doc \notin landed
        /\ \A x \in Writer : InCall(x) /\ call[x].doc = c.doc => x = w
        /\ c.tries + 1 <= Cardinality(c.others)
    BY <1>0, CallFacts DEF IInv, CallsOwnDocs, ConflictsAreReal
  <1>2. /\ n \in Call /\ n.pc = "read" /\ n.doc = c.doc /\ n.tries = c.tries + 1
        /\ n.others = c.others
        /\ call' \in [Writer -> Call] /\ call'[w] = n
        /\ \A x \in Writer : x # w => call'[x] = call[x]
    <2>1. c.tries + 1 \in 0..(Attempts - 1)
      BY <1>0, <1>1, StorageAssumption
    <2>2. n \in Call /\ n.pc = "read" /\ n.doc = c.doc /\ n.tries = c.tries + 1
          /\ n.others = c.others
      BY <2>1, <1>1 DEF Call
    <2> QED
      BY <1>0, <2>2 DEF IInv, TypeOK
  <1>3. TypeOK'
    BY <1>0, <1>2 DEF IInv, TypeOK
  <1>4. \A r \in net : r.doc # c.doc
    BY <1>0 DEF IInv, NetSound
  <1>5. CallsOwnDocs'
    BY <1>0, <1>1, <1>2 DEF IInv, CallsOwnDocs
  <1>6. NetSound'
    BY <1>0, <1>2, <1>4 DEF IInv, NetSound
  <1>7. kind # "mantle"
    BY <1>0 DEF IInv, MantleSimple
  <1>8. n.tries + 0 <= Cardinality(n.others)
    BY <1>1, <1>2
  <1>9. LandedSound' /\ MantleSimple' /\ OthersLanded'
    BY <1>0, <1>2, <1>7 DEF IInv, LandedSound, MantleSimple, OthersLanded
  <1>10. ConflictsAreReal'
    BY <1>0, <1>2, <1>8 DEF IInv, ConflictsAreReal
  <1>11. StaleIsCounted'
    BY <1>0, <1>2, <1>4, RequestFacts DEF IInv, StaleIsCounted, Waiting
  <1> QED
    BY <1>3, <1>5, <1>6, <1>9, <1>10, <1>11 DEF IInv

-----------------------------------------------------------------------------
(* The service.                                                             *)

LEMMA ConflictStep ==
  ASSUME IInv, NEW r \in net, kind # "mantle", r.sha # file,
         net' = net \ {r}, call' = Answered(r, "conflict"),
         UNCHANGED <<kind, file, outcome, landed>>
  PROVE  IInv'
  <1>0. r.by \in Writer /\ r.doc \in Doc
    BY RequestFacts DEF IInv
  <1>1. CASE ~Waiting(r)
    <2>1. call' = call
      BY <1>1 DEF Answered
    <2>2. TypeOK' /\ CallsOwnDocs' /\ NetSound' /\ LandedSound' /\ MantleSimple' /\ OthersLanded'
      BY <2>1
      DEF IInv, TypeOK, CallsOwnDocs, NetSound, LandedSound, MantleSimple, OthersLanded
    <2>3. StaleIsCounted' /\ ConflictsAreReal'
      BY <2>1 DEF IInv, StaleIsCounted, ConflictsAreReal, Waiting
    <2> QED
      BY <2>2, <2>3 DEF IInv
  <1>2. CASE Waiting(r)
    <2> DEFINE w == r.by
               c == call[w]
               n == [c EXCEPT !.pc = "conflict"]
    <2>1. /\ c \in Call /\ c.pc = "wait" /\ c.doc = r.doc /\ c.tries \in Nat
          /\ call' = [call EXCEPT ![w] = n]
      BY <1>0, <1>2, CallFacts DEF Answered, Waiting, IInv, TypeOK
    <2>2. /\ n \in Call /\ n.pc = "conflict" /\ n.doc = c.doc /\ n.tries = c.tries
          /\ n.others = c.others
      BY <2>1 DEF Call
    <2>3. /\ call' \in [Writer -> Call] /\ call'[w] = n
          /\ \A x \in Writer : x # w => call'[x] = call[x]
      BY <1>0, <2>1, <2>2 DEF IInv, TypeOK
    <2>4. c.tries + 1 <= Cardinality(c.others)
      BY <1>2 DEF IInv, TypeOK, StaleIsCounted
    <2>5. \A q \in net' : q \in net /\ q.doc # r.doc
      BY DEF IInv, NetSound
    <2> HIDE DEF n, c, w
    <2>6. TypeOK'
      BY <2>3 DEF IInv, TypeOK
    <2>7. CallsOwnDocs'
      BY <2>1, <2>2, <2>3, <1>0 DEF IInv, CallsOwnDocs, c, w
    <2>8. NetSound'
      BY <2>1, <2>2, <2>3, <2>5, <1>0 DEF IInv, NetSound, c, w
    <2>9. LandedSound' /\ MantleSimple' /\ OthersLanded'
      BY <2>1, <2>2, <2>3, <1>0 DEF IInv, LandedSound, MantleSimple, OthersLanded, c, w
    <2>10. StaleIsCounted'
      <3> SUFFICES ASSUME NEW q \in net', kind = "github", Waiting(q)'
                   PROVE  q.sha = file \/ call'[q.by].tries + 1 <= Cardinality(call'[q.by].others)
        BY DEF StaleIsCounted
      <3>1. q \in net /\ q.by \in Writer
        BY <2>5, RequestFacts DEF IInv
      <3>2. q.by # w
        BY <2>2, <2>3 DEF Waiting
      <3>3. call'[q.by] = call[q.by]
        BY <3>1, <3>2, <2>3
      <3> QED
        BY <3>1, <3>3 DEF IInv, StaleIsCounted, Waiting
    <2>11. ConflictsAreReal'
      BY <2>1, <2>2, <2>3, <2>4, <1>0 DEF IInv, ConflictsAreReal, c, w
    <2> QED
      BY <2>6, <2>7, <2>8, <2>9, <2>10, <2>11 DEF IInv
  <1> QED
    BY <1>1, <1>2

\* What a document that is stored does to the calls under way.
Stored(r) ==
  [w \in Writer |->
     LET c == Answered(r, "stored")[w] IN
     IF c.pc # "idle" /\ c.doc # r.doc THEN [c EXCEPT !.others = @ \cup {r.doc}] ELSE c]

LEMMA StoredFacts ==
  ASSUME IInv, NEW r \in net, call' = Stored(r), NEW w \in Writer
  PROVE  /\ call'[w] \in Call
         /\ call'[w].doc = call[w].doc /\ call'[w].tries = call[w].tries
         /\ call[w].pc = "idle" => call'[w] = call[w]
         /\ InCall(w) /\ call[w].doc = r.doc =>
              /\ w = r.by /\ call'[w].pc = "stored" /\ call'[w].others = call[w].others
         /\ InCall(w) /\ call[w].doc # r.doc =>
              /\ call'[w].pc = call[w].pc /\ call'[w].others = call[w].others \cup {r.doc}
  <1>0. r.by \in Writer /\ r.doc \in Doc /\ call[w] \in Call /\ call[r.by] \in Call
    BY RequestFacts, CallFacts DEF IInv
  <1>1. Waiting(r) => call[r.by].doc = r.doc /\ call[r.by].pc = "wait"
    BY DEF Waiting
  <1>2. InCall(w) /\ call[w].doc = r.doc => w = r.by /\ Waiting(r)
    BY DEF IInv, NetSound, Waiting
  <1> DEFINE a == Answered(r, "stored")[w]
  <1>3. /\ a \in Call /\ a.doc = call[w].doc /\ a.tries = call[w].tries
        /\ a.others = call[w].others
        /\ InCall(w) /\ call[w].doc = r.doc => a.pc = "stored"
        /\ call[w].doc # r.doc => a = call[w]
        /\ ~InCall(w) => a = call[w]
    <2>1. CASE Waiting(r) /\ w = r.by
      <3>1. a = [call[w] EXCEPT !.pc = "stored"]
        BY <2>1, <1>0 DEF Answered, IInv, TypeOK
      <3> HIDE DEF a
      <3> QED
        BY <2>1, <3>1, <1>0, <1>1 DEF Call
    <2>2. CASE ~(Waiting(r) /\ w = r.by)
      <3>1. a = call[w]
        BY <2>2, <1>0 DEF Answered, IInv, TypeOK
      <3> QED
        BY <3>1, <2>2, <1>2, <1>0
    <2> QED
      BY <2>1, <2>2
  <1>4. call'[w] = IF a.pc # "idle" /\ a.doc # r.doc THEN [a EXCEPT !.others = @ \cup {r.doc}]
                   ELSE a
    BY DEF Stored
  <1> HIDE DEF a
  <1>5. CASE a.pc # "idle" /\ a.doc # r.doc
    <2>1. call'[w] = [a EXCEPT !.others = @ \cup {r.doc}]
      BY <1>4, <1>5
    <2>2. /\ call'[w] \in Call /\ call'[w].doc = a.doc /\ call'[w].tries = a.tries
          /\ call'[w].pc = a.pc /\ call'[w].others = a.others \cup {r.doc}
      BY <2>1, <1>0, <1>3 DEF Call
    <2> QED
      BY <2>2, <1>3, <1>5
  <1>6. CASE ~(a.pc # "idle" /\ a.doc # r.doc)
    BY <1>4, <1>6, <1>3, <1>2
  <1> QED
    BY <1>5, <1>6

LEMMA StoreStep ==
  ASSUME IInv, NEW r \in net, net' = net \ {r}, call' = Stored(r),
         file' = r.doc, landed' = landed \cup {r.doc}, UNCHANGED <<kind, outcome>>
  PROVE  IInv'
  <1>0. /\ r.by \in Writer /\ r.doc \in Doc /\ r.doc \notin landed
        /\ outcome[r.doc] \in {"pending", "error", "contention"}
    BY RequestFacts DEF IInv, NetSound
  <1>1. \A q \in net' : q \in net /\ q.doc # r.doc
    BY DEF IInv, NetSound
  <1>2. call' \in [Writer -> Call]
    BY StoredFacts DEF Stored
  <1>3. TypeOK'
    BY <1>0, <1>2 DEF IInv, TypeOK, OptDoc
  <1>4. \A w \in Writer : /\ call'[w].doc = call[w].doc /\ call'[w].tries = call[w].tries
                          /\ InCall(w)' <=> InCall(w)
                          /\ InCall(w) => call'[w].pc = IF call[w].doc = r.doc THEN "stored"
                                                        ELSE call[w].pc
    BY StoredFacts
  <1>5. CallsOwnDocs'
    BY <1>0, <1>4 DEF IInv, CallsOwnDocs
  <1>6. NetSound'
    BY <1>0, <1>1, <1>4 DEF IInv, NetSound
  <1>7. LandedSound'
    BY <1>0 DEF IInv, LandedSound
  <1>8. MantleSimple'
    BY <1>4 DEF IInv, MantleSimple
  <1>9. OthersLanded'
    <2> SUFFICES ASSUME NEW w \in Writer
                 PROVE  IsFiniteSet(call'[w].others) /\ call'[w].others \subseteq landed'
      BY DEF OthersLanded
    <2>1. call'[w].others \in {call[w].others, call[w].others \cup {r.doc}}
      BY StoredFacts
    <2>2. IsFiniteSet(call[w].others) /\ call[w].others \subseteq landed
      BY DEF IInv, OthersLanded
    <2>3. IsFiniteSet(call[w].others \cup {r.doc})
      BY <2>2, FS_AddElement
    <2> QED
      BY <2>1, <2>2, <2>3
  <1>10. \A w \in Writer : InCall(w) =>
           /\ Cardinality(call[w].others) \in Nat
           /\ call[w].doc # r.doc =>
                Cardinality(call'[w].others) = Cardinality(call[w].others) + 1
           /\ call[w].doc = r.doc => call'[w].others = call[w].others
    <2> SUFFICES ASSUME NEW w \in Writer, InCall(w)
                 PROVE  /\ Cardinality(call[w].others) \in Nat
                        /\ call[w].doc # r.doc =>
                             Cardinality(call'[w].others) = Cardinality(call[w].others) + 1
                        /\ call[w].doc = r.doc => call'[w].others = call[w].others
      OBVIOUS
    <2>1. IsFiniteSet(call[w].others) /\ r.doc \notin call[w].others
      BY <1>0 DEF IInv, OthersLanded
    <2>2. /\ Cardinality(call[w].others) \in Nat
          /\ Cardinality(call[w].others \cup {r.doc}) = Cardinality(call[w].others) + 1
      BY <2>1, FS_CardinalityType, FS_AddElement
    <2> QED
      BY <2>2, StoredFacts
  <1>11. ConflictsAreReal'
    <2> SUFFICES ASSUME NEW w \in Writer, InCall(w)
                 PROVE  call'[w].tries + (IF call'[w].pc = "conflict" THEN 1 ELSE 0)
                          <= Cardinality(call'[w].others)
      BY <1>4 DEF ConflictsAreReal
    <2>1. call[w].tries \in Nat
      BY CallFacts DEF IInv
    <2>2. call[w].tries + (IF call[w].pc = "conflict" THEN 1 ELSE 0) <= Cardinality(call[w].others)
      BY DEF IInv, ConflictsAreReal
    <2> QED
      BY <2>1, <2>2, <1>4, <1>10
  <1>12. StaleIsCounted'
    <2> SUFFICES ASSUME NEW q \in net', kind = "github", Waiting(q)'
                 PROVE  call'[q.by].tries + 1 <= Cardinality(call'[q.by].others)
      BY DEF StaleIsCounted
    <2>1. q \in net /\ q.doc # r.doc /\ q.by \in Writer
      BY <1>1, RequestFacts DEF IInv
    <2>2. Waiting(q) /\ InCall(q.by) /\ call[q.by].doc # r.doc
      BY <2>1, <1>4 DEF Waiting
    <2>3. call[q.by].tries \in Nat
      BY <2>1, CallFacts DEF IInv
    <2>4. CASE q.sha = file
      \* Up to here the file was the one that was read, so no count is known
      \* but that of the conflicts before.
      <3>1. call[q.by].tries + 0 <= Cardinality(call[q.by].others)
        BY <2>1, <2>2 DEF IInv, ConflictsAreReal, Waiting
      <3> QED
        BY <3>1, <2>1, <2>2, <2>3, <1>4, <1>10
    <2>5. CASE q.sha # file
      <3>1. call[q.by].tries + 1 <= Cardinality(call[q.by].others)
        BY <2>1, <2>2, <2>5 DEF IInv, StaleIsCounted
      <3> QED
        BY <3>1, <2>1, <2>2, <2>3, <1>4, <1>10
    <2> QED
      BY <2>4, <2>5
  <1> QED
    BY <1>3, <1>5, <1>6, <1>7, <1>8, <1>9, <1>11, <1>12 DEF IInv

LEMMA ServeStep ==
  ASSUME IInv, NEW r \in net, Serve(r)
  PROVE  IInv'
  <1>1. CASE kind = "mantle" \/ r.sha = file
    BY <1>1, StoreStep DEF Serve, Stored
  <1>2. CASE ~(kind = "mantle" \/ r.sha = file)
    BY <1>2, ConflictStep DEF Serve
  <1> QED
    BY <1>1, <1>2

-----------------------------------------------------------------------------
(* The invariant.                                                           *)

LEMMA NextInv == IInv /\ [Next]_vars => IInv'
  <1> SUFFICES ASSUME IInv, [Next]_vars PROVE IInv'
    OBVIOUS
  <1>1. ASSUME NEW r \in net, Serve(r) PROVE IInv'
    BY <1>1, ServeStep
  <1>2. ASSUME NEW w \in Writer, NEW d \in Doc, Publish(w, d) PROVE IInv'
    BY <1>2, PublishStep
  <1>3. ASSUME NEW w \in Writer, Read(w) PROVE IInv'
    BY <1>3, ReadStep
  <1>4. ASSUME NEW w \in Writer, Retry(w) PROVE IInv'
    BY <1>4, RetryStep
  <1>5. ASSUME NEW w \in Writer, Fail(w) PROVE IInv'
    BY <1>5, EndStep DEF Fail
  <1>6. ASSUME NEW w \in Writer, Succeed(w) PROVE IInv'
    BY <1>6, EndStep DEF Succeed
  <1>7. ASSUME NEW w \in Writer, GiveUp(w) PROVE IInv'
    BY <1>7, EndStep DEF GiveUp
  <1>8. ASSUME UNCHANGED vars PROVE IInv'
    BY <1>8
    DEF vars, IInv, TypeOK, CallsOwnDocs, NetSound, LandedSound, MantleSimple, OthersLanded,
        StaleIsCounted, ConflictsAreReal, Waiting
  <1> QED
    BY <1>1, <1>2, <1>3, <1>4, <1>5, <1>6, <1>7, <1>8 DEF Next, Service, Client

LEMMA AlwaysIInv == Spec => []IInv
  BY InitInv, NextInv, PTL DEF Spec

\* The state is of its types, for any members, documents and attempts.
THEOREM TypeCorrect == Spec => []TypeOK
  BY AlwaysIInv, PTL DEF IInv

\* "The directory kept changing" (github.rs publish) is true whenever it is said:
\* every attempt that met a conflict has another document to show for it.
THEOREM ConflictsAreRealHolds == Spec => []ConflictsAreReal
  BY AlwaysIInv, PTL DEF IInv

-----------------------------------------------------------------------------
(* The abstract blob store.                                                 *)

Stages == [d \in Doc |-> StageOf(d)]

\* A step that is about one document changes the stage of that one only.
LEMMA OneStage ==
  ASSUME NEW d \in Doc,
         \A e \in Doc : e # d => outcome'[e] = outcome[e] /\ (e \in landed' <=> e \in landed)
  PROVE  Stages' = [Stages EXCEPT ![d] = StageOf(d)']
  <1>1. \A e \in Doc : e # d => StageOf(e)' = StageOf(e)
    BY DEF StageOf
  <1> QED
    BY <1>1 DEF Stages

LEMMA SameStages ==
  ASSUME UNCHANGED <<outcome, landed>>
  PROVE  Stages' = Stages
  BY DEF Stages, StageOf

\* However a call ends, the document is refused or its success reported.
LEMMA EndMaps ==
  ASSUME IInv, NEW w \in Writer, InCall(w), NEW result \in {"ok", "error", "contention"},
         result = "ok" => call[w].pc = "stored",
         End(w, result), UNCHANGED <<kind, file, net, landed>>
  PROVE  Blob!Next
  <1>0. PICK d \in Doc : d = call[w].doc
    BY EndFacts
  <1>1. /\ outcome[d] = "pending" /\ outcome'[d] = result
        /\ call[w].pc = "stored" => d \in landed
        /\ \A e \in Doc : e # d => outcome'[e] = outcome[e]
    BY <1>0, EndFacts DEF IInv, CallsOwnDocs
  <1>2. Stages' = [Stages EXCEPT ![d] = StageOf(d)']
    BY <1>1, OneStage
  <1>3. Stages[d] = (IF d \in landed THEN "stored" ELSE "open")
    BY <1>1 DEF Stages, StageOf
  <1>4. CASE result = "ok"
    <2>1. d \in landed /\ StageOf(d)' = "ok"
      BY <1>1, <1>4 DEF StageOf
    <2>2. Blob!Succeed(d)
      BY <1>2, <1>3, <2>1 DEF Blob!Succeed, Stages
    <2> QED
      BY <1>1, <2>2 DEF Blob!Next
  <1>5. CASE result # "ok"
    <2>1. StageOf(d)' = IF d \in landed THEN "over" ELSE "failed"
      BY <1>1, <1>5 DEF StageOf
    <2>2. Blob!Refuse(d)
      BY <1>2, <1>3, <2>1 DEF Blob!Refuse, Stages
    <2> QED
      BY <1>1, <2>2 DEF Blob!Next
  <1> QED
    BY <1>4, <1>5

LEMMA PublishMaps ==
  ASSUME IInv, NEW w \in Writer, NEW d \in Doc, Publish(w, d)
  PROVE  Blob!Next
  <1>1. /\ outcome[d] = "new" /\ UNCHANGED <<file, landed>> /\ d \notin landed
        /\ outcome' = [outcome EXCEPT ![d] = IF d \in TooBig THEN "error" ELSE "pending"]
    BY DEF Publish, IInv, LandedSound
  <1>2. /\ outcome'[d] = (IF d \in TooBig THEN "error" ELSE "pending")
        /\ \A e \in Doc : e # d => outcome'[e] = outcome[e]
    BY <1>1 DEF IInv, TypeOK
  <1>3. Stages[d] = "new" /\ Stages' = [Stages EXCEPT ![d] = StageOf(d)']
    BY <1>1, <1>2, OneStage DEF Stages, StageOf
  <1>4. StageOf(d)' = IF d \in TooBig THEN "failed" ELSE "open"
    BY <1>1, <1>2 DEF StageOf
  <1>5. IF d \in TooBig THEN Blob!Refuse(d) ELSE Blob!Begin(d)
    BY <1>1, <1>3, <1>4 DEF Blob!Refuse, Blob!Begin, Stages
  <1> QED
    BY <1>5 DEF Blob!Next

LEMMA ServeMaps ==
  ASSUME IInv, NEW r \in net, Serve(r)
  PROVE  Blob!Next \/ UNCHANGED <<file, Stages>>
  <1>1. CASE kind = "mantle" \/ r.sha = file
    <2>1. /\ r.doc \in Doc /\ r.doc \notin landed /\ file' = r.doc
          /\ landed' = landed \cup {r.doc} /\ outcome' = outcome
          /\ outcome[r.doc] \in {"pending", "error", "contention"}
      BY <1>1, RequestFacts DEF Serve, IInv, NetSound
    <2>2. Stages' = [Stages EXCEPT ![r.doc] = StageOf(r.doc)']
      BY <2>1, OneStage
    <2>3. /\ Stages[r.doc] = (IF outcome[r.doc] = "pending" THEN "open" ELSE "failed")
          /\ StageOf(r.doc)' = (IF outcome[r.doc] = "pending" THEN "stored" ELSE "over")
      BY <2>1 DEF Stages, StageOf
    <2>4. Blob!Take(r.doc)
      BY <2>1, <2>2, <2>3 DEF Blob!Take, Stages
    <2> QED
      BY <2>1, <2>4 DEF Blob!Next
  <1>2. CASE ~(kind = "mantle" \/ r.sha = file)
    BY <1>2, SameStages DEF Serve
  <1> QED
    BY <1>1, <1>2

LEMMA InitMaps == Init => Blob!Init
  BY DEF Init, Blob!Init, StageOf

LEMMA NextMaps == IInv /\ [Next]_vars => [Blob!Next]_<<file, Stages>>
  <1> SUFFICES ASSUME IInv, [Next]_vars PROVE Blob!Next \/ UNCHANGED <<file, Stages>>
    OBVIOUS
  <1>1. ASSUME NEW r \in net, Serve(r) PROVE Blob!Next \/ UNCHANGED <<file, Stages>>
    BY <1>1, ServeMaps
  <1>2. ASSUME NEW w \in Writer, NEW d \in Doc, Publish(w, d) PROVE Blob!Next
    BY <1>2, PublishMaps
  <1>3. ASSUME NEW w \in Writer, Read(w) \/ Retry(w) PROVE UNCHANGED <<file, Stages>>
    BY <1>3, SameStages DEF Read, Retry
  <1>4. ASSUME NEW w \in Writer, Fail(w) PROVE Blob!Next
    BY <1>4, EndMaps DEF Fail
  <1>5. ASSUME NEW w \in Writer, Succeed(w) PROVE Blob!Next
    BY <1>5, EndMaps DEF Succeed
  <1>6. ASSUME NEW w \in Writer, GiveUp(w) PROVE Blob!Next
    BY <1>6, EndMaps DEF GiveUp
  <1>7. ASSUME UNCHANGED vars PROVE UNCHANGED <<file, Stages>>
    BY <1>7, SameStages DEF vars
  <1> QED
    BY <1>1, <1>2, <1>3, <1>4, <1>5, <1>6, <1>7 DEF Next, Service, Client

\* The adapters and the service together are the blob store that the directory
\* takes them for, whatever is delayed, retried or given up.
THEOREM ImplementsBlobStoreHolds == Spec => ImplementsBlobStore
  <1>1. IInv /\ [Next]_vars => [Blob!Next]_<<file, [d \in Doc |-> StageOf(d)]>>
    BY NextMaps DEF Stages
  <1> QED
    BY AlwaysIInv, InitMaps, <1>1, PTL DEF Spec, ImplementsBlobStore, Blob!Spec

-----------------------------------------------------------------------------
(* Warp.                                                                    *)

LEMMA IdleFacts ==
  /\ Idle("sleep") \in Thread /\ Idle("status") \in Thread /\ Idle("off") \in Thread
  /\ \A pc : /\ Idle(pc).pc = pc /\ Idle(pc).todo = {} /\ Idle(pc).stun = FALSE
             /\ Idle(pc).read = "none" /\ Idle(pc).fallback = FALSE
  BY DEF Idle, Thread, Pc

LEMMA WarpInitInv == WarpInit => WarpIInv
  <1> SUFFICES ASSUME WarpInit PROVE WarpIInv
    OBVIOUS
  <1>1. WarpTypeOK
    BY WarpAssumption, IdleFacts DEF WarpInit, WarpTypeOK, Addr
  <1>2. ReadFirst
    BY IdleFacts DEF WarpInit, ReadFirst
  <1> QED
    BY <1>1, <1>2 DEF WarpIInv

\* Facts of a thread, and what is left of them when it goes on.
LEMMA ThreadFacts ==
  ASSUME WarpIInv, NEW m \in Mesh
  PROVE  /\ thread[m] \in Thread
         /\ thread[m].todo \subseteq Peer \cup Server
         /\ thread[m].pc = "ipAdd" => thread[m].todo # {} /\ thread[m].read = "exclude"
         /\ thread[m].pc = "hostAdd" => thread[m].read = "exclude"
         /\ thread[m].fallback /\ thread[m].pc # "resolve" => thread[m].todo \subseteq Server
         /\ ~thread[m].fallback => thread[m].todo \subseteq Peer
  BY WarpAssumption DEF WarpIInv, WarpTypeOK, ReadFirst, Thread, Addr

LEMMA GoesOn ==
  ASSUME WarpIInv, NEW m \in Mesh, NEW t \in Thread, Goto(m, t),
         t.todo \cap Lan = {},
         t.pc \in {"ipAdd", "hostAdd"} => t.read = "exclude",
         t.pc = "ipAdd" => t.todo # {}, t.pc = "resolve" => t.fallback,
         t.fallback /\ t.pc # "resolve" => t.todo \subseteq Server,
         ~t.fallback => t.todo \subseteq Peer,
         client' \in {"hung", "off", "on"}, mode' \in Mode, hostCmd' \in BOOLEAN,
         dns' \subseteq Server, ips' \subseteq Peer \cup Server, hosts' \in BOOLEAN
  PROVE  WarpIInv'
  <1>1. thread' = [thread EXCEPT ![m] = t] /\ thread \in [Mesh -> Thread]
    BY DEF Goto, WarpIInv, WarpTypeOK
  <1>2. WarpTypeOK'
    BY <1>1 DEF Goto, WarpIInv, WarpTypeOK
  <1>3. ReadFirst'
    BY <1>1 DEF WarpIInv, ReadFirst
  <1> QED
    BY <1>2, <1>3 DEF WarpIInv

\* Where a thread goes once it has looked for addresses.
After(t) == {Idle("sleep"), [t EXCEPT !.pc = "hostList"], [t EXCEPT !.pc = "ipList"]}

LEMMA AfterFacts ==
  ASSUME NEW t \in Thread, NEW u \in After(t)
  PROVE  /\ u \in Thread
         /\ u.pc \notin {"ipAdd", "hostAdd", "resolve"}
         /\ u.todo \in {t.todo, {}}
         /\ u.fallback => t.fallback
         /\ ~u.fallback /\ t.fallback => u.todo = {}
  <1>1. CASE u = Idle("sleep")
    BY <1>1, IdleFacts
  <1>2. CASE u \in {[t EXCEPT !.pc = "hostList"], [t EXCEPT !.pc = "ipList"]}
    <2>1. u \in Thread /\ u.pc \in {"hostList", "ipList"}
      BY <1>2 DEF Thread, Pc
    <2>2. u.todo = t.todo /\ u.fallback = t.fallback
      BY <1>2 DEF Thread
    <2> QED
      BY <2>1, <2>2
  <1> QED
    BY <1>1, <1>2 DEF After

LEMMA IpsFacts ==
  ASSUME NEW t \in Thread
  PROVE  AfterIps(t) \in After(t) /\ Ips(t) \in After(t)
  BY DEF Ips, AfterIps, Hosts, After

\* A step that goes there, from the thread as it was or with less to do.
LEMMA GoesAfter ==
  ASSUME WarpIInv, NEW m \in Mesh, NEW t \in Thread, NEW u \in After(t), Goto(m, u),
         t.todo \cap Lan = {},
         t.fallback => t.todo \subseteq Server,
         ~t.fallback => t.todo \subseteq Peer,
         client' \in {"hung", "off", "on"}, mode' \in Mode, hostCmd' \in BOOLEAN,
         dns' \subseteq Server, ips' \subseteq Peer \cup Server, hosts' \in BOOLEAN
  PROVE  WarpIInv'
  <1>1. /\ u \in Thread /\ u.pc \notin {"ipAdd", "hostAdd", "resolve"}
        /\ u.todo \cap Lan = {}
        /\ u.fallback => u.todo \subseteq Server
        /\ ~u.fallback => u.todo \subseteq Peer
    BY AfterFacts
  <1> QED
    BY <1>1, GoesOn

LEMMA TickInv ==
  ASSUME WarpIInv, NEW m \in Mesh, Tick(m)
  PROVE  WarpIInv'
  <1> DEFINE t == [Idle("status") EXCEPT !.todo = NeedsExclusion(targets[m]),
                                         !.stun = ~settings[m].manual]
  <1>1. NeedsExclusion(targets[m]) \subseteq Peer /\ NeedsExclusion(targets[m]) \cap Lan = {}
    BY DEF NeedsExclusion, WarpIInv, WarpTypeOK
  <1>2. settings[m].manual \in BOOLEAN
    BY DEF WarpIInv, WarpTypeOK, Settings
  <1>3. t \in Thread /\ t.pc = "status" /\ t.todo \subseteq Peer /\ t.todo \cap Lan = {} /\ ~t.fallback
    BY <1>1, <1>2 DEF Idle, Thread, Pc, Addr
  <1>4. Goto(m, t) /\ UNCHANGED clientVars
    BY DEF Tick
  <1> HIDE DEF t
  <1> QED
    BY <1>3, <1>4, GoesOn DEF clientVars, WarpIInv, WarpTypeOK

LEMMA StatusInv ==
  ASSUME WarpIInv, NEW m \in Mesh, Status(m)
  PROVE  WarpIInv'
  <1>1. PICK u \in After(thread[m]) : Goto(m, u)
    BY ThreadFacts, IpsFacts DEF Status, After
  <1>2. thread[m].pc = "status" /\ UNCHANGED clientVars
    BY DEF Status
  <1> QED
    BY <1>1, <1>2, ThreadFacts, GoesAfter DEF clientVars, WarpIInv, WarpTypeOK

LEMMA IpListInv ==
  ASSUME WarpIInv, NEW m \in Mesh, IpList(m)
  PROVE  WarpIInv'
  <1> DEFINE t == thread[m]
             r == [t EXCEPT !.read = mode]
             more == [t EXCEPT !.pc = "ipAdd", !.todo = t.todo \ ips, !.read = mode]
  <1>0. t.pc = "ipList" /\ UNCHANGED clientVars /\ mode \in Mode
    BY DEF IpList, WarpIInv, WarpTypeOK
  <1>1. r \in Thread /\ r.todo = t.todo /\ r.fallback = t.fallback
    BY <1>0, ThreadFacts DEF Thread
  <1>2. \/ Goto(m, AfterIps(t)) \/ Goto(m, AfterIps(r))
        \/ mode # "include" /\ t.todo \ ips # {} /\ Goto(m, more)
    BY DEF IpList
  <1>3. t.todo \cap Lan = {}
    BY DEF WarpIInv, WarpTypeOK
  <1>4. CASE Goto(m, AfterIps(t))
    <2>1. AfterIps(t) \in After(t)
      BY ThreadFacts, IpsFacts
    <2> QED
      BY <1>0, <1>3, <1>4, <2>1, ThreadFacts, GoesAfter DEF clientVars, WarpIInv, WarpTypeOK
  <1>5. CASE Goto(m, AfterIps(r))
    <2>1. AfterIps(r) \in After(r)
      BY <1>1, IpsFacts
    <2> HIDE DEF r
    <2> QED
      BY <1>0, <1>1, <1>3, <1>5, <2>1, ThreadFacts, GoesAfter DEF clientVars, WarpIInv, WarpTypeOK
  <1>6. CASE mode # "include" /\ t.todo \ ips # {} /\ Goto(m, more)
    <2>1. /\ more \in Thread /\ more.todo = t.todo \ ips /\ more.pc = "ipAdd"
          /\ more.read = "exclude" /\ more.fallback = t.fallback
      BY <1>0, <1>6, ThreadFacts DEF Thread, Pc, Mode
    <2> HIDE DEF more
    <2> QED
      BY <1>0, <1>3, <1>6, <2>1, ThreadFacts, GoesOn DEF clientVars, WarpIInv, WarpTypeOK
  <1> QED
    BY <1>2, <1>4, <1>5, <1>6

LEMMA IpAddInv ==
  ASSUME WarpIInv, NEW m \in Mesh, IpAdd(m)
  PROVE  WarpIInv'
  <1>1. PICK a \in thread[m].todo :
          /\ Goto(m, NextIp(Without(thread[m], a)))
          /\ \/ ips' = ips \cup {a}
             \/ client = "hung" /\ UNCHANGED ips
    BY DEF IpAdd
  <1> DEFINE t == thread[m]
             rest == Without(t, a)
  <1>2. t.pc = "ipAdd" /\ UNCHANGED <<client, mode, hostCmd, dns, hosts>>
    BY DEF IpAdd
  <1>3. /\ rest \in Thread /\ rest.todo = t.todo \ {a} /\ rest.pc = "ipAdd"
        /\ rest.read = "exclude" /\ rest.fallback = t.fallback
    BY <1>2, ThreadFacts DEF Thread, Without
  <1>4. t.todo \cap Lan = {} /\ t.todo \subseteq Peer \cup Server
    BY ThreadFacts DEF WarpIInv, WarpTypeOK
  <1>5. ips' \subseteq Peer \cup Server
    BY <1>1, <1>4 DEF WarpIInv, WarpTypeOK
  <1>6. CASE rest.todo = {}
    <2>1. Goto(m, AfterIps(rest)) /\ AfterIps(rest) \in After(rest)
      BY <1>1, <1>3, <1>6, IpsFacts DEF NextIp
    <2> HIDE DEF rest
    <2> QED
      BY <1>2, <1>3, <1>4, <1>5, <2>1, ThreadFacts, GoesAfter DEF WarpIInv, WarpTypeOK
  <1>7. CASE rest.todo # {}
    <2>1. Goto(m, rest)
      BY <1>1, <1>7 DEF NextIp
    <2> HIDE DEF rest
    <2> QED
      BY <1>2, <1>3, <1>4, <1>5, <1>7, <2>1, ThreadFacts, GoesOn DEF WarpIInv, WarpTypeOK
  <1> QED
    BY <1>6, <1>7

LEMMA HostListInv ==
  ASSUME WarpIInv, NEW m \in Mesh, HostList(m)
  PROVE  WarpIInv'
  <1> DEFINE t == thread[m]
             asks == [t EXCEPT !.pc = "resolve", !.fallback = TRUE]
             adds == [t EXCEPT !.pc = "hostAdd", !.read = mode]
  <1>1. t.pc = "hostList" /\ UNCHANGED clientVars /\ mode \in Mode /\ t.todo \cap Lan = {}
    BY DEF HostList, WarpIInv, WarpTypeOK
  <1>2. \/ Goto(m, asks) \/ Goto(m, Idle("sleep"))
        \/ mode # "include" /\ Goto(m, adds)
    BY DEF HostList
  <1>3. CASE Goto(m, asks)
    <2>1. asks \in Thread /\ asks.todo = t.todo /\ asks.pc = "resolve" /\ asks.fallback
      BY ThreadFacts DEF Thread, Pc
    <2> HIDE DEF asks
    <2> QED
      BY <1>1, <1>3, <2>1, GoesOn DEF clientVars, WarpIInv, WarpTypeOK
  <1>4. CASE Goto(m, Idle("sleep"))
    BY <1>1, <1>4, IdleFacts, GoesOn DEF clientVars, WarpIInv, WarpTypeOK
  <1>5. CASE mode # "include" /\ Goto(m, adds)
    <2>1. /\ adds \in Thread /\ adds.todo = t.todo /\ adds.pc = "hostAdd"
          /\ adds.read = "exclude" /\ adds.fallback = t.fallback
      BY <1>1, <1>5, ThreadFacts DEF Thread, Pc, Mode
    <2> HIDE DEF adds
    <2> QED
      BY <1>1, <1>5, <2>1, ThreadFacts, GoesOn DEF clientVars, WarpIInv, WarpTypeOK
  <1> QED
    BY <1>2, <1>3, <1>4, <1>5

LEMMA HostAddInv ==
  ASSUME WarpIInv, NEW m \in Mesh, HostAdd(m)
  PROVE  WarpIInv'
  <1>1. /\ Goto(m, Idle("sleep")) /\ UNCHANGED <<client, mode, hostCmd, dns, ips>>
        /\ hosts' \in BOOLEAN
    BY DEF HostAdd, WarpIInv, WarpTypeOK
  <1> QED
    BY <1>1, IdleFacts, GoesOn DEF WarpIInv, WarpTypeOK

LEMMA ResolveInv ==
  ASSUME WarpIInv, NEW m \in Mesh, Resolve(m)
  PROVE  WarpIInv'
  <1> DEFINE t == [thread[m] EXCEPT !.todo = NeedsExclusion(dns)]
  <1>1. thread[m].pc = "resolve" /\ UNCHANGED clientVars /\ Goto(m, Ips(t))
    BY DEF Resolve
  <1>2. NeedsExclusion(dns) \subseteq Server /\ NeedsExclusion(dns) \cap Lan = {}
    BY DEF NeedsExclusion, WarpIInv, WarpTypeOK
  <1>3. t \in Thread /\ t.todo = NeedsExclusion(dns) /\ t.fallback = thread[m].fallback
    BY <1>2, ThreadFacts DEF Thread, Addr
  <1>4. Ips(t) \in After(t)
    BY <1>3, IpsFacts
  <1>5. t.fallback
    BY <1>1, <1>3 DEF WarpIInv, ReadFirst
  <1> HIDE DEF t
  <1> QED
    BY <1>1, <1>2, <1>3, <1>4, <1>5, GoesAfter DEF clientVars, WarpIInv, WarpTypeOK

LEMMA WarpStep == WarpIInv /\ [WarpNext]_warpVars => WarpIInv'
  <1> SUFFICES ASSUME WarpIInv, [WarpNext]_warpVars PROVE WarpIInv'
    OBVIOUS
  <1>1. ASSUME NEW m \in Mesh, Start(m) PROVE WarpIInv'
    <2>1. /\ live' \in Mesh \cup {None} /\ UNCHANGED <<settings, targets, clientVars>>
          /\ thread' = [thread EXCEPT ![m] = Idle("sleep")]
      BY <1>1 DEF Start
    <2>2. WarpTypeOK'
      BY <2>1, IdleFacts DEF clientVars, WarpIInv, WarpTypeOK
    <2>3. ReadFirst'
      BY <2>1, IdleFacts DEF WarpIInv, WarpTypeOK, ReadFirst
    <2> QED
      BY <2>2, <2>3 DEF WarpIInv
  <1>2. CASE Stop
    BY <1>2 DEF Stop, clientVars, WarpIInv, WarpTypeOK, ReadFirst
  <1>3. ASSUME NEW m \in Mesh, NEW s \in SUBSET (Peer \cup Lan), Gossip(m, s) PROVE WarpIInv'
    BY <1>3 DEF Gossip, clientVars, WarpIInv, WarpTypeOK, ReadFirst
  <1>4. ASSUME NEW m \in Mesh, Maintain(m) PROVE WarpIInv'
    BY <1>4, TickInv, StatusInv, IpListInv, IpAddInv, HostListInv, HostAddInv, ResolveInv
       DEF Maintain
  <1>5. CASE World
    <2>1. WarpTypeOK'
      BY <1>5 DEF World, WarpIInv, WarpTypeOK, Mode
    <2>2. ReadFirst'
      BY <1>5 DEF World, WarpIInv, ReadFirst
    <2> QED
      BY <2>1, <2>2 DEF WarpIInv
  <1>6. CASE UNCHANGED warpVars
    BY <1>6 DEF warpVars, clientVars, WarpIInv, WarpTypeOK, ReadFirst
  <1> QED
    BY <1>1, <1>2, <1>3, <1>4, <1>5, <1>6 DEF WarpNext

LEMMA AlwaysWarpIInv == WarpSpec => []WarpIInv
  BY WarpInitInv, WarpStep, PTL DEF WarpSpec

\* The types of Warp's state; in particular nobody's LAN address is ever in the
\* client's list or on its way there (warpfix.rs needs_exclusion).
THEOREM WarpTypeCorrect == WarpSpec => []WarpTypeOK
  BY AlwaysWarpIInv, PTL DEF WarpIInv

\* Whatever else changes the client's lists and their mode, the thread adds only
\* to a list that the same tick has found to be one of exclusions, and never
\* takes anything out.
THEOREM OnlyToExcludeListsHolds == WarpSpec => OnlyToExcludeLists
  <1>1. ASSUME WarpIInv, NEW m \in Mesh, Maintain(m)
        PROVE  /\ ips \subseteq ips' /\ (hosts => hosts')
               /\ (ips' # ips \/ hosts' # hosts) => thread[m].read = "exclude"
    <2>1. CASE IpAdd(m)
      <3>1. thread[m].read = "exclude" /\ hosts' = hosts
        BY <1>1, <2>1, ThreadFacts DEF IpAdd
      <3>2. ips \subseteq ips'
        BY <2>1 DEF IpAdd
      <3> QED
        BY <3>1, <3>2
    <2>2. CASE HostAdd(m)
      <3>1. thread[m].read = "exclude" /\ ips' = ips
        BY <1>1, <2>2, ThreadFacts DEF HostAdd
      <3>2. hosts => hosts'
        BY <2>2 DEF HostAdd
      <3> QED
        BY <3>1, <3>2
    <2>3. CASE UNCHANGED clientVars
      BY <2>3 DEF clientVars
    <2> QED
      BY <1>1, <2>1, <2>2, <2>3 DEF Maintain, Tick, Status, IpList, HostList, Resolve
  <1>2. WarpIInv /\ [WarpNext]_warpVars =>
          [\A m \in Mesh : Maintain(m) =>
             /\ ips \subseteq ips' /\ (hosts => hosts')
             /\ (ips' # ips \/ hosts' # hosts) => thread[m].read = "exclude"]_warpVars
    BY <1>1
  <1> QED
    BY AlwaysWarpIInv, <1>2, PTL DEF WarpSpec, OnlyToExcludeLists
=============================================================================
