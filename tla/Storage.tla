------------------------------- MODULE Storage -------------------------------
(***************************************************************************)
(* One storage service of the shared directory and the members that write  *)
(* to it through an adapter: the Contents API of GitHub, where a write is  *)
(* conditional on the sha that was read (backends/github.rs), or MantleDB, *)
(* where it is not (backends/mantle.rs).  A request that the client has    *)
(* given up on may still be on its way.  The sha is the hash of a content, *)
(* so it is represented by the content.                                    *)
(***************************************************************************)
EXTENDS Naturals, FiniteSets

CONSTANTS
  Writer,    \* members
  Doc,       \* documents; each is published once, by one member
  NoDoc,     \* no file yet
  TooBig,    \* documents over MAX_DOC_BYTES
  Attempts   \* PUBLISH_ATTEMPTS

ASSUME StorageAssumption ==
  /\ NoDoc \notin Doc /\ TooBig \subseteq Doc /\ Attempts \in Nat \ {0}

OptDoc == Doc \cup {NoDoc}

VARIABLES
  kind,      \* which adapter the settings name
  file,      \* the document the service keeps
  net,       \* write requests the service has not handled
  call,      \* call[w]: the publication w is in
  outcome,   \* history: outcome[d]: what publish returned
  landed     \* history: the documents that were ever stored

vars == <<kind, file, net, call, outcome, landed>>

Call == [pc: {"idle", "read", "wait", "stored", "conflict"}, doc: OptDoc, tries: 0..(Attempts - 1),
         base: OptDoc, others: SUBSET Doc]
NoCall == [pc |-> "idle", doc |-> NoDoc, tries |-> 0, base |-> NoDoc, others |-> {}]
Request == [by: Writer, doc: Doc, sha: OptDoc, try: 0..(Attempts - 1), base: OptDoc]

TypeOK ==
  /\ kind \in {"github", "mantle"}
  /\ file \in OptDoc
  /\ net \subseteq Request
  /\ call \in [Writer -> Call]
  /\ outcome \in [Doc -> {"new", "pending", "ok", "error", "contention"}]
  /\ landed \subseteq Doc

Init ==
  /\ kind \in {"github", "mantle"}
  /\ file = NoDoc /\ net = {} /\ landed = {}
  /\ call = [w \in Writer |-> NoCall]
  /\ outcome = [d \in Doc |-> "new"]

End(w, result) ==
  /\ outcome' = [outcome EXCEPT ![call[w].doc] = result]
  /\ call' = [call EXCEPT ![w] = NoCall]

\* One curl call with a body: from here on the request may arrive at any time.
Put(w, c, sha) ==
  net' = net \cup {[by |-> w, doc |-> c.doc, sha |-> sha, try |-> c.tries, base |-> c.base]}

\* A sync: fetch, and publish of a document made from what was fetched, up to
\* its first request.  (base, others: history.)
Publish(w, d) ==
  LET c == [pc |-> IF kind = "github" THEN "read" ELSE "wait", doc |-> d, tries |-> 0,
            base |-> file, others |-> {}] IN
  /\ call[w].pc = "idle" /\ outcome[d] = "new"
  /\ IF d \in TooBig
     THEN /\ outcome' = [outcome EXCEPT ![d] = "error"]
          /\ UNCHANGED <<call, net>>
     ELSE /\ outcome' = [outcome EXCEPT ![d] = "pending"]
          /\ call' = [call EXCEPT ![w] = c]
          /\ IF kind = "github" THEN UNCHANGED net ELSE Put(w, c, NoDoc)
  /\ UNCHANGED <<kind, file, landed>>

\* Faulty variant: the sha is the one of what was fetched.
ReadOnce(w) ==
  /\ call[w].pc = "read"
  /\ call' = [call EXCEPT ![w].pc = "wait"]
  /\ Put(w, call[w], call[w].base)
  /\ UNCHANGED <<kind, file, outcome, landed>>

\* The sha of the file, or none if there is no file, goes into the request.
Read(w) ==
  /\ call[w].pc = "read"
  /\ call' = [call EXCEPT ![w].pc = "wait"]
  /\ Put(w, call[w], file)
  /\ UNCHANGED <<kind, file, outcome, landed>>

\* Faulty variant: a request that has failed is tried again like a conflict.
FailOrRetry(w) ==
  /\ call[w].pc # "idle"
  /\ IF kind = "github" /\ call[w].tries + 1 < Attempts
     THEN call' = [call EXCEPT ![w].pc = "read", ![w].tries = @ + 1] /\ UNCHANGED outcome
     ELSE End(w, "error")
  /\ UNCHANGED <<kind, file, net, landed>>

\* Any request may fail, before it is handled or after: no connection, timeout,
\* an unexpected status, no room for the temporary file.
Fail(w) ==
  /\ call[w].pc # "idle"
  /\ End(w, "error")
  /\ UNCHANGED <<kind, file, net, landed>>

\* The service: GitHub answers 200 or 201 if the sha is that of the file, 409
\* or 422 if not; MantleDB stores what it is sent.
Waiting(r) ==
  LET c == call[r.by] IN c.pc = "wait" /\ c.doc = r.doc /\ c.tries = r.try
Answered(r, pc) ==
  IF Waiting(r) THEN [call EXCEPT ![r.by].pc = pc] ELSE call

Serve(r) ==
  /\ net' = net \ {r}
  /\ IF kind = "mantle" \/ r.sha = file
     THEN /\ file' = r.doc /\ landed' = landed \cup {r.doc}
          /\ call' = [w \in Writer |->
               LET c == Answered(r, "stored")[w] IN
               IF c.pc # "idle" /\ c.doc # r.doc THEN [c EXCEPT !.others = @ \cup {r.doc}]
               ELSE c]
     ELSE /\ call' = Answered(r, "conflict")
          /\ UNCHANGED <<file, landed>>
  /\ UNCHANGED <<kind, outcome>>

Succeed(w) ==
  /\ call[w].pc = "stored"
  /\ End(w, "ok")
  /\ UNCHANGED <<kind, file, net, landed>>

\* Faulty variant: one attempt too many.
RetryOnceMore(w) ==
  /\ call[w].pc = "conflict" /\ call[w].tries < Attempts
  /\ call' = [call EXCEPT ![w].pc = "read", ![w].tries = @ + 1]
  /\ UNCHANGED <<kind, file, net, outcome, landed>>

\* Only the sha is read again: the same document is sent.
Retry(w) ==
  /\ call[w].pc = "conflict" /\ call[w].tries + 1 < Attempts
  /\ call' = [call EXCEPT ![w].pc = "read", ![w].tries = @ + 1]
  /\ UNCHANGED <<kind, file, net, outcome, landed>>

GiveUp(w) ==
  /\ call[w].pc = "conflict" /\ call[w].tries + 1 >= Attempts
  /\ End(w, "contention")
  /\ UNCHANGED <<kind, file, net, landed>>

Service == \E r \in net : Serve(r)
Client(w) == Read(w) \/ Fail(w) \/ Succeed(w) \/ Retry(w) \/ GiveUp(w)

Next ==
  \/ Service
  \/ \E w \in Writer : Client(w) \/ \E d \in Doc : Publish(w, d)

Spec == Init /\ [][Next]_vars

-----------------------------------------------------------------------------
(* Properties.                                                              *)

\* How far the publication of d is, in the terms of BlobStore.
StageOf(d) ==
  CASE outcome[d] = "new" -> "new"
    [] outcome[d] = "pending" -> IF d \in landed THEN "stored" ELSE "open"
    [] outcome[d] = "ok" -> "ok"
    [] outcome[d] \in {"error", "contention"} -> IF d \in landed THEN "over" ELSE "failed"

Blob == INSTANCE BlobStore WITH blob <- file, stage <- [d \in Doc |-> StageOf(d)]

\* Both adapters are the blob store that the directory takes them for: a
\* document is stored at most once, whatever is retried, delayed or given up,
\* and before publish returns Ok (github.rs publish, mantle.rs publish).
ImplementsBlobStore == Blob!Spec

\* publish says that the directory kept changing only if it did: other
\* documents were stored during the call, one for every attempt (github.rs
\* "gave up after ... attempts: the directory kept changing").
ConflictsAreReal ==
  \A w \in Writer :
    LET c == call[w] IN
    c.pc # "idle" =>
      c.tries + (IF c.pc = "conflict" THEN 1 ELSE 0) <= Cardinality(c.others)

\* github.rs:5-7 "We then re-read and retry, instead of silently overwriting
\* someone else's update": a document replaces the one it was made from.
NothingOverwritten ==
  [][\A r \in net \ net' : kind = "github" /\ file' # file => r.base = file]_vars

-----------------------------------------------------------------------------
(* The invariant that the proofs use.                                       *)

InCall(w) == call[w].pc # "idle"

\* A call is about a document of its own, which is stored once it says so.
CallsOwnDocs ==
  \A w \in Writer : InCall(w) =>
    /\ call[w].doc \in Doc /\ outcome[call[w].doc] = "pending"
    /\ call[w].pc = "stored" <=> call[w].doc \in landed
    /\ \A x \in Writer : InCall(x) /\ call[x].doc = call[w].doc => x = w

\* A request is the only one of its document, which is not stored yet; a call
\* about it is waiting for this very request.
NetSound ==
  \A r \in net :
    /\ r.doc \notin landed /\ outcome[r.doc] \in {"pending", "error", "contention"}
    /\ \A q \in net : q.doc = r.doc => q = r
    /\ \A w \in Writer :
         InCall(w) /\ call[w].doc = r.doc =>
           r.by = w /\ r.try = call[w].tries /\ call[w].pc = "wait"

LandedSound ==
  \A d \in Doc : /\ d \in landed => outcome[d] # "new"
                 /\ outcome[d] = "ok" => d \in landed

\* MantleDB knows no conflict.
MantleSimple ==
  kind = "mantle" =>
    \A w \in Writer : call[w].tries = 0 /\ call[w].pc \in {"idle", "wait", "stored"}

OthersLanded == \A w \in Writer : IsFiniteSet(call[w].others) /\ call[w].others \subseteq landed

\* When a request no longer fits the file, one more document has been stored.
StaleIsCounted ==
  \A r \in net : kind = "github" /\ Waiting(r) =>
    r.sha = file \/ call[r.by].tries + 1 <= Cardinality(call[r.by].others)

IInv ==
  /\ TypeOK /\ CallsOwnDocs /\ NetSound /\ LandedSound /\ MantleSimple
  /\ OthersLanded /\ StaleIsCounted /\ ConflictsAreReal
=============================================================================
