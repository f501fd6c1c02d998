------------------------------ MODULE BlobStore ------------------------------
(***************************************************************************)
(* What a storage service promises to the shared directory (the Backend    *)
(* trait of backends/mod.rs): it keeps one blob.  A publication takes      *)
(* effect at most once, before it reports success; one that reports a      *)
(* failure may have taken effect, or may still do so.  This is what        *)
(* Directory assumes of a service; Storage shows that the two adapters     *)
(* provide it.  A document names the publication that carries it, as no    *)
(* two publications encrypt to the same bytes.                             *)
(***************************************************************************)
CONSTANTS Doc, NoDoc

VARIABLES
  blob,    \* what fetch returns
  stage    \* stage[d]: how far the publication of d is

Stage == {"new", "open", "stored", "ok", "failed", "over"}

Init ==
  /\ blob = NoDoc
  /\ stage = [d \in Doc |-> "new"]

Begin(d) ==
  /\ stage[d] = "new"
  /\ stage' = [stage EXCEPT ![d] = "open"]
  /\ UNCHANGED blob

Take(d) ==
  /\ stage[d] \in {"open", "failed"}
  /\ stage' = [stage EXCEPT ![d] = IF @ = "open" THEN "stored" ELSE "over"]
  /\ blob' = d

Succeed(d) ==
  /\ stage[d] = "stored"
  /\ stage' = [stage EXCEPT ![d] = "ok"]
  /\ UNCHANGED blob

Refuse(d) ==
  /\ stage[d] \in {"new", "open", "stored"}
  /\ stage' = [stage EXCEPT ![d] = IF @ = "stored" THEN "over" ELSE "failed"]
  /\ UNCHANGED blob

Next == \E d \in Doc : Begin(d) \/ Take(d) \/ Succeed(d) \/ Refuse(d)

Spec == Init /\ [][Next]_<<blob, stage>>
=============================================================================
