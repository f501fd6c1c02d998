------------------------------ MODULE HostsFile ------------------------------
(***************************************************************************)
(* The hosts file of one machine, as hosts::sync rewrites it: read the     *)
(* file, replace the managed block, write a temporary file that is named   *)
(* by the process only, rename it over the hosts file.  Any thread of the  *)
(* process may do so at any time; other programs edit the file too.  A     *)
(* file that was opened for writing keeps its identity when it is renamed, *)
(* so `fd' follows it.  Lifecycle composes this with the threads.          *)
(***************************************************************************)
EXTENDS Naturals, FiniteSets

CONSTANTS
  Thread,     \* threads that may refresh the names
  Name,       \* host names
  Unreadable, \* may reading a system file fail, or find bytes that are no text?
  MaxEdits    \* bound: edits by other programs

ASSUME HostsAssumption == MaxEdits \in Nat /\ Unreadable \in BOOLEAN

Torn == [theirs |-> 0, block |-> {}]    \* truncated, or a mixture
NoFile == [theirs |-> 0, block |-> {}, missing |-> TRUE]
\* What others wrote, as a version number, and the names in the block.
Whole == [theirs: 1..(MaxEdits + 1), block: SUBSET Name]
Text == Whole \cup [theirs: {0}, block: SUBSET Name]

VARIABLES
  hosts,    \* the hosts file
  tmp,      \* the temporary file
  sync,     \* sync[t]: the locals of sync() in thread t
  edits,    \* edits so far
  raced     \* history: two rewrites overlapped, or the file could not be read

hostsVars == <<hosts, tmp, sync, edits, raced>>

Fd == {"none", "tmp", "hosts", "gone"}
NoSync == [pc |-> "idle", block |-> {}, text |-> Torn, fd |-> "none"]

HostsTypeOK ==
  /\ hosts \in Text
  /\ tmp \in Text \cup {NoFile}
  /\ sync \in [Thread -> [pc: {"idle", "read", "open", "write", "rename"},
                          block: SUBSET Name, text: Text, fd: Fd]]
  /\ edits \in 0..MaxEdits
  /\ raced \in BOOLEAN

HostsInit ==
  /\ hosts = [theirs |-> 1, block |-> {}]
  /\ tmp = NoFile
  /\ sync = [t \in Thread |-> NoSync]
  /\ edits = 0 /\ raced = FALSE

\* Those who have read the file and not yet put theirs in its place.
Rewriting == {t \in Thread : sync[t].pc \in {"open", "write", "rename"}}

Begun(t, block) == [sync EXCEPT ![t] = [NoSync EXCEPT !.pc = "read", !.block = block]]

Read(t) ==
  /\ sync[t].pc = "read"
  /\ sync' = [sync EXCEPT ![t].pc = "open",
                          ![t].text = [theirs |-> hosts.theirs, block |-> sync[t].block]]
  /\ raced' = (raced \/ Rewriting # {})
  /\ UNCHANGED <<hosts, tmp, edits>>

\* A file that cannot be read is taken for an empty one.
ReadFails(t) ==
  /\ Unreadable /\ sync[t].pc = "read"
  /\ sync' = [sync EXCEPT ![t].pc = "open",
                          ![t].text = [theirs |-> 0, block |-> sync[t].block]]
  /\ raced' = TRUE
  /\ UNCHANGED <<hosts, tmp, edits>>

\* fs::write: create or truncate, ...
Open(t) ==
  /\ sync[t].pc = "open"
  /\ tmp' = Torn
  /\ sync' = [sync EXCEPT ![t].pc = "write", ![t].fd = "tmp"]
  /\ UNCHANGED <<hosts, edits, raced>>

\* ... then write.  Over what another thread wrote, the longer text shows.
Written(old, text) == IF old = Torn THEN {text} ELSE {text, Torn}
Write(t) ==
  /\ sync[t].pc = "write"
  /\ IF sync[t].fd = "tmp" THEN tmp' \in Written(tmp, sync[t].text) ELSE UNCHANGED tmp
  /\ IF sync[t].fd = "hosts" THEN hosts' \in Written(hosts, sync[t].text) ELSE UNCHANGED hosts
  /\ sync' = [sync EXCEPT ![t].pc = "rename", ![t].fd = "none"]
  /\ UNCHANGED <<edits, raced>>

\* No permission, no room.  A file that was made stays.
WriteFails(t) ==
  /\ sync[t].pc \in {"open", "write"}
  /\ sync' = [sync EXCEPT ![t] = NoSync]
  /\ UNCHANGED <<hosts, tmp, edits, raced>>

\* The temporary file is gone from its name: what `fd' becomes for the others.
Moved(t, to) ==
  [u \in Thread |-> IF u = t THEN NoSync
                    ELSE IF sync[u].fd = "tmp" THEN [sync[u] EXCEPT !.fd = to]
                    ELSE IF sync[u].fd = "hosts" /\ to = "hosts"
                    THEN [sync[u] EXCEPT !.fd = "gone"]
                    ELSE sync[u]]

\* Faulty variant: the temporary file is copied over the hosts file.
RenameByCopy(t) ==
  /\ sync[t].pc = "rename" /\ tmp # NoFile
  /\ \/ hosts' = tmp /\ tmp' = NoFile /\ sync' = Moved(t, "gone")
     \/ hosts' = Torn /\ UNCHANGED <<tmp, sync>>
  /\ UNCHANGED <<edits, raced>>

Rename(t) ==
  /\ sync[t].pc = "rename" /\ tmp # NoFile
  /\ hosts' = tmp /\ tmp' = NoFile
  /\ sync' = Moved(t, "hosts")
  /\ UNCHANGED <<edits, raced>>

\* Then the temporary file is removed, whoever has it open.
RenameFails(t) ==
  /\ sync[t].pc = "rename"
  /\ tmp' = NoFile
  /\ sync' = Moved(t, "gone")
  /\ UNCHANGED <<hosts, edits, raced>>

SyncStep(t) ==
  \/ Read(t) \/ ReadFails(t) \/ Open(t) \/ Write(t) \/ WriteFails(t)
  \/ Rename(t) \/ RenameFails(t)

\* Another program adds or removes an entry of its own.
Edit ==
  /\ edits < MaxEdits
  /\ edits' = edits + 1
  /\ hosts' = [hosts EXCEPT !.theirs = IF @ = 0 THEN 0 ELSE edits + 2]
  /\ raced' = (raced \/ Rewriting # {})
  /\ UNCHANGED <<tmp, sync>>

\* The process ends.  The next one has another name for its temporary file.
Abandon ==
  /\ sync' = [t \in Thread |-> NoSync]
  /\ tmp' = NoFile

-----------------------------------------------------------------------------
(* Properties.                                                              *)

\* Whatever others put in the hosts file is still there, wherever a rewrite
\* failed or the process ended, unless two rewrites overlapped or the file could
\* not be read (hosts.rs:17 "without touching anything else a user (or another program) put in").
ForeignKept == ~raced => hosts.theirs = edits + 1

\* "A crash or concurrent read mid-write can never leave the hosts file
\* truncated/corrupted" (hosts.rs:239): whoever reads it finds a whole file.
NeverTruncated == hosts.theirs # 0

-----------------------------------------------------------------------------
(* The invariant that the proofs use.                                       *)

\* As long as no two rewrites overlapped, one thread at most is rewriting, from
\* a text that is up to date, and the temporary file is its own.
RewriteOK(t) ==
  LET s == sync[t] IN
  /\ s.pc \in {"open", "write", "rename"} =>
       /\ s.text.theirs = edits + 1
       /\ \A u \in Rewriting : u = t
  /\ s.fd = (IF s.pc = "write" THEN "tmp" ELSE "none")
  /\ s.pc = "write" => tmp = Torn
  /\ s.pc = "rename" => tmp = s.text
HostsSound == ~raced => hosts.theirs = edits + 1 /\ \A t \in Thread : RewriteOK(t)
=============================================================================
