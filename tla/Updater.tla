-------------------------------- MODULE Updater --------------------------------
(***************************************************************************)
(* The self-updater of the GUI (updater.rs, the Updates section of the     *)
(* settings screen, and the update loop in main.rs).  Checks and installs  *)
(* run in threads of their own, which share the status, the answer file of *)
(* the release query and one working directory per process.  A script that *)
(* outlives the process copies the new files over the old ones and starts  *)
(* the GUI again.  The user, GitHub and the end of the process may come    *)
(* between any two steps.                                                  *)
(***************************************************************************)
EXTENDS Naturals, FiniteSets

CONSTANTS
  Workers,       \* bound: how many threads may work at a time
  File,          \* the files of an installation
  Package,       \* those that a release replaces
  Gui,           \* the one that is the GUI
  MaxVersion,    \* releases 1..MaxVersion; 0 is the first build
  Checksummed,   \* releases that come with a .sha256 file
  Impatient,     \* may somebody click before the last click has shown, or start
                 \* the GUI while it is being replaced?
  MaxLaunches,   \* bound: how often the GUI is started
  MaxScripts     \* bound: apply scripts under way at a time

ASSUME UpdaterAssumption ==
  /\ Gui \in Package /\ Package \subseteq File /\ Workers \in Nat /\ Impatient \in BOOLEAN
  /\ MaxVersion \in Nat /\ MaxLaunches \in Nat /\ MaxScripts \in Nat /\ Checksummed \subseteq 1..MaxVersion

Worker == 1..Workers
Version == 0..MaxVersion
NoVersion == MaxVersion + 1
Content == [ver: Version, good: BOOLEAN]
Nothing == [ver |-> NoVersion]
Archive == [by: Worker, ver: Version, good: BOOLEAN, whole: BOOLEAN]

CheckPc == {"start", "ask", "read", "report"}
InstallPc == {"begin", "open", "download", "verify", "compare", "extract", "unpack", "apply", "done"}
Thread == [pc: CheckPc \cup InstallPc \cup {"idle"}, ver: Version \cup {NoVersion}, ok: BOOLEAN]
Idle == [pc |-> "idle", ver |-> NoVersion, ok |-> TRUE]
Script == [done: SUBSET Package, payload: Content \cup {Nothing},
           waits: BOOLEAN, ver: Version]

BusyStatus == {"checking", "downloading", "verifying", "extracting", "applying"}
Status == BusyStatus \cup {"idle", "uptodate", "available", "norelease", "failed"}

VARIABLES
  installed,   \* the files next to the executable
  alive,       \* the GUI runs
  running,     \* the version it was built as
  launches,
  status, info, quit,         \* UpdaterState, and the flag that ends the GUI
  th,          \* the threads
  answer,      \* the file with GitHub's answer
  archive, extracted,         \* the working directory
  scripts,     \* apply scripts under way
  damaged,     \* history: a script failed to copy a file, or ended early
  twice        \* history: the GUI was started while it ran

shared == <<status, info, quit, answer, archive, extracted>>
vars == <<installed, alive, running, launches, shared, th, scripts, damaged, twice>>

TypeOK ==
  /\ running \in Version /\ launches \in 0..MaxLaunches
  /\ installed \in [File -> Content]
  /\ alive \in BOOLEAN /\ quit \in BOOLEAN
  /\ damaged \in BOOLEAN /\ twice \in BOOLEAN
  /\ status \in Status
  /\ info \in Version \cup {NoVersion}
  /\ th \in [Worker -> Thread]
  /\ answer \in Version \cup {NoVersion}
  /\ archive \in Archive \cup {Nothing}
  /\ extracted \in Content \cup {Nothing}
  /\ scripts \subseteq Script

Init ==
  /\ running = 0 /\ launches = 0
  /\ installed = [f \in File |-> [ver |-> 0, good |-> TRUE]]
  /\ alive = TRUE
  /\ status = "idle" /\ info = NoVersion /\ quit = FALSE
  /\ answer = NoVersion /\ archive = Nothing /\ extracted = Nothing
  /\ th = [w \in Worker |-> Idle]
  /\ scripts = {} /\ damaged = FALSE /\ twice = FALSE

Active == {w \in Worker : th[w].pc # "idle"}
Free(w) == th[w] = Idle /\ \A x \in Worker : th[x] = Idle => w <= x
Unseen == \E w \in Worker : th[w].pc \in {"start", "begin", "open"}
Clicked == Impatient \/ ~Unseen
process == <<installed, alive, running, launches, scripts, damaged, twice>>

Goto(w, pc) == th' = [th EXCEPT ![w].pc = pc]

\* What a thread that fails leaves: nothing but the status.
Fails(w) ==
  /\ status' = "failed"
  /\ th' = [th EXCEPT ![w] = Idle]

-----------------------------------------------------------------------------
(* The user.                                                                *)

\* The startup check does not look at the status, the button is disabled while
\* it shows work.  The thread itself changes the status later.
StartCheck(w) ==
  /\ alive /\ Clicked /\ Free(w) /\ status \notin BusyStatus
  /\ Goto(w, "start")
  /\ UNCHANGED <<installed, alive, running, launches, shared, scripts, damaged, twice>>

\* Faulty variant: the button installs whatever has been found, whenever.
InstallAnyTime(w) ==
  /\ alive /\ Clicked /\ Free(w) /\ info # NoVersion
  /\ th' = [th EXCEPT ![w] = [Idle EXCEPT !.pc = "begin", !.ver = info]]
  /\ UNCHANGED <<installed, alive, running, launches, shared, scripts, damaged, twice>>

StartInstall(w) ==
  /\ alive /\ Clicked /\ Free(w) /\ status = "available" /\ info # NoVersion
  /\ th' = [th EXCEPT ![w] = [Idle EXCEPT !.pc = "begin", !.ver = info]]
  /\ UNCHANGED <<installed, alive, running, launches, shared, scripts, damaged, twice>>

\* The process ends with its threads: on the updater's flag, which the main loop
\* looks at in every frame, or because somebody quits it.  Its working directory
\* stays as it is for the scripts that were waiting for this; no other process
\* uses it, or the answer file.
Ended ==
  /\ alive /\ alive' = FALSE
  /\ th' = [w \in Worker |-> Idle]
  /\ scripts' = {IF s.waits THEN [s EXCEPT !.payload = extracted, !.waits = FALSE] ELSE s
                 : s \in scripts}
  /\ status' = "idle" /\ info' = NoVersion /\ quit' = FALSE
  /\ answer' = NoVersion /\ archive' = Nothing /\ extracted' = Nothing
  /\ UNCHANGED <<installed, running, launches, damaged, twice>>
CloseForUpdate == quit /\ Ended
Quit == Ended

Launched == alive' = TRUE /\ running' = installed[Gui].ver /\ launches' = launches + 1
Launch ==
  /\ ~alive /\ launches < MaxLaunches /\ (Impatient \/ scripts = {})
  /\ Launched
  /\ UNCHANGED <<installed, shared, th, scripts, damaged, twice>>

-----------------------------------------------------------------------------
(* start_check.                                                             *)

BeginCheck(w) ==
  /\ th[w].pc = "start"
  /\ status' = "checking"
  /\ Goto(w, "ask")
  /\ UNCHANGED <<process, info, quit, answer, archive, extracted>>

\* Faulty variant: any tag is taken for a version.
AskAnything(w) ==
  /\ th[w].pc = "ask"
  /\ answer' \in Version \cup {NoVersion + 1} /\ Goto(w, "read")
  /\ UNCHANGED <<process, status, info, quit, archive, extracted>>

\* http_get_text: download to a file that is named by the process only, ...
\* (Releases are published and withdrawn; 0 is one without a version.)
Ask(w) ==
  /\ th[w].pc = "ask"
  /\ \/ answer' \in Version /\ Goto(w, "read")
     \/ answer' = answer /\ th' = [th EXCEPT ![w].pc = "report", ![w].ok = FALSE]
  /\ UNCHANGED <<process, status, info, quit, archive, extracted>>

\* ... read it, remove it.
Read(w) ==
  /\ th[w].pc = "read"
  /\ th' = [th EXCEPT ![w] = [pc |-> "report", ver |-> answer, ok |-> (answer # NoVersion)]]
  /\ answer' = NoVersion
  /\ UNCHANGED <<process, status, info, quit, archive, extracted>>

\* Faulty variant: any release that is not this build is offered.
OfferedIfOther(v) == IF v = running THEN {"uptodate"} ELSE {"available", "norelease"}

\* fetch_latest_release: only a later version that has a package is offered.
Offered(v) ==
  IF v = 0 THEN {"norelease"} ELSE
  IF v <= running THEN {"uptodate"} ELSE {"available", "norelease"}

Report(w) ==
  /\ th[w].pc = "report"
  /\ \E s \in IF th[w].ok THEN Offered(th[w].ver) ELSE {"failed"} :
       /\ status' = s
       /\ info' = IF s = "available" THEN th[w].ver ELSE NoVersion
  /\ th' = [th EXCEPT ![w] = Idle]
  /\ UNCHANGED <<process, quit, answer, archive, extracted>>

-----------------------------------------------------------------------------
(* start_install.                                                           *)

\* The working directory is removed and made again.
Begin(w) ==
  /\ th[w].pc = "begin"
  /\ archive' = Nothing /\ extracted' = Nothing
  /\ \/ Goto(w, "open") /\ UNCHANGED status
     \/ Fails(w)
  /\ UNCHANGED <<process, info, quit, answer>>

Open(w) ==
  /\ th[w].pc = "open"
  /\ status' = "downloading"
  /\ archive' = [by |-> w, ver |-> th[w].ver, good |-> TRUE, whole |-> FALSE]
  /\ Goto(w, "download")
  /\ UNCHANGED <<process, info, quit, answer, extracted>>

\* Every quarter of a second the progress is shown.
Progress(w) ==
  /\ th[w].pc = "download"
  /\ status' = "downloading"
  /\ UNCHANGED <<process, info, quit, answer, archive, extracted, th>>

\* What arrives may be damaged.  A file that was removed or replaced in the
\* meantime is not affected by the end of the download.
Download(w) ==
  /\ th[w].pc = "download"
  /\ \E good \in BOOLEAN :
       archive' = IF archive # Nothing /\ archive.by = w
                  THEN [by |-> w, ver |-> archive.ver, good |-> good, whole |-> TRUE]
                  ELSE archive
  /\ Goto(w, IF th[w].ver \in Checksummed THEN "verify" ELSE "extract")
  /\ UNCHANGED <<process, status, info, quit, answer, extracted>>

\* The checksum is fetched, and compared with that of the archive.
Verify(w) ==
  /\ th[w].pc = "verify"
  /\ status' = "verifying"
  /\ Goto(w, "compare")
  /\ UNCHANGED <<process, info, quit, answer, archive, extracted>>

Matches(v) == archive # Nothing /\ archive.whole /\ archive.ver = v /\ archive.good
\* Faulty variant: a mismatch is only logged.
CompareAndGoOn(w) ==
  /\ th[w].pc = "compare"
  /\ archive # Nothing /\ Goto(w, "extract")
  /\ UNCHANGED <<process, status, info, quit, answer, archive, extracted>>

Compare(w) ==
  /\ th[w].pc = "compare"
  /\ Matches(th[w].ver) /\ Goto(w, "extract")
  /\ UNCHANGED <<process, status, info, quit, answer, archive, extracted>>

Extract(w) ==
  /\ th[w].pc = "extract"
  /\ status' = "extracting"
  /\ Goto(w, "unpack")
  /\ UNCHANGED <<process, info, quit, answer, archive, extracted>>

Unpack(w) ==
  /\ th[w].pc = "unpack"
  /\ archive # Nothing /\ archive.whole
  /\ extracted' = [ver |-> archive.ver, good |-> archive.good]
  /\ Goto(w, "apply")
  /\ UNCHANGED <<process, status, info, quit, answer, archive>>

\* find_payload_dir, staged_replacements, write_apply_script, spawn_apply.  A
\* package has the GUI; other files are replaced if it has them.
Apply(w) ==
  /\ th[w].pc = "apply" /\ extracted # Nothing /\ Cardinality(scripts) < MaxScripts
  /\ scripts' = scripts \cup
       {[done |-> {}, payload |-> Nothing, waits |-> TRUE, ver |-> th[w].ver]}
  /\ Goto(w, "done")
  /\ UNCHANGED <<installed, alive, running, launches, shared, damaged, twice>>

\* Faulty variant: the GUI is left open.
DoneQuietly(w) ==
  /\ th[w].pc = "done"
  /\ status' = "applying"
  /\ th' = [th EXCEPT ![w] = Idle]
  /\ UNCHANGED <<process, info, quit, answer, archive, extracted>>

Done(w) ==
  /\ th[w].pc = "done"
  /\ status' = "applying" /\ quit' = TRUE
  /\ th' = [th EXCEPT ![w] = Idle]
  /\ UNCHANGED <<process, info, answer, archive, extracted>>

\* Any tool, download or file operation may fail, a mismatch always does.
Fail(w) ==
  /\ th[w].pc \in {"download", "compare", "unpack", "apply"}
  /\ Fails(w)
  /\ UNCHANGED <<process, info, quit, answer, archive, extracted>>

-----------------------------------------------------------------------------
(* The script: it waits for the process to end, copies file by file,        *)
(* ignoring what fails, and starts the GUI.                                 *)

\* Faulty variant: files are copied while the process is running.
CopyAtOnce(s) ==
  /\ \E f \in Package \ s.done :
       /\ installed' = IF s.waits /\ extracted # Nothing THEN [installed EXCEPT ![f] = extracted]
                       ELSE IF s.payload # Nothing THEN [installed EXCEPT ![f] = s.payload]
                       ELSE installed
       /\ scripts' = (scripts \ {s}) \cup {[s EXCEPT !.done = @ \cup {f}]}
  /\ UNCHANGED <<alive, running, launches, shared, th, damaged, twice>>

Copy(s) ==
  /\ ~s.waits
  /\ \E f \in Package \ s.done :
       /\ \/ s.payload # Nothing
             /\ installed' = [installed EXCEPT ![f] = s.payload] /\ UNCHANGED damaged
          \/ damaged' = TRUE /\ UNCHANGED installed
       /\ scripts' = (scripts \ {s}) \cup {[s EXCEPT !.done = @ \cup {f}]}
  /\ UNCHANGED <<alive, running, launches, shared, th, twice>>

\* Faulty variant: the script goes on.
RelaunchAndStay(s) ==
  /\ ~s.waits /\ s.done = Package /\ launches < MaxLaunches
  /\ IF alive THEN twice' = TRUE /\ UNCHANGED <<alive, running, launches>>
     ELSE Launched /\ UNCHANGED twice
  /\ UNCHANGED <<installed, shared, th, scripts, damaged>>

Relaunch(s) ==
  /\ ~s.waits /\ s.done = Package /\ launches < MaxLaunches
  /\ scripts' = scripts \ {s}
  /\ IF alive THEN twice' = TRUE /\ UNCHANGED <<alive, running, launches>>
     ELSE Launched /\ UNCHANGED twice
  /\ UNCHANGED <<installed, shared, th, damaged>>

\* The machine goes down, or somebody kills it.
ScriptEnds(s) ==
  /\ scripts' = scripts \ {s}
  /\ damaged' = TRUE
  /\ UNCHANGED <<installed, alive, running, launches, shared, th, twice>>

-----------------------------------------------------------------------------
CheckStep(w) == BeginCheck(w) \/ Ask(w) \/ Read(w) \/ Report(w)
InstallStep(w) ==
  \/ Begin(w) \/ Open(w) \/ Download(w) \/ Verify(w) \/ Compare(w)
  \/ Extract(w) \/ Unpack(w) \/ Apply(w) \/ Done(w) \/ Fail(w)
Work(w) == CheckStep(w) \/ InstallStep(w)
ScriptStep == \E s \in scripts : Copy(s) \/ Relaunch(s)
User == Launch \/ Quit \/ \E w \in Worker : StartCheck(w) \/ StartInstall(w)

Next ==
  \/ User \/ CloseForUpdate \/ ScriptStep
  \/ \E w \in Worker : Work(w) \/ Progress(w)
  \/ \E s \in scripts : ScriptEnds(s)

\* The main loop draws a frame at least every quarter of a second, and bash runs.
Fairness ==
  /\ WF_vars(CloseForUpdate)
  /\ WF_vars(ScriptStep)
Spec == Init /\ [][Next]_vars /\ Fairness

-----------------------------------------------------------------------------
(* Properties, of users who are not impatient.                              *)

\* The status that disables the buttons keeps checks and installs from running
\* side by side (settings_screen.rs, busy): they share a directory and a file.
OneAtATime ==
  /\ Cardinality(Active) <= 1
  /\ \A w \in Active : status \in BusyStatus \/ Unseen

\* Nothing is installed from an archive that does not have the checksum its
\* release names ("fully downloaded, checksum-verified and extracted", updater.rs:11).
OnlyVerified == \A f \in File : installed[f].good \/ installed[f].ver \notin Checksummed

\* What a script has copied is the version the user was offered, for all files,
\* and a GUI that runs is one of a package whose files belong together ("Never
\* half-install", updater.rs:11), unless a copy failed or a script was killed.
NeverHalf ==
  damaged \/ /\ \A s \in scripts : \A f \in s.done : ~s.waits /\ installed[f].ver = s.ver
             /\ alive => \A f \in Package : installed[f] = installed[Gui]

\* The script does not start a GUI beside one that runs.
OneGui == ~twice

\* "No silent downgrades" (updater.rs:16): the GUI's version never goes back,
\* whatever GitHub calls the latest release.
NoDowngrade == [][installed'[Gui].ver >= installed[Gui].ver]_vars

\* An update that is being applied gets applied: the GUI makes way for it.
UpdateEnds == status = "applying" ~> \A s \in scripts : s.done = Package

-----------------------------------------------------------------------------
(* The invariant that the proofs use, of users who are not impatient.       *)

AtWork(w) == th[w].pc # "idle"
Sound(c) == c # Nothing /\ (c.good \/ c.ver \notin Checksummed)

\* The buttons keep all threads but one out, until the GUI has made way.
OneThread ==
  /\ \A w, x \in Worker : AtWork(w) /\ AtWork(x) => w = x
  /\ \A w \in Worker : th[w].pc \notin {"idle", "start", "begin", "open"} => status \in BusyStatus
  /\ status = "applying" => \A w \in Worker : ~AtWork(w)

\* Only the release that was offered is downloaded, compared and unpacked.
WorkSound ==
  /\ info # NoVersion => info > running
  /\ \A w \in Worker :
       /\ th[w].pc \in InstallPc => th[w].ver > running
       /\ th[w].pc \in {"download", "verify", "compare", "extract", "unpack"} =>
            archive # Nothing /\ archive.ver = th[w].ver
       /\ th[w].pc \in {"extract", "unpack"} => Sound(archive)
       /\ th[w].pc \in {"apply", "done"} => Sound(extracted) /\ extracted.ver = th[w].ver

\* What runs is what is installed, and nothing of it survives the process.
ProcessSound ==
  /\ alive => running = installed[Gui].ver
  /\ ~alive => info = NoVersion /\ \A w \in Worker : ~AtWork(w)

\* There is one script, which waits as long as the GUI runs; the directory that
\* it will copy from is left alone.
ScriptSound ==
  \A s \in scripts :
    /\ \A r \in scripts : r = s
    /\ s.waits <=> alive
    /\ s.ver >= installed[Gui].ver
    /\ s.waits =>
         /\ s.done = {} /\ Sound(extracted) /\ extracted.ver = s.ver
         /\ status = "applying" \/ \E w \in Worker : th[w].pc = "done"
    /\ ~s.waits => Sound(s.payload) /\ s.payload.ver = s.ver

\* Files are replaced one by one with those of one package, without the GUI.
OneRelease ==
  damaged \/
    /\ \A s \in scripts :
         /\ \A f \in s.done : ~s.waits /\ installed[f] = s.payload
         /\ \A f, g \in Package \ s.done : installed[f] = installed[g]
    /\ alive \/ scripts = {} => \A f, g \in Package : installed[f] = installed[g]

Versioned == \A w \in Worker : th[w].pc \in InstallPc => th[w].ver \in Version

Patience ==
  /\ OneThread /\ WorkSound /\ ProcessSound /\ ScriptSound
  /\ OneRelease /\ OnlyVerified /\ OneGui

IInv == TypeOK /\ Versioned /\ (~Impatient => Patience)
=============================================================================
