---------------------------- MODULE UpdaterProofs ----------------------------
(***************************************************************************)
(* Theorems of Updater, for any number of threads, files, releases and     *)
(* launches; all but the types for users who are not impatient.            *)
(***************************************************************************)
EXTENDS Updater, FiniteSetTheorems, TLAPS

LEMMA Distinct ==
  /\ NoVersion \notin Version /\ Nothing.ver = NoVersion /\ 0 \in Version
  /\ Version \subseteq Nat
  /\ \A c \in Content : c # Nothing /\ c.ver \in Version /\ c.good \in BOOLEAN
  /\ \A a \in Archive : a # Nothing /\ a.ver \in Version /\ a.good \in BOOLEAN
  BY UpdaterAssumption DEF NoVersion, Version, Nothing, Content, Archive

LEMMA IdleFacts == Idle \in Thread /\ Idle.pc = "idle" /\ Idle.ver = NoVersion
  BY DEF Idle, Thread

LEMMA ThreadFacts ==
  ASSUME TypeOK, NEW w \in Worker
  PROVE  /\ th[w] \in Thread /\ th[w].pc \in CheckPc \cup InstallPc \cup {"idle"}
         /\ th[w].ver \in Version \cup {NoVersion} /\ th[w].ok \in BOOLEAN
  BY DEF TypeOK, Thread

LEMMA GotoFacts ==
  ASSUME TypeOK, NEW w \in Worker, NEW pc \in CheckPc \cup InstallPc \cup {"idle"}, Goto(w, pc)
  PROVE  /\ th' \in [Worker -> Thread] /\ th'[w].pc = pc /\ th'[w].ver = th[w].ver
         /\ \A x \in Worker : x # w => th'[x] = th[x]
  BY DEF TypeOK, Thread, Goto

LEMMA RestFacts ==
  ASSUME TypeOK, NEW w \in Worker, th' = [th EXCEPT ![w] = Idle]
  PROVE  /\ th' \in [Worker -> Thread] /\ th'[w].pc = "idle"
         /\ \A x \in Worker : x # w => th'[x] = th[x]
  BY IdleFacts DEF TypeOK

LEMMA InitInv == Init => IInv
  <1> SUFFICES ASSUME Init PROVE IInv
    OBVIOUS
  <1>1. TypeOK
    <2>1. installed \in [File -> Content]
      BY Distinct DEF Init, Content
    <2>2. th \in [Worker -> Thread] /\ running \in Version /\ launches \in 0..MaxLaunches
      BY UpdaterAssumption, Distinct, IdleFacts DEF Init
    <2> QED
      BY <2>1, <2>2 DEF Init, TypeOK, Status
  <1>2. Versioned
    BY IdleFacts DEF Init, Versioned, InstallPc
  <1>3. OneThread /\ WorkSound
    BY IdleFacts DEF Init, OneThread, WorkSound, AtWork, InstallPc
  <1>4. ProcessSound /\ ScriptSound /\ OnlyVerified /\ OneRelease /\ OneGui
    BY UpdaterAssumption, IdleFacts
    DEF Init, ProcessSound, ScriptSound, OnlyVerified, OneRelease, OneGui, AtWork
  <1> QED
    BY <1>1, <1>2, <1>3, <1>4 DEF IInv, Patience

\* What a step of a thread leaves alone when it has nothing to do with scripts.
LEMMA ProcessKept ==
  ASSUME Patience, UNCHANGED process
  PROVE  OnlyVerified' /\ OneRelease' /\ OneGui'
  BY DEF Patience, process, OnlyVerified, OneRelease, OneGui

-----------------------------------------------------------------------------
(* The threads.                                                             *)

LEMMA BeginCheckStep ==
  ASSUME IInv, NEW w \in Worker, BeginCheck(w)
  PROVE  IInv'
  <1>0. /\ th' \in [Worker -> Thread]
        /\ \A x \in Worker : x # w => th'[x] = th[x]
        /\ th[w].pc = "start" /\ th'[w].pc = "ask" /\ status' = "checking"
        /\ UNCHANGED <<process, info, quit, answer, archive, extracted>>
    BY GotoFacts DEF IInv, CheckPc, InstallPc, BeginCheck
  <1>1. TypeOK'
    BY <1>0, Distinct, ThreadFacts DEF IInv, TypeOK, process, Status, BusyStatus
  <1>2. Versioned'
    BY <1>0, Distinct, ThreadFacts DEF IInv, Versioned, InstallPc, CheckPc
  <1>3. ASSUME ~Impatient PROVE Patience'
    <2>0. Patience /\ TypeOK
      BY <1>3 DEF IInv
    <2>1. OneThread'
      BY <1>0, <2>0, ThreadFacts DEF Patience, OneThread, AtWork, BusyStatus, Thread, CheckPc, InstallPc
    <2>2. WorkSound'
      BY <1>0, <1>1, <2>0, Distinct, ThreadFacts
      DEF Patience, OneThread, WorkSound, ProcessSound, AtWork, BusyStatus, Sound, InstallPc, TypeOK, process
    <2>3. ProcessSound'
      BY <1>0, <2>0 DEF Patience, ProcessSound, AtWork, process
    <2>4. ScriptSound'
      BY <1>0, <2>0 DEF Patience, ScriptSound, OneThread, ProcessSound, AtWork, BusyStatus, process
    <2>5. OnlyVerified' /\ OneRelease' /\ OneGui'
      BY <1>0, <2>0, ProcessKept
    <2> QED
      BY <2>1, <2>2, <2>3, <2>4, <2>5 DEF Patience
  <1> QED
    BY <1>1, <1>2, <1>3 DEF IInv

LEMMA ReadStep ==
  ASSUME IInv, NEW w \in Worker, Read(w)
  PROVE  IInv'
  <1>0. /\ th' \in [Worker -> Thread]
        /\ \A x \in Worker : x # w => th'[x] = th[x]
        /\ th[w].pc = "read" /\ th'[w].pc = "report" /\ answer' = NoVersion
        /\ UNCHANGED <<process, status, info, quit, archive, extracted>>
    <2>1. [pc |-> "report", ver |-> answer, ok |-> (answer # NoVersion)] \in Thread
      <3>1. (answer # NoVersion) \in BOOLEAN
        OBVIOUS
      <3> QED
        BY <3>1 DEF IInv, TypeOK, Thread, CheckPc
    <2> QED
      BY <2>1 DEF IInv, TypeOK, Read
  <1>1. TypeOK'
    BY <1>0, Distinct, ThreadFacts DEF IInv, TypeOK, process, Status, BusyStatus
  <1>2. Versioned'
    BY <1>0, Distinct, ThreadFacts DEF IInv, Versioned, InstallPc, CheckPc
  <1>3. ASSUME ~Impatient PROVE Patience'
    <2>0. Patience /\ TypeOK
      BY <1>3 DEF IInv
    <2>1. OneThread'
      BY <1>0, <2>0, ThreadFacts DEF Patience, OneThread, AtWork, BusyStatus, Thread, CheckPc, InstallPc
    <2>2. WorkSound'
      BY <1>0, <1>1, <2>0, Distinct, ThreadFacts
      DEF Patience, OneThread, WorkSound, ProcessSound, AtWork, BusyStatus, Sound, InstallPc, TypeOK, process
    <2>3. ProcessSound'
      BY <1>0, <2>0 DEF Patience, ProcessSound, AtWork, process
    <2>4. ScriptSound'
      BY <1>0, <2>0 DEF Patience, ScriptSound, OneThread, ProcessSound, AtWork, BusyStatus, process
    <2>5. OnlyVerified' /\ OneRelease' /\ OneGui'
      BY <1>0, <2>0, ProcessKept
    <2> QED
      BY <2>1, <2>2, <2>3, <2>4, <2>5 DEF Patience
  <1> QED
    BY <1>1, <1>2, <1>3 DEF IInv

LEMMA AskStep ==
  ASSUME IInv, NEW w \in Worker, Ask(w)
  PROVE  IInv'
  <1>0. /\ th' \in [Worker -> Thread]
        /\ \A x \in Worker : x # w => th'[x] = th[x]
        /\ th[w].pc = "ask" /\ th'[w].pc \in {"read", "report"}
        /\ answer' \in Version \cup {NoVersion}
        /\ UNCHANGED <<process, status, info, quit, archive, extracted>>
    BY DEF IInv, TypeOK, Thread, CheckPc, InstallPc, Ask, Goto
  <1>1. TypeOK'
    BY <1>0, Distinct, ThreadFacts DEF IInv, TypeOK, process, Status, BusyStatus
  <1>2. Versioned'
    BY <1>0, Distinct, ThreadFacts DEF IInv, Versioned, InstallPc, CheckPc
  <1>3. ASSUME ~Impatient PROVE Patience'
    <2>0. Patience /\ TypeOK
      BY <1>3 DEF IInv
    <2>1. OneThread'
      BY <1>0, <2>0, ThreadFacts DEF Patience, OneThread, AtWork, BusyStatus, Thread, CheckPc, InstallPc
    <2>2. WorkSound'
      BY <1>0, <1>1, <2>0, Distinct, ThreadFacts
      DEF Patience, OneThread, WorkSound, ProcessSound, AtWork, BusyStatus, Sound, InstallPc, TypeOK, process
    <2>3. ProcessSound'
      BY <1>0, <2>0 DEF Patience, ProcessSound, AtWork, process
    <2>4. ScriptSound'
      BY <1>0, <2>0 DEF Patience, ScriptSound, OneThread, ProcessSound, AtWork, BusyStatus, process
    <2>5. OnlyVerified' /\ OneRelease' /\ OneGui'
      BY <1>0, <2>0, ProcessKept
    <2> QED
      BY <2>1, <2>2, <2>3, <2>4, <2>5 DEF Patience
  <1> QED
    BY <1>1, <1>2, <1>3 DEF IInv

LEMMA ReportStep ==
  ASSUME IInv, NEW w \in Worker, Report(w)
  PROVE  IInv'
  <1>0. /\ th' \in [Worker -> Thread]
        /\ \A x \in Worker : x # w => th'[x] = th[x]
        /\ th[w].pc = "report" /\ th'[w].pc = "idle"
        /\ info' \in Version \cup {NoVersion} /\ (info' # NoVersion => info' > running)
        /\ status' \in {"failed", "norelease", "uptodate", "available"}
        /\ UNCHANGED <<process, quit, answer, archive, extracted>>
    <2>1. PICK s \in IF th[w].ok THEN Offered(th[w].ver) ELSE {"failed"} :
            status' = s /\ info' = IF s = "available" THEN th[w].ver ELSE NoVersion
      BY DEF Report
    <2>2. th[w].ver \in Nat /\ running \in Nat
      <3>1. th[w].ver \in Version \cup {NoVersion} /\ running \in Version
        BY ThreadFacts DEF IInv, TypeOK
      <3>2. NoVersion \in Nat /\ Version \subseteq Nat
        BY UpdaterAssumption DEF NoVersion, Version
      <3> QED
        BY <3>1, <3>2
    <2>3. s = "available" => th[w].ver > running
      BY <2>1, <2>2 DEF Offered
    <2>4. s \in {"failed", "norelease", "uptodate", "available"}
      BY <2>1 DEF Offered
    <2> QED
      BY <2>1, <2>3, <2>4, RestFacts, ThreadFacts DEF IInv, Report
  <1>1. TypeOK'
    BY <1>0, Distinct, ThreadFacts DEF IInv, TypeOK, process, Status, BusyStatus
  <1>2. Versioned'
    BY <1>0, Distinct, ThreadFacts DEF IInv, Versioned, InstallPc, CheckPc
  <1>3. ASSUME ~Impatient PROVE Patience'
    <2>0. Patience /\ TypeOK
      BY <1>3 DEF IInv
    <2>1. OneThread'
      BY <1>0, <2>0, ThreadFacts DEF Patience, OneThread, AtWork, BusyStatus, Thread, CheckPc, InstallPc
    <2>2. WorkSound'
      BY <1>0, <1>1, <2>0, Distinct, ThreadFacts
      DEF Patience, OneThread, WorkSound, ProcessSound, AtWork, BusyStatus, Sound, InstallPc, TypeOK, process
    <2>3. ProcessSound'
      BY <1>0, <2>0 DEF Patience, ProcessSound, AtWork, process
    <2>4. ScriptSound'
      BY <1>0, <2>0 DEF Patience, ScriptSound, OneThread, ProcessSound, AtWork, BusyStatus, process
    <2>5. OnlyVerified' /\ OneRelease' /\ OneGui'
      BY <1>0, <2>0, ProcessKept
    <2> QED
      BY <2>1, <2>2, <2>3, <2>4, <2>5 DEF Patience
  <1> QED
    BY <1>1, <1>2, <1>3 DEF IInv

LEMMA BeginStep ==
  ASSUME IInv, NEW w \in Worker, Begin(w)
  PROVE  IInv'
  <1>0. /\ th' \in [Worker -> Thread]
        /\ \A x \in Worker : x # w => th'[x] = th[x]
        /\ th[w].pc = "begin" /\ th'[w].pc \in {"open", "idle"} /\ th'[w].ver \in {th[w].ver, NoVersion}
        /\ th'[w].pc = "open" => th'[w].ver = th[w].ver
        /\ archive' = Nothing /\ extracted' = Nothing /\ status' \in {status, "failed"}
        /\ UNCHANGED <<process, info, quit, answer>>
    BY GotoFacts, RestFacts, IdleFacts DEF IInv, CheckPc, InstallPc, Begin, Fails
  <1>1. TypeOK'
    BY <1>0, Distinct, ThreadFacts DEF IInv, TypeOK, process, Status, BusyStatus
  <1>2. Versioned'
    BY <1>0, Distinct, ThreadFacts DEF IInv, Versioned, InstallPc, CheckPc
  <1>3. ASSUME ~Impatient PROVE Patience'
    <2>0. Patience /\ TypeOK
      BY <1>3 DEF IInv
    <2>1. OneThread'
      BY <1>0, <2>0, ThreadFacts DEF Patience, OneThread, AtWork, BusyStatus, Thread, CheckPc, InstallPc
    <2>2. WorkSound'
      BY <1>0, <1>1, <2>0, Distinct, ThreadFacts
      DEF Patience, OneThread, WorkSound, ProcessSound, AtWork, BusyStatus, Sound, InstallPc, TypeOK, process
    <2>3. ProcessSound'
      BY <1>0, <2>0 DEF Patience, ProcessSound, AtWork, process
    <2>4. ScriptSound'
      BY <1>0, <2>0 DEF Patience, ScriptSound, OneThread, ProcessSound, AtWork, BusyStatus, process
    <2>5. OnlyVerified' /\ OneRelease' /\ OneGui'
      BY <1>0, <2>0, ProcessKept
    <2> QED
      BY <2>1, <2>2, <2>3, <2>4, <2>5 DEF Patience
  <1> QED
    BY <1>1, <1>2, <1>3 DEF IInv

LEMMA OpenStep ==
  ASSUME IInv, NEW w \in Worker, Open(w)
  PROVE  IInv'
  <1>0. /\ th' \in [Worker -> Thread]
        /\ \A x \in Worker : x # w => th'[x] = th[x]
        /\ th[w].pc = "open" /\ th'[w].pc = "download" /\ th'[w].ver = th[w].ver
        /\ status' = "downloading" /\ archive' \in Archive /\ archive'.ver = th[w].ver
        /\ UNCHANGED <<process, info, quit, answer, extracted>>
    BY GotoFacts, ThreadFacts, Distinct DEF IInv, CheckPc, InstallPc, TypeOK, Versioned, Archive, Content, Open
  <1>1. TypeOK'
    BY <1>0, Distinct, ThreadFacts DEF IInv, TypeOK, process, Status, BusyStatus
  <1>2. Versioned'
    BY <1>0, Distinct, ThreadFacts DEF IInv, Versioned, InstallPc, CheckPc
  <1>3. ASSUME ~Impatient PROVE Patience'
    <2>0. Patience /\ TypeOK
      BY <1>3 DEF IInv
    <2>1. OneThread'
      BY <1>0, <2>0, ThreadFacts DEF Patience, OneThread, AtWork, BusyStatus, Thread, CheckPc, InstallPc
    <2>2. WorkSound'
      BY <1>0, <1>1, <2>0, Distinct, ThreadFacts
      DEF Patience, OneThread, WorkSound, ProcessSound, AtWork, BusyStatus, Sound, InstallPc, TypeOK, process
    <2>3. ProcessSound'
      BY <1>0, <2>0 DEF Patience, ProcessSound, AtWork, process
    <2>4. ScriptSound'
      BY <1>0, <2>0 DEF Patience, ScriptSound, OneThread, ProcessSound, AtWork, BusyStatus, process
    <2>5. OnlyVerified' /\ OneRelease' /\ OneGui'
      BY <1>0, <2>0, ProcessKept
    <2> QED
      BY <2>1, <2>2, <2>3, <2>4, <2>5 DEF Patience
  <1> QED
    BY <1>1, <1>2, <1>3 DEF IInv

LEMMA DownloadStep ==
  ASSUME IInv, NEW w \in Worker, Download(w)
  PROVE  IInv'
  <1>0. /\ th' \in [Worker -> Thread]
        /\ \A x \in Worker : x # w => th'[x] = th[x]
        /\ th[w].pc = "download" /\ th'[w].ver = th[w].ver
        /\ th'[w].pc = (IF th[w].ver \in Checksummed THEN "verify" ELSE "extract")
        /\ archive # Nothing => archive' \in Archive /\ archive'.ver = archive.ver
        /\ archive = Nothing => archive' = Nothing
        /\ UNCHANGED <<process, status, info, quit, answer, extracted>>
    <2>1. PICK good \in BOOLEAN :
            archive' = IF archive # Nothing /\ archive.by = w
                       THEN [by |-> w, ver |-> archive.ver, good |-> good, whole |-> TRUE]
                       ELSE archive
      BY DEF Download
    <2>2. archive # Nothing => archive' \in Archive /\ archive'.ver = archive.ver
      <3>1. archive # Nothing => archive \in Archive
        BY DEF IInv, TypeOK
      <3> QED
        BY <2>1, <3>1 DEF Archive
    <2>3. archive = Nothing => archive' = Nothing
      BY <2>1
    <2> QED
      BY <2>2, <2>3, GotoFacts DEF IInv, CheckPc, InstallPc, Download
  <1>1. TypeOK'
    BY <1>0, Distinct, ThreadFacts DEF IInv, TypeOK, process, Status, BusyStatus
  <1>2. Versioned'
    BY <1>0, Distinct, ThreadFacts DEF IInv, Versioned, InstallPc, CheckPc
  <1>3. ASSUME ~Impatient PROVE Patience'
    <2>0. Patience /\ TypeOK
      BY <1>3 DEF IInv
    <2>1. OneThread'
      BY <1>0, <2>0, ThreadFacts DEF Patience, OneThread, AtWork, BusyStatus, Thread, CheckPc, InstallPc
    <2>2. WorkSound'
      BY <1>0, <1>1, <2>0, Distinct, ThreadFacts
      DEF Patience, OneThread, WorkSound, ProcessSound, AtWork, BusyStatus, Sound, InstallPc, TypeOK, process
    <2>3. ProcessSound'
      BY <1>0, <2>0 DEF Patience, ProcessSound, AtWork, process
    <2>4. ScriptSound'
      BY <1>0, <2>0 DEF Patience, ScriptSound, OneThread, ProcessSound, AtWork, BusyStatus, process
    <2>5. OnlyVerified' /\ OneRelease' /\ OneGui'
      BY <1>0, <2>0, ProcessKept
    <2> QED
      BY <2>1, <2>2, <2>3, <2>4, <2>5 DEF Patience
  <1> QED
    BY <1>1, <1>2, <1>3 DEF IInv

LEMMA VerifyStep ==
  ASSUME IInv, NEW w \in Worker, Verify(w)
  PROVE  IInv'
  <1>0. /\ th' \in [Worker -> Thread]
        /\ \A x \in Worker : x # w => th'[x] = th[x]
        /\ th[w].pc = "verify" /\ th'[w].pc = "compare" /\ th'[w].ver = th[w].ver
        /\ status' = "verifying"
        /\ UNCHANGED <<process, info, quit, answer, archive, extracted>>
    BY GotoFacts DEF IInv, CheckPc, InstallPc, Verify
  <1>1. TypeOK'
    BY <1>0, Distinct, ThreadFacts DEF IInv, TypeOK, process, Status, BusyStatus
  <1>2. Versioned'
    BY <1>0, Distinct, ThreadFacts DEF IInv, Versioned, InstallPc, CheckPc
  <1>3. ASSUME ~Impatient PROVE Patience'
    <2>0. Patience /\ TypeOK
      BY <1>3 DEF IInv
    <2>1. OneThread'
      BY <1>0, <2>0, ThreadFacts DEF Patience, OneThread, AtWork, BusyStatus, Thread, CheckPc, InstallPc
    <2>2. WorkSound'
      BY <1>0, <1>1, <2>0, Distinct, ThreadFacts
      DEF Patience, OneThread, WorkSound, ProcessSound, AtWork, BusyStatus, Sound, InstallPc, TypeOK, process
    <2>3. ProcessSound'
      BY <1>0, <2>0 DEF Patience, ProcessSound, AtWork, process
    <2>4. ScriptSound'
      BY <1>0, <2>0 DEF Patience, ScriptSound, OneThread, ProcessSound, AtWork, BusyStatus, process
    <2>5. OnlyVerified' /\ OneRelease' /\ OneGui'
      BY <1>0, <2>0, ProcessKept
    <2> QED
      BY <2>1, <2>2, <2>3, <2>4, <2>5 DEF Patience
  <1> QED
    BY <1>1, <1>2, <1>3 DEF IInv

LEMMA CompareStep ==
  ASSUME IInv, NEW w \in Worker, Compare(w)
  PROVE  IInv'
  <1>0. /\ th' \in [Worker -> Thread]
        /\ \A x \in Worker : x # w => th'[x] = th[x]
        /\ th[w].pc = "compare" /\ th'[w].pc = "extract" /\ th'[w].ver = th[w].ver
        /\ archive # Nothing /\ archive.good
        /\ UNCHANGED <<process, status, info, quit, answer, archive, extracted>>
    BY GotoFacts DEF IInv, CheckPc, InstallPc, Compare, Matches
  <1>1. TypeOK'
    BY <1>0, Distinct, ThreadFacts DEF IInv, TypeOK, process, Status, BusyStatus
  <1>2. Versioned'
    BY <1>0, Distinct, ThreadFacts DEF IInv, Versioned, InstallPc, CheckPc
  <1>3. ASSUME ~Impatient PROVE Patience'
    <2>0. Patience /\ TypeOK
      BY <1>3 DEF IInv
    <2>1. OneThread'
      BY <1>0, <2>0, ThreadFacts DEF Patience, OneThread, AtWork, BusyStatus, Thread, CheckPc, InstallPc
    <2>2. WorkSound'
      BY <1>0, <1>1, <2>0, Distinct, ThreadFacts
      DEF Patience, OneThread, WorkSound, ProcessSound, AtWork, BusyStatus, Sound, InstallPc, TypeOK, process
    <2>3. ProcessSound'
      BY <1>0, <2>0 DEF Patience, ProcessSound, AtWork, process
    <2>4. ScriptSound'
      BY <1>0, <2>0 DEF Patience, ScriptSound, OneThread, ProcessSound, AtWork, BusyStatus, process
    <2>5. OnlyVerified' /\ OneRelease' /\ OneGui'
      BY <1>0, <2>0, ProcessKept
    <2> QED
      BY <2>1, <2>2, <2>3, <2>4, <2>5 DEF Patience
  <1> QED
    BY <1>1, <1>2, <1>3 DEF IInv

LEMMA ExtractStep ==
  ASSUME IInv, NEW w \in Worker, Extract(w)
  PROVE  IInv'
  <1>0. /\ th' \in [Worker -> Thread]
        /\ \A x \in Worker : x # w => th'[x] = th[x]
        /\ th[w].pc = "extract" /\ th'[w].pc = "unpack" /\ th'[w].ver = th[w].ver
        /\ status' = "extracting"
        /\ UNCHANGED <<process, info, quit, answer, archive, extracted>>
    BY GotoFacts DEF IInv, CheckPc, InstallPc, Extract
  <1>1. TypeOK'
    BY <1>0, Distinct, ThreadFacts DEF IInv, TypeOK, process, Status, BusyStatus
  <1>2. Versioned'
    BY <1>0, Distinct, ThreadFacts DEF IInv, Versioned, InstallPc, CheckPc
  <1>3. ASSUME ~Impatient PROVE Patience'
    <2>0. Patience /\ TypeOK
      BY <1>3 DEF IInv
    <2>1. OneThread'
      BY <1>0, <2>0, ThreadFacts DEF Patience, OneThread, AtWork, BusyStatus, Thread, CheckPc, InstallPc
    <2>2. WorkSound'
      BY <1>0, <1>1, <2>0, Distinct, ThreadFacts
      DEF Patience, OneThread, WorkSound, ProcessSound, AtWork, BusyStatus, Sound, InstallPc, TypeOK, process
    <2>3. ProcessSound'
      BY <1>0, <2>0 DEF Patience, ProcessSound, AtWork, process
    <2>4. ScriptSound'
      BY <1>0, <2>0 DEF Patience, ScriptSound, OneThread, ProcessSound, AtWork, BusyStatus, process
    <2>5. OnlyVerified' /\ OneRelease' /\ OneGui'
      BY <1>0, <2>0, ProcessKept
    <2> QED
      BY <2>1, <2>2, <2>3, <2>4, <2>5 DEF Patience
  <1> QED
    BY <1>1, <1>2, <1>3 DEF IInv

LEMMA UnpackStep ==
  ASSUME IInv, NEW w \in Worker, Unpack(w)
  PROVE  IInv'
  <1>0. /\ th' \in [Worker -> Thread]
        /\ \A x \in Worker : x # w => th'[x] = th[x]
        /\ th[w].pc = "unpack" /\ th'[w].pc = "apply" /\ th'[w].ver = th[w].ver
        /\ archive # Nothing /\ extracted' \in Content
        /\ extracted'.ver = archive.ver /\ extracted'.good = archive.good
        /\ UNCHANGED <<process, status, info, quit, answer, archive>>
    <2>1. /\ TypeOK /\ th[w].pc = "unpack" /\ archive # Nothing /\ Goto(w, "apply")
          /\ extracted' = [ver |-> archive.ver, good |-> archive.good]
          /\ UNCHANGED <<process, status, info, quit, answer, archive>>
      BY DEF IInv, Unpack
    <2>2. archive.ver \in Version /\ archive.good \in BOOLEAN
      BY <2>1, Distinct DEF TypeOK, Archive
    <2>3. extracted' \in Content
      BY <2>1, <2>2 DEF Content
    <2>4. "apply" \in InstallPc
      BY DEF InstallPc
    <2> QED
      BY <2>1, <2>3, <2>4, GotoFacts
  <1>1. TypeOK'
    BY <1>0, Distinct, ThreadFacts DEF IInv, TypeOK, process, Status, BusyStatus
  <1>2. Versioned'
    BY <1>0, Distinct, ThreadFacts DEF IInv, Versioned, InstallPc, CheckPc
  <1>3. ASSUME ~Impatient PROVE Patience'
    <2>0. Patience /\ TypeOK
      BY <1>3 DEF IInv
    <2>1. OneThread'
      BY <1>0, <2>0, ThreadFacts DEF Patience, OneThread, AtWork, BusyStatus, Thread, CheckPc, InstallPc
    <2>2. WorkSound'
      BY <1>0, <1>1, <2>0, Distinct, ThreadFacts
      DEF Patience, OneThread, WorkSound, ProcessSound, AtWork, BusyStatus, Sound, InstallPc, TypeOK, process
    <2>3. ProcessSound'
      BY <1>0, <2>0 DEF Patience, ProcessSound, AtWork, process
    <2>4. ScriptSound'
      BY <1>0, <2>0 DEF Patience, ScriptSound, OneThread, ProcessSound, AtWork, BusyStatus, process
    <2>5. OnlyVerified' /\ OneRelease' /\ OneGui'
      BY <1>0, <2>0, ProcessKept
    <2> QED
      BY <2>1, <2>2, <2>3, <2>4, <2>5 DEF Patience
  <1> QED
    BY <1>1, <1>2, <1>3 DEF IInv

LEMMA DoneStep ==
  ASSUME IInv, NEW w \in Worker, Done(w)
  PROVE  IInv'
  <1>0. /\ th' \in [Worker -> Thread]
        /\ \A x \in Worker : x # w => th'[x] = th[x]
        /\ th[w].pc = "done" /\ th'[w].pc = "idle"
        /\ status' = "applying" /\ quit' = TRUE
        /\ UNCHANGED <<process, info, answer, archive, extracted>>
    BY RestFacts DEF IInv, Done
  <1>1. TypeOK'
    BY <1>0, Distinct, ThreadFacts DEF IInv, TypeOK, process, Status, BusyStatus
  <1>2. Versioned'
    BY <1>0, Distinct, ThreadFacts DEF IInv, Versioned, InstallPc, CheckPc
  <1>3. ASSUME ~Impatient PROVE Patience'
    <2>0. Patience /\ TypeOK
      BY <1>3 DEF IInv
    <2>1. OneThread'
      BY <1>0, <2>0, ThreadFacts DEF Patience, OneThread, AtWork, BusyStatus, Thread, CheckPc, InstallPc
    <2>2. WorkSound'
      BY <1>0, <1>1, <2>0, Distinct, ThreadFacts
      DEF Patience, OneThread, WorkSound, ProcessSound, AtWork, BusyStatus, Sound, InstallPc, TypeOK, process
    <2>3. ProcessSound'
      BY <1>0, <2>0 DEF Patience, ProcessSound, AtWork, process
    <2>4. ScriptSound'
      BY <1>0, <2>0 DEF Patience, ScriptSound, OneThread, ProcessSound, AtWork, BusyStatus, process
    <2>5. OnlyVerified' /\ OneRelease' /\ OneGui'
      BY <1>0, <2>0, ProcessKept
    <2> QED
      BY <2>1, <2>2, <2>3, <2>4, <2>5 DEF Patience
  <1> QED
    BY <1>1, <1>2, <1>3 DEF IInv

LEMMA FailStep ==
  ASSUME IInv, NEW w \in Worker, Fail(w)
  PROVE  IInv'
  <1>0. /\ th' \in [Worker -> Thread]
        /\ \A x \in Worker : x # w => th'[x] = th[x]
        /\ th[w].pc \in {"download", "compare", "unpack", "apply"} /\ th'[w].pc = "idle"
        /\ status' = "failed"
        /\ UNCHANGED <<process, info, quit, answer, archive, extracted>>
    BY RestFacts DEF IInv, Fail, Fails
  <1>1. TypeOK'
    BY <1>0, Distinct, ThreadFacts DEF IInv, TypeOK, process, Status, BusyStatus
  <1>2. Versioned'
    BY <1>0, Distinct, ThreadFacts DEF IInv, Versioned, InstallPc, CheckPc
  <1>3. ASSUME ~Impatient PROVE Patience'
    <2>0. Patience /\ TypeOK
      BY <1>3 DEF IInv
    <2>1. OneThread'
      BY <1>0, <2>0, ThreadFacts DEF Patience, OneThread, AtWork, BusyStatus, Thread, CheckPc, InstallPc
    <2>2. WorkSound'
      BY <1>0, <1>1, <2>0, Distinct, ThreadFacts
      DEF Patience, OneThread, WorkSound, ProcessSound, AtWork, BusyStatus, Sound, InstallPc, TypeOK, process
    <2>3. ProcessSound'
      BY <1>0, <2>0 DEF Patience, ProcessSound, AtWork, process
    <2>4. ScriptSound'
      BY <1>0, <2>0 DEF Patience, ScriptSound, OneThread, ProcessSound, AtWork, BusyStatus, process
    <2>5. OnlyVerified' /\ OneRelease' /\ OneGui'
      BY <1>0, <2>0, ProcessKept
    <2> QED
      BY <2>1, <2>2, <2>3, <2>4, <2>5 DEF Patience
  <1> QED
    BY <1>1, <1>2, <1>3 DEF IInv

LEMMA ProgressStep ==
  ASSUME IInv, NEW w \in Worker, Progress(w)
  PROVE  IInv'
  <1>0. /\ th[w].pc = "download" /\ status' = "downloading"
        /\ UNCHANGED <<process, info, quit, answer, archive, extracted, th>>
    BY DEF Progress
  <1>1. TypeOK' /\ Versioned'
    BY <1>0 DEF IInv, TypeOK, Versioned, process, Status, BusyStatus
  <1>2. ASSUME ~Impatient PROVE Patience'
    <2>0. Patience
      BY <1>2 DEF IInv
    <2>1. OneThread' /\ WorkSound' /\ ProcessSound'
      BY <1>0, <2>0 DEF Patience, OneThread, WorkSound, ProcessSound, AtWork, BusyStatus, Sound, process
    <2>2. ScriptSound'
      BY <1>0, <2>0 DEF Patience, ScriptSound, OneThread, AtWork, Sound, process
    <2>3. OnlyVerified' /\ OneRelease' /\ OneGui'
      BY <1>0, <2>0, ProcessKept
    <2> QED
      BY <2>1, <2>2, <2>3 DEF Patience
  <1> QED
    BY <1>1, <1>2 DEF IInv

LEMMA ApplyStep ==
  ASSUME IInv, NEW w \in Worker, Apply(w)
  PROVE  IInv'
  <1> DEFINE n == [done |-> {}, payload |-> Nothing, waits |-> TRUE, ver |-> th[w].ver]
  <1>0. /\ th' \in [Worker -> Thread]
        /\ \A x \in Worker : x # w => th'[x] = th[x]
        /\ th[w].pc = "apply" /\ th'[w].pc = "done" /\ th'[w].ver = th[w].ver
        /\ scripts' = scripts \cup {n}
        /\ UNCHANGED <<installed, alive, running, launches, shared, damaged, twice>>
    BY GotoFacts DEF IInv, CheckPc, InstallPc, Apply
  <1>n. n \in Script /\ n.done = {} /\ n.waits /\ n.ver = th[w].ver
    BY <1>0, ThreadFacts DEF IInv, Versioned, InstallPc, Script
  <1> HIDE DEF n
  <1>1. TypeOK'
    BY <1>0, <1>n DEF IInv, TypeOK, shared
  <1>2. Versioned'
    BY <1>0 DEF IInv, Versioned, InstallPc
  <1>3. ASSUME ~Impatient PROVE Patience'
    <2>0. Patience
      BY <1>3 DEF IInv
    <2>1. alive /\ \A x \in Worker : AtWork(x) => x = w
      BY <1>0, <2>0 DEF Patience, OneThread, ProcessSound, AtWork
    <2>2. scripts = {}
      BY <1>0, <2>0, <2>1 DEF Patience, OneThread, ScriptSound, AtWork
    <2>3. Sound(extracted) /\ extracted.ver = n.ver
      BY <1>0, <1>n, <2>0 DEF Patience, WorkSound
    <2>4. n.ver >= installed[Gui].ver
      BY <1>0, <1>n, <2>0, <2>1, Distinct, UpdaterAssumption, ThreadFacts
      DEF IInv, TypeOK, Patience, WorkSound, ProcessSound, InstallPc, Versioned
    <2>5. OneThread' /\ WorkSound' /\ ProcessSound'
      BY <1>0, <2>0, <2>1
      DEF Patience, OneThread, WorkSound, ProcessSound, AtWork, Sound, InstallPc, BusyStatus, shared
    <2>6. ScriptSound'
      BY <1>0, <1>n, <2>1, <2>2, <2>3, <2>4 DEF ScriptSound, Sound, shared
    <2>7. OnlyVerified' /\ OneRelease' /\ OneGui'
      BY <1>0, <1>n, <2>0, <2>2 DEF Patience, OnlyVerified, OneRelease, OneGui
    <2> QED
      BY <2>5, <2>6, <2>7 DEF Patience
  <1> QED
    BY <1>1, <1>2, <1>3 DEF IInv

-----------------------------------------------------------------------------
(* The user and the process.                                                *)

LEMMA StartCheckStep ==
  ASSUME IInv, NEW w \in Worker, StartCheck(w)
  PROVE  IInv'
  <1>0. /\ th' \in [Worker -> Thread]
        /\ \A x \in Worker : x # w => th'[x] = th[x]
        /\ alive /\ Clicked /\ status \notin BusyStatus /\ th'[w].pc = "start"
        /\ UNCHANGED <<installed, alive, running, launches, shared, scripts, damaged, twice>>
    BY GotoFacts DEF IInv, CheckPc, InstallPc, StartCheck
  <1>1. TypeOK'
    BY <1>0 DEF IInv, TypeOK, shared
  <1>2. Versioned'
    BY <1>0 DEF IInv, Versioned, InstallPc
  <1>3. ASSUME ~Impatient PROVE Patience'
    <2>0. Patience
      BY <1>3 DEF IInv
    <2>1. \A x \in Worker : ~AtWork(x)
      BY <1>0, <1>3, <2>0 DEF Patience, OneThread, Clicked, Unseen, AtWork
    <2>2. OneThread' /\ WorkSound' /\ ProcessSound'
      BY <1>0, <2>0, <2>1
      DEF Patience, OneThread, WorkSound, ProcessSound, AtWork, Sound, InstallPc, BusyStatus, shared
    <2>3. ScriptSound'
      BY <1>0, <2>0, <2>1 DEF Patience, ScriptSound, AtWork, Sound, shared
    <2>4. OnlyVerified' /\ OneRelease' /\ OneGui'
      BY <1>0, <2>0 DEF Patience, OnlyVerified, OneRelease, OneGui
    <2> QED
      BY <2>2, <2>3, <2>4 DEF Patience
  <1> QED
    BY <1>1, <1>2, <1>3 DEF IInv

LEMMA StartInstallStep ==
  ASSUME IInv, NEW w \in Worker, StartInstall(w)
  PROVE  IInv'
  <1> DEFINE n == [Idle EXCEPT !.pc = "begin", !.ver = info]
  <1>n. n \in Thread /\ n.pc = "begin" /\ n.ver = info
    BY DEF Idle, Thread, CheckPc, InstallPc, IInv, TypeOK
  <1> HIDE DEF n
  <1>0. /\ th' \in [Worker -> Thread] /\ th'[w] = n
        /\ \A x \in Worker : x # w => th'[x] = th[x]
        /\ alive /\ Clicked /\ status = "available" /\ info # NoVersion
        /\ UNCHANGED <<installed, alive, running, launches, shared, scripts, damaged, twice>>
    BY <1>n DEF IInv, TypeOK, StartInstall, n
  <1>1. TypeOK'
    BY <1>0 DEF IInv, TypeOK, shared
  <1>2. Versioned'
    BY <1>0, <1>n DEF IInv, Versioned, TypeOK
  <1>3. ASSUME ~Impatient PROVE Patience'
    <2>0. Patience
      BY <1>3 DEF IInv
    <2>1. \A x \in Worker : ~AtWork(x)
      BY <1>0, <1>3, <2>0 DEF Patience, OneThread, Clicked, Unseen, AtWork, BusyStatus
    <2>2. OneThread' /\ WorkSound' /\ ProcessSound'
      BY <1>0, <1>n, <2>0, <2>1
      DEF Patience, OneThread, WorkSound, ProcessSound, AtWork, Sound, InstallPc, BusyStatus, shared
    <2>3. ScriptSound'
      BY <1>0, <2>0, <2>1 DEF Patience, ScriptSound, AtWork, Sound, shared
    <2>4. OnlyVerified' /\ OneRelease' /\ OneGui'
      BY <1>0, <2>0 DEF Patience, OnlyVerified, OneRelease, OneGui
    <2> QED
      BY <2>2, <2>3, <2>4 DEF Patience
  <1> QED
    BY <1>1, <1>2, <1>3 DEF IInv

LEMMA EndedStep == ASSUME IInv, Ended PROVE IInv'
  <1> DEFINE after(s) == IF s.waits THEN [s EXCEPT !.payload = extracted, !.waits = FALSE] ELSE s
  <1>0. /\ alive /\ ~alive' /\ th' = [w \in Worker |-> Idle]
        /\ scripts' = {after(s) : s \in scripts}
        /\ status' = "idle" /\ info' = NoVersion /\ quit' = FALSE /\ answer' = NoVersion
        /\ archive' = Nothing /\ extracted' = Nothing /\ alive' \in BOOLEAN
        /\ UNCHANGED <<installed, running, launches, damaged, twice>>
    BY DEF Ended
  <1>1. \A s \in scripts : /\ after(s) \in Script /\ after(s).done = s.done
                           /\ after(s).ver = s.ver /\ after(s).waits = FALSE
                           /\ s.waits => after(s).payload = extracted
                           /\ ~s.waits => after(s).payload = s.payload
    <2> SUFFICES ASSUME NEW s \in scripts
                 PROVE  /\ after(s) \in Script /\ after(s).done = s.done
                        /\ after(s).ver = s.ver /\ after(s).waits = FALSE
                        /\ s.waits => after(s).payload = extracted
                        /\ ~s.waits => after(s).payload = s.payload
      OBVIOUS
    <2>1. s \in Script /\ extracted \in Content \cup {Nothing}
      BY DEF IInv, TypeOK
    <2>2. CASE s.waits
      <3>1. after(s) = [done |-> s.done, payload |-> extracted, waits |-> FALSE, ver |-> s.ver]
        BY <2>1, <2>2 DEF Script
      <3> HIDE DEF after
      <3> QED
        BY <2>1, <2>2, <3>1 DEF Script
    <2>3. CASE ~s.waits
      BY <2>1, <2>3 DEF Script
    <2> QED
      BY <2>2, <2>3
  <1> HIDE DEF after
  <1>2. TypeOK'
    BY <1>0, <1>1, IdleFacts DEF IInv, TypeOK, Status
  <1>3. Versioned'
    BY <1>0, IdleFacts DEF Versioned, InstallPc
  <1>4. ASSUME ~Impatient PROVE Patience'
    <2>0. Patience
      BY <1>4 DEF IInv
    <2>1. OneThread' /\ WorkSound' /\ ProcessSound'
      BY <1>0, IdleFacts DEF OneThread, WorkSound, ProcessSound, AtWork, InstallPc
    <2>2. ScriptSound'
      BY <1>0, <1>1, <2>0 DEF Patience, ScriptSound, Sound
    <2>3. OnlyVerified' /\ OneGui'
      BY <1>0, <2>0 DEF Patience, OnlyVerified, OneGui
    <2>4. OneRelease'
      BY <1>0, <1>1, <2>0 DEF Patience, OneRelease, ScriptSound
    <2> QED
      BY <2>1, <2>2, <2>3, <2>4 DEF Patience
  <1> QED
    BY <1>2, <1>3, <1>4 DEF IInv

LEMMA LaunchStep == ASSUME IInv, Launch PROVE IInv'
  <1>0. /\ ~alive /\ alive' = TRUE /\ running' = installed[Gui].ver
        /\ (Impatient \/ scripts = {}) /\ launches' \in 0..MaxLaunches
        /\ UNCHANGED <<installed, shared, th, scripts, damaged, twice>>
    BY UpdaterAssumption DEF Launch, Launched, IInv, TypeOK
  <1>1. TypeOK' /\ Versioned'
    BY <1>0, UpdaterAssumption, Distinct DEF IInv, TypeOK, Versioned, shared
  <1>2. ASSUME ~Impatient PROVE Patience'
    BY <1>0, <1>2
    DEF IInv, Patience, OneThread, WorkSound, ProcessSound, ScriptSound, OnlyVerified, OneRelease,
        OneGui, AtWork, Sound, shared, InstallPc
  <1> QED
    BY <1>1, <1>2 DEF IInv

-----------------------------------------------------------------------------
(* The script.                                                              *)

LEMMA CopyStep ==
  ASSUME IInv, NEW s \in scripts, Copy(s)
  PROVE  IInv' /\ (~Impatient => installed'[Gui].ver >= installed[Gui].ver)
  <1> PICK f \in Package \ s.done :
        /\ \/ s.payload # Nothing
              /\ installed' = [installed EXCEPT ![f] = s.payload] /\ UNCHANGED damaged
           \/ damaged' = TRUE /\ UNCHANGED installed
        /\ scripts' = (scripts \ {s}) \cup {[s EXCEPT !.done = @ \cup {f}]}
    BY DEF Copy
  <1> DEFINE n == [s EXCEPT !.done = @ \cup {f}]
  <1>0. /\ ~s.waits /\ f \in File /\ Gui \in File
        /\ UNCHANGED <<alive, running, launches, shared, th, twice>>
    BY UpdaterAssumption DEF Copy
  <1>n. /\ n \in Script /\ n.done = s.done \cup {f} /\ n.waits = s.waits
        /\ n.ver = s.ver /\ n.payload = s.payload
    <2>1. s \in Script
      BY DEF IInv, TypeOK
    <2> QED
      BY <2>1 DEF Script
  <1> HIDE DEF n
  <1>s. scripts' = (scripts \ {s}) \cup {n}
    BY DEF n
  <1>1. /\ installed' \in [File -> Content] /\ \A g \in File : g # f => installed'[g] = installed[g]
        /\ installed'[f] \in {installed[f], s.payload} /\ damaged' \in {TRUE, damaged}
        /\ ~damaged' => installed'[f] = s.payload
        /\ installed'[f] = installed[f] \/ s.payload # Nothing
    BY <1>0 DEF IInv, TypeOK, Script
  <1>2. TypeOK'
    BY <1>0, <1>n, <1>s, <1>1 DEF IInv, TypeOK, shared
  <1>3. Versioned'
    BY <1>0 DEF IInv, Versioned
  <1>4. ASSUME ~Impatient
        PROVE  Patience' /\ installed'[Gui].ver >= installed[Gui].ver
    <2>0. Patience
      BY <1>4 DEF IInv
    <2>1. /\ scripts = {s} /\ ~alive /\ Sound(s.payload) /\ s.payload.ver = s.ver
          /\ s.ver >= installed[Gui].ver
      BY <1>0, <2>0 DEF Patience, ScriptSound
    <2>2. scripts' = {n}
      BY <1>s, <2>1
    <2>3. installed'[Gui].ver \in {installed[Gui].ver, s.ver}
      BY <1>0, <1>1, <2>1
    <2>4. installed[Gui].ver \in Nat /\ s.ver \in Nat
      BY <1>0, Distinct DEF IInv, TypeOK, Script
    <2>5. OneThread' /\ WorkSound' /\ ProcessSound'
      BY <1>0, <2>0, <2>1
      DEF Patience, OneThread, WorkSound, ProcessSound, AtWork, Sound, shared
    <2>6. ScriptSound'
      BY <1>0, <1>n, <2>1, <2>2, <2>3, <2>4 DEF ScriptSound, Sound
    <2>7. OnlyVerified' /\ OneGui'
      BY <1>0, <1>1, <2>0, <2>1 DEF Patience, OnlyVerified, OneGui, Sound
    <2>8. OneRelease'
      <3> SUFFICES ASSUME ~damaged'
                   PROVE  /\ \A g \in n.done : ~n.waits /\ installed'[g] = n.payload
                          /\ \A g, h \in Package \ n.done : installed'[g] = installed'[h]
        BY <2>1, <2>2, <1>0 DEF OneRelease
      <3>1. ~damaged /\ n.done \subseteq File /\ Package \subseteq File
        BY <1>1, <1>n, UpdaterAssumption DEF IInv, TypeOK, Script
      <3>2. /\ \A g \in s.done : ~s.waits /\ installed[g] = s.payload
            /\ \A g, h \in Package \ s.done : installed[g] = installed[h]
        BY <3>1, <2>0 DEF Patience, OneRelease
      <3>3. \A g \in n.done : ~n.waits /\ installed'[g] = n.payload
        BY <3>1, <3>2, <1>0, <1>n, <1>1
      <3>4. \A g \in Package \ n.done : installed'[g] = installed[g] /\ g \in Package \ s.done
        BY <3>1, <1>n, <1>1
      <3> QED
        BY <3>2, <3>3, <3>4
    <2>9. installed'[Gui].ver >= installed[Gui].ver
      BY <2>1, <2>3, <2>4
    <2> QED
      BY <2>5, <2>6, <2>7, <2>8, <2>9 DEF Patience
  <1> QED
    BY <1>2, <1>3, <1>4 DEF IInv

LEMMA RelaunchStep ==
  ASSUME IInv, NEW s \in scripts, Relaunch(s)
  PROVE  IInv'
  <1>0. /\ ~s.waits /\ s.done = Package /\ scripts' = scripts \ {s} /\ launches < MaxLaunches
        /\ UNCHANGED <<installed, shared, th, damaged>>
        /\ \/ alive /\ twice' = TRUE /\ UNCHANGED <<alive, running, launches>>
           \/ ~alive /\ alive' = TRUE /\ running' = installed[Gui].ver /\ launches' = launches + 1
              /\ UNCHANGED twice
    BY DEF Relaunch, Launched
  <1>1. TypeOK' /\ Versioned'
    <2>1. installed[Gui].ver \in Version /\ (launches + 1) \in 0..MaxLaunches
      BY <1>0, UpdaterAssumption, Distinct DEF IInv, TypeOK
    <2> QED
      BY <1>0, <2>1 DEF IInv, TypeOK, Versioned, shared
  <1>2. ASSUME ~Impatient PROVE Patience'
    <2>0. Patience
      BY <1>2 DEF IInv
    <2>1. scripts = {s} /\ ~alive
      BY <1>0, <2>0 DEF Patience, ScriptSound
    <2>2. scripts' = {}
      BY <1>0, <2>1
    <2>3. OneRelease'
      BY <1>0, <2>0, <2>1, <2>2 DEF Patience, OneRelease
    <2>4. OneThread' /\ WorkSound' /\ ProcessSound' /\ ScriptSound'
      BY <1>0, <2>0, <2>1, <2>2
      DEF Patience, OneThread, WorkSound, ProcessSound, ScriptSound, AtWork, Sound, shared, InstallPc
    <2>5. OnlyVerified' /\ OneGui'
      BY <1>0, <2>0, <2>1 DEF Patience, OnlyVerified, OneGui
    <2> QED
      BY <2>3, <2>4, <2>5 DEF Patience
  <1> QED
    BY <1>1, <1>2 DEF IInv

LEMMA ScriptEndsStep ==
  ASSUME IInv, NEW s \in scripts, ScriptEnds(s)
  PROVE  IInv'
  <1>0. /\ scripts' \subseteq scripts /\ damaged' = TRUE
        /\ UNCHANGED <<installed, alive, running, launches, shared, th, twice>>
    BY DEF ScriptEnds
  <1>1. TypeOK' /\ Versioned'
    BY <1>0 DEF IInv, TypeOK, Versioned, shared
  <1>2. ASSUME ~Impatient PROVE Patience'
    BY <1>0, <1>2
    DEF IInv, Patience, OneThread, WorkSound, ProcessSound, ScriptSound, OnlyVerified, OneRelease,
        OneGui, AtWork, Sound, shared
  <1> QED
    BY <1>1, <1>2 DEF IInv

-----------------------------------------------------------------------------
(* The invariant, and what follows.                                         *)

LEMMA StutterStep == ASSUME IInv, UNCHANGED vars PROVE IInv'
  BY DEF vars, shared, IInv, TypeOK, Versioned, Patience, OneThread, WorkSound, ProcessSound,
         ScriptSound, OnlyVerified, OneRelease, OneGui, AtWork, Sound

LEMMA NextInv == IInv /\ [Next]_vars => IInv'
  <1> SUFFICES ASSUME IInv, [Next]_vars PROVE IInv'
    OBVIOUS
  <1>1. CASE User
    BY <1>1, LaunchStep, EndedStep, StartCheckStep, StartInstallStep DEF User, Quit
  <1>2. CASE CloseForUpdate
    BY <1>2, EndedStep DEF CloseForUpdate
  <1>3. CASE ScriptStep
    BY <1>3, CopyStep, RelaunchStep DEF ScriptStep
  <1>4. ASSUME NEW s \in scripts, ScriptEnds(s) PROVE IInv'
    BY <1>4, ScriptEndsStep
  <1>5. ASSUME NEW w \in Worker, CheckStep(w) PROVE IInv'
    BY <1>5, BeginCheckStep, AskStep, ReadStep, ReportStep DEF CheckStep
  <1>6. ASSUME NEW w \in Worker, InstallStep(w) PROVE IInv'
    BY <1>6, BeginStep, OpenStep, DownloadStep, VerifyStep, CompareStep, ExtractStep, UnpackStep,
       ApplyStep, DoneStep, FailStep
    DEF InstallStep
  <1>7. ASSUME NEW w \in Worker, Progress(w) PROVE IInv'
    BY <1>7, ProgressStep
  <1>8. CASE UNCHANGED vars
    BY <1>8, StutterStep
  <1> QED
    BY <1>1, <1>2, <1>3, <1>4, <1>5, <1>6, <1>7, <1>8 DEF Next, Work

LEMMA AlwaysIInv == Spec => []IInv
  BY InitInv, NextInv, PTL DEF Spec

\* Every variable is of its type, whatever the users do.
THEOREM TypeCorrect == Spec => []TypeOK
  BY AlwaysIInv, PTL DEF IInv

\* The status keeps checks and installs apart (settings_screen.rs, busy).
THEOREM OneAtATimeHolds == ASSUME ~Impatient PROVE Spec => []OneAtATime
  <1>1. IInv => OneAtATime
    <2> SUFFICES ASSUME IInv PROVE OneAtATime
      OBVIOUS
    <2>1. OneThread
      BY DEF IInv, Patience
    <2>2. Cardinality(Active) <= 1
      <3>1. CASE Active = {}
        BY <3>1, FS_EmptySet
      <3>2. CASE Active # {}
        <4>1. PICK w \in Worker : AtWork(w)
          BY <3>2 DEF Active, AtWork
        <4>2. Active = {w}
          BY <2>1, <4>1 DEF Active, OneThread, AtWork
        <4>3. Cardinality({w}) = 1
          BY FS_Singleton
        <4> QED
          BY <4>2, <4>3
      <3> QED
        BY <3>1, <3>2
    <2> QED
      BY <2>1, <2>2 DEF OneAtATime, OneThread, Active, AtWork, Unseen
  <1> QED
    BY <1>1, AlwaysIInv, PTL

\* Nothing that contradicts its checksum is ever installed (updater.rs:11).
THEOREM OnlyVerifiedHolds == ASSUME ~Impatient PROVE Spec => []OnlyVerified
  <1>1. IInv => OnlyVerified
    BY DEF IInv, Patience
  <1> QED
    BY <1>1, AlwaysIInv, PTL

\* What a script has copied is of the release that was offered, and while a GUI
\* runs the files of its package are of one release (updater.rs:11).
THEOREM NeverHalfHolds == ASSUME ~Impatient PROVE Spec => []NeverHalf
  <1>1. IInv => NeverHalf
    <2> SUFFICES ASSUME IInv, ~damaged
                 PROVE  /\ \A s \in scripts : \A f \in s.done : ~s.waits /\ installed[f].ver = s.ver
                        /\ alive => \A f \in Package : installed[f] = installed[Gui]
      BY DEF NeverHalf
    <2>1. OneRelease /\ ScriptSound
      BY DEF IInv, Patience
    <2> QED
      BY <2>1, UpdaterAssumption DEF OneRelease, ScriptSound
  <1> QED
    BY <1>1, AlwaysIInv, PTL

\* A script does not start a second GUI (write_apply_script waits for the first).
THEOREM OneGuiHolds == ASSUME ~Impatient PROVE Spec => []OneGui
  <1>1. IInv => OneGui
    BY DEF IInv, Patience
  <1> QED
    BY <1>1, AlwaysIInv, PTL

\* "No silent downgrades" (updater.rs:16), for any sequence of releases.
THEOREM NoDowngradeHolds == ASSUME ~Impatient PROVE Spec => NoDowngrade
  <1>1. IInv /\ [Next]_vars => [installed'[Gui].ver >= installed[Gui].ver]_vars
    <2> SUFFICES ASSUME IInv, Next PROVE installed'[Gui].ver >= installed[Gui].ver
      OBVIOUS
    <2>1. ASSUME NEW s \in scripts, Copy(s) PROVE installed'[Gui].ver >= installed[Gui].ver
      <3>1. ~Impatient => installed'[Gui].ver >= installed[Gui].ver
        BY <2>1, CopyStep
      <3> QED
        BY <3>1
    <2>2. installed[Gui].ver >= installed[Gui].ver
      <3>1. installed[Gui].ver \in Nat
        BY UpdaterAssumption, Distinct DEF IInv, TypeOK
      <3> QED
        BY <3>1
    <2>3. CASE installed' = installed
      BY <2>2, <2>3
    <2>4. CASE User \/ CloseForUpdate
      BY <2>3, <2>4
      DEF User, Launch, Quit, CloseForUpdate, Ended, StartCheck, StartInstall
    <2>5. ASSUME NEW s \in scripts, Relaunch(s) \/ ScriptEnds(s) PROVE installed' = installed
      BY <2>5 DEF Relaunch, ScriptEnds
    <2>6. ASSUME NEW w \in Worker, CheckStep(w) \/ Progress(w) PROVE installed' = installed
      BY <2>6 DEF CheckStep, BeginCheck, Ask, Read, Report, Progress, process
    <2>7. ASSUME NEW w \in Worker, InstallStep(w) PROVE installed' = installed
      BY <2>7
      DEF InstallStep, Begin, Open, Download, Verify, Compare, Extract, Unpack, Apply, Done, Fail,
          process
    <2> QED
      BY <2>1, <2>3, <2>4, <2>5, <2>6, <2>7 DEF Next, ScriptStep, Work
  <1> QED
    BY <1>1, AlwaysIInv, PTL DEF Spec, NoDowngrade
=============================================================================
