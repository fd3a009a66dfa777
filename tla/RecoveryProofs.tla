--------------------------- MODULE RecoveryProofs ---------------------------
(***************************************************************************)
(* Safety of hako-cmd recover for any number of assets and known files,    *)
(* with processes that die and commands that run beside it.                *)
(*                                                                         *)
(* Each process is asked once and earlier than the first removal.  That is *)
(* enough because of what the invariant relates: a live process is in the  *)
(* master memory (SessionInv), so it is among the pids still to be asked   *)
(* (JudgedInv), and nobody starts behind the question (Quiet).  A recover  *)
(* that could not open the master memory judges nothing: from then on the  *)
(* two say only that whoever lives is recorded.  RemovalInv keeps the list *)
(* of known files and the removed ones in step with what is on the disk.   *)
(***************************************************************************)
EXTENDS Recovery, TLAPS

\* Whoever lives belongs to a session that names it, complete unless recover was blind.
SessionInv ==
  live # {} =>
    /\ odd = {} /\ image = "current" /\ live \subseteq recorded
    /\ ~blind => files = Files

\* Whoever lives is still to be asked, once all are asked nobody lives; unless recover was blind.
JudgedInv ==
  ~blind =>
    /\ rec.at = "probe" => live \subseteq rec.pids
    /\ rec.at \in {"remove", "report"} => live = {}

\* What recover has listed, removed and left.
RemovalInv ==
  /\ rec.at \in {"lock", "pids", "probe"} => rec.known = files /\ rec.removed = {}
  /\ rec.at \in {"remove", "report"} => rec.removed = rec.known \ files

IInv == TypeOK /\ SessionInv /\ JudgedInv /\ RemovalInv /\ EvidenceLast /\ ReportTrue

\* A session left behind has no process, and no recover at work.
LEMMA InitIInv == Init => IInv
<1> SUFFICES ASSUME Init PROVE IInv
  OBVIOUS
<1>1. live = {} /\ rec.at = "out" /\ ~blind
  BY DEF Init, NoRec
<1>2. TypeOK
  BY DEF Init, TypeOK, NoRec, NoCmd
<1>3. SessionInv /\ JudgedInv /\ RemovalInv /\ EvidenceLast /\ ReportTrue
  BY <1>1 DEF SessionInv, JudgedInv, RemovalInv, EvidenceLast, ReportTrue
<1> QED
  BY <1>2, <1>3 DEF IInv

\* The processes: they start only beside no recover, and write nothing of its state.
LEMMA ProcessStep ==
  ASSUME IInv,
         \/ StartMaster
         \/ \E p \in AssetProcs : StartAsset(p)
         \/ \E p \in Procs : TakeLock(p) \/ FreeLock(p) \/ Die(p)
  PROVE  IInv'
<1> USE ConstantsAssumption
        DEF IInv, TypeOK, SessionInv, JudgedInv, RemovalInv, EvidenceLast, ReportTrue, Procs
<1>1. CASE StartMaster
  BY <1>1 DEF StartMaster, Quiet, Images
<1>2. ASSUME NEW p \in AssetProcs, StartAsset(p) PROVE IInv'
  BY <1>2 DEF StartAsset, Quiet
<1>3. ASSUME NEW p \in Procs, TakeLock(p) PROVE IInv'
  BY <1>3 DEF TakeLock
<1>4. ASSUME NEW p \in Procs, FreeLock(p) PROVE IInv'
  BY <1>4 DEF FreeLock
<1>5. ASSUME NEW p \in Procs, Die(p) PROVE IInv'
  BY <1>5 DEF Die
<1> QED
  BY <1>1, <1>2, <1>3, <1>4, <1>5

\* Only a process that does not live is found dead.
LEMMA DeadAreDead == \A p : "Dead" \in ProbeProcess(p) => p \notin live
  BY DEF ProbeProcess

\* recover: what it has judged stays true until it has removed the last file.
LEMMA RecoverStep == ASSUME IInv, Recover PROVE IInv'
<1> USE ConstantsAssumption
        DEF IInv, TypeOK, SessionInv, JudgedInv, RemovalInv, EvidenceLast, ReportTrue,
            Goto, Refuse, runtimeVars
<1>1. CASE RecoverList
  <2>1. CASE rec' = [NoRec EXCEPT !.at = "done", !.status = "REFUSED"]
    <3>1. rec' = [at |-> "done", known |-> {}, pids |-> {}, removed |-> {}, status |-> "REFUSED"]
      BY <2>1, Zenon DEF NoRec
    <3>2. UNCHANGED <<runtimeVars, blind, cmd>>
      BY <1>1 DEF RecoverList
    <3>3. /\ rec'.at = "done" /\ rec'.known = {} /\ rec'.pids = {} /\ rec'.removed = {}
          /\ rec'.status = "REFUSED"
      BY <3>1
    <3>4. TypeOK'
      BY <3>1, <3>2
    <3> QED
      BY <3>2, <3>3, <3>4
  <2>2. CASE rec' = [NoRec EXCEPT !.at = "lock", !.known = files]
    <3>1. rec' = [at |-> "lock", known |-> files, pids |-> {}, removed |-> {}, status |-> "none"]
      BY <2>2, Zenon DEF NoRec
    <3>2. UNCHANGED <<runtimeVars, blind, cmd>>
      BY <1>1 DEF RecoverList
    <3>3. /\ rec'.at = "lock" /\ rec'.known = files /\ rec'.pids = {} /\ rec'.removed = {}
          /\ rec'.status = "none"
      BY <3>1
    <3>4. TypeOK'
      BY <3>1, <3>2
    <3> QED
      BY <3>2, <3>3, <3>4
  <2> QED
    BY <1>1, <2>1, <2>2 DEF RecoverList
<1>2. CASE RecoverLock
  <2>1. rec.at = "lock" /\ UNCHANGED <<runtimeVars, blind, cmd>>
    BY <1>2 DEF RecoverLock
  <2>2. Goto("pids") \/ Refuse
    BY <1>2 DEF RecoverLock
  <2>3. CASE Goto("pids")
    BY <2>1, <2>3
  <2>4. CASE Refuse
    BY <2>1, <2>4
  <2> QED
    BY <2>2, <2>3, <2>4
<1>3. CASE ReadPids
  <2>1. rec.at = "pids" /\ UNCHANGED <<runtimeVars, cmd>>
    BY <1>3 DEF ReadPids
  <2>2. CASE Refuse /\ UNCHANGED blind
    BY <2>1, <2>2
  <2>3. CASE /\ MasterFile \notin files \/ image = "other"
             /\ rec' = [rec EXCEPT !.at = "probe", !.pids = {}] /\ UNCHANGED blind
    BY <2>1, <2>3
  <2>4. CASE rec' = [rec EXCEPT !.at = "probe", !.pids = {}] /\ blind' = TRUE
    BY <2>1, <2>4
  <2>5. CASE rec' = [rec EXCEPT !.at = "probe", !.pids = recorded] /\ UNCHANGED blind
    BY <2>1, <2>5
  <2> QED
    BY <1>3, <2>2, <2>3, <2>4, <2>5 DEF ReadPids
<1>4. CASE ProbePid
  <2>1. CASE rec.pids = {} /\ Goto("remove")
    BY <1>4, <2>1 DEF ProbePid
  <2>2. ASSUME NEW p \in rec.pids, "Dead" \in ProbeProcess(p), rec' = [rec EXCEPT !.pids = @ \ {p}]
        PROVE  IInv'
    BY <1>4, <2>2, DeadAreDead DEF ProbePid
  <2>3. CASE Refuse
    BY <1>4, <2>3 DEF ProbePid
  <2> QED
    BY <1>4, <2>1, <2>2, <2>3 DEF ProbePid
<1>5. CASE RemoveFile
  <2>1. rec.known \ rec.removed = rec.known \cap files
    BY <1>5 DEF RemoveFile
  <2>2. ASSUME NEW f \in Removable, files' = files \ {f},
               rec' = [rec EXCEPT !.removed = @ \cup {f}]
        PROVE  IInv'
    <3>1. f \in rec.known \cap files
      BY <2>1, <2>2 DEF Removable, Left
    <3>2. f = Flock => rec.known \cap files = {Flock}
      BY <2>1, <2>2 DEF Removable, Left
    <3> QED
      BY <1>5, <2>2, <3>1, <3>2 DEF RemoveFile
  <2>3. CASE rec' = [rec EXCEPT !.at = "report", !.status = "PARTIAL"] /\ UNCHANGED files
    BY ZenonT(90), <1>5, <2>1, <2>3 DEF RemoveFile, Left
  <2> QED
    BY <1>5, <2>2, <2>3 DEF RemoveFile
<1>6. CASE RemoveDone
  BY ZenonT(90), <1>6 DEF RemoveDone, Left
<1>7. CASE Report
  BY <1>7 DEF Report
<1> QED
  BY <1>1, <1>2, <1>3, <1>4, <1>5, <1>6, <1>7 DEF Recover

\* The other commands change nothing but themselves.
LEMMA CommandStep == ASSUME IInv, CmdProbe \/ CmdGoesOn \/ CmdSignal \/ CmdCheck PROVE IInv'
<1> USE DEF IInv, TypeOK, CmdEnds
<1>1. UNCHANGED <<runtimeVars, blind, rec>>
  BY DEF CmdProbe, CmdGoesOn, CmdAttach, CmdWork, CmdTimeout, CmdSignal, CmdCheck
<1>2. cmd' \in [at: {"out", "attach", "wait", "done"}, rc: {0, 1, 2, 3, 128}]
  <2>1. CASE CmdProbe
    BY <2>1 DEF CmdProbe, NoCmd
  <2>2. CASE CmdGoesOn
    BY <2>2 DEF CmdGoesOn, CmdAttach, CmdWork, CmdTimeout
  <2>3. CASE CmdSignal
    BY <2>3 DEF CmdSignal
  <2>4. CASE CmdCheck
    BY <2>4 DEF CmdCheck
  <2> QED
    BY <2>1, <2>2, <2>3, <2>4
<1> QED
  BY <1>1, <1>2 DEF SessionInv, JudgedInv, RemovalInv, EvidenceLast, ReportTrue, runtimeVars

\* The invariant: unless its master memory could not be opened, a session loses a file only
\* when nobody of it lives.
THEOREM IInvCorrect == Spec => []IInv
<1>1. IInv /\ [Next]_vars => IInv'
  <2> SUFFICES ASSUME IInv, [Next]_vars PROVE IInv'
    OBVIOUS
  <2>1. CASE Next
    BY <2>1, ProcessStep, RecoverStep, CommandStep DEF Next
  <2>2. CASE UNCHANGED vars
    BY <2>2 DEF vars, runtimeVars, IInv, TypeOK, SessionInv, JudgedInv, RemovalInv,
                EvidenceLast, ReportTrue
  <2> QED
    BY <2>1, <2>2
<1> QED
  BY InitIInv, <1>1, PTL DEF Spec

\* The state keeps its types, the exit codes of hako-cmd (README: 0, 1, 2, 3,
\* 128 + signal) among them.
THEOREM TypeCorrect == Spec => []TypeOK
  BY IInvCorrect, PTL DEF IInv

\* A session that lives loses a file only to a recover that could not open its
\* master memory; else each process was asked, alone and earlier, and was dead
\* (runtime_recovery.cpp, ReadPids to RemoveFile).
THEOREM LiveKeepsFilesCorrect == Spec => []LiveKeepsFiles
<1>1. IInv => LiveKeepsFiles
  BY DEF IInv, SessionInv, LiveKeepsFiles
<1> QED
  BY IInvCorrect, <1>1, PTL

\* flock.bin is the last file that goes, whichever removal fails.
THEOREM EvidenceLastCorrect == Spec => []EvidenceLast
  BY IInvCorrect, PTL DEF IInv

\* RECOVERED, removed and remaining in the report are what is on the disk.
THEOREM ReportTrueCorrect == Spec => []ReportTrue
  BY IInvCorrect, PTL DEF IInv
=============================================================================
