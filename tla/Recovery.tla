------------------------------ MODULE Recovery ------------------------------
(***************************************************************************)
(* The command line beside a running system: hako-cmd's commands (probe,   *)
(* attach, a bounded wait for the master lock), hako-cmd check, and        *)
(* hako-cmd recover, which removes the runtime files of a session that has *)
(* ended.  Master and assets run, take the lock and die meanwhile.         *)
(*                                                                         *)
(* The layout of the files and the inspection of the lock belong to        *)
(* hakoniwa-core-cpp and are external.                                     *)
(***************************************************************************)
EXTENDS Naturals, FiniteSets

CONSTANTS
  Master,      \* the conductor's process
  AssetProcs,  \* asset processes
  Files,       \* known file names: mmap-0x*.bin and the lock files
  MasterFile,  \* mmap-0xff.bin
  Flock,       \* flock.bin
  Nobody

ASSUME ConstantsAssumption ==
  /\ Master \notin AssetProcs /\ Nobody \notin AssetProcs \cup {Master}
  /\ MasterFile \in Files /\ Flock \in Files /\ MasterFile # Flock
  /\ IsFiniteSet(Files)

Procs == AssetProcs \cup {Master}

VARIABLES
  live,      \* processes that run
  files,     \* known files that exist
  odd,       \* those that are not regular files
  image,     \* what the master memory can be read as
  recorded,  \* the pids in the master memory
  owner,     \* the owner written in flock.bin
  blind,     \* history: recover went on without the pids of an existing master memory
  rec,       \* the operator's hako-cmd recover
  cmd        \* the operator's other hako-cmd

runtimeVars == <<live, files, odd, image, recorded, owner>>
vars == <<runtimeVars, blind, rec, cmd>>

\* current; written by another Core (layout version or no header); truncated.
Images == {"current", "other", "broken"}
NoRec == [at |-> "out", known |-> {}, pids |-> {}, removed |-> {}, status |-> "none"]
NoCmd == [at |-> "out", rc |-> 0]

\* A session was left behind, by this Core or an older one, in any state of removal.
Init ==
  /\ live = {}
  /\ files \in SUBSET Files
  /\ odd \in {o \in SUBSET files : Cardinality(o) <= 1}
  /\ image \in Images
  /\ recorded \in SUBSET Procs
  /\ owner \in Procs \cup {Nobody}
  /\ blind = FALSE
  /\ rec = NoRec /\ cmd = NoCmd
-----------------------------------------------------------------------------
(* The processes.  Nobody starts while recover is at work: README.md asks  *)
(* the operator to stop every process first.                               *)

Quiet == rec.at \in {"out", "done"}

StartMaster ==
  /\ Quiet /\ live = {} /\ odd = {}
  /\ MasterFile \in files => image = "current"
  /\ live' = {Master}
  /\ files' = Files
  /\ image' = "current"
  /\ recorded' = {Master}
  /\ owner' = Nobody
  /\ blind' = FALSE
  /\ UNCHANGED <<odd, rec, cmd>>

\* An asset loads the master memory; what it makes anew of other removed files is left out.
StartAsset(p) ==
  /\ Quiet /\ Master \in live /\ p \notin live /\ MasterFile \in files
  /\ live' = live \cup {p}
  /\ recorded' = recorded \cup {p}
  /\ UNCHANGED <<files, odd, image, owner, blind, rec, cmd>>

TakeLock(p) ==
  /\ p \in live /\ owner = Nobody /\ Flock \in files
  /\ owner' = p
  /\ UNCHANGED <<live, files, odd, image, recorded, blind, rec, cmd>>

FreeLock(p) ==
  /\ p \in live /\ owner = p
  /\ owner' = Nobody
  /\ UNCHANGED <<live, files, odd, image, recorded, blind, rec, cmd>>

\* The pid in the master memory and the owner in flock.bin stay.
Die(p) ==
  /\ p \in live
  /\ live' = live \ {p}
  /\ UNCHANGED <<files, odd, image, recorded, owner, blind, rec, cmd>>
-----------------------------------------------------------------------------
(* What can be found out about a process, and about the lock.              *)

\* kill(pid, 0): the process of another user is uncertain, a pid that has been used again is alive.
ProbeProcess(p) == IF p \in live THEN {"Alive", "Unknown"} ELSE {"Dead", "Alive"}

\* inspect_master_lock: ok with an owner or without one, abort (the owner is dead),
\* unsure (Identity, Contention, System) or unreadable (a legacy flock.bin).
Inspect ==
  {"unsure", "unreadable"} \cup
  IF owner = Nobody THEN {"unlocked"} ELSE IF owner \in live THEN {"locked"} ELSE {"abort"}

\* A live owner is seen, or makes the inspection contend.
InspectOwned == IF owner \in live THEN Inspect \ {"unreadable"} ELSE Inspect
-----------------------------------------------------------------------------
(* hako-cmd recover.                                                       *)

Goto(l) == rec' = [rec EXCEPT !.at = l]
Refuse == rec' = [rec EXCEPT !.at = "done", !.status = "REFUSED"]

(* The known files are listed; nothing is done if one is not a regular    *)
(* file, or when the configuration or the directory cannot be read.        *)
RecoverList ==
  /\ rec.at \in {"out", "done"}
  /\ \/ rec' = [NoRec EXCEPT !.at = "done", !.status = "REFUSED"]
     \/ /\ odd = {}
        /\ rec' = [NoRec EXCEPT !.at = "lock", !.known = files]
  /\ UNCHANGED <<runtimeVars, blind, cmd>>

(* The owner of the master lock must not live, nor be uncertain.           *)
RecoverLock ==
  /\ rec.at = "lock"
  /\ \/ /\ Flock \notin files
        /\ Goto("pids")
     \/ /\ Flock \in files
        /\ \E i \in InspectOwned : IF i \in {"unsure", "locked"} THEN Refuse ELSE Goto("pids")
  /\ UNCHANGED <<runtimeVars, blind, cmd>>

\* Mutant of ReadPids: only the master's pid is looked at.
ReadPidsOfMaster ==
  /\ rec.at = "pids"
  /\ \/ /\ MasterFile \in files
        /\ Refuse /\ UNCHANGED blind
     \/ /\ MasterFile \notin files \/ image = "other"
        /\ rec' = [rec EXCEPT !.at = "probe", !.pids = {}] /\ UNCHANGED blind
     \/ /\ MasterFile \in files
        /\ rec' = [rec EXCEPT !.at = "probe", !.pids = {}] /\ blind' = TRUE
     \/ /\ MasterFile \in files /\ image = "current"
        /\ rec' = [rec EXCEPT !.at = "probe", !.pids = recorded \cap {Master}] /\ UNCHANGED blind
  /\ UNCHANGED <<runtimeVars, cmd>>

(* read_runtime_pids refuses what cannot be read or is broken.  A memory   *)
(* of another Core names no process; one that is there and cannot be       *)
(* opened (permission, no descriptor left) passes for one that is not.     *)
ReadPids ==
  /\ rec.at = "pids"
  /\ \/ /\ MasterFile \in files
        /\ Refuse /\ UNCHANGED blind
     \/ /\ MasterFile \notin files \/ image = "other"
        /\ rec' = [rec EXCEPT !.at = "probe", !.pids = {}] /\ UNCHANGED blind
     \/ /\ MasterFile \in files
        /\ rec' = [rec EXCEPT !.at = "probe", !.pids = {}] /\ blind' = TRUE
     \/ /\ MasterFile \in files /\ image = "current"
        /\ rec' = [rec EXCEPT !.at = "probe", !.pids = recorded] /\ UNCHANGED blind
  /\ UNCHANGED <<runtimeVars, cmd>>

(* One pid after the other, in the order of a std::set.                    *)
ProbePid ==
  /\ rec.at = "probe"
  /\ \/ /\ rec.pids = {}
        /\ Goto("remove")
     \/ \E p \in rec.pids : \E s \in ProbeProcess(p) :
          IF s = "Dead" THEN rec' = [rec EXCEPT !.pids = @ \ {p}] ELSE Refuse
  /\ UNCHANGED <<runtimeVars, blind, cmd>>

Left == rec.known \ rec.removed

\* Mutant of Removable: the file names decide alone.
RemovableAny == Left

\* The order of the removal: flock.bin, the evidence of ownership, last.
Removable == IF Left = {Flock} THEN Left ELSE Left \ {Flock}

\* Mutant of RemoveFile: a failure is passed over.
RemoveFileGoesOn ==
  /\ rec.at = "remove" /\ Left # {}
  /\ \E f \in Removable :
       /\ rec' = [rec EXCEPT !.removed = @ \cup {f}]
       /\ files' \in {files, files \ {f}}
  /\ UNCHANGED <<live, odd, image, recorded, owner, blind, cmd>>

(* remove_known_runtime_files stops at the first failure.                  *)
RemoveFile ==
  /\ rec.at = "remove" /\ Left # {}
  /\ \E f \in Removable :
       \/ /\ files' = files \ {f}
          /\ rec' = [rec EXCEPT !.removed = @ \cup {f}]
       \/ /\ rec' = [rec EXCEPT !.at = "report", !.status = "PARTIAL"]
          /\ UNCHANGED files
  /\ UNCHANGED <<live, odd, image, recorded, owner, blind, cmd>>

RemoveDone ==
  /\ rec.at = "remove" /\ Left = {}
  /\ rec' = [rec EXCEPT !.at = "report", !.status = "RECOVERED"]
  /\ UNCHANGED <<runtimeVars, blind, cmd>>

(* do_recover prints removed, remaining and failures, and ends.            *)
Report ==
  /\ rec.at = "report"
  /\ Goto("done")
  /\ UNCHANGED <<runtimeVars, blind, cmd>>

Recover == RecoverList \/ RecoverLock \/ ReadPids \/ ProbePid \/ RemoveFile \/ RemoveDone \/ Report
-----------------------------------------------------------------------------
(* hako-cmd start, stop, status, ...: 0 is success, 1 a general error.     *)

CmdEnds(rc) == cmd' = [at |-> "done", rc |-> rc]

(* probe_runtime: a master memory of this Core, that can be opened and     *)
(* read, whose master lives.                                               *)
CmdProbe ==
  /\ cmd.at \in {"out", "done"}
  /\ \/ CmdEnds(1)
     \/ /\ MasterFile \in files /\ image = "current" /\ Master \in recorded
        /\ "Alive" \in ProbeProcess(Master)
        /\ cmd' = [NoCmd EXCEPT !.at = "attach"]
  /\ UNCHANGED <<runtimeVars, blind, rec>>

(* get_simevent_controller loads the memory the probe has seen.            *)
CmdAttach ==
  /\ cmd.at = "attach"
  /\ IF MasterFile \in files THEN cmd' = [cmd EXCEPT !.at = "wait"] ELSE CmdEnds(1)
  /\ UNCHANGED <<runtimeVars, blind, rec>>

(* The command takes the master lock, does its work and releases it.       *)
CmdWork ==
  /\ cmd.at = "wait" /\ owner = Nobody
  /\ CmdEnds(0)
  /\ UNCHANGED <<runtimeVars, blind, rec>>

\* Mutant of CmdTimeout: without the wait scope the lock is waited for.
CmdTimeoutNever ==
  /\ cmd.at = "wait" /\ owner = Nobody
  /\ CmdEnds(1)
  /\ UNCHANGED <<runtimeVars, blind, rec>>

(* HakoFlockWaitScope: the wait for the lock ends after lock-timeout-ms.   *)
CmdTimeout ==
  /\ cmd.at = "wait"
  /\ CmdEnds(1)
  /\ UNCHANGED <<runtimeVars, blind, rec>>

\* Mutant of CmdSignal: the exit code is the number of the signal.
CmdSignalBare ==
  /\ cmd.at \in {"wait", "attach"}
  /\ CmdEnds(15)
  /\ UNCHANGED <<runtimeVars, blind, rec>>

(* An interrupted wait ends with 128 and the signal.                       *)
CmdSignal ==
  /\ cmd.at \in {"wait", "attach"}
  /\ CmdEnds(128)
  /\ UNCHANGED <<runtimeVars, blind, rec>>

(* hako-cmd check: 0 is OK, 2 ABORT, 3 UNKNOWN.                            *)
CmdCheck ==
  /\ cmd.at \in {"out", "done"}
  /\ \E i \in IF Flock \in files THEN InspectOwned ELSE {"unreadable"} :
       CmdEnds(CASE i \in {"locked", "unlocked"} -> 0 [] i = "abort" -> 2 [] OTHER -> 3)
  /\ UNCHANGED <<runtimeVars, blind, rec>>

CmdGoesOn == CmdAttach \/ CmdWork \/ CmdTimeout

Next ==
  \/ StartMaster
  \/ \E p \in AssetProcs : StartAsset(p)
  \/ \E p \in Procs : TakeLock(p) \/ FreeLock(p) \/ Die(p)
  \/ Recover
  \/ CmdProbe \/ CmdGoesOn \/ CmdSignal \/ CmdCheck

Spec == Init /\ [][Next]_vars

\* hako-cmd runs; no process has to release the lock.
FairSpec == Spec /\ WF_vars(CmdGoesOn)
-----------------------------------------------------------------------------
TypeOK ==
  /\ live \subseteq Procs /\ recorded \subseteq Procs
  /\ files \subseteq Files /\ odd \subseteq Files
  /\ image \in Images
  /\ owner \in Procs \cup {Nobody}
  /\ blind \in BOOLEAN
  /\ rec \in [at: {"out", "lock", "pids", "probe", "remove", "report", "done"},
              known: SUBSET Files, pids: SUBSET Procs, removed: SUBSET Files,
              status: {"none", "REFUSED", "PARTIAL", "RECOVERED"}]
  /\ cmd \in [at: {"out", "attach", "wait", "done"}, rc: {0, 1, 2, 3, 128}]

(* A session loses files while it lives in one way only: recover could not *)
(* open its master memory (runtime_recovery.cpp:36).  Otherwise nothing    *)
(* goes while the master or an asset lives, although each was asked alone  *)
(* and earlier than the first removal (runtime_recovery.cpp:205).          *)
LiveKeepsFiles == live # {} /\ ~blind => files = Files

(* README.md:129: recover refuses while a recorded process lives or its    *)
(* life is uncertain.  Not so (no run checks it): a master memory that     *)
(* cannot be opened leaves every life uncertain, and recover goes on.      *)
RefusedWhenUncertain == live # {} => files = Files

(* flock.bin goes last, whichever removal fails: as long as anything is    *)
(* left of the session, so is the evidence of who owned it                 *)
(* (runtime_recovery.cpp:100).                                             *)
EvidenceLast ==
  rec.at \in {"remove", "report"} /\ Flock \in rec.known \ files => files \cap rec.known = {}

(* The report is true: RECOVERED when no known file is left, and removed   *)
(* and remaining are what has gone and what is there.                      *)
ReportTrue ==
  rec.at = "report" =>
    /\ rec.status = "RECOVERED" <=> files \cap rec.known = {}
    /\ rec.removed = rec.known \ files

(* A command ends, whoever has the master lock and even when its owner has *)
(* died with it.                                                           *)
CommandEnds == cmd.at \in {"attach", "wait"} ~> cmd.at = "done"
=============================================================================
