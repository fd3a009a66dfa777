------------------------------ MODULE Launcher ------------------------------
(***************************************************************************)
(* The launcher: the dependency sort of the launch file, LauncherService   *)
(* (activate, cmd, terminate and the watch thread), HakoMonitor.start_all  *)
(* and abort, the immediate mode of main with and without --no-watch, its  *)
(* serve mode, and its SIGINT handler.                                     *)
(*                                                                         *)
(* The main thread and the watch threads share state, the monitor and its  *)
(* processes without a lock.  Watch threads are daemons: they end with     *)
(* main.  SIGKILL always works here, so that no call of the watch thread   *)
(* raises (its except branch is left out), and stopping one asset, SIGTERM *)
(* with its grace period and SIGKILL, is one step.                         *)
(***************************************************************************)
EXTENDS Naturals, Sequences, SequencesExt

CONSTANTS
  Assets,
  Listed,       \* the assets in the order of the launch file
  Graphs,       \* possible depends_on, a set of functions [Assets -> SUBSET Assets]
  MaxMonitors,  \* bound: HakoMonitor objects, one for each activation after a termination
  Modes,        \* of main; "unwatched" is the immediate mode with --no-watch
  Use           \* what happens besides the orderly use

ASSUME ConstantsAssumption ==
  /\ Listed \in Seq(Assets)
  /\ \A a \in Assets : \E i \in DOMAIN Listed : Listed[i] = a
  /\ \A i, j \in DOMAIN Listed : Listed[i] = Listed[j] => i = j
  /\ \A g \in Graphs : g \in [Assets -> SUBSET Assets]
  /\ MaxMonitors \in Nat \ {0}
  /\ Modes \subseteq {"immediate", "unwatched", "serve"}
  /\ Use \subseteq {"interrupt", \* SIGINT, or the end of standard input
                    "nospawn",   \* a command cannot be started
                    "nocmd",     \* hako-cmd is not in the PATH
                    "hasty"}     \* activate again while the watch thread is about to abort
                                 \* or aborting

Monitors == 1 .. MaxMonitors

VARIABLES
  deps,    \* depends_on of the launch file
  queue,   \* of the sort
  order,   \* its result
  mode,
  state,   \* LauncherService.state
  stop,    \* _stop_watch
  mon,     \* the current HakoMonitor
  procs,   \* HakoMonitor.procs, the asset of each process
  alive,   \* the processes of each monitor that live
  aborted, \* HakoMonitor._aborted
  next,    \* loop index of start_all
  command, \* the command hako-cmd is running
  pc,      \* where each thread is: main and the watch thread of each monitor
  of, idx, \* the monitor a thread is aborting, and how many processes it has yet to stop
  ret,     \* where main goes on after an abort
  raised   \* history: monitors whose start_all has raised

sortVars == <<deps, queue, order, mode>>
serviceVars == <<state, stop, mon, command>>
procVars == <<procs, alive, next, raised>>
abortVars == <<aborted, of, idx, ret>>
vars == <<sortVars, serviceVars, procVars, abortVars, pc>>

Threads == {0} \cup Monitors
Main == 0
Activated == {"ACTIVATED", "RUNNING", "STOPPED"}
States == Activated \cup {"IDLE", "TERMINATED"}
Goto(t, l) == pc' = [pc EXCEPT ![t] = l]

\* The assets of S, as the loops over the file and over adj come to them.
InFileOrder(S) ==
  LET upTo[i \in 0 .. Len(Listed)] ==
        IF i = 0 THEN <<>>
        ELSE IF Listed[i] \in S THEN Append(upTo[i - 1], Listed[i]) ELSE upTo[i - 1]
  IN  upTo[Len(Listed)]

NoDeps(g) == {a \in Assets : g[a] = {}}

Init ==
  /\ deps \in Graphs /\ queue = InFileOrder(NoDeps(deps)) /\ order = <<>>
  /\ mode \in Modes
  /\ state = "IDLE" /\ stop = FALSE /\ mon = 1 /\ command = "none"
  /\ procs = [m \in Monitors |-> <<>>]
  /\ alive = [m \in Monitors |-> {}]
  /\ next = 1 /\ raised = {}
  /\ aborted = [m \in Monitors |-> FALSE]
  /\ pc = [t \in Threads |-> IF t = Main THEN "sort" ELSE "none"]
  /\ of = [t \in Threads |-> 1]
  /\ idx = [t \in Threads |-> 0]
  /\ ret = "ready"

\* A process ends by itself.
ProcessEnds ==
  /\ \E m \in Monitors : \E i \in alive[m] : alive' = [alive EXCEPT ![m] = @ \ {i}]
  /\ UNCHANGED <<sortVars, serviceVars, procs, next, raised, abortVars, pc>>
-----------------------------------------------------------------------------
(* The sort, Kahn's algorithm with the queue in the order of the file.     *)

Sorted == ToSet(order)

\* Mutant of SortStep: an asset is queued with the first of its dependencies.
SortStepEager ==
  /\ pc[Main] = "sort" /\ queue # <<>>
  /\ LET n == Head(queue)
         new == {a \in Assets : n \in deps[a] /\ a \notin Sorted \cup ToSet(queue)}
     IN  /\ order' = Append(order, n)
         /\ queue' = Tail(queue) \o InFileOrder(new)
  /\ UNCHANGED <<deps, mode, serviceVars, procVars, abortVars, pc>>

SortStep ==
  /\ pc[Main] = "sort" /\ queue # <<>>
  /\ LET n == Head(queue)
         new == {a \in Assets : n \in deps[a] /\ deps[a] \subseteq Sorted \cup {n}}
     IN  /\ order' = Append(order, n)
         /\ queue' = Tail(queue) \o InFileOrder(new)
  /\ UNCHANGED <<deps, mode, serviceVars, procVars, abortVars, pc>>

\* A cycle leaves assets out, and the launch file is refused.
SortDone ==
  /\ pc[Main] = "sort" /\ queue = <<>>
  /\ Goto(Main, IF Len(order) = Len(Listed) THEN "ready" ELSE "over")
  /\ UNCHANGED <<sortVars, serviceVars, procVars, abortVars>>
-----------------------------------------------------------------------------
(* HakoMonitor.abort, by any thread: the second call does nothing.         *)

\* Mutant of AbortThen: the process started last is left out.
AbortThenShort(t, l) ==
  IF aborted[mon]
  THEN Goto(t, l) /\ UNCHANGED <<aborted, of, idx, ret>>
  ELSE /\ Goto(t, "abort")
       /\ aborted' = [aborted EXCEPT ![mon] = TRUE]
       /\ of' = [of EXCEPT ![t] = mon]
       /\ idx' = [idx EXCEPT ![t] = Len(procs[mon]) - 1]
       /\ ret' = IF t = Main THEN l ELSE ret

AbortThen(t, l) ==
  IF aborted[mon]
  THEN Goto(t, l) /\ UNCHANGED <<aborted, of, idx, ret>>
  ELSE /\ Goto(t, "abort")
       /\ aborted' = [aborted EXCEPT ![mon] = TRUE]
       /\ of' = [of EXCEPT ![t] = mon]
       /\ idx' = [idx EXCEPT ![t] = Len(procs[mon])]
       /\ ret' = IF t = Main THEN l ELSE ret

Running(t) == t = Main \/ pc[Main] # "over"

\* Mutant of AbortStep: in the order of the start.
AbortStepForward(t) ==
  /\ Running(t) /\ pc[t] = "abort" /\ idx[t] > 0
  /\ alive' = [alive EXCEPT ![of[t]] = @ \ {Len(procs[of[t]]) + 1 - idx[t]}]
  /\ idx' = [idx EXCEPT ![t] = @ - 1]
  /\ UNCHANGED <<sortVars, serviceVars, procs, next, raised, aborted, of, ret, pc>>

(* AssetRunner.terminate, the last started process first.                  *)
AbortStep(t) ==
  /\ Running(t) /\ pc[t] = "abort" /\ idx[t] > 0
  /\ alive' = [alive EXCEPT ![of[t]] = @ \ {idx[t]}]
  /\ idx' = [idx EXCEPT ![t] = @ - 1]
  /\ UNCHANGED <<sortVars, serviceVars, procs, next, raised, aborted, of, ret, pc>>

AbortDone(t) ==
  /\ Running(t) /\ pc[t] = "abort" /\ idx[t] = 0
  /\ Goto(t, IF t = Main THEN ret ELSE "set")
  /\ UNCHANGED <<sortVars, serviceVars, procVars, abortVars>>
-----------------------------------------------------------------------------
(* activate: a new monitor after a termination, then start_all.            *)

Activate ==
  /\ pc[Main] = "ready" /\ state \in {"IDLE", "TERMINATED"}
  /\ mode # "serve" => state = "IDLE"
  /\ "hasty" \in Use \/ \A w \in Monitors : pc[w] \notin {"seen", "abort", "set"}
  /\ \/ state = "IDLE" /\ UNCHANGED mon
     \/ state = "TERMINATED" /\ mon < MaxMonitors /\ mon' = mon + 1
  /\ next' = 1
  /\ Goto(Main, "spawn")
  /\ UNCHANGED <<sortVars, state, stop, command, procs, alive, raised, abortVars>>

\* The test of _aborted, Popen and the append are one step: before StartWatch
\* nobody but main aborts a monitor, unless "hasty".
Spawn ==
  /\ pc[Main] = "spawn" /\ next <= Len(order) /\ ~aborted[mon]
  /\ procs' = [procs EXCEPT ![mon] = Append(@, order[next])]
  /\ alive' = [alive EXCEPT ![mon] = @ \cup {Len(procs'[mon])}]
  /\ Goto(Main, "grace")
  /\ UNCHANGED <<sortVars, serviceVars, next, raised, abortVars>>

\* subprocess.Popen raises: immediate mode terminates, serve mode prints it
\* and stays in its state.  Bound: once.
SpawnRaises ==
  /\ "nospawn" \in Use /\ raised = {}
  /\ pc[Main] = "spawn" /\ next <= Len(order) /\ ~aborted[mon]
  /\ raised' = raised \cup {mon}
  /\ Goto(Main, IF mode = "serve" THEN "ready" ELSE "quit")
  /\ UNCHANGED <<sortVars, serviceVars, procs, alive, next, abortVars>>

(* _wait_alive, then delay_sec.  A death is seen, unless it comes after    *)
(* the last look.                                                          *)
Stable ==
  /\ pc[Main] = "grace"
  /\ next' = next + 1
  /\ Goto(Main, "spawn")
  /\ UNCHANGED <<sortVars, serviceVars, procs, alive, raised, abortVars>>

StartFailed ==
  /\ pc[Main] = "grace" /\ Len(procs[mon]) \notin alive[mon]
  /\ AbortThen(Main, "watch")
  /\ UNCHANGED <<sortVars, serviceVars, procVars>>

StartedAll ==
  /\ pc[Main] = "spawn" /\ (next > Len(order) \/ aborted[mon])
  /\ Goto(Main, "watch")
  /\ UNCHANGED <<sortVars, serviceVars, procVars, abortVars>>

\* The watch thread starts before the state is assigned.
StartWatch ==
  /\ pc[Main] = "watch"
  /\ stop' = FALSE
  /\ pc' = [pc EXCEPT ![Main] = "activated", ![mon] = "loop"]
  /\ UNCHANGED <<sortVars, state, mon, command, procVars, abortVars>>

SetActivated ==
  /\ pc[Main] = "activated"
  /\ state' = "ACTIVATED"
  /\ Goto(Main, IF mode = "serve" THEN "ready" ELSE "start")
  /\ UNCHANGED <<sortVars, stop, mon, command, procVars, abortVars>>
-----------------------------------------------------------------------------
(* cmd blocks until hako-cmd has ended, and then assigns the state,        *)
(* whatever hako-cmd answered and whatever the state is by then.           *)

\* Where main goes when the start command of the immediate mode is over.
AfterStart == IF mode = "unwatched" THEN "over" ELSE "wait"

\* Mutant of AfterCmd: a state that the other commands do not know.
AfterCmdReset == [start |-> "RUNNING", stop |-> "STOPPED", reset |-> "RESET"]

AfterCmd == [start |-> "RUNNING", stop |-> "STOPPED", reset |-> "ACTIVATED"]

Cmd(c) ==
  /\ \/ pc[Main] = "ready" /\ mode = "serve" /\ state \in Activated
     \/ pc[Main] = "start" /\ c = "start" /\ state \in Activated
  /\ command' = c
  /\ Goto(Main, "cmd")
  /\ UNCHANGED <<sortVars, state, stop, mon, procVars, abortVars>>

CmdRefused ==
  /\ pc[Main] = "start" /\ state \notin Activated
  /\ Goto(Main, AfterStart)
  /\ UNCHANGED <<sortVars, serviceVars, procVars, abortVars>>

CmdDone ==
  /\ pc[Main] = "cmd"
  /\ state' = AfterCmd[command]
  /\ command' = "none"
  /\ Goto(Main, IF mode = "serve" THEN "ready" ELSE AfterStart)
  /\ UNCHANGED <<sortVars, stop, mon, procVars, abortVars>>

\* HakoCli._run does not find hako-cmd.
CmdRaises ==
  /\ "nocmd" \in Use /\ pc[Main] = "cmd"
  /\ command' = "none"
  /\ Goto(Main, IF mode = "serve" THEN "ready" ELSE "quit")
  /\ UNCHANGED <<sortVars, state, stop, mon, procVars, abortVars>>

\* Immediate mode looks at the state every half second.
WaitOver ==
  /\ pc[Main] = "wait" /\ state = "TERMINATED"
  /\ Goto(Main, "over")
  /\ UNCHANGED <<sortVars, serviceVars, procVars, abortVars>>
-----------------------------------------------------------------------------
(* terminate, for the command, the end and SIGINT.                         *)

TerminateThen(set, l) ==
  IF state \in {"TERMINATED", "IDLE"}
  THEN Goto(Main, l) /\ UNCHANGED abortVars
  ELSE AbortThen(Main, set)

TerminateCommand ==
  /\ pc[Main] = "ready" /\ mode = "serve"
  /\ TerminateThen("set", "ready")
  /\ UNCHANGED <<sortVars, serviceVars, procVars>>

\* The command quit.
Quit ==
  /\ pc[Main] = "ready" /\ mode = "serve"
  /\ Goto(Main, "quit")
  /\ UNCHANGED <<sortVars, serviceVars, procVars, abortVars>>

QuitTerminates ==
  /\ pc[Main] = "quit"
  /\ TerminateThen("quit_set", "over")
  /\ UNCHANGED <<sortVars, serviceVars, procVars>>

SetTerminated ==
  /\ pc[Main] \in {"set", "quit_set"}
  /\ stop' = TRUE
  /\ state' = "TERMINATED"
  /\ Goto(Main, IF pc[Main] = "set" THEN "ready" ELSE "over")
  /\ UNCHANGED <<sortVars, mon, command, procVars, abortVars>>

\* The handler runs in the main thread, on top of whatever it was doing.
Interrupt ==
  /\ "interrupt" \in Use /\ pc[Main] \notin {"sort", "quit", "quit_set", "over"}
  /\ Goto(Main, "quit")
  /\ UNCHANGED <<sortVars, serviceVars, procVars, abortVars>>

EndOfInput ==
  /\ "interrupt" \in Use /\ pc[Main] = "ready" /\ mode = "serve"
  /\ Goto(Main, "over")
  /\ UNCHANGED <<sortVars, serviceVars, procVars, abortVars>>
-----------------------------------------------------------------------------
(* The watch thread looks at the processes of the current monitor.         *)

DeadOnes == DOMAIN procs[mon] \ alive[mon]

\* Mutant of WatchLoop: it ends when an asset has exited in order.
WatchLoopEnds(w) ==
  /\ Running(w) /\ pc[w] = "loop"
  /\ stop \/ procs[mon] = <<>> \/ DeadOnes # {}
  /\ Goto(w, "ended")
  /\ UNCHANGED <<sortVars, serviceVars, procVars, abortVars>>

WatchLoop(w) ==
  /\ Running(w) /\ pc[w] = "loop"
  /\ \/ /\ stop \/ procs[mon] = <<>>
        /\ Goto(w, "ended")
     \/ /\ ~stop /\ DeadOnes # {}
        /\ Goto(w, "seen")
  /\ UNCHANGED <<sortVars, serviceVars, procVars, abortVars>>

\* It aborts whatever monitor is the current one by then.
WatchAborts(w) ==
  /\ Running(w) /\ pc[w] = "seen"
  /\ AbortThen(w, "set")
  /\ UNCHANGED <<sortVars, serviceVars, procVars>>

WatchSet(w) ==
  /\ Running(w) /\ pc[w] = "set"
  /\ state' = "TERMINATED"
  /\ stop' = TRUE
  /\ Goto(w, "ended")
  /\ UNCHANGED <<sortVars, mon, command, procVars, abortVars>>

Sort == SortStep \/ SortDone
StartAll ==
  Spawn \/ SpawnRaises \/ Stable \/ StartFailed \/ StartedAll \/ StartWatch \/ SetActivated
Commands == \E c \in DOMAIN AfterCmd : Cmd(c)
MainGoesOn ==
  Sort \/ StartAll \/ CmdRefused \/ CmdDone \/ CmdRaises \/ WaitOver
    \/ QuitTerminates \/ SetTerminated \/ AbortStep(Main) \/ AbortDone(Main)
Watch(w) == WatchLoop(w) \/ WatchAborts(w) \/ WatchSet(w) \/ AbortStep(w) \/ AbortDone(w)

Next ==
  \/ ProcessEnds \/ MainGoesOn
  \/ Activate \/ Commands \/ TerminateCommand \/ Quit \/ Interrupt \/ EndOfInput
  \/ \E w \in Monitors : Watch(w)

Spec == Init /\ [][Next]_vars

\* Both threads run; the operator need not do anything.
FairSpec ==
  /\ Spec
  /\ WF_vars(MainGoesOn)
  /\ \A w \in Monitors : WF_vars(Watch(w))
-----------------------------------------------------------------------------
TypeOK ==
  /\ deps \in [Assets -> SUBSET Assets] /\ queue \in Seq(Assets) /\ order \in Seq(Assets)
  /\ mode \in Modes
  /\ state \in States /\ stop \in BOOLEAN /\ mon \in Monitors
  /\ command \in DOMAIN AfterCmd \cup {"none"}
  /\ procs \in [Monitors -> Seq(Assets)]
  /\ \A m \in Monitors : alive[m] \subseteq DOMAIN procs[m]
  /\ next \in 1 .. Len(Listed) + 1
  /\ aborted \in [Monitors -> BOOLEAN] /\ raised \subseteq Monitors
  /\ pc \in [Threads -> {"sort", "ready", "spawn", "grace", "watch", "activated", "start", "cmd",
                         "wait", "set", "quit", "quit_set", "over", "abort",
                         "none", "loop", "seen", "ended"}]
  /\ of \in [Threads -> Monitors] /\ idx \in [Threads -> Nat]

(* An asset is started when all it depends on has been, and a cyclic       *)
(* launch file starts nothing (model.py:125).                              *)
StartsInOrder ==
  /\ \A m \in Monitors : \A i \in DOMAIN procs[m] :
       deps[procs[m][i]] \subseteq {procs[m][j] : j \in 1 .. i - 1}
  /\ mon > 1 \/ procs[1] # <<>> => ToSet(order) = Assets

(* No asset is stopped before those that were started on top of it         *)
(* (hako_monitor.py:109): an abort leaves living processes only among the  *)
(* ones it has yet to come to.                                             *)
StopsInReverse ==
  \A t \in Threads : pc[t] = "abort" =>
    \A i \in alive[of[t]] : i <= idx[t]

(* What is called terminated is stopped: when the state is TERMINATED and  *)
(* no thread is still aborting, no process of any activation lives, but    *)
(* for one that a command which cannot be started has broken off.          *)
TerminatedMeansStopped ==
  state = "TERMINATED" /\ pc[Main] \in {"ready", "wait"} /\ (\A t \in Threads : pc[t] # "abort") =>
    \A m \in Monitors \ raised : alive[m] = {}

(* When an asset is lost, the watch thread stops all the others.           *)
LossStopsAll ==
  \A m \in Monitors :
    pc[m] = "loop" /\ mon = m /\ DOMAIN procs[m] # alive[m] ~> alive[m] = {} \/ pc[Main] = "over"

(* The launcher leaves no process behind when it ends.                     *)
NoOrphans == pc[Main] = "over" => \A m \in Monitors : alive[m] = {}

(* In immediate mode the launcher ends when the assets have been stopped.  *)
LaunchEnds == mode = "immediate" /\ aborted[1] ~> pc[Main] = "over"
=============================================================================
