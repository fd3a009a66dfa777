--------------------------- MODULE LauncherProofs ---------------------------
(***************************************************************************)
(* What is started, and what termination leaves behind, for any number of  *)
(* assets, dependencies and activations, with a main thread and watch      *)
(* threads that abort without a lock between them.                         *)
(*                                                                         *)
(* The order of an abort (StopsInReverse) needs no more than that nothing  *)
(* is started under a monitor that is being aborted (AbortingIsMarked).    *)
(* That TERMINATED means stopped needs all of IInv: an aborted monitor     *)
(* without living processes or with a thread still at it (AbortedInv),     *)
(* nothing left of earlier activations (EarlierInv), and a state           *)
(* TERMINATED that belongs to the current one (TerminatedInv).  WatchInv   *)
(* keeps watch threads apart: each monitor gets one, once.                 *)
(*                                                                         *)
(* The start rests on the sort (SortInv) and on how far start_all has come *)
(* (StartInv).                                                             *)
(***************************************************************************)
EXTENDS Launcher, SequenceTheorems, FiniteSetTheorems, WellFoundedInduction, TLAPS

\* Main is on its way out, and whatever it was doing has been broken off.
Leaving ==
  pc[Main] \in {"quit", "quit_set", "over"} \/ (pc[Main] = "abort" /\ ret = "quit_set")

\* Main is between activate and the state it sets.
Activating ==
  pc[Main] \in {"spawn", "grace", "watch", "activated"} \/ (pc[Main] = "abort" /\ ret = "watch")

Labels == {"sort", "ready", "spawn", "grace", "watch", "activated", "start", "cmd", "wait",
           "set", "quit", "quit_set", "over", "abort", "none", "loop", "seen", "ended"}
WatchLabels == {"none", "loop", "seen", "abort", "set", "ended"}
IsSeq(s) == \E S : s \in Seq(S)

\* The types that the other invariants need.
Typed ==
  /\ mon \in Monitors /\ state \in States /\ raised \subseteq Monitors
  /\ aborted \in [Monitors -> BOOLEAN] /\ of \in [Threads -> Monitors] /\ idx \in [Threads -> Nat]
  /\ DOMAIN procs = Monitors /\ \A m \in Monitors : IsSeq(procs[m])
  /\ DOMAIN alive = Monitors /\ \A m \in Monitors : alive[m] \subseteq 1 .. Len(procs[m])
  /\ pc \in [Threads -> Labels] /\ \A w \in Monitors : pc[w] \in WatchLabels
  /\ command \in DOMAIN AfterCmd \cup {"none"} /\ (pc[Main] = "cmd" => command # "none")
  /\ pc[Main] \notin {"none", "loop", "seen", "ended"}
  /\ pc[Main] = "abort" => ret \in {"watch", "set", "quit_set"}

\* A thread aborts a monitor that is marked.
AbortingIsMarked == \A t \in Threads : pc[t] = "abort" => aborted[of[t]]

\* The processes started, the last one first.
OrderInv == Typed /\ AbortingIsMarked /\ StopsInReverse

\* The monitor being aborted is the current one.
CurrentInv ==
  /\ \A t \in Threads : pc[t] = "abort" => of[t] = mon
  /\ \A t \in Threads : pc[t] \in {"abort", "set", "quit_set"} => aborted[mon]

\* What has been aborted is stopped, unless somebody is at it or main leaves.
AbortedInv ==
  \A m \in Monitors : aborted[m] =>
    alive[m] = {} \/ Leaving \/ (\E t \in Threads : pc[t] = "abort" /\ of[t] = m)

\* Nothing is left of other activations.
EarlierInv == \A m \in Monitors : m # mon => m \in raised \/ alive[m] = {} \/ Leaving

\* The state is that of the current monitor, but for the time of an activation.
TerminatedInv ==
  state = "TERMINATED" => aborted[mon] \/ mon \in raised \/ Activating \/ Leaving

\* An activation has not begun, or not come to its watch thread.
Opening ==
  \/ pc[Main] \in {"spawn", "grace", "watch"}
  \/ pc[Main] = "abort" /\ ret = "watch"
  \/ state = "IDLE" /\ pc[Main] # "activated" /\ ~Leaving

\* Each monitor gets one watch thread, when it has been activated.
WatchInv ==
  /\ \A m \in Monitors : m > mon => pc[m] = "none"
  /\ Opening => pc[mon] = "none"

StopInv == CurrentInv /\ AbortedInv /\ EarlierInv /\ TerminatedInv
IInv == OrderInv /\ WatchInv /\ StopInv

\* Main is not a watch thread.
LEMMA MainIsNoMonitor == Main \in Threads /\ Main \notin Monitors /\ Monitors \subseteq Threads
  BY ConstantsAssumption DEF Main, Threads, Monitors

\* A sequence stays one when something is appended.
LEMMA AppendIsSeq ==
  ASSUME NEW s, NEW x, IsSeq(s)
  PROVE  IsSeq(Append(s, x)) /\ Len(Append(s, x)) = Len(s) + 1 /\ Len(s) \in Nat
<1>1. PICK S : s \in Seq(S)
  BY DEF IsSeq
<1>2. s \in Seq(S \cup {x})
  BY <1>1
<1>3. Append(s, x) \in Seq(S \cup {x}) /\ Len(Append(s, x)) = Len(s) + 1 /\ Len(s) \in Nat
  BY <1>2
<1> QED
  BY <1>3 DEF IsSeq

\* The launcher begins with the sort, and with no process.
LEMMA InitOrder == Init => OrderInv
<1> SUFFICES ASSUME Init PROVE OrderInv
  OBVIOUS
<1>1. IsSeq(<<>>)
  BY DEF IsSeq
<1> QED
  BY <1>1, ConstantsAssumption, MainIsNoMonitor
  DEF Init, OrderInv, Typed, AbortingIsMarked, StopsInReverse, Labels, WatchLabels, Monitors,
      States, Activated, AfterCmd

\* What AbortThen does to the shared state, for a thread with the label l afterwards.
LEMMA AbortThenOrder ==
  ASSUME OrderInv, NEW t \in Threads, NEW l \in Labels \ {"abort"}, AbortThen(t, l),
         t \in Monitors => l \in WatchLabels,
         t = Main => l \in {"watch", "set", "quit_set"},
         UNCHANGED <<mon, state, command, procVars>>
  PROVE  OrderInv'
<1> USE MainIsNoMonitor
<1>1. CASE aborted[mon]
  <2>1. pc' = [pc EXCEPT ![t] = l] /\ UNCHANGED <<aborted, of, idx, ret>>
    BY <1>1 DEF AbortThen, Goto
  <2> QED
    BY <2>1 DEF OrderInv, Typed, AbortingIsMarked, StopsInReverse, procVars, WatchLabels, Main
<1>2. CASE ~aborted[mon]
  <2>1. /\ pc' = [pc EXCEPT ![t] = "abort"]
        /\ aborted' = [aborted EXCEPT ![mon] = TRUE]
        /\ of' = [of EXCEPT ![t] = mon]
        /\ idx' = [idx EXCEPT ![t] = Len(procs[mon])]
        /\ ret' = IF t = Main THEN l ELSE ret
    BY <1>2 DEF AbortThen, Goto
  <2>2. Len(procs[mon]) \in Nat
    BY DEF OrderInv, Typed, IsSeq
  <2>3. Typed'
    BY <2>1, <2>2 DEF OrderInv, Typed, procVars, Labels, WatchLabels, Main
  <2>4. AbortingIsMarked'
    BY <2>1 DEF OrderInv, Typed, AbortingIsMarked
  <2>5. StopsInReverse'
    <3>1. \A i \in alive[mon] : i <= Len(procs[mon])
      BY <2>2 DEF OrderInv, Typed
    <3>2. \A x \in Threads : IF x = t THEN of'[x] = mon /\ idx'[x] = Len(procs[mon])
                              ELSE pc'[x] = pc[x] /\ of'[x] = of[x] /\ idx'[x] = idx[x]
      BY <2>1 DEF OrderInv, Typed
    <3> QED
      BY <3>1, <3>2 DEF OrderInv, StopsInReverse, procVars
  <2> QED
    BY <2>3, <2>4, <2>5 DEF OrderInv
<1> QED
  BY <1>1, <1>2

\* Steps that only move a thread, to anywhere but an abort.
LEMMA MoveOrder ==
  ASSUME OrderInv, NEW t \in Threads, NEW l \in Labels \ {"abort"}, Goto(t, l),
         t \in Monitors => l \in WatchLabels,
         t = Main => l \notin {"none", "loop", "seen", "ended", "cmd"},
         UNCHANGED <<procVars, abortVars>>,
         mon' \in Monitors, state' \in States, command' \in DOMAIN AfterCmd \cup {"none"},
         command' = command \/ pc[Main] # "cmd" \/ t = Main
  PROVE  OrderInv'
BY MainIsNoMonitor
DEF OrderInv, Typed, AbortingIsMarked, StopsInReverse, Goto, procVars, abortVars, Main

\* The order of an abort survives every step.
LEMMA NextOrder == ASSUME OrderInv, [Next]_vars PROVE OrderInv'
<1> USE MainIsNoMonitor
<1>0. /\ mon \in Monitors /\ state \in States /\ command \in DOMAIN AfterCmd \cup {"none"}
      /\ {"RUNNING", "STOPPED", "ACTIVATED", "TERMINATED"} \subseteq States
  BY DEF OrderInv, Typed, States, Activated
<1>1. CASE ProcessEnds
  <2>1. PICK m \in Monitors : \E i \in alive[m] : alive' = [alive EXCEPT ![m] = @ \ {i}]
    BY <1>1 DEF ProcessEnds
  <2>2. PICK i \in alive[m] : alive' = [alive EXCEPT ![m] = @ \ {i}]
    BY <2>1
  <2> QED
    BY <1>1, <2>2 DEF ProcessEnds, OrderInv, Typed, AbortingIsMarked, StopsInReverse,
                      serviceVars, abortVars
<1>2. CASE SortStep
  BY <1>2 DEF SortStep, OrderInv, Typed, AbortingIsMarked, StopsInReverse,
              serviceVars, procVars, abortVars
<1>3. CASE SortDone
  <2>1. PICK l \in {"ready", "over"} : Goto(Main, l)
    BY <1>3 DEF SortDone
  <2> QED
    BY <1>0, <1>3, <2>1, MoveOrder DEF SortDone, serviceVars, Labels
<1>4. CASE Activate
  <2>1. mon' \in Monitors
    BY <1>0, <1>4, ConstantsAssumption DEF Activate, Monitors
  <2> QED
    BY <1>4, <2>1 DEF Activate, OrderInv, Typed, AbortingIsMarked, StopsInReverse, Goto,
                      abortVars, Labels, Main
<1>5. CASE Spawn
  <2>1. /\ procs' = [procs EXCEPT ![mon] = Append(procs[mon], order[next])]
        /\ alive' = [alive EXCEPT ![mon] = @ \cup {Len(procs'[mon])}]
        /\ pc' = [pc EXCEPT ![Main] = "grace"] /\ ~aborted[mon]
        /\ UNCHANGED <<serviceVars, raised, abortVars>>
    BY <1>5 DEF Spawn, Goto
  <2>2. /\ IsSeq(procs[mon]) /\ DOMAIN procs = Monitors /\ DOMAIN alive = Monitors
        /\ alive[mon] \subseteq 1 .. Len(procs[mon])
    BY <1>0 DEF OrderInv, Typed
  <2>3. /\ procs'[mon] = Append(procs[mon], order[next])
        /\ \A m \in Monitors \ {mon} : procs'[m] = procs[m] /\ alive'[m] = alive[m]
        /\ alive'[mon] = alive[mon] \cup {Len(procs'[mon])}
        /\ DOMAIN procs' = Monitors /\ DOMAIN alive' = Monitors
    BY <1>0, <2>1, <2>2
  <2>4. IsSeq(procs'[mon]) /\ alive'[mon] \subseteq 1 .. Len(procs'[mon])
    <3>1. IsSeq(procs'[mon]) /\ Len(procs'[mon]) = Len(procs[mon]) + 1 /\ Len(procs[mon]) \in Nat
      BY <2>2, <2>3, AppendIsSeq
    <3> QED
      BY <2>2, <2>3, <3>1
  <2>5. /\ \A m \in Monitors : IsSeq(procs'[m])
        /\ \A m \in Monitors : alive'[m] \subseteq 1 .. Len(procs'[m])
    BY <2>3, <2>4 DEF OrderInv, Typed
  <2>6. Typed'
    BY <2>1, <2>3, <2>5 DEF OrderInv, Typed, serviceVars, abortVars, Labels, Main
  <2>7. AbortingIsMarked'
    BY <2>1 DEF OrderInv, Typed, AbortingIsMarked, abortVars
  <2>8. StopsInReverse'
    BY <2>1, <2>3 DEF OrderInv, Typed, AbortingIsMarked, StopsInReverse, abortVars
  <2> QED
    BY <2>6, <2>7, <2>8 DEF OrderInv
<1>6. CASE SpawnRaises
  <2>1. PICK l \in {"quit", "ready"} : Goto(Main, l)
    BY <1>6 DEF SpawnRaises
  <2> QED
    BY <1>0, <1>6, <2>1
    DEF SpawnRaises, OrderInv, Typed, AbortingIsMarked, StopsInReverse, Goto, serviceVars,
        abortVars, Labels, Main
<1>7. CASE Stable
  BY <1>7 DEF Stable, OrderInv, Typed, AbortingIsMarked, StopsInReverse, Goto, serviceVars,
              abortVars, Labels, Main
<1>8. CASE StartFailed
  BY <1>8, AbortThenOrder DEF StartFailed, serviceVars, Labels, Main
<1>9. CASE StartedAll
  BY <1>0, <1>9, MoveOrder DEF StartedAll, serviceVars, Labels
<1>10. CASE StartWatch
  BY <1>10 DEF StartWatch, OrderInv, Typed, AbortingIsMarked, StopsInReverse, procVars,
               abortVars, Labels, WatchLabels, Main
<1>11. CASE SetActivated
  <2>1. PICK l \in {"start", "ready"} : Goto(Main, l)
    BY <1>11 DEF SetActivated
  <2> QED
    BY <1>0, <1>11, <2>1, MoveOrder DEF SetActivated, Labels
<1>12. ASSUME NEW c \in DOMAIN AfterCmd, Cmd(c) PROVE OrderInv'
  <2>1. c # "none"
    BY DEF AfterCmd
  <2> QED
    BY <1>12, <2>1 DEF Cmd, OrderInv, Typed, AbortingIsMarked, StopsInReverse, Goto, procVars,
                       abortVars, Labels, Main
<1>13. CASE CmdRefused
  <2>1. PICK l \in {"wait", "over"} : Goto(Main, l)
    BY <1>13 DEF CmdRefused, AfterStart
  <2> QED
    BY <1>0, <1>13, <2>1, MoveOrder DEF CmdRefused, serviceVars, Labels
<1>14. CASE CmdDone
  <2>1. PICK l \in {"wait", "ready", "over"} : Goto(Main, l)
    BY <1>14 DEF CmdDone, AfterStart
  <2>2. command \in {"start", "stop", "reset"}
    BY <1>14 DEF CmdDone, OrderInv, Typed, AfterCmd
  <2>3. state' \in States
    BY <1>0, <1>14, <2>2 DEF CmdDone, AfterCmd
  <2> QED
    BY <1>0, <1>14, <2>1, <2>3, MoveOrder DEF CmdDone, Labels
<1>15. CASE CmdRaises
  <2>1. PICK l \in {"quit", "ready"} : Goto(Main, l)
    BY <1>15 DEF CmdRaises
  <2> QED
    BY <1>0, <1>15, <2>1, MoveOrder DEF CmdRaises, Labels
<1>16. CASE WaitOver
  BY <1>0, <1>16, MoveOrder DEF WaitOver, serviceVars, Labels
<1>17. CASE TerminateCommand
  <2>1. CASE Goto(Main, "ready") /\ UNCHANGED abortVars
    BY <1>0, <1>17, <2>1, MoveOrder DEF TerminateCommand, serviceVars, Labels
  <2>2. CASE AbortThen(Main, "set")
    BY <1>17, <2>2, AbortThenOrder DEF TerminateCommand, serviceVars, Labels, Main
  <2> QED
    BY <1>17, <2>1, <2>2 DEF TerminateCommand, TerminateThen
<1>18. CASE Quit
  BY <1>0, <1>18, MoveOrder DEF Quit, serviceVars, Labels
<1>19. CASE QuitTerminates
  <2>1. CASE Goto(Main, "over") /\ UNCHANGED abortVars
    BY <1>0, <1>19, <2>1, MoveOrder DEF QuitTerminates, serviceVars, Labels
  <2>2. CASE AbortThen(Main, "quit_set")
    BY <1>19, <2>2, AbortThenOrder DEF QuitTerminates, serviceVars, Labels, Main
  <2> QED
    BY <1>19, <2>1, <2>2 DEF QuitTerminates, TerminateThen
<1>20. CASE SetTerminated
  <2>1. PICK l \in {"over", "ready"} : Goto(Main, l)
    BY <1>20 DEF SetTerminated
  <2> QED
    BY <1>0, <1>20, <2>1, MoveOrder DEF SetTerminated, Labels
<1>21. CASE Interrupt
  BY <1>0, <1>21, MoveOrder DEF Interrupt, serviceVars, Labels
<1>22. CASE EndOfInput
  BY <1>0, <1>22, MoveOrder DEF EndOfInput, serviceVars, Labels
<1>23. ASSUME NEW t \in Threads, AbortStep(t) PROVE OrderInv'
  <2>1. /\ pc[t] = "abort" /\ idx[t] > 0 /\ of[t] \in Monitors
        /\ alive' = [alive EXCEPT ![of[t]] = alive[of[t]] \ {idx[t]}]
        /\ idx' = [idx EXCEPT ![t] = idx[t] - 1]
        /\ UNCHANGED <<mon, state, command, raised, aborted, of, procs, ret, pc>>
    BY <1>23 DEF AbortStep, OrderInv, Typed, serviceVars
  <2>2. \A m \in Monitors : alive'[m] \subseteq alive[m]
    BY <2>1 DEF OrderInv, Typed
  <2>3. idx' \in [Threads -> Nat]
    BY <2>1 DEF OrderInv, Typed
  <2>4. Typed'
    BY <2>1, <2>2, <2>3 DEF OrderInv, Typed
  <2>5. AbortingIsMarked'
    BY <2>1 DEF OrderInv, AbortingIsMarked
  <2>6. StopsInReverse'
    <3>1. /\ idx'[t] = idx[t] - 1 /\ idx[t] \in Nat
          /\ \A x \in Threads \ {t} : idx'[x] = idx[x]
      BY <2>1 DEF OrderInv, Typed
    <3>2. \A i \in alive'[of[t]] : i \in Nat /\ i <= idx[t] /\ i # idx[t]
      BY <2>1, <1>0 DEF OrderInv, Typed, StopsInReverse
    <3> QED
      BY <2>1, <2>2, <3>1, <3>2 DEF OrderInv, StopsInReverse
  <2> QED
    BY <2>4, <2>5, <2>6 DEF OrderInv
<1>24. ASSUME NEW t \in Threads, AbortDone(t) PROVE OrderInv'
  <2>1. PICK l \in {"watch", "set", "quit_set"} : Goto(t, l) /\ (t \in Monitors => l = "set")
    BY <1>24 DEF AbortDone, OrderInv, Typed
  <2> QED
    BY <1>0, <1>24, <2>1, MoveOrder DEF AbortDone, serviceVars, Labels, WatchLabels
<1>25. ASSUME NEW w \in Monitors, WatchLoop(w) PROVE OrderInv'
  <2>1. PICK l \in {"seen", "ended"} : Goto(w, l)
    BY <1>25 DEF WatchLoop
  <2> QED
    BY <1>0, <1>25, <2>1, MoveOrder DEF WatchLoop, serviceVars, Labels, WatchLabels
<1>28. ASSUME NEW w \in Monitors, WatchAborts(w) PROVE OrderInv'
  BY <1>28, AbortThenOrder DEF WatchAborts, serviceVars, Labels, WatchLabels
<1>26. ASSUME NEW w \in Monitors, WatchSet(w) PROVE OrderInv'
  BY <1>0, <1>26, MoveOrder DEF WatchSet, Labels, WatchLabels
<1>27. CASE UNCHANGED vars
  BY <1>27 DEF vars, serviceVars, procVars, abortVars, OrderInv, Typed, AbortingIsMarked,
               StopsInReverse
<1> QED
  BY <1>1, <1>2, <1>3, <1>4, <1>5, <1>6, <1>7, <1>8, <1>9, <1>10, <1>11, <1>12, <1>13, <1>14,
     <1>15, <1>16, <1>17, <1>18, <1>19, <1>20, <1>21, <1>22, <1>23, <1>24, <1>25, <1>26, <1>27,
     <1>28
  DEF Next, MainGoesOn, Sort, StartAll, Commands, Watch

\* Assets are stopped in the reverse order of their start, whichever threads abort
\* at once (HakoMonitor.abort).
THEOREM StopsInReverseCorrect == Spec => []StopsInReverse
<1>1. OrderInv => StopsInReverse
  BY DEF OrderInv
<1> QED
  BY InitOrder, NextOrder, <1>1, PTL DEF Spec

\* A new launcher has stopped everything: it has started nothing.
LEMMA InitIInv == Init => IInv
<1> SUFFICES ASSUME Init PROVE WatchInv /\ StopInv
  BY InitOrder DEF IInv
<1> QED
  BY MainIsNoMonitor, ConstantsAssumption
  DEF Init, WatchInv, Monitors, StopInv, CurrentInv, AbortedInv, EarlierInv, TerminatedInv, Main

\* Only StartWatch starts a watch thread, and it does so once for each monitor.
LEMMA NextWatch == ASSUME IInv, [Next]_vars PROVE WatchInv'
<1> USE MainIsNoMonitor
<1>0. /\ mon \in Monitors /\ pc \in [Threads -> Labels] /\ Monitors \subseteq Nat
      /\ DOMAIN AfterCmd = {"start", "stop", "reset"}
      /\ \A c \in DOMAIN AfterCmd : AfterCmd[c] # "IDLE"
  BY DEF IInv, OrderInv, Typed, Monitors, AfterCmd
<1>1. ASSUME mon' = mon, \A m \in Monitors : pc[m] = "none" => pc'[m] = "none", Opening' => Opening
      PROVE  WatchInv'
  BY <1>0, <1>1 DEF IInv, WatchInv
<1>2. CASE ProcessEnds \/ SortStep
  BY <1>1, <1>2 DEF ProcessEnds, SortStep, serviceVars, abortVars, Opening, Leaving
<1>3. CASE SortDone
  BY <1>0, <1>1, <1>3 DEF SortDone, Goto, serviceVars, abortVars, Opening, Leaving
<1>4. CASE Activate
  <2>1. /\ pc[Main] = "ready" /\ pc' = [pc EXCEPT ![Main] = "spawn"]
        /\ \A m \in Monitors : pc'[m] = pc[m]
    BY <1>0, <1>4 DEF Activate, Goto
  <2>2. CASE state = "IDLE" /\ UNCHANGED mon
    BY <1>0, <2>1, <2>2 DEF IInv, WatchInv, Opening, Leaving
  <2>3. CASE mon < MaxMonitors /\ mon' = mon + 1
    <3>1. mon' \in Monitors /\ mon' > mon /\ \A m \in Monitors : m > mon' => m > mon
      BY <1>0, <2>3, ConstantsAssumption DEF Monitors
    <3> QED
      BY <2>1, <3>1 DEF IInv, WatchInv
  <2> QED
    BY <1>4, <2>2, <2>3 DEF Activate
<1>5. CASE Spawn \/ SpawnRaises \/ Stable \/ StartedAll
  <2>1. pc[Main] \in {"spawn", "grace"} /\ mon' = mon
    BY <1>5 DEF Spawn, SpawnRaises, Stable, StartedAll, serviceVars
  <2>2. PICK l : Goto(Main, l)
    BY <1>5 DEF Spawn, SpawnRaises, Stable, StartedAll
  <2> QED
    BY <1>0, <1>1, <2>1, <2>2 DEF Goto, Opening
<1>6. ASSUME NEW t \in Threads, NEW l \in {"watch", "set", "quit_set"}, AbortThen(t, l),
             UNCHANGED <<mon, state>>, pc[t] # "none",
             t = Main /\ l = "watch" => pc[Main] = "grace", t # Main => l = "set",
             t = Main /\ l = "set" => state # "IDLE"
      PROVE  WatchInv'
  <2>1. PICK x \in {l, "abort"} : Goto(t, x)
    BY <1>6 DEF AbortThen
  <2>2. \A m \in Monitors : pc[m] = "none" => pc'[m] = "none"
    BY <1>0, <1>6, <2>1 DEF Goto
  <2>3. Opening' => Opening
    <3>1. CASE aborted[mon]
      BY <1>0, <1>6, <3>1 DEF AbortThen, Goto, Opening, Leaving
    <3>2. CASE ~aborted[mon]
      BY <1>0, <1>6, <3>2 DEF AbortThen, Goto, Opening, Leaving
    <3> QED
      BY <3>1, <3>2
  <2> QED
    BY <1>1, <1>6, <2>2, <2>3
<1>7. CASE StartFailed
  BY <1>6, <1>7 DEF StartFailed, serviceVars
<1>8. CASE StartWatch
  <2>1. /\ pc' = [pc EXCEPT ![Main] = "activated", ![mon] = "loop"] /\ mon' = mon
        /\ pc'[Main] = "activated" /\ ~Opening'
    BY <1>0, <1>8 DEF StartWatch, Opening
  <2> QED
    BY <1>0, <2>1 DEF IInv, WatchInv
<1>9. CASE SetActivated
  BY <1>0, <1>1, <1>9 DEF SetActivated, Goto, abortVars, Opening, Leaving
<1>10. ASSUME NEW c \in DOMAIN AfterCmd, Cmd(c) PROVE WatchInv'
  BY <1>0, <1>1, <1>10 DEF Cmd, Goto, abortVars, Opening, Leaving
<1>11. CASE CmdRefused \/ CmdRaises \/ WaitOver \/ Quit \/ Interrupt \/ EndOfInput
  <2>1. mon' = mon /\ state' = state /\ ret' = ret
    BY <1>11 DEF CmdRefused, CmdRaises, WaitOver, Quit, Interrupt, EndOfInput, serviceVars, abortVars
  <2>2. PICK l \in {"wait", "quit", "ready", "over"} :
          Goto(Main, l) /\ (Leaving => l \in {"quit", "over"})
                        /\ (pc[Main] = "activated" => l = "quit")
    BY <1>11 DEF CmdRefused, AfterStart, CmdRaises, WaitOver, Quit, Interrupt, EndOfInput, Leaving
  <2> QED
    BY <1>0, <1>1, <2>1, <2>2 DEF Goto, Opening, Leaving
<1>12. CASE CmdDone
  <2>1. command \in {"start", "stop", "reset"} /\ state' # "IDLE"
    BY <1>0, <1>12 DEF CmdDone, IInv, OrderInv, Typed
  <2>2. PICK l \in {"wait", "ready", "over"} : Goto(Main, l)
    BY <1>12 DEF CmdDone, AfterStart
  <2> QED
    BY <1>0, <1>1, <1>12, <2>1, <2>2 DEF CmdDone, Goto, abortVars, Opening
<1>13. CASE TerminateCommand
  <2>1. CASE Goto(Main, "ready") /\ UNCHANGED abortVars
    BY <1>0, <1>1, <1>13, <2>1 DEF TerminateCommand, Goto, serviceVars, abortVars, Opening, Leaving
  <2>2. CASE state # "IDLE" /\ AbortThen(Main, "set")
    BY <1>6, <1>13, <2>2 DEF TerminateCommand, serviceVars
  <2> QED
    BY <1>13, <2>1, <2>2 DEF TerminateCommand, TerminateThen
<1>14. CASE QuitTerminates
  <2>1. CASE Goto(Main, "over") /\ UNCHANGED abortVars
    BY <1>0, <1>1, <1>14, <2>1 DEF QuitTerminates, Goto, serviceVars, abortVars, Opening, Leaving
  <2>2. CASE AbortThen(Main, "quit_set")
    BY <1>6, <1>14, <2>2 DEF QuitTerminates, serviceVars
  <2> QED
    BY <1>14, <2>1, <2>2 DEF QuitTerminates, TerminateThen
<1>15. CASE SetTerminated
  BY <1>0, <1>1, <1>15 DEF SetTerminated, Goto, abortVars, Opening, Leaving
<1>16. ASSUME NEW t \in Threads, AbortStep(t) PROVE WatchInv'
  BY <1>1, <1>16 DEF AbortStep, serviceVars, Opening, Leaving
<1>17. ASSUME NEW t \in Threads, AbortDone(t) PROVE WatchInv'
  <2>1. /\ pc[t] = "abort" /\ mon' = mon /\ state' = state /\ ret' = ret
        /\ pc' = [pc EXCEPT ![t] = IF t = Main THEN ret ELSE "set"]
        /\ t = Main => ret \in {"watch", "set", "quit_set"}
    BY <1>17 DEF AbortDone, Goto, serviceVars, abortVars, IInv, OrderInv, Typed
  <2> QED
    BY <1>0, <1>1, <2>1 DEF Opening, Leaving
<1>18. ASSUME NEW w \in Monitors, WatchLoop(w) PROVE WatchInv'
  BY <1>0, <1>1, <1>18 DEF WatchLoop, Goto, serviceVars, abortVars, Opening, Leaving
<1>21. ASSUME NEW w \in Monitors, WatchAborts(w) PROVE WatchInv'
  BY <1>6, <1>21 DEF WatchAborts, serviceVars
<1>19. ASSUME NEW w \in Monitors, WatchSet(w) PROVE WatchInv'
  BY <1>0, <1>1, <1>19 DEF WatchSet, Goto, abortVars, Opening, Leaving
<1>20. CASE UNCHANGED vars
  BY <1>1, <1>20 DEF vars, serviceVars, abortVars, Opening, Leaving
<1> QED
  BY <1>2, <1>3, <1>4, <1>5, <1>7, <1>8, <1>9, <1>10, <1>11, <1>12, <1>13, <1>14, <1>15, <1>16,
     <1>17, <1>18, <1>19, <1>20, <1>21
  DEF Next, MainGoesOn, Sort, StartAll, Commands, Watch

\* A thread that was not aborting goes on, main not back into the launcher it leaves.
LEMMA MoveStop ==
  ASSUME IInv, NEW t \in Threads, NEW l \in Labels \ {"abort"}, Goto(t, l), pc[t] # "abort",
         UNCHANGED <<procVars, abortVars, mon>>,
         t = Main /\ Leaving => l \in {"quit", "quit_set", "over"},
         l \in {"set", "quit_set"} => aborted[mon],
         state' = "TERMINATED" => state = "TERMINATED" \/ aborted[mon],
         t = Main /\ Activating =>
           l \in {"spawn", "grace", "watch", "activated", "quit"} \/ state' # "TERMINATED"
  PROVE  StopInv'
<1> USE MainIsNoMonitor DEF Goto, procVars, abortVars
<1>1. pc' = [pc EXCEPT ![t] = l] /\ pc \in [Threads -> Labels]
  BY DEF IInv, OrderInv, Typed
<1>2. /\ \A x \in Threads : pc'[x] = "abort" <=> pc[x] = "abort"
      /\ \A x \in Threads \ {t} : pc'[x] = pc[x]
      /\ pc'[t] = l
  BY <1>1
<1>3. Leaving => Leaving'
  BY <1>1, <1>2 DEF Leaving
<1>4. CurrentInv'
  BY <1>2 DEF IInv, StopInv, CurrentInv
<1>5. AbortedInv'
  BY <1>2, <1>3 DEF IInv, StopInv, AbortedInv
<1>6. EarlierInv'
  BY <1>3 DEF IInv, StopInv, EarlierInv
<1>7. TerminatedInv'
  <2>1. Activating => Activating' \/ Leaving' \/ state' # "TERMINATED"
    BY <1>1, <1>2 DEF Activating, Leaving
  <2> QED
    BY <1>3, <2>1 DEF IInv, StopInv, TerminatedInv
<1> QED
  BY <1>4, <1>5, <1>6, <1>7 DEF StopInv

\* AbortThen: the monitor is marked and the thread begins, or it was marked before.
LEMMA AbortThenStop ==
  ASSUME IInv, NEW t \in Threads, NEW l \in {"watch", "set", "quit_set"}, AbortThen(t, l),
         pc[t] # "abort",
         t = Main => ~Leaving \/ l = "quit_set",
         t = Main => (Activating <=> l = "watch"),
         t # Main => l = "set",
         UNCHANGED <<mon, state, procVars>>
  PROVE  StopInv'
<1> USE MainIsNoMonitor DEF procVars
<1>0. /\ pc \in [Threads -> Labels] /\ mon \in Monitors
      /\ aborted \in [Monitors -> BOOLEAN] /\ of \in [Threads -> Monitors]
  BY DEF IInv, OrderInv, Typed
<1>1. CASE aborted[mon]
  <2>1. Goto(t, l) /\ UNCHANGED <<aborted, of, idx, ret>>
    BY <1>1 DEF AbortThen
  <2>2. l \in Labels \ {"abort"}
    BY DEF Labels
  <2> QED
    BY <1>1, <2>1, <2>2, MoveStop DEF abortVars, Leaving
<1>2. CASE ~aborted[mon]
  <2>1. /\ pc' = [pc EXCEPT ![t] = "abort"]
        /\ aborted' = [aborted EXCEPT ![mon] = TRUE]
        /\ of' = [of EXCEPT ![t] = mon]
        /\ ret' = IF t = Main THEN l ELSE ret
    BY <1>2 DEF AbortThen, Goto
  <2>2. Leaving => Leaving'
    BY <1>0, <2>1 DEF Leaving
  <2>3. CurrentInv'
    BY <1>0, <2>1 DEF IInv, StopInv, CurrentInv
  <2>4. AbortedInv'
    BY <1>0, <2>1, <2>2 DEF IInv, StopInv, AbortedInv
  <2>5. EarlierInv'
    BY <2>2 DEF IInv, StopInv, EarlierInv
  <2>6. TerminatedInv'
    BY <1>0, <2>1 DEF TerminatedInv
  <2> QED
    BY <2>3, <2>4, <2>5, <2>6 DEF StopInv
<1> QED
  BY <1>1, <1>2

\* What termination means survives every step, if nobody activates while the watch
\* thread is still aborting.
LEMMA NextStop == ASSUME "hasty" \notin Use, IInv, [Next]_vars PROVE StopInv'
<1> USE MainIsNoMonitor
<1>0. /\ mon \in Monitors /\ pc \in [Threads -> Labels]
      /\ DOMAIN alive = Monitors /\ aborted \in [Monitors -> BOOLEAN]
  BY DEF IInv, OrderInv, Typed
<1>1. CASE ProcessEnds
  <2>1. PICK m \in Monitors : \E i \in alive[m] : alive' = [alive EXCEPT ![m] = @ \ {i}]
    BY <1>1 DEF ProcessEnds
  <2>2. \A x \in Monitors : alive'[x] \subseteq alive[x]
    BY <1>0, <2>1
  <2> QED
    BY <1>1, <2>2 DEF ProcessEnds, IInv, StopInv, CurrentInv, AbortedInv, EarlierInv,
                      TerminatedInv, Leaving, Activating, serviceVars, abortVars
<1>2. CASE SortStep
  BY <1>2 DEF SortStep, IInv, StopInv, CurrentInv, AbortedInv, EarlierInv, TerminatedInv,
              Leaving, Activating, serviceVars, procVars, abortVars
<1>3. CASE SortDone
  <2>1. PICK l \in {"ready", "over"} : Goto(Main, l)
    BY <1>3 DEF SortDone
  <2> QED
    BY <1>3, <2>1, MoveStop DEF SortDone, serviceVars, Labels, Leaving, Activating
<1>4. CASE Activate
  <2>1. /\ pc[Main] = "ready" /\ pc' = [pc EXCEPT ![Main] = "spawn"]
        /\ \A w \in Monitors : pc[w] \notin {"seen", "abort", "set"}
        /\ UNCHANGED <<state, alive, raised, aborted, of, ret>>
    BY <1>4 DEF Activate, Goto, abortVars
  <2>2. ~Leaving /\ ~Activating /\ \A t \in Threads : pc[t] # "abort"
    BY <2>1 DEF Leaving, Activating, Threads, Main
  <2>3. \A t \in Threads : pc'[t] \notin {"abort", "set", "quit_set"}
    BY <1>0, <2>1, <2>2 DEF IInv, OrderInv, Typed, Threads, Main, WatchLabels
  <2>4. mon' # mon => mon \in raised \/ alive[mon] = {}
    BY <1>0, <1>4, <2>2 DEF Activate, IInv, StopInv, AbortedInv, TerminatedInv
  <2>5. CurrentInv'
    BY <2>3 DEF CurrentInv
  <2>6. AbortedInv'
    BY <2>1, <2>2 DEF IInv, StopInv, AbortedInv
  <2>7. EarlierInv'
    BY <2>1, <2>2, <2>4 DEF IInv, StopInv, EarlierInv
  <2>8. TerminatedInv'
    BY <1>0, <2>1 DEF TerminatedInv, Activating
  <2> QED
    BY <2>5, <2>6, <2>7, <2>8 DEF StopInv
<1>5. CASE Spawn
  <2>1. /\ \A m \in Monitors \ {mon} : alive'[m] = alive[m]
        /\ pc[Main] = "spawn" /\ pc' = [pc EXCEPT ![Main] = "grace"] /\ ~aborted[mon]
        /\ UNCHANGED <<mon, state, raised, aborted, of, ret>>
    BY <1>0, <1>5 DEF Spawn, Goto, serviceVars, abortVars
  <2>2. ~Leaving /\ Activating' /\ \A t \in Threads : pc'[t] = "abort" <=> pc[t] = "abort"
    BY <1>0, <2>1 DEF Leaving, Activating
  <2> QED
    BY <1>0, <2>1, <2>2 DEF IInv, StopInv, CurrentInv, AbortedInv, EarlierInv, TerminatedInv
<1>6. CASE SpawnRaises
  <2>1. PICK l \in {"quit", "ready"} : Goto(Main, l)
    BY <1>6 DEF SpawnRaises
  <2>2. /\ pc[Main] = "spawn" /\ pc' = [pc EXCEPT ![Main] = l] /\ raised' = raised \cup {mon}
        /\ UNCHANGED <<mon, state, alive, aborted, of, ret>>
    BY <1>6, <2>1 DEF SpawnRaises, Goto, serviceVars, abortVars
  <2>3. ~Leaving /\ \A t \in Threads : pc'[t] = "abort" <=> pc[t] = "abort"
    BY <1>0, <2>2 DEF Leaving
  <2> QED
    BY <1>0, <2>2, <2>3 DEF IInv, StopInv, CurrentInv, AbortedInv, EarlierInv, TerminatedInv
<1>7. CASE Stable
  <2>1. /\ pc[Main] = "grace" /\ pc' = [pc EXCEPT ![Main] = "spawn"]
        /\ UNCHANGED <<mon, state, alive, raised, aborted, of, ret>>
    BY <1>7 DEF Stable, Goto, serviceVars, abortVars
  <2>2. ~Leaving /\ Activating' /\ \A t \in Threads : pc'[t] = "abort" <=> pc[t] = "abort"
    BY <1>0, <2>1 DEF Leaving, Activating
  <2> QED
    BY <1>0, <2>1, <2>2 DEF IInv, StopInv, CurrentInv, AbortedInv, EarlierInv, TerminatedInv
<1>8. CASE StartFailed
  BY <1>8, AbortThenStop DEF StartFailed, serviceVars, Leaving, Activating
<1>9. CASE StartedAll
  BY <1>9, MoveStop DEF StartedAll, serviceVars, Labels, Leaving
<1>10. CASE StartWatch
  <2>1. /\ pc[Main] = "watch" /\ pc' = [pc EXCEPT ![Main] = "activated", ![mon] = "loop"]
        /\ UNCHANGED <<mon, state, alive, raised, aborted, of, ret>>
    BY <1>10 DEF StartWatch, procVars, abortVars
  <2>2. ~Leaving /\ Activating' /\ pc'[Main] = "activated" /\ pc'[mon] = "loop"
    BY <1>0, <2>1 DEF Leaving, Activating
  <2>3. pc[mon] # "abort"
    BY <1>0, <2>1 DEF IInv, WatchInv, Opening
  <2> QED
    BY <1>0, <2>1, <2>2, <2>3 DEF IInv, StopInv, CurrentInv, AbortedInv, EarlierInv, TerminatedInv
<1>11. CASE SetActivated
  <2>1. PICK l \in {"start", "ready"} : Goto(Main, l)
    BY <1>11 DEF SetActivated
  <2> QED
    BY <1>11, <2>1, MoveStop DEF SetActivated, Labels, Leaving
<1>12. ASSUME NEW c \in DOMAIN AfterCmd, Cmd(c) PROVE StopInv'
  BY <1>12, MoveStop DEF Cmd, Labels, Leaving, Activating
<1>13. CASE CmdRefused
  <2>1. PICK l \in {"wait", "over"} : Goto(Main, l)
    BY <1>13 DEF CmdRefused, AfterStart
  <2> QED
    BY <1>13, <2>1, MoveStop DEF CmdRefused, serviceVars, Labels, Leaving, Activating
<1>14. CASE CmdDone
  <2>1. PICK l \in {"wait", "ready", "over"} : Goto(Main, l)
    BY <1>14 DEF CmdDone, AfterStart
  <2>2. command \in {"start", "stop", "reset"}
    BY <1>14 DEF CmdDone, IInv, OrderInv, Typed, AfterCmd
  <2>3. state' # "TERMINATED"
    BY <1>14, <2>2 DEF CmdDone, AfterCmd
  <2> QED
    BY <1>14, <2>1, <2>3, MoveStop DEF CmdDone, Labels, Leaving
<1>15. CASE CmdRaises
  <2>1. PICK l \in {"quit", "ready"} : Goto(Main, l)
    BY <1>15 DEF CmdRaises
  <2> QED
    BY <1>15, <2>1, MoveStop DEF CmdRaises, Labels, Leaving, Activating
<1>16. CASE WaitOver
  BY <1>16, MoveStop DEF WaitOver, serviceVars, Labels, Leaving, Activating
<1>17. CASE TerminateCommand
  <2>1. CASE Goto(Main, "ready") /\ UNCHANGED abortVars
    BY <1>17, <2>1, MoveStop DEF TerminateCommand, serviceVars, Labels, Leaving, Activating
  <2>2. CASE AbortThen(Main, "set")
    BY <1>17, <2>2, AbortThenStop DEF TerminateCommand, serviceVars, Leaving, Activating
  <2> QED
    BY <1>17, <2>1, <2>2 DEF TerminateCommand, TerminateThen
<1>18. CASE Quit
  BY <1>18, MoveStop DEF Quit, serviceVars, Labels, Leaving, Activating
<1>19. CASE QuitTerminates
  <2>1. CASE Goto(Main, "over") /\ UNCHANGED abortVars
    BY <1>19, <2>1, MoveStop DEF QuitTerminates, serviceVars, Labels, Leaving, Activating
  <2>2. CASE AbortThen(Main, "quit_set")
    BY <1>19, <2>2, AbortThenStop DEF QuitTerminates, serviceVars, Leaving, Activating
  <2> QED
    BY <1>19, <2>1, <2>2 DEF QuitTerminates, TerminateThen
<1>20. CASE SetTerminated
  <2>1. Goto(Main, IF pc[Main] = "set" THEN "ready" ELSE "over") /\ pc[Main] \in {"set", "quit_set"}
    BY <1>20 DEF SetTerminated
  <2>2. aborted[mon]
    BY <2>1 DEF IInv, StopInv, CurrentInv
  <2> QED
    BY <1>20, <2>1, <2>2, MoveStop DEF SetTerminated, Labels, Leaving, Activating
<1>21. CASE Interrupt
  <2>1. /\ pc' = [pc EXCEPT ![Main] = "quit"]
        /\ UNCHANGED <<mon, state, alive, raised, aborted, of, ret>>
    BY <1>21 DEF Interrupt, Goto, serviceVars, procVars, abortVars
  <2>2. Leaving'
    BY <1>0, <2>1 DEF Leaving
  <2> QED
    BY <1>0, <2>1, <2>2 DEF IInv, StopInv, CurrentInv, AbortedInv, EarlierInv, TerminatedInv
<1>22. CASE EndOfInput
  BY <1>22, MoveStop DEF EndOfInput, serviceVars, Labels, Leaving, Activating
<1>23. ASSUME NEW t \in Threads, AbortStep(t) PROVE StopInv'
  <2>1. \A x \in Monitors : alive'[x] \subseteq alive[x]
    BY <1>0, <1>23 DEF AbortStep
  <2> QED
    BY <1>23, <2>1 DEF AbortStep, IInv, StopInv, CurrentInv, AbortedInv, EarlierInv,
                       TerminatedInv, Leaving, Activating, serviceVars
<1>24. ASSUME NEW t \in Threads, AbortDone(t) PROVE StopInv'
  <2>1. /\ pc[t] = "abort" /\ idx[t] = 0
        /\ pc' = [pc EXCEPT ![t] = IF t = Main THEN ret ELSE "set"]
        /\ UNCHANGED <<mon, state, alive, raised, aborted, of, ret>>
    BY <1>24 DEF AbortDone, Goto, serviceVars, procVars, abortVars
  <2>2. alive[of[t]] = {}
    BY <2>1 DEF IInv, OrderInv, Typed, StopsInReverse
  <2>3. aborted[mon]
    BY <2>1 DEF IInv, StopInv, CurrentInv
  <2>4. t = Main => ret \in {"watch", "set", "quit_set"}
    BY <2>1 DEF IInv, OrderInv, Typed
  <2>5. Leaving => Leaving'
    BY <1>0, <2>1, <2>4 DEF Leaving
  <2>6. \A x \in Threads : pc'[x] = "abort" <=> pc[x] = "abort" /\ x # t
    BY <1>0, <2>1, <2>4
  <2>7. AbortedInv'
    BY <2>1, <2>2, <2>5, <2>6 DEF IInv, StopInv, AbortedInv
  <2> QED
    BY <2>1, <2>3, <2>5, <2>6, <2>7
    DEF IInv, StopInv, CurrentInv, EarlierInv, TerminatedInv
<1>25. ASSUME NEW w \in Monitors, WatchLoop(w) PROVE StopInv'
  <2>1. PICK l \in {"seen", "ended"} : Goto(w, l)
    BY <1>25 DEF WatchLoop
  <2> QED
    BY <1>25, <2>1, MoveStop DEF WatchLoop, serviceVars, Labels
<1>28. ASSUME NEW w \in Monitors, WatchAborts(w) PROVE StopInv'
  BY <1>28, AbortThenStop DEF WatchAborts, serviceVars
<1>26. ASSUME NEW w \in Monitors, WatchSet(w) PROVE StopInv'
  <2>1. aborted[mon]
    BY <1>26 DEF WatchSet, IInv, StopInv, CurrentInv
  <2> QED
    BY <1>26, <2>1, MoveStop DEF WatchSet, Labels
<1>27. CASE UNCHANGED vars
  BY <1>27 DEF vars, serviceVars, procVars, abortVars, IInv, StopInv, CurrentInv, AbortedInv,
               EarlierInv, TerminatedInv, Leaving, Activating
<1> QED
  BY <1>1, <1>2, <1>3, <1>4, <1>5, <1>6, <1>7, <1>8, <1>9, <1>10, <1>11, <1>12, <1>13, <1>14,
     <1>15, <1>16, <1>17, <1>18, <1>19, <1>20, <1>21, <1>22, <1>23, <1>24, <1>25, <1>26, <1>27,
     <1>28
  DEF Next, MainGoesOn, Sort, StartAll, Commands, Watch

\* The invariant, for operators who wait for an abort before they activate again.
THEOREM IInvCorrect == ASSUME "hasty" \notin Use PROVE Spec => []IInv
<1>1. IInv /\ [Next]_vars => IInv'
  BY NextOrder, NextWatch, NextStop DEF IInv
<1> QED
  BY InitIInv, <1>1, PTL DEF Spec

\* A launcher that calls itself TERMINATED has stopped every process of every
\* activation, whichever thread did it (LauncherService.terminate and _watch).
THEOREM TerminatedMeansStoppedCorrect ==
  ASSUME "hasty" \notin Use PROVE Spec => []TerminatedMeansStopped
<1>1. IInv => TerminatedMeansStopped
  <2> SUFFICES ASSUME IInv, state = "TERMINATED", pc[Main] \in {"ready", "wait"},
                      \A t \in Threads : pc[t] # "abort", NEW m \in Monitors \ raised
               PROVE  alive[m] = {}
    BY DEF TerminatedMeansStopped
  <2>1. ~Leaving /\ ~Activating
    BY DEF Leaving, Activating
  <2>2. m = mon => aborted[m]
    BY <2>1 DEF IInv, StopInv, TerminatedInv
  <2> QED
    BY <2>1, <2>2 DEF IInv, StopInv, AbortedInv, EarlierInv
<1> QED
  BY IInvCorrect, <1>1, PTL
-----------------------------------------------------------------------------
(* The sort.                                                               *)

Distinct(s) == \A i, j \in DOMAIN s : s[i] = s[j] => i = j

LEMMA NatInduct == ASSUME NEW T, 0 \in T, \A n \in Nat : n \in T => n + 1 \in T PROVE Nat \subseteq T
<1> SUFFICES ASSUME Nat \ T # {} PROVE FALSE
  OBVIOUS
<1>1. PICK n \in Nat \ T : \A m \in Nat \ T : ~(<<m, n>> \in OpToRel(<, Nat))
  <2>1. Nat \ T \subseteq Nat
    OBVIOUS
  <2> QED
    BY <2>1, WFMin, NatLessThanWellFounded, Zenon
<1>2. \A m \in Nat \ T : ~(m < n)
  BY <1>1, Zenon DEF OpToRel
<1>3. n \in Nat /\ n \notin T
  BY <1>1, Zenon
<1>4. n - 1 \in Nat /\ n - 1 < n /\ (n - 1) + 1 = n
  BY <1>3
<1>5. n - 1 \in T
  BY <1>2, <1>4
<1> QED
  BY <1>3, <1>4, <1>5

LEMMA AppendOne ==
  ASSUME NEW s \in Seq(Assets), NEW a \in Assets
  PROVE  /\ Append(s, a) \in Seq(Assets) /\ Len(Append(s, a)) = Len(s) + 1 /\ Len(s) \in Nat
         /\ DOMAIN s = 1 .. Len(s) /\ DOMAIN Append(s, a) = 1 .. Len(s) + 1
         /\ \A i \in 1 .. Len(s) : Append(s, a)[i] = s[i]
         /\ Append(s, a)[Len(s) + 1] = a
         /\ ToSet(Append(s, a)) = ToSet(s) \cup {a}
         /\ Distinct(s) /\ a \notin ToSet(s) => Distinct(Append(s, a))
<1>1. /\ Append(s, a) \in Seq(Assets) /\ Len(Append(s, a)) = Len(s) + 1 /\ Len(s) \in Nat
      /\ DOMAIN s = 1 .. Len(s) /\ DOMAIN Append(s, a) = 1 .. Len(s) + 1
      /\ \A i \in 1 .. Len(s) : Append(s, a)[i] = s[i]
      /\ Append(s, a)[Len(s) + 1] = a
  BY AppendProperties, LenProperties
<1>2. ToSet(Append(s, a)) = ToSet(s) \cup {a}
  <2>1. ASSUME NEW x \in ToSet(Append(s, a)) PROVE x \in ToSet(s) \cup {a}
    <3>1. PICK i \in 1 .. Len(s) + 1 : x = Append(s, a)[i]
      BY <1>1 DEF ToSet
    <3>2. CASE i = Len(s) + 1
      BY <1>1, <3>1, <3>2
    <3>3. CASE i \in 1 .. Len(s)
      BY <1>1, <3>1, <3>3 DEF ToSet
    <3> QED
      BY <1>1, <3>2, <3>3
  <2>2. ASSUME NEW x \in ToSet(s) PROVE x \in ToSet(Append(s, a))
    <3>1. PICK i \in 1 .. Len(s) : x = s[i]
      BY <1>1 DEF ToSet
    <3>2. i \in 1 .. Len(s) + 1 /\ x = Append(s, a)[i]
      BY <1>1, <3>1
    <3> QED
      BY <1>1, <3>2 DEF ToSet
  <2>3. Len(s) + 1 \in 1 .. Len(s) + 1
    BY <1>1
  <2>4. a \in ToSet(Append(s, a))
    BY <1>1, <2>3 DEF ToSet
  <2> QED
    BY <2>1, <2>2, <2>4
<1>3. ASSUME Distinct(s), a \notin ToSet(s) PROVE Distinct(Append(s, a))
  <2>1. \A i \in 1 .. Len(s) : s[i] # a
    BY <1>1, <1>3 DEF ToSet
  <2> QED
    BY <1>1, <1>3, <2>1 DEF Distinct
<1> QED
  BY <1>1, <1>2, <1>3

LEMMA ConcatTwo ==
  ASSUME NEW s \in Seq(Assets), NEW t \in Seq(Assets)
  PROVE  /\ s \o t \in Seq(Assets)
         /\ ToSet(s \o t) = ToSet(s) \cup ToSet(t)
         /\ Distinct(s) /\ Distinct(t) /\ ToSet(s) \cap ToSet(t) = {} => Distinct(s \o t)
<1>1. /\ s \o t \in Seq(Assets) /\ Len(s \o t) = Len(s) + Len(t) /\ Len(s) \in Nat /\ Len(t) \in Nat
      /\ DOMAIN s = 1 .. Len(s) /\ DOMAIN t = 1 .. Len(t) /\ DOMAIN (s \o t) = 1 .. Len(s) + Len(t)
      /\ \A i \in 1 .. Len(s) + Len(t) : (s \o t)[i] = IF i <= Len(s) THEN s[i] ELSE t[i - Len(s)]
  BY ConcatProperties, LenProperties
<1>2. \A i \in 1 .. Len(s) : i \in 1 .. Len(s) + Len(t) /\ (s \o t)[i] = s[i]
  BY <1>1
<1>3. \A i \in 1 .. Len(t) : i + Len(s) \in 1 .. Len(s) + Len(t) /\ (s \o t)[i + Len(s)] = t[i]
  BY <1>1
<1>4. ToSet(s \o t) = ToSet(s) \cup ToSet(t)
  <2>1. ASSUME NEW x \in ToSet(s \o t) PROVE x \in ToSet(s) \cup ToSet(t)
    <3>1. PICK i \in 1 .. Len(s) + Len(t) : x = (s \o t)[i]
      BY <1>1 DEF ToSet
    <3>2. CASE i <= Len(s)
      <4>1. i \in 1 .. Len(s) /\ x = s[i]
        BY <1>1, <3>1, <3>2
      <4> QED
        BY <1>1, <4>1 DEF ToSet
    <3>3. CASE ~(i <= Len(s))
      <4>1. i - Len(s) \in 1 .. Len(t) /\ x = t[i - Len(s)]
        BY <1>1, <3>1, <3>3
      <4> QED
        BY <1>1, <4>1 DEF ToSet
    <3> QED
      BY <3>2, <3>3
  <2>2. ASSUME NEW x \in ToSet(s) PROVE x \in ToSet(s \o t)
    <3>1. PICK i \in 1 .. Len(s) : x = s[i]
      BY <1>1 DEF ToSet
    <3>2. i \in DOMAIN (s \o t) /\ x = (s \o t)[i]
      BY <1>1, <1>2, <3>1
    <3> QED
      BY <3>2 DEF ToSet
  <2>3. ASSUME NEW x \in ToSet(t) PROVE x \in ToSet(s \o t)
    <3>1. PICK i \in 1 .. Len(t) : x = t[i]
      BY <1>1 DEF ToSet
    <3>2. i + Len(s) \in DOMAIN (s \o t) /\ x = (s \o t)[i + Len(s)]
      BY <1>1, <1>3, <3>1
    <3> QED
      BY <3>2 DEF ToSet
  <2> QED
    BY <2>1, <2>2, <2>3
<1>5. ASSUME Distinct(s), Distinct(t), ToSet(s) \cap ToSet(t) = {},
             NEW i \in 1 .. Len(s) + Len(t), NEW j \in 1 .. Len(s) + Len(t),
             (s \o t)[i] = (s \o t)[j]
      PROVE  i = j
  <2>1. \A m \in 1 .. Len(s), n \in 1 .. Len(t) : s[m] # t[n]
    BY <1>1, <1>5 DEF ToSet
  <2>2. ASSUME NEW m \in 1 .. Len(s) + Len(t)
        PROVE  \/ m \in 1 .. Len(s) /\ (s \o t)[m] = s[m]
               \/ m - Len(s) \in 1 .. Len(t) /\ (s \o t)[m] = t[m - Len(s)]
    BY <1>1
  <2>3. CASE i \in 1 .. Len(s) /\ j \in 1 .. Len(s)
    BY <1>1, <1>2, <1>5, <2>3 DEF Distinct
  <2>4. CASE i - Len(s) \in 1 .. Len(t) /\ j - Len(s) \in 1 .. Len(t)
    <3>1. t[i - Len(s)] = t[j - Len(s)]
      BY <1>1, <1>5, <2>4
    <3>2. i - Len(s) = j - Len(s)
      BY <1>1, <1>5, <2>4, <3>1 DEF Distinct
    <3> QED
      BY <1>1, <3>2
  <2> QED
    BY <1>1, <1>5, <2>1, <2>2, <2>3, <2>4
<1> QED
  BY <1>1, <1>4, <1>5 DEF Distinct

LEMMA HeadTail ==
  ASSUME NEW s \in Seq(Assets), s # <<>>
  PROVE  /\ Head(s) \in Assets /\ Tail(s) \in Seq(Assets)
         /\ ToSet(s) = ToSet(Tail(s)) \cup {Head(s)}
         /\ Distinct(s) => Distinct(Tail(s)) /\ Head(s) \notin ToSet(Tail(s))
<1>1. /\ Head(s) \in Assets /\ Tail(s) \in Seq(Assets) /\ Len(Tail(s)) = Len(s) - 1
      /\ Len(s) \in Nat \ {0} /\ DOMAIN s = 1 .. Len(s) /\ DOMAIN Tail(s) = 1 .. Len(s) - 1
      /\ Head(s) = s[1]
      /\ \A i \in 1 .. Len(s) - 1 : Tail(s)[i] = s[i + 1]
  BY HeadTailProperties, LenProperties, EmptySeq
<1>2. \A i \in 1 .. Len(s) - 1 : i + 1 \in 1 .. Len(s) /\ i + 1 # 1
  BY <1>1
<1>3. \A i \in 1 .. Len(s) : i = 1 \/ (i - 1 \in 1 .. Len(s) - 1 /\ Tail(s)[i - 1] = s[i])
  BY <1>1
<1>4. 1 \in 1 .. Len(s)
  BY <1>1
<1>5. ToSet(s) = ToSet(Tail(s)) \cup {Head(s)}
  <2>1. ASSUME NEW x \in ToSet(s) PROVE x \in ToSet(Tail(s)) \cup {Head(s)}
    <3>1. PICK i \in 1 .. Len(s) : x = s[i]
      BY <1>1 DEF ToSet
    <3> QED
      BY <1>1, <1>3, <3>1 DEF ToSet
  <2>2. ASSUME NEW x \in ToSet(Tail(s)) PROVE x \in ToSet(s)
    <3>1. PICK i \in 1 .. Len(s) - 1 : x = Tail(s)[i]
      BY <1>1 DEF ToSet
    <3>2. i + 1 \in DOMAIN s /\ x = s[i + 1]
      BY <1>1, <1>2, <3>1
    <3> QED
      BY <3>2 DEF ToSet
  <2>3. Head(s) \in ToSet(s)
    BY <1>1, <1>4 DEF ToSet
  <2> QED
    BY <2>1, <2>2, <2>3
<1>6. ASSUME Distinct(s) PROVE Head(s) \notin ToSet(Tail(s))
  BY <1>1, <1>2, <1>4, <1>6 DEF ToSet, Distinct
<1>7. ASSUME Distinct(s), NEW i \in 1 .. Len(s) - 1, NEW j \in 1 .. Len(s) - 1, Tail(s)[i] = Tail(s)[j]
      PROVE  i = j
  <2>1. s[i + 1] = s[j + 1] /\ i + 1 \in 1 .. Len(s) /\ j + 1 \in 1 .. Len(s)
    BY <1>1, <1>2, <1>7
  <2>2. i + 1 = j + 1
    BY <1>1, <1>7, <2>1 DEF Distinct
  <2> QED
    BY <1>1, <2>2
<1> QED
  BY <1>1, <1>5, <1>6, <1>7 DEF Distinct

\* The loops that list the assets of S come to all of them, and to each once.
LEMMA FileOrder ==
  ASSUME NEW S
  PROVE  /\ InFileOrder(S) \in Seq(Assets)
         /\ ToSet(InFileOrder(S)) = S \cap Assets
         /\ Distinct(InFileOrder(S))
<1> DEFINE L == Len(Listed)
           Body(f, i) == IF i = 0 THEN <<>>
                         ELSE IF Listed[i] \in S THEN Append(f[i - 1], Listed[i]) ELSE f[i - 1]
<1>0. /\ L \in Nat /\ DOMAIN Listed = 1 .. L /\ \A i \in 1 .. L : Listed[i] \in Assets
      /\ \A i, j \in 1 .. L : Listed[i] = Listed[j] => i = j
      /\ \A a \in Assets : \E i \in 1 .. L : Listed[i] = a
  <2>1. Listed \in Seq(Assets)
    BY ConstantsAssumption
  <2>2. L \in Nat /\ DOMAIN Listed = 1 .. L /\ \A i \in 1 .. L : Listed[i] \in Assets
    BY <2>1, LenProperties, ElementOfSeq
  <2> QED
    BY <2>2, ConstantsAssumption
<1> DEFINE Built(n) == \E f \in [0 .. n -> Seq(Assets)] : \A i \in 0 .. n : f[i] = Body(f, i)
           T == {n \in Nat : n <= L => Built(n)}
<1> HIDE DEF Built
<1>1. 0 \in T
  <2> DEFINE f == [i \in 0 .. 0 |-> <<>>]
  <2>1. f \in [0 .. 0 -> Seq(Assets)] /\ \A i \in 0 .. 0 : f[i] = Body(f, i)
    OBVIOUS
  <2>2. Built(0)
    BY <2>1 DEF Built
  <2> QED
    BY <2>2
<1>2. ASSUME NEW n \in Nat, n \in T PROVE n + 1 \in T
  <2> SUFFICES ASSUME n + 1 <= L PROVE Built(n + 1)
    OBVIOUS
  <2>1. n <= L /\ n + 1 \in 1 .. L
    BY <1>0
  <2>2. PICK f \in [0 .. n -> Seq(Assets)] : \A i \in 0 .. n : f[i] = Body(f, i)
    BY <1>2, <2>1 DEF Built
  <2> DEFINE x == IF Listed[n + 1] \in S THEN Append(f[n], Listed[n + 1]) ELSE f[n]
             g == [i \in 0 .. n + 1 |-> IF i = n + 1 THEN x ELSE f[i]]
  <2>3. n \in 0 .. n /\ f[n] \in Seq(Assets)
    BY <2>2
  <2>4. x \in Seq(Assets)
    BY <1>0, <2>1, <2>3, AppendOne
  <2> HIDE DEF x
  <2>5. g \in [0 .. n + 1 -> Seq(Assets)]
    BY <2>2, <2>4
  <2>6. g[n + 1] = x /\ \A i \in 0 .. n : g[i] = f[i]
    OBVIOUS
  <2> HIDE DEF g
  <2>7. ASSUME NEW i \in 0 .. n + 1 PROVE g[i] = Body(g, i)
    <3>1. CASE i = n + 1
      <4>1. i # 0 /\ i - 1 = n /\ g[i - 1] = f[n]
        BY <2>3, <2>6, <3>1
      <4> QED
        BY <2>6, <3>1, <4>1 DEF x
    <3>2. CASE i = 0
      <4>1. i \in 0 .. n
        BY <3>2
      <4> QED
        BY <2>2, <2>6, <3>2, <4>1
    <3>3. CASE i \in 1 .. n
      <4>1. i \in 0 .. n /\ i - 1 \in 0 .. n /\ i # 0
        BY <3>3
      <4>2. g[i] = f[i] /\ g[i - 1] = f[i - 1] /\ f[i] = Body(f, i)
        BY <2>2, <2>6, <4>1
      <4> QED
        BY <4>1, <4>2
    <3> QED
      BY <3>1, <3>2, <3>3
  <2> QED
    BY <2>5, <2>7 DEF Built
<1> HIDE DEF T
<1>3. Nat \subseteq T
  BY <1>1, <1>2, NatInduct, Zenon
<1>4. Built(L)
  BY <1>0, <1>3 DEF T
<1> DEFINE F == CHOOSE f : f = [i \in 0 .. L |-> Body(f, i)]
<1>5. F = [i \in 0 .. L |-> Body(F, i)]
  <2>1. PICK f \in [0 .. L -> Seq(Assets)] : \A i \in 0 .. L : f[i] = Body(f, i)
    BY <1>4 DEF Built
  <2> HIDE DEF Body
  <2>2. f = [i \in 0 .. L |-> Body(f, i)]
    BY <2>1
  <2> QED
    BY <2>2
<1>6. InFileOrder(S) = F[L]
  BY DEF InFileOrder
<1> DEFINE Good(n) == /\ F[n] \in Seq(Assets) /\ Distinct(F[n])
                      /\ ToSet(F[n]) = S \cap {Listed[j] : j \in 1 .. n}
           U == {n \in Nat : n <= L => Good(n)}
<1> HIDE DEF Good
<1>7. \A i \in 0 .. L : F[i] = Body(F, i)
  <2> HIDE DEF Body, F
  <2> QED
    BY <1>5
<1> HIDE DEF F
<1>8. 0 \in U
  <2>1. F[0] = <<>>
    BY <1>0, <1>7
  <2>2. Distinct(<<>>) /\ ToSet(<<>>) = {} /\ <<>> \in Seq(Assets)
    BY DEF Distinct, ToSet
  <2>3. {Listed[j] : j \in 1 .. 0} = {}
    OBVIOUS
  <2> QED
    BY <2>1, <2>2, <2>3 DEF Good
<1>9. ASSUME NEW n \in Nat, n \in U PROVE n + 1 \in U
  <2> SUFFICES ASSUME n + 1 <= L PROVE Good(n + 1)
    OBVIOUS
  <2>1. n <= L /\ n + 1 \in 1 .. L /\ n + 1 \in 0 .. L /\ n + 1 # 0 /\ (n + 1) - 1 = n
    BY <1>0
  <2>2. Good(n)
    BY <1>9, <2>1
  <2> USE DEF Good
  <2>3. F[n + 1] = IF Listed[n + 1] \in S THEN Append(F[n], Listed[n + 1]) ELSE F[n]
    BY <1>7, <2>1
  <2>4. {Listed[j] : j \in 1 .. n + 1} = {Listed[j] : j \in 1 .. n} \cup {Listed[n + 1]}
    BY <2>1
  <2>5. Listed[n + 1] \notin {Listed[j] : j \in 1 .. n} /\ Listed[n + 1] \in Assets
    BY <1>0, <2>1
  <2>6. CASE Listed[n + 1] \in S
    <3>1. Listed[n + 1] \notin ToSet(F[n])
      BY <2>2, <2>5
    <3> QED
      BY <2>2, <2>3, <2>4, <2>5, <2>6, <3>1, AppendOne
  <2>7. CASE Listed[n + 1] \notin S
    BY <2>2, <2>3, <2>4, <2>7
  <2> QED
    BY <2>6, <2>7
<1> HIDE DEF U
<1>10. Nat \subseteq U
  BY <1>8, <1>9, NatInduct, Zenon
<1>11. Good(L)
  BY <1>0, <1>10 DEF U
<1>12. {Listed[j] : j \in 1 .. L} = Assets
  BY <1>0
<1> QED
  BY <1>6, <1>11, <1>12 DEF Good

\* A list of different assets has them all when it is as long as the file.
LEMMA AllSorted ==
  ASSUME NEW s \in Seq(Assets), Distinct(s)
  PROVE  /\ Len(s) \in Nat /\ Len(s) <= Len(Listed) /\ Len(Listed) \in Nat
         /\ Len(s) = Len(Listed) <=> ToSet(s) = Assets
<1>1. ASSUME NEW t \in Seq(Assets), Distinct(t)
      PROVE  /\ t \in Injection(1 .. Len(t), Assets) /\ Len(t) \in Nat
             /\ t \in Surjection(1 .. Len(t), Assets) <=> ToSet(t) = Assets
             /\ IsFiniteSet(1 .. Len(t)) /\ Cardinality(1 .. Len(t)) = Len(t)
  <2>1. Len(t) \in Nat /\ DOMAIN t = 1 .. Len(t) /\ t \in [1 .. Len(t) -> Assets]
    BY LenProperties
  <2>2. t \in Injection(1 .. Len(t), Assets)
    BY <1>1, <2>1 DEF Injection, IsInjective, Distinct
  <2>3. t \in Surjection(1 .. Len(t), Assets) <=> ToSet(t) = Assets
    BY <2>1 DEF Surjection, ToSet
  <2>4. IsFiniteSet(1 .. Len(t)) /\ Cardinality(1 .. Len(t)) = Len(t)
    <3>1. 1 \in Int /\ Len(t) \in Int
      BY <2>1
    <3>2. /\ IsFiniteSet(1 .. Len(t))
          /\ Cardinality(1 .. Len(t)) = IF 1 > Len(t) THEN 0 ELSE Len(t) - 1 + 1
      BY <3>1, FS_Interval, Zenon
    <3> QED
      BY <2>1, <3>2
  <2> QED
    BY <2>1, <2>2, <2>3, <2>4
<1>2. Listed \in Seq(Assets) /\ Distinct(Listed) /\ ToSet(Listed) = Assets
  <2>1. Listed \in Seq(Assets) /\ Distinct(Listed)
    BY ConstantsAssumption DEF Distinct
  <2>2. \A i \in DOMAIN Listed : Listed[i] \in Assets
    BY <2>1, LenProperties, ElementOfSeq
  <2> QED
    BY <2>1, <2>2, ConstantsAssumption DEF ToSet
<1>3. IsFiniteSet(Assets) /\ Cardinality(Assets) = Len(Listed)
  <2>1. Listed \in Bijection(1 .. Len(Listed), Assets) /\ IsFiniteSet(1 .. Len(Listed))
        /\ Cardinality(1 .. Len(Listed)) = Len(Listed)
    BY <1>1, <1>2 DEF Bijection
  <2>2. ExistsBijection(1 .. Len(Listed), Assets)
    BY <2>1 DEF ExistsBijection
  <2> QED
    BY <2>1, <2>2, FS_Bijection
<1>4. /\ Cardinality(1 .. Len(s)) <= Cardinality(Assets)
      /\ Cardinality(1 .. Len(s)) = Cardinality(Assets) <=> s \in Surjection(1 .. Len(s), Assets)
  <2>1. s \in Injection(1 .. Len(s), Assets)
    BY <1>1
  <2> QED
    BY <1>3, <2>1, FS_Injection
<1> QED
  BY <1>1, <1>2, <1>3, <1>4
-----------------------------------------------------------------------------
(* The start.                                                              *)

\* Each asset comes once, after those it depends on, and the queue holds those
\* that are ready for it.
SortInv ==
  /\ deps \in [Assets -> SUBSET Assets] /\ queue \in Seq(Assets) /\ order \in Seq(Assets)
  /\ \A i \in DOMAIN order : deps[order[i]] \subseteq {order[j] : j \in 1 .. i - 1}
  /\ Distinct(order)
  /\ Distinct(queue) /\ ToSet(queue) \cap Sorted = {}
  /\ \A a \in Assets : deps[a] \subseteq Sorted <=> a \in Sorted \cup ToSet(queue)
  /\ pc[Main] # "sort" => queue = <<>>

\* Whatever has been started stands on what it depends on, and start_all has
\* started what comes before next.
StartInv ==
  /\ procs \in [Monitors -> Seq(Assets)]
  /\ next \in 1 .. Len(Listed) + 1
  /\ pc[Main] = "sort" => mon = 1 /\ procs[1] = <<>>
  /\ pc[Main] \notin {"sort", "over"} \/ mon > 1 \/ procs[1] # <<>> => Len(order) = Len(Listed)
  /\ \A m \in Monitors : \A i \in DOMAIN procs[m] :
       deps[procs[m][i]] \subseteq {procs[m][j] : j \in 1 .. i - 1}
  /\ pc[Main] = "spawn" => \A j \in 1 .. next - 1 : order[j] \in ToSet(procs[mon])
  /\ pc[Main] = "grace" =>
       next <= Len(order) /\ \A j \in 1 .. next : order[j] \in ToSet(procs[mon])

LaunchInv == OrderInv /\ SortInv /\ StartInv /\ mode \in Modes /\ stop \in BOOLEAN

LEMMA InitLaunch == Init => LaunchInv
<1> SUFFICES ASSUME Init PROVE LaunchInv
  OBVIOUS
<1>1. deps \in [Assets -> SUBSET Assets] /\ order = <<>> /\ queue = InFileOrder(NoDeps(deps))
  BY ConstantsAssumption DEF Init
<1>2. Sorted = {} /\ DOMAIN order = {} /\ order \in Seq(Assets)
  BY <1>1 DEF Sorted, ToSet
<1>3. queue \in Seq(Assets) /\ ToSet(queue) = NoDeps(deps) /\ Distinct(queue)
  BY <1>1, FileOrder DEF NoDeps
<1>4. pc[Main] = "sort" /\ mon = 1 /\ next = 1 /\ procs = [m \in Monitors |-> <<>>]
  BY MainIsNoMonitor DEF Init
<1>5. SortInv
  BY <1>1, <1>2, <1>3, <1>4 DEF SortInv, NoDeps, Distinct
<1>6. StartInv
  <2>1. 1 \in Monitors /\ procs[1] = <<>> /\ Len(Listed) \in Nat
    BY <1>4, ConstantsAssumption, LenProperties DEF Monitors
  <2>2. <<>> \in Seq(Assets) /\ DOMAIN <<>> = {}
    OBVIOUS
  <2> QED
    BY <1>4, <2>1, <2>2 DEF StartInv
<1> QED
  BY <1>5, <1>6, InitOrder DEF LaunchInv, Init

\* An asset is taken from the queue, and those that waited for it only are added.
LEMMA SortStepSort == ASSUME LaunchInv, SortStep PROVE SortInv'
<1> DEFINE n == Head(queue)
           N == {a \in Assets : n \in deps[a] /\ deps[a] \subseteq Sorted \cup {n}}
           q == InFileOrder(N)
<1>1. /\ queue # <<>> /\ order' = Append(order, n) /\ queue' = Tail(queue) \o q
      /\ deps' = deps /\ pc' = pc /\ pc[Main] = "sort"
  BY DEF SortStep
<1>2. /\ n \in Assets /\ Tail(queue) \in Seq(Assets) /\ ToSet(queue) = ToSet(Tail(queue)) \cup {n}
      /\ Distinct(Tail(queue)) /\ n \notin ToSet(Tail(queue))
  BY <1>1, HeadTail DEF LaunchInv, SortInv
<1>3. q \in Seq(Assets) /\ ToSet(q) = N /\ Distinct(q)
  BY FileOrder
<1> HIDE DEF n, q
<1>4. n \notin Sorted /\ deps[n] \subseteq Sorted
  BY <1>2 DEF LaunchInv, SortInv
<1>5. /\ order' \in Seq(Assets) /\ Len(order') = Len(order) + 1 /\ Len(order) \in Nat
      /\ DOMAIN order = 1 .. Len(order) /\ DOMAIN order' = 1 .. Len(order) + 1
      /\ \A i \in 1 .. Len(order) : order'[i] = order[i]
      /\ order'[Len(order) + 1] = n /\ Sorted' = Sorted \cup {n} /\ Distinct(order')
  BY <1>1, <1>2, <1>4, AppendOne DEF LaunchInv, SortInv, Sorted
<1>6. ASSUME NEW i \in 1 .. Len(order) + 1
      PROVE  deps[order'[i]] \subseteq {order'[j] : j \in 1 .. i - 1}
  <2>1. CASE i = Len(order) + 1
    <3>1. i - 1 = Len(order)
      BY <1>5, <2>1
    <3>2. Sorted = {order'[j] : j \in 1 .. i - 1}
      BY <1>5, <3>1 DEF Sorted, ToSet
    <3> QED
      BY <1>4, <1>5, <2>1, <3>2
  <2>2. CASE i \in 1 .. Len(order)
    <3>1. \A j \in 1 .. i - 1 : order'[j] = order[j]
      BY <1>5, <2>2
    <3>2. {order'[j] : j \in 1 .. i - 1} = {order[j] : j \in 1 .. i - 1}
      BY <3>1
    <3>3. deps[order[i]] \subseteq {order[j] : j \in 1 .. i - 1} /\ order'[i] = order[i]
      BY <1>5, <2>2 DEF LaunchInv, SortInv
    <3> QED
      BY <3>2, <3>3
  <2> QED
    BY <1>5, <2>1, <2>2
<1>7. \A a \in Assets : deps[a] \subseteq Sorted <=> a \in Sorted \cup ToSet(queue)
  BY DEF LaunchInv, SortInv
<1>8. \A a \in N : a \notin Sorted /\ a \notin ToSet(queue)
  BY <1>4, <1>7
<1>9. ToSet(Tail(queue)) \cap ToSet(q) = {}
  BY <1>2, <1>3, <1>8
<1>10. queue' \in Seq(Assets) /\ ToSet(queue') = ToSet(Tail(queue)) \cup N /\ Distinct(queue')
  BY <1>1, <1>2, <1>3, <1>9, ConcatTwo
<1>11. ToSet(queue') \cap Sorted' = {}
  <2>1. \A a \in ToSet(queue) : a \notin Sorted
    BY DEF LaunchInv, SortInv
  <2>2. n \notin N
    BY <1>4
  <2> QED
    BY <1>2, <1>5, <1>8, <1>10, <2>1, <2>2
<1>12. ASSUME NEW a \in Assets
       PROVE  deps[a] \subseteq Sorted' <=> a \in Sorted' \cup ToSet(queue')
  <2>1. deps[a] \subseteq Sorted \cup {n} <=> deps[a] \subseteq Sorted \/ a \in N
    OBVIOUS
  <2>2. deps[a] \subseteq Sorted <=> a \in Sorted \cup {n} \cup ToSet(Tail(queue))
    BY <1>2, <1>7
  <2> HIDE DEF N
  <2> QED
    BY <1>5, <1>10, <2>1, <2>2
<1> QED
  BY <1>1, <1>5, <1>6, <1>10, <1>11, <1>12 DEF LaunchInv, SortInv

\* A step that does not sort, and starts nothing.
LEMMA MoveLaunch ==
  ASSUME SortInv, StartInv, UNCHANGED <<deps, queue, order, procs, next, mon>>,
         \/ pc'[Main] = pc[Main]
         \/ pc[Main] \notin {"sort", "over"} /\ pc'[Main] \notin {"sort", "spawn", "grace"}
  PROVE  SortInv' /\ StartInv'
<1>1. SortInv'
  BY DEF SortInv, Sorted
<1>2. StartInv'
  BY DEF StartInv
<1> QED
  BY <1>1, <1>2

LEMMA SpawnLaunch == ASSUME LaunchInv, Spawn PROVE SortInv' /\ StartInv'
<1> DEFINE s == procs[mon]
           a == order[next]
<1>1. /\ pc[Main] = "spawn" /\ next <= Len(order) /\ pc' = [pc EXCEPT ![Main] = "grace"]
      /\ procs' = [procs EXCEPT ![mon] = Append(s, a)]
      /\ UNCHANGED <<deps, queue, order, next, mon>>
  BY DEF Spawn, Goto, sortVars, serviceVars
<1>2. pc'[Main] = "grace" /\ mon \in Monitors /\ mon \in Nat
  BY <1>1, MainIsNoMonitor, ConstantsAssumption DEF LaunchInv, OrderInv, Typed, Monitors
<1>3. SortInv'
  BY <1>1, <1>2 DEF LaunchInv, SortInv, Sorted
<1>4. order \in Seq(Assets) /\ Len(order) \in Nat /\ DOMAIN order = 1 .. Len(order)
  BY LenProperties DEF LaunchInv, SortInv
<1>5. next \in Nat /\ next \in DOMAIN order /\ s \in Seq(Assets) /\ a \in Assets
  BY <1>1, <1>2, <1>4, ConstantsAssumption, LenProperties, ElementOfSeq DEF LaunchInv, StartInv
<1>6. procs'[mon] = Append(s, a) /\ \A m \in Monitors \ {mon} : procs'[m] = procs[m]
  BY <1>1, <1>2 DEF LaunchInv, StartInv
<1> HIDE DEF s
<1>7. /\ Append(s, a) \in Seq(Assets) /\ Len(s) \in Nat
      /\ DOMAIN s = 1 .. Len(s) /\ DOMAIN Append(s, a) = 1 .. Len(s) + 1
      /\ \A i \in 1 .. Len(s) : Append(s, a)[i] = s[i]
      /\ Append(s, a)[Len(s) + 1] = a
      /\ ToSet(Append(s, a)) = ToSet(s) \cup {a}
  BY <1>5, AppendOne
<1>8. procs' \in [Monitors -> Seq(Assets)]
  BY <1>1, <1>7 DEF LaunchInv, StartInv
<1>9. \A j \in 1 .. next - 1 : order[j] \in ToSet(s)
  BY <1>1 DEF LaunchInv, StartInv, s
<1>10. ASSUME NEW i \in 1 .. Len(s) + 1
       PROVE  deps[Append(s, a)[i]] \subseteq {Append(s, a)[j] : j \in 1 .. i - 1}
  <2>0. i = Len(s) + 1 \/ i \in 1 .. Len(s)
    BY <1>7
  <2>1. CASE i = Len(s) + 1
    <3>1. i - 1 = Len(s)
      BY <1>7, <2>1
    <3>2. ToSet(s) = {Append(s, a)[j] : j \in 1 .. i - 1}
      BY <1>7, <3>1 DEF ToSet
    <3>3. deps[a] \subseteq {order[j] : j \in 1 .. next - 1}
      BY <1>5 DEF LaunchInv, SortInv
    <3>4. deps[a] \subseteq ToSet(s)
      BY <1>9, <3>3
    <3> QED
      BY <1>7, <2>1, <3>2, <3>4
  <2>2. CASE i \in 1 .. Len(s)
    <3>1. \A j \in 1 .. i - 1 : Append(s, a)[j] = s[j]
      BY <1>7, <2>2
    <3>2. {Append(s, a)[j] : j \in 1 .. i - 1} = {s[j] : j \in 1 .. i - 1}
      BY <3>1
    <3>3. deps[s[i]] \subseteq {s[j] : j \in 1 .. i - 1} /\ Append(s, a)[i] = s[i]
      BY <1>2, <1>7, <2>2 DEF LaunchInv, StartInv, s
    <3> QED
      BY <3>2, <3>3
  <2> QED
    BY <2>0, <2>1, <2>2
<1>11. \A m \in Monitors : \A i \in DOMAIN procs'[m] :
         deps'[procs'[m][i]] \subseteq {procs'[m][j] : j \in 1 .. i - 1}
  <2>1. ASSUME NEW m \in Monitors, m # mon, NEW i \in DOMAIN procs'[m]
        PROVE  deps'[procs'[m][i]] \subseteq {procs'[m][j] : j \in 1 .. i - 1}
    <3>1. procs'[m] = procs[m] /\ deps' = deps
      BY <1>1, <1>6, <2>1
    <3> QED
      BY <2>1, <3>1 DEF LaunchInv, StartInv
  <2>2. ASSUME NEW i \in DOMAIN procs'[mon]
        PROVE  deps'[procs'[mon][i]] \subseteq {procs'[mon][j] : j \in 1 .. i - 1}
    <3> DEFINE t == Append(s, a)
    <3>1. procs'[mon] = t /\ deps' = deps /\ i \in 1 .. Len(s) + 1
      BY <1>1, <1>6, <1>7, <2>2
    <3>2. deps[t[i]] \subseteq {t[j] : j \in 1 .. i - 1}
      BY <1>10, <3>1
    <3> HIDE DEF t
    <3> QED
      BY <3>1, <3>2
  <2> QED
    BY <2>1, <2>2
<1>12. \A j \in 1 .. next : order[j] \in ToSet(procs'[mon])
  <2>1. ASSUME NEW j \in 1 .. next PROVE j = next \/ j \in 1 .. next - 1
    BY <1>5
  <2>2. ToSet(procs'[mon]) = ToSet(s) \cup {order[next]}
    BY <1>6, <1>7
  <2> QED
    BY <1>9, <2>1, <2>2
<1>13. Len(order) = Len(Listed)
  BY <1>1 DEF LaunchInv, StartInv
<1> QED
  BY <1>1, <1>2, <1>3, <1>8, <1>11, <1>12, <1>13 DEF LaunchInv, StartInv

LEMMA NextLaunch == ASSUME LaunchInv, [Next]_vars PROVE LaunchInv'
<1> USE MainIsNoMonitor
<1>a. mode' = mode /\ (stop' = stop \/ stop' \in {TRUE, FALSE})
  <2>1. ASSUME NEW t \in Threads, AbortStep(t) \/ AbortDone(t) PROVE mode' = mode /\ stop' = stop
    BY <2>1 DEF AbortStep, AbortDone, sortVars, serviceVars
  <2>2. ASSUME NEW w \in Monitors, WatchLoop(w) \/ WatchAborts(w) \/ WatchSet(w)
        PROVE  mode' = mode /\ (stop' = stop \/ stop' \in {TRUE, FALSE})
    BY <2>2 DEF WatchLoop, WatchAborts, WatchSet, sortVars, serviceVars
  <2>3. CASE ProcessEnds \/ Activate \/ Commands \/ TerminateCommand \/ Quit \/ Interrupt \/ EndOfInput
    BY <2>3 DEF ProcessEnds, Activate, Commands, Cmd, TerminateCommand, Quit, Interrupt, EndOfInput,
                sortVars, serviceVars
  <2>4. CASE Sort \/ StartAll
    BY <2>4 DEF Sort, StartAll, SortStep, SortDone, Spawn, SpawnRaises, Stable, StartFailed,
                StartedAll, StartWatch, SetActivated, sortVars, serviceVars
  <2>5. CASE CmdRefused \/ CmdDone \/ CmdRaises \/ WaitOver \/ QuitTerminates \/ SetTerminated
    BY <2>5 DEF CmdRefused, CmdDone, CmdRaises, WaitOver, QuitTerminates, SetTerminated,
                sortVars, serviceVars
  <2>6. CASE UNCHANGED vars
    BY <2>6 DEF vars, sortVars, serviceVars
  <2> QED
    BY <2>1, <2>2, <2>3, <2>4, <2>5, <2>6 DEF Next, MainGoesOn, Watch
<1> SUFFICES SortInv' /\ StartInv'
  BY <1>a, NextOrder DEF LaunchInv
<1>0. pc \in [Threads -> Labels] /\ pc[Main] \in Labels /\ mon \in Monitors
      /\ (pc[Main] = "abort" => ret \in {"watch", "set", "quit_set"})
  BY DEF LaunchInv, OrderInv, Typed
<1>1. ASSUME NEW l \in Labels \ {"sort", "spawn", "grace"}, Goto(Main, l),
             pc[Main] \notin {"sort", "over"}, UNCHANGED <<sortVars, procs, next, mon>>
      PROVE  SortInv' /\ StartInv'
  BY <1>0, <1>1, MoveLaunch DEF Goto, sortVars, LaunchInv
<1>2. ASSUME NEW t \in Threads, NEW l \in Labels \ {"sort", "spawn", "grace"}, AbortThen(t, l),
             t = Main => pc[Main] \notin {"sort", "over"},
             UNCHANGED <<sortVars, procs, next, mon>>
      PROVE  SortInv' /\ StartInv'
  <2>1. pc' = [pc EXCEPT ![t] = l] \/ pc' = [pc EXCEPT ![t] = "abort"]
    BY <1>2 DEF AbortThen, Goto
  <2>2. pc'[Main] = pc[Main]
        \/ (pc[Main] \notin {"sort", "over"} /\ pc'[Main] \notin {"sort", "spawn", "grace"})
    BY <1>0, <1>2, <2>1
  <2> QED
    BY <1>2, <2>2, MoveLaunch DEF sortVars, LaunchInv
<1>3. ASSUME NEW w \in Monitors, NEW l, Goto(w, l), UNCHANGED <<sortVars, procs, next, mon>>
      PROVE  SortInv' /\ StartInv'
  <2>1. pc'[Main] = pc[Main]
    BY <1>0, <1>3 DEF Goto
  <2> QED
    BY <1>3, <2>1, MoveLaunch DEF sortVars, LaunchInv
<1>4. ASSUME UNCHANGED <<sortVars, procs, next, mon, pc>> PROVE SortInv' /\ StartInv'
  BY <1>4, MoveLaunch DEF sortVars, LaunchInv
<1>5. CASE ProcessEnds
  BY <1>4, <1>5 DEF ProcessEnds, serviceVars
<1>6. CASE SortStep
  <2>1. SortInv'
    BY <1>6, SortStepSort
  <2>2. procs' = procs /\ next' = next /\ mon' = mon /\ pc' = pc /\ pc[Main] = "sort"
        /\ deps' = deps
    BY <1>6 DEF SortStep, serviceVars, procVars
  <2>3. mon = 1 /\ procs[1] = <<>> /\ ~(mon > 1)
    BY <2>2 DEF LaunchInv, StartInv
  <2>4. StartInv'
    BY <2>2, <2>3 DEF LaunchInv, StartInv
  <2> QED
    BY <2>1, <2>4
<1>7. CASE SortDone
  <2>1. /\ pc[Main] = "sort" /\ queue = <<>>
        /\ pc' = [pc EXCEPT ![Main] = IF Len(order) = Len(Listed) THEN "ready" ELSE "over"]
        /\ UNCHANGED <<sortVars, procs, next, mon>>
    BY <1>7 DEF SortDone, Goto, serviceVars, procVars
  <2>2. SortInv'
    BY <2>1 DEF LaunchInv, SortInv, Sorted, sortVars
  <2>3. pc'[Main] = IF Len(order) = Len(Listed) THEN "ready" ELSE "over"
    BY <1>0, <2>1
  <2>4. StartInv'
    BY <2>1, <2>3 DEF LaunchInv, StartInv, sortVars
  <2> QED
    BY <2>2, <2>4
<1>8. CASE Activate
  <2>1. /\ pc[Main] = "ready" /\ next' = 1 /\ pc' = [pc EXCEPT ![Main] = "spawn"]
        /\ mon' = mon \/ mon' = mon + 1
        /\ UNCHANGED <<sortVars, procs>>
    BY <1>8 DEF Activate, Goto
  <2>2. pc'[Main] = "spawn" /\ Len(Listed) \in Nat
    BY <1>0, <2>1, ConstantsAssumption, LenProperties
  <2>3. SortInv'
    BY <2>1, <2>2 DEF LaunchInv, SortInv, Sorted, sortVars
  <2>4. StartInv'
    BY <2>1, <2>2 DEF LaunchInv, StartInv, sortVars
  <2> QED
    BY <2>3, <2>4
<1>9. CASE Spawn
  BY <1>9, SpawnLaunch
<1>10. CASE Stable
  <2>1. /\ pc[Main] = "grace" /\ next' = next + 1 /\ pc' = [pc EXCEPT ![Main] = "spawn"]
        /\ UNCHANGED <<sortVars, procs, mon>>
    BY <1>10 DEF Stable, Goto, serviceVars
  <2>2. pc'[Main] = "spawn" /\ Len(Listed) \in Nat
    BY <1>0, <2>1, ConstantsAssumption, LenProperties
  <2>3. SortInv'
    BY <2>1, <2>2 DEF LaunchInv, SortInv, Sorted, sortVars
  <2>4. next <= Len(Listed) /\ next \in Nat /\ (next + 1) - 1 = next
    BY <2>1, <2>2 DEF LaunchInv, StartInv
  <2>5. StartInv'
    BY <2>1, <2>2, <2>4 DEF LaunchInv, StartInv, sortVars
  <2> QED
    BY <2>3, <2>5
<1>11. CASE SpawnRaises
  BY <1>1, <1>11 DEF SpawnRaises, serviceVars, Labels
<1>12. CASE StartFailed
  BY <1>2, <1>12 DEF StartFailed, serviceVars, procVars, Labels
<1>13. CASE StartedAll
  BY <1>1, <1>13 DEF StartedAll, serviceVars, procVars, Labels
<1>14. CASE StartWatch
  <2>1. pc[Main] = "watch" /\ pc' = [pc EXCEPT ![Main] = "activated", ![mon] = "loop"]
        /\ UNCHANGED <<sortVars, procs, next, mon>>
    BY <1>14 DEF StartWatch, procVars
  <2>2. pc'[Main] = "activated"
    BY <1>0, <2>1
  <2> QED
    BY <2>1, <2>2, MoveLaunch DEF sortVars, LaunchInv
<1>15. CASE SetActivated
  BY <1>1, <1>15 DEF SetActivated, procVars, Labels
<1>16. ASSUME NEW c \in DOMAIN AfterCmd, Cmd(c) PROVE SortInv' /\ StartInv'
  BY <1>1, <1>16 DEF Cmd, procVars, Labels
<1>17. CASE CmdRefused \/ CmdDone \/ CmdRaises \/ WaitOver \/ Quit \/ SetTerminated \/ EndOfInput
  BY <1>1, <1>17 DEF CmdRefused, CmdDone, AfterStart, CmdRaises, WaitOver, Quit, SetTerminated,
                     EndOfInput, serviceVars, procVars, Labels
<1>18. CASE Interrupt
  BY <1>1, <1>18 DEF Interrupt, serviceVars, procVars, Labels
<1>19. CASE TerminateCommand \/ QuitTerminates
  BY <1>1, <1>2, <1>19 DEF TerminateCommand, QuitTerminates, TerminateThen, serviceVars, procVars,
                           Labels
<1>20. ASSUME NEW t \in Threads, AbortStep(t) PROVE SortInv' /\ StartInv'
  BY <1>4, <1>20 DEF AbortStep, serviceVars
<1>21. ASSUME NEW t \in Threads, AbortDone(t) PROVE SortInv' /\ StartInv'
  <2>1. CASE t = Main
    BY <1>0, <1>1, <1>21, <2>1 DEF AbortDone, serviceVars, procVars, Labels
  <2>2. CASE t # Main
    <3>1. t \in Monitors
      BY <2>2 DEF Threads, Main
    <3> QED
      BY <1>3, <1>21, <2>2, <3>1 DEF AbortDone, serviceVars, procVars
  <2> QED
    BY <2>1, <2>2
<1>22. ASSUME NEW w \in Monitors, WatchLoop(w) \/ WatchAborts(w) \/ WatchSet(w) PROVE SortInv' /\ StartInv'
  BY <1>2, <1>3, <1>22 DEF WatchLoop, WatchAborts, WatchSet, serviceVars, procVars, Labels
<1>23. CASE UNCHANGED vars
  BY <1>4, <1>23 DEF vars, serviceVars, procVars
<1> QED
  BY <1>5, <1>6, <1>7, <1>8, <1>9, <1>10, <1>11, <1>12, <1>13, <1>14, <1>15, <1>16, <1>17, <1>18,
     <1>19, <1>20, <1>21, <1>22, <1>23
  DEF Next, MainGoesOn, Sort, StartAll, Commands, Watch

\* The invariant of the sort and of start_all.
THEOREM LaunchInvCorrect == Spec => []LaunchInv
  BY InitLaunch, NextLaunch, PTL DEF Spec

(* What the launcher passes on is typed: the queue and the order of the    *)
(* sort name assets, start_all stays in its list, a process belongs to a   *)
(* monitor and a command that hako-cmd runs is one that it knows.          *)
THEOREM TypeCorrect == Spec => []TypeOK
<1>1. LaunchInv => TypeOK
  <2> SUFFICES ASSUME LaunchInv PROVE TypeOK
    OBVIOUS
  <2>1. procs \in [Monitors -> Seq(Assets)]
    BY DEF LaunchInv, StartInv
  <2>2. \A m \in Monitors : alive[m] \subseteq DOMAIN procs[m]
    BY <2>1, LenProperties DEF LaunchInv, OrderInv, Typed
  <2> QED
    BY <2>1, <2>2 DEF LaunchInv, OrderInv, Typed, SortInv, StartInv, TypeOK, Labels
<1> QED
  BY LaunchInvCorrect, <1>1, PTL

(* An asset is started when all it depends on has been, by each start_all, *)
(* with other activations before it or a start that raised, and nothing is *)
(* started of a launch file with a cycle (model.py:125, hako_monitor.py:47).*)
THEOREM StartsInOrderCorrect == Spec => []StartsInOrder
<1>1. LaunchInv => StartsInOrder
  <2> SUFFICES ASSUME LaunchInv PROVE StartsInOrder
    OBVIOUS
  <2>1. mon > 1 \/ procs[1] # <<>> => ToSet(order) = Assets
    BY AllSorted DEF LaunchInv, SortInv, StartInv
  <2> QED
    BY <2>1 DEF StartsInOrder, LaunchInv, StartInv
<1> QED
  BY LaunchInvCorrect, <1>1, PTL

\* Among the assets that the sort left out each depends on another of them.
RefusedIsCyclic ==
  pc[Main] = "over" /\ Len(order) # Len(Listed) =>
    \E C \in SUBSET Assets : C # {} /\ \A a \in C : deps[a] \cap C # {}

(* A launch file is refused only for a cycle: if the sort leaves an asset  *)
(* out, there is a set of assets each of which depends on one of the set,  *)
(* so that no order exists (model.py:154).                                 *)
THEOREM RefusedIsCyclicCorrect == Spec => []RefusedIsCyclic
<1>1. LaunchInv => RefusedIsCyclic
  <2> SUFFICES ASSUME LaunchInv, pc[Main] = "over", Len(order) # Len(Listed)
               PROVE  \E C \in SUBSET Assets : C # {} /\ \A a \in C : deps[a] \cap C # {}
    BY DEF RefusedIsCyclic
  <2> DEFINE C == Assets \ Sorted
  <2>1. order \in Seq(Assets) /\ ToSet(queue) = {} /\ Sorted # Assets /\ Sorted \subseteq Assets
    <3>1. order \in Seq(Assets) /\ Distinct(order) /\ queue = <<>>
      BY DEF LaunchInv, SortInv
    <3>2. Sorted # Assets
      BY <3>1, AllSorted DEF Sorted
    <3>3. Sorted \subseteq Assets
      BY <3>1, LenProperties, ElementOfSeq DEF Sorted, ToSet
    <3>4. ToSet(queue) = {}
      BY <3>1 DEF ToSet
    <3> QED
      BY <3>1, <3>2, <3>3, <3>4
  <2>2. C # {}
    BY <2>1
  <2>3. ASSUME NEW a \in C PROVE deps[a] \cap C # {}
    <3>1. ~(deps[a] \subseteq Sorted) /\ deps[a] \subseteq Assets
      BY <2>1, <2>3 DEF LaunchInv, SortInv
    <3> QED
      BY <3>1
  <2> QED
    BY <2>2, <2>3
<1> QED
  BY LaunchInvCorrect, <1>1, PTL
=============================================================================
