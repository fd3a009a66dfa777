-------------------------- MODULE SimulationProofs --------------------------
(***************************************************************************)
(* Types, quiet between runs and the bounds on time, for any number of     *)
(* assets of every kind, any steps and any max_delay_usec, with operators  *)
(* who trigger at any time, forced stops and calls that fail.              *)
(*                                                                         *)
(* QuietBetweenRuns is inductive once the feedback is part of it: who has  *)
(* answered Stop is not in a step (QuietInv).  The bounds on time need the *)
(* events (EventInv): outside a transition nobody has one to answer, so    *)
(* no asset's time is set back in a run.  TimeInv then relates each        *)
(* asset's time, the time it has told and the world time.                  *)
(***************************************************************************)
EXTENDS Simulation, TLAPS

\* Where assets of each kind can be.
PlaceInv ==
  \A a \in Assets :
    /\ at[a] = "out" => cur[a] = 0 /\ reported[a] = 0
    /\ at[a] # "out" => a \in registered
    /\ at[a] \in InLoop => a \in Callbacks
    /\ at[a] \in {"loop", "advance"} => a \notin Callbacks

\* Who has answered Stop is not in the middle of a step.
QuietInv ==
  /\ QuietBetweenRuns
  /\ sim = "Stopping" => \A a \in ack : at[a] \notin {"inside", "advance"}

\* The event of a transition is waiting, taken, or gone; outside transitions there is none.
EventOf == [Runnable |-> "Start", Stopping |-> "Stop", Resetting |-> "Reset"]
EventInv ==
  \A a \in Assets :
    /\ sim \in {"Stopped", "Running"} => event[a] = None /\ doing[a] = None
    /\ sim \in DOMAIN EventOf =>
         /\ {event[a], doing[a]} \subseteq {None, EventOf[sim]}
         /\ event[a] = None \/ doing[a] = None
         /\ a \in ack => event[a] = None /\ doing[a] = None
    /\ a \notin registered => event[a] = None /\ doing[a] = None

\* Nobody's time, nor what it has told, is further ahead than its lead, and what an
\* asset has told is its time, or from before this run.
TimeInv ==
  /\ \A a \in Assets : cur[a] <= world + Lead(a) /\ reported[a] <= world + Lead(a)
  /\ \A a \in Assets : at[a] = "inside" => cur[a] + Delta[a] <= world
  /\ sim = "Resetting" => \A a \in ack : cur[a] = 0
  /\ sim = "Runnable" => base = world
  /\ sim = "Running" => \A a \in Assets : reported[a] <= cur[a] \/ reported[a] <= base + Lead(a)

IInv == TypeOK /\ PlaceInv /\ QuietInv /\ EventInv /\ TimeInv /\ TimesTogether

\* The sleep of hako_asset_usleep is a positive number of steps.
LEMMA StepsArePositive ==
  ASSUME NEW a \in Assets, NEW u \in Nat PROVE StepsFor(a, u) \in Nat
<1>1. Delta[a] \in Nat /\ Delta[a] > 0
  BY ConstantsAssumption
<1> QED
  BY <1>1 DEF StepsFor

\* The steps and leads are natural numbers.
LEMMA Leads == \A a \in Assets : Delta[a] \in Nat /\ Delta[a] > 0 /\ Lead(a) \in Nat
  BY ConstantsAssumption DEF Lead

\* Everything begins stopped, at time 0.
LEMMA InitIInv == Init => IInv
<1> SUFFICES ASSUME Init PROVE IInv
  OBVIOUS
<1> USE ConstantsAssumption, Leads DEF Init
<1>1. TypeOK
  BY DEF TypeOK, States, Events
<1>2. PlaceInv /\ QuietInv /\ EventInv /\ TimesTogether
  BY DEF PlaceInv, QuietInv, QuietBetweenRuns, EventInv, EventOf, TimesTogether, InLoop
<1>3. TimeInv
  BY DEF TimeInv
<1> QED
  BY <1>1, <1>2, <1>3 DEF IInv

\* The operator triggers an event for every registered asset.
LEMMA OperatorStep == ASSUME IInv, Operator PROVE IInv'
<1> USE ConstantsAssumption, Leads
<1>0. TypeOK /\ PlaceInv /\ QuietInv /\ EventInv /\ TimeInv /\ registered \subseteq Assets
  BY DEF IInv, TypeOK
<1>1. CASE TriggerStart
  <2>1. /\ sim = "Stopped" /\ sim' = "Runnable" /\ run' = run + 1 /\ run < MaxRuns
        /\ event' = [a \in Assets |-> IF a \in registered THEN "Start" ELSE event[a]]
        /\ ack' = {} /\ synced' = {} /\ base' = world
        /\ UNCHANGED <<world, registered, reported, at, doing, cur, target>>
    BY <1>1 DEF TriggerStart, Post
  <2>2. TypeOK'
    BY <1>0, <2>1 DEF TypeOK, States, Events
  <2>3. PlaceInv' /\ QuietInv' /\ TimesTogether'
    BY <1>0, <2>1 DEF PlaceInv, QuietInv, QuietBetweenRuns, TimesTogether
  <2>4. EventInv'
    BY <1>0, <2>1 DEF EventInv, EventOf
  <2>5. TimeInv'
    BY <1>0, <2>1 DEF TimeInv
  <2> QED
    BY <2>2, <2>3, <2>4, <2>5 DEF IInv
<1>2. CASE TriggerStop
  <2>1. /\ sim = "Running" /\ sim' = "Stopping"
        /\ event' = [a \in Assets |-> IF a \in registered THEN "Stop" ELSE event[a]]
        /\ ack' = {}
        /\ UNCHANGED <<world, registered, synced, reported, at, doing, cur, target, run, base>>
    BY <1>2 DEF TriggerStop, Post
  <2>2. TypeOK'
    BY <1>0, <2>1 DEF TypeOK, States, Events
  <2>3. PlaceInv' /\ QuietInv' /\ TimesTogether'
    BY <1>0, <2>1 DEF PlaceInv, QuietInv, QuietBetweenRuns, TimesTogether
  <2>4. EventInv'
    BY <1>0, <2>1 DEF EventInv, EventOf
  <2>5. TimeInv'
    BY <1>0, <2>1 DEF TimeInv
  <2> QED
    BY <2>2, <2>3, <2>4, <2>5 DEF IInv
<1>3. CASE TriggerReset
  <2>1. /\ sim = "Stopped" /\ sim' = "Resetting"
        /\ event' = [a \in Assets |-> IF a \in registered THEN "Reset" ELSE event[a]]
        /\ ack' = {}
        /\ UNCHANGED <<world, registered, synced, reported, at, doing, cur, target, run, base>>
    BY <1>3 DEF TriggerReset, Post
  <2>2. TypeOK'
    BY <1>0, <2>1 DEF TypeOK, States, Events
  <2>3. PlaceInv' /\ QuietInv' /\ TimesTogether'
    BY <1>0, <2>1 DEF PlaceInv, QuietInv, QuietBetweenRuns, TimesTogether
  <2>4. EventInv'
    BY <1>0, <2>1 DEF EventInv, EventOf
  <2>5. TimeInv'
    BY <1>0, <2>1 DEF TimeInv
  <2> QED
    BY <2>2, <2>3, <2>4, <2>5 DEF IInv
<1> QED
  BY <1>1, <1>2, <1>3 DEF Operator

\* The master: the transitions when all have answered, and the clock.
LEMMA MasterStep == ASSUME IInv, Master PROVE IInv'
<1> USE ConstantsAssumption, Leads
<1>0. TypeOK /\ PlaceInv /\ QuietInv /\ EventInv /\ TimeInv /\ TimesTogether
  BY DEF IInv
<1>1. CASE Acknowledged
  <2> DEFINE Rest == UNCHANGED <<registered, event, ack, synced, at, doing, cur, target, run, base>>
  <2>0. Rest /\ registered \subseteq ack
    BY <1>1 DEF Acknowledged
  <2>1. CASE sim = "Runnable" /\ sim' = "Running" /\ UNCHANGED <<world, reported>>
    <3>1. TypeOK' /\ PlaceInv' /\ QuietInv'
      BY <1>0, <2>0, <2>1 DEF TypeOK, States, PlaceInv, QuietInv, QuietBetweenRuns
    <3>2. EventInv'
      BY <1>0, <2>0, <2>1 DEF EventInv, EventOf
    <3>3. TimeInv'
      BY <1>0, <2>0, <2>1 DEF TimeInv
    <3>4. TimesTogether'
      BY <1>0, <2>0, <2>1 DEF TypeOK, TimeInv, TimesTogether
    <3> QED
      BY <3>1, <3>2, <3>3, <3>4 DEF IInv
  <2>2. CASE sim = "Stopping" /\ sim' = "Stopped" /\ UNCHANGED <<world, reported>>
    <3>1. TypeOK' /\ PlaceInv'
      BY <1>0, <2>0, <2>2 DEF TypeOK, States, PlaceInv
    <3>2. QuietInv'
      <4>1. \A a \in Assets : at[a] \in {"inside", "advance"} => a \in registered
        BY <1>0 DEF PlaceInv
      <4> QED
        BY <1>0, <2>0, <2>2, <4>1 DEF QuietInv, QuietBetweenRuns
    <3>3. EventInv'
      BY <1>0, <2>0, <2>2 DEF EventInv, EventOf
    <3>4. TimeInv' /\ TimesTogether'
      BY <1>0, <2>0, <2>2 DEF TimeInv, TimesTogether
    <3> QED
      BY <3>1, <3>2, <3>3, <3>4 DEF IInv
  <2>3. CASE /\ sim = "Resetting" /\ sim' = "Stopped" /\ world' = 0
             /\ reported' = [a \in Assets |-> 0]
    <3>1. TypeOK' /\ PlaceInv'
      BY <1>0, <2>0, <2>3 DEF TypeOK, States, PlaceInv
    <3>2. QuietInv'
      BY <1>0, <2>0, <2>3 DEF QuietInv, QuietBetweenRuns
    <3>3. EventInv'
      BY <1>0, <2>0, <2>3 DEF EventInv, EventOf
    <3>4. \A a \in Assets : cur[a] = 0 /\ at[a] # "inside"
      BY <1>0, <2>0, <2>3 DEF PlaceInv, TimeInv, QuietInv, QuietBetweenRuns
    <3>5. TimeInv' /\ TimesTogether'
      BY <2>0, <2>3, <3>4 DEF TimeInv, TimesTogether
    <3> QED
      BY <3>1, <3>2, <3>3, <3>5 DEF IInv
  <2> QED
    BY <1>1, <2>1, <2>2, <2>3 DEF Acknowledged
<1>2. CASE Advance
  <2>1. /\ sim = "Running" /\ world < MaxTime /\ world' = world + 1
        /\ \A a \in registered : world + 1 <= reported[a] + MaxDelay
        /\ UNCHANGED <<sim, registered, event, ack, synced, reported, at, doing, cur, target, run, base>>
    BY <1>2 DEF Advance
  <2>2. TypeOK' /\ PlaceInv'
    BY <1>0, <2>1 DEF TypeOK, PlaceInv
  <2>3. QuietInv' /\ EventInv'
    BY <1>0, <2>1 DEF QuietInv, QuietBetweenRuns, EventInv
  <2>4. TimeInv'
    BY <1>0, <2>1 DEF TypeOK, TimeInv
  <2>5. TimesTogether'
    BY <1>0, <2>1 DEF TypeOK, TimeInv, TimesTogether
  <2> QED
    BY <2>2, <2>3, <2>4, <2>5 DEF IInv
<1> QED
  BY <1>1, <1>2 DEF Master

\* An asset that only moves, not into a step, changes nothing that is related.
LEMMA MoveStep ==
  ASSUME IInv, NEW a \in Assets, at[a] # "out",
         NEW l \in {"ready", "wait_running", "ended"} \cup Listening \cup (InLoop \ {"inside"}),
         Goto(a, l), l \in InLoop => a \in Callbacks,
         synced' \subseteq Assets, target' \in [Assets -> Nat],
         UNCHANGED <<masterVars, registered, reported, doing, cur>>
  PROVE  IInv'
<1> USE ConstantsAssumption, Leads DEF masterVars, Goto
<1>0. TypeOK /\ PlaceInv /\ QuietInv /\ EventInv /\ TimeInv /\ TimesTogether
  BY DEF IInv
<1>1. l \notin {"inside", "advance", "out", "loop"}
  BY DEF Listening, Waits, InLoop
<1>2. TypeOK'
  BY <1>0 DEF TypeOK
<1>3. PlaceInv' /\ QuietInv'
  BY <1>0, <1>1 DEF TypeOK, PlaceInv, QuietInv, QuietBetweenRuns
<1>4. EventInv'
  BY <1>0 DEF EventInv
<1>5. TimeInv' /\ TimesTogether'
  BY <1>0, <1>1 DEF TypeOK, TimeInv, TimesTogether
<1> QED
  BY <1>2, <1>3, <1>4, <1>5 DEF IInv

\* An answered event is gone; who answers Stop or Reset stays as TimeInv and QuietInv want.
LEMMA FeedbackStep ==
  ASSUME IInv, NEW a \in Assets, at[a] \in Listening \cup {"loop"}, doing[a] # None,
         NEW l \in {at[a], "wait_running", "wait_reset", "ready"}, Goto(a, l),
         at[a] = "loop" => l = "loop",
         ack' \in {ack, Acks(a)},
         cur' = [cur EXCEPT ![a] = cur'[a]], cur'[a] \in {cur[a], 0},
         doing[a] = "Reset" => cur'[a] = 0,
         doing' = [doing EXCEPT ![a] = None],
         synced' \subseteq Assets,
         UNCHANGED <<sim, world, event, run, base, registered, reported, target>>
  PROVE  IInv'
<1> USE ConstantsAssumption, Leads DEF Goto
<1>0. TypeOK /\ PlaceInv /\ QuietInv /\ EventInv /\ TimeInv /\ TimesTogether
  BY DEF IInv
<1>1. sim \in DOMAIN EventOf /\ doing[a] = EventOf[sim] /\ event[a] = None
  BY <1>0 DEF TypeOK, States, EventInv, EventOf
<1>2. /\ l \notin {"inside", "advance", "out"} /\ at[a] \notin {"inside", "advance", "out"}
      /\ l \notin InLoop /\ (l = "loop" => at[a] = "loop")
  BY DEF Listening, Waits, InLoop
<1>3. ack' \subseteq ack \cup {a} /\ sim \in {"Runnable", "Stopping", "Resetting"}
  BY <1>1 DEF Acks, EventOf
<1>4. TypeOK'
  <2>1. cur' \in [Assets -> Nat] /\ \A x \in Assets : cur'[x] \in 0 .. MaxTime + Lead(x)
    BY <1>0 DEF TypeOK
  <2>2. at' \in [Assets -> {"out", "ready", "wait_running", "loop", "advance", "ended"}
                             \cup Listening \cup InLoop]
    BY <1>0 DEF TypeOK, Listening, Waits
  <2>3. doing' \in [Assets -> Events \cup {None}] /\ ack' \subseteq Assets
    BY <1>0, <1>3 DEF TypeOK
  <2> QED
    BY <1>0, <2>1, <2>2, <2>3 DEF TypeOK
<1>5. PlaceInv' /\ QuietInv'
  BY <1>0, <1>2, <1>3 DEF TypeOK, PlaceInv, QuietInv, QuietBetweenRuns
<1>6. EventInv'
  BY <1>0, <1>1, <1>3 DEF TypeOK, EventInv
<1>7. TimeInv' /\ TimesTogether'
  <2>1. sim = "Resetting" => cur'[a] = 0
    BY <1>1 DEF EventOf
  <2>2. \A x \in Assets : cur'[x] \in {cur[x], 0}
    BY <1>0 DEF TypeOK
  <2> QED
    BY <1>0, <1>2, <1>3, <2>1, <2>2 DEF TypeOK, TimeInv, TimesTogether
<1> QED
  BY <1>4, <1>5, <1>6, <1>7 DEF IInv

\* The events and their answers.
LEMMA AnswerStep == ASSUME IInv, NEW a \in Assets, Answer(a) PROVE IInv'
<1> USE ConstantsAssumption, Leads
<1>0. TypeOK /\ PlaceInv /\ QuietInv /\ EventInv /\ TimeInv /\ TimesTogether
  BY DEF IInv
<1>1. CASE GetEvent(a)
  <2>1. TypeOK' /\ PlaceInv' /\ QuietInv' /\ TimeInv' /\ TimesTogether'
    BY <1>0, <1>1 DEF GetEvent, TypeOK, PlaceInv, QuietInv, QuietBetweenRuns, TimeInv, TimesTogether
  <2>2. EventInv'
    BY <1>0, <1>1 DEF GetEvent, Polls, TypeOK, EventInv, EventOf
  <2> QED
    BY <2>1, <2>2 DEF IInv
<1>2. CASE CallbackFeedback(a)
  <2>1. /\ at[a] \in Listening /\ doing[a] # None
        /\ cur' = [cur EXCEPT ![a] = IF doing[a] = "Reset" THEN 0 ELSE @]
        /\ \E l \in {at[a], "wait_running", "wait_reset", "ready"} : Goto(a, l)
    BY <1>2 DEF CallbackFeedback, AfterWait, Listening, Waits
  <2>2. at[a] # "loop" /\ cur' = [cur EXCEPT ![a] = cur'[a]] /\ cur'[a] \in {cur[a], 0}
        /\ (doing[a] = "Reset" => cur'[a] = 0)
    BY <1>0, <2>1 DEF TypeOK, Listening, Waits
  <2>3. /\ ack' \in {ack, Acks(a)} /\ synced' \subseteq Assets
        /\ doing' = [doing EXCEPT ![a] = None]
        /\ UNCHANGED <<sim, world, event, run, base, registered, reported, target>>
    BY <1>0, <1>2 DEF CallbackFeedback, TypeOK
  <2>4. PICK l \in {at[a], "wait_running", "wait_reset", "ready"} : Goto(a, l)
    BY <2>1
  <2> QED
    BY <2>1, <2>2, <2>3, <2>4, FeedbackStep
<1>3. CASE PollFeedback(a)
  <2>1. /\ at[a] = "loop" /\ doing[a] # None /\ at' = at
        /\ cur' = [cur EXCEPT ![a] = IF doing[a] = "Stop" THEN @ ELSE 0]
        /\ ack' \in {ack, Acks(a)}
        /\ synced' \in {synced, synced \cup {a}}
    BY <1>3 DEF PollFeedback, Feedback, WriteDone, Returns
  <2>2. cur' = [cur EXCEPT ![a] = cur'[a]] /\ cur'[a] \in {cur[a], 0}
        /\ (doing[a] = "Reset" => cur'[a] = 0)
    BY <1>0, <2>1 DEF TypeOK
  <2>3. Goto(a, "loop") /\ synced' \subseteq Assets
    BY <1>0, <2>1 DEF Goto, TypeOK
  <2> QED
    BY <1>3, <2>1, <2>2, <2>3, FeedbackStep DEF PollFeedback
<1> QED
  BY <1>1, <1>2, <1>3 DEF Answer

\* The step loop of callback assets.
LEMMA CallbackStep == ASSUME IInv, NEW a \in Assets, Callback(a) PROVE IInv'
<1> USE ConstantsAssumption, Leads
<1>0. TypeOK /\ PlaceInv /\ QuietInv /\ EventInv /\ TimeInv /\ TimesTogether
  BY DEF IInv
<1>1. CASE StartCall(a)
  <2>1. at[a] # "out" /\ "wait_start" \in Listening /\ "wait_start" \notin InLoop
    BY <1>1 DEF StartCall, Listening, Waits, InLoop
  <2> QED
    BY <1>0, <1>1, <2>1, MoveStep DEF StartCall, TypeOK
<1>2. CASE WaitRunning(a)
  <2>1. target' \in [Assets -> Nat]
    BY <1>0, <1>2 DEF WaitRunning, TypeOK
  <2>2. at[a] # "out" /\ a \in Callbacks /\ \E l \in InLoop \ {"inside"} : Goto(a, l)
    BY <1>2 DEF WaitRunning, Callbacks, InLoop
  <2> QED
    BY <1>0, <1>2, <2>1, <2>2, MoveStep DEF WaitRunning, TypeOK
<1>3. CASE Usleep(a)
  <2>1. PICK u \in Sleeps : target' = [target EXCEPT ![a] = cur[a] + StepsFor(a, u) * Delta[a]]
    BY <1>3 DEF Usleep
  <2>2. StepsFor(a, u) * Delta[a] \in Nat
    <3>1. StepsFor(a, u) \in Nat
      BY StepsArePositive
    <3> QED
      BY <3>1
  <2>3. target' \in [Assets -> Nat]
    BY <1>0, <2>1, <2>2 DEF TypeOK
  <2>4. at[a] # "out" /\ a \in Callbacks /\ "step" \in InLoop \ {"inside"} /\ Goto(a, "step")
    BY <1>0, <1>3 DEF Usleep, PlaceInv, InLoop
  <2> QED
    BY <1>0, <1>3, <2>3, <2>4, MoveStep DEF Usleep, TypeOK
<1>4. CASE Notify(a)
  <2>1. /\ a \in Callbacks /\ a \in registered /\ at[a] = "step"
        /\ reported' = [reported EXCEPT ![a] = cur[a]] /\ at' = [at EXCEPT ![a] = "check"]
        /\ UNCHANGED <<masterVars, registered, synced, doing, cur, target>>
    BY <1>0, <1>4 DEF Notify, Goto, PlaceInv, InLoop
  <2>2. TypeOK' /\ PlaceInv' /\ QuietInv' /\ EventInv'
    BY <1>0, <2>1 DEF masterVars, TypeOK, InLoop, PlaceInv, QuietInv, QuietBetweenRuns, EventInv
  <2>3. TimeInv' /\ TimesTogether'
    BY <1>0, <2>1 DEF masterVars, TypeOK, TimeInv, TimesTogether
  <2> QED
    BY <2>2, <2>3 DEF IInv
<1>5. CASE Check(a)
  <2>1. /\ a \in Callbacks /\ a \in registered
        /\ at' = [at EXCEPT ![a] = at'[a]] /\ at'[a] \in {"inside", "recheck"}
        /\ at'[a] = "inside" => sim = "Running" /\ cur[a] + Delta[a] <= world
        /\ synced' \subseteq Assets
        /\ UNCHANGED <<masterVars, registered, reported, doing, cur, target>>
    BY <1>0, <1>5 DEF Check, Goto, TypeOK, PlaceInv, InLoop
  <2>2. TypeOK' /\ PlaceInv' /\ EventInv'
    BY <1>0, <2>1 DEF masterVars, TypeOK, InLoop, PlaceInv, EventInv
  <2>3. QuietInv' /\ TimeInv' /\ TimesTogether'
    BY <1>0, <2>1 DEF masterVars, TypeOK, QuietInv, QuietBetweenRuns, TimeInv, TimesTogether
  <2> QED
    BY <2>2, <2>3 DEF IInv
<1>6. CASE DoStep(a)
  <2>1. /\ a \in Callbacks /\ a \in registered /\ at[a] = "inside" /\ Lead(a) = 0
        /\ cur' = [cur EXCEPT ![a] = cur[a] + Delta[a]]
        /\ at' = [at EXCEPT ![a] = at'[a]] /\ at'[a] \in {"step", "manual"}
        /\ UNCHANGED <<masterVars, registered, synced, reported, doing>>
    BY <1>0, <1>6 DEF DoStep, Goto, TypeOK, PlaceInv, InLoop, Lead, Callbacks
  <2>2. cur'[a] = cur[a] + Delta[a] /\ cur'[a] <= world /\ cur'[a] \in Nat /\ cur[a] \in Nat
    BY <1>0, <2>1 DEF TypeOK, TimeInv
  <2>3. target' \in [Assets -> Nat]
    BY <1>0, <1>6, <2>2 DEF DoStep, TypeOK
  <2>4. sim \in {"Running", "Stopping"}
    BY <1>0, <2>1 DEF TypeOK, States, QuietInv, QuietBetweenRuns
  <2>5. TypeOK' /\ PlaceInv' /\ EventInv'
    <3>1. /\ at' \in [Assets -> {"out", "ready", "wait_running", "loop", "advance", "ended"}
                                  \cup Listening \cup InLoop]
          /\ DOMAIN cur' = Assets
      BY <1>0, <2>1 DEF TypeOK, InLoop
    <3>2. world \in 0 .. MaxTime /\ \A x \in Assets : cur'[x] \in 0 .. MaxTime + Lead(x)
      BY <1>0, <2>1, <2>2 DEF TypeOK
    <3>3. TypeOK'
      BY <1>0, <2>1, <2>3, <3>1, <3>2 DEF masterVars, TypeOK
    <3>4. PlaceInv'
      BY <1>0, <2>1 DEF masterVars, TypeOK, InLoop, PlaceInv
    <3>5. EventInv'
      BY <1>0, <2>1 DEF masterVars, EventInv
    <3> QED
      BY <3>3, <3>4, <3>5
  <2>6. QuietInv'
    BY <1>0, <2>1 DEF masterVars, TypeOK, QuietInv, QuietBetweenRuns
  <2>7. TimeInv' /\ TimesTogether'
    BY <1>0, <2>1, <2>2, <2>4 DEF masterVars, TypeOK, TimeInv, TimesTogether
  <2> QED
    BY <2>5, <2>6, <2>7 DEF IInv
<1>7. CASE Recheck(a)
  <2>1. /\ at[a] # "out" /\ a \in Callbacks
        /\ \E l \in {"wait_stop", "step"} : Goto(a, l)
        /\ "wait_stop" \in Listening /\ "step" \in InLoop
    BY <1>0, <1>7 DEF Recheck, PlaceInv, InLoop, Listening, Waits
  <2> QED
    BY <1>0, <1>7, <2>1, MoveStep DEF Recheck, TypeOK
<1> QED
  BY <1>1, <1>2, <1>3, <1>4, <1>5, <1>6, <1>7 DEF Callback

\* Polling assets, registration, and the ways out.
LEMMA OtherStep ==
  ASSUME IInv, NEW a \in Assets,
         Register(a) \/ PollRegister(a) \/ Polling(a) \/ ForceStop(a) \/ StartEnds(a) \/ PollEnds(a)
  PROVE  IInv'
<1> USE ConstantsAssumption, Leads
<1>0. TypeOK /\ PlaceInv /\ QuietInv /\ EventInv /\ TimeInv /\ TimesTogether
  BY DEF IInv
<1>1. ASSUME NEW l \in {"ready", "loop"}, Enter(a, l), l = "loop" => a \notin Callbacks
      PROVE  IInv'
  <2>1. /\ at[a] = "out" /\ sim = "Stopped" /\ registered' = registered \cup {a}
        /\ at' = [at EXCEPT ![a] = l]
        /\ UNCHANGED <<masterVars, synced, reported, doing, cur, target>>
    BY <1>1 DEF Enter, Goto
  <2>2. TypeOK' /\ EventInv' /\ TimesTogether'
    BY <1>0, <2>1 DEF masterVars, TypeOK, EventInv, EventOf, TimesTogether
  <2>3. PlaceInv'
    BY <1>0, <1>1, <2>1 DEF masterVars, TypeOK, InLoop, PlaceInv
  <2>4. QuietInv' /\ TimeInv'
    BY <1>0, <2>1 DEF masterVars, TypeOK, QuietInv, QuietBetweenRuns, TimeInv
  <2> QED
    BY <2>2, <2>3, <2>4 DEF IInv
<1>2. CASE PollRunning(a)
  <2>1. /\ sim = "Running" /\ at[a] = "loop" /\ at' = [at EXCEPT ![a] = "advance"]
        /\ UNCHANGED <<masterVars, registered, synced, reported, doing, cur, target>>
    BY <1>2 DEF PollRunning, Returns, Goto
  <2>2. a \notin Callbacks /\ a \in registered
    BY <1>0, <2>1 DEF PlaceInv
  <2>3. TypeOK' /\ PlaceInv' /\ EventInv'
    BY <1>0, <2>1, <2>2 DEF masterVars, TypeOK, InLoop, PlaceInv, EventInv
  <2>4. QuietInv' /\ TimeInv' /\ TimesTogether'
    BY <1>0, <2>1 DEF masterVars, TypeOK, QuietInv, QuietBetweenRuns, TimeInv, TimesTogether
  <2> QED
    BY <2>3, <2>4 DEF IInv
<1>3. CASE PollAdvance(a)
  <2>1. PICK w \in {world, 0} :
          \/ /\ cur[a] <= w /\ cur' = [cur EXCEPT ![a] = cur[a] + Delta[a]]
             /\ \E t \in {cur'[a], reported[a]} : reported' = [reported EXCEPT ![a] = t]
          \/ UNCHANGED <<cur, reported>>
    BY <1>3 DEF PollAdvance, WorldTime, Told, Returns
  <2>2. /\ at[a] = "advance" /\ at' = [at EXCEPT ![a] = "loop"]
        /\ UNCHANGED <<masterVars, registered, synced, doing, target>>
    BY <1>3 DEF PollAdvance, Goto
  <2>3. a \notin Callbacks /\ a \in registered /\ Lead(a) = Delta[a]
    BY <1>0, <2>2 DEF PlaceInv, Lead, Callbacks
  <2>4. sim \in {"Running", "Stopping"}
    BY <1>0, <2>2 DEF TypeOK, States, QuietInv, QuietBetweenRuns
  <2>5. /\ \A x \in Assets \ {a} : cur'[x] = cur[x] /\ reported'[x] = reported[x]
        /\ cur[a] <= cur'[a] /\ cur'[a] <= world + Lead(a) /\ cur'[a] \in Nat /\ cur[a] \in Nat
        /\ reported'[a] \in {cur'[a], reported[a]}
        /\ DOMAIN cur' = Assets /\ DOMAIN reported' = Assets
    BY <1>0, <2>1, <2>3 DEF TypeOK, TimeInv
  <2>6. TypeOK'
    BY <1>0, <2>2, <2>3, <2>5 DEF masterVars, TypeOK
  <2>7. PlaceInv' /\ EventInv' /\ QuietInv'
    BY <1>0, <2>2, <2>3, <2>5
    DEF masterVars, TypeOK, InLoop, PlaceInv, EventInv, QuietInv, QuietBetweenRuns
  <2>8. TimeInv'
    BY <1>0, <2>2, <2>4, <2>5 DEF masterVars, TypeOK, TimeInv
  <2>9. TimesTogether'
    BY <1>0, <2>2, <2>5 DEF masterVars, TypeOK, TimesTogether
  <2> QED
    BY <2>6, <2>7, <2>8, <2>9 DEF IInv
<1>4. CASE ForceStop(a)
  <2>1. at[a] # "out" /\ "ready" \notin InLoop /\ Goto(a, "ready")
    BY <1>4 DEF ForceStop, Listening, Waits, InLoop
  <2> QED
    BY <1>0, <1>4, <2>1, MoveStep DEF ForceStop, TypeOK
<1>5. CASE StartEnds(a)
  <2>1. at[a] # "out" /\ "ended" \notin InLoop /\ Goto(a, "ended")
    BY <1>5 DEF StartEnds, Listening, Waits, InLoop
  <2> QED
    BY <1>0, <1>5, <2>1, MoveStep DEF StartEnds, TypeOK
<1>6. CASE PollEnds(a)
  <2>1. at[a] # "out" /\ "ended" \notin InLoop /\ Goto(a, "ended")
    BY <1>6 DEF PollEnds, InLoop
  <2> QED
    BY <1>0, <1>6, <2>1, MoveStep DEF PollEnds, TypeOK
<1>7. CASE Register(a)
  <2>1. Enter(a, "ready") /\ a \in Callbacks
    BY <1>7 DEF Register
  <2> QED
    BY <1>1, <2>1
<1>8. CASE PollRegister(a)
  <2>1. Enter(a, "loop") /\ a \notin Callbacks
    BY <1>8 DEF PollRegister
  <2> QED
    BY <1>1, <2>1
<1> QED
  BY <1>2, <1>3, <1>4, <1>5, <1>6, <1>7, <1>8 DEF Polling

\* The invariant, for every use of the simulation.
THEOREM IInvCorrect == Spec => []IInv
<1>1. IInv /\ [Next]_vars => IInv'
  <2> SUFFICES ASSUME IInv, [Next]_vars PROVE IInv'
    OBVIOUS
  <2>1. CASE Next
    BY <2>1, OperatorStep, MasterStep, AnswerStep, CallbackStep, OtherStep DEF Next
  <2>2. CASE UNCHANGED vars
    BY <2>2 DEF vars, masterVars, IInv, TypeOK, PlaceInv, QuietInv, QuietBetweenRuns, EventInv,
                TimeInv, TimesTogether
  <2> QED
    BY <2>1, <2>2
<1> QED
  BY InitIInv, <1>1, PTL DEF Spec

\* States, events and times keep their types: the bound on an asset's time is what its
\* wait for the world time gives.
THEOREM TypeCorrect == Spec => []TypeOK
  BY IInvCorrect, PTL DEF IInv

\* Between two runs no asset is in the middle of a step (hako_asset_impl.cpp answers
\* Stop after the step loop, asset_loop.hpp outside it).
THEOREM QuietBetweenRunsCorrect == Spec => []QuietBetweenRuns
<1>1. IInv => QuietBetweenRuns
  BY DEF IInv, QuietInv
<1> QED
  BY IInvCorrect, <1>1, PTL

\* The times of all assets and the world time stay within their bounds, calls that
\* fail and starts without a reset included.
THEOREM TimesTogetherCorrect == Spec => []TimesTogether
  BY IInvCorrect, PTL DEF IInv
=============================================================================
