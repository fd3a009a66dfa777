----------------------------- MODULE Simulation -----------------------------
(***************************************************************************)
(* One simulation: the master's state machine and clock, callback assets   *)
(* (hako_asset_start with its step loop, hako_asset_usleep from a manual   *)
(* timing callback) and polling assets (an own loop over                   *)
(* hakoniwa_asset_polling.h, as examples/service_polling writes it).       *)
(*                                                                         *)
(* The master is hakoniwa-core-cpp and external: its actions are what the  *)
(* assets' code relies on.  Assets do not crash here, and the heartbeat    *)
(* timeout of the master is left out.                                      *)
(***************************************************************************)
EXTENDS Integers, FiniteSets

CONSTANTS
  Assets,
  Kind,       \* [Assets -> {"callback", "manual", "polling"}]
  Delta,      \* [Assets -> Nat], delta_usec in units of the master's delta
  Sleeps,     \* the arguments of hako_asset_usleep
  MaxDelay,   \* max_delay_usec
  MaxTime,    \* bound: the world time
  MaxRuns,    \* bound: starts of the simulation
  Use         \* what the operator and the assets do besides the orderly cycle

ASSUME ConstantsAssumption ==
  /\ Kind \in [Assets -> {"callback", "manual", "polling"}]
  /\ Delta \in [Assets -> Nat \ {0}]
  /\ Sleeps \subseteq Nat
  /\ MaxDelay \in Nat \ {0} /\ MaxTime \in Nat /\ MaxRuns \in Nat
  /\ Use \subseteq {"restart", \* start again without a reset
                    "hasty",   \* trigger again as soon as the state is Stopped
                    "quick",   \* stop before every asset has seen Running
                    "force",   \* is_force_stop ends a wait or a step
                    "failing"} \* calls into the core throw

States == {"Stopped", "Runnable", "Running", "Stopping", "Resetting"}
Events == {"Start", "Stop", "Reset"}
None == "None"
Callbacks == {a \in Assets : Kind[a] # "polling"}

VARIABLES
  sim,        \* state of the simulation
  world,      \* the world time
  registered,
  event,      \* the event the master has posted for each asset
  ack,        \* which assets have given their feedback
  synced,     \* assets that have written their first PDUs (notify_write_pdu_done)
  reported,   \* the time each asset told the master (notify_simtime)
  at,         \* where each asset's thread is
  doing,      \* the event it has taken and not yet answered
  cur,        \* current_usec, or local_time of a polling asset
  target,     \* target_time_usec of hako_asset_impl_step
  run,        \* history: starts so far
  base        \* history: the world time this run started from

masterVars == <<sim, world, event, ack, run, base>>
vars == <<masterVars, registered, synced, reported, at, doing, cur, target>>

Waits == [wait_start |-> "Start", wait_stop |-> "Stop", wait_reset |-> "Reset"]
Listening == DOMAIN Waits
AfterWait == [wait_start |-> "wait_running", wait_stop |-> "wait_reset", wait_reset |-> "ready"]
InLoop == {"step", "check", "inside", "recheck", "manual"}

Init ==
  /\ sim = "Stopped" /\ world = 0 /\ run = 0 /\ base = 0
  /\ registered = {} /\ synced = {}
  /\ event = [a \in Assets |-> None]
  /\ ack = {}
  /\ reported = [a \in Assets |-> 0]
  /\ at = [a \in Assets |-> "out"]
  /\ doing = [a \in Assets |-> None]
  /\ cur = [a \in Assets |-> 0]
  /\ target = [a \in Assets |-> 0]

Goto(a, l) == at' = [at EXCEPT ![a] = l]

\* What a call of hako_capi.cpp gives back: an exception is kept for the caller to
\* ask for, and the call returns d.
Returns(v, d) == IF "failing" \in Use THEN {v, d} ELSE {v}
-----------------------------------------------------------------------------
(* The master, and the operator who triggers its events.                   *)

Post(e, s) ==
  /\ sim' = s
  /\ event' = [a \in Assets |-> IF a \in registered THEN e ELSE event[a]]
  /\ ack' = {}

\* The orderly operator triggers an event when every asset is there to take it,
\* and a start, with callback assets, after a reset.
MayTrigger ==
  \/ registered = Assets /\ \A a \in Callbacks : at[a] \in Listening
  \/ run > 0 /\ "hasty" \in Use
MayStart ==
  /\ MayTrigger
  /\ (\A a \in Callbacks : at[a] # "wait_reset") \/ "restart" \in Use
  /\ world = 0 \/ "restart" \in Use
MayStop == "quick" \in Use \/ \A a \in Callbacks \cap registered : at[a] \in InLoop

\* The PDU channels exist when the assets get the event (a polling asset
\* takes anything else as an error).
TriggerStart ==
  /\ sim = "Stopped" /\ run < MaxRuns /\ MayStart
  /\ Post("Start", "Runnable")
  /\ synced' = {}
  /\ run' = run + 1
  /\ base' = world
  /\ UNCHANGED <<world, registered, reported, at, doing, cur, target>>

TriggerStop ==
  /\ sim = "Running" /\ MayStop
  /\ Post("Stop", "Stopping")
  /\ UNCHANGED <<world, registered, synced, reported, at, doing, cur, target, run, base>>

TriggerReset ==
  /\ sim = "Stopped" /\ run > 0 /\ MayTrigger
  /\ Post("Reset", "Resetting")
  /\ UNCHANGED <<world, registered, synced, reported, at, doing, cur, target, run, base>>

\* All feedbacks are there.
Acknowledged ==
  /\ registered \subseteq ack
  /\ \/ /\ sim = "Runnable" /\ sim' = "Running"
        /\ UNCHANGED <<world, reported>>
     \/ /\ sim = "Stopping" /\ sim' = "Stopped"
        /\ UNCHANGED <<world, reported>>
     \/ /\ sim = "Resetting" /\ sim' = "Stopped"
        /\ world' = 0
        /\ reported' = [a \in Assets |-> 0]
  /\ UNCHANGED <<registered, event, ack, synced, at, doing, cur, target, run, base>>

\* The clock moves when all assets have written their first PDUs (the
\* simulation mode) and none is further behind than MaxDelay.
Advance ==
  /\ sim = "Running" /\ registered \subseteq synced /\ world < MaxTime
  /\ \A a \in registered : world + 1 <= reported[a] + MaxDelay
  /\ world' = world + 1
  /\ UNCHANGED <<sim, registered, event, ack, synced, reported, at, doing, cur, target, run, base>>
-----------------------------------------------------------------------------
(* Events, in both kinds of asset: asset_get_event takes the event ...     *)

Polls(a) == at[a] \in Listening \cup {"loop"} /\ doing[a] = None

GetEvent(a) ==
  /\ Polls(a) /\ event[a] # None
  /\ doing' = [doing EXCEPT ![a] = event[a]]
  /\ event' = [event EXCEPT ![a] = None]
  /\ UNCHANGED <<sim, world, ack, run, base, registered, synced, reported, at, cur, target>>

\* A feedback counts in the state it belongs to.
Expected == [Start |-> "Runnable", Stop |-> "Stopping", Reset |-> "Resetting"]
Acks(a) == IF sim = Expected[doing[a]] THEN ack \cup {a} ELSE ack

\* Mutant of CallbackFeedback: an event that is not the awaited one gets no answer.
CallbackFeedbackAwaited(a) ==
  /\ at[a] \in Listening /\ doing[a] # None
  /\ ack' = IF doing[a] = Waits[at[a]] THEN Acks(a) ELSE ack
  /\ cur' = [cur EXCEPT ![a] = IF doing[a] = "Reset" THEN 0 ELSE @]
  /\ Goto(a, IF doing[a] = Waits[at[a]] THEN AfterWait[at[a]] ELSE at[a])
  /\ doing' = [doing EXCEPT ![a] = None]
  /\ UNCHANGED <<sim, world, event, run, base, registered, synced, reported, target>>

(* ... and hako_asset_impl_wait_event answers it, whichever it waits for:  *)
(* on_initialize before the answer to Start, on_reset and the time before  *)
(* the answer to Reset.                                                    *)
CallbackFeedback(a) ==
  /\ at[a] \in Listening /\ doing[a] # None
  /\ ack' = Acks(a)
  /\ cur' = [cur EXCEPT ![a] = IF doing[a] = "Reset" THEN 0 ELSE @]
  /\ Goto(a, IF doing[a] = Waits[at[a]] THEN AfterWait[at[a]] ELSE at[a])
  /\ doing' = [doing EXCEPT ![a] = None]
  /\ UNCHANGED <<sim, world, event, run, base, registered, synced, reported, target>>

\* The feedback calls and notify_write_pdu_done of hako_capi.cpp.
Feedback(a) == Returns(Acks(a), ack)
WriteDone(a) == Returns(synced \cup {a}, synced)

\* Mutant of PollFeedback: notify_write_pdu_done is forgotten.
PollFeedbackUnsynced(a) ==
  /\ at[a] = "loop" /\ doing[a] # None
  /\ cur' = [cur EXCEPT ![a] = IF doing[a] = "Stop" THEN @ ELSE 0]
  /\ ack' \in Feedback(a)
  /\ doing' = [doing EXCEPT ![a] = None]
  /\ UNCHANGED <<sim, world, event, run, base, registered, synced, reported, at, target>>

(* The polling loop starts at time 0 and declares its PDUs written before  *)
(* it answers Start.                                                       *)
PollFeedback(a) ==
  /\ at[a] = "loop" /\ doing[a] # None
  /\ cur' = [cur EXCEPT ![a] = IF doing[a] = "Stop" THEN @ ELSE 0]
  /\ synced' \in IF doing[a] = "Start" THEN WriteDone(a) ELSE {synced}
  /\ ack' \in Feedback(a)
  /\ doing' = [doing EXCEPT ![a] = None]
  /\ UNCHANGED <<sim, world, event, run, base, registered, reported, at, target>>

(* The loop ends on an error event, which is what a failed call returns,   *)
(* and when the PDUs seem not to be there at Start.                        *)
PollEnds(a) ==
  /\ "failing" \in Use
  /\ at[a] = "loop" /\ doing[a] \in {None, "Start"}
  /\ Goto(a, "ended")
  /\ UNCHANGED <<masterVars, registered, synced, reported, doing, cur, target>>
-----------------------------------------------------------------------------
(* Callback assets.                                                        *)

Enter(a, l) ==
  /\ at[a] = "out" /\ run = 0 /\ sim = "Stopped"
  /\ registered' = registered \cup {a}
  /\ Goto(a, l)
  /\ UNCHANGED <<masterVars, synced, reported, doing, cur, target>>

Register(a) == a \in Callbacks /\ Enter(a, "ready")

\* hako_asset_start is refused in any state but Stopped.
RequireStopped == sim = "Stopped"

StartCall(a) ==
  /\ at[a] = "ready" /\ RequireStopped
  /\ Goto(a, "wait_start")
  /\ UNCHANGED <<masterVars, registered, synced, reported, doing, cur, target>>

(* The wait for Running: then the loop's first step, or on_manual_timing_control. *)
WaitRunning(a) ==
  /\ at[a] = "wait_running" /\ sim = "Running"
  /\ \/ /\ Kind[a] = "callback"
        /\ target' = [target EXCEPT ![a] = cur[a] + Delta[a]]
        /\ Goto(a, "step")
     \/ /\ Kind[a] = "manual"
        /\ Goto(a, "manual")
        /\ UNCHANGED target
  /\ UNCHANGED <<masterVars, registered, synced, reported, doing, cur>>

\* hako_asset_usleep sleeps whole steps, and one at least.
StepsFor(a, u) == IF u = 0 THEN 1 ELSE (u + Delta[a] - 1) \div Delta[a]

Usleep(a) ==
  /\ at[a] = "manual"
  /\ \E u \in Sleeps : target' = [target EXCEPT ![a] = cur[a] + StepsFor(a, u) * Delta[a]]
  /\ Goto(a, "step")
  /\ UNCHANGED <<masterVars, registered, synced, reported, doing, cur>>

\* Mutant of Notify: the time after the step is told before the step is made.
NotifyNext(a) ==
  /\ at[a] = "step"
  /\ reported' = [reported EXCEPT ![a] = cur[a] + Delta[a]]
  /\ Goto(a, "check")
  /\ UNCHANGED <<masterVars, registered, synced, doing, cur, target>>

(* A step: the time is told to the master ... *)
Notify(a) ==
  /\ at[a] = "step"
  /\ reported' = [reported EXCEPT ![a] = cur[a]]
  /\ Goto(a, "check")
  /\ UNCHANGED <<masterVars, registered, synced, doing, cur, target>>

(* ... the PDUs are declared written until all assets have done so, and the *)
(* world time must have come to the end of the step ...                    *)
Check(a) ==
  /\ at[a] = "check"
  /\ synced' = IF sim = "Running" THEN synced \cup {a} ELSE synced
  /\ Goto(a, IF sim = "Running" /\ registered \subseteq synced /\ cur[a] + Delta[a] <= world
             THEN "inside" ELSE "recheck")
  /\ UNCHANGED <<masterVars, registered, reported, doing, cur, target>>

(* ... before on_simulation_step runs and the time moves.                  *)
DoStep(a) ==
  /\ at[a] = "inside"
  /\ cur' = [cur EXCEPT ![a] = @ + Delta[a]]
  /\ IF cur'[a] < target[a]
     THEN Goto(a, "step") /\ UNCHANGED target
     ELSE IF Kind[a] = "callback"
          THEN Goto(a, "step") /\ target' = [target EXCEPT ![a] = cur'[a] + Delta[a]]
          ELSE Goto(a, "manual") /\ UNCHANGED target
  /\ UNCHANGED <<masterVars, registered, synced, reported, doing>>

(* No step yet: the loop goes on while the state is Running, and ends with *)
(* it.                                                                     *)
Recheck(a) ==
  /\ at[a] = "recheck"
  /\ Goto(a, IF sim = "Running" THEN "step" ELSE "wait_stop")
  /\ UNCHANGED <<masterVars, registered, synced, reported, doing, cur, target>>

(* A call that throws ends hako_asset_start.                               *)
StartEnds(a) ==
  /\ "failing" \in Use
  /\ at[a] \in Listening \cup InLoop \cup {"wait_running"}
  /\ Goto(a, "ended")
  /\ UNCHANGED <<masterVars, registered, synced, reported, doing, cur, target>>

(* is_force_stop ends a wait or the loop with an error; the caller may     *)
(* call hako_asset_start again.                                            *)
ForceStop(a) ==
  /\ "force" \in Use
  /\ \/ at[a] \in {"wait_running", "recheck"}
     \/ at[a] \in Listening /\ doing[a] = None
  /\ Goto(a, "ready")
  /\ UNCHANGED <<masterVars, registered, synced, reported, doing, cur, target>>
-----------------------------------------------------------------------------
(* Polling assets: the loop sees Running, then advances its time.          *)

PollRegister(a) == a \notin Callbacks /\ Enter(a, "loop")

\* Mutant of PollRunning: the state is not asked.
PollRunningUnasked(a) ==
  /\ at[a] = "loop" /\ doing[a] = None
  /\ Goto(a, "advance")
  /\ UNCHANGED <<masterVars, registered, synced, reported, doing, cur, target>>

PollRunning(a) ==
  /\ at[a] = "loop" /\ doing[a] = None
  /\ "Running" \in Returns(sim, "-1")
  /\ Goto(a, "advance")
  /\ UNCHANGED <<masterVars, registered, synced, reported, doing, cur, target>>

\* hako_asset_get_worldtime and hako_asset_notify_simtime.
WorldTime == Returns(world, 0)
Told(a, t) == Returns(t, reported[a])

\* Mutant of PollAdvance: the world time is not waited for.
PollAdvanceAhead(a) ==
  /\ at[a] = "advance"
  /\ cur' = [cur EXCEPT ![a] = @ + Delta[a]]
  /\ reported' = [reported EXCEPT ![a] = cur'[a]]
  /\ Goto(a, "loop")
  /\ UNCHANGED <<masterVars, registered, synced, doing, target>>

PollAdvance(a) ==
  /\ at[a] = "advance"
  /\ \E w \in WorldTime :
       \/ /\ cur[a] <= w
          /\ cur' = [cur EXCEPT ![a] = @ + Delta[a]]
          /\ \E t \in Told(a, cur'[a]) : reported' = [reported EXCEPT ![a] = t]
       \/ /\ cur[a] > w
          /\ UNCHANGED <<cur, reported>>
  /\ Goto(a, "loop")
  /\ UNCHANGED <<masterVars, registered, synced, doing, target>>
-----------------------------------------------------------------------------
Operator == TriggerStart \/ TriggerStop \/ TriggerReset
Master == Acknowledged \/ Advance
Callback(a) ==
  \/ StartCall(a) \/ WaitRunning(a) \/ Usleep(a) \/ Notify(a) \/ Check(a) \/ DoStep(a) \/ Recheck(a)
Polling(a) == PollRunning(a) \/ PollAdvance(a)
Answer(a) == GetEvent(a) \/ CallbackFeedback(a) \/ PollFeedback(a)

Next ==
  \/ Operator \/ Master
  \/ \E a \in Assets :
       \/ Register(a) \/ PollRegister(a) \/ Answer(a) \/ Callback(a) \/ Polling(a)
       \/ ForceStop(a) \/ StartEnds(a) \/ PollEnds(a)

Spec == Init /\ [][Next]_vars

\* The master's thread runs, and so does every asset's: a polling loop asks for
\* its event in every round.
FairSpec ==
  /\ Spec
  /\ WF_vars(Acknowledged) /\ WF_vars(Advance)
  /\ \A a \in Assets : SF_vars(Answer(a)) /\ WF_vars(Callback(a)) /\ WF_vars(Polling(a))
-----------------------------------------------------------------------------
\* How far ahead of the world time an asset's own time may be.
Lead(a) == IF Kind[a] = "polling" THEN Delta[a] ELSE 0

TypeOK ==
  /\ sim \in States /\ world \in 0 .. MaxTime /\ run \in 0 .. MaxRuns /\ base \in 0 .. MaxTime
  /\ registered \subseteq Assets /\ synced \subseteq Assets /\ ack \subseteq Assets
  /\ event \in [Assets -> Events \cup {None}]
  /\ doing \in [Assets -> Events \cup {None}]
  /\ at \in [Assets -> {"out", "ready", "wait_running", "loop", "advance", "ended"} \cup Listening \cup InLoop]
  /\ \A a \in Assets : cur[a] \in 0 .. MaxTime + Lead(a) /\ reported[a] \in 0 .. MaxTime + Lead(a)
  /\ DOMAIN cur = Assets /\ DOMAIN reported = Assets /\ target \in [Assets -> Nat]

(* When everything is stopped, no asset is in the middle of a step or about *)
(* to move its time: stop was answered only after the step had ended       *)
(* (hako_asset_impl.cpp:582, asset_loop.hpp:46).                           *)
QuietBetweenRuns ==
  sim \in {"Stopped", "Runnable", "Resetting"} =>
    \A a \in Assets : at[a] \notin {"inside", "advance"}

(* Time synchronization.  In a run no asset is ahead of the world time (a  *)
(* polling asset by its own step at most), and the world time is at most   *)
(* MaxDelay ahead of every asset, or of the time the run started from:     *)
(* after a stop without a reset a polling asset begins at 0 again while    *)
(* the master has the time it told before, and it catches up alone.        *)
TimesTogether ==
  sim = "Running" =>
    \A a \in registered :
      /\ cur[a] <= world + Lead(a)
      /\ \/ world <= cur[a] + MaxDelay
         \/ world <= base + Lead(a) + MaxDelay

(* Every event is answered by every asset, so that the simulation gets to  *)
(* the state the operator asked for.                                       *)
EventsAcknowledged ==
  sim \in {"Runnable", "Stopping", "Resetting"} ~> sim \in {"Running", "Stopped"}

(* A run moves: the assets and the clock do not wait for each other.       *)
RunMoves ==
  \A t \in 0 .. MaxTime - 1 : sim = "Running" /\ world = t ~> sim # "Running" \/ world > t

(* An asset whose hako_asset_start was refused gets in with a later call.  *)
RetryAccepted == \A a \in Assets : at[a] = "ready" ~> at[a] # "ready"
=============================================================================
