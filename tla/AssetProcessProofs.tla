-------------------------- MODULE AssetProcessProofs --------------------------
(***************************************************************************)
(* Safety of one process around the core library, for any callbacks,       *)
(* dictionaries and faults, and for any order of the calls.                *)
(*                                                                         *)
(* What a call does to the pointers is stated once (ControllerTyped,       *)
(* ControllerSound and the lemmas on Attach), what it answers once         *)
(* (AnswerStep), and the theorems cite those.  Where a theorem needs the   *)
(* application to leave something out, its assumption says so: Use is what *)
(* the module lists as misuse and accidents.                               *)
(***************************************************************************)
EXTENDS AssetProcess, FiniteSetTheorems, TLAPS

CoreType == [data : {"null", "fresh", "loaded"}, pro : BOOLEAN, asset : BOOLEAN,
             sim : BOOLEAN, master : BOOLEAN]
Ends == {"ok", "null", "crash"} \cup Faults

(* The assignments to one pointer, spelled out for the provers.            *)
LEMMA CoreAssign ==
  ASSUME NEW c \in CoreType
  PROVE  /\ [c EXCEPT !.data = "fresh"] \in CoreType
         /\ [c EXCEPT !.data = "loaded", !.pro = TRUE] \in CoreType
         /\ [c EXCEPT !["asset"] = TRUE] \in CoreType
         /\ [c EXCEPT !["sim"] = TRUE] \in CoreType
         /\ [c EXCEPT !.master = TRUE] \in CoreType
  BY DEF CoreType

(* A controller, or its absence, leaves pointers.                          *)
LEMMA ControllerTyped ==
  ASSUME NEW c \in CoreType, NEW w \in {"asset", "sim"}, NEW e \in Controller(c, w)
  PROVE  e.core \in CoreType /\ e.end \in Ends
<1>1. \A d \in Loaded(c) : d \in CoreType
  BY CoreAssign DEF Loaded
<1>2. ASSUME NEW d \in CoreType, NEW x \in WithController(d, w)
      PROVE  x.core \in CoreType /\ x.end \in Ends
  <2>1. CASE x = [core |-> d, end |-> "crash"]
    BY <2>1 DEF Ends
  <2>2. CASE x \in Ended([d EXCEPT ![w] = TRUE])
    <3>1. [d EXCEPT ![w] = TRUE] \in CoreType
      BY CoreAssign
    <3>2. PICK f \in {"ok"} \cup Faults : x = [core |-> [d EXCEPT ![w] = TRUE], end |-> f]
      BY <2>2 DEF Ended
    <3> QED
      BY <3>1, <3>2 DEF Ends
  <2> QED
    BY <2>1, <2>2 DEF WithController
<1> QED
  BY <1>1, <1>2 DEF Controller, Ends

LEMMA AttachTyped ==
  ASSUME NEW c \in CoreType, NEW a \in Attach(c)
  PROVE  a.core \in CoreType /\ a.end \in Ends /\ a.asset \in BOOLEAN
<1>1. PICK x \in Controller(c, "asset") :
        \E e \in (IF x.end = "ok" THEN Controller(x.core, "sim") ELSE {x}) :
          a = [core |-> e.core, end |-> e.end, asset |-> x.end = "ok"]
  BY DEF Attach
<1>2. x.core \in CoreType /\ x.end \in Ends
  BY ControllerTyped
<1> QED
  BY <1>1, <1>2, ControllerTyped

(* hako::init, and the master made behind it.                              *)
LEMMA HakoInitTyped ==
  ASSUME NEW c \in CoreType, NEW m \in HakoInit(c)
  PROVE  /\ m.core \in CoreType /\ m.end \in Ends
         /\ [m.core EXCEPT !.master = TRUE] \in CoreType
<1> DEFINE n == [c EXCEPT !.data = IF c.data = "null" THEN "loaded" ELSE c.data, !.pro = TRUE]
<1>1. n \in CoreType
  BY DEF CoreType
<1>2. PICK f \in {"ok"} \cup Faults : m = [core |-> n, end |-> f]
  BY DEF HakoInit, Ended
<1> QED
  BY <1>1, <1>2, CoreAssign DEF Ends
-----------------------------------------------------------------------------
(* The section under the master lock.                                      *)

SectionType == [at : {"out", "lock", "channels"}, locked : BOOLEAN, kept : BOOLEAN]

(* Registration comes to the lock without it, and with an instance that    *)
(* has its controllers and runs no callbacks yet.                          *)
SectionInv ==
  /\ section \in SectionType
  /\ section.at # "out" => inst.asset /\ inst.sim
  /\ section.at = "lock" => ~section.locked /\ ~inst.callback
  /\ LockLeft

LEMMA NoInstRuns ==
  ASSUME NEW a, NEW b, NEW c, NEW d
  PROVE  /\ ~NoInst.callback
         /\ ~[NoInst EXCEPT !.asset = a].callback
         /\ ~[NoInst EXCEPT !.asset = a, !.sim = b].callback
         /\ ~[NoInst EXCEPT !.init = a, !.external = b, !.asset = c, !.sim = d].callback
  BY DEF NoInst

\* Only registration enters the section, and nothing else gives an instance callbacks.
LEMMA SectionSteps ==
  ASSUME Next
  PROVE  \/ section' = section /\ (inst' = inst \/ (section.at = "out" /\ ~inst'.callback))
         \/ \E d \in Dicts : Register(d)
         \/ RegisterChannels
<1>1. ASSUME NEW k, NEW b, NEW x, AttachInstance(k, b, x)
      PROVE  section' = section /\ (inst' = inst \/ (section.at = "out" /\ ~inst'.callback))
  BY <1>1, NoInstRuns DEF AttachInstance, Free
<1>2. CASE AttachCoreRefused
  BY <1>2, NoInstRuns DEF AttachCoreRefused, Free
<1>3. CASE InitializeForExternal \/ AttachCore \/ AttachCoreWithName
  BY <1>1, <1>3 DEF InitializeForExternal, AttachCore, AttachCoreWithName
<1>4. \/ UNCHANGED <<section, inst>> \/ (\E d \in Dicts : Register(d)) \/ RegisterChannels
      \/ InitializeForExternal \/ AttachCore \/ AttachCoreWithName \/ AttachCoreRefused
  BY DEF Next, processVars, MasterComes, MasterGoes, LoadPduData, PollingCall,
         PollingEventCall, SimeventCall, MasterInit, MasterCall, ConductorStart, ThreadStops,
         ThreadFails, ThreadEnds, ConductorStop, ConductorStopped, Start, Callback,
         CallbackReturns, StartReturns, StartThrows, Interrupt, AssetMethods, PduMethods,
         EventMethods, ControlMethods, PduReadMethod, RegisterEventMethod, TimeMethods,
         RaisingMethods, InstanceCall, ServerMethods, ClientMethods, ServiceMethod, ServiceCall,
         ServerLifeMethods, ServerRequestMethods, ServerAnswerMethods, ClientLifeMethods,
         ClientCallMethods, ClientStateMethods, ServiceGetChannelId
<1> QED
  BY <1>2, <1>3, <1>4

\* Registration up to the lock: the instance is made anew, and waits outside.
LEMMA SectionEntered == ASSUME SectionInv, NEW d \in Dicts, Register(d) PROVE SectionInv'
<1> USE DEF SectionInv, SectionType, LockLeft
<1>1. section.at = "out"
  BY DEF Register, Free
<1>2. CASE UNCHANGED <<section, inst>>
  BY <1>2
<1>3. CASE section' = section /\ ~inst'.callback
  BY <1>1, <1>3
<1>4. CASE RegisterInSession("bool")
  <2>1. inst'.asset /\ inst'.sim /\ ~inst'.callback
    BY <1>4 DEF RegisterInSession, NoInst
  <2>2. section' = section \/ (~section.locked /\ section' = [section EXCEPT !.at = "lock"])
    BY <1>4 DEF RegisterInSession
  <2> QED
    BY <1>1, <2>1, <2>2
<1>5. \/ UNCHANGED <<section, inst>> \/ RegisterInSession("bool")
      \/ section' = section /\ ~inst'.callback
  BY NoInstRuns DEF Register, NativeRegister, ImplInit
<1> QED
  BY <1>2, <1>3, <1>4, <1>5

\* Under the lock: both returns give it back, and only the one with all channels made
\* leaves an instance that runs callbacks.
LEMMA SectionLeft == ASSUME SectionInv, RegisterChannels PROVE SectionInv'
<1> USE DEF SectionInv, SectionType, LockLeft
<1>1. CASE RegisterLock
  BY <1>1 DEF RegisterLock
<1>2. CASE ChannelRefused
  BY <1>2 DEF ChannelRefused
<1>3. CASE ChannelThrows
  BY <1>3 DEF ChannelThrows
<1>4. CASE ChannelsMade
  BY <1>4 DEF ChannelsMade
<1> QED
  BY <1>1, <1>2, <1>3, <1>4 DEF RegisterChannels

LEMMA SectionInvCorrect == Spec => []SectionInv
<1>1. Init => SectionInv
  BY DEF Init, SectionInv, SectionType, LockLeft
<1>2. SectionInv /\ [Next]_vars => SectionInv'
  <2>1. ASSUME SectionInv, Next PROVE SectionInv'
    <3>1. CASE section' = section /\ (inst' = inst \/ (section.at = "out" /\ ~inst'.callback))
      BY <2>1, <3>1 DEF SectionInv, LockLeft
    <3> QED
      BY <2>1, <3>1, SectionSteps, SectionEntered, SectionLeft
  <2>2. ASSUME SectionInv, UNCHANGED vars PROVE SectionInv'
    BY <2>2 DEF SectionInv, LockLeft, vars, processVars
  <2> QED
    BY <2>1, <2>2
<1> QED
  BY <1>1, <1>2, PTL DEF Spec

\* A process that has come out of registration holds the master lock only if a fault came
\* inside, and runs no registered asset while it holds it, whatever it calls afterwards.
THEOREM LockLeftCorrect == Spec => []LockLeft
  BY SectionInvCorrect, PTL DEF SectionInv
-----------------------------------------------------------------------------
(* The answer of a call.                                                   *)

\* What FailureTold asks of an answer.
Told == /\ status = last.threw
        /\ last.python = "raise" <=> last.threw # "NONE"
        /\ last.python # "NULL"

\* A guarded call: only a method of the kind "bare" can return NULL with nothing raised.
Answers ==
  \E k \in Kinds, b \in BOOLEAN, t \in Statuses :
    Guard(k, b, t) /\ (k = "bare" => b \/ t # "NONE" \/ "misuse" \in Use)

\* guard has cleared the status of a registration that goes on to the channels.
Proceeds == section' = [section EXCEPT !.at = "lock"] /\ status' = "NONE" /\ UNCHANGED last

\* The clearing and the capture of guard make the answer agree with the status.
LEMMA AnswersTold ==
  ASSUME Answers
  PROVE  /\ status' \in Statuses /\ last'.threw \in Statuses /\ ~last'.loop
         /\ "misuse" \notin Use => Told'
<1>1. PICK k \in Kinds, b \in BOOLEAN, t \in Statuses :
        Guard(k, b, t) /\ (k = "bare" => b \/ t # "NONE" \/ "misuse" \in Use)
  BY DEF Answers
<1>3. /\ status' = t /\ last'.threw = t /\ last'.loop = FALSE
      /\ last'.python = Convert(k, b, t)
  BY <1>1 DEF Guard
<1>4. Convert(k, b, t) = "raise" <=> t # "NONE"
  BY DEF Convert, Kinds
<1>5. Convert(k, b, t) = "NULL" => k = "bare" /\ ~b /\ t = "NONE"
  BY DEF Convert, Kinds
<1> QED
  BY <1>1, <1>3, <1>4, <1>5 DEF Told

LEMMA FaultsAreStatuses == Faults \subseteq Statuses /\ "NONE" \in Statuses
  BY ConstantsAssumption DEF Statuses

LEMMA ResultsTyped == \A r \in Results : r.ok \in BOOLEAN /\ r.threw \in Statuses
<1> SUFFICES ASSUME NEW r \in Results PROVE r.ok \in BOOLEAN /\ r.threw \in Statuses
  OBVIOUS
<1>1. CASE \E b \in BOOLEAN : r = [ok |-> b, threw |-> "NONE"]
  BY <1>1 DEF Statuses
<1>2. CASE \E f \in Faults : r = [ok |-> FALSE, threw |-> f]
  BY <1>2, FaultsAreStatuses
<1> QED
  BY <1>1, <1>2 DEF Results

\* Unless it crashes, each way to call through the core is an answer.
LEMMA GuardAnswers ==
  ASSUME NEW k \in Kinds \ {"bare"}, NEW b \in BOOLEAN, NEW t \in Statuses, Guard(k, b, t)
  PROVE  Answers
  BY DEF Answers

LEMMA ThroughAnswers ==
  ASSUME NEW k \in Kinds \ {"bare"}, NEW b, Through(k, b)
  PROVE  Answers \/ UNCHANGED <<status, last>>
<1>1. CASE Crash
  BY <1>1 DEF Crash
<1>2. CASE \E r \in Results : Guard(k, r.ok, r.threw)
  BY <1>2, ResultsTyped, GuardAnswers
<1> QED
  BY <1>1, <1>2 DEF Through

LEMMA FailedAnswers ==
  ASSUME NEW k \in Kinds \ {"bare"}, NEW e, Failed(k, e)
  PROVE  Answers \/ UNCHANGED <<status, last>>
  BY GuardAnswers, FaultsAreStatuses DEF Failed, Crash

\* Registration ends with an answer, or goes on to the channels with a clear status.
LEMMA ImplInitAnswers ==
  ASSUME NEW k \in Kinds \ {"bare"}, ImplInit(k)
  PROVE  Answers \/ Proceeds \/ UNCHANGED <<status, last, section>>
<1>1. CASE Guard(k, FALSE, "NONE")
  BY <1>1, GuardAnswers, FaultsAreStatuses
<1>2. CASE RegisterInSession(k)
  <2>1. CASE Guard(k, FALSE, "NONE") \/ \E f \in Faults : Guard(k, FALSE, f)
    BY <2>1, GuardAnswers, FaultsAreStatuses
  <2> QED
    BY <1>2, <2>1 DEF RegisterInSession, Proceeds
<1>3. CASE (\E a \in Attach(core) : Failed(k, a.end)) /\ UNCHANGED section
  BY <1>3, FailedAnswers
<1> QED
  BY <1>1, <1>2, <1>3 DEF ImplInit

\* The calling thread is told nothing, nor does it come out of what it waits in.
Silent == /\ UNCHANGED <<status, last>>
          /\ main = "stopping" => main' = "stopping"
          /\ section' = section \/ section' = [section EXCEPT !.at = "channels", !.locked = TRUE]

\* Every step answers, crashes, leaves the answer alone, or is the return of the loop.
LEMMA AnswerStep ==
  ASSUME Next
  PROVE  \/ Answers
         \/ Silent \/ Proceeds
         \/ StartReturns \/ ConductorStop
<1> DEFINE Goal == Answers \/ Silent \/ Proceeds \/ StartReturns \/ ConductorStop
<1>a. "NONE" \in Statuses /\ {"bool", "none", "value", "object", "raises"} \subseteq Kinds \ {"bare"}
  BY DEF Statuses, Kinds
<1>b. Faults \subseteq Statuses
  BY FaultsAreStatuses
<1>s. ASSUME UNCHANGED <<status, last>>, main' = main, section' = section PROVE Goal
  BY <1>s DEF Silent
<1>1. CASE MasterComes \/ MasterGoes
  BY <1>1, <1>s DEF MasterComes, MasterGoes, processVars
<1>2. ASSUME NEW d \in Dicts, Register(d) PROVE Goal
  <2>1. main' = main /\ NativeRegister(py'.wrap)
    BY <1>2 DEF Register
  <2>2. Answers \/ Proceeds \/ UNCHANGED <<status, last, section>>
    BY <1>a, <2>1, GuardAnswers, ImplInitAnswers DEF NativeRegister
  <2> QED
    BY <1>s, <2>1, <2>2
<1>3. ASSUME NEW k \in {"bool", "none"}, NEW b \in BOOLEAN, NEW x \in BOOLEAN,
             AttachInstance(k, b, x)
      PROVE  Goal
  <2>1. main' = main /\ section' = section
    BY <1>3 DEF AttachInstance
  <2>2. CASE Guard(k, b, "NONE")
    BY <1>a, <2>2, GuardAnswers
  <2>3. CASE Guard(k, TRUE, "NONE")
    BY <1>a, <2>3, GuardAnswers
  <2>4. CASE \E a \in Attach(core) : Failed(k, a.end)
    BY <1>a, <1>s, <2>1, <2>4, FailedAnswers
  <2> QED
    BY <1>3, <2>2, <2>3, <2>4 DEF AttachInstance
<1>4. CASE InitializeForExternal \/ AttachCore \/ AttachCoreWithName
  BY <1>3, <1>4 DEF InitializeForExternal, AttachCore, AttachCoreWithName
<1>5. CASE AttachCoreRefused
  BY <1>5, <1>a, GuardAnswers DEF AttachCoreRefused
<1>6. CASE LoadPduData
  BY <1>6, <1>a, GuardAnswers, ResultsTyped DEF LoadPduData
<1>7. CASE PollingCall
  <2>1. main' = main /\ section' = section
    BY <1>7 DEF PollingCall
  <2>2. \/ \E b \in BOOLEAN : Through("none", b)
        \/ \E e : Failed("none", e)
    BY <1>7 DEF PollingCall
  <2> QED
    BY <1>a, <1>s, <2>1, <2>2, ThroughAnswers, FailedAnswers
<1>8. CASE PollingEventCall
  BY <1>8, <1>a, GuardAnswers, ResultsTyped DEF PollingEventCall
<1>9. CASE SimeventCall
  <2>1. main' = main /\ section' = section
    BY <1>9 DEF SimeventCall
  <2>2. \/ \E b \in BOOLEAN : Through("none", b)
        \/ \E e : Failed("none", e)
    BY <1>9 DEF SimeventCall
  <2> QED
    BY <1>a, <1>s, <2>1, <2>2, ThroughAnswers, FailedAnswers
<1>10. CASE MasterInit
  <2>1. main' = main /\ section' = section
    BY <1>10 DEF MasterInit
  <2>2. Guard("none", TRUE, "NONE") \/ \E e : Failed("none", e)
    BY <1>10 DEF MasterInit
  <2> QED
    BY <1>a, <1>s, <2>1, <2>2, GuardAnswers, FailedAnswers
<1>11. CASE MasterCall
  <2>1. main' = main /\ section' = section /\ Through("none", core.data = "loaded")
    BY <1>11 DEF MasterCall, processVars
  <2> QED
    BY <1>a, <1>s, <2>1, ThroughAnswers
<1>12. CASE ConductorStart
  <2>1. main' = main /\ section' = section
    BY <1>12 DEF ConductorStart
  <2>2. \/ Guard("bool", FALSE, "NONE") \/ (\E e : Failed("bool", e)) \/ StartThread \/ Crash
    BY <1>12 DEF ConductorStart
  <2>3. ASSUME StartThread PROVE Answers
    <3>1. \/ Guard("bool", TRUE, "NONE") \/ (\E f \in Faults : Guard("bool", FALSE, f))
          \/ Guard("bool", FALSE, "OTHER")
      BY <2>3 DEF StartThread
    <3> QED
      BY <1>a, <1>b, <3>1, GuardAnswers DEF Statuses
  <2> QED
    BY <1>a, <1>s, <2>1, <2>2, <2>3, GuardAnswers, FailedAnswers DEF Crash
<1>13. CASE ThreadStops \/ ThreadFails \/ Callback \/ CallbackReturns \/ Interrupt
  BY <1>13 DEF ThreadStops, ThreadFails, ThreadEnds, Callback, CallbackReturns, Interrupt, Silent,
               processVars
<1>14. CASE ConductorStopped
  BY <1>14, <1>a, GuardAnswers DEF ConductorStopped
<1>15. CASE Start \/ StartThrows
  BY <1>15, <1>a, <1>b, GuardAnswers DEF Start, StartThrows
<1>16. CASE AssetMethods \/ TimeMethods \/ RaisingMethods
  <2>1. PICK k \in {"bool", "value", "raises"} : InstanceCall(k)
    BY <1>16 DEF AssetMethods, TimeMethods, RaisingMethods, PduMethods, EventMethods, ControlMethods,
           PduReadMethod, RegisterEventMethod
  <2>2. main' = main /\ section' = section
    BY <2>1 DEF InstanceCall, processVars
  <2> QED
    BY <1>a, <1>s, <2>1, <2>2, GuardAnswers, ThroughAnswers DEF InstanceCall
<1>17. CASE ServerMethods \/ ClientMethods
  <2>1. PICK k \in Kinds, r \in Results :
          /\ Guard(k, r.ok, r.threw)
          /\ k = "bare" => r.ok \/ r.threw # "NONE" \/ "misuse" \in Use
    BY <1>17 DEF ServerMethods, ClientMethods, ServiceMethod, ServiceCall,
         ServerLifeMethods, ServerRequestMethods, ServerAnswerMethods, ClientLifeMethods,
         ClientCallMethods, ClientStateMethods, Kinds
  <2> QED
    BY <2>1, ResultsTyped DEF Answers
<1>18. CASE ServiceGetChannelId
  BY <1>18, <1>a, GuardAnswers, ResultsTyped DEF ServiceGetChannelId
<1>19. CASE RegisterChannels
  <2>1. CASE Guard("bool", TRUE, "NONE") \/ Guard("bool", FALSE, "NONE")
             \/ \E f \in Faults : Guard("bool", FALSE, f)
    BY <1>a, <1>b, <2>1, GuardAnswers
  <2>2. CASE RegisterLock /\ UNCHANGED <<status, last>>
    BY <1>a, <1>b, <2>2, GuardAnswers DEF RegisterLock, Silent
  <2> QED
    BY <1>19, <2>1, <2>2 DEF RegisterChannels, RegisterLock, ChannelRefused, ChannelThrows,
         ChannelsMade
<1> QED
  BY <1>1, <1>2, <1>4, <1>5, <1>6, <1>7, <1>8, <1>9, <1>10, <1>11, <1>12, <1>13, <1>14, <1>15,
     <1>16, <1>17, <1>18, <1>19 DEF Next

\* docs/runtime-error-contract.md: the status after a call is that of the exception it
\* met, hakopy raises for that and for nothing else, and it never returns a bare NULL.
THEOREM FailureToldCorrect == ASSUME "misuse" \notin Use PROVE Spec => []FailureTold
<1>1. Init => FailureTold
  BY DEF Init, FailureTold
<1>2. SectionInv /\ FailureTold /\ [Next]_vars => FailureTold'
  <2>1. ASSUME SectionInv, FailureTold, Next PROVE FailureTold'
    <3>1. CASE Answers
      BY <3>1, AnswersTold DEF FailureTold, Told
    <3>2. CASE Silent
      <4>1. section' = section \/ section'.at = "channels"
        BY <2>1, <3>2 DEF Silent, SectionInv, SectionType
      <4> QED
        BY <2>1, <3>2, <4>1 DEF Silent, FailureTold
    <3>3. CASE Proceeds
      <4>1. section'.at = "lock"
        BY <2>1, <3>3 DEF Proceeds, SectionInv, SectionType
      <4> QED
        BY <4>1 DEF FailureTold
    <3>4. CASE StartReturns
      BY <3>4 DEF StartReturns, FailureTold
    <3>5. CASE ConductorStop
      BY <3>5 DEF ConductorStop, FailureTold
    <3> QED
      BY <2>1, <3>1, <3>2, <3>3, <3>4, <3>5, AnswerStep
  <2>2. ASSUME FailureTold, UNCHANGED vars PROVE FailureTold'
    BY <2>2 DEF FailureTold, vars, processVars
  <2> QED
    BY <2>1, <2>2
<1> QED
  BY <1>1, <1>2, SectionInvCorrect, PTL DEF Spec
-----------------------------------------------------------------------------
(* The conductor's thread.                                                 *)

ThreadInv == /\ conductor \in [set : BOOLEAN, stop : BOOLEAN, threads : Nat]
             /\ OneConductorThread

LEMMA ThreadAssign ==
  ASSUME NEW b \in BOOLEAN, NEW t \in Nat, NEW c \in [set : BOOLEAN, stop : BOOLEAN, threads : Nat]
  PROVE  [c EXCEPT !.set = b, !.threads = t] \in [set : BOOLEAN, stop : BOOLEAN, threads : Nat]
  OBVIOUS

\* A thread is made only when there is no conductor, and the conductor goes with it.
LEMMA ThreadStep == ASSUME ThreadInv, Next PROVE ThreadInv'
<1> USE DEF ThreadInv, OneConductorThread
<1>1. CASE ConductorStart
  <2>1. CASE conductor' = conductor
    BY <2>1
  <2>2. CASE ~conductor.set /\ StartThread
    <3>1. CASE conductor' = [conductor EXCEPT !.set = TRUE, !.threads = conductor.threads + 1]
      <4>1. /\ conductor'.set = TRUE /\ conductor'.stop = conductor.stop
            /\ conductor'.threads = conductor.threads + 1
            /\ DOMAIN conductor' = DOMAIN conductor
        BY <3>1, SMT
      <4>2. conductor.threads = 0 /\ conductor.threads + 1 \in Nat
        BY <2>2
      <4>3. conductor' \in [set : BOOLEAN, stop : BOOLEAN, threads : Nat]
        BY <3>1, <4>2, ThreadAssign, Zenon
      <4> QED
        BY <4>1, <4>2, <4>3
    <3>2. CASE conductor' = [conductor EXCEPT !.set = TRUE]
      BY <2>2, <3>2
    <3> QED
      BY <2>1, <2>2, <3>1, <3>2 DEF StartThread
  <2> QED
    BY <1>1, <2>1, <2>2 DEF ConductorStart
<1>2. CASE ThreadStops \/ ThreadFails
  <2>1. conductor.threads = 1 /\ conductor' = [conductor EXCEPT !.set = FALSE, !.threads = conductor.threads - 1]
    BY <1>2 DEF ThreadStops, ThreadFails, ThreadEnds
  <2>2. /\ conductor'.set = FALSE /\ conductor'.stop = conductor.stop
        /\ conductor'.threads = conductor.threads - 1
    BY <2>1, SMT
  <2>3. conductor.threads - 1 \in Nat
    BY <2>1
  <2>4. conductor' \in [set : BOOLEAN, stop : BOOLEAN, threads : Nat]
    BY <2>1, <2>3, ThreadAssign, Zenon
  <2> QED
    BY <2>1, <2>2, <2>4
<1>3. CASE ConductorStop
  BY <1>3 DEF ConductorStop
<1>4. conductor' = conductor \/ ConductorStart \/ ThreadStops \/ ThreadFails \/ ConductorStop
  BY DEF Next, processVars, RegisterChannels, RegisterLock, ChannelRefused, ChannelThrows,
         ChannelsMade, MasterComes, MasterGoes, Register, InitializeForExternal, AttachCore,
         AttachCoreWithName, AttachInstance, AttachCoreRefused, LoadPduData, PollingCall,
         PollingEventCall, SimeventCall, MasterInit, MasterCall, ConductorStopped, Start,
         Callback, CallbackReturns, StartReturns, StartThrows, Interrupt, AssetMethods, PduMethods,
         EventMethods, ControlMethods, PduReadMethod, RegisterEventMethod,
         TimeMethods, RaisingMethods, InstanceCall, ServerMethods, ClientMethods, ServiceMethod, ServiceCall,
         ServerLifeMethods, ServerRequestMethods, ServerAnswerMethods, ClientLifeMethods,
         ClientCallMethods, ClientStateMethods,
         ServiceGetChannelId
<1>5. CASE conductor' = conductor
  BY <1>5
<1> QED
  BY <1>1, <1>2, <1>3, <1>4, <1>5

LEMMA ThreadInvCorrect == Spec => []ThreadInv
<1>1. Init => ThreadInv
  BY DEF Init, ThreadInv, OneConductorThread
<1>2. ThreadInv /\ UNCHANGED vars => ThreadInv'
  BY DEF ThreadInv, OneConductorThread, vars, processVars
<1> QED
  BY <1>1, <1>2, ThreadStep, PTL DEF Spec

\* hako_conductor stands for the thread: never two of them, and none behind a null
\* pointer, where hako_conductor_stop would return and a second start be accepted.
THEOREM OneConductorThreadCorrect == Spec => []OneConductorThread
  BY ThreadInvCorrect, PTL DEF ThreadInv
-----------------------------------------------------------------------------
(* The pointers.                                                           *)

InstType == [init : BOOLEAN, external : BOOLEAN, asset : BOOLEAN, sim : BOOLEAN,
             callback : BOOLEAN]
CapiType == [asset : BOOLEAN, sim : BOOLEAN, master : BOOLEAN]

PointerType == core \in CoreType /\ inst \in InstType /\ capi \in CapiType

\* What the assignments to the instance and to hako_capi.cpp's pointers leave.
LEMMA InstAssign ==
  ASSUME NEW a \in BOOLEAN, NEW b \in BOOLEAN, NEW c \in BOOLEAN, NEW d \in BOOLEAN
  PROVE  /\ [NoInst EXCEPT !.init = a, !.external = b, !.asset = c, !.sim = d] \in InstType
         /\ [NoInst EXCEPT !.init = a, !.asset = TRUE, !.sim = TRUE, !.callback = b] \in InstType
         /\ [NoInst EXCEPT !.asset = TRUE, !.sim = TRUE] \in InstType
         /\ [NoInst EXCEPT !.asset = a] \in InstType
         /\ NoInst \in InstType
  BY DEF NoInst, InstType

LEMMA CapiAssign ==
  ASSUME NEW x \in CapiType, NEW a \in BOOLEAN, NEW b \in BOOLEAN
  PROVE  /\ [x EXCEPT !.asset = a, !.sim = b] \in CapiType
         /\ [x EXCEPT !.sim = b] \in CapiType
         /\ [x EXCEPT !.master = a, !.sim = b] \in CapiType
  BY DEF CapiType

\* The actions that set a pointer; the others leave them all alone.
LEMMA PointerSteps ==
  ASSUME Next
  PROVE  \/ UNCHANGED <<core, inst, capi, crashed>>
         \/ (\E d \in Dicts : Register(d)) \/ ChannelsMade
         \/ \E k \in {"bool", "none"}, b, x \in BOOLEAN : AttachInstance(k, b, x)
         \/ AttachCoreRefused \/ PollingCall \/ SimeventCall \/ MasterInit \/ ConductorStart
         \/ MasterCall \/ \E k \in Kinds : InstanceCall(k)
  BY DEF Next, processVars, RegisterChannels, RegisterLock, ChannelRefused, ChannelThrows,
         MasterComes, MasterGoes, InitializeForExternal, AttachCore,
         AttachCoreWithName, LoadPduData, PollingEventCall, ThreadStops, ThreadFails, ThreadEnds,
         ConductorStop, ConductorStopped, Start, Callback, CallbackReturns, StartReturns,
         StartThrows, Interrupt, AssetMethods, PduMethods,
         EventMethods, ControlMethods, PduReadMethod, RegisterEventMethod, TimeMethods, RaisingMethods, ServerMethods,
         ClientMethods, ServiceMethod, ServiceCall,
         ServerLifeMethods, ServerRequestMethods, ServerAnswerMethods, ClientLifeMethods,
         ClientCallMethods, ClientStateMethods, ServiceGetChannelId, Kinds

\* What a controller, an attach and hako::init leave when the memory they find is
\* loaded or not there: never the pointer that was only allocated.
Sound(c) ==
  /\ c.data = "loaded" <=> c.pro
  /\ c.asset \/ c.sim \/ c.master => c.data = "loaded"

SoundEnd(c, e) ==
  /\ Sound(e.core)
  /\ e.end # "crash"
  /\ e.end = "ok" \/ c.data = "loaded" => e.core.data = "loaded"

LEMMA ControllerSound ==
  ASSUME NEW c \in CoreType, Sound(c), c.data # "fresh",
         NEW w \in {"asset", "sim"}, NEW e \in Controller(c, w)
  PROVE  SoundEnd(c, e)
<1> USE DEF Sound
<1>f. \A f \in {"ok"} \cup Faults : f # "crash"
  BY ConstantsAssumption
<1>1. ASSUME NEW d \in CoreType, Sound(d), d.data = "loaded", NEW x \in WithController(d, w)
      PROVE  Sound(x.core) /\ x.core.data = "loaded" /\ x.end # "crash"
  <2>1. x \in Ended([d EXCEPT ![w] = TRUE])
    BY <1>1 DEF WithController
  <2>2. PICK f \in {"ok"} \cup Faults : x = [core |-> [d EXCEPT ![w] = TRUE], end |-> f]
    BY <2>1 DEF Ended
  <2>3. CASE w = "asset"
    <3>1. x.core = [d EXCEPT !.asset = TRUE] /\ x.end = f
      BY <2>2, <2>3
    <3> QED
      BY <1>1, <1>f, <3>1 DEF CoreType
  <2>4. CASE w = "sim"
    <3>1. x.core = [d EXCEPT !.sim = TRUE] /\ x.end = f
      BY <2>2, <2>4
    <3> QED
      BY <1>1, <1>f, <3>1 DEF CoreType
  <2> QED
    BY <2>3, <2>4
<1>2. ASSUME c.data = "null", NEW d \in Loaded(c)
      PROVE  d \in CoreType /\ Sound(d) /\ d.data \in {"fresh", "loaded"}
  <2>1. CASE d = [c EXCEPT !.data = "fresh"]
    BY <1>2, <2>1 DEF CoreType
  <2>2. CASE d = [c EXCEPT !.data = "loaded", !.pro = TRUE]
    BY <2>2 DEF CoreType
  <2> QED
    BY <2>1, <2>2 DEF Loaded
<1>3. CASE e = [core |-> c, end |-> "ok"] /\ c[w]
  <2>1. c.asset \/ c.sim
    BY <1>3
  <2> QED
    BY <1>3, <2>1 DEF SoundEnd
<1>4. CASE c.data # "null" /\ e \in WithController(c, w)
  BY <1>1, <1>4 DEF SoundEnd, CoreType
<1>5. ASSUME c.data = "null", NEW d \in Loaded(c),
             IF d.data = "fresh" THEN e = [core |-> d, end |-> "null"]
                                 ELSE e \in WithController(d, w)
      PROVE  SoundEnd(c, e)
  BY <1>1, <1>2, <1>5 DEF SoundEnd
<1> QED
  BY <1>3, <1>4, <1>5 DEF Controller, CoreType

LEMMA AttachSound ==
  ASSUME NEW c \in CoreType, Sound(c), c.data # "fresh", NEW a \in Attach(c)
  PROVE  /\ SoundEnd(c, a)
         /\ a.end = "ok" => a.asset
         /\ a.asset => a.core.data = "loaded"
<1>1. PICK x \in Controller(c, "asset") :
        \E e \in (IF x.end = "ok" THEN Controller(x.core, "sim") ELSE {x}) :
          a = [core |-> e.core, end |-> e.end, asset |-> x.end = "ok"]
  BY DEF Attach
<1>2. PICK e \in (IF x.end = "ok" THEN Controller(x.core, "sim") ELSE {x}) :
        a = [core |-> e.core, end |-> e.end, asset |-> x.end = "ok"]
  BY <1>1
<1>3. SoundEnd(c, x) /\ x.core \in CoreType
  BY ControllerSound, ControllerTyped
<1>4. x.end = "ok" => x.core.data = "loaded" /\ SoundEnd(x.core, e)
  <2> SUFFICES ASSUME x.end = "ok" PROVE x.core.data = "loaded" /\ SoundEnd(x.core, e)
    OBVIOUS
  <2>1. x.core.data = "loaded" /\ Sound(x.core)
    BY <1>3 DEF SoundEnd
  <2> QED
    BY <1>2, <1>3, <2>1, ControllerSound
<1>5. a.core = e.core /\ a.end = e.end /\ a.asset = (x.end = "ok")
  BY <1>2
<1>6. CASE x.end = "ok"
  BY <1>3, <1>4, <1>5, <1>6 DEF SoundEnd
<1>7. CASE x.end # "ok"
  <2>1. e = x
    BY <1>2, <1>7
  <2> QED
    BY <1>3, <1>5, <1>7, <2>1 DEF SoundEnd
<1> QED
  BY <1>6, <1>7

LEMMA HakoInitSound ==
  ASSUME NEW c \in CoreType, Sound(c), c.data # "fresh", NEW m \in HakoInit(c)
  PROVE  /\ SoundEnd(c, m) /\ m.core.data = "loaded"
         /\ Sound([m.core EXCEPT !.master = TRUE])
         /\ [m.core EXCEPT !.master = TRUE].data = "loaded"
<1> DEFINE n == [c EXCEPT !.data = IF c.data = "null" THEN "loaded" ELSE c.data, !.pro = TRUE]
<1>1. n \in CoreType /\ n.data = "loaded" /\ n.pro = TRUE
  BY DEF CoreType
<1>2. PICK f \in {"ok"} \cup Faults : m = [core |-> n, end |-> f]
  BY DEF HakoInit, Ended
<1>3. f # "crash"
  BY ConstantsAssumption
<1>4. m.core = n /\ m.end = f
  BY <1>2
<1> HIDE DEF n
<1>5. Sound(n) /\ m.end # "crash"
  BY <1>1, <1>3, <1>4 DEF Sound
<1>6. [n EXCEPT !.master = TRUE].data = "loaded" /\ Sound([n EXCEPT !.master = TRUE])
  BY <1>1 DEF Sound, CoreType
<1> QED
  BY <1>1, <1>4, <1>5, <1>6 DEF SoundEnd

\* Registration comes to the section with both controllers, and is not initialized.
LEMMA RegisterPointers ==
  ASSUME NEW k, RegisterInSession(k)
  PROVE  inst' \in InstType /\ inst'.asset /\ inst'.sim /\ ~inst'.init
<1>1. inst' = [NoInst EXCEPT !.asset = TRUE, !.sim = TRUE]
  BY DEF RegisterInSession
<1>2. inst' \in InstType
  BY <1>1, InstAssign
<1> QED
  BY <1>1, <1>2 DEF NoInst

\* Types.
LEMMA PointerTypeStep == ASSUME PointerType, Next PROVE PointerType'
<1> USE DEF PointerType
<1>1. ASSUME NEW d \in Dicts, Register(d) PROVE PointerType'
  <2>1. capi' = capi /\ (UNCHANGED <<core, inst>> \/ ImplInit("bool"))
    BY <1>1 DEF Register, NativeRegister
  <2>2. CASE inst' = NoInst /\ core' = core
    BY <2>1, <2>2, InstAssign
  <2>3. ASSUME NEW a \in Attach(core), core' = a.core,
               RegisterInSession("bool") \/ inst' = [NoInst EXCEPT !.asset = a.asset]
        PROVE  PointerType'
    BY <2>1, <2>3, AttachTyped, RegisterPointers, InstAssign
  <2> QED
    BY <2>1, <2>2, <2>3 DEF ImplInit
<1>2. ASSUME NEW k, NEW b, NEW x \in BOOLEAN, AttachInstance(k, b, x) PROVE PointerType'
  <2>1. ASSUME NEW a \in Attach(core), core' = a.core,
               inst' = [NoInst EXCEPT !.init = a.end = "ok", !.external = x,
                                      !.asset = a.asset, !.sim = a.end = "ok"]
        PROVE  core' \in CoreType /\ inst' \in InstType
    BY <2>1, AttachTyped, InstAssign
  <2> QED
    BY <1>2, <2>1 DEF AttachInstance
<1>3. CASE AttachCoreRefused
  BY <1>3, InstAssign DEF AttachCoreRefused
<1>4. CASE PollingCall
  <2>1. PICK a \in CapiAttach :
          /\ core' = a.core
          /\ capi' = [capi EXCEPT !.asset = a.asset,
                                  !.sim = IF capi.asset THEN capi.sim ELSE capi.sim \/ a.end = "ok"]
    BY <1>4 DEF PollingCall
  <2>2. a.core \in CoreType /\ a.asset \in BOOLEAN
    <3>1. CASE a = [core |-> core, end |-> "ok", asset |-> TRUE]
      BY <3>1
    <3>2. CASE a \in Attach(core)
      BY <3>2, AttachTyped
    <3> QED
      BY <2>1, <3>1, <3>2 DEF CapiAttach
  <2>3. (IF capi.asset THEN capi.sim ELSE capi.sim \/ a.end = "ok") \in BOOLEAN
    BY DEF CapiType
  <2>4. capi' \in CapiType
    BY <2>1, <2>2, <2>3, CapiAssign, Zenon
  <2> QED
    BY <1>4, <2>1, <2>2, <2>4 DEF PollingCall
<1>5. CASE SimeventCall
  <2>1. PICK x \in (IF capi.sim THEN {[core |-> core, end |-> "ok"]} ELSE Controller(core, "sim")) :
          core' = x.core /\ capi' = [capi EXCEPT !.sim = capi.sim \/ x.end = "ok"]
    BY <1>5 DEF SimeventCall
  <2>2. x.core \in CoreType
    BY <2>1, ControllerTyped
  <2>3. (capi.sim \/ x.end = "ok") \in BOOLEAN
    OBVIOUS
  <2>4. capi' \in CapiType
    BY <2>1, <2>3, CapiAssign, Zenon
  <2> QED
    BY <1>5, <2>1, <2>2, <2>4 DEF SimeventCall
<1>6. CASE MasterInit
  <2>1. PICK m \in HakoInit(core) :
          \/ core' = m.core /\ capi' = capi
          \/ \E x \in Controller([m.core EXCEPT !.master = TRUE], "sim") :
               /\ core' = x.core
               /\ capi' = [capi EXCEPT !.master = TRUE, !.sim = capi.sim \/ x.end = "ok"]
    BY <1>6 DEF MasterInit
  <2>2. m.core \in CoreType /\ [m.core EXCEPT !.master = TRUE] \in CoreType
    BY HakoInitTyped
  <2>3. ASSUME NEW x \in Controller([m.core EXCEPT !.master = TRUE], "sim"), core' = x.core,
               capi' = [capi EXCEPT !.master = TRUE, !.sim = capi.sim \/ x.end = "ok"]
        PROVE  core' \in CoreType /\ capi' \in CapiType
    <3>1. (capi.sim \/ x.end = "ok") \in BOOLEAN
      OBVIOUS
    <3>2. capi' \in CapiType
      BY <2>3, <3>1, CapiAssign, Zenon
    <3> QED
      BY <2>2, <2>3, <3>2, ControllerTyped
  <2>4. inst' = inst
    BY <1>6 DEF MasterInit
  <2> QED
    BY <2>1, <2>2, <2>3, <2>4
<1>7. CASE ConductorStart
  BY <1>7, HakoInitTyped DEF ConductorStart
<1>8. CASE MasterCall \/ \E k \in Kinds : InstanceCall(k)
  BY <1>8 DEF MasterCall, InstanceCall, processVars
<1>9. CASE \E k \in {"bool", "none"}, b, x \in BOOLEAN : AttachInstance(k, b, x)
  BY <1>2, <1>9
<1>10. CASE ChannelsMade
  BY <1>10 DEF ChannelsMade, InstType
<1> QED
  BY <1>1, <1>3, <1>4, <1>5, <1>6, <1>7, <1>8, <1>9, <1>10, PointerSteps

PointerInv ==
  /\ PointerType /\ Sound(core) /\ ~crashed
  /\ inst.init => inst.asset /\ inst.sim
  /\ inst.asset \/ inst.sim => core.data = "loaded"
  /\ capi.asset \/ capi.sim \/ capi.master => core.data = "loaded"

\* No call follows a null pointer: whoever holds one holds loaded memory.
LEMMA PointerInvStep ==
  ASSUME "retry" \notin Use, SectionInv, PointerInv, Next
  PROVE  PointerInv'
<1>t. PointerType'
  BY PointerTypeStep DEF PointerInv
<1> USE DEF PointerInv, PointerType
<1>m. MayAttach => core.data # "fresh"
  BY DEF MayAttach
\* An attach leaves loaded memory, or what was loaded loaded, and does not crash.
<1>a. ASSUME core.data # "fresh", NEW a \in Attach(core)
      PROVE  /\ Sound(a.core) /\ a.end # "crash"
             /\ a.end = "ok" => a.asset
             /\ a.end = "ok" \/ a.asset \/ core.data = "loaded" => a.core.data = "loaded"
  BY <1>a, AttachSound DEF SoundEnd
<1>c. ASSUME NEW k, NEW e, e # "crash", Failed(k, e) PROVE crashed' = crashed
  BY <1>c DEF Failed
<1>h. ASSUME NEW k, Through(k, TRUE) PROVE crashed' = crashed
  BY <1>h DEF Through
<1>1. ASSUME NEW d \in Dicts, Register(d) PROVE PointerInv'
  <2>1. capi' = capi
    BY <1>1 DEF Register
  <2>2. CASE UNCHANGED <<core, inst, crashed>>
    BY <1>t, <2>1, <2>2
  <2>3. CASE inst' = NoInst /\ UNCHANGED <<core, crashed>>
    BY <1>t, <2>1, <2>3 DEF NoInst
  <2>4. ASSUME core.data # "fresh", NEW a \in Attach(core), core' = a.core, a.end = "ok",
               RegisterInSession("bool"), crashed' = crashed
        PROVE  PointerInv'
    BY <1>t, <1>a, <2>1, <2>4, RegisterPointers
  <2>5. ASSUME core.data # "fresh", NEW a \in Attach(core), core' = a.core,
               inst' = [NoInst EXCEPT !.asset = a.asset], Failed("bool", a.end)
        PROVE  PointerInv'
    <3>1. ~inst'.init /\ ~inst'.sim /\ inst'.asset = a.asset
      BY <2>5 DEF NoInst
    <3> QED
      BY <1>t, <1>a, <1>c, <2>1, <2>5, <3>1
  <2> QED
    BY <1>1, <1>m, <2>2, <2>3, <2>4, <2>5 DEF Register, NativeRegister, ImplInit
<1>2. ASSUME NEW k, NEW b, NEW x \in BOOLEAN, AttachInstance(k, b, x) PROVE PointerInv'
  <2>1. capi' = capi
    BY <1>2 DEF AttachInstance
  <2>2. CASE UNCHANGED <<core, inst, crashed>>
    BY <1>t, <2>1, <2>2
  <2>3. ASSUME core.data # "fresh", NEW a \in Attach(core), core' = a.core,
               inst' = [NoInst EXCEPT !.init = a.end = "ok", !.external = x,
                                      !.asset = a.asset, !.sim = a.end = "ok"],
               crashed' = crashed \/ Failed(k, a.end)
        PROVE  PointerInv'
    <3>1. /\ inst'.init = (a.end = "ok") /\ inst'.sim = (a.end = "ok")
          /\ inst'.asset = a.asset
      BY <2>3 DEF NoInst
    <3> QED
      BY <1>t, <1>a, <1>c, <2>1, <2>3, <3>1
  <2> QED
    BY <1>2, <1>m, <2>2, <2>3 DEF AttachInstance
<1>3. CASE AttachCoreRefused
  BY <1>t, <1>3 DEF AttachCoreRefused, NoInst
<1>4. CASE PollingCall
  <2>1. PICK a \in CapiAttach :
          /\ core' = a.core
          /\ capi' = [capi EXCEPT !.asset = a.asset,
                                  !.sim = IF capi.asset THEN capi.sim ELSE capi.sim \/ a.end = "ok"]
          /\ IF a.end = "ok" THEN Through("none", core'.data = "loaded") ELSE Failed("none", a.end)
    BY <1>4 DEF PollingCall
  <2>2. /\ Sound(a.core) /\ a.end # "crash"
        /\ a.end = "ok" \/ a.asset \/ core.data = "loaded" => a.core.data = "loaded"
    <3>1. CASE capi.asset
      <4>1. a = [core |-> core, end |-> "ok", asset |-> TRUE]
        BY <2>1, <3>1 DEF CapiAttach
      <4> QED
        BY <3>1, <4>1
    <3>2. CASE ~capi.asset
      BY <1>4, <1>a, <1>m, <2>1, <3>2 DEF CapiAttach, PollingCall
    <3> QED
      BY <3>1, <3>2
  <2>3. crashed' = crashed
    <3>1. CASE a.end = "ok"
      BY <1>h, <2>1, <2>2, <3>1
    <3>2. CASE a.end # "ok"
      BY <1>c, <2>1, <2>2, <3>2
    <3> QED
      BY <3>1, <3>2
  <2>4. inst' = inst /\ core'.data \in {"null", "fresh", "loaded"}
    BY <1>4, <1>t DEF PollingCall, CoreType
  <2>5. capi'.asset = a.asset /\ (capi'.sim => capi.sim \/ a.end = "ok") /\ capi'.master = capi.master
    BY <2>1 DEF CapiType
  <2> QED
    BY <1>t, <2>1, <2>2, <2>3, <2>4, <2>5
<1>5. CASE SimeventCall
  <2>1. PICK x \in (IF capi.sim THEN {[core |-> core, end |-> "ok"]} ELSE Controller(core, "sim")) :
          /\ core' = x.core /\ capi' = [capi EXCEPT !.sim = capi.sim \/ x.end = "ok"]
          /\ IF x.end = "ok" THEN Through("none", x.core.data = "loaded") ELSE Failed("none", x.end)
    BY <1>5 DEF SimeventCall
  <2>2. /\ Sound(x.core) /\ x.end # "crash"
        /\ x.end = "ok" \/ core.data = "loaded" => x.core.data = "loaded"
    <3>1. CASE capi.sim
      <4>1. x = [core |-> core, end |-> "ok"]
        BY <2>1, <3>1
      <4> QED
        BY <3>1, <4>1
    <3>2. CASE ~capi.sim
      BY <1>5, <1>m, <2>1, <3>2, ControllerSound DEF SoundEnd, SimeventCall
    <3> QED
      BY <3>1, <3>2
  <2>3. crashed' = crashed
    <3>1. CASE x.end = "ok"
      BY <1>h, <2>1, <2>2, <3>1
    <3>2. CASE x.end # "ok"
      BY <1>c, <2>1, <2>2, <3>2
    <3> QED
      BY <3>1, <3>2
  <2>4. inst' = inst
    BY <1>5 DEF SimeventCall
  <2>5. /\ capi'.asset = capi.asset /\ capi'.master = capi.master
        /\ capi'.sim => capi.sim \/ x.end = "ok"
    BY <2>1 DEF CapiType
  <2> QED
    BY <1>t, <2>1, <2>2, <2>3, <2>4, <2>5
<1>6. CASE MasterInit
  <2>0. core.data # "fresh" /\ inst' = inst
    BY <1>6, <1>m DEF MasterInit
  <2>1. PICK m \in HakoInit(core) :
          IF m.end # "ok"
            THEN core' = m.core /\ Failed("none", m.end) /\ UNCHANGED capi
            ELSE \E x \in Controller([m.core EXCEPT !.master = TRUE], "sim") :
                   /\ core' = x.core
                   /\ capi' = [capi EXCEPT !.master = TRUE, !.sim = capi.sim \/ x.end = "ok"]
                   /\ crashed' = crashed \/ Failed("none", x.end)
    BY <1>6 DEF MasterInit
  <2>2. /\ m.core.data = "loaded" /\ Sound(m.core) /\ m.end # "crash"
        /\ [m.core EXCEPT !.master = TRUE] \in CoreType
        /\ Sound([m.core EXCEPT !.master = TRUE])
        /\ [m.core EXCEPT !.master = TRUE].data = "loaded"
    BY <2>0, HakoInitSound, HakoInitTyped DEF SoundEnd
  <2>3. CASE m.end # "ok"
    BY <1>t, <1>c, <2>0, <2>1, <2>2, <2>3
  <2>4. ASSUME NEW x \in Controller([m.core EXCEPT !.master = TRUE], "sim"), core' = x.core,
               crashed' = crashed \/ Failed("none", x.end)
        PROVE  PointerInv'
    <3>1. SoundEnd([m.core EXCEPT !.master = TRUE], x)
      BY <2>2, ControllerSound
    <3>2. Sound(x.core) /\ x.end # "crash" /\ x.core.data = "loaded"
      BY <2>2, <3>1 DEF SoundEnd
    <3> QED
      BY <1>t, <1>c, <2>0, <2>4, <3>2
  <2> QED
    BY <2>1, <2>3, <2>4
<1>7. CASE ConductorStart
  <2>1. inst' = inst /\ capi' = capi /\ core.data # "fresh"
    BY <1>7, <1>m DEF ConductorStart
  <2>2. CASE UNCHANGED <<core, crashed>>
    BY <1>t, <2>1, <2>2
  <2>3. ASSUME NEW m \in HakoInit(core),
               \/ core' = m.core /\ m.end # "ok" /\ Failed("bool", m.end)
               \/ /\ core' = [m.core EXCEPT !.master = TRUE]
                  /\ m.core.data = "loaded" => crashed' = crashed
        PROVE  PointerInv'
    <3>1. /\ m.core.data = "loaded" /\ Sound(m.core) /\ m.end # "crash"
          /\ Sound([m.core EXCEPT !.master = TRUE])
          /\ [m.core EXCEPT !.master = TRUE].data = "loaded"
      BY <2>1, HakoInitSound DEF SoundEnd
    <3>2. crashed' = crashed
      BY <1>c, <2>3, <3>1
    <3>3. core'.data = "loaded" /\ Sound(core')
      BY <2>3, <3>1
    <3> QED
      BY <1>t, <2>1, <3>2, <3>3 DEF Sound
  <2> QED
    BY <1>7, <2>2, <2>3 DEF ConductorStart
<1>8. CASE MasterCall
  <2>1. Through("none", TRUE) /\ UNCHANGED <<core, inst, capi>>
    BY <1>8 DEF MasterCall, processVars
  <2> QED
    BY <1>t, <1>h, <2>1
<1>9. ASSUME NEW k \in Kinds, InstanceCall(k) PROVE PointerInv'
  <2>1. /\ UNCHANGED <<core, inst, capi>>
        /\ crashed' = crashed \/ Through(k, TRUE)
    BY <1>9 DEF InstanceCall, processVars
  <2> QED
    BY <1>t, <1>h, <2>1
<1>10. CASE UNCHANGED <<core, inst, capi, crashed>>
  BY <1>10
<1>11. CASE ChannelsMade
  <2>1. inst.asset /\ inst.sim
    BY <1>11 DEF ChannelsMade, SectionInv
  <2>2. inst'.asset = inst.asset /\ inst'.sim = inst.sim
    BY <1>11 DEF ChannelsMade, InstType
  <2> QED
    BY <1>t, <1>11, <2>1, <2>2 DEF ChannelsMade
<1> QED
  BY <1>1, <1>2, <1>3, <1>4, <1>5, <1>6, <1>7, <1>8, <1>9, <1>10, <1>11, PointerSteps

LEMMA InitPointers == Init => PointerInv
  BY DEF Init, PointerInv, PointerType, CoreType, InstType, CapiType, NoInst, Sound

\* Whatever attach or registration failed before, an instance that says it is initialized
\* holds both controllers over loaded memory; the polling API's pointers do too.
THEOREM AttachedWhenUsedCorrect ==
  ASSUME "retry" \notin Use
  PROVE  Spec => []AttachedWhenUsed
<1>1. PointerInv /\ UNCHANGED vars => PointerInv'
  BY DEF PointerInv, PointerType, Sound, vars, processVars
<1>2. PointerInv => AttachedWhenUsed
  BY DEF PointerInv, Sound, AttachedWhenUsed
<1> QED
  BY <1>1, <1>2, InitPointers, PointerInvStep, SectionInvCorrect, PTL DEF Spec
-----------------------------------------------------------------------------
(* The callbacks.                                                          *)

Values == Callables \cup {"none", "null"}

PyInv ==
  /\ py.slot \in [Slots -> Values] /\ py.refs \in [Callables -> 0..MaxRefs]
  /\ py.wrap \in [Loops -> BOOLEAN] /\ py.interrupt \in BOOLEAN
  /\ CallbacksOwned

LEMMA SlotsFinite == \A S \in SUBSET Slots : IsFiniteSet(S) /\ Cardinality(S) \in Nat
<1>1. IsFiniteSet({} \cup {"on_initialize"} \cup {"on_reset"} \cup {"on_simulation_step"}
                     \cup {"on_manual_timing_control"})
  BY FS_EmptySet, FS_AddElement
<1>2. IsFiniteSet(Slots)
  BY <1>1 DEF Slots
<1> QED
  BY <1>2, FS_Subset, FS_CardinalityType

\* Disjoint sets of slots are counted apart.
LEMMA SlotsCounted ==
  ASSUME NEW S \in SUBSET Slots, NEW T \in SUBSET Slots, S \cap T = {}
  PROVE  Cardinality(S \cup T) = Cardinality(S) + Cardinality(T)
<1>1. Cardinality(S \cup T) = Cardinality(S) + Cardinality(T) - Cardinality(S \cap T)
  BY SlotsFinite, FS_Union
<1> QED
  BY <1>1, FS_EmptySet, SlotsFinite

\* What a registration takes and releases: the references for a callable still cover the
\* slots it is in, the one an application leaves in the other loop's slot included.
LEMMA TakeOwned ==
  ASSUME PyInv, NEW d \in Dicts, NEW c \in Callables
  PROVE  /\ TakeCallbacks(d).slot \in [Slots -> Values]
         /\ (py.refs[c] + Given(d, c)) - Released(d, c) \in Nat
         /\ (py.refs[c] + Given(d, c)) - Released(d, c)
              >= Cardinality({s \in Slots : TakeCallbacks(d).slot[s] = c})
<1> DEFINE new == [s \in Slots |-> IF s \in Loops /\ d[s] \notin Callables THEN py.slot[s] ELSE d[s]]
           A == {s \in Slots : py.slot[s] = c}
           R == {s \in Loops : d[s] \in Callables /\ py.slot[s] = c}
           K == {s \in Loops : d[s] \notin Callables /\ py.slot[s] = c}
           G == {s \in Slots : d[s] = c}
<1>1. d \in [Slots -> Values] /\ Loops \subseteq Slots
  BY ConstantsAssumption DEF Values, Loops, Slots
<1>2. TakeCallbacks(d).slot = new
  BY DEF TakeCallbacks
<1>3. new \in [Slots -> Values]
  BY <1>1 DEF PyInv
<1>4. {s \in Slots : new[s] = c} = G \cup K
  BY <1>1
<1>5. G \cap K = {} /\ R \cap K = {} /\ R \cup K \subseteq A
  BY <1>1
<1>6. Cardinality(G \cup K) = Cardinality(G) + Cardinality(K)
  BY <1>1, <1>5, SlotsCounted
<1>7. Cardinality(R \cup K) = Cardinality(R) + Cardinality(K)
  BY <1>1, <1>5, SlotsCounted
<1>8. Cardinality(R \cup K) <= Cardinality(A)
  BY <1>5, SlotsFinite, FS_Subset
<1>9. /\ Cardinality(G) \in Nat /\ Cardinality(K) \in Nat /\ Cardinality(R) \in Nat
      /\ Cardinality(A) \in Nat
  BY <1>1, SlotsFinite
<1>10. py.refs[c] \in Nat /\ py.refs[c] >= Cardinality(A)
  BY ConstantsAssumption DEF PyInv, CallbacksOwned
<1>11. Given(d, c) = Cardinality(G) /\ Released(d, c) = Cardinality(R)
  BY DEF Given, Released
<1>12. {s \in Slots : TakeCallbacks(d).slot[s] = c} = G \cup K
  BY <1>2, <1>4
<1> HIDE DEF new, A, R, K, G
<1>13. \A g, k, r, a, n \in Nat :
         r + k <= a /\ n >= a => (n + g) - r \in Nat /\ (n + g) - r >= g + k
  OBVIOUS
<1>14. Cardinality(R) + Cardinality(K) <= Cardinality(A)
  BY <1>7, <1>8
<1>15. /\ (py.refs[c] + Cardinality(G)) - Cardinality(R) \in Nat
       /\ (py.refs[c] + Cardinality(G)) - Cardinality(R) >= Cardinality(G) + Cardinality(K)
  BY <1>9, <1>10, <1>13, <1>14
<1> QED
  BY <1>2, <1>3, <1>6, <1>11, <1>12, <1>15

LEMMA PyStep == ASSUME PyInv, Next PROVE PyInv'
<1>1. ASSUME NEW d \in Dicts, Register(d) PROVE PyInv'
  <2>1. /\ py' = TakeCallbacks(d)
        /\ \A c \in Callables : TakeCallbacks(d).refs[c] <= MaxRefs
    BY <1>1 DEF Register
  <2>2. /\ TakeCallbacks(d).refs =
             [c \in Callables |-> (py.refs[c] + Given(d, c)) - Released(d, c)]
        /\ TakeCallbacks(d).wrap = [s \in Loops |-> d[s] # "none"]
        /\ TakeCallbacks(d).interrupt = py.interrupt
    BY DEF TakeCallbacks
  <2>3. ASSUME NEW c \in Callables
        PROVE  /\ py'.refs[c] \in 0..MaxRefs
               /\ py'.refs[c] >= Cardinality({s \in Slots : py'.slot[s] = c})
    <3>1. py'.refs[c] = (py.refs[c] + Given(d, c)) - Released(d, c)
      BY <2>1, <2>2
    <3>2. py'.refs[c] \in Nat /\ py'.refs[c] <= MaxRefs
      BY <1>1, <2>1, <3>1, TakeOwned
    <3> QED
      BY <2>1, <3>1, <3>2, TakeOwned, ConstantsAssumption
  <2>4. py'.slot \in [Slots -> Values]
    <3>1. PICK c \in Callables : TRUE
      BY ConstantsAssumption
    <3> QED
      BY <1>1, <2>1, <3>1, TakeOwned
  <2>5. py'.refs \in [Callables -> 0..MaxRefs]
    BY <2>1, <2>2, <2>3
  <2>6. py'.wrap \in [Loops -> BOOLEAN] /\ py'.interrupt \in BOOLEAN
    BY <2>1, <2>2 DEF PyInv
  <2> QED
    BY <2>3, <2>4, <2>5, <2>6 DEF PyInv, CallbacksOwned
<1>2. CASE Interrupt
  <2>1. /\ py'.slot = py.slot /\ py'.refs = py.refs /\ py'.wrap = py.wrap
        /\ py'.interrupt \in BOOLEAN
    BY <1>2 DEF Interrupt, PyInv
  <2> QED
    BY <2>1 DEF PyInv, CallbacksOwned
<1>3. CASE py' = py
  BY <1>3 DEF PyInv, CallbacksOwned
<1>4. py' = py \/ Interrupt \/ \E d \in Dicts : Register(d)
  BY DEF Next, RegisterChannels, RegisterLock, ChannelRefused, ChannelThrows, ChannelsMade,
         MasterComes, MasterGoes, InitializeForExternal, AttachCore, AttachCoreWithName,
         AttachInstance, AttachCoreRefused, LoadPduData, PollingCall, PollingEventCall,
         SimeventCall, MasterInit, MasterCall, ConductorStart, ThreadStops, ThreadFails,
         ThreadEnds, ConductorStop, ConductorStopped, Start, Callback, CallbackReturns,
         StartReturns, StartThrows, AssetMethods, PduMethods,
         EventMethods, ControlMethods, PduReadMethod, RegisterEventMethod, TimeMethods, RaisingMethods, InstanceCall,
         ServerMethods, ClientMethods, ServiceMethod, ServiceCall,
         ServerLifeMethods, ServerRequestMethods, ServerAnswerMethods, ClientLifeMethods,
         ClientCallMethods, ClientStateMethods, ServiceGetChannelId
<1> QED
  BY <1>1, <1>2, <1>3, <1>4

LEMMA InitPy == Init => PyInv
<1> SUFFICES ASSUME Init PROVE PyInv
  OBVIOUS
<1>1. /\ py.slot = [s \in Slots |-> "null"] /\ py.refs = [c \in Callables |-> 0]
      /\ py.wrap = [s \in Loops |-> FALSE] /\ py.interrupt = FALSE
  BY DEF Init
<1>2. \A c \in Callables : {s \in Slots : py.slot[s] = c} = {}
  BY <1>1, ConstantsAssumption
<1>3. CallbacksOwned
  BY <1>1, <1>2, FS_EmptySet DEF CallbacksOwned
<1>4. MaxRefs \in Nat /\ 0 \in 0..MaxRefs
  BY ConstantsAssumption
<1>5. py.slot \in [Slots -> Values] /\ py.wrap \in [Loops -> BOOLEAN]
  BY <1>1 DEF Values
<1>6. py.refs \in [Callables -> 0..MaxRefs]
  BY <1>1, <1>4
<1> QED
  BY <1>1, <1>3, <1>5, <1>6 DEF PyInv

LEMMA PyInvCorrect == Spec => []PyInv
<1>1. PyInv /\ UNCHANGED vars => PyInv'
  BY DEF PyInv, CallbacksOwned, vars
<1> QED
  BY <1>1, InitPy, PyStep, PTL DEF Spec

\* hakopy owns a reference for every slot a callback can be called through.
THEOREM CallbacksOwnedCorrect == Spec => []CallbacksOwned
  BY PyInvCorrect, PTL DEF PyInv
-----------------------------------------------------------------------------
(* Types.                                                                  *)

RestType == /\ session \in BOOLEAN /\ crashed \in BOOLEAN
            /\ main \in {"idle", "running", "callback", "stopping"}
            /\ status \in Statuses /\ last.threw \in Statuses

LEMMA RestStep == ASSUME RestType, Next PROVE RestType'
<1> USE DEF RestType
<1>1. status' \in Statuses /\ last'.threw \in Statuses
  <2>1. CASE Answers
    BY <2>1, AnswersTold
  <2>2. CASE Silent
    BY <2>2 DEF Silent
  <2>3. CASE StartReturns
    BY <2>3 DEF StartReturns, Statuses
  <2>4. CASE ConductorStop
    BY <2>4 DEF ConductorStop, Statuses
  <2>5. CASE Proceeds
    BY <2>5 DEF Proceeds, Statuses
  <2> QED
    BY <2>1, <2>2, <2>3, <2>4, <2>5, AnswerStep
<1>3. crashed' \in BOOLEAN
  <2>1. \A k, b : Through(k, b) => crashed' \in BOOLEAN
    BY DEF Through, Crash
  <2>2. \A k, e : Failed(k, e) => crashed' \in BOOLEAN
    BY DEF Failed, Crash
  <2>3. ASSUME NEW d \in Dicts, Register(d) PROVE crashed' \in BOOLEAN
    BY <2>2, <2>3 DEF Register, NativeRegister, ImplInit
  <2>4. CASE PollingCall \/ SimeventCall \/ MasterInit
    BY <2>1, <2>2, <2>4 DEF PollingCall, SimeventCall, MasterInit
  <2>5. CASE AttachCoreRefused \/ ConductorStart
    BY <2>2, <2>5 DEF AttachCoreRefused, ConductorStart, Crash
  <2>6. CASE MasterCall \/ \E k \in Kinds : InstanceCall(k)
    BY <2>1, <2>6 DEF MasterCall, InstanceCall
  <2>7. CASE \E k \in {"bool", "none"}, b, x \in BOOLEAN : AttachInstance(k, b, x)
    BY <2>2, <2>7 DEF AttachInstance
  <2>8. CASE ChannelsMade
    BY <2>8 DEF ChannelsMade
  <2> QED
    BY <2>3, <2>4, <2>5, <2>6, <2>7, <2>8, PointerSteps
<1>4. session' \in BOOLEAN /\ main' \in {"idle", "running", "callback", "stopping"}
  BY DEF Next, processVars, RegisterChannels, RegisterLock, ChannelRefused, ChannelThrows,
         ChannelsMade, MasterComes, MasterGoes, Register, InitializeForExternal, AttachCore,
         AttachCoreWithName, AttachInstance, AttachCoreRefused, LoadPduData, PollingCall,
         PollingEventCall, SimeventCall, MasterInit, MasterCall, ConductorStart, ThreadStops,
         ThreadFails, ThreadEnds, ConductorStop, ConductorStopped, Start, Callback,
         CallbackReturns, StartReturns, StartThrows, Interrupt, AssetMethods, PduMethods,
         EventMethods, ControlMethods, PduReadMethod, RegisterEventMethod, TimeMethods,
         RaisingMethods, InstanceCall, ServerMethods, ClientMethods, ServiceMethod, ServiceCall,
         ServerLifeMethods, ServerRequestMethods, ServerAnswerMethods, ClientLifeMethods,
         ClientCallMethods, ClientStateMethods,
         ServiceGetChannelId
<1> QED
  BY <1>1, <1>3, <1>4

\* The state keeps its types, whatever the application does; the references to a callback
\* stay natural numbers because registration releases no more than it holds.
THEOREM TypeCorrect == Spec => []TypeOK
<1> DEFINE Inv == RestType /\ PointerType /\ PyInv /\ ThreadInv
<1>1. Init => Inv
  <2>1. Init => RestType
    <3>1. Init => last.threw = "NONE" /\ status = "NONE"
      BY DEF Init
    <3>2. Init => /\ session \in BOOLEAN /\ crashed = FALSE /\ main = "idle"
      BY Zenon DEF Init
    <3> QED
      BY <3>1, <3>2 DEF RestType, Statuses
  <2>2. Init => PointerType
    BY InitPointers DEF PointerInv
  <2>3. Init => ThreadInv
    BY DEF Init, ThreadInv, OneConductorThread
  <2> QED
    BY <2>1, <2>2, <2>3, InitPy
<1>2. Inv /\ UNCHANGED vars => Inv'
  BY DEF vars, processVars, RestType, PointerType, PyInv, CallbacksOwned, ThreadInv,
         OneConductorThread
<1>3. Inv /\ SectionInv => TypeOK
  BY DEF SectionInv, SectionType, RestType, PointerType, CoreType, InstType, CapiType, PyInv, Values, ThreadInv, TypeOK
<1>4. Inv /\ Next => Inv'
  BY RestStep, PointerTypeStep, PyStep, ThreadStep
<1> QED
  BY <1>1, <1>2, <1>3, <1>4, SectionInvCorrect, PTL DEF Spec
=============================================================================
