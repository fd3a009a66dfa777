----------------------------- MODULE AssetProcess -----------------------------
(***************************************************************************)
(* One process around the core library: the pointers hako_pro.cpp keeps to *)
(* the session of a master, the asset instance and the polling API built   *)
(* on them, the conductor the process may run in a thread of its own, the  *)
(* error status every guarded call leaves, and what hakopy makes of each   *)
(* answer and of the callbacks it is given.                                *)
(*                                                                         *)
(* A call is one step unless it blocks (hako_conductor_stop and            *)
(* hako_asset_start) or holds the master lock (hako_asset_register).       *)
(* hakoniwa-core-cpp is external: it may refuse a call, or throw one of    *)
(* Faults wherever it meets the master lock.                               *)
(***************************************************************************)
EXTENDS Naturals, FiniteSets

(* The entries of a callback dictionary; the loops are those start runs.   *)
Slots == {"on_initialize", "on_reset", "on_simulation_step", "on_manual_timing_control"}
Loops == {"on_simulation_step", "on_manual_timing_control"}

CONSTANTS
  Callables,  \* Python objects an application passes as callbacks
  Dicts,      \* the callback dictionaries it registers with
  Faults,     \* what the core may throw: the statuses of capture_current_exception
  MaxRefs,    \* bound: references one callable is given
  Use         \* what the application goes on to do, see below

(* "retry": attach again after no master was found.  "nothread": the       *)
(* system refuses a thread.  "misuse": ask for a request that is not       *)
(* there.                                                                  *)
Uses == {"retry", "nothread", "misuse"}

ASSUME ConstantsAssumption ==
  /\ IsFiniteSet(Callables) /\ Callables # {}
  /\ "none" \notin Callables /\ "null" \notin Callables
  /\ Dicts \subseteq [Slots -> Callables \cup {"none", "null"}]
  /\ Faults \subseteq {"ABORT", "UNKNOWN", "OTHER"}
  /\ MaxRefs \in Nat \ {0}
  /\ Use \subseteq Uses

VARIABLES
  session,    \* the memory of a master of another process can be loaded
  core,       \* master_data_ptr, pro_data_ptr and the three controllers
  inst,       \* hako_asset_instance
  capi,       \* hako_asset, hako_simevent and hako_master of hako_capi.cpp
  conductor,  \* hako_conductor, hako_conductor_cmd_stop, its threads
  section,    \* registration under the master lock: where it is, whether this process holds the
              \* lock, and, as history, whether a fault came while it did
  main,       \* what the calling thread is in
  status,     \* runtime_error_status of the calling thread
  last,       \* the answer of its last call
  py,         \* hakopy's callbacks and interrupt_flag
  crashed     \* a null pointer was followed

processVars == <<core, inst, capi, conductor, section>>
vars == <<session, processVars, main, status, last, py, crashed>>

Statuses == {"NONE"} \cup {"ABORT", "UNKNOWN", "OTHER"}
Kinds == {"bool", "value", "object", "raises", "bare", "none"}

NoInst == [init |-> FALSE, external |-> FALSE, asset |-> FALSE, sim |-> FALSE, callback |-> FALSE]

Init ==
  /\ session \in BOOLEAN
  /\ core = [data |-> "null", pro |-> FALSE, asset |-> FALSE, sim |-> FALSE, master |-> FALSE]
  /\ inst = NoInst
  /\ capi = [asset |-> FALSE, sim |-> FALSE, master |-> FALSE]
  /\ conductor = [set |-> FALSE, stop |-> FALSE, threads |-> 0]
  /\ section = [at |-> "out", locked |-> FALSE, kept |-> FALSE]
  /\ main = "idle"
  /\ status = "NONE"
  /\ last = [threw |-> "NONE", python |-> "None", loop |-> FALSE]
  /\ py = [slot |-> [s \in Slots |-> "null"], refs |-> [c \in Callables |-> 0],
           wrap |-> [s \in Loops |-> FALSE], interrupt |-> FALSE]
  /\ crashed = FALSE

\* A master in another process makes its session memory, or removes it.
MasterComes ==
  /\ ~session
  /\ session' = TRUE
  /\ UNCHANGED <<processVars, main, status, last, py, crashed>>

MasterGoes ==
  /\ session
  /\ session' = FALSE
  /\ UNCHANGED <<processVars, main, status, last, py, crashed>>
-----------------------------------------------------------------------------
(* The answer of a call.  guard clears the status before the function and  *)
(* captures what it throws.                                                *)

\* What hakopy returns for an answer of a method of that kind.
Convert(kind, ok, st) ==
  IF st # "NONE" THEN "raise"
  ELSE CASE kind = "none" -> "None"
         [] kind = "value" -> "value"
         [] kind = "bool" -> IF ok THEN "True" ELSE "False"
         [] kind = "object" -> IF ok THEN "value" ELSE "None"
         [] kind = "raises" -> IF ok THEN "value" ELSE "RuntimeError"
         [] kind = "bare" -> IF ok THEN "value" ELSE "NULL"

\* Mutant of Guard: the status of an earlier call is not cleared.
GuardKeeps(kind, ok, threw) ==
  /\ status' = IF threw = "NONE" THEN status ELSE threw
  /\ last' = [threw |-> threw, python |-> Convert(kind, ok, threw), loop |-> FALSE]

Guard(kind, ok, threw) ==
  /\ status' = threw
  /\ last' = [threw |-> threw, python |-> Convert(kind, ok, threw), loop |-> FALSE]

\* What a call on a controller comes to: TRUE, FALSE, or a fault.
Results == {[ok |-> b, threw |-> "NONE"] : b \in BOOLEAN} \cup
           {[ok |-> FALSE, threw |-> f] : f \in Faults}

\* An application calls from its own code, or from a callback of the loop.
Free == ~crashed /\ main \in {"idle", "callback"} /\ section.at = "out"

\* The process dies at a null pointer, with no answer.
Crash == crashed' = TRUE /\ UNCHANGED <<status, last>>

\* A call through a controller.
Through(kind, backed) ==
  IF backed
    THEN (\E r \in Results : Guard(kind, r.ok, r.threw)) /\ UNCHANGED crashed
    ELSE Crash
-----------------------------------------------------------------------------
(* hako_pro.cpp.  Each returns the pointers it leaves and how it ends:     *)
(* "ok", "null" (no controller), "crash" or a fault.  The last line of     *)
(* each logs, and the log looks at the master lock.                        *)

Ended(c) == {[core |-> c, end |-> e] : e \in {"ok"} \cup Faults}

\* load fails without a configuration file too.
Loaded(c) == {[c EXCEPT !.data = "fresh"]} \cup
  (IF session THEN {[c EXCEPT !.data = "loaded", !.pro = TRUE]} ELSE {})

WithController(c, which) ==
  IF which = "asset" /\ ~c.pro THEN {[core |-> c, end |-> "crash"]}
  ELSE Ended([c EXCEPT ![which] = TRUE])

\* create_asset_controller and get_simevent_controller.
Controller(c, which) ==
  IF c[which] THEN {[core |-> c, end |-> "ok"]}
  ELSE IF c.data # "null" THEN WithController(c, which)
  ELSE UNION {IF d.data = "fresh" THEN {[core |-> d, end |-> "null"]}
              ELSE WithController(d, which) : d \in Loaded(c)}

\* Both, as every attach does: the second only after the first.
Attach(c) ==
  UNION {{[core |-> e.core, end |-> e.end, asset |-> a.end = "ok"] :
            e \in IF a.end = "ok" THEN Controller(a.core, "sim") ELSE {a}} :
           a \in Controller(c, "asset")}

\* hako::init: a master_data_ptr that was only allocated is taken for a loaded one.
HakoInit(c) ==
  Ended([c EXCEPT !.data = IF c.data = "null" THEN "loaded" ELSE c.data, !.pro = TRUE])

\* An attach that found no master is not tried again.
MayAttach == core.data # "fresh" \/ "retry" \in Use

\* A call whose attach did not end "ok".
Failed(kind, e) ==
  IF e = "crash" THEN Crash
  ELSE Guard(kind, FALSE, IF e \in Faults THEN e ELSE "NONE") /\ UNCHANGED crashed
-----------------------------------------------------------------------------
(* hako_asset.cpp and hako_asset_impl.cpp: the instance.                   *)

\* asset_register_polling.  It takes the master lock itself (README.md:391), which is not
\* recursive: a process that has kept it meets a fault or waits for ever.
RegisterInSession(kind) ==
  /\ inst' = [NoInst EXCEPT !.asset = TRUE, !.sim = TRUE]
  /\ \/ /\ ~section.locked
        /\ section' = [section EXCEPT !.at = "lock"]
        /\ status' = "NONE" /\ UNCHANGED last
     \/ /\ ~section.locked
        /\ Guard(kind, FALSE, "NONE") /\ UNCHANGED section
     \/ \E f \in Faults : Guard(kind, FALSE, f) /\ UNCHANGED section

\* Then the master lock is taken for the channels; other processes' turns are a wait.
RegisterLock ==
  /\ section.at = "lock"
  /\ \/ /\ section' = [section EXCEPT !.at = "channels", !.locked = TRUE]
        /\ UNCHANGED <<status, last>>
     \/ /\ section' = [section EXCEPT !.at = "out"]
        /\ \E f \in Faults : Guard("bool", FALSE, f)
  /\ UNCHANGED <<session, core, inst, capi, conductor, main, py, crashed>>

\* Mutant of ChannelRefused: the early return leaves the lock taken.
ChannelRefusedKeeps ==
  /\ section.at = "channels"
  /\ section' = [section EXCEPT !.at = "out"]
  /\ Guard("bool", FALSE, "NONE")
  /\ UNCHANGED <<session, core, inst, capi, conductor, main, py, crashed>>

\* The loop over the channels ends at the first that cannot be made,
ChannelRefused ==
  /\ section.at = "channels"
  /\ section' = [section EXCEPT !.at = "out", !.locked = FALSE]
  /\ Guard("bool", FALSE, "NONE")
  /\ UNCHANGED <<session, core, inst, capi, conductor, main, py, crashed>>

\* at one that throws, past both calls of unlock_master (which may be what throws),
ChannelThrows ==
  /\ section.at = "channels"
  /\ section' = [section EXCEPT !.at = "out", !.kept = TRUE]
  /\ \E f \in Faults : Guard("bool", FALSE, f)
  /\ UNCHANGED <<session, core, inst, capi, conductor, main, py, crashed>>

\* or with all of them made (one after the other, which changes nothing that is kept here).
ChannelsMade ==
  /\ section.at = "channels"
  /\ section' = [section EXCEPT !.at = "out", !.locked = FALSE]
  /\ inst' = [inst EXCEPT !.init = TRUE, !.callback = TRUE]
  /\ Guard("bool", TRUE, "NONE")
  /\ UNCHANGED <<session, core, capi, conductor, main, py, crashed>>

RegisterChannels == RegisterLock \/ ChannelRefused \/ ChannelThrows \/ ChannelsMade

\* Mutant of ImplInit: a failure clears the controllers and not is_initialized.
ImplInitKeeps(kind) ==
  /\ inst' = [NoInst EXCEPT !.init = inst.init]
  /\ Guard(kind, FALSE, "NONE")
  /\ UNCHANGED <<core, section, crashed>>

\* hako_asset_impl_init.  A configuration file that cannot be read or parsed ends it early.
ImplInit(kind) ==
  \/ /\ inst' = NoInst
     /\ Guard(kind, FALSE, "NONE")
     /\ UNCHANGED <<core, section, crashed>>
  \/ /\ MayAttach
     /\ \E a \in Attach(core) :
          /\ core' = a.core
          /\ IF a.end = "ok"
               THEN RegisterInSession(kind) /\ UNCHANGED crashed
               ELSE /\ inst' = [NoInst EXCEPT !.asset = a.asset]
                    /\ Failed(kind, a.end)
                    /\ UNCHANGED section

\* hako_asset_register: both loops at once are refused before the instance is touched.
NativeRegister(wrap) ==
  IF \A s \in Loops : wrap[s]
    THEN /\ Guard("bool", FALSE, "NONE")
         /\ UNCHANGED <<core, inst, section, crashed>>
    ELSE ImplInit("bool")
-----------------------------------------------------------------------------
(* asset_register of hakopy: the callbacks of the dictionary first.  A     *)
(* value is a callable, "none" (None) or "null" (no such key).             *)

Given(d, c) == Cardinality({s \in Slots : d[s] = c})

\* The two loops release what they replace; None leaves the old one in its slot.
Released(d, c) ==
  Cardinality({s \in Loops : d[s] \in Callables /\ py.slot[s] = c})

\* Mutants of TakeCallbacks: the first two callbacks are borrowed; the loops are.
TakeCallbacksBorrowed(d) ==
  [py EXCEPT
     !.slot = [s \in Slots |-> IF s \in Loops /\ d[s] \notin Callables THEN py.slot[s] ELSE d[s]],
     !.refs = [c \in Callables |->
                 (py.refs[c] + Cardinality({s \in Loops : d[s] = c})) - Released(d, c)],
     !.wrap = [s \in Loops |-> d[s] # "none"]]

TakeCallbacksReleased(d) ==
  [py EXCEPT
     !.slot = [s \in Slots |-> IF s \in Loops /\ d[s] \notin Callables THEN py.slot[s] ELSE d[s]],
     !.refs = [c \in Callables |->
                 (py.refs[c] + Cardinality({s \in Slots \ Loops : d[s] = c})) - Released(d, c)],
     !.wrap = [s \in Loops |-> d[s] # "none"]]

TakeCallbacks(d) ==
  [py EXCEPT
     !.slot = [s \in Slots |-> IF s \in Loops /\ d[s] \notin Callables THEN py.slot[s] ELSE d[s]],
     !.refs = [c \in Callables |-> (py.refs[c] + Given(d, c)) - Released(d, c)],
     !.wrap = [s \in Loops |-> d[s] # "none"]]

Register(d) ==
  /\ Free
  /\ \A c \in Callables : TakeCallbacks(d).refs[c] <= MaxRefs
  /\ py' = TakeCallbacks(d)
  /\ NativeRegister(py'.wrap)
  /\ UNCHANGED <<session, capi, conductor, main>>

\* hako_initialize_for_external and the two attach_core calls, which differ in
\* what they do when the instance is initialized already.
AttachInstance(kind, whenInit, external) ==
  /\ Free
  /\ IF inst.init
       THEN /\ Guard(kind, whenInit, "NONE")
            /\ UNCHANGED <<core, inst, crashed>>
       ELSE /\ MayAttach
            /\ \E a \in Attach(core) :
                 /\ core' = a.core
                 /\ inst' = [NoInst EXCEPT !.init = a.end = "ok", !.external = external,
                                           !.asset = a.asset, !.sim = a.end = "ok"]
                 /\ IF a.end = "ok" THEN Guard(kind, TRUE, "NONE") /\ UNCHANGED crashed
                                    ELSE Failed(kind, a.end)
  /\ UNCHANGED <<session, capi, conductor, section, main, py>>

InitializeForExternal == AttachInstance("bool", FALSE, TRUE)
AttachCore == AttachInstance("none", TRUE, TRUE)
AttachCoreWithName == AttachInstance("none", TRUE, FALSE)

\* An asset name or configuration file that is missing, or that does not parse.
AttachCoreRefused ==
  /\ Free /\ ~inst.init
  /\ inst' \in {inst, NoInst}
  /\ Guard("none", FALSE, "NONE")
  /\ UNCHANGED <<session, core, capi, conductor, section, main, py, crashed>>

\* A call that asks for an initialized instance and goes through its controllers:
\* pdu_create, pdu_read, pdu_write, the receive events, trigger_event.
InstanceCall(kind) ==
  /\ Free
  /\ IF ~inst.init
       THEN /\ Guard(kind, FALSE, "NONE") /\ UNCHANGED crashed
       ELSE Through(kind, inst.asset /\ inst.sim)
  /\ UNCHANGED <<session, processVars, main, py>>

\* load_pdu_data looks at the controller pointer as well.
LoadPduData ==
  /\ Free
  /\ IF inst.init /\ inst.asset
       THEN \E r \in Results : Guard("none", r.ok, r.threw)
       ELSE Guard("none", FALSE, "NONE")
  /\ UNCHANGED <<session, processVars, main, py, crashed>>
-----------------------------------------------------------------------------
(* hako_capi.cpp.                                                          *)

\* hako_asset_init, behind endpoint_attach_core and ensure_ready.
CapiAttach ==
  IF capi.asset THEN {[core |-> core, end |-> "ok", asset |-> TRUE]} ELSE Attach(core)

\* Every polling call: ensure_ready, then the call on the controller.
PollingCall ==
  /\ Free
  /\ ~capi.asset => MayAttach
  /\ \E a \in CapiAttach :
       /\ core' = a.core
       /\ capi' = [capi EXCEPT !.asset = a.asset,
                               !.sim = IF capi.asset THEN @ ELSE @ \/ a.end = "ok"]
       /\ IF a.end = "ok" THEN Through("none", core'.data = "loaded")
                          ELSE Failed("none", a.end)
  /\ UNCHANGED <<session, inst, conductor, section, main, py>>

\* The receive events of the polling API need no controller, only pro_data_ptr.
PollingEventCall ==
  /\ Free
  /\ IF core.pro THEN \E r \in Results : Guard("none", r.ok, r.threw)
                 ELSE Guard("none", FALSE, "NONE")
  /\ UNCHANGED <<session, processVars, main, py, crashed>>

\* hako_simevent_init and the calls behind it.  A controller on memory that was never
\* loaded is handed out and used.
SimeventCall ==
  /\ Free /\ MayAttach
  /\ \E s \in (IF capi.sim THEN {[core |-> core, end |-> "ok"]} ELSE Controller(core, "sim")) :
       /\ core' = s.core
       /\ capi' = [capi EXCEPT !.sim = @ \/ s.end = "ok"]
       /\ IF s.end = "ok" THEN Through("none", s.core.data = "loaded")
                          ELSE Failed("none", s.end)
  /\ UNCHANGED <<session, inst, conductor, section, main, py>>

\* hako_master_init: a process that is a master by the polling API.
MasterInit ==
  /\ Free /\ MayAttach
  /\ \E m \in HakoInit(core) :
       IF m.end # "ok"
         THEN core' = m.core /\ Failed("none", m.end) /\ UNCHANGED capi
         ELSE \E s \in Controller([m.core EXCEPT !.master = TRUE], "sim") :
                /\ core' = s.core
                /\ capi' = [capi EXCEPT !.master = TRUE, !.sim = @ \/ s.end = "ok"]
                /\ IF s.end = "ok" THEN Guard("none", TRUE, "NONE") /\ UNCHANGED crashed
                                   ELSE Failed("none", s.end)
  /\ UNCHANGED <<session, inst, conductor, section, main, py>>

\* hako_master_execute and the simulation time calls.
MasterCall ==
  /\ Free /\ capi.master
  /\ Through("none", core.data = "loaded")
  /\ UNCHANGED <<session, processVars, main, py>>
-----------------------------------------------------------------------------
(* hako_conductor_impl.cpp: the conductor's thread in this process.        *)

\* set_config_simtime, then the thread.  What the try block throws leaves no conductor;
\* a thread that cannot be made throws after it, and hako_conductor stays set.
StartThread ==
  \/ /\ Guard("bool", TRUE, "NONE")
     /\ conductor' = [conductor EXCEPT !.set = TRUE, !.threads = @ + 1]
  \/ /\ \E f \in Faults : Guard("bool", FALSE, f)
     /\ UNCHANGED conductor
  \/ /\ "nothread" \in Use
     /\ Guard("bool", FALSE, "OTHER")
     /\ conductor' = [conductor EXCEPT !.set = TRUE]

\* hako::init, create_master and the above; the memory of a master_data_ptr that was
\* only allocated is never made.
ConductorStart ==
  /\ Free /\ MayAttach
  /\ IF conductor.set
       THEN Guard("bool", FALSE, "NONE") /\ UNCHANGED <<core, conductor, crashed>>
       ELSE \E m \in HakoInit(core) :
              IF m.end # "ok"
                THEN core' = m.core /\ Failed("bool", m.end) /\ UNCHANGED conductor
                ELSE /\ core' = [m.core EXCEPT !.master = TRUE]
                     /\ IF m.core.data = "loaded" THEN StartThread /\ UNCHANGED crashed
                                                  ELSE Crash /\ UNCHANGED conductor
  /\ UNCHANGED <<session, inst, capi, section, main, py>>

ThreadEnds ==
  /\ conductor' = [conductor EXCEPT !.set = FALSE, !.threads = @ - 1]
  /\ UNCHANGED <<session, core, inst, capi, section, main, status, last, py, crashed>>

\* Mutant of ThreadStops: the thread leaves hako_conductor set.
ThreadStopsSet ==
  /\ ~crashed /\ conductor.threads > 0 /\ conductor.stop
  /\ conductor' = [conductor EXCEPT !.threads = @ - 1]
  /\ UNCHANGED <<session, core, inst, capi, section, main, status, last, py, crashed>>

\* The thread sees cmd_stop, after any number of execute().
ThreadStops == ~crashed /\ conductor.threads > 0 /\ conductor.stop /\ ThreadEnds

\* execute() throws: the status is left in the thread, where nobody asks for it.
ThreadFails == ~crashed /\ conductor.threads > 0 /\ Faults # {} /\ ThreadEnds

\* Mutant of ConductorStop: it drops hako_conductor itself.
ConductorStopDrops ==
  /\ ~crashed /\ main = "idle" /\ section.at = "out"
  /\ main' = "stopping"
  /\ status' = "NONE"
  /\ conductor' = [conductor EXCEPT !.stop = TRUE, !.set = FALSE]
  /\ UNCHANGED <<session, core, inst, capi, section, last, py, crashed>>

ConductorStop ==
  /\ ~crashed /\ main = "idle" /\ section.at = "out"
  /\ main' = "stopping"
  /\ status' = "NONE"
  /\ conductor' = [conductor EXCEPT !.stop = TRUE]
  /\ UNCHANGED <<session, core, inst, capi, section, last, py, crashed>>

ConductorStopped ==
  /\ main = "stopping" /\ ~conductor.set
  /\ main' = "idle"
  /\ Guard("none", TRUE, "NONE")
  /\ UNCHANGED <<session, processVars, py, crashed>>
-----------------------------------------------------------------------------
(* hako_asset_start under hakopy: the loop, its callbacks and SIGINT.      *)

Start ==
  /\ ~crashed /\ main = "idle" /\ section.at = "out"
  /\ IF inst.init
       THEN main' = "running" /\ Guard("none", TRUE, "NONE")
       ELSE /\ Guard("bool", FALSE, "NONE") /\ UNCHANGED main
  /\ UNCHANGED <<session, processVars, py, crashed>>

\* A callback of the loop, and its return.
Callback ==
  /\ ~crashed /\ main = "running" /\ inst.callback
  /\ \E s \in Loops : py.wrap[s]
  /\ main' = "callback"
  /\ UNCHANGED <<session, processVars, status, last, py, crashed>>

CallbackReturns ==
  /\ ~crashed /\ main = "callback" /\ section.at = "out"
  /\ main' = "running"
  /\ UNCHANGED <<session, processVars, status, last, py, crashed>>

\* The end of start: is_force_stop, or a stop and reset of the simulation.  The status is
\* that of the last guarded call, which need not be start.
StartReturns ==
  /\ ~crashed /\ main = "running"
  /\ main' = "idle"
  /\ last' = [threw |-> "NONE", python |-> Convert("bool", FALSE, status),
              loop |-> TRUE]
  /\ UNCHANGED <<session, processVars, status, py, crashed>>

StartThrows ==
  /\ ~crashed /\ main = "running"
  /\ main' = "idle"
  /\ \E f \in Faults : Guard("bool", FALSE, f)
  /\ UNCHANGED <<session, processVars, py, crashed>>

\* set_interrupt_flag; nothing clears it.
Interrupt ==
  /\ ~py.interrupt
  /\ py' = [py EXCEPT !.interrupt = TRUE]
  /\ UNCHANGED <<session, processVars, main, status, last, crashed>>
-----------------------------------------------------------------------------
(* The methods of hakopy by what they make of an answer.                   *)

\* pdu_write and pdu_create: True or False.
PduMethods == InstanceCall("bool")
\* check_data_recv_event, set_data_recv_event_pending and resume.
EventMethods == InstanceCall("bool")
\* usleep and trigger_event.
ControlMethods == InstanceCall("bool")
AssetMethods == PduMethods \/ EventMethods \/ ControlMethods
\* simulation_time, asset_current_time, min_asset_time.
TimeMethods == InstanceCall("value")
\* pdu_read and register_data_recv_event raise when they are refused.
PduReadMethod == InstanceCall("raises")
RegisterEventMethod == InstanceCall("raises")
RaisingMethods == PduReadMethod \/ RegisterEventMethod

\* The service methods hand the answer of the service API on.
ServiceMethod(kind, ok, threw) ==
  /\ Free
  /\ Guard(kind, ok, threw)
  /\ UNCHANGED <<session, processVars, main, py, crashed>>

ServiceCall(kinds) == \E r \in Results, k \in kinds : ServiceMethod(k, r.ok, r.threw)

\* service_initialize, server_create, server_poll.
ServerLifeMethods == ServiceCall({"bool", "object", "value"})

\* The current client, and its channels, status and request: NULL where nothing was raised.
ServerRequestMethods ==
  \/ ServiceCall({"value"})
  \/ \E r \in Results : (r.ok \/ r.threw # "NONE" \/ "misuse" \in Use)
                        /\ ServiceMethod("bare", r.ok, r.threw)

\* get_response_buffer, put_response, is_canceled, set_progress.
ServerAnswerMethods == ServiceCall({"bool", "object"})

\* client_create, client_poll, the channels of a client.
ClientLifeMethods == ServiceCall({"object", "value"})

\* get_request_buffer, call_request, get_response.
ClientCallMethods == ServiceCall({"object", "bool"})

\* cancel_request, get_progress, client_status.
ClientStateMethods == ServiceCall({"bool", "value", "object"})

ServerMethods == ServerLifeMethods \/ ServerRequestMethods \/ ServerAnswerMethods
ClientMethods == ClientLifeMethods \/ ClientCallMethods \/ ClientStateMethods

\* asset_service_get_channel_id reads the table itself.
ServiceGetChannelId ==
  /\ Free
  /\ IF core.pro THEN \E r \in Results : Guard("object", r.ok, r.threw)
                 ELSE Guard("raises", FALSE, "NONE")
  /\ UNCHANGED <<session, processVars, main, py, crashed>>
-----------------------------------------------------------------------------
Next ==
  \/ MasterComes \/ MasterGoes
  \/ (\E d \in Dicts : Register(d)) \/ RegisterChannels
  \/ InitializeForExternal \/ AttachCore \/ AttachCoreWithName \/ AttachCoreRefused
  \/ LoadPduData \/ PollingCall \/ PollingEventCall \/ SimeventCall \/ MasterInit \/ MasterCall
  \/ ConductorStart \/ ThreadStops \/ ThreadFails \/ ConductorStop \/ ConductorStopped
  \/ Start \/ Callback \/ CallbackReturns \/ StartReturns \/ StartThrows \/ Interrupt
  \/ AssetMethods \/ TimeMethods \/ RaisingMethods
  \/ ServerMethods \/ ClientMethods \/ ServiceGetChannelId

Spec == Init /\ [][Next]_vars

\* The conductor's thread and the poll of hako_conductor_stop are scheduled.
FairSpec == Spec /\ WF_vars(ThreadStops) /\ WF_vars(ConductorStopped)
-----------------------------------------------------------------------------
TypeOK ==
  /\ session \in BOOLEAN /\ crashed \in BOOLEAN
  /\ section \in [at : {"out", "lock", "channels"}, locked : BOOLEAN, kept : BOOLEAN]
  /\ core \in [data : {"null", "fresh", "loaded"}, pro : BOOLEAN, asset : BOOLEAN,
               sim : BOOLEAN, master : BOOLEAN]
  /\ inst \in [init : BOOLEAN, external : BOOLEAN, asset : BOOLEAN, sim : BOOLEAN,
               callback : BOOLEAN]
  /\ capi \in [asset : BOOLEAN, sim : BOOLEAN, master : BOOLEAN]
  /\ conductor \in [set : BOOLEAN, stop : BOOLEAN, threads : Nat]
  /\ main \in {"idle", "running", "callback", "stopping"}
  /\ status \in Statuses
  /\ last.threw \in Statuses
  /\ py.slot \in [Slots -> Callables \cup {"none", "null"}]
  /\ py.refs \in [Callables -> 0..MaxRefs]
  /\ py.wrap \in [Loops -> BOOLEAN] /\ py.interrupt \in BOOLEAN

(* An instance that says it is initialized holds both controllers, over    *)
(* memory that was loaded, whatever attach or registration failed before:  *)
(* no call follows a null pointer (hako_asset.cpp asks for is_initialized  *)
(* only).                                                                  *)
AttachedWhenUsed ==
  /\ ~crashed
  /\ inst.init => inst.asset /\ inst.sim /\ core.data = "loaded" /\ core.pro
  /\ capi.asset \/ capi.sim => core.data = "loaded" /\ core.pro

(* hako_conductor is the only sign of a running thread: there is never     *)
(* more than one thread, and none once the pointer is null, so that stop   *)
(* may return (hako_conductor_impl.cpp:58, 83).                            *)
OneConductorThread ==
  /\ conductor.threads <= 1
  /\ ~conductor.set => conductor.threads = 0

(* docs/runtime-error-contract.md: after a call the status is that of the  *)
(* exception it met, NONE for an ordinary failure, and hakopy raises in    *)
(* the first case only; no method returns NULL with nothing raised.  (Not  *)
(* the return of start, whose callbacks make calls of their own.)          *)
FailureTold ==
  main # "stopping" /\ section.at = "out" /\ ~last.loop =>
    /\ status = last.threw
    /\ last.python = "raise" <=> last.threw # "NONE"
    /\ last.python # "NULL"

(* hakopy owns a reference for every slot a callback can be called         *)
(* through, however often and with whatever dictionary it registers        *)
(* (asset_register of hako_asset_python.cpp).                              *)
CallbacksOwned ==
  \A c \in Callables : py.refs[c] >= Cardinality({s \in Slots : py.slot[s] = c})

(* Registration holds the master lock over many calls with two unlocks and *)
(* no guard object (hako_asset_impl.cpp:254-271): the process comes out    *)
(* with it only when a fault came inside, and an asset whose callbacks the *)
(* process runs is never one of a process that kept it.                    *)
LockLeft ==
  /\ section.locked /\ section.at # "channels" => section.kept
  /\ section.locked => ~inst.callback

(* The section always ends with the lock given back.  Not so (no run       *)
(* checks it): after a fault the lock stays, for every process.            *)
NoLockKept == section.locked => section.at = "channels"

(* hako_asset_register refuses two loops at once (hako_asset.cpp:39), so   *)
(* start never finds both in the callbacks it runs.                        *)
OneLoop == inst.init /\ inst.callback => \E s \in Loops : ~py.wrap[s]

(* The same of start: what it raises is an exception of its own.           *)
StartTold == last.loop => last.python # "raise"

(* hako_conductor_stop returns (hako_conductor_impl.cpp:80-87).            *)
StopEnds == main = "stopping" ~> main # "stopping"
=============================================================================
