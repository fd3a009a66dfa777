----------------------------- MODULE RecvEvent -----------------------------
(***************************************************************************)
(* The data-receive-event table of the PRO shared memory                   *)
(* (sources/core/src/hako_pro_data_recv_event.cpp) together with the two   *)
(* hooks that write_pdu of hakoniwa-core-cpp calls (before the copy and    *)
(* after it, hako_pro_data.cpp) and clear_run_flags.                       *)
(*                                                                         *)
(* Processes register for a channel, a write raises recv_flag in every     *)
(* entry of the channel, the owner of an entry consumes the flag.  A flag  *)
(* that is raised and not gated by pending_flag makes the channel busy:    *)
(* the next write_pdu returns false.                                       *)
(*                                                                         *)
(* The table lock (atomic_is_busy) is taken by register, update,           *)
(* set_pending and clear, and NOT by the hooks or by the consumers; the    *)
(* hooks run under the channel's write lock, consumers and clear under its *)
(* read lock.  Those critical sections are the steps below.                *)
(***************************************************************************)
EXTENDS Naturals

CONSTANTS
  Procs,         \* processes that register and consume events
  Writers,       \* threads that write PDUs
  Chans,         \* real PDU channels
  ServiceChans,  \* response channels of services: one entry each, handed on by update
  EventMax,      \* HAKO_RECV_EVENT_MAX
  MaxClears,     \* bound on the starts and resets explored
  NoProc,        \* nobody holds the table lock
  Master,        \* the conductor's process, which clears the run flags
  NoChan

ASSUME ConstantsAssumption ==
  /\ EventMax \in Nat \ {0}
  /\ MaxClears \in Nat
  /\ ServiceChans \subseteq Chans
  /\ NoProc \notin Procs /\ Master \notin Procs /\ Master # NoProc
  /\ NoChan \notin Chans

Ids == 0 .. EventMax - 1

VARIABLES
  entries,    \* [Ids -> HakoRecvEventEntryType], meaningful below entry_num
  entry_num,
  table_lock, \* atomic_is_busy, with the holder
  pc,         \* where each process is inside a call
  arg,        \* the channel a process registers or updates
  alloc,      \* alloc_id of a registration, or the entry an update found
  wphase,     \* where each writer is inside write_pdu
  wchan,      \* the channel it writes
  wrun,       \* history: the value of run when the write it is in took the write lock
  clear_at,   \* loop index of clear_run_flags while Master holds the table lock
  run,        \* number of clears begun
  known,      \* history: the entries there were when the last clear began
  raised_in,  \* history: the wrun of the write that last raised an entry's flag
  grants      \* history: the registrations that succeeded

tableVars == <<entries, entry_num>>
callVars  == <<pc, arg, alloc>>
writeVars == <<wphase, wchan, wrun>>
clearVars == <<clear_at, run, known>>
vars == <<tableVars, table_lock, callVars, writeVars, clearVars, raised_in, grants>>

\* proc_id, real_channel_id, type, recv_flag, pending_flag; "enabled" is chan # NoChan.
Entry == [proc: Procs \cup {NoProc}, chan: Chans \cup {NoChan},
          callback: BOOLEAN, recv: BOOLEAN, pending: BOOLEAN]

\* What memset(0) leaves.
NoEntry == [proc |-> NoProc, chan |-> NoChan,
            callback |-> FALSE, recv |-> FALSE, pending |-> FALSE]

\* Entries the loops "for (i = 0; i < entry_num; ++i)" visit.
Used == 0 .. entry_num - 1

On(c) == {i \in Used : entries[i].chan = c}
Own(p, c) == {i \in On(c) : entries[i].proc = p}

\* The loops stop at the first match.
First(S, i) == i \in S /\ \A j \in S : i <= j

WriteLocked(c) == \E w \in Writers : wphase[w] = "hold" /\ wchan[w] = c

\* Mutant of Busy: a gated event keeps the channel busy as well.
BusyWhileGated(c) == \E i \in On(c) : entries[i].recv

\* on_pdu_data_before_write: an event nobody has consumed and nobody gates.
Busy(c) == \E i \in On(c) : entries[i].recv /\ ~entries[i].pending

-----------------------------------------------------------------------------
Init ==
  /\ entries = [i \in Ids |-> NoEntry]
  /\ entry_num = 0
  /\ table_lock = NoProc
  /\ pc = [p \in Procs |-> "idle"]
  /\ arg = [p \in Procs |-> NoChan]
  /\ alloc = [p \in Procs |-> 0]
  /\ wphase = [w \in Writers |-> "idle"]
  /\ wchan = [w \in Writers |-> NoChan]
  /\ wrun = [w \in Writers |-> 0]
  /\ clear_at = 0
  /\ run = 0
  /\ known = 0
  /\ raised_in = [i \in Ids |-> 0]
  /\ grants = {}

-----------------------------------------------------------------------------
(* register_data_recv_event: the capacity is tested without the lock, ...   *)
\* A service registers its response channel once (a new client slot); a
\* process registers for an ordinary channel once.
MayRegister(p, c) ==
  IF c \in ServiceChans THEN On(c) = {} /\ \A q \in Procs : arg[q] # c
                        ELSE Own(p, c) = {}

RegisterCheck(p, c) ==
  /\ pc[p] = "idle"
  /\ MayRegister(p, c)
  /\ entry_num < EventMax
  /\ pc' = [pc EXCEPT ![p] = "register"]
  /\ arg' = [arg EXCEPT ![p] = c]
  /\ UNCHANGED <<tableVars, table_lock, alloc, writeVars, clearVars, raised_in, grants>>

\* Mutants of RegisterAlloc: the capacity is not tested again, the index is
\* read without the table lock.
RegisterAllocUnchecked(p) ==
  /\ pc[p] = "register"
  /\ table_lock = NoProc
  /\ pc' = [pc EXCEPT ![p] = "fill"]
  /\ table_lock' = p
  /\ alloc' = [alloc EXCEPT ![p] = entry_num]
  /\ UNCHANGED <<tableVars, arg, writeVars, clearVars, raised_in, grants>>

RegisterAllocUnlocked(p) ==
  /\ pc[p] = "register"
  /\ entry_num < EventMax
  /\ pc' = [pc EXCEPT ![p] = "fill"]
  /\ alloc' = [alloc EXCEPT ![p] = entry_num]
  /\ UNCHANGED <<tableVars, table_lock, arg, writeVars, clearVars, raised_in, grants>>

(* ... tested again under the lock, ...                                     *)
RegisterAlloc(p) ==
  /\ pc[p] = "register"
  /\ table_lock = NoProc
  /\ \/ /\ entry_num >= EventMax
        /\ pc' = [pc EXCEPT ![p] = "idle"]
        /\ arg' = [arg EXCEPT ![p] = NoChan]
        /\ UNCHANGED <<table_lock, alloc>>
     \/ /\ entry_num < EventMax
        /\ pc' = [pc EXCEPT ![p] = "fill"]
        /\ table_lock' = p
        /\ alloc' = [alloc EXCEPT ![p] = entry_num]
        /\ UNCHANGED arg
  /\ UNCHANGED <<tableVars, writeVars, clearVars, raised_in, grants>>

(* ... and the entry becomes visible with entry_num++.                      *)
RegisterFill(p, callback) ==
  /\ pc[p] = "fill"
  /\ entries' = [entries EXCEPT ![alloc[p]] =
       [proc |-> p, chan |-> arg[p], callback |-> callback, recv |-> FALSE, pending |-> FALSE]]
  /\ entry_num' = entry_num + 1
  /\ table_lock' = NoProc
  /\ grants' = grants \cup {[proc |-> p, chan |-> arg[p], id |-> alloc[p]]}
  /\ pc' = [pc EXCEPT ![p] = "idle"]
  /\ arg' = [arg EXCEPT ![p] = NoChan]
  /\ UNCHANGED <<alloc, writeVars, clearVars, raised_in>>

(* update_data_recv_event: a client that comes back takes the first entry  *)
(* of the channel over.  It is found without the lock ...                  *)
UpdateFind(p, c) ==
  /\ c \in ServiceChans
  /\ pc[p] = "idle"
  /\ \E i \in Used :
       /\ First(On(c), i)
       /\ alloc' = [alloc EXCEPT ![p] = i]
  /\ pc' = [pc EXCEPT ![p] = "update"]
  /\ arg' = [arg EXCEPT ![p] = c]
  /\ UNCHANGED <<tableVars, table_lock, writeVars, clearVars, raised_in, grants>>

(* ... and rewritten under the table lock; pending_flag is left as it is.  *)
UpdateApply(p, callback) ==
  /\ pc[p] = "update"
  /\ table_lock = NoProc
  /\ entries' = [entries EXCEPT ![alloc[p]] =
       [@ EXCEPT !.recv = FALSE, !.proc = p, !.callback = callback]]
  /\ pc' = [pc EXCEPT ![p] = "idle"]
  /\ arg' = [arg EXCEPT ![p] = NoChan]
  /\ UNCHANGED <<entry_num, table_lock, alloc, writeVars, clearVars, raised_in, grants>>

(* set_recv_event_pending, by event id or by channel.                       *)
SetPending(p, i, pending) ==
  /\ pc[p] = "idle"
  /\ table_lock = NoProc
  /\ i \in Used /\ entries[i].proc = p
  /\ entries' = [entries EXCEPT ![i].pending = pending]
  /\ UNCHANGED <<entry_num, table_lock, callVars, writeVars, clearVars, raised_in, grants>>

-----------------------------------------------------------------------------
(* get_recv_event: the first entry of the process for the channel is found  *)
(* without a lock, ...                                                      *)
GetRecvEvent(p, c) ==
  /\ pc[p] = "idle"
  /\ \E i \in Used :
       /\ First(Own(p, c), i)
       /\ alloc' = [alloc EXCEPT ![p] = i]
  /\ pc' = [pc EXCEPT ![p] = "consume"]
  /\ UNCHANGED <<tableVars, table_lock, arg, writeVars, clearVars, raised_in, grants>>

(* ... as is, in a turn of call_recv_event_callbacks, any own entry that    *)
(* has a callback.                                                          *)
CallRecvEventCallback(p, i) ==
  /\ pc[p] = "idle"
  /\ i \in Used /\ entries[i].proc = p /\ entries[i].callback
  /\ alloc' = [alloc EXCEPT ![p] = i]
  /\ pc' = [pc EXCEPT ![p] = "consume"]
  /\ UNCHANGED <<tableVars, table_lock, arg, writeVars, clearVars, raised_in, grants>>

(* The flags are read, and a raised flag that is not gated is cleared,      *)
(* under the channel's read lock; by then a takeover may have given the     *)
(* entry away.                                                              *)
Consume(p) ==
  /\ pc[p] = "consume"
  /\ LET e == entries[alloc[p]] IN
       /\ ~WriteLocked(e.chan)
       /\ entries' = [entries EXCEPT ![alloc[p]].recv = e.recv /\ e.pending]
  /\ pc' = [pc EXCEPT ![p] = "idle"]
  /\ UNCHANGED <<entry_num, table_lock, arg, alloc, writeVars, clearVars, raised_in, grants>>

-----------------------------------------------------------------------------
\* A writer that has data for channel c retries write_pdu until it succeeds.
Produce(w, c) ==
  /\ wphase[w] = "idle"
  /\ wphase' = [wphase EXCEPT ![w] = "want"]
  /\ wchan' = [wchan EXCEPT ![w] = c]
  /\ UNCHANGED <<tableVars, table_lock, callVars, wrun, clearVars, raised_in, grants>>

(* write_pdu takes the channel's write lock and asks before_write; a busy   *)
(* channel makes it return false, and the writer tries again later.         *)
WriteBegin(w) ==
  /\ wphase[w] = "want"
  /\ ~WriteLocked(wchan[w])
  /\ ~Busy(wchan[w])
  /\ wphase' = [wphase EXCEPT ![w] = "hold"]
  /\ wrun' = [wrun EXCEPT ![w] = run]
  /\ UNCHANGED <<tableVars, table_lock, callVars, wchan, clearVars, raised_in, grants>>

(* on_pdu_data_write: the flag of EVERY entry of the channel.               *)
WriteEnd(w) ==
  /\ wphase[w] = "hold"
  /\ entries' = [i \in Ids |->
       IF i \in On(wchan[w]) THEN [entries[i] EXCEPT !.recv = TRUE] ELSE entries[i]]
  /\ raised_in' = [i \in Ids |-> IF i \in On(wchan[w]) THEN wrun[w] ELSE raised_in[i]]
  /\ wphase' = [wphase EXCEPT ![w] = "idle"]
  /\ wchan' = [wchan EXCEPT ![w] = NoChan]
  /\ wrun' = [wrun EXCEPT ![w] = 0]
  /\ UNCHANGED <<entry_num, table_lock, callVars, clearVars, grants>>

-----------------------------------------------------------------------------
(* clear_run_flags (start and reset): under the table lock, entry by entry, *)
(* each under its channel's read lock.                                      *)
ClearBegin ==
  /\ run < MaxClears
  /\ table_lock = NoProc
  /\ table_lock' = Master
  /\ clear_at' = 0
  /\ run' = run + 1
  /\ known' = entry_num
  /\ UNCHANGED <<tableVars, callVars, writeVars, raised_in, grants>>

\* Mutant of ClearEntry: the channel's read lock is not taken.
ClearEntryUnlocked ==
  /\ table_lock = Master
  /\ clear_at < entry_num
  /\ entries' = [entries EXCEPT ![clear_at] = [@ EXCEPT !.recv = FALSE, !.pending = FALSE]]
  /\ clear_at' = clear_at + 1
  /\ UNCHANGED <<entry_num, table_lock, callVars, writeVars, run, known, raised_in, grants>>

ClearEntry ==
  /\ table_lock = Master
  /\ clear_at < entry_num
  /\ ~WriteLocked(entries[clear_at].chan)
  /\ entries' = [entries EXCEPT ![clear_at] = [@ EXCEPT !.recv = FALSE, !.pending = FALSE]]
  /\ clear_at' = clear_at + 1
  /\ UNCHANGED <<entry_num, table_lock, callVars, writeVars, run, known, raised_in, grants>>

ClearEnd ==
  /\ table_lock = Master
  /\ clear_at >= entry_num
  /\ table_lock' = NoProc
  /\ UNCHANGED <<tableVars, callVars, writeVars, clearVars, raised_in, grants>>

-----------------------------------------------------------------------------
Next ==
  \/ \E p \in Procs, c \in Chans :
       RegisterCheck(p, c) \/ UpdateFind(p, c) \/ GetRecvEvent(p, c)
  \/ \E p \in Procs : RegisterAlloc(p) \/ Consume(p)
  \/ \E p \in Procs, b \in BOOLEAN : RegisterFill(p, b) \/ UpdateApply(p, b)
  \/ \E p \in Procs, i \in Ids, b \in BOOLEAN : SetPending(p, i, b)
  \/ \E p \in Procs, i \in Ids : CallRecvEventCallback(p, i)
  \/ \E w \in Writers, c \in Chans : Produce(w, c)
  \/ \E w \in Writers : WriteBegin(w) \/ WriteEnd(w)
  \/ ClearBegin \/ ClearEntry \/ ClearEnd

Spec == Init /\ [][Next]_vars

(* The owners of entries keep polling, calls finish, a writer that retries  *)
(* gets its turn: no fairness for registrations, gating or new data.        *)
Fairness ==
  /\ \A p \in Procs, c \in Chans : SF_vars(GetRecvEvent(p, c))
  /\ \A p \in Procs : SF_vars(RegisterAlloc(p)) /\ SF_vars(Consume(p))
  /\ \A p \in Procs : SF_vars(\E b \in BOOLEAN : UpdateApply(p, b))
  /\ \A p \in Procs : WF_vars(\E b \in BOOLEAN : RegisterFill(p, b))
  /\ \A w \in Writers : SF_vars(WriteBegin(w)) /\ WF_vars(WriteEnd(w))
  /\ SF_vars(ClearEntry) /\ WF_vars(ClearEnd)

FairSpec == Spec /\ Fairness

-----------------------------------------------------------------------------
\* Type invariant; entry_num never passes HAKO_RECV_EVENT_MAX although the
\* capacity is first tested without the lock.
TypeOK ==
  /\ entries \in [Ids -> Entry]
  /\ entry_num \in 0 .. EventMax
  /\ table_lock \in Procs \cup {NoProc, Master}
  /\ pc \in [Procs -> {"idle", "register", "fill", "update", "consume"}]
  /\ arg \in [Procs -> Chans \cup {NoChan}]
  /\ alloc \in [Procs -> Ids]
  /\ wphase \in [Writers -> {"idle", "want", "hold"}]
  /\ wchan \in [Writers -> Chans \cup {NoChan}]
  /\ clear_at \in 0 .. EventMax
  /\ wrun \in [Writers -> Nat]
  /\ run \in Nat /\ known \in 0 .. EventMax
  /\ raised_in \in [Ids -> Nat]
  /\ grants \subseteq [proc: Procs, chan: Chans, id: Ids]

\* Racing registrations never receive the same event id, and the entry behind
\* an id keeps the channel it was registered for (register_data_recv_event
\* allocates under the table lock; nothing frees or moves an entry).
GrantsDistinct ==
  /\ \A g, h \in grants : g.id = h.id => g = h
  /\ \A g \in grants : g.id \in Used /\ entries[g.id].chan = g.chan

\* A start or reset leaves no event of the previous run: once clear_run_flags is
\* over, a flag that is raised in an entry it found is that of a write begun after
\* it, whatever registrations, takeovers, consumers and writes ran beside the loop,
\* those that held a channel's write lock when it came to the entry included.
NoEventOfPreviousRun ==
  table_lock # Master =>
    \A i \in Used : entries[i].recv /\ i < known => raised_in[i] = run

\* From some moment on nobody gates or resumes an entry.
GatesSettle == <>[][\A i \in Ids : entries'[i].pending = entries[i].pending]_vars

\* While a process registers once for a channel, its entries are polled, and
\* gates are not flipped for ever, a writer that retries write_pdu is not kept
\* out: a busy channel is released by all its consumers, by a gate or by a
\* clear.  (Flipping the gates of two entries in turn can keep a channel busy:
\* each owner polls while its own entry is gated.)
WriterProgress ==
  GatesSettle => \A w \in Writers : wphase[w] = "want" ~> wphase[w] = "idle"
=============================================================================
