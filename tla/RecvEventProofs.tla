--------------------------- MODULE RecvEventProofs ---------------------------
(***************************************************************************)
(* Safety of the data-receive-event table for any number of processes,     *)
(* writers, channels, entries and clears.                                  *)
(*                                                                         *)
(* The inductive invariant adds to TypeOK who may be inside the table lock *)
(* (LockInv), what a finished registration left behind (GrantsDistinct)    *)
(* and how far clear_run_flags has come (ClearInv): in the entries it has  *)
(* passed, and in all it found once the lock is free again, a raised flag  *)
(* is that of a write of this run, and a write that is about to raise one  *)
(* began in it.                                                            *)
(***************************************************************************)
EXTENDS RecvEvent, TLAPS

\* A registration between its two critical steps holds the table lock, and the
\* entry it fills is the first free one.
LockInv ==
  /\ \A p \in Procs : pc[p] = "fill" =>
       table_lock = p /\ alloc[p] = entry_num /\ entry_num < EventMax
  /\ \A p \in Procs : pc[p] \in {"register", "fill"} => arg[p] \in Chans
  /\ \A w \in Writers : wphase[w] # "idle" => wchan[w] \in Chans

\* The entries of the last clear that its loop has passed.
Passed == {i \in Used : i < known /\ (table_lock = Master => i < clear_at)}

ClearInv ==
  /\ known <= entry_num
  /\ \A i \in Passed : entries[i].recv => raised_in[i] = run
  /\ \A i \in Passed, w \in Writers :
       wphase[w] = "hold" /\ wchan[w] = entries[i].chan => wrun[w] = run

IInv == TypeOK /\ LockInv /\ GrantsDistinct /\ ClearInv

\* The table starts empty (create_empty_tables).
LEMMA InitIInv == Init => IInv
  BY ConstantsAssumption
  DEF Init, IInv, TypeOK, LockInv, GrantsDistinct, ClearInv, Passed, NoEntry, Entry, Ids, Used

\* The assignments to the fields of an entry keep it an entry.
LEMMA EntryRecv == \A e \in Entry, r \in BOOLEAN : [e EXCEPT !.recv = r] \in Entry
  BY SMT DEF Entry

LEMMA EntryPending == \A e \in Entry, g \in BOOLEAN : [e EXCEPT !.pending = g] \in Entry
  BY SMT DEF Entry

LEMMA EntryProc == \A e \in Entry, p \in Procs : [e EXCEPT !.proc = p] \in Entry
  BY SMT DEF Entry

LEMMA EntryCallback == \A e \in Entry, b \in BOOLEAN : [e EXCEPT !.callback = b] \in Entry
  BY SMT DEF Entry

LEMMA EntryRaised == \A e \in Entry : [e EXCEPT !.recv = TRUE] \in Entry
  BY EntryRecv, Zenon

LEMMA EntryCleared ==
  \A e \in Entry : [e EXCEPT !.recv = FALSE, !.pending = FALSE] \in Entry
  BY EntryRecv, EntryPending, Zenon

LEMMA EntryTakenOver ==
  \A e \in Entry, p \in Procs, b \in BOOLEAN :
    [e EXCEPT !.recv = FALSE, !.proc = p, !.callback = b] \in Entry
  BY EntryRecv, EntryProc, EntryCallback, Zenon

\* Every step preserves the types; entry_num stays within HAKO_RECV_EVENT_MAX
\* because the lock is held from the second capacity test to entry_num++.
LEMMA NextTypeOK == ASSUME IInv, Next PROVE TypeOK'
<1> USE ConstantsAssumption DEF TypeOK, Ids, Used
<1>1. ASSUME NEW p \in Procs, NEW c \in Chans, RegisterCheck(p, c) PROVE TypeOK'
  BY <1>1 DEF IInv, RegisterCheck, tableVars, writeVars, clearVars
<1>2. ASSUME NEW p \in Procs, RegisterAlloc(p) PROVE TypeOK'
  <2>1. CASE entry_num >= EventMax
    <3>1. /\ pc' = [pc EXCEPT ![p] = "idle"]
          /\ arg' = [arg EXCEPT ![p] = NoChan]
          /\ table_lock' = table_lock /\ alloc' = alloc
      BY <1>2, <2>1 DEF IInv, RegisterAlloc
    <3> QED
      BY <1>2, <3>1 DEF IInv, RegisterAlloc, tableVars, writeVars, clearVars
  <2>2. CASE entry_num < EventMax
    <3>1. entry_num \in Ids
      BY <2>2 DEF IInv
    <3>2. /\ pc' = [pc EXCEPT ![p] = "fill"]
          /\ alloc' = [alloc EXCEPT ![p] = entry_num]
          /\ table_lock' = p /\ arg' = arg
      BY <1>2, <2>2 DEF IInv, RegisterAlloc
    <3> QED
      BY <1>2, <3>1, <3>2 DEF IInv, RegisterAlloc, tableVars, writeVars, clearVars
  <2> QED
    BY <1>2, <2>1, <2>2 DEF RegisterAlloc
<1>3. ASSUME NEW p \in Procs, NEW b \in BOOLEAN, RegisterFill(p, b) PROVE TypeOK'
  <2>1. [proc |-> p, chan |-> arg[p], callback |-> b, recv |-> FALSE, pending |-> FALSE] \in Entry
    BY DEF IInv, Entry
  <2>2. entries' \in [Ids -> Entry]
    BY <1>3, <2>1 DEF IInv, RegisterFill
  <2>3. alloc[p] = entry_num /\ entry_num < EventMax /\ arg[p] \in Chans
    BY <1>3 DEF IInv, LockInv, RegisterFill
  <2>4. grants' \subseteq [proc: Procs, chan: Chans, id: Ids]
    BY <1>3, <2>3 DEF IInv, RegisterFill
  <2> QED
    BY <1>3, <2>2, <2>3, <2>4 DEF IInv, RegisterFill, writeVars, clearVars
<1>4. ASSUME NEW p \in Procs, NEW c \in Chans, UpdateFind(p, c) PROVE TypeOK'
  BY <1>4 DEF IInv, UpdateFind, tableVars, writeVars, clearVars
<1>5. ASSUME NEW p \in Procs, NEW b \in BOOLEAN, UpdateApply(p, b) PROVE TypeOK'
  <2>1. alloc[p] \in Ids /\ entries[alloc[p]] \in Entry
    BY DEF IInv
  <2>2. [entries[alloc[p]] EXCEPT !.recv = FALSE, !.proc = p, !.callback = b] \in Entry
    BY <2>1, EntryTakenOver
  <2>3. entries' \in [Ids -> Entry]
    BY <1>5, <2>1, <2>2 DEF IInv, UpdateApply
  <2> QED
    BY <1>5, <2>3 DEF IInv, UpdateApply, writeVars, clearVars
<1>6. ASSUME NEW p \in Procs, NEW i \in Ids, NEW b \in BOOLEAN, SetPending(p, i, b)
      PROVE  TypeOK'
  <2>1. [entries[i] EXCEPT !.pending = b] \in Entry
    BY EntryPending DEF IInv
  <2>2. entries' \in [Ids -> Entry]
    BY <1>6, <2>1 DEF IInv, SetPending
  <2> QED
    BY <1>6, <2>2 DEF IInv, SetPending, callVars, writeVars, clearVars
<1>7. ASSUME NEW p \in Procs, NEW c \in Chans, GetRecvEvent(p, c) PROVE TypeOK'
  BY <1>7 DEF IInv, GetRecvEvent, tableVars, writeVars, clearVars
<1>8. ASSUME NEW p \in Procs, NEW i \in Ids, CallRecvEventCallback(p, i) PROVE TypeOK'
  BY <1>8 DEF IInv, CallRecvEventCallback, tableVars, writeVars, clearVars
<1>9. ASSUME NEW p \in Procs, Consume(p) PROVE TypeOK'
  <2>1. alloc[p] \in Ids /\ entries[alloc[p]] \in Entry
    BY DEF IInv
  <2>2. [entries[alloc[p]] EXCEPT !.recv = entries[alloc[p]].recv /\ entries[alloc[p]].pending]
          \in Entry
    BY <2>1, EntryRecv
  <2>3. entries' \in [Ids -> Entry]
    BY <1>9, <2>1, <2>2 DEF IInv, Consume
  <2>4. pc' \in [Procs -> {"idle", "register", "fill", "update", "consume"}]
    BY <1>9 DEF IInv, Consume
  <2> QED
    BY <1>9, <2>3, <2>4 DEF IInv, Consume, writeVars, clearVars
<1>10. ASSUME NEW w \in Writers, NEW c \in Chans, Produce(w, c) PROVE TypeOK'
  BY <1>10 DEF IInv, Produce, tableVars, callVars, clearVars
<1>11. ASSUME NEW w \in Writers, WriteBegin(w) PROVE TypeOK'
  BY <1>11 DEF IInv, WriteBegin, tableVars, callVars, clearVars
<1>12. ASSUME NEW w \in Writers, WriteEnd(w) PROVE TypeOK'
  <2>1. \A i \in Ids : [entries[i] EXCEPT !.recv = TRUE] \in Entry
    BY EntryRaised DEF IInv
  <2>2. entries' \in [Ids -> Entry]
    BY <1>12, <2>1 DEF IInv, WriteEnd
  <2>3. raised_in' \in [Ids -> Nat]
    BY <1>12 DEF IInv, WriteEnd
  <2> QED
    BY <1>12, <2>2, <2>3 DEF IInv, WriteEnd, callVars, clearVars
<1>13. ASSUME ClearBegin PROVE TypeOK'
  BY <1>13 DEF IInv, ClearBegin, tableVars, callVars, writeVars
<1>14. ASSUME ClearEntry PROVE TypeOK'
  <2>1. clear_at \in Ids
    BY <1>14 DEF IInv, ClearEntry
  <2>2. [entries[clear_at] EXCEPT !.recv = FALSE, !.pending = FALSE] \in Entry
    BY <2>1, EntryCleared DEF IInv
  <2>3. entries' \in [Ids -> Entry]
    BY <1>14, <2>1, <2>2 DEF IInv, ClearEntry
  <2> QED
    BY SMTT(30), <1>14, <2>1, <2>3 DEF IInv, ClearEntry, callVars, writeVars
<1>15. ASSUME ClearEnd PROVE TypeOK'
  BY <1>15 DEF IInv, ClearEnd, tableVars, callVars, writeVars, clearVars
<1> HIDE DEF TypeOK, Ids, Used
<1> QED
  BY <1>1, <1>2, <1>3, <1>4, <1>5, <1>6, <1>7, <1>8, <1>9, <1>10, <1>11, <1>12,
     <1>13, <1>14, <1>15
  DEF Next

\* Only the holder of the table lock changes entry_num, so the index a
\* registration allocated is still the first free one when it fills it.
LEMMA NextLockInv == ASSUME IInv, Next PROVE LockInv'
<1> USE ConstantsAssumption DEF LockInv, Ids, Used
<1>1. ASSUME NEW p \in Procs, NEW c \in Chans, RegisterCheck(p, c) PROVE LockInv'
  BY <1>1 DEF IInv, TypeOK, RegisterCheck, tableVars, clearVars, writeVars
<1>2. ASSUME NEW p \in Procs, RegisterAlloc(p) PROVE LockInv'
  BY <1>2 DEF IInv, TypeOK, RegisterAlloc, tableVars, clearVars, writeVars
<1>3. ASSUME NEW p \in Procs, NEW b \in BOOLEAN, RegisterFill(p, b) PROVE LockInv'
  BY <1>3 DEF IInv, TypeOK, RegisterFill, clearVars, writeVars
<1>4. ASSUME NEW p \in Procs, NEW c \in Chans, UpdateFind(p, c) PROVE LockInv'
  BY <1>4 DEF IInv, TypeOK, UpdateFind, tableVars, clearVars, writeVars
<1>5. ASSUME NEW p \in Procs, NEW b \in BOOLEAN, UpdateApply(p, b) PROVE LockInv'
  BY <1>5 DEF IInv, TypeOK, UpdateApply, clearVars, writeVars
<1>6. ASSUME NEW p \in Procs, NEW i \in Ids, NEW b \in BOOLEAN, SetPending(p, i, b) PROVE LockInv'
  BY <1>6 DEF IInv, TypeOK, SetPending, callVars, clearVars, writeVars
<1>7. ASSUME NEW p \in Procs, NEW c \in Chans, GetRecvEvent(p, c) PROVE LockInv'
  BY <1>7 DEF IInv, TypeOK, GetRecvEvent, tableVars, clearVars, writeVars
<1>8. ASSUME NEW p \in Procs, NEW i \in Ids, CallRecvEventCallback(p, i) PROVE LockInv'
  BY <1>8 DEF IInv, TypeOK, CallRecvEventCallback, tableVars, clearVars, writeVars
<1>9. ASSUME NEW p \in Procs, Consume(p) PROVE LockInv'
  BY <1>9 DEF IInv, TypeOK, Consume, clearVars, writeVars
<1>10. ASSUME NEW w \in Writers, NEW c \in Chans, Produce(w, c) PROVE LockInv'
  BY <1>10 DEF IInv, TypeOK, Produce, tableVars, callVars, clearVars
<1>11. ASSUME NEW w \in Writers, WriteBegin(w) PROVE LockInv'
  BY <1>11 DEF IInv, TypeOK, WriteBegin, tableVars, callVars, clearVars
<1>12. ASSUME NEW w \in Writers, WriteEnd(w) PROVE LockInv'
  BY <1>12 DEF IInv, TypeOK, WriteEnd, callVars, clearVars
<1>13. ASSUME ClearBegin PROVE LockInv'
  BY <1>13 DEF IInv, TypeOK, ClearBegin, tableVars, callVars, writeVars
<1>14. ASSUME ClearEntry PROVE LockInv'
  BY <1>14 DEF IInv, TypeOK, ClearEntry, callVars, writeVars
<1>15. ASSUME ClearEnd PROVE LockInv'
  BY <1>15 DEF IInv, TypeOK, ClearEnd, tableVars, callVars, writeVars, clearVars
<1> HIDE DEF LockInv, Ids, Used
<1> QED
  BY <1>1, <1>2, <1>3, <1>4, <1>5, <1>6, <1>7, <1>8,
     <1>9, <1>10, <1>11, <1>12, <1>13, <1>14, <1>15
  DEF Next

\* A new grant has the index entry_num, which no earlier one has; takeovers,
\* gates and clears leave the channel of an entry alone.
LEMMA NextGrantsDistinct == ASSUME IInv, Next PROVE GrantsDistinct'
<1> USE ConstantsAssumption DEF GrantsDistinct, Ids, Used
<1>1. ASSUME NEW p \in Procs, NEW c \in Chans, RegisterCheck(p, c) PROVE GrantsDistinct'
  BY <1>1 DEF IInv, TypeOK, RegisterCheck, tableVars, clearVars, writeVars
<1>2. ASSUME NEW p \in Procs, RegisterAlloc(p) PROVE GrantsDistinct'
  BY <1>2 DEF IInv, TypeOK, RegisterAlloc, tableVars, clearVars, writeVars
<1>3. ASSUME NEW p \in Procs, NEW b \in BOOLEAN, RegisterFill(p, b) PROVE GrantsDistinct'
  <2>1. alloc[p] = entry_num /\ entry_num \in Ids
    BY <1>3 DEF IInv, TypeOK, LockInv, RegisterFill
  <2>2. entries'[entry_num].chan = arg[p] /\ \A j \in Used : entries'[j] = entries[j]
    BY <1>3, <2>1 DEF IInv, TypeOK, RegisterFill
  <2>3. grants' = grants \cup {[proc |-> p, chan |-> arg[p], id |-> entry_num]}
    BY <1>3, <2>1 DEF RegisterFill
  <2> QED
    BY <1>3, <2>1, <2>2, <2>3 DEF IInv, TypeOK, RegisterFill
<1>4. ASSUME NEW p \in Procs, NEW c \in Chans, UpdateFind(p, c) PROVE GrantsDistinct'
  BY <1>4 DEF IInv, TypeOK, UpdateFind, tableVars, clearVars, writeVars
<1>5. ASSUME NEW p \in Procs, NEW b \in BOOLEAN, UpdateApply(p, b) PROVE GrantsDistinct'
  BY <1>5 DEF IInv, TypeOK, UpdateApply, clearVars, writeVars
<1>6. ASSUME NEW p \in Procs, NEW i \in Ids, NEW b \in BOOLEAN, SetPending(p, i, b) PROVE GrantsDistinct'
  BY <1>6 DEF IInv, TypeOK, SetPending, callVars, clearVars, writeVars
<1>7. ASSUME NEW p \in Procs, NEW c \in Chans, GetRecvEvent(p, c) PROVE GrantsDistinct'
  BY <1>7 DEF IInv, TypeOK, GetRecvEvent, tableVars, clearVars, writeVars
<1>8. ASSUME NEW p \in Procs, NEW i \in Ids, CallRecvEventCallback(p, i) PROVE GrantsDistinct'
  BY <1>8 DEF IInv, TypeOK, CallRecvEventCallback, tableVars, clearVars, writeVars
<1>9. ASSUME NEW p \in Procs, Consume(p) PROVE GrantsDistinct'
  BY <1>9 DEF IInv, TypeOK, Consume, clearVars, writeVars
<1>10. ASSUME NEW w \in Writers, NEW c \in Chans, Produce(w, c) PROVE GrantsDistinct'
  BY <1>10 DEF IInv, TypeOK, Produce, tableVars, callVars, clearVars
<1>11. ASSUME NEW w \in Writers, WriteBegin(w) PROVE GrantsDistinct'
  BY <1>11 DEF IInv, TypeOK, WriteBegin, tableVars, callVars, clearVars
<1>12. ASSUME NEW w \in Writers, WriteEnd(w) PROVE GrantsDistinct'
  BY <1>12 DEF IInv, TypeOK, WriteEnd, callVars, clearVars
<1>13. ASSUME ClearBegin PROVE GrantsDistinct'
  BY <1>13 DEF IInv, TypeOK, ClearBegin, tableVars, callVars, writeVars
<1>14. ASSUME ClearEntry PROVE GrantsDistinct'
  BY <1>14 DEF IInv, TypeOK, ClearEntry, callVars, writeVars
<1>15. ASSUME ClearEnd PROVE GrantsDistinct'
  BY <1>15 DEF IInv, TypeOK, ClearEnd, tableVars, callVars, writeVars, clearVars
<1> HIDE DEF GrantsDistinct, Ids, Used
<1> QED
  BY <1>1, <1>2, <1>3, <1>4, <1>5, <1>6, <1>7, <1>8,
     <1>9, <1>10, <1>11, <1>12, <1>13, <1>14, <1>15
  DEF Next

\* A clear passes an entry only while nobody writes its channel, so a write that raises
\* a flag behind the loop has begun after the clear.
LEMMA NextClearInv == ASSUME IInv, Next PROVE ClearInv'
<1> USE ConstantsAssumption DEF ClearInv, Passed, Ids, Used
<1>1. ASSUME NEW p \in Procs, NEW c \in Chans, RegisterCheck(p, c) PROVE ClearInv'
  BY <1>1 DEF IInv, TypeOK, RegisterCheck, tableVars, clearVars, writeVars
<1>2. ASSUME NEW p \in Procs, RegisterAlloc(p) PROVE ClearInv'
  BY <1>2 DEF IInv, TypeOK, RegisterAlloc, tableVars, clearVars, writeVars
<1>3. ASSUME NEW p \in Procs, NEW b \in BOOLEAN, RegisterFill(p, b) PROVE ClearInv'
  <2>1. alloc[p] = entry_num /\ entry_num \in Ids /\ table_lock = p
    BY <1>3 DEF IInv, TypeOK, LockInv, RegisterFill
  <2>2. \A j \in Used : entries'[j] = entries[j]
    BY <1>3, <2>1 DEF IInv, TypeOK, RegisterFill
  <2>3. /\ entry_num' = entry_num + 1 /\ table_lock' = NoProc
        /\ UNCHANGED <<known, run, raised_in, wphase, wchan, wrun>>
    BY <1>3 DEF RegisterFill, clearVars, writeVars
  <2>4. known' <= entry_num' /\ Passed' \subseteq Passed
    BY <2>1, <2>3 DEF IInv, TypeOK
  <2>5. \A i \in Passed' : entries'[i] = entries[i]
    BY <2>2, <2>4
  <2> QED
    BY <2>3, <2>4, <2>5 DEF IInv
<1>4. ASSUME NEW p \in Procs, NEW c \in Chans, UpdateFind(p, c) PROVE ClearInv'
  BY <1>4 DEF IInv, TypeOK, UpdateFind, tableVars, clearVars, writeVars
<1>5. ASSUME NEW p \in Procs, NEW b \in BOOLEAN, UpdateApply(p, b) PROVE ClearInv'
  BY <1>5 DEF IInv, TypeOK, UpdateApply, clearVars, writeVars
<1>6. ASSUME NEW p \in Procs, NEW i \in Ids, NEW b \in BOOLEAN, SetPending(p, i, b) PROVE ClearInv'
  BY <1>6 DEF IInv, TypeOK, SetPending, callVars, clearVars, writeVars
<1>7. ASSUME NEW p \in Procs, NEW c \in Chans, GetRecvEvent(p, c) PROVE ClearInv'
  BY <1>7 DEF IInv, TypeOK, GetRecvEvent, tableVars, clearVars, writeVars
<1>8. ASSUME NEW p \in Procs, NEW i \in Ids, CallRecvEventCallback(p, i) PROVE ClearInv'
  BY <1>8 DEF IInv, TypeOK, CallRecvEventCallback, tableVars, clearVars, writeVars
<1>9. ASSUME NEW p \in Procs, Consume(p) PROVE ClearInv'
  <2>1. \A j \in Ids : entries'[j].recv => entries[j].recv
    <3> SUFFICES ASSUME NEW j \in Ids, entries'[j].recv PROVE entries[j].recv
      OBVIOUS
    <3>1. CASE j = alloc[p]
      <4>1. entries'[j].recv = (entries[j].recv /\ entries[j].pending)
        BY <1>9, <3>1 DEF IInv, TypeOK, Consume, Entry
      <4> QED
        BY <4>1
    <3>2. CASE j # alloc[p]
      BY <1>9, <3>2 DEF IInv, TypeOK, Consume
    <3> QED
      BY <3>1, <3>2
  <2>2. \A j \in Ids : entries'[j].chan = entries[j].chan
    BY <1>9 DEF IInv, TypeOK, Consume, Entry
  <2>3. UNCHANGED <<entry_num, table_lock, clear_at, known, run, raised_in, wphase, wchan, wrun>>
    BY <1>9 DEF Consume, clearVars, writeVars
  <2>4. Passed' = Passed /\ Passed \subseteq Ids
    BY <2>3 DEF IInv, TypeOK
  <2> QED
    BY <2>1, <2>2, <2>3, <2>4 DEF IInv
<1>10. ASSUME NEW w \in Writers, NEW c \in Chans, Produce(w, c) PROVE ClearInv'
  BY <1>10 DEF IInv, TypeOK, Produce, tableVars, callVars, clearVars
<1>11. ASSUME NEW w \in Writers, WriteBegin(w) PROVE ClearInv'
  BY <1>11 DEF IInv, TypeOK, WriteBegin, tableVars, callVars, clearVars
<1>12. ASSUME NEW w \in Writers, WriteEnd(w) PROVE ClearInv'
  <2>1. /\ UNCHANGED <<entry_num, table_lock, clear_at, known, run>>
        /\ wphase' = [wphase EXCEPT ![w] = "idle"]
        /\ wchan' = [wchan EXCEPT ![w] = NoChan]
        /\ wrun' = [wrun EXCEPT ![w] = 0]
    BY <1>12 DEF WriteEnd, clearVars
  <2>2. Passed' = Passed /\ Passed \subseteq Used /\ Passed \subseteq Ids
    BY <2>1 DEF IInv, TypeOK
  <2>3. \A i \in Ids : entries'[i].chan = entries[i].chan
    BY <1>12 DEF IInv, TypeOK, WriteEnd, Entry
  <2>4. \A i \in Passed : entries'[i].recv => raised_in'[i] = run
    <3> SUFFICES ASSUME NEW i \in Passed, entries'[i].recv PROVE raised_in'[i] = run
      OBVIOUS
    <3>1. i \in Ids /\ i \in Used
      BY <2>2
    <3>2. CASE entries[i].chan = wchan[w]
      <4>1. i \in On(wchan[w])
        BY <3>1, <3>2 DEF On
      <4>2. raised_in'[i] = wrun[w]
        BY <1>12, <3>1, <4>1 DEF WriteEnd
      <4>3. wrun[w] = run
        BY <1>12, <3>2 DEF IInv, WriteEnd
      <4> QED
        BY <4>2, <4>3
    <3>3. CASE entries[i].chan # wchan[w]
      <4>1. i \notin On(wchan[w])
        BY <3>3 DEF On
      <4>2. entries'[i] = entries[i] /\ raised_in'[i] = raised_in[i]
        BY <1>12, <3>1, <4>1 DEF WriteEnd
      <4> QED
        BY <4>2 DEF IInv
    <3> QED
      BY <3>2, <3>3
  <2>5. \A v \in Writers : wphase'[v] = "hold" =>
          wphase[v] = "hold" /\ wchan'[v] = wchan[v] /\ wrun'[v] = wrun[v]
    BY <2>1 DEF IInv, TypeOK
  <2> QED
    BY <2>1, <2>2, <2>3, <2>4, <2>5 DEF IInv
<1>13. ASSUME ClearBegin PROVE ClearInv'
  BY <1>13 DEF IInv, TypeOK, ClearBegin, tableVars, callVars, writeVars
<1>14. ASSUME ClearEntry PROVE ClearInv'
  <2>1. /\ UNCHANGED <<entry_num, table_lock, known, run, raised_in, wphase, wchan, wrun>>
        /\ clear_at' = clear_at + 1 /\ table_lock = Master
        /\ clear_at \in Ids /\ ~WriteLocked(entries[clear_at].chan)
    BY <1>14 DEF IInv, TypeOK, ClearEntry, callVars, writeVars
  <2>2. Passed' \subseteq Passed \cup {clear_at} /\ Passed' \subseteq Ids
    BY <2>1 DEF IInv, TypeOK
  <2>3. \A i \in Ids : /\ entries'[i].chan = entries[i].chan
                       /\ i # clear_at => entries'[i] = entries[i]
    BY <1>14 DEF IInv, TypeOK, ClearEntry, Entry
  <2>4. ~entries'[clear_at].recv
    BY <1>14, <2>1 DEF IInv, TypeOK, ClearEntry, Entry
  <2>5. \A i \in Passed' : entries'[i].recv => raised_in'[i] = run'
    BY <2>1, <2>2, <2>3, <2>4 DEF IInv
  <2>6. \A v \in Writers : wphase[v] = "hold" => wchan[v] # entries[clear_at].chan
    BY <2>1 DEF WriteLocked
  <2>7. \A i \in Passed', v \in Writers :
          wphase'[v] = "hold" /\ wchan'[v] = entries'[i].chan => wrun'[v] = run'
    BY <2>1, <2>2, <2>3, <2>6 DEF IInv
  <2> QED
    BY <2>1, <2>5, <2>7 DEF IInv
<1>15. ASSUME ClearEnd PROVE ClearInv'
  BY <1>15 DEF IInv, TypeOK, ClearEnd, tableVars, callVars, writeVars, clearVars
<1> HIDE DEF ClearInv, Passed, Ids, Used
<1> QED
  BY <1>1, <1>2, <1>3, <1>4, <1>5, <1>6, <1>7, <1>8,
     <1>9, <1>10, <1>11, <1>12, <1>13, <1>14, <1>15
  DEF Next

LEMMA StutterIInv == ASSUME IInv, UNCHANGED vars PROVE IInv'
  BY DEF IInv, TypeOK, LockInv, GrantsDistinct, ClearInv, Passed, Used, vars, tableVars,
         callVars, writeVars, clearVars

\* The inductive invariant holds in every reachable state.
THEOREM IInvCorrect == Spec => []IInv
<1>1. Init => IInv
  BY InitIInv
<1>2. IInv /\ [Next]_vars => IInv'
  BY NextTypeOK, NextLockInv, NextGrantsDistinct, NextClearInv, StutterIInv DEF IInv
<1> QED
  BY <1>1, <1>2, PTL DEF Spec

\* The table stays well formed, and never holds more than HAKO_RECV_EVENT_MAX
\* entries, for any number of racing registrations.
THEOREM TypeCorrect == Spec => []TypeOK
  BY IInvCorrect, PTL DEF IInv

\* No two registrations share an event id, and no takeover, gate, consumption or
\* clear changes the channel behind an id (register_data_recv_event).
THEOREM GrantsDistinctCorrect == Spec => []GrantsDistinct
  BY IInvCorrect, PTL DEF IInv

\* After clear_run_flags no flag is raised, or gets raised, by a write that began before
\* it, whatever registrations, takeovers, consumers and writes overlapped the loop.
THEOREM NoEventOfPreviousRunCorrect == Spec => []NoEventOfPreviousRun
<1>1. IInv => NoEventOfPreviousRun
  BY DEF IInv, ClearInv, Passed, NoEventOfPreviousRun
<1> QED
  BY <1>1, IInvCorrect, PTL

=============================================================================
