------------------------- MODULE ServiceTableProofs -------------------------
(***************************************************************************)
(* The service table in an orderly launch, for any number of processes,    *)
(* services, clients and entries, with processes that die and come back.   *)
(*                                                                         *)
(* The invariant has four layers.  NameInv: who may rebuild the table, and *)
(* what the others may rely on while nobody does.  LockInv: who has the    *)
(* lock of an entry.  SlotInv: what the slots of an entry hold while a     *)
(* client decides.  EventInv: whose receive events there are.  The types,  *)
(* at the end, hold for any launch.                                        *)
(***************************************************************************)
EXTENDS ServiceTable, SequenceTheorems, WellFoundedInduction, TLAPS

(* One service.json without repeated names names the service of every      *)
(* process, a table of another configuration does not, and nobody creates  *)
(* beside a rebuild.                                                       *)
Orderly ==
  /\ Mode = {}
  /\ \A p, q \in Procs : Config[p] = Config[q]
  /\ \A p \in Procs : \A i, j \in 1 .. Len(Config[p]) : Config[p][i] = Config[p][j] => i = j
  /\ \A p \in Procs : \E i \in 1 .. Len(Config[p]) : Config[p][i] = ServiceOf[p]
  /\ \A p \in Procs, t \in Stale :
       t = Config[p] \/ \A i \in 1 .. Len(t) : t[i] # ServiceOf[p]

\* The id of p's service in a complete table.
Position(p) == CHOOSE i \in Ids : i < Len(Config[p]) /\ Config[p][i + 1] = ServiceOf[p]

Before == {"check", "full", "lookup"}
Placed == {"register", "lock", "created"} \cup InSection
Gone == {"out", "failed"}

\* The types that the other invariants need.
Typed ==
  /\ num \in 0 .. MaxServices
  /\ entries \in [Ids -> Entry]
  /\ events \in Seq(Event)
  /\ at \in [Procs -> Gone \cup Rebuilding \cup Before \cup Placed]
  /\ k \in [Procs -> Nat]
  /\ DOMAIN id = Procs /\ DOMAIN index = Procs /\ DOMAIN retried = Procs

\* The table has not been used yet.
Clean ==
  \A i \in Ids : entries[i].next = 0 /\ ~entries[i].busy
                 /\ \A j \in Slots : entries[i].slot[j] = NoProc

\* No entry has the name of p's service.
Foreign(p) == \A i \in Ids : i < num => entries[i].name # ServiceOf[p]

NameInv ==
  /\ \A p \in Procs : at[p] \in Placed => Ready(p) /\ id[p] = Position(p)
  /\ \A p \in Procs : at[p] \in Before =>
       index[p][ServiceOf[p]] = IF Ready(p) THEN Position(p) ELSE NoId
  /\ \A p \in Procs : (at[p] \in Before /\ ~Ready(p)) \/ at[p] \in Rebuilding =>
       \A q \in Procs : q # p => at[q] \in Gone
  /\ \A p \in Procs : at[p] = "fill" =>
       num = Len(Config[p]) /\ \A i \in Ids : i < k[p] => entries[i].name = Config[p][i + 1]
  /\ \A p \in Procs : Ready(p) \/ Foreign(p) \/ (\E q \in Procs : at[q] \in Rebuilding)
  /\ \A p \in Procs : ~Ready(p) \/ at[p] \in Rebuilding => Clean

LockInv ==
  /\ OneInSection
  /\ \A p \in Procs : at[p] \in InSection => entries[id[p]].busy
  /\ \A p \in Procs : at[p] \in InSection \cup {"lock"} => Role[p] = "client"
  /\ \A p \in Procs : at[p] = "register" => Role[p] = "server"

SlotInv ==
  /\ \A i \in Ids :
       /\ entries[i].next <= MaxClients
       /\ \A j \in Slots : entries[i].slot[j] # NoProc <=> j < entries[i].next
       /\ \A j, m \in Slots :
            entries[i].slot[j] = entries[i].slot[m] /\ entries[i].slot[j] # NoProc => j = m
  /\ \A p \in Procs : at[p] \in {"claim", "assign"} =>
       /\ k[p] = entries[id[p]].next /\ k[p] \in Slots
       /\ \A j \in Slots : entries[id[p]].slot[j] # p
  /\ \A p \in Procs : at[p] = "takeover" \/ (at[p] = "created" /\ Role[p] = "client") =>
       k[p] \in Slots /\ entries[id[p]].slot[k[p]] = p

\* A living owner of the event of a response channel.
Answered(e) ==
  LET p == e.owner
  IN  e.side = "rsp" /\ p # NoProc =>
        /\ at[p] = "assign" \/ (at[p] = "created" /\ Role[p] = "client")
        /\ e.service = ServiceOf[p] /\ e.slot = k[p]

EventInv ==
  /\ \A i \in DOMAIN events : Answered(events[i])
  /\ \A p \in Procs : at[p] = "register" => \A j \in Slots : j < k[p] => Owns(p, j, "req")
  /\ \A p \in Procs : at[p] = "created" /\ Role[p] = "server" => \A j \in Slots : Owns(p, j, "req")
  /\ \A p \in Procs : at[p] = "assign" \/ (at[p] = "created" /\ Role[p] = "client") =>
       Owns(p, k[p], "rsp")

IInv == Typed /\ NameInv /\ LockInv /\ SlotInv /\ EventInv
-----------------------------------------------------------------------------
(* The configuration.                                                      *)

LEMMA Positions ==
  ASSUME Orderly, NEW p \in Procs
  PROVE  /\ Len(Config[p]) \in Nat \ {0} /\ Len(Config[p]) <= MaxServices /\ MaxServices \in Nat
         /\ Position(p) \in Ids /\ Position(p) < Len(Config[p])
         /\ Config[p][Position(p) + 1] = ServiceOf[p]
         /\ \A i \in Ids : i < Len(Config[p]) /\ Config[p][i + 1] = ServiceOf[p] => i = Position(p)
<1>1. Config[p] \in Seq(Services) /\ Len(Config[p]) \in Nat /\ Len(Config[p]) <= MaxServices
      /\ MaxServices \in Nat
  BY ConstantsAssumption
<1>2. PICK n \in 1 .. Len(Config[p]) : Config[p][n] = ServiceOf[p]
  BY DEF Orderly
<1>3. n - 1 \in Ids /\ n - 1 < Len(Config[p]) /\ (n - 1) + 1 = n
  BY <1>1, <1>2 DEF Ids
<1>4. \E i \in Ids : i < Len(Config[p]) /\ Config[p][i + 1] = ServiceOf[p]
  BY <1>2, <1>3
<1>5. Position(p) \in Ids /\ Position(p) < Len(Config[p])
      /\ Config[p][Position(p) + 1] = ServiceOf[p]
  BY <1>4 DEF Position
<1>6. ASSUME NEW i \in Ids, i < Len(Config[p]), Config[p][i + 1] = ServiceOf[p]
      PROVE  i = Position(p)
  <2>1. i \in Nat /\ Position(p) \in Nat
    BY <1>1, <1>5 DEF Ids
  <2>2. i + 1 \in 1 .. Len(Config[p]) /\ Position(p) + 1 \in 1 .. Len(Config[p])
    BY <1>1, <1>5, <1>6, <2>1
  <2>3. i + 1 = Position(p) + 1
    BY <1>5, <1>6, <2>2 DEF Orderly
  <2> QED
    BY <2>1, <2>3
<1> QED
  BY <1>1, <1>2, <1>5, <1>6

LEMMA OneConfig == ASSUME Orderly, NEW p \in Procs, NEW q \in Procs PROVE Ready(p) <=> Ready(q)
  BY DEF Orderly, Ready

\* In a complete table p's service is at its position, and nowhere else.
LEMMA IndexOfReady ==
  ASSUME Orderly, Typed, NEW p \in Procs, Ready(p)
  PROVE  IndexOfTable[ServiceOf[p]] = Position(p) /\ Position(p) \in Ids /\ Position(p) # NoId
<1>1. ServiceOf[p] \in Services
  BY ConstantsAssumption
<1>2. Position(p) \in Ids /\ Position(p) \in Nat /\ Position(p) < num
  BY Positions DEF Ready, Ids
<1>3. entries[Position(p)].name = ServiceOf[p]
  BY <1>2, Positions DEF Ready
<1>4. Holding(ServiceOf[p]) = {Position(p)}
  <2>1. ASSUME NEW i \in Holding(ServiceOf[p]) PROVE i = Position(p)
    <3>1. i \in Ids /\ i < num /\ entries[i].name = ServiceOf[p]
      BY DEF Holding
    <3>2. Config[p][i + 1] = ServiceOf[p] /\ i < Len(Config[p])
      BY <3>1 DEF Ready
    <3> QED
      BY <3>1, <3>2, Positions
  <2>2. Position(p) \in Holding(ServiceOf[p])
    BY <1>2, <1>3 DEF Holding
  <2> QED
    BY <2>1, <2>2
<1>5. (CHOOSE i \in {Position(p)} : \A j \in {Position(p)} : j <= i) = Position(p)
  <2>1. \A j \in {Position(p)} : j <= Position(p)
    BY <1>2
  <2> QED
    BY <2>1
<1>6. IndexOfTable[ServiceOf[p]] = Position(p)
  BY <1>1, <1>4, <1>5 DEF IndexOfTable
<1>7. Position(p) # NoId
  BY <1>2 DEF NoId
<1> QED
  BY <1>2, <1>6, <1>7

LEMMA IndexOfForeign ==
  ASSUME NEW p \in Procs, Foreign(p) PROVE IndexOfTable[ServiceOf[p]] = NoId
<1>1. ServiceOf[p] \in Services
  BY ConstantsAssumption
<1>2. Holding(ServiceOf[p]) = {}
  BY DEF Foreign, Holding
<1> QED
  BY <1>1, <1>2 DEF IndexOfTable

(* Changes of an entry.                                                    *)

LEMMA EmptyTyped ==
  ASSUME NEW s \in Services \cup {NoService}
  PROVE  LET e == [EmptyEntry EXCEPT !.name = s]
         IN  /\ e \in Entry
             /\ e.name = s /\ e.busy = FALSE /\ e.next = 0
             /\ \A j \in Slots : e.slot[j] = NoProc
  BY DEF EmptyEntry, Entry

LEMMA BusyChange ==
  ASSUME Typed, NEW i \in Ids, NEW b \in BOOLEAN, entries' = [entries EXCEPT ![i].busy = b]
  PROVE  /\ entries' \in [Ids -> Entry]
         /\ \A j \in Ids \ {i} : entries'[j] = entries[j]
         /\ \A j \in Ids : /\ entries'[j].name = entries[j].name
                           /\ entries'[j].next = entries[j].next /\ entries'[j].slot = entries[j].slot
         /\ entries'[i].busy = b
<1> DEFINE e == [entries[i] EXCEPT !.busy = b]
<1>1. entries \in [Ids -> Entry] /\ entries[i] \in Entry
  BY DEF Typed
<1>2. /\ e \in Entry /\ e.name = entries[i].name /\ e.next = entries[i].next
      /\ e.slot = entries[i].slot /\ e.busy = b
  BY <1>1 DEF Entry
<1>3. entries' = [entries EXCEPT ![i] = e]
  OBVIOUS
<1> HIDE DEF e
<1> QED
  BY <1>1, <1>2, <1>3

LEMMA AssignChange ==
  ASSUME Typed, NEW p \in Procs, id[p] \in Ids, k[p] \in Slots, id[p] < num, Assign(p)
  PROVE  /\ entries' \in [Ids -> Entry]
         /\ \A m \in Ids \ {id[p]} : entries'[m] = entries[m]
         /\ entries'[id[p]].name = entries[id[p]].name /\ entries'[id[p]].next = entries[id[p]].next + 1
         /\ entries'[id[p]].busy = FALSE /\ entries'[id[p]].slot[k[p]] = p
         /\ \A m \in Slots \ {k[p]} : entries'[id[p]].slot[m] = entries[id[p]].slot[m]
<1> DEFINE e == [entries[id[p]] EXCEPT !.slot[k[p]] = p, !.next = entries[id[p]].next + 1, !.busy = FALSE]
<1>1. entries \in [Ids -> Entry] /\ entries[id[p]] \in Entry
  BY DEF Typed
<1>2. entries[id[p]].next + 1 \in Nat /\ entries[id[p]].slot \in [Slots -> Procs \cup {NoProc}]
      /\ [entries[id[p]].slot EXCEPT ![k[p]] = p] \in [Slots -> Procs \cup {NoProc}]
  BY <1>1 DEF Entry
<1>3. e.name = entries[id[p]].name /\ e.next = entries[id[p]].next + 1 /\ e.busy = FALSE
      /\ e.slot = [entries[id[p]].slot EXCEPT ![k[p]] = p] /\ e \in Entry
  BY <1>1, <1>2 DEF Entry
<1>4. entries' = [entries EXCEPT ![id[p]] = e]
  BY DEF Assign
<1> HIDE DEF e
<1> QED
  BY <1>1, <1>2, <1>3, <1>4
-----------------------------------------------------------------------------
(* Everything begins with an unused table.                                 *)

LEMMA ListingFacts ==
  ASSUME NEW t \in Seq(Services), Len(t) <= MaxServices
  PROVE  /\ Listing(t) \in [Ids -> Entry]
         /\ \A i \in Ids :
              /\ Listing(t)[i].name = IF i < Len(t) THEN t[i + 1] ELSE NoService
              /\ Listing(t)[i].busy = FALSE /\ Listing(t)[i].next = 0
              /\ \A j \in Slots : Listing(t)[i].slot[j] = NoProc
<1>1. Len(t) \in Nat /\ MaxServices \in Nat
  BY ConstantsAssumption
<1>2. ASSUME NEW i \in Ids
      PROVE  (IF i < Len(t) THEN t[i + 1] ELSE NoService) \in Services \cup {NoService}
  <2>1. CASE i < Len(t)
    <3>1. i + 1 \in 1 .. Len(t)
      BY <1>1, <2>1 DEF Ids
    <3>2. t[i + 1] \in Services
      BY <3>1, ElementOfSeq
    <3> QED
      BY <2>1, <3>2
  <2> QED
    BY <2>1
<1> DEFINE s(i) == IF i < Len(t) THEN t[i + 1] ELSE NoService
           e(i) == [EmptyEntry EXCEPT !.name = s(i)]
<1>3. Listing(t) = [i \in Ids |-> e(i)]
  BY DEF Listing
<1>4. ASSUME NEW i \in Ids
      PROVE  /\ e(i) \in Entry /\ e(i).name = s(i) /\ e(i).busy = FALSE /\ e(i).next = 0
             /\ \A j \in Slots : e(i).slot[j] = NoProc
  <2>1. s(i) \in Services \cup {NoService}
    BY <1>2
  <2> HIDE DEF s
  <2> QED
    BY <2>1 DEF EmptyEntry, Entry
<1> HIDE DEF e
<1>5. Listing(t) \in [Ids -> Entry] /\ \A i \in Ids : Listing(t)[i] = e(i)
  BY <1>3, <1>4
<1> QED
  BY <1>4, <1>5

LEMMA InitIInv == ASSUME Orderly, Init PROVE IInv
<1>0. \A p \in Procs : at[p] = "out"
  BY DEF Init
<1>1. PICK t \in Stale : num = Len(t) /\ entries = Listing(t)
  BY DEF Init
<1>2. t \in Seq(Services) /\ Len(t) \in Nat /\ Len(t) <= MaxServices /\ MaxServices \in Nat
      /\ MaxClients \in Nat
  BY ConstantsAssumption
<1>3. Typed
  <2>1. Listing(t) \in [Ids -> Entry]
    BY <1>2, ListingFacts
  <2>2. events \in Seq(Event)
    <3>1. <<>> \in Seq(Event)
      OBVIOUS
    <3> QED
      BY <3>1 DEF Init
  <2> QED
    BY <1>1, <1>2, <2>1, <2>2 DEF Init, Typed, Gone
<1>4. Clean
  BY <1>1, <1>2, ListingFacts DEF Clean
<1>5. ASSUME NEW p \in Procs PROVE Ready(p) \/ Foreign(p)
  <2>1. \A i \in Ids : i < Len(t) => entries[i].name = t[i + 1]
    BY <1>1, <1>2, ListingFacts
  <2>2. CASE t = Config[p]
    BY <1>1, <2>1, <2>2 DEF Ready
  <2>3. CASE \A i \in 1 .. Len(t) : t[i] # ServiceOf[p]
    <3>1. ASSUME NEW i \in Ids, i < Len(t) PROVE i + 1 \in 1 .. Len(t)
      BY <1>2, <3>1 DEF Ids
    <3> QED
      BY <1>1, <2>1, <2>3, <3>1 DEF Foreign
  <2> QED
    BY <2>2, <2>3 DEF Orderly
<1>6. NameInv
  BY <1>0, <1>4, <1>5 DEF NameInv, Before, Placed, InSection, Rebuilding
<1>7. LockInv /\ EventInv
  BY <1>0 DEF LockInv, EventInv, OneInSection, InSection, Init
<1>8. SlotInv
  <2>1. \A j \in Slots : j >= 0
    BY DEF Slots
  <2> QED
    BY <1>0, <1>2, <1>4, <2>1 DEF SlotInv, Clean, Slots
<1> QED
  BY <1>3, <1>6, <1>7, <1>8 DEF IInv
-----------------------------------------------------------------------------
(* Names: the way to the table.                                            *)

\* What stays when neither a name nor the count changes.
LEMMA SameNames ==
  ASSUME num' = num, \A i \in Ids : entries'[i].name = entries[i].name, NEW p \in Procs
  PROVE  (Ready(p)' <=> Ready(p)) /\ (Foreign(p)' <=> Foreign(p))
  BY DEF Ready, Foreign

\* A process that moves, with its index, in front of an unchanged table.
LEMMA BeginNames ==
  ASSUME Orderly, Typed, NameInv, NEW p \in Procs, Begin(p)
  PROVE  Typed' /\ NameInv'
<1>1. /\ at[p] = "out" /\ at' = [at EXCEPT ![p] = "check"]
      /\ index' = [index EXCEPT ![p] = IndexOfTable]
      /\ UNCHANGED <<num, entries, events, id, k, retried>>
      /\ \/ Ready(p) /\ \A q \in Procs : at[q] \notin Rebuilding
         \/ \A q \in Procs : at[q] \in Ended
  BY DEF Begin, Goto, tableVars, Orderly
<1>2. Typed'
  BY <1>1 DEF Typed, Before
<1>3. \A q \in Procs : at[q] \notin Rebuilding
  BY <1>1 DEF Ended, Rebuilding
<1>4. \A q \in Procs : (Ready(q)' <=> Ready(q)) /\ (Foreign(q)' <=> Foreign(q))
  BY <1>1, SameNames
<1>5. Ready(p) \/ Foreign(p)
  BY <1>3 DEF NameInv
<1>6. index'[p][ServiceOf[p]] = IF Ready(p) THEN Position(p) ELSE NoId
  BY <1>1, <1>5, IndexOfReady, IndexOfForeign DEF Typed
<1>7. ~Ready(p) => \A q \in Procs : q # p => at[q] \in Gone
  <2>1. ASSUME ~Ready(p), NEW q \in Procs PROVE at[q] \in Gone
    <3>1. at[q] # "created"
      BY <2>1, OneConfig DEF NameInv, Placed
    <3>2. at[q] \in Ended
      BY <1>1, <2>1
    <3> QED
      BY <3>1, <3>2 DEF Ended, Gone
  <2> QED
    BY <2>1
<1>8. \A q \in Procs \ {p} : at'[q] = at[q] /\ index'[q] = index[q]
  BY <1>1 DEF Typed
<1>9. at'[p] = "check"
  BY <1>1 DEF Typed
<1>10. ASSUME NEW q \in Procs, q # p, at[q] \in Before, ~Ready(q) PROVE FALSE
  <2>1. ~Ready(p)
    BY <1>10, OneConfig
  <2> QED
    BY <1>7, <1>10, <2>1 DEF Gone, Before
<1>11. Clean' <=> Clean
  BY <1>1 DEF Clean
<1> QED
  <2>1. \A q \in Procs : at'[q] \in Placed => Ready(q)' /\ id'[q] = Position(q)
    BY <1>1, <1>4, <1>8, <1>9 DEF NameInv, Placed, InSection
  <2>2. \A q \in Procs : at'[q] \in Before =>
          index'[q][ServiceOf[q]] = IF Ready(q)' THEN Position(q) ELSE NoId
    BY <1>4, <1>6, <1>8, <1>9 DEF NameInv
  <2>3. \A q \in Procs : (at'[q] \in Before /\ ~Ready(q)') \/ at'[q] \in Rebuilding =>
          \A r \in Procs : r # q => at'[r] \in Gone
    BY <1>3, <1>4, <1>7, <1>8, <1>9, <1>10 DEF Rebuilding
  <2>4. \A q \in Procs : at'[q] \notin Rebuilding
    BY <1>3, <1>8, <1>9 DEF Rebuilding
  <2>5. \A q \in Procs : Ready(q)' \/ Foreign(q)'
    BY <1>3, <1>4 DEF NameInv
  <2>6. \A q \in Procs : ~Ready(q)' => Clean'
    BY <1>4, <1>11 DEF NameInv
  <2> QED
    BY <1>2, <2>1, <2>2, <2>3, <2>4, <2>5, <2>6 DEF NameInv, Rebuilding
-----------------------------------------------------------------------------
\* A step of p that leaves the names of the table alone.
LEMMA NameStep ==
  ASSUME Orderly, NameInv, NEW p \in Procs,
         num' = num, \A i \in Ids : entries'[i].name = entries[i].name,
         \A q \in Procs \ {p} : at'[q] = at[q] /\ id'[q] = id[q] /\ index'[q] = index[q],
         at[p] \in Before \cup Placed,
         at'[p] \in Placed => Ready(p) /\ id'[p] = Position(p),
         at'[p] \in Before => at[p] \in Before /\ index'[p] = index[p],
         at'[p] \in Rebuilding => ~Ready(p) /\ at'[p] = "set",
         ~Ready(p) => entries' = entries
  PROVE  NameInv'
<1>1. \A q \in Procs : (Ready(q)' <=> Ready(q)) /\ (Foreign(q)' <=> Foreign(q))
  BY SameNames
<1>2. \A q \in Procs : Ready(q) <=> Ready(p)
  BY OneConfig
<1>3. at[p] \notin Gone /\ at[p] \notin Rebuilding
  BY DEF Before, Placed, InSection, Gone, Rebuilding
<1>4. \A q \in Procs : at[q] \notin Rebuilding
  BY <1>3 DEF NameInv
<1>5. ~Ready(p) => at[p] \in Before /\ \A q \in Procs : q # p => at[q] \in Gone
  BY DEF NameInv
<1>6. ~Ready(p) => Clean'
  BY DEF NameInv, Clean
<1>7. \A q \in Procs : at'[q] \in Placed => Ready(q)' /\ id'[q] = Position(q)
  BY <1>1 DEF NameInv
<1>8. \A q \in Procs : at'[q] \in Before =>
        index'[q][ServiceOf[q]] = IF Ready(q)' THEN Position(q) ELSE NoId
  BY <1>1 DEF NameInv
<1>9. ASSUME NEW q \in Procs, (at'[q] \in Before /\ ~Ready(q)') \/ at'[q] \in Rebuilding,
             NEW r \in Procs, r # q
      PROVE  at'[r] \in Gone
  <2>1. CASE q = p
    BY <1>1, <1>5, <1>9, <2>1
  <2>2. CASE q # p
    <3>1. ~Ready(p) /\ at[q] \in Before
      BY <1>1, <1>2, <1>4, <1>9, <2>2
    <3>2. at[q] \in Gone
      BY <1>5, <2>2, <3>1
    <3> QED
      BY <3>1, <3>2 DEF Gone, Before
  <2> QED
    BY <2>1, <2>2
<1>10. \A q \in Procs : at'[q] # "fill"
  BY <1>4 DEF Rebuilding
<1>11. \A q \in Procs : Ready(q)' \/ Foreign(q)'
  BY <1>1, <1>4 DEF NameInv
<1>12. \A q \in Procs : ~Ready(q)' \/ at'[q] \in Rebuilding => Clean'
  BY <1>1, <1>2, <1>4, <1>6
<1> QED
  BY <1>7, <1>8, <1>9, <1>10, <1>11, <1>12 DEF NameInv

LEMMA EventsTyped ==
  ASSUME Typed
  PROVE  /\ Len(events) \in Nat /\ DOMAIN events = 1 .. Len(events)
         /\ \A i \in DOMAIN events : events[i] \in Event
  BY ElementOfSeq, LenProperties DEF Typed

\* A step of p before it has found its service: who has found it is not disturbed.
LEMMA FrontRest ==
  ASSUME Typed, LockInv, SlotInv, EventInv, NEW p \in Procs,
         at[p] \in {"out"} \cup Before \cup Rebuilding,
         at'[p] \in {"failed", "register", "lock"} \cup Before \cup Rebuilding,
         at'[p] = "register" => Role[p] = "server" /\ k'[p] = 0,
         at'[p] = "lock" => Role[p] = "client",
         events' = events,
         \A q \in Procs \ {p} : at'[q] = at[q] /\ id'[q] = id[q] /\ k'[q] = k[q],
         \/ entries' = entries
         \/ Clean' /\ \A q \in Procs : q # p => at[q] \in Gone
  PROVE  LockInv' /\ SlotInv' /\ EventInv'
<1>1. at[p] \notin InSection \cup {"created", "register", "lock"}
      /\ at'[p] \notin InSection \cup {"created"}
  BY DEF InSection, Before, Rebuilding
<1>2. \A j \in Slots : j >= 0 /\ j \in Int
  BY DEF Slots
<1>3. LockInv'
  <2>1. OneInSection'
    BY <1>1 DEF LockInv, OneInSection
  <2>2. \A q \in Procs : at'[q] \in InSection => entries'[id'[q]].busy
    BY <1>1 DEF LockInv, Gone, InSection
  <2>3. \A q \in Procs : at'[q] \in InSection \cup {"lock"} => Role[q] = "client"
    BY <1>1 DEF LockInv
  <2>4. \A q \in Procs : at'[q] = "register" => Role[q] = "server"
    BY <1>1 DEF LockInv
  <2> QED
    BY <2>1, <2>2, <2>3, <2>4 DEF LockInv
<1>4. SlotInv'
  <2>1. CASE entries' = entries
    <3>1. \A q \in Procs \ {p} : at'[q] = at[q] /\ id'[q] = id[q] /\ k'[q] = k[q]
      OBVIOUS
    <3>2. \A q \in Procs : at'[q] \in {"claim", "assign", "takeover", "created"} => q # p
      BY <1>1 DEF InSection
    <3>3. \A q \in Procs : at'[q] \in {"claim", "assign"} =>
            /\ k'[q] = entries[id'[q]].next /\ k'[q] \in Slots
            /\ \A j \in Slots : entries[id'[q]].slot[j] # q
      BY <3>1, <3>2 DEF SlotInv
    <3>4. \A q \in Procs : at'[q] = "takeover" \/ (at'[q] = "created" /\ Role[q] = "client") =>
            k'[q] \in Slots /\ entries[id'[q]].slot[k'[q]] = q
      BY <3>1, <3>2 DEF SlotInv
    <3> QED
      BY <2>1, <3>3, <3>4 DEF SlotInv
  <2>2. CASE Clean' /\ \A q \in Procs : q # p => at[q] \in Gone
    <3>1. \A i \in Ids :
            /\ entries'[i].next <= MaxClients
            /\ \A j \in Slots : entries'[i].slot[j] # NoProc <=> j < entries'[i].next
            /\ \A j, m \in Slots :
                 entries'[i].slot[j] = entries'[i].slot[m] /\ entries'[i].slot[j] # NoProc => j = m
      BY <1>2, <2>2, ConstantsAssumption DEF Clean
    <3>2. \A q \in Procs : at'[q] \notin {"claim", "assign", "takeover", "created"}
      BY <1>1, <2>2 DEF Gone, InSection
    <3> QED
      BY <3>1, <3>2 DEF SlotInv
  <2> QED
    BY <2>1, <2>2
<1>5. EventInv'
  <2>1. \A q \in Procs, j \in Slots, s \in {"req", "rsp"} : Owns(q, j, s)' <=> Owns(q, j, s)
    BY DEF Owns
  <2>2. \A i \in DOMAIN events' : Answered(events[i])'
    <3>1. ASSUME NEW i \in DOMAIN events PROVE Answered(events[i])'
      <4>0. events[i] \in Event
        BY EventsTyped
      <4>1. Answered(events[i]) /\ events[i].owner \in Procs \cup {NoProc}
        BY <4>0 DEF EventInv, Event
      <4>2. CASE events[i].owner = p
        BY <1>1, <4>1, <4>2 DEF Answered, InSection
      <4>3. CASE events[i].owner # p
        BY <4>1, <4>3 DEF Answered
      <4> QED
        BY <4>2, <4>3
    <3> QED
      BY <3>1
  <2>3. \A q \in Procs : at'[q] = "register" => \A j \in Slots : j < k'[q] => Owns(q, j, "req")'
    <3>1. ASSUME NEW q \in Procs, at'[q] = "register", q = p PROVE \A j \in Slots : ~(j < k'[q])
      BY <1>2, <3>1
    <3> QED
      BY <2>1, <3>1 DEF EventInv
  <2>4. \A q \in Procs : at'[q] = "created" /\ Role[q] = "server" =>
          \A j \in Slots : Owns(q, j, "req")'
    BY <1>1, <2>1 DEF EventInv
  <2>5. \A q \in Procs : at'[q] = "assign" \/ (at'[q] = "created" /\ Role[q] = "client") =>
          Owns(q, k[q], "rsp")'
    <3>1. ASSUME NEW q \in Procs, at'[q] = "assign" \/ (at'[q] = "created" /\ Role[q] = "client")
          PROVE  Owns(q, k[q], "rsp")'
      <4>1. q # p /\ at'[q] = at[q] /\ k'[q] = k[q]
        BY <1>1, <3>1 DEF InSection
      <4>2. Owns(q, k[q], "rsp")
        BY <3>1, <4>1 DEF EventInv
      <4> QED
        BY <4>1, <4>2 DEF Owns
    <3> QED
      BY <3>1
  <2> QED
    BY <2>2, <2>3, <2>4, <2>5 DEF EventInv
<1> QED
  BY <1>3, <1>4, <1>5

LEMMA BeginStep == ASSUME Orderly, IInv, NEW p \in Procs, Begin(p) PROVE IInv'
<1>1. Typed' /\ NameInv'
  BY BeginNames DEF IInv
<1>2. /\ at[p] = "out" /\ at' = [at EXCEPT ![p] = "check"]
      /\ UNCHANGED <<num, entries, events, id, k>>
  BY DEF Begin, Goto, tableVars
<1>3. at'[p] = "check" /\ \A q \in Procs \ {p} : at'[q] = at[q] /\ id'[q] = id[q] /\ k'[q] = k[q]
  BY <1>2 DEF IInv, Typed
<1>4. LockInv' /\ SlotInv' /\ EventInv'
  BY <1>2, <1>3, FrontRest DEF IInv, Before
<1> QED
  BY <1>1, <1>4 DEF IInv

LEMMA CheckStep == ASSUME Orderly, IInv, NEW p \in Procs, Check(p) PROVE IInv'
<1>1. /\ at[p] = "check"
      /\ UNCHANGED <<num, entries, events, index, id, k, retried>>
      /\ \/ at' = [at EXCEPT ![p] = "set"] /\ (num # Len(Config[p]) \/ num = 0)
         \/ at' = [at EXCEPT ![p] = "full"]
         \/ at' = [at EXCEPT ![p] = "lookup"]
  BY DEF Check, Goto, tableVars
<1>2. Typed'
  BY <1>1 DEF IInv, Typed, Before, Rebuilding
<1>3. \A q \in Procs \ {p} : at'[q] = at[q] /\ id'[q] = id[q] /\ k'[q] = k[q] /\ index'[q] = index[q]
  BY <1>1 DEF IInv, Typed
<1>4. at'[p] \in {"full", "lookup"} \/ (at'[p] = "set" /\ ~Ready(p))
  BY <1>1, Positions DEF IInv, Typed, Ready
<1>5. NameInv'
  BY <1>1, <1>3, <1>4, NameStep DEF IInv, Before, Placed, InSection, Rebuilding
<1>6. LockInv' /\ SlotInv' /\ EventInv'
  BY <1>1, <1>3, <1>4, FrontRest DEF IInv, Before, Rebuilding
<1> QED
  BY <1>2, <1>5, <1>6 DEF IInv

LEMMA CheckFullStep == ASSUME Orderly, IInv, NEW p \in Procs, CheckFull(p) PROVE IInv'
<1>1. /\ at[p] = "full"
      /\ UNCHANGED <<num, entries, events, index, id, k, retried>>
      /\ at' = [at EXCEPT ![p] = "failed"] \/ at' = [at EXCEPT ![p] = "lookup"]
  BY DEF CheckFull, Goto, tableVars
<1>2. Typed'
  BY <1>1 DEF IInv, Typed, Before, Gone
<1>3. \A q \in Procs \ {p} : at'[q] = at[q] /\ id'[q] = id[q] /\ k'[q] = k[q] /\ index'[q] = index[q]
  BY <1>1 DEF IInv, Typed
<1>4. at'[p] \in {"failed", "lookup"}
  BY <1>1 DEF IInv, Typed
<1>5. NameInv'
  BY <1>1, <1>3, <1>4, NameStep DEF IInv, Before, Placed, InSection, Rebuilding
<1>6. LockInv' /\ SlotInv' /\ EventInv'
  BY <1>1, <1>3, <1>4, FrontRest DEF IInv, Before, Rebuilding
<1> QED
  BY <1>2, <1>5, <1>6 DEF IInv

LEMMA LookupStep == ASSUME Orderly, IInv, NEW p \in Procs, Lookup(p) PROVE IInv'
<1> DEFINE s   == ServiceOf[p]
           idx == IF index[p][s] # NoId THEN index[p] ELSE IndexOfTable
<1>1. /\ at[p] = "lookup" /\ UNCHANGED <<num, entries, events>>
      /\ index' = [index EXCEPT ![p] = idx]
      /\ id' = [id EXCEPT ![p] = idx[s]]
      /\ k' = [k EXCEPT ![p] = 0]
      /\ retried' = retried \/ retried' = [retried EXCEPT ![p] = TRUE]
      /\ \/ /\ idx[s] # NoId
            /\ \/ Role[p] = "server" /\ at' = [at EXCEPT ![p] = "register"]
               \/ Role[p] # "server" /\ at' = [at EXCEPT ![p] = "lock"]
         \/ idx[s] = NoId /\ at' = [at EXCEPT ![p] = "set"]
         \/ idx[s] = NoId /\ at' = [at EXCEPT ![p] = "failed"]
  BY DEF Lookup, Goto, tableVars
<1>2. idx[s] = IF Ready(p) THEN Position(p) ELSE NoId
  <2>1. index[p][s] = IF Ready(p) THEN Position(p) ELSE NoId
    BY <1>1 DEF IInv, NameInv, Before
  <2>2. CASE Ready(p)
    BY <2>1, <2>2, IndexOfReady DEF IInv
  <2>3. CASE ~Ready(p)
    <3>1. \A q \in Procs : at[q] \notin Rebuilding
      BY <1>1 DEF IInv, NameInv, Before, Rebuilding, Gone
    <3>2. Foreign(p)
      BY <2>3, <3>1 DEF IInv, NameInv
    <3> QED
      BY <2>1, <2>3, <3>2, IndexOfForeign
  <2> QED
    BY <2>2, <2>3
<1>3. Ready(p) => Position(p) # NoId
  BY IndexOfReady DEF IInv
<1> HIDE DEF s, idx
<1>4. Typed'
  BY <1>1 DEF IInv, Typed, Placed, Rebuilding, Gone
<1>5. \A q \in Procs \ {p} : at'[q] = at[q] /\ id'[q] = id[q] /\ k'[q] = k[q] /\ index'[q] = index[q]
  BY <1>1 DEF IInv, Typed
<1>6. id'[p] = idx[s] /\ k'[p] = 0
  BY <1>1 DEF IInv, Typed
<1>7. \/ at'[p] = "register" /\ Role[p] = "server" /\ Ready(p) /\ id'[p] = Position(p)
      \/ at'[p] = "lock" /\ Role[p] = "client" /\ Ready(p) /\ id'[p] = Position(p)
      \/ at'[p] = "set" /\ ~Ready(p)
      \/ at'[p] = "failed"
  <2>1. Role[p] \in {"server", "client"}
    BY ConstantsAssumption
  <2> QED
    BY <1>1, <1>2, <1>3, <1>6, <2>1 DEF IInv, Typed
<1>8. NameInv'
  BY <1>1, <1>5, <1>7, NameStep DEF IInv, Before, Placed, InSection, Rebuilding
<1>9. LockInv' /\ SlotInv' /\ EventInv'
  BY <1>1, <1>5, <1>6, <1>7, FrontRest DEF IInv, Before, Rebuilding
<1> QED
  BY <1>4, <1>8, <1>9 DEF IInv

(* The rebuild: everybody else is gone.                                    *)

LEMMA SetNumStep == ASSUME Orderly, IInv, NEW p \in Procs, SetNum(p) PROVE IInv'
<1>1. /\ at[p] = "set" /\ num' = Len(Config[p])
      /\ k' = [k EXCEPT ![p] = 0] /\ at' = [at EXCEPT ![p] = "fill"]
      /\ UNCHANGED <<entries, events, index, id, retried>>
  BY DEF SetNum, Goto
<1>2. Typed'
  BY <1>1, Positions DEF IInv, Typed, Rebuilding
<1>3. at'[p] = "fill" /\ k'[p] = 0
      /\ \A q \in Procs \ {p} : at'[q] = at[q] /\ id'[q] = id[q] /\ k'[q] = k[q]
  BY <1>1 DEF IInv, Typed
<1>4. Clean' /\ \A q \in Procs : q # p => at[q] \in Gone
  BY <1>1 DEF IInv, NameInv, Rebuilding, Clean
<1>5. \A i \in Ids : ~(i < 0)
  BY DEF Ids
<1>6. NameInv'
  BY <1>1, <1>3, <1>4, <1>5 DEF NameInv, Gone, Before, Placed, InSection, Rebuilding
<1>7. LockInv' /\ SlotInv' /\ EventInv'
  BY <1>1, <1>3, <1>4, FrontRest DEF IInv, Rebuilding
<1> QED
  BY <1>2, <1>6, <1>7 DEF IInv

LEMMA SetEntryStep == ASSUME Orderly, IInv, NEW p \in Procs, SetEntry(p) PROVE IInv'
<1> DEFINE e == [EmptyEntry EXCEPT !.name = Config[p][k[p] + 1]]
<1>1. /\ at[p] = "fill" /\ k[p] < Len(Config[p])
      /\ entries' = [entries EXCEPT ![k[p]] = e]
      /\ k' = [k EXCEPT ![p] = k[p] + 1]
      /\ UNCHANGED <<num, events, index, at, id, retried>>
  BY DEF SetEntry
<1>2. k[p] \in Nat /\ k[p] \in Ids /\ k[p] + 1 \in 1 .. Len(Config[p])
  BY <1>1, Positions DEF IInv, Typed, Ids
<1>3. Config[p][k[p] + 1] \in Services \cup {NoService}
  <2>1. Config[p] \in Seq(Services)
    BY ConstantsAssumption
  <2> QED
    BY <1>2, <2>1, ElementOfSeq
<1>4. e \in Entry /\ e.name = Config[p][k[p] + 1] /\ e.busy = FALSE /\ e.next = 0
      /\ \A j \in Slots : e.slot[j] = NoProc
  BY <1>3, EmptyTyped
<1> HIDE DEF e
<1>5. Typed'
  BY <1>1, <1>2, <1>4 DEF IInv, Typed
<1>6. entries'[k[p]] = e /\ \A i \in Ids \ {k[p]} : entries'[i] = entries[i]
  BY <1>1, <1>2 DEF IInv, Typed
<1>7. k'[p] = k[p] + 1 /\ at'[p] = at[p]
      /\ \A q \in Procs \ {p} : at'[q] = at[q] /\ id'[q] = id[q] /\ k'[q] = k[q]
  BY <1>1 DEF IInv, Typed
<1>8. Clean' /\ \A q \in Procs : q # p => at[q] \in Gone
  BY <1>1, <1>4, <1>6 DEF IInv, NameInv, Rebuilding, Clean
<1>9. num' = Len(Config[p]) /\ \A i \in Ids : i < k'[p] => entries'[i].name = Config[p][i + 1]
  <2>1. \A i \in Ids : i < k[p] + 1 => i = k[p] \/ i < k[p]
    BY <1>2 DEF Ids
  <2>2. num = Len(Config[p]) /\ \A i \in Ids : i < k[p] => entries[i].name = Config[p][i + 1]
    BY <1>1 DEF IInv, NameInv
  <2> QED
    BY <1>1, <1>4, <1>6, <1>7, <2>1, <2>2
<1>10. NameInv'
  BY <1>1, <1>7, <1>8, <1>9 DEF NameInv, Gone, Before, Placed, InSection, Rebuilding
<1>11. LockInv' /\ SlotInv' /\ EventInv'
  BY <1>1, <1>7, <1>8, FrontRest DEF IInv, Rebuilding
<1> QED
  BY <1>5, <1>10, <1>11 DEF IInv

LEMMA SetDoneStep == ASSUME Orderly, IInv, NEW p \in Procs, SetDone(p) PROVE IInv'
<1>1. /\ at[p] = "fill" /\ k[p] >= Len(Config[p])
      /\ index' = [index EXCEPT ![p] = IndexOfTable]
      /\ k' = [k EXCEPT ![p] = 0]
      /\ at' = [at EXCEPT ![p] = "full"] \/ at' = [at EXCEPT ![p] = "lookup"]
      /\ UNCHANGED <<num, entries, events, id, retried>>
  BY DEF SetDone, Goto, tableVars
<1>2. Typed'
  BY <1>1 DEF IInv, Typed, Before
<1>3. at'[p] \in {"full", "lookup"}
      /\ index'[p][ServiceOf[p]] = IndexOfTable[ServiceOf[p]]
      /\ \A q \in Procs \ {p} : at'[q] = at[q] /\ id'[q] = id[q] /\ k'[q] = k[q]
  BY <1>1 DEF IInv, Typed
<1>4. Ready(p)
  <2>1. \A i \in Ids : i < Len(Config[p]) => i < k[p]
    BY <1>1, Positions DEF IInv, Typed, Ids
  <2> QED
    BY <1>1, <2>1 DEF IInv, NameInv, Ready
<1>5. \A q \in Procs : Ready(q)'
  BY <1>1, <1>4, OneConfig, SameNames
<1>6. \A q \in Procs : q # p => at[q] \in Gone
  BY <1>1 DEF IInv, NameInv, Rebuilding
<1>7. index'[p][ServiceOf[p]] = Position(p)
  BY <1>3, <1>4, IndexOfReady DEF IInv
<1>8. NameInv'
  BY <1>3, <1>5, <1>6, <1>7 DEF NameInv, Gone, Before, Placed, InSection, Rebuilding
<1>9. LockInv' /\ SlotInv' /\ EventInv'
  BY <1>1, <1>3, FrontRest DEF IInv, Before, Rebuilding
<1> QED
  BY <1>2, <1>8, <1>9 DEF IInv
-----------------------------------------------------------------------------
(* The work on an entry.                                                   *)

LEMMA PlacedFacts ==
  ASSUME Orderly, IInv, NEW p \in Procs, at[p] \in Placed
  PROVE  Ready(p) /\ id[p] = Position(p) /\ id[p] \in Ids /\ id[p] < num
<1>1. Ready(p) /\ id[p] = Position(p)
  BY DEF IInv, NameInv
<1>2. Position(p) \in Ids /\ Position(p) < Len(Config[p]) /\ num = Len(Config[p])
  BY <1>1, Positions DEF Ready
<1> QED
  BY <1>1, <1>2

\* Two clients of one service that hold or take the same slot are one.
LEMMA OneChannel ==
  ASSUME Orderly, IInv, NEW p \in Procs, NEW q \in Procs,
         ServiceOf[p] = ServiceOf[q], k[p] = k[q],
         at[p] \in {"takeover", "assign"} \/ (at[p] = "created" /\ Role[p] = "client"),
         at[q] = "assign" \/ (at[q] = "created" /\ Role[q] = "client")
  PROVE  p = q
<1>1. id[p] = Position(p) /\ id[q] = Position(q) /\ id[q] \in Ids
  BY PlacedFacts DEF Placed, InSection
<1>2. Config[p] = Config[q]
  BY DEF Orderly
<1>3. id[p] = id[q]
  BY <1>1, <1>2 DEF Position
<1>4. CASE at[p] \in InSection /\ at[q] \in InSection
  BY <1>3, <1>4 DEF IInv, LockInv, OneInSection
<1>5. CASE at[p] # "assign" /\ at[q] = "created"
  <2>1. entries[id[p]].slot[k[p]] = p /\ entries[id[q]].slot[k[q]] = q
    BY <1>5 DEF IInv, SlotInv, InSection
  <2> QED
    BY <1>3, <2>1
<1>6. CASE at[p] = "assign" /\ at[q] = "created"
  <2>1. k[q] \in Slots /\ entries[id[q]].slot[k[q]] = q
    BY <1>6 DEF IInv, SlotInv
  <2>2. k[p] = entries[id[p]].next
    BY <1>6 DEF IInv, SlotInv
  <2>3. entries[id[q]].slot[k[q]] # NoProc
    BY <2>1, ConstantsAssumption
  <2>4. k[q] < entries[id[q]].next
    BY <1>1, <2>1, <2>3 DEF IInv, SlotInv
  <2>5. entries[id[q]].next \in Int
    BY <1>1 DEF IInv, Typed, Entry
  <2> QED
    BY <1>3, <2>2, <2>4, <2>5
<1>7. CASE at[p] = "created" /\ at[q] = "assign"
  <2>1. k[p] \in Slots /\ entries[id[p]].slot[k[p]] = p
    BY <1>7 DEF IInv, SlotInv
  <2>2. k[q] = entries[id[q]].next
    BY <1>7 DEF IInv, SlotInv
  <2>3. entries[id[p]].slot[k[p]] # NoProc
    BY <2>1, ConstantsAssumption
  <2>4. k[p] < entries[id[p]].next
    BY <1>1, <1>3, <2>1, <2>3 DEF IInv, SlotInv
  <2>5. entries[id[q]].next \in Int
    BY <1>1 DEF IInv, Typed, Entry
  <2> QED
    BY <1>3, <2>2, <2>4, <2>5
<1> QED
  BY <1>4, <1>5, <1>6, <1>7 DEF InSection

\* A new event takes nothing from anybody.
LEMMA AppendEvent ==
  ASSUME Typed, NEW p \in Procs, NEW j \in Slots, NEW side \in Sides,
         events' = Append(events, [owner |-> p, service |-> ServiceOf[p], slot |-> j, side |-> side])
  PROVE  /\ events' \in Seq(Event)
         /\ \A q \in Procs, m \in Slots, s \in Sides : Owns(q, m, s) => Owns(q, m, s)'
         /\ Owns(p, j, side)'
         /\ \A i \in DOMAIN events' :
              \/ i \in DOMAIN events /\ events'[i] = events[i]
              \/ events'[i] = [owner |-> p, service |-> ServiceOf[p], slot |-> j, side |-> side]
<1> DEFINE e == [owner |-> p, service |-> ServiceOf[p], slot |-> j, side |-> side]
<1>1. e \in Event /\ e.owner = p /\ e.service = ServiceOf[p] /\ e.slot = j /\ e.side = side
  BY ConstantsAssumption DEF Event
<1> HIDE DEF e
<1>2. events' = Append(events, e) /\ events \in Seq(Event)
  BY DEF e, Typed
<1>3. /\ events' \in Seq(Event) /\ Len(events) \in Nat /\ DOMAIN events = 1 .. Len(events)
      /\ Len(events') = Len(events) + 1 /\ DOMAIN events' = 1 .. Len(events) + 1
      /\ \A i \in 1 .. Len(events) : events'[i] = events[i]
      /\ events'[Len(events) + 1] = e
  <2>1. events' \in Seq(Event) /\ Len(events') = Len(events) + 1
        /\ \A i \in 1 .. Len(events) : events'[i] = events[i]
        /\ events'[Len(events) + 1] = e
    BY <1>1, <1>2, AppendProperties
  <2> QED
    BY <1>2, <2>1, LenProperties
<1>4. \A q \in Procs, m \in Slots, s \in Sides : Owns(q, m, s) => Owns(q, m, s)'
  BY <1>3 DEF Owns
<1>5. Owns(p, j, side)'
  <2>1. Len(events) + 1 \in DOMAIN events'
    BY <1>3
  <2> QED
    BY <1>1, <1>3, <2>1 DEF Owns
<1>6. \A i \in DOMAIN events' : (i \in DOMAIN events /\ events'[i] = events[i]) \/ events'[i] = e
  BY <1>3
<1> QED
  BY <1>3, <1>4, <1>5, <1>6 DEF e

\* A step of p under the lock, with the unlock at its end.
LEMMA LockMove ==
  ASSUME Orderly, IInv, NEW p \in Procs, at[p] \in InSection,
         at'[p] \in InSection \cup {"created", "failed"},
         id' = id, \A q \in Procs \ {p} : at'[q] = at[q],
         \A i \in Ids \ {id[p]} : entries'[i].busy = entries[i].busy,
         at'[p] \in InSection => entries'[id[p]].busy
  PROVE  LockInv'
<1>1. \A q \in Procs : at'[q] \in InSection => at[q] \in InSection
  OBVIOUS
<1>2. OneInSection'
  BY <1>1 DEF IInv, LockInv, OneInSection
<1>3. ASSUME NEW q \in Procs, at'[q] \in InSection PROVE entries'[id'[q]].busy
  <2>1. CASE q = p
    BY <1>3, <2>1
  <2>2. CASE q # p
    <3>1. at[q] \in InSection /\ id[q] \in Ids
      BY <1>1, <1>3, PlacedFacts DEF Placed
    <3>2. id[q] # id[p]
      BY <2>2, <3>1 DEF IInv, LockInv, OneInSection
    <3>3. entries[id[q]].busy
      BY <3>1 DEF IInv, LockInv
    <3> QED
      BY <3>1, <3>2, <3>3
  <2> QED
    BY <2>1, <2>2
<1>4. \A q \in Procs : at'[q] \in InSection \cup {"lock"} => Role[q] = "client"
  BY DEF IInv, LockInv, InSection
<1>5. \A q \in Procs : at'[q] = "register" => Role[q] = "server"
  BY DEF IInv, LockInv, InSection
<1> QED
  BY <1>2, <1>3, <1>4, <1>5 DEF LockInv

\* The events stay, and p neither had nor gets any.
LEMMA EventsKept ==
  ASSUME Typed, EventInv, NEW p \in Procs, events' = events,
         \A q \in Procs \ {p} : at'[q] = at[q] /\ k'[q] = k[q],
         at[p] \in {"lock", "search", "takeover", "claim"},
         at'[p] \in {"search", "takeover", "claim", "failed"}
  PROVE  EventInv'
<1>1. \A q \in Procs, j \in Slots, s \in {"req", "rsp"} : Owns(q, j, s)' <=> Owns(q, j, s)
  BY DEF Owns
<1>2. ASSUME NEW i \in DOMAIN events' PROVE Answered(events[i])'
  <2>1. events[i] \in Event /\ i \in DOMAIN events
    BY <1>2, EventsTyped
  <2>2. Answered(events[i]) /\ events[i].owner \in Procs \cup {NoProc}
    BY <2>1 DEF EventInv, Event
  <2>3. CASE events[i].owner = p
    BY <2>2, <2>3 DEF Answered
  <2>4. CASE events[i].owner # p
    BY <2>2, <2>4 DEF Answered
  <2> QED
    BY <2>3, <2>4
<1>3. \A q \in Procs : at'[q] = "register" => \A j \in Slots : j < k'[q] => Owns(q, j, "req")'
  BY <1>1 DEF EventInv
<1>4. \A q \in Procs : at'[q] = "created" /\ Role[q] = "server" =>
        \A j \in Slots : Owns(q, j, "req")'
  BY <1>1 DEF EventInv
<1>5. ASSUME NEW q \in Procs, at'[q] = "assign" \/ (at'[q] = "created" /\ Role[q] = "client")
      PROVE  Owns(q, k[q], "rsp")'
  <2>1. q # p /\ at'[q] = at[q] /\ k'[q] = k[q]
    BY <1>5
  <2>2. Owns(q, k[q], "rsp")
    BY <1>5, <2>1 DEF EventInv
  <2> QED
    BY <2>1, <2>2 DEF Owns
<1> QED
  BY <1>2, <1>3, <1>4, <1>5 DEF EventInv

\* Slots, when no entry gets or loses a client: p alone has to be looked at.
LEMMA SlotsKept ==
  ASSUME Orderly, IInv, NEW p \in Procs, id' = id,
         \A q \in Procs \ {p} : at'[q] = at[q] /\ k'[q] = k[q],
         \A i \in Ids : entries'[i].next = entries[i].next /\ entries'[i].slot = entries[i].slot,
         at[p] \in Placed,
         at'[p] \in {"claim", "assign"} =>
           /\ k'[p] = entries[id[p]].next /\ k'[p] \in Slots
           /\ \A j \in Slots : entries[id[p]].slot[j] # p,
         at'[p] = "takeover" \/ (at'[p] = "created" /\ Role[p] = "client") =>
           k'[p] \in Slots /\ entries[id[p]].slot[k'[p]] = p
  PROVE  SlotInv'
<1>1. \A i \in Ids :
        /\ entries'[i].next <= MaxClients
        /\ \A j \in Slots : entries'[i].slot[j] # NoProc <=> j < entries'[i].next
        /\ \A j, m \in Slots :
             entries'[i].slot[j] = entries'[i].slot[m] /\ entries'[i].slot[j] # NoProc => j = m
  BY DEF IInv, SlotInv
<1>2. ASSUME NEW q \in Procs, at'[q] \in {"claim", "assign"}
      PROVE  /\ k'[q] = entries'[id'[q]].next /\ k'[q] \in Slots
             /\ \A j \in Slots : entries'[id'[q]].slot[j] # q
  <2>1. CASE q = p
    <3>1. id[p] \in Ids
      BY PlacedFacts
    <3> QED
      BY <1>2, <2>1, <3>1
  <2>2. CASE q # p
    <3>1. at[q] \in {"claim", "assign"} /\ k'[q] = k[q]
      BY <1>2, <2>2
    <3>2. id[q] \in Ids
      BY <3>1, PlacedFacts DEF Placed, InSection
    <3> QED
      BY <3>1, <3>2 DEF IInv, SlotInv
  <2> QED
    BY <2>1, <2>2
<1>3. ASSUME NEW q \in Procs, at'[q] = "takeover" \/ (at'[q] = "created" /\ Role[q] = "client")
      PROVE  k'[q] \in Slots /\ entries'[id'[q]].slot[k'[q]] = q
  <2>1. CASE q = p
    <3>1. id[p] \in Ids
      BY PlacedFacts
    <3> QED
      BY <1>3, <2>1, <3>1
  <2>2. CASE q # p
    <3>1. at'[q] = at[q] /\ k'[q] = k[q]
      BY <2>2
    <3>2. id[q] \in Ids
      BY <1>3, <3>1, PlacedFacts DEF Placed, InSection
    <3> QED
      BY <1>3, <3>1, <3>2 DEF IInv, SlotInv
  <2> QED
    BY <2>1, <2>2
<1> QED
  BY <1>1, <1>2, <1>3 DEF SlotInv

LEMMA RegisterStep == ASSUME Orderly, IInv, NEW p \in Procs, Register(p) PROVE IInv'
<1>1. at[p] = "register" /\ UNCHANGED <<num, entries, index, id, retried>>
  BY DEF Register
<1>2. Role[p] = "server" /\ k[p] \in Nat /\ Ready(p) /\ id[p] = Position(p)
  BY <1>1, PlacedFacts DEF IInv, LockInv, Typed, Placed
<1>3. \/ /\ k[p] >= MaxClients /\ at' = [at EXCEPT ![p] = "created"]
         /\ events' = events /\ k' = k
      \/ /\ at' = [at EXCEPT ![p] = "failed"]
         /\ events' = events /\ k' = k
      \/ /\ k[p] < MaxClients /\ at' = at /\ k' = [k EXCEPT ![p] = k[p] + 1]
         /\ events' = Append(events, [owner |-> p, service |-> ServiceOf[p],
                                      slot |-> k[p], side |-> "req"])
  BY DEF Register, Goto, NewEvent
<1>4. at'[p] \in {"created", "failed", "register"}
      /\ \A q \in Procs \ {p} : at'[q] = at[q] /\ k'[q] = k[q] /\ id'[q] = id[q] /\ index'[q] = index[q]
  BY <1>1, <1>3 DEF IInv, Typed
<1>5. events' # events => k[p] \in Slots
  BY <1>2, <1>3, ConstantsAssumption DEF Slots
<1>6. events' \in Seq(Event)
      /\ \A q \in Procs, m \in Slots, s \in Sides : Owns(q, m, s) => Owns(q, m, s)'
  <2>1. CASE events' = events
    BY <2>1 DEF IInv, Typed, Owns
  <2>2. CASE events' # events
    BY <1>3, <1>5, <2>2, AppendEvent DEF IInv, Sides
  <2> QED
    BY <2>1, <2>2
<1>7. Typed'
  <2>1. k' \in [Procs -> Nat]
    BY <1>2, <1>3 DEF IInv, Typed
  <2>2. at' \in [Procs -> Gone \cup Rebuilding \cup Before \cup Placed]
    BY <1>3 DEF IInv, Typed, Gone, Placed
  <2> QED
    BY <1>1, <1>6, <2>1, <2>2 DEF IInv, Typed
<1>8. NameInv'
  BY <1>1, <1>2, <1>4, NameStep DEF IInv, Before, Placed, InSection, Rebuilding
<1>9. LockInv'
  BY <1>1, <1>2, <1>4 DEF IInv, LockInv, OneInSection, InSection
<1>10. SlotInv'
  BY <1>1, <1>2, <1>4, SlotsKept DEF IInv, Placed
<1>11. EventInv'
  <2>1. ASSUME NEW i \in DOMAIN events' PROVE Answered(events[i])'
    <3>1. ASSUME i \in DOMAIN events, events'[i] = events[i] PROVE Answered(events[i])'
      <4>1. events[i] \in Event
        BY <3>1, EventsTyped DEF IInv
      <4>2. Answered(events[i]) /\ events[i].owner \in Procs \cup {NoProc}
        BY <3>1, <4>1 DEF IInv, EventInv, Event
      <4>3. CASE events[i].owner = p
        BY <1>1, <3>1, <4>2, <4>3 DEF Answered
      <4>4. CASE events[i].owner # p
        BY <1>4, <3>1, <4>2, <4>4 DEF Answered
      <4> QED
        BY <4>3, <4>4
    <3>2. ASSUME events'[i].side = "req" PROVE Answered(events[i])'
      BY <3>2 DEF Answered
    <3>3. CASE events' = events
      BY <2>1, <3>1, <3>3
    <3>4. CASE events' # events
      <4>1. \/ i \in DOMAIN events /\ events'[i] = events[i]
            \/ events'[i] = [owner |-> p, service |-> ServiceOf[p], slot |-> k[p], side |-> "req"]
        BY <1>3, <1>5, <2>1, <3>4, AppendEvent DEF IInv, Sides
      <4> QED
        BY <3>1, <3>2, <4>1
    <3> QED
      BY <3>3, <3>4
  <2>2. \A j \in Slots : j < k'[p] \/ k[p] >= MaxClients => Owns(p, j, "req")' \/ at'[p] = "failed"
    <3>1. \A j \in Slots : j < k[p] => Owns(p, j, "req")'
      BY <1>1, <1>6 DEF IInv, EventInv, Sides
    <3>2. CASE events' = events
      <4>1. k' = k
        BY <1>3, <1>5, <3>2
      <4>2. \A j \in Slots : k[p] >= MaxClients => j < k[p]
        BY <1>2, ConstantsAssumption DEF Slots
      <4> QED
        BY <3>1, <4>1, <4>2
    <3>3. CASE events' # events
      <4>1. k'[p] = k[p] + 1 /\ k[p] < MaxClients
        BY <1>2, <1>3, <3>3 DEF IInv, Typed
      <4>2. \A j \in Slots : j < k[p] + 1 => j < k[p] \/ j = k[p]
        BY <1>2 DEF Slots
      <4>3. \A j \in Slots : j = k[p] => Owns(p, j, "req")'
        BY <1>3, <1>5, <3>3, AppendEvent DEF IInv, Sides
      <4>4. ~(k[p] >= MaxClients)
        BY <1>2, <4>1, ConstantsAssumption
      <4> QED
        BY <3>1, <4>1, <4>2, <4>3, <4>4
    <3> QED
      BY <3>2, <3>3
  <2>3. \A q \in Procs : at'[q] = "register" => \A j \in Slots : j < k'[q] => Owns(q, j, "req")'
    BY <1>4, <1>6, <2>2 DEF IInv, EventInv, Sides
  <2>4. \A q \in Procs : at'[q] = "created" /\ Role[q] = "server" =>
          \A j \in Slots : Owns(q, j, "req")'
    <3>1. at'[p] = "created" => k[p] >= MaxClients
      BY <1>1, <1>3 DEF IInv, Typed
    <3> QED
      BY <1>4, <1>6, <2>2, <3>1 DEF IInv, EventInv, Sides
  <2>5. ASSUME NEW q \in Procs, at'[q] = "assign" \/ (at'[q] = "created" /\ Role[q] = "client")
        PROVE  Owns(q, k[q], "rsp")'
    <3>1. q # p /\ at'[q] = at[q] /\ k'[q] = k[q]
      BY <1>2, <1>4, <2>5
    <3>2. Owns(q, k[q], "rsp") /\ k[q] \in Slots
      BY <2>5, <3>1 DEF IInv, EventInv, SlotInv
    <3> QED
      BY <1>6, <3>1, <3>2 DEF Sides, Owns
  <2> QED
    BY <2>1, <2>3, <2>4, <2>5 DEF EventInv
<1> QED
  BY <1>7, <1>8, <1>9, <1>10, <1>11 DEF IInv

LEMMA LockStep == ASSUME Orderly, IInv, NEW p \in Procs, Lock(p) PROVE IInv'
<1>1. at[p] = "lock" /\ at' = [at EXCEPT ![p] = "search"]
      /\ UNCHANGED <<num, events, index, id, k, retried>>
  BY DEF Lock, Goto
<1>2. Ready(p) /\ id[p] = Position(p) /\ id[p] \in Ids /\ id[p] < num
  BY <1>1, PlacedFacts DEF Placed
<1>3. ~entries[id[p]].busy /\ entries' = [entries EXCEPT ![id[p]].busy = TRUE]
  <2>1. num \in Int /\ id[p] \in Int
    BY <1>2 DEF IInv, Typed, Ids
  <2> QED
    BY <1>2, <2>1 DEF Lock
<1>4. /\ entries' \in [Ids -> Entry]
      /\ \A i \in Ids \ {id[p]} : entries'[i] = entries[i]
      /\ \A i \in Ids : /\ entries'[i].name = entries[i].name
                        /\ entries'[i].next = entries[i].next /\ entries'[i].slot = entries[i].slot
      /\ entries'[id[p]].busy = TRUE
  BY <1>2, <1>3, BusyChange DEF IInv, Typed
<1>5. Typed'
  BY <1>1, <1>4 DEF IInv, Typed, Placed, InSection
<1>6. at'[p] = "search"
      /\ \A q \in Procs \ {p} : at'[q] = at[q] /\ k'[q] = k[q] /\ id'[q] = id[q] /\ index'[q] = index[q]
  BY <1>1 DEF IInv, Typed
<1>7. NameInv'
  BY <1>1, <1>2, <1>4, <1>6, NameStep DEF IInv, Before, Placed, InSection, Rebuilding
<1>8. LockInv'
  <2>1. ASSUME NEW q \in Procs, q # p, at'[q] \in InSection
        PROVE  id[q] # id[p] /\ entries'[id'[q]].busy
    <3>1. at[q] \in InSection /\ entries[id[q]].busy /\ id[q] \in Ids
      BY <1>6, <2>1, PlacedFacts DEF IInv, LockInv, Placed
    <3>2. id[q] # id[p]
      BY <1>3, <3>1
    <3> QED
      BY <1>1, <1>4, <3>1, <3>2
  <2>2. OneInSection'
    BY <1>1, <1>6, <2>1 DEF IInv, LockInv, OneInSection
  <2>3. \A q \in Procs : at'[q] \in InSection => entries'[id'[q]].busy
    BY <1>1, <1>4, <2>1
  <2>4. \A q \in Procs : at'[q] \in InSection \cup {"lock"} => Role[q] = "client"
    BY <1>1, <1>6 DEF IInv, LockInv
  <2>5. \A q \in Procs : at'[q] = "register" => Role[q] = "server"
    BY <1>6 DEF IInv, LockInv
  <2> QED
    BY <2>2, <2>3, <2>4, <2>5 DEF LockInv
<1>9. SlotInv'
  BY <1>1, <1>4, <1>6, SlotsKept DEF Placed
<1>10. EventInv'
  BY <1>1, <1>6, EventsKept DEF IInv
<1> QED
  BY <1>5, <1>7, <1>8, <1>9, <1>10 DEF IInv

\* The unlock of an entry of the table.
LEMMA ReleaseFacts ==
  ASSUME Orderly, IInv, NEW p \in Procs, at[p] \in InSection, entries' = Release(p) \/ entries' = entries
  PROVE  /\ entries' \in [Ids -> Entry]
         /\ \A i \in Ids \ {id[p]} : entries'[i] = entries[i]
         /\ \A i \in Ids : /\ entries'[i].name = entries[i].name
                           /\ entries'[i].next = entries[i].next /\ entries'[i].slot = entries[i].slot
         /\ Ready(p) /\ id[p] = Position(p) /\ id[p] \in Ids
         /\ entries' = entries => entries'[id[p]].busy
<1>1. Ready(p) /\ id[p] = Position(p) /\ id[p] \in Ids /\ id[p] < num
  BY PlacedFacts DEF Placed
<1>2. entries' = [entries EXCEPT ![id[p]].busy = FALSE] \/ entries' = entries
  BY <1>1 DEF Release
<1>3. CASE entries' = [entries EXCEPT ![id[p]].busy = FALSE]
  BY <1>1, <1>3, BusyChange DEF IInv, Typed, LockInv
<1>4. CASE entries' = entries
  BY <1>1, <1>4 DEF IInv, Typed, LockInv
<1> QED
  BY <1>2, <1>3, <1>4

LEMMA SearchStep == ASSUME Orderly, IInv, NEW p \in Procs, Search(p) PROVE IInv'
<1> DEFINE e == entries[id[p]]
           Mine == {j \in Slots : j < e.next /\ e.slot[j] = p}
<1>1. at[p] = "search" /\ UNCHANGED <<num, events, index, id, retried>>
  BY DEF Search
<1>2. at[p] \in InSection /\ at[p] \in Placed
  BY <1>1 DEF InSection, Placed
<1>3. \/ \E j \in Mine : k' = [k EXCEPT ![p] = j] /\ at' = [at EXCEPT ![p] = "takeover"]
                         /\ entries' = entries
      \/ entries' = Release(p) /\ at' = [at EXCEPT ![p] = "failed"] /\ k' = k
      \/ Mine = {} /\ e.next < MaxClients /\ k' = [k EXCEPT ![p] = e.next]
         /\ at' = [at EXCEPT ![p] = "claim"] /\ entries' = entries
  BY DEF Search, Goto
<1>4. /\ entries' \in [Ids -> Entry]
      /\ \A i \in Ids \ {id[p]} : entries'[i] = entries[i]
      /\ \A i \in Ids : /\ entries'[i].name = entries[i].name
                        /\ entries'[i].next = entries[i].next /\ entries'[i].slot = entries[i].slot
      /\ Ready(p) /\ id[p] = Position(p) /\ id[p] \in Ids
      /\ entries' = entries => entries'[id[p]].busy
  BY <1>2, <1>3, ReleaseFacts
<1>5. e.next \in Nat /\ \A j \in Slots : e.slot[j] # NoProc <=> j < e.next
  BY <1>4 DEF IInv, SlotInv, Typed, Entry
<1>6. \A q \in Procs \ {p} : at'[q] = at[q] /\ k'[q] = k[q] /\ id'[q] = id[q] /\ index'[q] = index[q]
  BY <1>1, <1>3 DEF IInv, Typed
<1>7. \/ at'[p] = "takeover" /\ k'[p] \in Slots /\ e.slot[k'[p]] = p /\ entries' = entries
      \/ at'[p] = "failed" /\ k' = k
      \/ at'[p] = "claim" /\ k'[p] = e.next /\ k'[p] \in Slots /\ entries' = entries
         /\ \A j \in Slots : e.slot[j] # p
  <2>1. p \in DOMAIN k /\ p \in DOMAIN at
    BY DEF IInv, Typed
  <2>2. CASE \E j \in Mine : k' = [k EXCEPT ![p] = j] /\ at' = [at EXCEPT ![p] = "takeover"]
                             /\ entries' = entries
    BY <2>1, <2>2
  <2>3. CASE entries' = Release(p) /\ at' = [at EXCEPT ![p] = "failed"] /\ k' = k
    BY <2>1, <2>3
  <2>4. CASE Mine = {} /\ e.next < MaxClients /\ k' = [k EXCEPT ![p] = e.next]
             /\ at' = [at EXCEPT ![p] = "claim"] /\ entries' = entries
    <3>1. \A j \in Slots : e.slot[j] # p
      <4>1. \A j \in Slots : j < e.next => e.slot[j] # p
        BY <2>4
      <4>2. \A j \in Slots : ~(j < e.next) => e.slot[j] = NoProc
        BY <1>5
      <4> QED
        BY <4>1, <4>2, ConstantsAssumption
    <3>2. e.next \in Slots
      BY <1>5, <2>4, ConstantsAssumption DEF Slots
    <3> QED
      BY <2>1, <2>4, <3>1, <3>2
  <2> QED
    BY <1>3, <2>2, <2>3, <2>4
<1>8. Typed'
  <2>1. k' \in [Procs -> Nat]
    BY <1>3, <1>5 DEF IInv, Typed, Slots
  <2>2. at' \in [Procs -> Gone \cup Rebuilding \cup Before \cup Placed]
    BY <1>3 DEF IInv, Typed, Gone, Placed, InSection
  <2> QED
    BY <1>1, <1>4, <2>1, <2>2 DEF IInv, Typed
<1> HIDE DEF Mine
<1>9. NameInv'
  BY <1>1, <1>2, <1>4, <1>6, <1>7, NameStep DEF IInv, Before, Placed, InSection, Rebuilding
<1>10. LockInv'
  BY <1>1, <1>2, <1>4, <1>6, <1>7, LockMove DEF InSection
<1>11. SlotInv'
  BY <1>1, <1>2, <1>4, <1>6, <1>7, SlotsKept
<1>12. EventInv'
  BY <1>1, <1>6, <1>7, EventsKept DEF IInv
<1> QED
  BY <1>8, <1>9, <1>10, <1>11, <1>12 DEF IInv

LEMMA TakeOverStep == ASSUME Orderly, IInv, NEW p \in Procs, TakeOver(p) PROVE IInv'
<1>1. at[p] = "takeover" /\ UNCHANGED <<num, index, id, k, retried>> /\ entries' = Release(p)
  BY DEF TakeOver
<1>2. at[p] \in InSection /\ at[p] \in Placed
  BY <1>1 DEF InSection, Placed
<1>3. \/ \E i \in OfChannel(p) : /\ events' = [events EXCEPT ![i].owner = p]
                                 /\ at' = [at EXCEPT ![p] = "created"]
      \/ at' = [at EXCEPT ![p] = "failed"] /\ events' = events
  BY DEF TakeOver, Goto
<1>4. /\ entries' \in [Ids -> Entry]
      /\ \A i \in Ids \ {id[p]} : entries'[i] = entries[i]
      /\ \A i \in Ids : /\ entries'[i].name = entries[i].name
                        /\ entries'[i].next = entries[i].next /\ entries'[i].slot = entries[i].slot
      /\ Ready(p) /\ id[p] = Position(p) /\ id[p] \in Ids
  BY <1>1, <1>2, ReleaseFacts
<1>5. at'[p] \in {"created", "failed"}
      /\ \A q \in Procs \ {p} : at'[q] = at[q] /\ k'[q] = k[q] /\ id'[q] = id[q] /\ index'[q] = index[q]
  BY <1>1, <1>3 DEF IInv, Typed
<1>6. Role[p] = "client" /\ k[p] \in Slots /\ entries[id[p]].slot[k[p]] = p
  BY <1>1, <1>2 DEF IInv, LockInv, SlotInv
<1>7. NameInv'
  BY <1>1, <1>2, <1>4, <1>5, NameStep DEF IInv, Before, Placed, InSection, Rebuilding
<1>8. LockInv'
  BY <1>1, <1>2, <1>4, <1>5, LockMove DEF InSection
<1>9. SlotInv'
  BY <1>1, <1>2, <1>4, <1>5, <1>6, SlotsKept
<1>10. at' \in [Procs -> Gone \cup Rebuilding \cup Before \cup Placed]
  BY <1>3 DEF IInv, Typed, Gone, Placed
<1>11. CASE at' = [at EXCEPT ![p] = "failed"] /\ events' = events
  <2>1. at'[p] = "failed"
    BY <1>11 DEF IInv, Typed
  <2>2. EventInv'
    BY <1>1, <1>5, <1>11, <2>1, EventsKept DEF IInv
  <2>3. Typed'
    BY <1>1, <1>4, <1>10, <1>11 DEF IInv, Typed
  <2> QED
    BY <1>7, <1>8, <1>9, <2>2, <2>3 DEF IInv
<1>12. CASE \E i \in OfChannel(p) : /\ events' = [events EXCEPT ![i].owner = p]
                                    /\ at' = [at EXCEPT ![p] = "created"]
  <2>1. PICK i \in OfChannel(p) : /\ events' = [events EXCEPT ![i].owner = p]
                                  /\ at' = [at EXCEPT ![p] = "created"]
    BY <1>12
  <2>2. i \in DOMAIN events /\ events[i].service = ServiceOf[p] /\ events[i].slot = k[p]
        /\ events[i].side = "rsp" /\ events[i] \in Event
    BY EventsTyped DEF IInv, OfChannel
  <2> DEFINE e == [events[i] EXCEPT !.owner = p]
  <2>3. e \in Event /\ e.owner = p /\ e.service = ServiceOf[p] /\ e.slot = k[p] /\ e.side = "rsp"
    BY <2>2 DEF Event
  <2>4. events' = [events EXCEPT ![i] = e]
    BY <2>1
  <2> HIDE DEF e
  <2>5. /\ events' \in Seq(Event) /\ DOMAIN events' = DOMAIN events /\ events'[i] = e
        /\ \A j \in DOMAIN events \ {i} : events'[j] = events[j]
    <3>1. events \in Seq(Event) /\ i \in 1 .. Len(events)
      BY <2>2, EventsTyped DEF IInv, Typed
    <3>2. events' \in Seq(Event)
      BY <2>3, <2>4, <3>1, ExceptSeq
    <3> QED
      BY <2>2, <2>4, <3>2
  <2>6. at'[p] = "created"
    BY <2>1 DEF IInv, Typed
  <2>7. Typed'
    BY <1>1, <1>4, <1>10, <2>5 DEF IInv, Typed
  <2>8. ASSUME NEW j \in DOMAIN events PROVE Answered(events[j])'
    <3>1. CASE j = i
      BY <1>1, <1>6, <2>3, <2>5, <2>6, <3>1 DEF Answered
    <3>2. CASE j # i
      <4>1. events'[j] = events[j] /\ events[j] \in Event /\ Answered(events[j])
        BY <2>5, <3>2, EventsTyped DEF IInv, EventInv
      <4>2. events[j].owner \in Procs \cup {NoProc}
        BY <4>1 DEF Event
      <4>3. CASE events[j].owner = p
        BY <1>1, <4>1, <4>3 DEF Answered
      <4>4. CASE events[j].owner # p
        BY <1>5, <4>1, <4>2, <4>4 DEF Answered
      <4> QED
        BY <4>3, <4>4
    <3> QED
      BY <3>1, <3>2
  <2>9. ASSUME NEW q \in Procs, NEW m, NEW s, Owns(q, m, s),
               s = "rsp" => at[q] = "assign" \/ (at[q] = "created" /\ Role[q] = "client"),
               s = "rsp" => m = k[q]
        PROVE  Owns(q, m, s)'
    <3>1. PICK j \in DOMAIN events : events[j].owner = q /\ events[j].service = ServiceOf[q]
                                     /\ events[j].slot = m /\ events[j].side = s
      BY <2>9 DEF Owns
    <3>2. j # i
      <4>1. SUFFICES ASSUME j = i PROVE FALSE
        OBVIOUS
      <4>2. s = "rsp" /\ ServiceOf[q] = ServiceOf[p] /\ k[q] = k[p]
        BY <2>2, <2>9, <3>1, <4>1
      <4>3. p = q
        BY <1>1, <2>9, <4>2, OneChannel
      <4> QED
        BY <1>1, <2>9, <4>2, <4>3
    <3> QED
      BY <2>5, <3>1, <3>2 DEF Owns
  <2>10. Owns(p, k[p], "rsp")'
    BY <1>1, <2>2, <2>3, <2>5 DEF Owns
  <2>11. \A q \in Procs : at'[q] = "register" => \A j \in Slots : j < k'[q] => Owns(q, j, "req")'
    BY <1>5, <2>9 DEF IInv, EventInv
  <2>12. \A q \in Procs : at'[q] = "created" /\ Role[q] = "server" =>
           \A j \in Slots : Owns(q, j, "req")'
    BY <1>5, <1>6, <2>9 DEF IInv, EventInv
  <2>13. ASSUME NEW q \in Procs, at'[q] = "assign" \/ (at'[q] = "created" /\ Role[q] = "client")
         PROVE  Owns(q, k[q], "rsp")'
    <3>1. CASE q = p
      BY <2>10, <3>1
    <3>2. CASE q # p
      <4>1. at'[q] = at[q] /\ k' = k
        BY <1>1, <1>5, <3>2
      <4>2. Owns(q, k[q], "rsp")
        BY <2>13, <4>1 DEF IInv, EventInv
      <4>3. \E m : m = k[q]
        OBVIOUS
      <4>4. PICK m : m = k[q]
        BY <4>3
      <4>5. Owns(q, m, "rsp")'
        BY <2>9, <2>13, <4>1, <4>2, <4>4
      <4> QED
        BY <4>1, <4>4, <4>5 DEF Owns
    <3> QED
      BY <3>1, <3>2
  <2>14. EventInv'
    BY <2>5, <2>8, <2>11, <2>12, <2>13 DEF EventInv
  <2> QED
    BY <1>7, <1>8, <1>9, <2>7, <2>14 DEF IInv
<1> QED
  BY <1>3, <1>11, <1>12

LEMMA ClaimStep == ASSUME Orderly, IInv, NEW p \in Procs, Claim(p) PROVE IInv'
<1>1. at[p] = "claim" /\ UNCHANGED <<num, index, id, k, retried>>
  BY DEF Claim
<1>2. at[p] \in InSection /\ at[p] \in Placed
  BY <1>1 DEF InSection, Placed
<1>3. \/ entries' = Release(p) /\ at' = [at EXCEPT ![p] = "failed"] /\ events' = events
      \/ /\ entries' = entries /\ at' = [at EXCEPT ![p] = "assign"]
         /\ events' = Append(events, [owner |-> p, service |-> ServiceOf[p],
                                      slot |-> k[p], side |-> "rsp"])
  BY DEF Claim, Goto, NewEvent
<1>4. /\ entries' \in [Ids -> Entry]
      /\ \A i \in Ids \ {id[p]} : entries'[i] = entries[i]
      /\ \A i \in Ids : /\ entries'[i].name = entries[i].name
                        /\ entries'[i].next = entries[i].next /\ entries'[i].slot = entries[i].slot
      /\ Ready(p) /\ id[p] = Position(p) /\ id[p] \in Ids
      /\ entries' = entries => entries'[id[p]].busy
  BY <1>2, <1>3, ReleaseFacts
<1>5. \A q \in Procs \ {p} : at'[q] = at[q] /\ k'[q] = k[q] /\ id'[q] = id[q] /\ index'[q] = index[q]
  BY <1>1, <1>3 DEF IInv, Typed
<1>6. /\ k[p] = entries[id[p]].next /\ k[p] \in Slots
      /\ \A j \in Slots : entries[id[p]].slot[j] # p
  BY <1>1 DEF IInv, SlotInv
<1>7. at'[p] = "failed" \/ (at'[p] = "assign" /\ entries' = entries)
  BY <1>3 DEF IInv, Typed
<1>8. NameInv'
  BY <1>1, <1>2, <1>4, <1>5, <1>7, NameStep DEF IInv, Before, Placed, InSection, Rebuilding
<1>9. LockInv'
  BY <1>1, <1>2, <1>4, <1>5, <1>7, LockMove DEF InSection
<1>10. SlotInv'
  BY <1>1, <1>2, <1>4, <1>5, <1>6, <1>7, SlotsKept
<1>11. at' \in [Procs -> Gone \cup Rebuilding \cup Before \cup Placed]
  BY <1>3 DEF IInv, Typed, Gone, Placed, InSection
<1>12. CASE entries' = Release(p) /\ at' = [at EXCEPT ![p] = "failed"] /\ events' = events
  <2>1. at'[p] = "failed"
    BY <1>12 DEF IInv, Typed
  <2>2. EventInv'
    BY <1>1, <1>5, <1>12, <2>1, EventsKept DEF IInv
  <2>3. Typed'
    BY <1>1, <1>4, <1>11, <1>12 DEF IInv, Typed
  <2> QED
    BY <1>8, <1>9, <1>10, <2>2, <2>3 DEF IInv
<1>13. CASE /\ entries' = entries /\ at' = [at EXCEPT ![p] = "assign"]
            /\ events' = Append(events, [owner |-> p, service |-> ServiceOf[p],
                                         slot |-> k[p], side |-> "rsp"])
  <2> DEFINE e == [owner |-> p, service |-> ServiceOf[p], slot |-> k[p], side |-> "rsp"]
  <2>1. /\ events' \in Seq(Event)
        /\ \A q \in Procs, m \in Slots, s \in Sides : Owns(q, m, s) => Owns(q, m, s)'
        /\ Owns(p, k[p], "rsp")'
        /\ \A i \in DOMAIN events' : (i \in DOMAIN events /\ events'[i] = events[i]) \/ events'[i] = e
    <3>1. \E j \in Slots : j = k[p]
      BY <1>6
    <3>2. PICK j \in Slots : j = k[p]
      BY <3>1
    <3>3. Owns(p, j, "rsp")'
      BY <1>13, <3>2, AppendEvent DEF IInv, Sides
    <3>4. Owns(p, k[p], "rsp")'
      BY <1>1, <3>2, <3>3 DEF Owns
    <3> QED
      BY <1>6, <1>13, <3>4, AppendEvent DEF IInv, Sides
  <2>2. Typed'
    BY <1>1, <1>4, <1>11, <2>1 DEF IInv, Typed
  <2>3. at'[p] = "assign"
    BY <1>13 DEF IInv, Typed
  <2>4. ASSUME NEW i \in DOMAIN events' PROVE Answered(events[i])'
    <3>1. CASE i \in DOMAIN events /\ events'[i] = events[i]
      <4>1. events[i] \in Event
        BY <3>1, EventsTyped DEF IInv
      <4>2. Answered(events[i]) /\ events[i].owner \in Procs \cup {NoProc}
        BY <3>1, <4>1 DEF IInv, EventInv, Event
      <4>3. CASE events[i].owner = p
        BY <1>1, <3>1, <4>2, <4>3 DEF Answered
      <4>4. CASE events[i].owner # p
        BY <1>5, <3>1, <4>2, <4>4 DEF Answered
      <4> QED
        BY <4>3, <4>4
    <3>2. CASE events'[i] = e
      BY <1>1, <2>3, <3>2 DEF Answered
    <3> QED
      BY <2>1, <2>4, <3>1, <3>2
  <2>5. \A q \in Procs : at'[q] = "register" => \A j \in Slots : j < k'[q] => Owns(q, j, "req")'
    BY <1>1, <1>5, <2>1, <2>3 DEF IInv, EventInv, Sides
  <2>6. \A q \in Procs : at'[q] = "created" /\ Role[q] = "server" =>
          \A j \in Slots : Owns(q, j, "req")'
    BY <1>5, <2>1, <2>3 DEF IInv, EventInv, Sides
  <2>7. ASSUME NEW q \in Procs, at'[q] = "assign" \/ (at'[q] = "created" /\ Role[q] = "client")
        PROVE  Owns(q, k[q], "rsp")'
    <3>1. CASE q = p
      BY <2>1, <3>1
    <3>2. CASE q # p
      <4>1. at'[q] = at[q] /\ k' = k
        BY <1>1, <1>5, <3>2
      <4>2. Owns(q, k[q], "rsp") /\ k[q] \in Slots
        BY <2>7, <4>1 DEF IInv, EventInv, SlotInv
      <4> QED
        BY <2>1, <4>1, <4>2 DEF Sides, Owns
    <3> QED
      BY <3>1, <3>2
  <2>8. EventInv'
    BY <2>4, <2>5, <2>6, <2>7 DEF EventInv
  <2> QED
    BY <1>8, <1>9, <1>10, <2>2, <2>8 DEF IInv
<1> QED
  BY <1>3, <1>12, <1>13

LEMMA AssignStep == ASSUME Orderly, IInv, NEW p \in Procs, Assign(p) PROVE IInv'
<1>1. at[p] = "assign" /\ at' = [at EXCEPT ![p] = "created"]
      /\ UNCHANGED <<num, events, index, id, k, retried>>
  BY DEF Assign, Goto
<1>2. at[p] \in InSection /\ at[p] \in Placed
  BY <1>1 DEF InSection, Placed
<1>3. Ready(p) /\ id[p] = Position(p) /\ id[p] \in Ids /\ id[p] < num
  BY <1>2, PlacedFacts
<1>4. /\ k[p] = entries[id[p]].next /\ k[p] \in Slots
      /\ \A j \in Slots : entries[id[p]].slot[j] # p
  BY <1>1 DEF IInv, SlotInv
<1>5. /\ entries' \in [Ids -> Entry]
      /\ \A i \in Ids \ {id[p]} : entries'[i] = entries[i]
      /\ entries'[id[p]].name = entries[id[p]].name /\ entries'[id[p]].next = entries[id[p]].next + 1
      /\ entries'[id[p]].busy = FALSE /\ entries'[id[p]].slot[k[p]] = p
      /\ \A m \in Slots \ {k[p]} : entries'[id[p]].slot[m] = entries[id[p]].slot[m]
  BY <1>3, <1>4, AssignChange DEF IInv
<1>6. at'[p] = "created" /\ Role[p] = "client"
      /\ \A q \in Procs \ {p} : at'[q] = at[q] /\ k'[q] = k[q] /\ id'[q] = id[q] /\ index'[q] = index[q]
  BY <1>1, <1>2 DEF IInv, Typed, LockInv
<1>7. Typed'
  BY <1>1, <1>5 DEF IInv, Typed, Placed
<1>8. NameInv'
  BY <1>1, <1>2, <1>3, <1>5, <1>6, NameStep DEF IInv, Before, Placed, InSection, Rebuilding
<1>9. LockInv'
  BY <1>1, <1>2, <1>5, <1>6, LockMove DEF InSection
<1>10. SlotInv'
  <2>1. entries[id[p]].next \in Nat /\ MaxClients \in Nat
        /\ entries[id[p]].next + 1 <= MaxClients
        /\ \A j \in Slots : j \in Int /\ (j < entries[id[p]].next + 1 <=> j < entries[id[p]].next \/ j = k[p])
    <3>1. entries[id[p]].next \in Nat /\ MaxClients \in Nat
      BY <1>3, ConstantsAssumption DEF IInv, Typed, Entry
    <3> QED
      BY <1>4, <3>1 DEF Slots
  <2>2. \A j \in Slots : entries[id[p]].slot[j] # NoProc <=> j < entries[id[p]].next
    BY <1>3 DEF IInv, SlotInv
  <2>3. ASSUME NEW i \in Ids
        PROVE  /\ entries'[i].next <= MaxClients
               /\ \A j \in Slots : entries'[i].slot[j] # NoProc <=> j < entries'[i].next
               /\ \A j, m \in Slots :
                    entries'[i].slot[j] = entries'[i].slot[m] /\ entries'[i].slot[j] # NoProc => j = m
    <3>1. CASE i # id[p]
      BY <1>5, <3>1 DEF IInv, SlotInv
    <3>2. CASE i = id[p]
      <4>1. \A j \in Slots : entries'[i].slot[j] # NoProc <=> j < entries'[i].next
        BY <1>5, <2>1, <2>2, <3>2, ConstantsAssumption
      <4>2. \A j, m \in Slots :
              entries'[i].slot[j] = entries'[i].slot[m] /\ entries'[i].slot[j] # NoProc => j = m
        BY <1>3, <1>4, <1>5, <3>2 DEF IInv, SlotInv
      <4> QED
        BY <1>5, <2>1, <3>2, <4>1, <4>2
    <3> QED
      BY <3>1, <3>2
  <2>4. ASSUME NEW q \in Procs, at'[q] \in {"claim", "assign"}
        PROVE  /\ k'[q] = entries'[id'[q]].next /\ k'[q] \in Slots
               /\ \A j \in Slots : entries'[id'[q]].slot[j] # q
    <3>1. q # p /\ at[q] \in InSection /\ at[q] \in {"claim", "assign"}
      BY <1>6, <2>4 DEF InSection
    <3>2. id[q] # id[p] /\ id[q] \in Ids
      BY <1>2, <3>1, PlacedFacts DEF IInv, LockInv, OneInSection, Placed
    <3> QED
      BY <1>1, <1>5, <3>1, <3>2 DEF IInv, SlotInv
  <2>5. ASSUME NEW q \in Procs, at'[q] = "takeover" \/ (at'[q] = "created" /\ Role[q] = "client")
        PROVE  k'[q] \in Slots /\ entries'[id'[q]].slot[k'[q]] = q
    <3>1. CASE q = p
      BY <1>1, <1>4, <1>5, <3>1
    <3>2. CASE q # p
      <4>1. at'[q] = at[q] /\ k'[q] = k[q] /\ k[q] \in Slots /\ entries[id[q]].slot[k[q]] = q
        BY <1>6, <2>5, <3>2 DEF IInv, SlotInv
      <4>2. id[q] \in Ids
        BY <2>5, <4>1, PlacedFacts DEF Placed, InSection
      <4>3. CASE id[q] # id[p]
        BY <1>1, <1>5, <4>1, <4>2, <4>3
      <4>4. CASE id[q] = id[p]
        <5>1. k[q] # k[p]
          BY <1>4, <2>1, <2>2, <4>1, <4>4, ConstantsAssumption
        <5> QED
          BY <1>1, <1>5, <4>1, <4>4, <5>1
      <4> QED
        BY <4>3, <4>4
    <3> QED
      BY <3>1, <3>2
  <2> QED
    BY <2>3, <2>4, <2>5 DEF SlotInv
<1>11. EventInv'
  <2>1. \A q \in Procs, j \in Slots, s \in Sides : Owns(q, j, s)' <=> Owns(q, j, s)
    BY <1>1 DEF Owns
  <2>2. ASSUME NEW i \in DOMAIN events' PROVE Answered(events[i])'
    <3>1. events[i] \in Event /\ events'[i] = events[i]
      BY <1>1, EventsTyped DEF IInv
    <3>2. Answered(events[i]) /\ events[i].owner \in Procs \cup {NoProc}
      BY <1>1, <3>1 DEF IInv, EventInv, Event
    <3>3. CASE events[i].owner = p
      BY <1>1, <1>6, <3>1, <3>2, <3>3 DEF Answered
    <3>4. CASE events[i].owner # p
      BY <1>1, <1>6, <3>1, <3>2, <3>4 DEF Answered
    <3> QED
      BY <3>3, <3>4
  <2>3. \A q \in Procs : at'[q] = "register" => \A j \in Slots : j < k'[q] => Owns(q, j, "req")'
    BY <1>1, <1>6, <2>1 DEF IInv, EventInv, Sides
  <2>4. \A q \in Procs : at'[q] = "created" /\ Role[q] = "server" =>
          \A j \in Slots : Owns(q, j, "req")'
    BY <1>6, <2>1 DEF IInv, EventInv, Sides
  <2>5. ASSUME NEW q \in Procs, at'[q] = "assign" \/ (at'[q] = "created" /\ Role[q] = "client")
        PROVE  Owns(q, k[q], "rsp")'
    <3>1. at[q] = "assign" \/ (at[q] = "created" /\ Role[q] = "client")
      BY <1>1, <1>6, <2>5
    <3>2. Owns(q, k[q], "rsp")
      BY <3>1 DEF IInv, EventInv
    <3> QED
      BY <1>1, <3>2 DEF Owns
  <2> QED
    BY <2>2, <2>3, <2>4, <2>5 DEF EventInv
<1> QED
  BY <1>7, <1>8, <1>9, <1>10, <1>11 DEF IInv

(* The end of a process and of a session.                                  *)

LEMMA DieStep == ASSUME Orderly, IInv, NEW p \in Procs, Die(p) PROVE IInv'
<1>1. at[p] \notin Rebuilding /\ at' = [at EXCEPT ![p] = "out"] /\ UNCHANGED <<num, entries>>
      /\ id' = [id EXCEPT ![p] = NoId] /\ k' = [k EXCEPT ![p] = 0]
      /\ index' = [index EXCEPT ![p] = [s \in Services |-> NoId]]
      /\ retried' = [retried EXCEPT ![p] = FALSE]
  BY DEF Die, Goto, Orderly
<1>2. DOMAIN events' = DOMAIN events
      /\ \A i \in DOMAIN events :
           events'[i] = [events[i] EXCEPT !.owner = IF events[i].owner = p THEN NoProc ELSE events[i].owner]
  BY DEF Die
<1>3. \A i \in DOMAIN events :
        /\ events'[i] \in Event
        /\ events'[i].owner = IF events[i].owner = p THEN NoProc ELSE events[i].owner
        /\ events'[i].service = events[i].service /\ events'[i].slot = events[i].slot
        /\ events'[i].side = events[i].side
  <2>1. ASSUME NEW i \in DOMAIN events
        PROVE  /\ events'[i] \in Event
               /\ events'[i].owner = IF events[i].owner = p THEN NoProc ELSE events[i].owner
               /\ events'[i].service = events[i].service /\ events'[i].slot = events[i].slot
               /\ events'[i].side = events[i].side
    <3>1. events[i] \in Event
      BY <2>1, EventsTyped DEF IInv
    <3> DEFINE o == IF events[i].owner = p THEN NoProc ELSE events[i].owner
    <3>2. o \in Procs \cup {NoProc} /\ events'[i] = [events[i] EXCEPT !.owner = o]
      BY <1>2, <3>1 DEF Event
    <3> HIDE DEF o
    <3>3. events'[i] \in Event /\ events'[i].owner = o /\ events'[i].service = events[i].service
          /\ events'[i].slot = events[i].slot /\ events'[i].side = events[i].side
      BY <3>1, <3>2 DEF Event
    <3> QED
      BY <3>3 DEF o
  <2> QED
    BY <2>1
<1>4. events' \in Seq(Event)
  <2>1. Len(events) \in Nat /\ DOMAIN events = 1 .. Len(events)
    BY EventsTyped DEF IInv
  <2>2. events' = [i \in 1 .. Len(events) |-> events'[i]]
    BY <1>2, <2>1 DEF Die
  <2>3. \A i \in 1 .. Len(events) : events'[i] \in Event
    BY <1>3, <2>1
  <2> HIDE DEF IInv
  <2>4. events' \in [1 .. Len(events) -> Event]
    BY <2>2, <2>3
  <2> QED
    BY <2>1, <2>4, SeqDef
<1>5. at'[p] = "out"
      /\ \A q \in Procs \ {p} : at'[q] = at[q] /\ k'[q] = k[q] /\ id'[q] = id[q] /\ index'[q] = index[q]
  BY <1>1 DEF IInv, Typed
<1>6. Typed'
  <2>1. at' \in [Procs -> Gone \cup Rebuilding \cup Before \cup Placed]
    BY <1>1 DEF IInv, Typed, Gone
  <2> QED
    BY <1>1, <1>4, <2>1 DEF IInv, Typed
<1>7. NameInv'
  <2>1. \A q \in Procs : (Ready(q)' <=> Ready(q)) /\ (Foreign(q)' <=> Foreign(q))
    BY <1>1, SameNames
  <2>2. \A q \in Procs : at'[q] \in Placed => Ready(q)' /\ id'[q] = Position(q)
    BY <1>5, <2>1 DEF IInv, NameInv, Placed, InSection
  <2>3. \A q \in Procs : at'[q] \in Before =>
          index'[q][ServiceOf[q]] = IF Ready(q)' THEN Position(q) ELSE NoId
    BY <1>5, <2>1 DEF IInv, NameInv, Before
  <2>4. \A q \in Procs : (at'[q] \in Before /\ ~Ready(q)') \/ at'[q] \in Rebuilding =>
          \A r \in Procs : r # q => at'[r] \in Gone
    BY <1>5, <2>1 DEF IInv, NameInv, Before, Rebuilding, Gone
  <2>5. \A q \in Procs : at'[q] = "fill" =>
          num' = Len(Config[q]) /\ \A i \in Ids : i < k'[q] => entries'[i].name = Config[q][i + 1]
    BY <1>1, <1>5 DEF IInv, NameInv
  <2>6. \A q \in Procs : Ready(q)' \/ Foreign(q)' \/ (\E r \in Procs : at'[r] \in Rebuilding)
    BY <1>1, <1>5, <2>1 DEF IInv, NameInv
  <2>7. \A q \in Procs : ~Ready(q)' \/ at'[q] \in Rebuilding => Clean'
    BY <1>1, <1>5, <2>1 DEF IInv, NameInv, Clean, Rebuilding
  <2> QED
    BY <2>2, <2>3, <2>4, <2>5, <2>6, <2>7 DEF NameInv
<1>8. LockInv'
  BY <1>1, <1>5 DEF IInv, LockInv, OneInSection, InSection
<1>9. SlotInv'
  BY <1>1, <1>5 DEF IInv, SlotInv
<1>10. EventInv'
  <2>1. ASSUME NEW q \in Procs, q # p, NEW j, NEW s, Owns(q, j, s) PROVE Owns(q, j, s)'
    <3>1. PICK i \in DOMAIN events : events[i].owner = q /\ events[i].service = ServiceOf[q]
                                     /\ events[i].slot = j /\ events[i].side = s
      BY <2>1 DEF Owns
    <3>2. i \in DOMAIN events' /\ events'[i].owner = q /\ events'[i].service = ServiceOf[q]
          /\ events'[i].slot = j /\ events'[i].side = s
      BY <1>2, <1>3, <2>1, <3>1
    <3> QED
      BY <3>2 DEF Owns
  <2>2. ASSUME NEW i \in DOMAIN events' PROVE Answered(events[i])'
    <3>1. events[i] \in Event /\ i \in DOMAIN events
      BY <1>2, EventsTyped DEF IInv
    <3>2. Answered(events[i]) /\ events[i].owner \in Procs \cup {NoProc}
      BY <3>1 DEF IInv, EventInv, Event
    <3>3. CASE events[i].owner = p
      BY <1>3, <3>1, <3>3 DEF Answered
    <3>4. CASE events[i].owner # p
      BY <1>3, <1>5, <3>1, <3>2, <3>4 DEF Answered
    <3> QED
      BY <3>3, <3>4
  <2>3. \A q \in Procs : at'[q] = "register" => \A j \in Slots : j < k'[q] => Owns(q, j, "req")'
    BY <1>5, <2>1 DEF IInv, EventInv
  <2>4. \A q \in Procs : at'[q] = "created" /\ Role[q] = "server" =>
          \A j \in Slots : Owns(q, j, "req")'
    BY <1>5, <2>1 DEF IInv, EventInv
  <2>5. ASSUME NEW q \in Procs, at'[q] = "assign" \/ (at'[q] = "created" /\ Role[q] = "client")
        PROVE  Owns(q, k[q], "rsp")'
    <3>1. q # p /\ at'[q] = at[q] /\ k'[q] = k[q]
      BY <1>5, <2>5
    <3>2. Owns(q, k[q], "rsp")
      BY <2>5, <3>1 DEF IInv, EventInv
    <3>3. PICK m : m = k[q]
      OBVIOUS
    <3>4. Owns(q, m, "rsp")'
      BY <2>1, <3>1, <3>2, <3>3
    <3> QED
      BY <3>1, <3>3, <3>4 DEF Owns
  <2> QED
    BY <2>2, <2>3, <2>4, <2>5 DEF EventInv
<1> QED
  BY <1>6, <1>7, <1>8, <1>9, <1>10 DEF IInv

LEMMA NewSessionStep == ASSUME Orderly, IInv, NewSession PROVE IInv' /\ Clean'
<1>1. (\A p \in Procs : at[p] = "out") /\ num' = 0 /\ entries' = [i \in Ids |-> EmptyEntry]
      /\ events' = <<>> /\ UNCHANGED <<index, at, id, k, retried>>
  BY DEF NewSession, procVars
<1>2. EmptyEntry \in Entry /\ EmptyEntry.next = 0 /\ EmptyEntry.busy = FALSE
      /\ \A j \in Slots : EmptyEntry.slot[j] = NoProc
  BY DEF EmptyEntry, Entry
<1> HIDE DEF EmptyEntry
<1>3. MaxServices \in Nat /\ MaxClients \in Nat
  BY ConstantsAssumption
<1>4. Typed'
  <2>1. <<>> \in Seq(Event)
    OBVIOUS
  <2> QED
    BY <1>1, <1>2, <1>3, <2>1 DEF IInv, Typed
<1>5. Clean'
  BY <1>1, <1>2 DEF Clean
<1>6. \A p \in Procs : Foreign(p)'
  BY <1>1 DEF Foreign, Ids
<1>7. NameInv'
  BY <1>1, <1>5, <1>6 DEF NameInv, Before, Placed, InSection, Rebuilding
<1>8. LockInv' /\ EventInv'
  BY <1>1 DEF LockInv, EventInv, OneInSection, InSection
<1>9. SlotInv'
  <2>1. \A j \in Slots : j >= 0
    BY DEF Slots
  <2> QED
    BY <1>1, <1>3, <1>5, <2>1 DEF SlotInv, Clean, Slots
<1> QED
  BY <1>4, <1>5, <1>7, <1>8, <1>9 DEF IInv
-----------------------------------------------------------------------------
(* Every step, and what the invariant gives.                               *)

LEMMA NextIInv == ASSUME Orderly, IInv, [Next]_vars PROVE IInv'
<1>1. ASSUME NEW p \in Procs, Begin(p) \/ Step(p) \/ Die(p) PROVE IInv'
  BY <1>1, BeginStep, DieStep, CheckStep, SetNumStep, SetEntryStep, SetDoneStep, CheckFullStep,
     LookupStep, RegisterStep, LockStep, SearchStep, TakeOverStep, ClaimStep, AssignStep DEF Step
<1>2. CASE NewSession
  BY <1>2, NewSessionStep
<1>3. CASE UNCHANGED vars
  <2>1. UNCHANGED <<num, entries, events, index, at, id, k, retried>>
    BY <1>3 DEF vars, tableVars, procVars
  <2>2. Typed'
    BY <2>1 DEF IInv, Typed
  <2>3. NameInv'
    BY <2>1 DEF IInv, NameInv, Ready, Foreign, Clean
  <2>4. LockInv' /\ SlotInv'
    BY <2>1 DEF IInv, LockInv, OneInSection, SlotInv
  <2>5. EventInv'
    BY <2>1 DEF IInv, EventInv, Answered, Owns
  <2> QED
    BY <2>2, <2>3, <2>4, <2>5 DEF IInv
<1> QED
  BY <1>1, <1>2, <1>3 DEF Next

\* The invariant holds in an orderly launch.
THEOREM IInvCorrect == ASSUME Orderly PROVE Spec => []IInv
<1>1. Init => IInv
  BY InitIInv
<1>2. IInv /\ [Next]_vars => IInv'
  BY NextIInv
<1> QED
  BY <1>1, <1>2, PTL DEF Spec

(* Only one process decides about the slots of a service: in an orderly    *)
(* launch no rebuild clears the lock (hako_pro_data_service.cpp:150) while *)
(* somebody has it, although set_service_data takes no lock.               *)
THEOREM OneInSectionCorrect == ASSUME Orderly PROVE Spec => []OneInSection
<1>1. IInv => OneInSection
  BY DEF IInv, LockInv
<1> QED
  BY <1>1, IInvCorrect, PTL

(* What creation returned stays true: no later rebuild, takeover or        *)
(* assignment moves the service or gives the slot away.                    *)
THEOREM HandlesValidCorrect == ASSUME Orderly PROVE Spec => []HandlesValid
<1>1. ASSUME IInv PROVE HandlesValid
  <2>1. ASSUME NEW p \in Procs, at[p] = "created"
        PROVE  /\ id[p] < num /\ entries[id[p]].name = ServiceOf[p]
               /\ Role[p] = "client" => k[p] \in Slots /\ entries[id[p]].slot[k[p]] = p
    <3>1. Ready(p) /\ id[p] = Position(p) /\ id[p] \in Ids /\ id[p] < num
      BY <1>1, <2>1, PlacedFacts DEF Placed
    <3>2. entries[id[p]].name = ServiceOf[p]
      BY <3>1, Positions DEF Ready
    <3>3. Role[p] = "client" => k[p] \in Slots /\ entries[id[p]].slot[k[p]] = p
      BY <1>1, <2>1 DEF IInv, SlotInv
    <3> QED
      BY <3>1, <3>2, <3>3
  <2> QED
    BY <2>1 DEF HandlesValid
<1> QED
  BY <1>1, IInvCorrect, PTL

(* A process that has created a service or a client owns a receive event   *)
(* for everything it will read, whoever held the channel before.           *)
THEOREM HandlesReceiveCorrect == ASSUME Orderly PROVE Spec => []HandlesReceive
<1>1. IInv => HandlesReceive
  <2>1. \A p \in Procs : Role[p] \in {"server", "client"}
    BY ConstantsAssumption
  <2> QED
    BY <2>1 DEF IInv, EventInv, HandlesReceive
<1> QED
  BY <1>1, IInvCorrect, PTL

(* No two living processes wait for the same response channel.             *)
THEOREM OneLiveOwnerCorrect == ASSUME Orderly PROVE Spec => []OneLiveOwner
<1>1. ASSUME IInv PROVE OneLiveOwner
  <2>1. ASSUME NEW i \in DOMAIN events, NEW j \in DOMAIN events,
               events[i].side = "rsp", events[j].side = "rsp",
               events[i].service = events[j].service, events[i].slot = events[j].slot,
               events[i].owner # NoProc, events[j].owner # NoProc
        PROVE  events[i].owner = events[j].owner
    <3>1. events[i] \in Event /\ events[j] \in Event
      BY <1>1, EventsTyped DEF IInv
    <3>2. events[i].owner \in Procs /\ events[j].owner \in Procs
      BY <2>1, <3>1 DEF Event
    <3>3. Answered(events[i]) /\ Answered(events[j])
      BY <1>1 DEF IInv, EventInv
    <3>4. PICK p \in Procs : p = events[i].owner
      BY <3>2
    <3>5. PICK q \in Procs : q = events[j].owner
      BY <3>2
    <3>6. /\ at[p] = "assign" \/ (at[p] = "created" /\ Role[p] = "client")
          /\ at[q] = "assign" \/ (at[q] = "created" /\ Role[q] = "client")
          /\ ServiceOf[p] = ServiceOf[q] /\ k[p] = k[q]
      BY <2>1, <3>3, <3>4, <3>5 DEF Answered
    <3>7. p = q
      BY <1>1, <3>6, OneChannel
    <3> QED
      BY <3>4, <3>5, <3>7
  <2> QED
    BY <2>1 DEF OneLiveOwner
<1> QED
  BY <1>1, IInvCorrect, PTL
-----------------------------------------------------------------------------
(* The slots are a registry: no step but an assignment and a new session   *)
(* changes the owner of a slot.                                            *)

HoldingIn(n, f, s) == {i \in Ids : i < n /\ f[i].name = s}
UsedIn(n, f, s, j) == CHOOSE i \in HoldingIn(n, f, s) : f[i].slot[j] # NoProc
SlotIn(n, f, s, j) ==
  IF \E i \in HoldingIn(n, f, s) : f[i].slot[j] # NoProc THEN f[UsedIn(n, f, s, j)].slot[j] ELSE NoProc
OwnerIn(n, f) == [s \in Services |-> [j \in Slots |-> SlotIn(n, f, s, j)]]

LEMMA OwnerOfTable ==
  OwnerOfSlot = OwnerIn(num, entries) /\ OwnerOfSlot' = OwnerIn(num', entries')
  BY DEF OwnerOfSlot, OwnerIn, SlotIn, UsedIn, Holding, HoldingIn

\* The owner of a slot depends on the names and the slots only.
LEMMA SlotSame ==
  ASSUME NEW n, NEW f, NEW g, NEW s, NEW j,
         \A i \in HoldingIn(n, f, s) \cup HoldingIn(n, g, s) :
           f[i].name = g[i].name /\ f[i].slot[j] = g[i].slot[j]
  PROVE  SlotIn(n, f, s, j) = SlotIn(n, g, s, j)
<1>1. \A i : i \in HoldingIn(n, f, s) <=> i \in HoldingIn(n, g, s)
  BY DEF HoldingIn
<1>2. \A i : i \in HoldingIn(n, f, s) /\ f[i].slot[j] # NoProc
             <=> i \in HoldingIn(n, g, s) /\ g[i].slot[j] # NoProc
  BY <1>1
<1>3. UsedIn(n, f, s, j) = UsedIn(n, g, s, j)
  BY <1>2, Zenon DEF UsedIn
<1>4. CASE \E i \in HoldingIn(n, f, s) : f[i].slot[j] # NoProc
  <2>1. UsedIn(n, f, s, j) \in HoldingIn(n, f, s)
    BY <1>4 DEF UsedIn
  <2>2. \E i \in HoldingIn(n, g, s) : g[i].slot[j] # NoProc
    BY <1>2, <1>4
  <2> QED
    BY <1>3, <1>4, <2>1, <2>2 DEF SlotIn
<1>5. CASE ~\E i \in HoldingIn(n, f, s) : f[i].slot[j] # NoProc
  <2>1. ~\E i \in HoldingIn(n, g, s) : g[i].slot[j] # NoProc
    BY <1>2, <1>5
  <2> QED
    BY <1>5, <2>1 DEF SlotIn
<1> QED
  BY <1>4, <1>5

LEMMA OwnerSame ==
  ASSUME NEW n, NEW f, NEW g,
         \A i \in Ids : f[i].name = g[i].name /\ f[i].slot = g[i].slot
  PROVE  OwnerIn(n, f) = OwnerIn(n, g)
<1>1. \A s, j : SlotIn(n, f, s, j) = SlotIn(n, g, s, j)
  BY SlotSame DEF HoldingIn
<1> QED
  BY <1>1 DEF OwnerIn

\* An unused table gives no slot to anybody.
LEMMA OwnerClean ==
  ASSUME NEW n, NEW f, \A i \in Ids, j \in Slots : f[i].slot[j] = NoProc
  PROVE  OwnerIn(n, f) = Registry!Free
<1>1. \A s, j : j \in Slots => SlotIn(n, f, s, j) = NoProc
  BY DEF SlotIn, HoldingIn
<1> QED
  BY <1>1 DEF OwnerIn, Registry!Free

\* In a complete table p's service is one entry, and its slots are the owners.
LEMMA OwnerReady ==
  ASSUME NEW n, NEW f, NEW p \in Procs, NEW j \in Slots,
         HoldingIn(n, f, ServiceOf[p]) = {Position(p)}
  PROVE  OwnerIn(n, f)[ServiceOf[p]][j] = f[Position(p)].slot[j]
<1>1. ServiceOf[p] \in Services
  BY ConstantsAssumption
<1>2. SlotIn(n, f, ServiceOf[p], j) = f[Position(p)].slot[j]
  <2>1. CASE f[Position(p)].slot[j] # NoProc
    <3>1. UsedIn(n, f, ServiceOf[p], j) = Position(p)
      BY <2>1 DEF UsedIn
    <3> QED
      BY <2>1, <3>1 DEF SlotIn
  <2>2. CASE f[Position(p)].slot[j] = NoProc
    BY <2>2 DEF SlotIn
  <2> QED
    BY <2>1, <2>2
<1> QED
  BY <1>1, <1>2 DEF OwnerIn

LEMMA HoldingReady ==
  ASSUME Orderly, NEW p \in Procs, Ready(p)
  PROVE  HoldingIn(num, entries, ServiceOf[p]) = {Position(p)}
<1>1. Position(p) \in HoldingIn(num, entries, ServiceOf[p])
  BY Positions DEF HoldingIn, Ready
<1>2. ASSUME NEW i \in HoldingIn(num, entries, ServiceOf[p]) PROVE i = Position(p)
  <2>1. i \in Ids /\ i < num /\ entries[i].name = ServiceOf[p]
    BY DEF HoldingIn
  <2>2. Config[p][i + 1] = ServiceOf[p] /\ i < Len(Config[p])
    BY <2>1 DEF Ready
  <2> QED
    BY <2>1, <2>2, Positions
<1> QED
  BY <1>1, <1>2

\* An assignment is one of the registry.
LEMMA AssignOwner ==
  ASSUME Orderly, IInv, NEW p \in Procs, Assign(p)
  PROVE  Registry!Assign(ServiceOf[p], k[p], p) /\ ServiceOf[p] \in Services /\ k[p] \in Slots
<1> DEFINE s == ServiceOf[p]
           j == k[p]
<1>1. at[p] = "assign" /\ num' = num
  BY DEF Assign
<1>2. Ready(p) /\ id[p] = Position(p) /\ id[p] \in Ids /\ id[p] < num
  BY <1>1, PlacedFacts DEF Placed, InSection
<1>3. /\ j = entries[id[p]].next /\ j \in Slots
      /\ \A m \in Slots : entries[id[p]].slot[m] # p
  BY <1>1 DEF IInv, SlotInv
<1>4. s \in Services
  BY ConstantsAssumption
<1>5. /\ \A i \in Ids \ {id[p]} : entries'[i] = entries[i]
      /\ entries'[id[p]].name = entries[id[p]].name /\ entries'[id[p]].slot[j] = p
      /\ \A m \in Slots \ {j} : entries'[id[p]].slot[m] = entries[id[p]].slot[m]
  BY <1>2, <1>3, AssignChange DEF IInv
<1>6. HoldingIn(num, entries, s) = {Position(p)}
  BY <1>2, HoldingReady
<1>7. HoldingIn(num, entries', s) = {Position(p)}
  BY <1>2, <1>5, <1>6 DEF HoldingIn
<1>8. \A m \in Slots : OwnerIn(num, entries)[s][m] = entries[id[p]].slot[m]
                       /\ OwnerIn(num, entries')[s][m] = entries'[id[p]].slot[m]
  BY <1>2, <1>6, <1>7, OwnerReady
<1>9. entries[id[p]].slot[j] = NoProc
  <2>1. entries[id[p]].next \in Int
    BY <1>2 DEF IInv, Typed, Entry
  <2> QED
    BY <1>2, <1>3, <2>1 DEF IInv, SlotInv
<1>10. OwnerIn(num, entries') = [OwnerIn(num, entries) EXCEPT ![s][j] = p]
  <2>1. ASSUME NEW t \in Services, NEW m \in Slots
        PROVE  SlotIn(num, entries', t, m) = IF t = s /\ m = j THEN p ELSE SlotIn(num, entries, t, m)
    <3>1. CASE t = s
      <4>1. /\ OwnerIn(num, entries)[s][m] = SlotIn(num, entries, s, m)
            /\ OwnerIn(num, entries')[s][m] = SlotIn(num, entries', s, m)
        BY <1>4 DEF OwnerIn
      <4>2. m # j => entries'[id[p]].slot[m] = entries[id[p]].slot[m]
        BY <1>5
      <4> QED
        BY <1>5, <1>8, <3>1, <4>1, <4>2
    <3>2. CASE t # s
      <4>1. entries[id[p]].name = s
        BY <1>2, <1>6 DEF HoldingIn
      <4>2. id[p] \notin HoldingIn(num, entries, t) \cup HoldingIn(num, entries', t)
        BY <1>5, <3>2, <4>1 DEF HoldingIn
      <4>3. \A i \in HoldingIn(num, entries, t) \cup HoldingIn(num, entries', t) :
              entries[i].name = entries'[i].name /\ entries[i].slot[m] = entries'[i].slot[m]
        BY <1>5, <4>2 DEF HoldingIn
      <4>4. SlotIn(num, entries, t, m) = SlotIn(num, entries', t, m)
        BY <4>3, SlotSame
      <4> QED
        BY <3>2, <4>4
    <3> QED
      BY <3>1, <3>2
  <2> DEFINE a == OwnerIn(num, entries)
             b == OwnerIn(num, entries')
  <2>2. /\ a = [t \in Services |-> a[t]] /\ b = [t \in Services |-> b[t]]
        /\ \A t \in Services : /\ a[t] = [m \in Slots |-> SlotIn(num, entries, t, m)]
                               /\ b[t] = [m \in Slots |-> SlotIn(num, entries', t, m)]
    BY DEF OwnerIn
  <2> HIDE DEF a, b
  <2>3. b[s] = [a[s] EXCEPT ![j] = p]
    <3>1. \A m \in Slots : SlotIn(num, entries', s, m) = IF m = j THEN p ELSE SlotIn(num, entries, s, m)
      BY <1>4, <2>1
    <3>2. /\ a[s] = [m \in Slots |-> SlotIn(num, entries, s, m)]
          /\ b[s] = [m \in Slots |-> SlotIn(num, entries', s, m)]
      BY <1>4, <2>2
    <3>3. b[s] = [m \in Slots |-> IF m = j THEN p ELSE SlotIn(num, entries, s, m)]
      BY <3>1, <3>2
    <3> QED
      BY <3>2, <3>3
  <2>4. ASSUME NEW t \in Services \ {s} PROVE b[t] = a[t]
    <3>1. \A m \in Slots : SlotIn(num, entries', t, m) = SlotIn(num, entries, t, m)
      BY <2>1
    <3> QED
      BY <2>2, <3>1
  <2>5. b = [a EXCEPT ![s] = [a[s] EXCEPT ![j] = p]]
    BY <1>4, <2>2, <2>3, <2>4
  <2> QED
    BY <2>5 DEF a, b
<1>11. OwnerOfSlot = OwnerIn(num, entries) /\ OwnerOfSlot' = OwnerIn(num, entries')
  BY <1>1, OwnerOfTable
<1> QED
  BY <1>3, <1>4, <1>8, <1>9, <1>10, <1>11 DEF Registry!Assign

(* The service table implements the slot registry: within a session a      *)
(* client name gets at most one slot, a slot belongs to one name, and no   *)
(* crash, restart, takeover or rebuild changes either.                     *)
THEOREM KeepsRegistryCorrect == ASSUME Orderly PROVE Spec => KeepsRegistry
<1>1. ASSUME Init PROVE Registry!Init
  <2>1. PICK t \in Stale : entries = Listing(t)
    BY <1>1 DEF Init
  <2>2. \A i \in Ids, j \in Slots : entries[i].slot[j] = NoProc
    <3>1. t \in Seq(Services) /\ Len(t) <= MaxServices
      BY ConstantsAssumption
    <3> QED
      BY <2>1, <3>1, ListingFacts
  <2> QED
    BY <2>2, OwnerClean, OwnerOfTable DEF Registry!Init
<1>2. ASSUME IInv, IInv', [Next]_vars PROVE [Registry!Next]_OwnerOfSlot
  <2>1. ASSUME num' = num, \A i \in Ids : entries[i].name = entries'[i].name /\ entries[i].slot = entries'[i].slot
        PROVE  OwnerOfSlot' = OwnerOfSlot
    BY <2>1, OwnerSame, OwnerOfTable
  <2>2. ASSUME Clean, Clean' PROVE OwnerOfSlot' = OwnerOfSlot
    <3>1. \A i \in Ids, j \in Slots : entries[i].slot[j] = NoProc /\ entries'[i].slot[j] = NoProc
      BY <2>2 DEF Clean
    <3> QED
      BY <3>1, OwnerClean, OwnerOfTable
  <2>3. ASSUME NEW p \in Procs, Begin(p) \/ Check(p) \/ CheckFull(p) \/ Lookup(p) \/ Register(p) \/ Die(p)
        PROVE  OwnerOfSlot' = OwnerOfSlot
    BY <2>1, <2>3 DEF Begin, Check, CheckFull, Lookup, Register, Die, tableVars
  <2>4. ASSUME NEW p \in Procs, SetNum(p) \/ SetEntry(p)
        PROVE  OwnerOfSlot' = OwnerOfSlot
    <3>1. at[p] \in Rebuilding /\ at'[p] \in Rebuilding
      BY <1>2, <2>4 DEF IInv, Typed, SetNum, SetEntry, Goto, Rebuilding
    <3>2. Clean /\ Clean'
      BY <1>2, <3>1 DEF IInv, NameInv
    <3> QED
      BY <2>2, <3>2
  <2>5. ASSUME NEW p \in Procs, SetDone(p) PROVE OwnerOfSlot' = OwnerOfSlot
    BY <2>1, <2>5 DEF SetDone, tableVars
  <2>6. ASSUME NEW p \in Procs, Lock(p) \/ Search(p) \/ TakeOver(p) \/ Claim(p)
        PROVE  OwnerOfSlot' = OwnerOfSlot
    <3>1. num' = num /\ at[p] \in {"lock", "search", "takeover", "claim"}
      BY <2>6 DEF Lock, Search, TakeOver, Claim
    <3>2. id[p] \in Ids
      BY <1>2, <3>1, PlacedFacts DEF Placed, InSection
    <3>3. CASE Lock(p)
      <4>1. entries' = entries \/ entries' = [entries EXCEPT ![id[p]].busy = TRUE]
        BY <3>3 DEF Lock
      <4> QED
        BY <1>2, <2>1, <3>1, <3>2, <4>1, BusyChange DEF IInv
    <3>4. CASE Search(p) \/ TakeOver(p) \/ Claim(p)
      <4>1. at[p] \in InSection /\ (entries' = entries \/ entries' = Release(p))
        BY <3>4 DEF Search, TakeOver, Claim, InSection
      <4> QED
        BY <1>2, <2>1, <3>1, <4>1, ReleaseFacts
    <3> QED
      BY <2>6, <3>3, <3>4
  <2>7. ASSUME NEW p \in Procs, Assign(p) PROVE Registry!Next
    BY <1>2, <2>7, AssignOwner DEF Registry!Next
  <2>8. CASE NewSession
    <3>1. Clean'
      BY <1>2, <2>8, NewSessionStep
    <3>2. OwnerOfSlot' = Registry!Free
      BY <3>1, OwnerClean, OwnerOfTable DEF Clean
    <3> QED
      BY <3>2 DEF Registry!Next, Registry!NewSession
  <2>9. CASE UNCHANGED vars
    BY <2>1, <2>9 DEF vars, tableVars
  <2> QED
    BY <1>2, <2>3, <2>4, <2>5, <2>6, <2>7, <2>8, <2>9 DEF Next, Step
<1> QED
  BY <1>1, <1>2, IInvCorrect, PTL DEF Spec, KeepsRegistry, Registry!Spec
-----------------------------------------------------------------------------
(* The types, in every Mode: creations beside a rebuild, and processes that *)
(* die in the middle of one, do not take an index beyond its table.         *)

TypeInv ==
  /\ TypeOK
  /\ \A p \in Procs : at[p] \in InSection \cup {"register", "lock"} => id[p] \in Ids
  /\ \A p \in Procs : at[p] \in InSection \ {"search"} => k[p] \in Slots

\* A set of ids has a greatest element: the one whose distance to the end of
\* the table is the smallest.
LEMMA LastId ==
  ASSUME NEW T, T \subseteq Ids, T # {}
  PROVE  \E i \in T : \A j \in T : j <= i
<1> DEFINE D == {n \in Nat : MaxServices - 1 - n \in T}
<1>1. MaxServices \in Nat
  BY ConstantsAssumption
<1>2. ASSUME NEW i \in T PROVE MaxServices - 1 - i \in D
  <2>1. i \in Ids /\ i \in Int /\ MaxServices - 1 - i \in Nat
        /\ MaxServices - 1 - (MaxServices - 1 - i) = i
    BY <1>1 DEF Ids
  <2> QED
    BY <2>1
<1>3. D \subseteq Nat /\ D # {}
  BY <1>2
<1>4. IsWellFoundedOn(OpToRel(<, Nat), Nat)
  BY NatLessThanWellFounded
<1> HIDE DEF D
<1>5. PICK n \in D : \A m \in D : ~(<<m, n>> \in OpToRel(<, Nat))
  BY <1>3, <1>4, WFMin, Zenon
<1>6. \A m \in D : ~(m < n)
  BY <1>3, <1>5, Zenon DEF OpToRel
<1>7. MaxServices - 1 - n \in T /\ n \in Nat
  BY <1>5 DEF D
<1>8. ASSUME NEW j \in T PROVE j <= MaxServices - 1 - n
  <2>1. MaxServices - 1 - j \in D /\ j \in Int
    BY <1>1, <1>2 DEF Ids
  <2>2. ~(MaxServices - 1 - j < n)
    BY <1>6, <2>1
  <2> QED
    BY <1>1, <1>7, <2>1, <2>2
<1> QED
  BY <1>7, <1>8

\* The index that a process builds from any table.
LEMMA IndexTyped == IndexOfTable \in [Services -> Ids \cup {NoId}]
<1>1. ASSUME NEW s \in Services
      PROVE  (IF Holding(s) = {} THEN NoId
              ELSE CHOOSE i \in Holding(s) : \A j \in Holding(s) : j <= i) \in Ids \cup {NoId}
  <2>1. CASE Holding(s) = {}
    BY <2>1
  <2>2. CASE Holding(s) # {}
    <3>1. Holding(s) \subseteq Ids
      BY DEF Holding
    <3>2. \E i \in Holding(s) : \A j \in Holding(s) : j <= i
      BY <2>2, <3>1, LastId
    <3>3. (CHOOSE i \in Holding(s) : \A j \in Holding(s) : j <= i) \in Holding(s)
      BY <3>2
    <3> QED
      BY <2>2, <3>1, <3>3
  <2> QED
    BY <2>1, <2>2
<1> QED
  BY <1>1 DEF IndexOfTable

LEMMA TypedOfTypeOK == ASSUME TypeOK PROVE Typed
  BY DEF TypeOK, Typed, Gone, Rebuilding, Before, Placed, InSection, Ended

\* One more event at the end.
LEMMA EventAdded ==
  ASSUME TypeOK, NEW p \in Procs, NEW side \in Sides, k[p] \in Slots, Len(events) < EventMax,
         NewEvent(p, side)
  PROVE  events' \in Seq(Event) /\ Len(events') <= EventMax
<1> DEFINE e == [owner |-> p, service |-> ServiceOf[p], slot |-> k[p], side |-> side]
<1>1. e \in Event
  BY ConstantsAssumption DEF Event
<1>2. events' = Append(events, e)
  BY DEF NewEvent
<1> HIDE DEF e
<1>3. Len(events) \in Nat /\ EventMax \in Nat /\ events \in Seq(Event)
  BY ConstantsAssumption, LenProperties DEF TypeOK
<1>4. events' \in Seq(Event) /\ Len(events') = Len(events) + 1
  BY <1>1, <1>2, <1>3, AppendProperties
<1> QED
  BY <1>3, <1>4

\* The same events with other owners.
LEMMA EventsRenamed ==
  ASSUME TypeOK, NEW P, P \subseteq DOMAIN events, NEW q \in Procs \cup {NoProc},
         events' = [i \in DOMAIN events |-> [events[i] EXCEPT !.owner = IF i \in P THEN q ELSE @]]
  PROVE  events' \in Seq(Event) /\ Len(events') <= EventMax
<1>1. events \in Seq(Event) /\ Len(events) \in Nat /\ DOMAIN events = 1 .. Len(events)
  BY LenProperties DEF TypeOK
<1>2. ASSUME NEW i \in 1 .. Len(events)
      PROVE  [events[i] EXCEPT !.owner = IF i \in P THEN q ELSE @] \in Event
  <2>1. events[i] \in Event
    BY <1>1, ElementOfSeq
  <2> QED
    BY <2>1 DEF Event
<1>3. events' \in [1 .. Len(events) -> Event]
  BY <1>1, <1>2
<1>4. events' \in Seq(Event) /\ Len(events') = Len(events)
  BY <1>1, <1>3
<1> QED
  BY <1>4 DEF TypeOK

LEMMA InitTypes == Init => TypeInv
<1> SUFFICES ASSUME Init PROVE TypeInv
  OBVIOUS
<1>1. PICK t \in Stale : num = Len(t) /\ entries = Listing(t)
  BY DEF Init
<1>2. t \in Seq(Services) /\ Len(t) \in Nat /\ Len(t) <= MaxServices /\ MaxServices \in Nat
      /\ EventMax \in Nat
  BY ConstantsAssumption
<1>3. entries \in [Ids -> Entry] /\ num \in 0 .. MaxServices
  <2>1. Listing(t) \in [Ids -> Entry]
    BY <1>2, ListingFacts
  <2> QED
    BY <1>1, <1>2, <2>1
<1>4. events \in Seq(Event) /\ Len(events) <= EventMax
  <2>1. events = <<>>
    BY DEF Init
  <2> QED
    BY <1>2, <2>1
<1> QED
  BY <1>3, <1>4 DEF Init, TypeInv, TypeOK, Ended, InSection

LEMMA FrontTypes ==
  ASSUME TypeInv, NEW p \in Procs,
         Begin(p) \/ Check(p) \/ SetNum(p) \/ SetDone(p) \/ CheckFull(p) \/ Lookup(p)
  PROVE  TypeInv'
<1>1. CASE Begin(p)
  BY <1>1, IndexTyped DEF TypeInv, TypeOK, Begin, Goto, tableVars, InSection
<1>2. CASE Check(p)
  BY <1>2 DEF TypeInv, TypeOK, Check, Goto, tableVars, InSection, Rebuilding
<1>3. CASE SetNum(p)
  <2>1. Len(Config[p]) \in 0 .. MaxServices
    BY ConstantsAssumption
  <2> QED
    BY <1>3, <2>1 DEF TypeInv, TypeOK, SetNum, Goto, InSection, Rebuilding
<1>4. CASE SetDone(p)
  BY <1>4, IndexTyped DEF TypeInv, TypeOK, SetDone, Goto, tableVars, InSection
<1>5. CASE CheckFull(p)
  BY <1>5 DEF TypeInv, TypeOK, CheckFull, Goto, tableVars, InSection, Ended
<1>6. CASE Lookup(p)
  <2> DEFINE idx == IF index[p][ServiceOf[p]] # NoId THEN index[p] ELSE IndexOfTable
  <2>1. idx \in [Services -> Ids \cup {NoId}] /\ ServiceOf[p] \in Services
    BY IndexTyped, ConstantsAssumption DEF TypeInv, TypeOK
  <2>2. /\ index' = [index EXCEPT ![p] = idx] /\ id' = [id EXCEPT ![p] = idx[ServiceOf[p]]]
        /\ k' = [k EXCEPT ![p] = 0] /\ UNCHANGED <<num, entries, events, lost>>
        /\ \/ /\ idx[ServiceOf[p]] # NoId
              /\ at' = [at EXCEPT ![p] = IF Role[p] = "server" THEN "register" ELSE "lock"]
           \/ at' = [at EXCEPT ![p] = "set"] \/ at' = [at EXCEPT ![p] = "failed"]
        /\ retried' = retried \/ retried' = [retried EXCEPT ![p] = TRUE]
    BY <1>6 DEF Lookup, Goto, tableVars
  <2> HIDE DEF idx
  <2>3. idx[ServiceOf[p]] \in Ids \cup {NoId}
    BY <2>1
  <2>4. at' \in [Procs -> Ended \cup Rebuilding \cup InSection
                          \cup {"check", "full", "lookup", "register", "lock"}]
    BY <2>2 DEF TypeInv, TypeOK, Ended, Rebuilding
  <2>5. TypeOK'
    BY <2>1, <2>2, <2>3, <2>4 DEF TypeInv, TypeOK
  <2>6. \A q \in Procs : at'[q] \in InSection \cup {"register", "lock"} => id'[q] \in Ids
    BY <2>2, <2>3 DEF TypeInv, TypeOK, InSection
  <2>7. \A q \in Procs : at'[q] \in InSection \ {"search"} => k'[q] \in Slots
    BY <2>2 DEF TypeInv, TypeOK, InSection
  <2> QED
    BY <2>5, <2>6, <2>7 DEF TypeInv
<1> QED
  BY <1>1, <1>2, <1>3, <1>4, <1>5, <1>6

LEMMA SetEntryTypes == ASSUME TypeInv, NEW p \in Procs, SetEntry(p) PROVE TypeInv'
<1>1. Len(Config[p]) \in Nat /\ Len(Config[p]) <= MaxServices /\ Config[p] \in Seq(Services)
      /\ MaxServices \in Nat
  BY ConstantsAssumption
<1>2. k[p] \in Nat /\ k[p] < Len(Config[p]) /\ at[p] = "fill"
  BY DEF SetEntry, TypeInv, TypeOK
<1>3. k[p] + 1 \in 1 .. Len(Config[p])
  BY <1>1, <1>2
<1>4. Config[p][k[p] + 1] \in Services
  BY <1>1, <1>3, ElementOfSeq
<1> DEFINE e == [EmptyEntry EXCEPT !.name = Config[p][k[p] + 1]]
<1>5. e \in Entry
  BY <1>4, EmptyTyped
<1>6. entries' = [entries EXCEPT ![k[p]] = e] /\ k' = [k EXCEPT ![p] = k[p] + 1]
      /\ UNCHANGED <<num, events, index, at, id, retried, lost>>
  BY DEF SetEntry
<1> HIDE DEF e
<1>7. entries' \in [Ids -> Entry]
  BY <1>5, <1>6 DEF TypeInv, TypeOK
<1>8. k' \in [Procs -> Nat]
  BY <1>2, <1>6 DEF TypeInv, TypeOK
<1> QED
  BY <1>2, <1>6, <1>7, <1>8 DEF TypeInv, TypeOK, InSection

LEMMA RegisterTypes == ASSUME TypeInv, NEW p \in Procs, Register(p) PROVE TypeInv'
<1>1. CASE k[p] < MaxClients /\ Len(events) < EventMax
  <2>1. at[p] = "register" /\ NewEvent(p, "req") /\ k' = [k EXCEPT ![p] = k[p] + 1]
        /\ UNCHANGED <<num, entries, index, at, id, retried, lost>>
    BY <1>1, ConstantsAssumption, LenProperties DEF Register, TypeInv, TypeOK
  <2>2. k[p] \in Nat /\ k[p] \in Slots
    BY <1>1, ConstantsAssumption DEF TypeInv, TypeOK, Slots
  <2>3. events' \in Seq(Event) /\ Len(events') <= EventMax
    BY <1>1, <2>1, <2>2, EventAdded DEF TypeInv, Sides
  <2>4. k' \in [Procs -> Nat]
    BY <2>1, <2>2 DEF TypeInv, TypeOK
  <2> QED
    BY <2>1, <2>3, <2>4 DEF TypeInv, TypeOK, InSection
<1>2. CASE ~(k[p] < MaxClients /\ Len(events) < EventMax)
  BY <1>2 DEF Register, Goto, TypeInv, TypeOK, InSection, Ended
<1> QED
  BY <1>1, <1>2

LEMMA LockTypes == ASSUME TypeInv, NEW p \in Procs, Lock(p) PROVE TypeInv'
<1>1. Typed /\ at[p] = "lock" /\ id[p] \in Ids
  BY TypedOfTypeOK DEF TypeInv, Lock
<1>2. entries' = entries \/ entries' = [entries EXCEPT ![id[p]].busy = TRUE]
  BY DEF Lock
<1>3. entries' \in [Ids -> Entry]
  BY <1>1, <1>2, BusyChange DEF Typed
<1> QED
  BY <1>1, <1>3 DEF Lock, Goto, TypeInv, TypeOK, InSection

LEMMA ReleaseTyped ==
  ASSUME TypeOK, NEW p \in Procs, id[p] \in Ids, entries' = Release(p)
  PROVE  entries' \in [Ids -> Entry]
<1>1. entries' = entries \/ entries' = [entries EXCEPT ![id[p]].busy = FALSE]
  BY DEF Release
<1> QED
  BY <1>1, TypedOfTypeOK, BusyChange DEF Typed

LEMMA SectionTypes ==
  ASSUME TypeInv, NEW p \in Procs, Search(p) \/ TakeOver(p) \/ Claim(p) \/ Assign(p)
  PROVE  TypeInv'
<1>1. at[p] \in InSection /\ id[p] \in Ids
  BY DEF TypeInv, Search, TakeOver, Claim, Assign, InSection
<1>2. entries[id[p]] \in Entry
  BY <1>1 DEF TypeInv, TypeOK
<1>3. CASE Search(p)
  <2>1. entries' \in [Ids -> Entry]
    BY <1>1, <1>3, ReleaseTyped DEF Search, TypeInv, TypeOK
  <2>2. \/ /\ at' = [at EXCEPT ![p] = "failed"] /\ k' = k
        \/ /\ at' = [at EXCEPT ![p] = "takeover"] /\ \E j \in Slots : k' = [k EXCEPT ![p] = j]
        \/ /\ at' = [at EXCEPT ![p] = "claim"] /\ entries[id[p]].next < MaxClients
           /\ k' = [k EXCEPT ![p] = entries[id[p]].next]
    BY <1>3 DEF Search, Goto
  <2>3. entries[id[p]].next < MaxClients => entries[id[p]].next \in Slots
    BY <1>2, ConstantsAssumption DEF Entry, Slots
  <2>4. Slots \subseteq Nat
    BY DEF Slots
  <2>5. \/ /\ at' = [at EXCEPT ![p] = "failed"] /\ k' = k
        \/ /\ at' = [at EXCEPT ![p] = "takeover"] \/ at' = [at EXCEPT ![p] = "claim"]
           /\ \E j \in Slots : k' = [k EXCEPT ![p] = j]
    BY <2>2, <2>3
  <2>6. UNCHANGED <<num, events, index, id, retried, lost>>
    BY <1>3 DEF Search
  <2> QED
    BY <1>1, <2>1, <2>4, <2>5, <2>6 DEF TypeInv, TypeOK, InSection, Ended
<1>4. CASE TakeOver(p)
  <2>1. entries' \in [Ids -> Entry]
    BY <1>1, <1>4, ReleaseTyped DEF TakeOver, TypeInv, TypeOK
  <2>2. at' = [at EXCEPT ![p] = "created"] \/ at' = [at EXCEPT ![p] = "failed"]
    BY <1>4 DEF TakeOver, Goto
  <2>3. events' \in Seq(Event) /\ Len(events') <= EventMax
    <3>1. CASE events' = events
      BY <3>1 DEF TypeInv, TypeOK
    <3>2. CASE \E i \in OfChannel(p) : events' = [events EXCEPT ![i].owner = p]
      <4>1. PICK i \in DOMAIN events : events' = [events EXCEPT ![i].owner = p]
        BY <3>2 DEF OfChannel
      <4>2. events' = [j \in DOMAIN events |-> [events[j] EXCEPT !.owner = IF j \in {i} THEN p ELSE @]]
        <5>1. events \in [1 .. Len(events) -> Event] /\ DOMAIN events = 1 .. Len(events)
          BY LenProperties DEF TypeInv, TypeOK
        <5>2. ASSUME NEW j \in DOMAIN events, j # i
              PROVE  [events[j] EXCEPT !.owner = IF j \in {i} THEN p ELSE @] = events[j]
          <6>1. events[j] \in Event
            BY <5>1
          <6> QED
            BY <5>2, <6>1 DEF Event
        <5>3. [events[i] EXCEPT !.owner = IF i \in {i} THEN p ELSE @] = [events[i] EXCEPT !.owner = p]
          OBVIOUS
        <5> DEFINE f(j) == [events[j] EXCEPT !.owner = IF j \in {i} THEN p ELSE @]
                   e == [events[i] EXCEPT !.owner = p]
        <5>4. events' = [events EXCEPT ![i] = e] /\ f(i) = e
              /\ \A j \in DOMAIN events : j # i => f(j) = events[j]
          BY <4>1, <5>2, <5>3
        <5> HIDE DEF f, e
        <5>5. events' = [j \in DOMAIN events |-> f(j)]
          BY <5>1, <5>4
        <5> QED
          BY <5>5 DEF f
      <4> QED
        BY <4>2, EventsRenamed DEF TypeInv
    <3> QED
      BY <1>4, <3>1, <3>2 DEF TakeOver
  <2>4. UNCHANGED <<num, index, id, k, retried, lost>>
    BY <1>4 DEF TakeOver
  <2> QED
    BY <2>1, <2>2, <2>3, <2>4 DEF TypeInv, TypeOK, InSection, Ended
<1>5. CASE Claim(p)
  <2>1. k[p] \in Slots /\ at[p] = "claim"
    BY <1>5 DEF Claim, TypeInv, InSection
  <2>2. entries' \in [Ids -> Entry]
    BY <1>1, <1>5, ReleaseTyped DEF Claim, TypeInv, TypeOK
  <2>3. events' \in Seq(Event) /\ Len(events') <= EventMax
    <3>1. CASE events' = events
      BY <3>1 DEF TypeInv, TypeOK
    <3>2. CASE Len(events) < EventMax /\ NewEvent(p, "rsp")
      BY <2>1, <3>2, EventAdded DEF TypeInv, Sides
    <3> QED
      BY <1>5, <3>1, <3>2 DEF Claim
  <2>4. at' = [at EXCEPT ![p] = "failed"] \/ at' = [at EXCEPT ![p] = "assign"]
    BY <1>5 DEF Claim, Goto
  <2>5. UNCHANGED <<num, index, id, k, retried, lost>>
    BY <1>5 DEF Claim
  <2> QED
    BY <1>1, <2>1, <2>2, <2>3, <2>4, <2>5 DEF TypeInv, TypeOK, InSection, Ended
<1>6. CASE Assign(p)
  <2>1. k[p] \in Slots
    BY <1>6 DEF Assign, TypeInv, InSection
  <2> DEFINE e == [entries[id[p]] EXCEPT !.slot[k[p]] = p, !.next = entries[id[p]].next + 1,
                     !.busy = IF id[p] < num THEN FALSE ELSE entries[id[p]].busy]
  <2>2. e \in Entry
    <3> DEFINE s == [entries[id[p]].slot EXCEPT ![k[p]] = p]
               b == IF id[p] < num THEN FALSE ELSE entries[id[p]].busy
    <3>1. s \in [Slots -> Procs \cup {NoProc}] /\ entries[id[p]].next + 1 \in Nat
      BY <1>2, <2>1 DEF Entry
    <3>2. b \in BOOLEAN
      BY <1>2, Zenon DEF Entry
    <3>3. e = [entries[id[p]] EXCEPT !.slot = s, !.next = entries[id[p]].next + 1, !.busy = b]
      BY <1>2 DEF Entry
    <3> HIDE DEF s, b, e
    <3> QED
      BY <1>2, <3>1, <3>2, <3>3 DEF Entry
  <2>3. entries' = [entries EXCEPT ![id[p]] = e] /\ at' = [at EXCEPT ![p] = "created"]
        /\ UNCHANGED <<num, events, index, id, k, retried, lost>>
    BY <1>6 DEF Assign, Goto
  <2> HIDE DEF e
  <2>4. entries' \in [Ids -> Entry]
    BY <1>1, <2>2, <2>3 DEF TypeInv, TypeOK
  <2> QED
    BY <2>3, <2>4 DEF TypeInv, TypeOK, InSection, Ended
<1> QED
  BY <1>3, <1>4, <1>5, <1>6

LEMMA DieTypes == ASSUME TypeInv, NEW p \in Procs, Die(p) PROVE TypeInv'
<1> DEFINE P == {i \in DOMAIN events : events[i].owner = p}
<1>1. events' = [i \in DOMAIN events |-> [events[i] EXCEPT !.owner = IF i \in P THEN NoProc ELSE @]]
  <2>1. ASSUME NEW i \in DOMAIN events
        PROVE  [events[i] EXCEPT !.owner = IF @ = p THEN NoProc ELSE @]
                 = [events[i] EXCEPT !.owner = IF i \in P THEN NoProc ELSE @]
    OBVIOUS
  <2> QED
    BY <2>1 DEF Die
<1> HIDE DEF P
<1>2. events' \in Seq(Event) /\ Len(events') <= EventMax
  <2>1. P \subseteq DOMAIN events
    BY DEF P
  <2> QED
    BY <1>1, <2>1, EventsRenamed DEF TypeInv
<1>3. at' = [at EXCEPT ![p] = "out"] /\ id' = [id EXCEPT ![p] = NoId] /\ k' = [k EXCEPT ![p] = 0]
      /\ index' = [index EXCEPT ![p] = [s \in Services |-> NoId]]
      /\ retried' = [retried EXCEPT ![p] = FALSE] /\ UNCHANGED <<num, entries>>
      /\ lost' = (lost \/ at[p] \in InSection)
  BY DEF Die, Goto
<1>4. [s \in Services |-> NoId] \in [Services -> Ids \cup {NoId}]
  OBVIOUS
<1>5. lost' \in BOOLEAN
  BY <1>3
<1> QED
  BY <1>2, <1>3, <1>4, <1>5 DEF TypeInv, TypeOK, InSection, Ended

LEMMA NewSessionTypes == ASSUME TypeInv, NewSession PROVE TypeInv'
<1>1. EmptyEntry \in Entry
  BY DEF EmptyEntry, Entry
<1>2. MaxServices \in Nat /\ EventMax \in Nat
  BY ConstantsAssumption
<1>3. events' \in Seq(Event) /\ Len(events') <= EventMax
  <2>1. events' = <<>>
    BY DEF NewSession
  <2> QED
    BY <1>2, <2>1
<1>4. entries' \in [Ids -> Entry] /\ num' \in 0 .. MaxServices
  BY <1>1, <1>2 DEF NewSession
<1> QED
  BY <1>3, <1>4 DEF NewSession, TypeInv, TypeOK, procVars

(* Every id a process uses is one of the table, every slot one of the      *)
(* entry (hako_pro_data_service.cpp:433), and there are never more receive *)
(* events than HAKO_RECV_EVENT_MAX, whatever the configurations are and    *)
(* whenever processes create and die.                                      *)
THEOREM TypeCorrect == Spec => []TypeOK
<1>1. ASSUME TypeInv, [Next]_vars PROVE TypeInv'
  <2>1. ASSUME NEW p \in Procs, Begin(p) \/ Step(p) \/ Die(p) PROVE TypeInv'
    BY <1>1, <2>1, FrontTypes, SetEntryTypes, RegisterTypes, LockTypes, SectionTypes, DieTypes
       DEF Step
  <2>2. CASE NewSession
    BY <1>1, <2>2, NewSessionTypes
  <2>3. CASE UNCHANGED vars
    BY <1>1, <2>3 DEF TypeInv, TypeOK, vars, tableVars, procVars
  <2> QED
    BY <1>1, <2>1, <2>2, <2>3 DEF Next
<1>2. TypeInv => TypeOK
  BY DEF TypeInv
<1> QED
  BY InitTypes, <1>1, <1>2, PTL DEF Spec
=============================================================================
