---------------------------- MODULE ServiceTable ----------------------------
(***************************************************************************)
(* The service table in shared memory: set_service_data, create_service    *)
(* and create_service_client, run by server and client processes that      *)
(* start, die and come back, until a new conductor empties the tables.     *)
(*                                                                         *)
(* Registration of a receive event is one step here; RecvEvent has its     *)
(* races.  Clients are named after their process: a process that comes     *)
(* back has the name it had, but another pid.                              *)
(***************************************************************************)
EXTENDS Integers, Sequences

CONSTANTS
  Procs,
  Services,
  Role,        \* [Procs -> {"server", "client"}]
  ServiceOf,   \* [Procs -> Services], the service a process creates or uses
  Config,      \* [Procs -> Seq(Services)], the services of its service.json
  Stale,       \* what a table of an earlier session may hold, <<>> if there is none
  MaxServices, \* HAKO_SERVICE_MAX
  MaxClients,  \* maxClients of every service
  EventMax,    \* HAKO_RECV_EVENT_MAX
  NoProc, NoService,
  Mode         \* what may happen besides an orderly launch

ASSUME ConstantsAssumption ==
  /\ NoProc \notin Procs /\ NoService \notin Services
  /\ Role \in [Procs -> {"server", "client"}]
  /\ ServiceOf \in [Procs -> Services]
  /\ Config \in [Procs -> Seq(Services)]
  /\ Stale \subseteq Seq(Services) /\ \A t \in Stale : Len(t) <= MaxServices
  /\ MaxServices \in Nat /\ MaxClients \in Nat /\ EventMax \in Nat
  /\ \A p \in Procs : Len(Config[p]) <= MaxServices
  /\ Mode \subseteq {"together", \* processes create while another one fills the table
                     "torn"}     \* processes die while they fill the table

Ids == 0 .. MaxServices - 1
Slots == 0 .. MaxClients - 1
NoId == -1
Sides == {"req", "rsp"}

VARIABLES
  num,     \* entry_num of the service table
  entries, \* its entries
  events,  \* receive events in the order of their registration
  index,   \* service_name_to_id_ of each process
  at,      \* where each process is in its creation
  id,      \* its service_id
  k,       \* its loop index, then its client_id
  retried, \* create_service has rebuilt the table after a failed lookup
  lost     \* history: a process died holding the lock of a service entry

tableVars == <<num, entries, events>>
procVars == <<index, at, id, k, retried>>
vars == <<tableVars, procVars, lost>>

Entry == [name: Services \cup {NoService}, next: Nat, busy: BOOLEAN,
          slot: [Slots -> Procs \cup {NoProc}]]
EmptyEntry == [name |-> NoService, next |-> 0, busy |-> FALSE,
               slot |-> [j \in Slots |-> NoProc]]
Event == [owner: Procs \cup {NoProc}, service: Services, slot: Slots, side: Sides]

InSection == {"search", "takeover", "claim", "assign"}
Rebuilding == {"set", "fill"}
Ended == {"out", "created", "failed"}

\* The names of t and nothing else.
Listing(t) ==
  [i \in Ids |-> [EmptyEntry EXCEPT !.name = IF i < Len(t) THEN t[i + 1] ELSE NoService]]

\* create_service speaks of "stale metadata from a previous run".
Init ==
  /\ \E t \in Stale : num = Len(t) /\ entries = Listing(t)
  /\ events = <<>>
  /\ index = [p \in Procs |-> [s \in Services |-> NoId]]
  /\ at = [p \in Procs |-> "out"]
  /\ id = [p \in Procs |-> NoId]
  /\ k = [p \in Procs |-> 0]
  /\ retried = [p \in Procs |-> FALSE]
  /\ lost = FALSE

Goto(p, l) == at' = [at EXCEPT ![p] = l]

\* rebuild_service_name_indexes; of two entries with one name the last one counts.
Holding(s) == {i \in Ids : i < num /\ entries[i].name = s}
IndexOfTable ==
  [s \in Services |->
    IF Holding(s) = {} THEN NoId
    ELSE CHOOSE i \in Holding(s) : \A j \in Holding(s) : j <= i]

\* The table holds what the configuration of p says.
Ready(p) ==
  /\ num = Len(Config[p])
  /\ \A i \in Ids : i < num => entries[i].name = Config[p][i + 1]

\* A process starts, loads the tables and begins.  In an orderly launch nobody
\* else creates anything until the table has been rebuilt and is complete.
Begin(p) ==
  /\ at[p] = "out"
  /\ \/ "together" \in Mode
     \/ Ready(p) /\ \A q \in Procs : at[q] \notin Rebuilding
     \/ \A q \in Procs : at[q] \in Ended
  /\ Goto(p, "check")
  /\ index' = [index EXCEPT ![p] = IndexOfTable]
  /\ UNCHANGED <<tableVars, id, k, retried, lost>>

(* create_service rebuilds the table when the number of services differs,  *)
(* create_service_client when there is none.                               *)
Check(p) ==
  /\ at[p] = "check"
  /\ \/ /\ Role[p] = "server"
        /\ Goto(p, IF num # Len(Config[p]) THEN "set" ELSE "full")
     \/ /\ Role[p] = "client"
        /\ Goto(p, IF num = 0 THEN "set" ELSE "lookup")
  /\ UNCHANGED <<tableVars, index, id, k, retried, lost>>

(* set_service_data takes no lock: entry_num first, ...                    *)
SetNum(p) ==
  /\ at[p] = "set"
  /\ num' = Len(Config[p])
  /\ k' = [k EXCEPT ![p] = 0]
  /\ Goto(p, "fill")
  /\ UNCHANGED <<entries, events, index, id, retried, lost>>

(* ... then one entry after the other, the lock field and the slots too, ...*)
SetEntry(p) ==
  /\ at[p] = "fill"
  /\ k[p] < Len(Config[p])
  /\ entries' = [entries EXCEPT ![k[p]] = [EmptyEntry EXCEPT !.name = Config[p][k[p] + 1]]]
  /\ k' = [k EXCEPT ![p] = @ + 1]
  /\ UNCHANGED <<num, events, index, at, id, retried, lost>>

(* ... and the index of this process last.                                 *)
SetDone(p) ==
  /\ at[p] = "fill"
  /\ k[p] >= Len(Config[p])
  /\ index' = [index EXCEPT ![p] = IndexOfTable]
  /\ k' = [k EXCEPT ![p] = 0]
  /\ Goto(p, IF Role[p] = "server" /\ ~retried[p] THEN "full" ELSE "lookup")
  /\ UNCHANGED <<tableVars, id, retried, lost>>

(* The capacity test of create_service: a full table is refused.           *)
CheckFull(p) ==
  /\ at[p] = "full"
  /\ Goto(p, IF num >= MaxServices THEN "failed" ELSE "lookup")
  /\ UNCHANGED <<tableVars, index, id, k, retried, lost>>

(* get_service_id: the index of this process, refreshed once when the name *)
(* is missing.  create_service rebuilds the table and tries once more.     *)
Lookup(p) ==
  /\ at[p] = "lookup"
  /\ LET s   == ServiceOf[p]
         idx == IF index[p][s] # NoId THEN index[p] ELSE IndexOfTable
     IN  /\ index' = [index EXCEPT ![p] = idx]
         /\ id' = [id EXCEPT ![p] = idx[s]]
         /\ k' = [k EXCEPT ![p] = 0]
         /\ \/ /\ idx[s] # NoId
               /\ Goto(p, IF Role[p] = "server" THEN "register" ELSE "lock")
               /\ UNCHANGED retried
            \/ /\ idx[s] = NoId /\ Role[p] = "server" /\ ~retried[p]
               /\ Goto(p, "set")
               /\ retried' = [retried EXCEPT ![p] = TRUE]
            \/ /\ idx[s] = NoId /\ (Role[p] = "client" \/ retried[p])
               /\ Goto(p, "failed")
               /\ UNCHANGED retried
  /\ UNCHANGED <<tableVars, lost>>

NewEvent(p, side) ==
  events' = Append(events, [owner |-> p, service |-> ServiceOf[p], slot |-> k[p], side |-> side])

(* The server registers a receive event for the requests of every client.  *)
Register(p) ==
  /\ at[p] = "register"
  /\ \/ /\ k[p] >= MaxClients
        /\ Goto(p, "created")
        /\ UNCHANGED <<events, k>>
     \/ /\ k[p] < MaxClients /\ Len(events) >= EventMax
        /\ Goto(p, "failed")
        /\ UNCHANGED <<events, k>>
     \/ /\ k[p] < MaxClients /\ Len(events) < EventMax
        /\ NewEvent(p, "req")
        /\ k' = [k EXCEPT ![p] = @ + 1]
        /\ UNCHANGED at
  /\ UNCHANGED <<num, entries, index, id, retried, lost>>

Release(p) ==
  IF id[p] < num THEN [entries EXCEPT ![id[p]].busy = FALSE] ELSE entries

\* Mutant of Lock: the spin lock is not waited for.
LockNoWait(p) ==
  /\ at[p] = "lock"
  /\ entries' = [entries EXCEPT ![id[p]].busy = TRUE]
  /\ Goto(p, "search")
  /\ UNCHANGED <<num, events, index, id, k, retried, lost>>

(* lock_service_entry; an id beyond the table is not locked.               *)
Lock(p) ==
  /\ at[p] = "lock"
  /\ \/ /\ id[p] >= num
        /\ UNCHANGED entries
     \/ /\ id[p] < num /\ ~entries[id[p]].busy
        /\ entries' = [entries EXCEPT ![id[p]].busy = TRUE]
  /\ Goto(p, "search")
  /\ UNCHANGED <<num, events, index, id, k, retried, lost>>

\* Mutant of Search: a returning client is not recognised.
SearchNextOnly(p) ==
  /\ at[p] = "search"
  /\ \/ /\ entries[id[p]].next >= MaxClients
        /\ entries' = Release(p)
        /\ Goto(p, "failed")
        /\ UNCHANGED k
     \/ /\ entries[id[p]].next < MaxClients
        /\ k' = [k EXCEPT ![p] = entries[id[p]].next]
        /\ Goto(p, "claim")
        /\ UNCHANGED entries
  /\ UNCHANGED <<num, events, index, id, retried, lost>>

\* Mutant of Search: the early return forgets to unlock.
SearchKeepsLock(p) ==
  LET e == entries[id[p]] IN
  /\ at[p] = "search"
  /\ \/ /\ e.next >= MaxClients
        /\ Goto(p, "failed")
        /\ UNCHANGED k
     \/ /\ e.next < MaxClients
        /\ k' = [k EXCEPT ![p] = e.next]
        /\ Goto(p, "claim")
  /\ UNCHANGED <<tableVars, index, id, retried, lost>>

(* Under the lock: the slot of this client's name, the next one, or none.  *)
Search(p) ==
  LET e    == entries[id[p]]
      Mine == {j \in Slots : j < e.next /\ e.slot[j] = p}
  IN
  /\ at[p] = "search"
  /\ \/ \E j \in Mine :
          /\ \A i \in Mine : j <= i
          /\ k' = [k EXCEPT ![p] = j]
          /\ Goto(p, "takeover")
          /\ UNCHANGED entries
     \/ /\ Mine = {} /\ e.next >= MaxClients
        /\ entries' = Release(p)
        /\ Goto(p, "failed")
        /\ UNCHANGED k
     \/ /\ Mine = {} /\ e.next < MaxClients
        /\ k' = [k EXCEPT ![p] = e.next]
        /\ Goto(p, "claim")
        /\ UNCHANGED entries
  /\ UNCHANGED <<num, events, index, id, retried, lost>>

OfChannel(p) == {i \in DOMAIN events :
  events[i].service = ServiceOf[p] /\ events[i].slot = k[p] /\ events[i].side = "rsp"}

\* Mutant of TakeOver: the event keeps the pid of the process that is gone.
TakeOverKeepsPid(p) ==
  /\ at[p] = "takeover"
  /\ Goto(p, IF OfChannel(p) = {} THEN "failed" ELSE "created")
  /\ entries' = Release(p)
  /\ UNCHANGED <<num, events, index, id, k, retried, lost>>

(* update_data_recv_event: the first event of the response channel, if     *)
(* there is one, now belongs to this process.                              *)
TakeOver(p) ==
  /\ at[p] = "takeover"
  /\ \/ \E i \in OfChannel(p) :
          /\ \A j \in OfChannel(p) : i <= j
          /\ events' = [events EXCEPT ![i].owner = p]
          /\ Goto(p, "created")
     \/ /\ OfChannel(p) = {}
        /\ Goto(p, "failed")
        /\ UNCHANGED events
  /\ entries' = Release(p)
  /\ UNCHANGED <<num, index, id, k, retried, lost>>

\* Mutant of Claim: the capacity of the event table is not looked at.
ClaimUnbounded(p) ==
  /\ at[p] = "claim"
  /\ NewEvent(p, "rsp")
  /\ Goto(p, "assign")
  /\ UNCHANGED <<num, entries, index, id, k, retried, lost>>

(* A new client registers its event ...                                    *)
Claim(p) ==
  /\ at[p] = "claim"
  /\ \/ /\ Len(events) >= EventMax
        /\ entries' = Release(p)
        /\ Goto(p, "failed")
        /\ UNCHANGED events
     \/ /\ Len(events) < EventMax
        /\ NewEvent(p, "rsp")
        /\ Goto(p, "assign")
        /\ UNCHANGED entries
  /\ UNCHANGED <<num, index, id, k, retried, lost>>

\* Mutant of Assign: nextClientId is not counted up.
AssignKeepsNext(p) ==
  /\ at[p] = "assign"
  /\ entries' = [entries EXCEPT ![id[p]] = [@ EXCEPT !.slot[k[p]] = p, !.busy = FALSE]]
  /\ Goto(p, "created")
  /\ UNCHANGED <<num, events, index, id, k, retried, lost>>

(* ... and then gets the slot.                                             *)
Assign(p) ==
  /\ at[p] = "assign"
  /\ LET e == entries[id[p]] IN
     entries' = [entries EXCEPT ![id[p]] =
       [e EXCEPT !.slot[k[p]] = p, !.next = e.next + 1,
                 !.busy = IF id[p] < num THEN FALSE ELSE e.busy]]
  /\ Goto(p, "created")
  /\ UNCHANGED <<num, events, index, id, k, retried, lost>>

(* A process ends, wherever it is; its pid stays in its events.            *)
Die(p) ==
  /\ at[p] # "out"
  /\ "torn" \in Mode \/ at[p] \notin Rebuilding
  /\ Goto(p, "out")
  /\ events' = [i \in DOMAIN events |->
       [events[i] EXCEPT !.owner = IF @ = p THEN NoProc ELSE @]]
  /\ lost' = (lost \/ at[p] \in InSection)
  /\ id' = [id EXCEPT ![p] = NoId]
  /\ k' = [k EXCEPT ![p] = 0]
  /\ index' = [index EXCEPT ![p] = [s \in Services |-> NoId]]
  /\ retried' = [retried EXCEPT ![p] = FALSE]
  /\ UNCHANGED <<num, entries>>

(* A new conductor empties the tables when everything has been stopped.    *)
NewSession ==
  /\ \A p \in Procs : at[p] = "out"
  /\ num' = 0
  /\ entries' = [i \in Ids |-> EmptyEntry]
  /\ events' = <<>>
  /\ lost' = FALSE
  /\ UNCHANGED procVars

Step(p) ==
  \/ Check(p) \/ SetNum(p) \/ SetEntry(p) \/ SetDone(p) \/ CheckFull(p) \/ Lookup(p)
  \/ Register(p) \/ Lock(p) \/ Search(p) \/ TakeOver(p) \/ Claim(p) \/ Assign(p)

Next ==
  \/ \E p \in Procs : Begin(p) \/ Step(p) \/ Die(p)
  \/ NewSession

Spec == Init /\ [][Next]_vars

\* A process that has begun goes on, and gets a spin lock that is free again and again.
FairSpec == Spec /\ \A p \in Procs : SF_vars(Step(p))
-----------------------------------------------------------------------------
TypeOK ==
  /\ num \in 0 .. MaxServices
  /\ entries \in [Ids -> Entry]
  /\ events \in Seq(Event) /\ Len(events) <= EventMax
  /\ index \in [Procs -> [Services -> Ids \cup {NoId}]]
  /\ at \in [Procs -> Ended \cup Rebuilding \cup InSection
                      \cup {"check", "full", "lookup", "register", "lock"}]
  /\ id \in [Procs -> Ids \cup {NoId}]
  /\ k \in [Procs -> Nat]
  /\ retried \in [Procs -> BOOLEAN]
  /\ lost \in BOOLEAN

(* At most one process decides about the slots of a service, although the  *)
(* rebuild of the table clears the lock (hako_pro_data_service.cpp:150).   *)
OneInSection ==
  \A p, q \in Procs :
    at[p] \in InSection /\ at[q] \in InSection /\ id[p] = id[q] => p = q

(* What create_service and create_service_client returned stays true: the  *)
(* service has that id, and the slot is this client's and nobody else's.   *)
HandlesValid ==
  \A p \in Procs : at[p] = "created" =>
    /\ id[p] < num /\ entries[id[p]].name = ServiceOf[p]
    /\ Role[p] = "client" => k[p] \in Slots /\ entries[id[p]].slot[k[p]] = p

(* A process that has created a service or a client owns a receive event   *)
(* of every channel it will read, after restarts and takeovers too.        *)
Owns(p, j, side) ==
  \E i \in DOMAIN events :
    events[i].owner = p /\ events[i].service = ServiceOf[p]
      /\ events[i].slot = j /\ events[i].side = side
HandlesReceive ==
  \A p \in Procs : at[p] = "created" =>
    IF Role[p] = "server" THEN \A j \in Slots : Owns(p, j, "req")
                          ELSE Owns(p, k[p], "rsp")

(* No two living processes wait for the same response channel: the reason  *)
(* why one flag per channel is enough in ServiceRpc.                       *)
OneLiveOwner ==
  \A i, j \in DOMAIN events :
    /\ events[i].side = "rsp" /\ events[j].side = "rsp"
    /\ events[i].service = events[j].service /\ events[i].slot = events[j].slot
    /\ events[i].owner # NoProc /\ events[j].owner # NoProc
    => events[i].owner = events[j].owner

(* The slots are the registry the clients rely on.                         *)
OwnerOfSlot ==
  [s \in Services |-> [j \in Slots |->
    IF \E i \in Holding(s) : entries[i].slot[j] # NoProc
    THEN LET i == CHOOSE i \in Holding(s) : entries[i].slot[j] # NoProc
         IN  entries[i].slot[j]
    ELSE NoProc]]
Registry == INSTANCE SlotRegistry WITH Names <- Procs, NoName <- NoProc, owner <- OwnerOfSlot
KeepsRegistry == Registry!Spec

(* A creation that has begun comes to an end, unless a process has died    *)
(* with the lock of a service entry (a spin lock without an owner).        *)
CreationEnds == \A p \in Procs : at[p] \notin Ended ~> (at[p] \in Ended \/ lost)
=============================================================================
