---------------------------- MODULE SlotRegistry ----------------------------
(***************************************************************************)
(* What the service table promises the clients: within a session of the    *)
(* conductor a client name gets at most one slot of its service, a slot    *)
(* belongs to one name, and neither changes until the session ends.        *)
(***************************************************************************)
CONSTANTS Services, Slots, Names,
  NoName \* not a name

VARIABLE owner \* the name each slot belongs to

Free == [s \in Services |-> [k \in Slots |-> NoName]]

Init == owner = Free

Assign(s, k, n) ==
  /\ owner[s][k] = NoName
  /\ \A j \in Slots : owner[s][j] # n
  /\ owner' = [owner EXCEPT ![s][k] = n]

NewSession == owner' = Free

Next ==
  \/ \E s \in Services, k \in Slots, n \in Names : Assign(s, k, n)
  \/ NewSession

Spec == Init /\ [][Next]_owner
=============================================================================
