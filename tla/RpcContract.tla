---------------------------- MODULE RpcContract ----------------------------
(***************************************************************************)
(* What the service API promises its clients, seen from outside: inside    *)
(* one run of the simulation a call is executed at most once, is answered  *)
(* only after it was executed, and is answered with its own result; a call *)
(* of an earlier run is abandoned, never answered (the section "What the   *)
(* service API guarantees across runs" of examples/service_polling).       *)
(***************************************************************************)
EXTENDS Naturals

CONSTANT Clients

VARIABLES
  run,       \* number of starts
  waiting,   \* the clients that wait for the answer to their last call
  since,     \* the run in which a waiting client made its call, else 0
  calls,     \* number of calls the client has made
  executed,  \* how often the server has accepted the client's last call
  answer     \* the call the last answer was for

vars == <<run, waiting, since, calls, executed, answer>>

Init ==
  /\ run = 0
  /\ waiting = {}
  /\ since = [c \in Clients |-> 0]
  /\ calls = [c \in Clients |-> 0]
  /\ executed = [c \in Clients |-> 0]
  /\ answer = [c \in Clients |-> 0]

NewRun ==
  /\ run' = run + 1
  /\ UNCHANGED <<waiting, since, calls, executed, answer>>

\* A client calls when it does not wait for an answer of this run.
Call(c) ==
  /\ run > 0
  /\ c \in waiting => since[c] # run
  /\ waiting' = waiting \union {c}
  /\ since' = [since EXCEPT ![c] = run]
  /\ calls' = [calls EXCEPT ![c] = @ + 1]
  /\ executed' = [executed EXCEPT ![c] = 0]
  /\ UNCHANGED <<run, answer>>

Execute(c) ==
  /\ c \in waiting /\ since[c] = run
  /\ executed[c] = 0
  /\ executed' = [executed EXCEPT ![c] = 1]
  /\ UNCHANGED <<run, waiting, since, calls, answer>>

Return(c) ==
  /\ c \in waiting /\ since[c] = run
  /\ executed[c] = 1
  /\ waiting' = waiting \ {c}
  /\ since' = [since EXCEPT ![c] = 0]
  /\ answer' = [answer EXCEPT ![c] = calls[c]]
  /\ UNCHANGED <<run, calls, executed>>

Abandon(c) ==
  /\ c \in waiting /\ since[c] # run
  /\ waiting' = waiting \ {c}
  /\ since' = [since EXCEPT ![c] = 0]
  /\ UNCHANGED <<run, calls, executed, answer>>

Next ==
  \/ NewRun
  \/ \E c \in Clients : Call(c) \/ Execute(c) \/ Return(c) \/ Abandon(c)

Spec == Init /\ [][Next]_vars
=============================================================================
