----------------------------- MODULE ServiceRpc -----------------------------
(***************************************************************************)
(* One service with its server and its clients over the shared PDU         *)
(* channels: HakoServiceServerProtocol and HakoServiceClientProtocol with  *)
(* the state machines below them, get_request/put_response/put_request/    *)
(* get_response on the receive-event flags, and the run generation that    *)
(* separates one simulation run from the next.                             *)
(*                                                                         *)
(* A channel is one PDU buffer with one receive flag (RecvEvent shows when *)
(* that holds).  A step is one critical section on a channel: the flag is  *)
(* consumed in one and the PDU is read in the next one.  Everything else   *)
(* the two protocol objects touch is local to their process.               *)
(*                                                                         *)
(* How the applications use the API is a parameter.  With Usage = {} they  *)
(* follow examples/service_polling: one thread per object, a request only  *)
(* from IDLE, no progress reports, work of a stopped run is dropped.       *)
(***************************************************************************)
EXTENDS Integers

CONSTANTS
  MaxClients, \* maxClients of the service
  MaxCalls,   \* bound on the calls of a client
  MaxRuns,    \* bound on the starts of the simulation
  Usage       \* what else the applications do

ASSUME ConstantsAssumption ==
  /\ MaxClients \in Nat \ {0}
  /\ MaxCalls \in Nat
  /\ MaxRuns \in Nat
  /\ Usage \subseteq {"cancel",   \* clients call cancel_request
                      "retry",    \* clients call again while DOING
                      "progress", \* poll_interval_msec > 0
                      "late",     \* responses come from a worker that survives a stop
                      "unregistered"} \* clients are no assets: a stop does not wait for them

Clients == 0 .. MaxClients - 1
Channels == Clients \X {"req", "rsp"}

VARIABLES
  sim,      \* state of the simulation, kept by hakoniwa-core-cpp
  gen,      \* run_generation in shared memory
  to_clear, \* channels whose flag clear_run_flags has still to lower
  req,      \* request channels: flag and PDU
  rsp,      \* response channels
  srvState, \* state_[] of the server
  cur,      \* current_client_id_
  srvGen,   \* run_generation_ of the server
  reqGen,   \* request_generation_
  poll,     \* where the server's poll is, with the client and the state it captured
  work,     \* the call the application works on, 0 if none
  out,      \* the response the application has built and is sending
  cliState, \* state_ of each client
  cliGen,   \* run_generation_ of each client
  cliPoll,  \* where the client's poll or call is
  call,     \* number of calls the client has sent
  answer,   \* the call the last response taken was computed for
  execs     \* history: how often the server accepted the client's last call

simVars == <<sim, gen, to_clear>>
srvVars == <<srvState, cur, srvGen, reqGen>>
appVars == <<work, out>>
cliVars == <<cliState, cliGen, cliPoll, call, answer>>
vars == <<simVars, req, rsp, srvVars, poll, appVars, cliVars, execs>>

States == {"IDLE", "DOING", "CANCELING"}
Calls == 0 .. MaxCalls

\* DONE with result OK and DONE with result CANCELED are told apart, the result
\* codes of interim responses are not.
Statuses == {"NONE", "DOING", "CANCELING", "DONE", "CANCELED"}
Final == {"DONE", "CANCELED"}

Request  == [flag: BOOLEAN, op: {"REQUEST", "CANCEL"}, call: Calls]
Response == [flag: BOOLEAN, status: Statuses, to: Clients, call: Calls]
Outgoing == [at: {"none", "built", "checked"}, status: Statuses, to: Clients, call: Calls]

NoPoll == [at |-> "idle", client |-> 0, state |-> "IDLE"]
NoOut  == [at |-> "none", status |-> "NONE", to |-> 0, call |-> 0]
-----------------------------------------------------------------------------
Init ==
  /\ sim = "Stopped" /\ gen = 0 /\ to_clear = {}
  /\ req = [c \in Clients |-> [flag |-> FALSE, op |-> "REQUEST", call |-> 0]]
  /\ rsp = [c \in Clients |-> [flag |-> FALSE, status |-> "NONE", to |-> 0, call |-> 0]]
  /\ srvState = [c \in Clients |-> "IDLE"]
  /\ cur = 0 /\ srvGen = 0 /\ reqGen = 0
  /\ poll = NoPoll
  /\ work = 0 /\ out = NoOut
  /\ cliState = [c \in Clients |-> "IDLE"]
  /\ cliGen = [c \in Clients |-> 0]
  /\ cliPoll = [c \in Clients |-> "idle"]
  /\ call = [c \in Clients |-> 0]
  /\ answer = [c \in Clients |-> 0]
  /\ execs = [c \in Clients |-> 0]

-----------------------------------------------------------------------------
(* The simulation.  Runnable is published and on_pdu_data_create starts the *)
(* new generation before it clears the flags one by one; Running and        *)
(* Stopped come when every registered asset has acknowledged, which it does *)
(* from the thread that polls, so never in the middle of a call.            *)
InLoop ==
  /\ poll = NoPoll
  /\ "unregistered" \in Usage \/ \A c \in Clients : cliPoll[c] = "idle"

Start ==
  /\ sim = "Stopped" /\ gen < MaxRuns
  /\ sim' = "Runnable"
  /\ gen' = gen + 1
  /\ to_clear' = Channels
  /\ UNCHANGED <<req, rsp, srvVars, poll, appVars, cliVars, execs>>

\* on_pdu_data_reset: the flags are cleared, the generation stays.
Reset ==
  /\ sim = "Stopped" /\ gen > 0
  /\ sim' = "Resetting"
  /\ to_clear' = Channels
  /\ UNCHANGED <<gen, req, rsp, srvVars, poll, appVars, cliVars, execs>>

\* Mutant of ClearFlag: only request flags are lowered.
ClearRequestFlag(ch) ==
  /\ ch \in to_clear
  /\ to_clear' = to_clear \ {ch}
  /\ IF ch[2] = "req" THEN req' = [req EXCEPT ![ch[1]].flag = FALSE] ELSE UNCHANGED req
  /\ UNCHANGED <<sim, gen, rsp, srvVars, poll, appVars, cliVars, execs>>

ClearFlag(ch) ==
  /\ ch \in to_clear
  /\ to_clear' = to_clear \ {ch}
  /\ IF ch[2] = "req"
       THEN req' = [req EXCEPT ![ch[1]].flag = FALSE] /\ UNCHANGED rsp
       ELSE rsp' = [rsp EXCEPT ![ch[1]].flag = FALSE] /\ UNCHANGED req
  /\ UNCHANGED <<sim, gen, srvVars, poll, appVars, cliVars, execs>>

Acknowledged ==
  /\ to_clear = {}
  /\ \/ sim = "Runnable" /\ sim' = "Running"
     \/ sim = "Resetting" /\ sim' = "Stopped"
  /\ UNCHANGED <<gen, to_clear, req, rsp, srvVars, poll, appVars, cliVars, execs>>

Stop ==
  /\ sim = "Running"
  /\ sim' = "Stopping"
  /\ UNCHANGED <<gen, to_clear, req, rsp, srvVars, poll, appVars, cliVars, execs>>

\* The application drops the request in progress when Stop arrives, unless a
\* worker goes on with it.
Stopped ==
  /\ sim = "Stopping"
  /\ InLoop
  /\ sim' = "Stopped"
  /\ IF "late" \in Usage THEN UNCHANGED appVars
                         ELSE out = NoOut /\ work' = 0 /\ UNCHANGED out
  /\ UNCHANGED <<gen, to_clear, req, rsp, srvVars, poll, cliVars, execs>>

-----------------------------------------------------------------------------
\* Mutants of SrvNow and CliNow: the state of the last run is kept.
SrvKept == srvState
CliKept(c) == cliState[c]

\* reset_if_new_run of the server and of a client.
SrvNow == IF srvGen = gen THEN srvState ELSE [c \in Clients |-> "IDLE"]
CurNow == IF srvGen = gen THEN cur ELSE 0
CliNow(c) == IF cliGen[c] = gen THEN cliState[c] ELSE "IDLE"

\* Mutants of Reply: the client after the last one is polled, the request is not
\* marked done.
ReplyNoWrap(status, to, n) ==
  /\ ~rsp[cur].flag
  /\ rsp' = [rsp EXCEPT ![cur] = [flag |-> TRUE, status |-> status, to |-> to, call |-> n]]
  /\ srvState' = [srvState EXCEPT ![cur] = "IDLE"]
  /\ cur' = cur + 1

ReplyNotDone(status, to, n) ==
  /\ ~rsp[cur].flag
  /\ rsp' = [rsp EXCEPT ![cur] = [flag |-> TRUE, status |-> status, to |-> to, call |-> n]]
  /\ UNCHANGED srvState
  /\ cur' = (cur + 1) % MaxClients

\* reply: the response is written when the channel is free, and then the request
\* is done; the next client is polled either way.
Reply(status, to, n) ==
  /\ IF rsp[cur].flag
       THEN UNCHANGED <<rsp, srvState>>
       ELSE /\ rsp' = [rsp EXCEPT ![cur] =
                 [flag |-> TRUE, status |-> status, to |-> to, call |-> n]]
            /\ srvState' = [srvState EXCEPT ![cur] = "IDLE"]
  /\ cur' = (cur + 1) % MaxClients

\* A thread of its own answers only with "late".
SameThread == "late" \in Usage \/ out = NoOut

(* server_poll up to get_recv_event: the captured client's flag is consumed; *)
(* without data a progress report may be due.                                *)
PollBegin ==
  /\ sim = "Running"
  /\ poll = NoPoll /\ SameThread
  /\ srvGen' = gen /\ srvState' = SrvNow /\ cur' = CurNow
  /\ LET at(step) == [at |-> step, client |-> CurNow, state |-> SrvNow[CurNow]] IN
       \/ /\ req[CurNow].flag
          /\ req' = [req EXCEPT ![CurNow].flag = FALSE]
          /\ poll' = at("read")
       \/ /\ ~req[CurNow].flag
          /\ UNCHANGED req
          /\ \/ UNCHANGED poll
             \/ /\ "progress" \in Usage /\ SrvNow[CurNow] = "DOING"
                /\ poll' = at("status")
  /\ UNCHANGED <<simVars, rsp, reqGen, appVars, cliVars, execs>>

(* The PDU is read.  In IDLE a REQUEST is accepted (copy_user_buffer,        *)
(* event_start_service) and a CANCEL ignored; ...                            *)
PollRead ==
  /\ poll.at = "read" /\ poll.state = "IDLE"
  /\ poll' = NoPoll
  /\ IF req[poll.client].op = "REQUEST"
       THEN /\ reqGen' = srvGen
            /\ srvState' = [srvState EXCEPT ![poll.client] =
                              IF @ = "IDLE" THEN "DOING" ELSE @]
            /\ work' = req[poll.client].call
            /\ execs' = [execs EXCEPT ![poll.client] = @ + 1]
       ELSE UNCHANGED <<reqGen, srvState, work, execs>>
  /\ UNCHANGED <<simVars, req, rsp, cur, srvGen, out, cliVars>>

(* ... in DOING a CANCEL is passed on, anything else is answered BUSY.       *)
PollReadBusy ==
  /\ poll.at = "read" /\ poll.state # "IDLE"
  /\ IF poll.state = "DOING" /\ req[poll.client].op = "CANCEL"
       THEN /\ poll' = NoPoll
            /\ srvState' = [srvState EXCEPT ![poll.client] =
                              IF @ = "DOING" THEN "CANCELING" ELSE @]
       ELSE poll' = [poll EXCEPT !.at = "status"] /\ UNCHANGED srvState
  /\ UNCHANGED <<simVars, req, rsp, cur, srvGen, reqGen, appVars, cliVars, execs>>

(* send_response of an interim status goes through reply as well.            *)
SendStatus ==
  /\ poll.at = "status"
  /\ Reply(poll.state, cur, 0)
  /\ poll' = NoPoll
  /\ UNCHANGED <<simVars, req, srvGen, reqGen, appVars, cliVars, execs>>

-----------------------------------------------------------------------------
(* The application answers: get_response_buffer names the current client, ...*)
BuildResponse ==
  /\ work # 0 /\ out = NoOut
  /\ "late" \in Usage \/ (sim = "Running" /\ poll = NoPoll)
  /\ out' = [at |-> "built", to |-> cur, call |-> work,
             status |-> IF srvState[cur] = "CANCELING" THEN "CANCELED" ELSE "DONE"]
  /\ UNCHANGED <<simVars, req, rsp, srvVars, poll, work, cliVars, execs>>

\* What reply_to_current_request tests before it replies.
AcceptsResponse == gen = reqGen /\ srvState[cur] \in {"DOING", "CANCELING"}

(* ... put_response asks rpc_allowed, the generation and the state; a        *)
(* response that is refused is tried again or given up, ...                  *)
CheckResponse ==
  /\ out.at = "built"
  /\ IF sim = "Running" /\ AcceptsResponse
       THEN out' = [out EXCEPT !.at = "checked"] /\ UNCHANGED work
       ELSE out' = NoOut /\ work' \in {work, 0}
  /\ UNCHANGED <<simVars, req, rsp, srvVars, poll, cliVars, execs>>

(* ... and an accepted one is written.                                       *)
WriteResponse ==
  /\ out.at = "checked"
  /\ Reply(out.status, out.to, out.call)
  /\ out' = NoOut
  /\ work' = IF rsp[cur].flag THEN work ELSE 0
  /\ UNCHANGED <<simVars, req, srvGen, reqGen, poll, cliVars, execs>>

-----------------------------------------------------------------------------
(* request, after reset_if_new_run: the write fails while the last message   *)
(* is unconsumed; a client that is not IDLE stays as it is.                  *)
SendRequest(c, state) ==
  /\ call[c] < MaxCalls
  /\ IF req[c].flag
       THEN /\ cliState' = [cliState EXCEPT ![c] = state]
            /\ UNCHANGED <<req, call, execs>>
       ELSE /\ cliState' = [cliState EXCEPT ![c] = IF state = "IDLE" THEN "DOING" ELSE state]
            /\ call' = [call EXCEPT ![c] = @ + 1]
            /\ req' = [req EXCEPT ![c] = [flag |-> TRUE, op |-> "REQUEST", call |-> call[c] + 1]]
            /\ execs' = [execs EXCEPT ![c] = 0]

(* call_request of an asset, which no start can overtake.                    *)
CallRequest(c) ==
  /\ sim = "Running" /\ cliPoll[c] = "idle"
  /\ CliNow(c) = "IDLE" \/ "retry" \in Usage
  /\ cliGen' = [cliGen EXCEPT ![c] = gen]
  /\ SendRequest(c, CliNow(c))
  /\ UNCHANGED <<simVars, rsp, srvVars, poll, appVars, cliPoll, answer>>

(* call_request of a process that is no asset: is_rpc_allowed, ...           *)
CallEnter(c) ==
  /\ "unregistered" \in Usage
  /\ sim = "Running" /\ cliPoll[c] = "idle"
  /\ CliNow(c) = "IDLE" /\ call[c] < MaxCalls
  /\ cliPoll' = [cliPoll EXCEPT ![c] = "call"]
  /\ UNCHANGED <<simVars, req, rsp, srvVars, poll, appVars, cliState, cliGen, call, answer, execs>>

(* ... reset_if_new_run, ...                                                 *)
CallReset(c) ==
  /\ cliPoll[c] = "call"
  /\ cliPoll' = [cliPoll EXCEPT ![c] = "send"]
  /\ cliGen' = [cliGen EXCEPT ![c] = gen]
  /\ cliState' = [cliState EXCEPT ![c] = CliNow(c)]
  /\ UNCHANGED <<simVars, req, rsp, srvVars, poll, appVars, call, answer, execs>>

(* ... and the write, whatever the simulation has come to by then.           *)
CallSend(c) ==
  /\ cliPoll[c] = "send"
  /\ cliPoll' = [cliPoll EXCEPT ![c] = "idle"]
  /\ SendRequest(c, cliState[c])
  /\ UNCHANGED <<simVars, rsp, srvVars, poll, appVars, cliGen, answer>>

(* cancel_request: only while DOING, without reset_if_new_run, and whatever  *)
(* the simulation's state.                                                   *)
CancelRequest(c) ==
  /\ "cancel" \in Usage
  /\ cliPoll[c] = "idle"
  /\ cliState[c] = "DOING"
  /\ ~req[c].flag
  /\ req' = [req EXCEPT ![c] = [flag |-> TRUE, op |-> "CANCEL", call |-> call[c]]]
  /\ cliState' = [cliState EXCEPT ![c] = "CANCELING"]
  /\ UNCHANGED <<simVars, rsp, srvVars, poll, appVars, cliGen, cliPoll, call, answer, execs>>

(* client_poll: nothing is consumed in IDLE.  An asset polls from the loop   *)
(* that runs while the simulation does; the code itself has no such test.    *)
ClientPoll(c) ==
  /\ sim = "Running" \/ "unregistered" \in Usage
  /\ cliPoll[c] = "idle"
  /\ cliGen' = [cliGen EXCEPT ![c] = gen]
  /\ cliState' = [cliState EXCEPT ![c] = CliNow(c)]
  /\ IF CliNow(c) # "IDLE" /\ rsp[c].flag
       THEN /\ rsp' = [rsp EXCEPT ![c].flag = FALSE]
            /\ cliPoll' = [cliPoll EXCEPT ![c] = "read"]
       ELSE UNCHANGED <<rsp, cliPoll>>
  /\ UNCHANGED <<simVars, req, srvVars, poll, appVars, call, answer, execs>>

(* validate_header looks at the client's name, not at the request id; only a *)
(* final status ends the call.                                               *)
ClientRead(c) ==
  /\ cliPoll[c] = "read"
  /\ cliPoll' = [cliPoll EXCEPT ![c] = "idle"]
  /\ IF rsp[c].to = c /\ rsp[c].status \in Final
       THEN /\ cliState' = [cliState EXCEPT ![c] = "IDLE"]
            /\ answer' = [answer EXCEPT ![c] = rsp[c].call]
       ELSE UNCHANGED <<cliState, answer>>
  /\ UNCHANGED <<simVars, req, rsp, srvVars, poll, appVars, cliGen, call, execs>>

-----------------------------------------------------------------------------
Simulation ==
  Start \/ Reset \/ Acknowledged \/ Stop \/ Stopped \/ \E ch \in Channels : ClearFlag(ch)

Server == PollBegin \/ PollRead \/ PollReadBusy \/ SendStatus
Application == BuildResponse \/ CheckResponse \/ WriteResponse
Client(c) ==
  \/ CallRequest(c) \/ CancelRequest(c)
  \/ CallEnter(c) \/ CallReset(c) \/ CallSend(c)
  \/ ClientPoll(c) \/ ClientRead(c)

Next == Simulation \/ Server \/ Application \/ \E c \in Clients : Client(c)

Spec == Init /\ [][Next]_vars

(* Both sides keep polling and the application answers: each of its steps is *)
(* taken when it stays possible.  No client has to call and no run to stop.  *)
FairSpec ==
  /\ Spec
  /\ WF_vars(PollBegin) /\ WF_vars(PollRead) /\ WF_vars(PollReadBusy) /\ WF_vars(SendStatus)
  /\ SF_vars(BuildResponse) /\ WF_vars(CheckResponse) /\ WF_vars(WriteResponse)
  /\ \A c \in Clients :
       /\ WF_vars(ClientPoll(c)) /\ WF_vars(ClientRead(c))
       /\ WF_vars(CallReset(c)) /\ WF_vars(CallSend(c))
-----------------------------------------------------------------------------
TypeOK ==
  /\ sim \in {"Stopped", "Runnable", "Running", "Stopping", "Resetting"}
  /\ gen \in Nat /\ to_clear \subseteq Channels
  /\ req \in [Clients -> Request] /\ rsp \in [Clients -> Response]
  /\ srvState \in [Clients -> States] /\ cur \in Clients
  /\ srvGen \in Nat /\ reqGen \in Nat
  /\ poll \in [at: {"idle", "read", "status"}, client: Clients, state: States]
  /\ poll.at = "status" => poll.state # "IDLE"
  /\ work \in Calls /\ out \in Outgoing
  /\ cliState \in [Clients -> States] /\ cliGen \in [Clients -> Nat]
  /\ cliPoll \in [Clients -> {"idle", "read", "call", "send"}]
  /\ call \in [Clients -> Calls] /\ answer \in [Clients -> Calls]
  /\ execs \in [Clients -> Nat]

\* A request is in progress only for the client whose turn it is: the turn passes
\* when it has been answered (next_client in reply).  A cancel or a retry breaks it.
OnlyCurrentBusy == \A c \in Clients : srvState[c] # "IDLE" => c = cur

\* The answer to a request in progress in this run is never refused as one of an
\* earlier run (the generation test of reply_to_current_request).
AnswerNotRefused ==
  \A c \in Clients : (srvGen = gen /\ srvState[c] # "IDLE") => reqGen = gen

\* What the server works on in this run was asked for in this run: a start or
\* reset leaves neither a request flag nor a DOING state behind.
RequestsOfThisRun ==
  \A c \in Clients :
    (sim = "Running" /\ srvGen = gen /\ srvState[c] = "DOING") => cliGen[c] = gen

\* Running, with no request of this run accepted yet, means no response is on its
\* way: what a previous run left was cleared or refused (hako_pro_data.cpp:136-138).
StaleResponseRefused ==
  (sim = "Running" /\ reqGen # gen) => \A c \in Clients : ~rsp[c].flag

\* A call never gets stuck: the caller's wait ends, or the run does.  This covers
\* calls made after a start that found requests and responses of the run before.
EveryCallReturns ==
  \A c \in Clients :
    (sim = "Running" /\ cliState[c] # "IDLE") ~> (sim # "Running" \/ cliState[c] = "IDLE")

\* hako_asset_service_server_is_canceled, for a service that exists.
IsCanceled == IF srvState[cur] = "CANCELING" THEN -1 ELSE 0

\* The header file: 1 if canceled, 0 if not (-1 is for errors).
IsCanceledAnswers == IsCanceled = IF srvState[cur] = "CANCELING" THEN 1 ELSE 0

Contract == INSTANCE RpcContract WITH
  run <- gen,
  waiting <- {c \in Clients : cliState[c] # "IDLE"},
  since <- [c \in Clients |-> IF cliState[c] # "IDLE" THEN cliGen[c] ELSE 0],
  calls <- call,
  executed <- execs,
  answer <- answer

\* The service implements the contract: within a run no call is executed twice,
\* answered unexecuted, or answered with the result of another call, and a call
\* of an earlier run is only ever abandoned (flags, states and generations of
\* both sides together).  A cancel that the answer has overtaken breaks it.
KeepsContract == Contract!Spec
=============================================================================
