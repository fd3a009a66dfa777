-------------------------- MODULE ServiceRpcProofs --------------------------
(***************************************************************************)
(* What holds of a service for any number of clients, calls and runs.      *)
(*                                                                         *)
(* TypeOK and AnswerNotRefused hold however the API is used,               *)
(* RequestsOfThisRun when the clients are assets, StaleResponseRefused     *)
(* when no worker survives a stop.  The turn and the contract are for the  *)
(* rules of examples/service_polling, with or without progress reports.    *)
(* There, the inductive invariant says that a call is in exactly one place *)
(* on its way (request flag, server poll, server state, response flag,     *)
(* client poll), that each of these places belongs to a client that waits  *)
(* in this run, and that only flags still to be cleared may be left from a *)
(* run before.                                                             *)
(***************************************************************************)
EXTENDS ServiceRpc, TLAPS

\* Which steps may be under way in which state of the simulation.
PhaseInv ==
  /\ to_clear # {} => sim \in {"Runnable", "Resetting"}
  /\ sim # "Stopped" => gen > 0
  /\ sim \notin {"Running", "Stopping"} => InLoop /\ out = NoOut /\ work = 0
  /\ srvGen <= gen /\ \A c \in Clients : cliGen[c] <= gen

\* The poll in progress, and the response in progress, belong to the current
\* client of this run; never both.  The application may still work on a call that
\* a progress report has ended: then the current client is not being served, and
\* the response is refused.
ServerInv ==
  /\ \A c \in Clients : req[c].op = "REQUEST" /\ srvState[c] # "CANCELING"
  /\ \A c \in Clients : srvState[c] # "IDLE" => c = cur
  /\ poll.at = "idle" => poll = NoPoll
  /\ poll.at # "idle" =>
       /\ poll.client = cur /\ poll.state = srvState[cur]
       /\ srvGen = gen /\ out = NoOut
  /\ poll.at = "read" => poll.state = "IDLE"
  /\ work # 0 => srvGen = gen /\ (srvState[cur] = "DOING" => work = call[cur])
  /\ out # NoOut =>
       /\ work # 0 /\ out.at # "none"
       /\ out.status = "DONE" /\ out.to = cur /\ out.call = work
       /\ out.at = "checked" => srvState[cur] = "DOING"

\* The places a call of client c can be in.
Requested(c) == req[c].flag /\ <<c, "req">> \notin to_clear
Reading(c)   == poll.at = "read" /\ poll.client = c
Serving(c)   == srvGen = gen /\ srvState[c] = "DOING"
Answered(c)  == rsp[c].flag /\ <<c, "rsp">> \notin to_clear
Taking(c)    == cliPoll[c] = "read"

InFlight(c) == Requested(c) \/ Reading(c) \/ Serving(c) \/ Answered(c) \/ Taking(c)

OnePlace(c) ==
  /\ Requested(c) => ~Reading(c) /\ ~Serving(c) /\ ~Answered(c) /\ ~Taking(c)
  /\ Reading(c) => ~Serving(c) /\ ~Answered(c) /\ ~Taking(c)
  /\ Serving(c) => ~Answered(c) /\ ~Taking(c)
  /\ Answered(c) => ~Taking(c)

CallInvOf(c) ==
  /\ OnePlace(c)
  /\ InFlight(c) => cliState[c] = "DOING" /\ cliGen[c] = gen
  /\ Requested(c) \/ Reading(c) => req[c].call = call[c] /\ execs[c] = 0
  /\ Serving(c) => execs[c] = 1 /\ reqGen = gen
  /\ Answered(c) \/ Taking(c) =>
       /\ rsp[c].to = c /\ rsp[c].status \in {"DONE", "DOING"}
       /\ rsp[c].status = "DONE" => rsp[c].call = call[c]
       /\ execs[c] = 1 /\ reqGen = gen
  /\ cliState[c] # "CANCELING"
  /\ cliPoll[c] \in {"idle", "read"}

CallInv == \A c \in Clients : CallInvOf(c)

IInv == TypeOK /\ PhaseInv /\ ServerInv /\ CallInv

-----------------------------------------------------------------------------
(* Types *)

LEMMA Lowered ==
  /\ \A m \in Request : [m EXCEPT !.flag = FALSE] \in Request
  /\ \A m \in Response : [m EXCEPT !.flag = FALSE] \in Response
<1>1. \A m \in Request, b \in BOOLEAN : [m EXCEPT !.flag = b] \in Request
  BY SMT DEF Request
<1>2. \A m \in Response, b \in BOOLEAN : [m EXCEPT !.flag = b] \in Response
  BY SMT DEF Response
<1> QED
  BY <1>1, <1>2, Zenon

\* Lowering a flag touches neither the PDU nor another channel.
LEMMA LowerReq ==
  ASSUME TypeOK, NEW x \in Clients, req' = [req EXCEPT ![x].flag = FALSE]
  PROVE  \A c \in Clients :
           /\ req'[c].op = req[c].op /\ req'[c].call = req[c].call
           /\ req'[c].flag => c # x /\ req[c].flag
<1> SUFFICES ASSUME NEW c \in Clients
             PROVE  /\ req'[c].op = req[c].op /\ req'[c].call = req[c].call
                    /\ req'[c].flag => c # x /\ req[c].flag
  OBVIOUS
<1>1. CASE c = x
  <2>1. req'[c] = [req[c] EXCEPT !.flag = FALSE]
    BY <1>1 DEF TypeOK
  <2>2. req[c] \in Request
    BY DEF TypeOK
  <2> QED
    BY <2>1, <2>2 DEF Request
<1>2. CASE c # x
  BY <1>2 DEF TypeOK
<1> QED
  BY <1>1, <1>2

LEMMA LowerRsp ==
  ASSUME TypeOK, NEW x \in Clients, rsp' = [rsp EXCEPT ![x].flag = FALSE]
  PROVE  \A c \in Clients :
           /\ rsp'[c].status = rsp[c].status
           /\ rsp'[c].to = rsp[c].to /\ rsp'[c].call = rsp[c].call
           /\ rsp'[c].flag => c # x /\ rsp[c].flag
<1> SUFFICES ASSUME NEW c \in Clients
             PROVE  /\ rsp'[c].status = rsp[c].status
                    /\ rsp'[c].to = rsp[c].to /\ rsp'[c].call = rsp[c].call
                    /\ rsp'[c].flag => c # x /\ rsp[c].flag
  OBVIOUS
<1>1. CASE c = x
  <2>1. rsp'[c] = [rsp[c] EXCEPT !.flag = FALSE]
    BY <1>1 DEF TypeOK
  <2>2. rsp[c] \in Response
    BY DEF TypeOK
  <2> QED
    BY <2>1, <2>2 DEF Response
<1>2. CASE c # x
  BY <1>2 DEF TypeOK
<1> QED
  BY <1>1, <1>2

\* next_client stays among the clients.
LEMMA NextClient == \A c \in Clients : (c + 1) % MaxClients \in Clients
  BY ConstantsAssumption DEF Clients

\* 0 is a client and a call number.
LEMMA Zero == 0 \in Clients /\ 0 \in Calls
  BY ConstantsAssumption DEF Clients, Calls

LEMMA InitTypeOK == Init => TypeOK
  BY Zero DEF Init, TypeOK, Request, Response, Outgoing, NoPoll, NoOut, States, Statuses, Channels

LEMMA SrvNowType == ASSUME TypeOK PROVE SrvNow \in [Clients -> States] /\ CurNow \in Clients
  BY Zero DEF TypeOK, SrvNow, CurNow, States

LEMMA CliNowType == ASSUME TypeOK, NEW c \in Clients PROVE CliNow(c) \in States
  BY DEF TypeOK, CliNow, States

LEMMA ReplyType ==
  ASSUME TypeOK, NEW st \in Statuses, NEW to \in Clients, NEW n \in Calls, Reply(st, to, n)
  PROVE  rsp' \in [Clients -> Response] /\ srvState' \in [Clients -> States] /\ cur' \in Clients
<1>1. cur \in Clients /\ cur' \in Clients
  BY NextClient DEF TypeOK, Reply
<1> DEFINE m == [flag |-> TRUE, status |-> st, to |-> to, call |-> n]
<1>2. m \in Response
  BY DEF Response
<1>3. rsp' = rsp \/ rsp' = [rsp EXCEPT ![cur] = m]
  BY DEF Reply
<1>4. srvState' = srvState \/ srvState' = [srvState EXCEPT ![cur] = "IDLE"]
  BY DEF Reply
<1> HIDE DEF m
<1> QED
  BY <1>1, <1>2, <1>3, <1>4 DEF TypeOK, States

LEMMA SendRequestType ==
  ASSUME TypeOK, NEW c \in Clients, NEW st \in States, SendRequest(c, st)
  PROVE  /\ req' \in [Clients -> Request] /\ cliState' \in [Clients -> States]
         /\ call' \in [Clients -> Calls] /\ execs' \in [Clients -> Nat]
<1>1. CASE req[c].flag
  BY <1>1 DEF TypeOK, SendRequest
<1>2. CASE ~req[c].flag
  <2>1. call[c] + 1 \in Calls
    BY ConstantsAssumption DEF TypeOK, SendRequest, Calls
  <2> DEFINE m == [flag |-> TRUE, op |-> "REQUEST", call |-> call[c] + 1]
  <2>2. m \in Request
    BY <2>1 DEF Request
  <2>3. req' = [req EXCEPT ![c] = m]
    BY <1>2 DEF SendRequest
  <2> HIDE DEF m
  <2>4. req' \in [Clients -> Request]
    BY <2>2, <2>3 DEF TypeOK
  <2>5. cliState' \in [Clients -> States]
    BY <1>2 DEF TypeOK, SendRequest, States
  <2> QED
    BY <1>2, <2>1, <2>4, <2>5 DEF TypeOK, SendRequest
<1> QED
  BY <1>1, <1>2

LEMMA NextTypeOK == ASSUME TypeOK, Next PROVE TypeOK'
<1> USE DEF TypeOK
<1>1. ASSUME Start PROVE TypeOK'
  BY <1>1 DEF Start, srvVars, appVars, cliVars
<1>2. ASSUME Reset PROVE TypeOK'
  BY <1>2 DEF Reset, srvVars, appVars, cliVars
<1>3. ASSUME Acknowledged PROVE TypeOK'
  BY <1>3 DEF Acknowledged, srvVars, appVars, cliVars
<1>4. ASSUME Stop PROVE TypeOK'
  BY <1>4 DEF Stop, srvVars, appVars, cliVars
<1>5. ASSUME Stopped PROVE TypeOK'
  BY <1>5, Zero DEF Stopped, srvVars, appVars, cliVars
<1>6. ASSUME NEW ch \in Channels, ClearFlag(ch) PROVE TypeOK'
  <2>1. ch[1] \in Clients
    BY DEF Channels
  <2>2. req' \in [Clients -> Request] /\ rsp' \in [Clients -> Response]
    BY <1>6, <2>1, Lowered DEF ClearFlag
  <2> QED
    BY <1>6, <2>2 DEF ClearFlag, srvVars, appVars, cliVars
<1>7. ASSUME PollBegin PROVE TypeOK'
  <2>1. req' \in [Clients -> Request]
    BY <1>7, SrvNowType, Lowered DEF PollBegin
  <2>2. poll' \in [at: {"idle", "read", "status"}, client: Clients, state: States]
    BY <1>7, SrvNowType DEF PollBegin
  <2> QED
    BY <1>7, <2>1, <2>2, SrvNowType DEF PollBegin, simVars, appVars, cliVars
<1>8. ASSUME PollRead PROVE TypeOK'
  <2>1. poll.client \in Clients /\ req[poll.client] \in Request
    BY DEF PollRead
  <2>2. req[poll.client].call \in Calls
    BY <2>1 DEF Request
  <2>3. /\ poll' \in [at: {"idle", "read", "status"}, client: Clients, state: States]
        /\ poll'.at # "status"
    BY <1>8, Zero DEF PollRead, NoPoll, States
  <2>4. srvState' \in [Clients -> States]
    BY <1>8, <2>1 DEF PollRead, States
  <2> QED
    BY <1>8, <2>1, <2>2, <2>3, <2>4 DEF PollRead, simVars, cliVars
<1>9. ASSUME PollReadBusy PROVE TypeOK'
  <2>1. poll' = NoPoll \/ poll' = [poll EXCEPT !.at = "status"]
    BY <1>9 DEF PollReadBusy
  <2>2. /\ poll' \in [at: {"idle", "read", "status"}, client: Clients, state: States]
        /\ poll'.at = "status" => poll'.state # "IDLE"
    <3>1. CASE poll' = NoPoll
      BY <3>1, Zero DEF NoPoll, States
    <3>2. CASE poll' = [poll EXCEPT !.at = "status"]
      <4>1. poll.state # "IDLE"
        BY <1>9 DEF PollReadBusy
      <4> QED
        BY <3>2, <4>1
    <3> QED
      BY <2>1, <3>1, <3>2
  <2>3. srvState' \in [Clients -> States]
    BY <1>9 DEF PollReadBusy, States
  <2> QED
    BY <1>9, <2>2, <2>3 DEF PollReadBusy, simVars, appVars, cliVars
<1>10. ASSUME SendStatus PROVE TypeOK'
  <2>1. poll.state \in Statuses
    BY <1>10 DEF SendStatus, States, Statuses
  <2>2. rsp' \in [Clients -> Response] /\ srvState' \in [Clients -> States] /\ cur' \in Clients
    BY <1>10, <2>1, Zero, ReplyType DEF SendStatus
  <2>3. /\ poll' \in [at: {"idle", "read", "status"}, client: Clients, state: States]
        /\ poll'.at = "status" => poll'.state # "IDLE"
    BY <1>10, Zero DEF SendStatus, NoPoll, States
  <2> QED
    BY <1>10, <2>2, <2>3 DEF SendStatus, simVars, appVars, cliVars
<1>11. ASSUME BuildResponse PROVE TypeOK'
  BY <1>11 DEF BuildResponse, Outgoing, Statuses, simVars, srvVars, cliVars
<1>12. ASSUME CheckResponse PROVE TypeOK'
  BY <1>12, Zero DEF CheckResponse, Outgoing, NoOut, Statuses, simVars, srvVars, cliVars
<1>13. ASSUME WriteResponse PROVE TypeOK'
  <2>1. out.status \in Statuses /\ out.to \in Clients /\ out.call \in Calls
    BY DEF Outgoing
  <2>2. out' \in Outgoing /\ work' \in Calls
    BY <1>13, Zero DEF WriteResponse, Outgoing, NoOut, Statuses
  <2> QED
    BY <1>13, <2>1, <2>2, ReplyType DEF WriteResponse, simVars, cliVars
<1>14. ASSUME NEW c \in Clients, CallRequest(c) \/ CallSend(c) PROVE TypeOK'
  <2>1. PICK st \in States : SendRequest(c, st)
    BY <1>14, CliNowType DEF CallRequest, CallSend
  <2>2. /\ req' \in [Clients -> Request] /\ cliState' \in [Clients -> States]
        /\ call' \in [Clients -> Calls] /\ execs' \in [Clients -> Nat]
    BY <2>1, SendRequestType
  <2>3. cliGen' \in [Clients -> Nat] /\ cliPoll' \in [Clients -> {"idle", "read", "call", "send"}]
    BY <1>14 DEF CallRequest, CallSend, simVars
  <2> QED
    BY <1>14, <2>2, <2>3 DEF CallRequest, CallSend, simVars, srvVars, appVars
<1>15. ASSUME NEW c \in Clients, CancelRequest(c) PROVE TypeOK'
  <2>1. [flag |-> TRUE, op |-> "CANCEL", call |-> call[c]] \in Request
    BY DEF Request
  <2> QED
    BY <1>15, <2>1 DEF CancelRequest, States, simVars, srvVars, appVars
<1>16. ASSUME NEW c \in Clients, ClientPoll(c) PROVE TypeOK'
  <2>1. rsp' \in [Clients -> Response]
    BY <1>16, Lowered DEF ClientPoll
  <2> QED
    BY <1>16, <2>1, CliNowType DEF ClientPoll, simVars, srvVars, appVars
<1>17. ASSUME NEW c \in Clients, ClientRead(c) PROVE TypeOK'
  <2>1. rsp[c].call \in Calls
    BY DEF Response
  <2> QED
    BY <1>17, <2>1 DEF ClientRead, States, simVars, srvVars, appVars
<1>18. ASSUME NEW c \in Clients, CallEnter(c) \/ CallReset(c) PROVE TypeOK'
  BY <1>18, CliNowType DEF CallEnter, CallReset, simVars, srvVars, appVars
<1> HIDE DEF TypeOK
<1> QED
  BY <1>1, <1>2, <1>3, <1>4, <1>5, <1>6, <1>7, <1>8, <1>9, <1>10, <1>11, <1>12,
     <1>13, <1>14, <1>15, <1>16, <1>17, <1>18
  DEF Next, Simulation, Server, Application, Client

LEMMA StutterTypeOK == ASSUME TypeOK, UNCHANGED vars PROVE TypeOK'
  BY DEF TypeOK, vars, simVars, srvVars, appVars, cliVars

\* However the applications use the API, states, flags, clients and calls stay in
\* range; in particular next_client never leaves the client table.
THEOREM TypeCorrect == Spec => []TypeOK
  BY InitTypeOK, NextTypeOK, StutterTypeOK, PTL DEF Spec

-----------------------------------------------------------------------------
(* The server's generations, however the API is used *)

\* A busy server of this run accepted its request in this run; a server is never
\* ahead of the run.
GenInv == TypeOK /\ srvGen <= gen /\ AnswerNotRefused

LEMMA NextGenInv == ASSUME GenInv, Next PROVE srvGen' <= gen' /\ AnswerNotRefused'
<1> USE DEF GenInv, AnswerNotRefused
<1>1. ASSUME Start PROVE srvGen' <= gen' /\ AnswerNotRefused'
  BY <1>1 DEF TypeOK, Start, srvVars
<1>2. ASSUME UNCHANGED <<gen, srvGen, reqGen>>,
             \A c \in Clients : srvState'[c] # "IDLE" => srvState[c] # "IDLE"
      PROVE  srvGen' <= gen' /\ AnswerNotRefused'
  BY <1>2
<1>3. ASSUME Reset \/ Acknowledged \/ Stop \/ Stopped \/ \E ch \in Channels : ClearFlag(ch)
      PROVE  srvGen' <= gen' /\ AnswerNotRefused'
  BY <1>2, <1>3 DEF Reset, Acknowledged, Stop, Stopped, ClearFlag, srvVars
<1>4. ASSUME PollBegin PROVE srvGen' <= gen' /\ AnswerNotRefused'
  BY <1>4 DEF TypeOK, PollBegin, SrvNow, simVars
<1>5. ASSUME PollRead PROVE srvGen' <= gen' /\ AnswerNotRefused'
  BY <1>5 DEF TypeOK, PollRead, simVars
<1>6. ASSUME PollReadBusy PROVE srvGen' <= gen' /\ AnswerNotRefused'
  BY <1>6 DEF TypeOK, PollReadBusy, simVars
<1>7. ASSUME SendStatus \/ WriteResponse PROVE srvGen' <= gen' /\ AnswerNotRefused'
  BY <1>7 DEF TypeOK, SendStatus, WriteResponse, Reply, simVars
<1>8. ASSUME BuildResponse \/ CheckResponse PROVE srvGen' <= gen' /\ AnswerNotRefused'
  BY <1>2, <1>8 DEF BuildResponse, CheckResponse, simVars, srvVars
<1>9. ASSUME NEW c \in Clients, Client(c) PROVE srvGen' <= gen' /\ AnswerNotRefused'
  BY <1>2, <1>9 DEF Client, CallRequest, CancelRequest, CallEnter, CallReset, CallSend,
     ClientPoll, ClientRead, simVars, srvVars
<1> QED
  BY <1>1, <1>3, <1>4, <1>5, <1>6, <1>7, <1>8, <1>9 DEF Next, Simulation, Server, Application

\* The generation test never refuses the answer to a request in progress in this
\* run, however the applications use the API.
THEOREM AnswerNotRefusedCorrect == Spec => []AnswerNotRefused
<1>1. Init => GenInv
  BY InitTypeOK DEF Init, GenInv, AnswerNotRefused
<1>2. GenInv /\ [Next]_vars => GenInv'
  <2>1. ASSUME GenInv, Next PROVE GenInv'
    BY <2>1, NextTypeOK, NextGenInv DEF GenInv
  <2>2. ASSUME GenInv, UNCHANGED vars PROVE GenInv'
    BY <2>2, StutterTypeOK DEF GenInv, AnswerNotRefused, vars, simVars, srvVars
  <2> QED
    BY <2>1, <2>2
<1>3. GenInv => AnswerNotRefused
  BY DEF GenInv
<1> QED
  BY <1>1, <1>2, <1>3, PTL DEF Spec

-----------------------------------------------------------------------------
(* Requests, for clients that are assets *)

\* A request that waits or is being read was written in this run, and so was the
\* one being served.
FreshInvOf(c) ==
  /\ cliPoll[c] \in {"idle", "read"}
  /\ (Requested(c) \/ Reading(c)) /\ req[c].op = "REQUEST" => cliGen[c] = gen
  /\ Serving(c) => cliGen[c] = gen

FreshInv ==
  /\ TypeOK /\ srvGen <= gen
  /\ to_clear # {} => sim \in {"Runnable", "Resetting"}
  /\ poll # NoPoll => sim \in {"Running", "Stopping"}
  /\ poll.at = "idle" => poll = NoPoll
  /\ \A c \in Clients : FreshInvOf(c)

LEMMA NextFreshInvOf ==
  ASSUME "unregistered" \notin Usage, FreshInv, Next, NEW d \in Clients PROVE FreshInvOf(d)'
<1>0. FreshInvOf(d) /\ TypeOK
  BY DEF FreshInv
<1> USE DEF FreshInvOf, Requested, Reading, Serving
<1>1. ASSUME Start PROVE FreshInvOf(d)'
  <2>1. <<d, "req">> \in to_clear' /\ gen' # srvGen /\ poll = NoPoll
    BY <1>1 DEF FreshInv, TypeOK, Start, Channels
  <2> QED
    BY <1>0, <1>1, <2>1 DEF Start, NoPoll, srvVars, cliVars
<1>2. ASSUME Reset \/ Acknowledged \/ Stop \/ Stopped PROVE FreshInvOf(d)'
  BY <1>0, <1>2 DEF FreshInv, Reset, Acknowledged, Stop, Stopped, srvVars, cliVars
<1>3. ASSUME NEW ch \in Channels, ClearFlag(ch) PROVE FreshInvOf(d)'
  <2>1. ch[1] \in Clients /\ ch = <<ch[1], ch[2]>>
    BY DEF Channels
  <2>2. req'[d].op = req[d].op /\ (Requested(d)' => Requested(d))
    BY <1>0, <1>3, <2>1, LowerReq DEF ClearFlag
  <2> QED
    BY <1>0, <1>3, <2>2 DEF ClearFlag, srvVars, cliVars
<1>4. ASSUME PollBegin PROVE FreshInvOf(d)'
  <2>1. CurNow \in Clients /\ to_clear = {} /\ poll = NoPoll
    BY <1>4, SrvNowType DEF FreshInv, PollBegin
  <2>2. req'[d].op = req[d].op /\ (req'[d].flag => req[d].flag)
    BY <1>0, <1>4, <2>1, LowerReq DEF PollBegin
  <2>3. Serving(d)' => Serving(d)
    BY <1>4 DEF PollBegin, SrvNow, simVars
  <2>4. Reading(d)' => req[d].flag
    BY <1>4, <2>1 DEF PollBegin, NoPoll
  <2>5. Requested(d)' \/ Reading(d)' => Requested(d)
    BY <2>1, <2>2, <2>4
  <2>6. UNCHANGED <<gen, cliGen, cliPoll>>
    BY <1>4 DEF PollBegin, simVars, cliVars
  <2>7. (Requested(d)' \/ Reading(d)') /\ req'[d].op = "REQUEST" => cliGen'[d] = gen'
    BY <1>0, <2>2, <2>5, <2>6
  <2>8. Serving(d)' => cliGen'[d] = gen'
    BY <1>0, <2>3, <2>6
  <2>9. cliPoll'[d] \in {"idle", "read"}
    BY <1>0, <2>6
  <2> QED
    BY <2>7, <2>8, <2>9
<1>5. ASSUME PollRead PROVE FreshInvOf(d)'
  <2>1. Serving(d)' => Serving(d) \/ (Reading(d) /\ req[d].op = "REQUEST")
    <3>1. poll.at = "read" /\ poll.client \in Clients /\ UNCHANGED <<gen, srvGen>>
      BY <1>0, <1>5 DEF TypeOK, PollRead, simVars
    <3>2. CASE req[poll.client].op = "REQUEST" /\ d = poll.client
      BY <3>1, <3>2
    <3>3. CASE req[poll.client].op # "REQUEST" \/ d # poll.client
      <4>1. srvState'[d] = srvState[d]
        BY <1>0, <1>5, <3>1, <3>3 DEF TypeOK, PollRead
      <4> QED
        BY <3>1, <4>1
    <3> QED
      BY <3>2, <3>3
  <2>2. ~Reading(d)'
    BY <1>5 DEF PollRead, NoPoll
  <2> QED
    BY <1>0, <1>5, <2>1, <2>2 DEF PollRead, simVars, cliVars
<1>6. ASSUME PollReadBusy PROVE FreshInvOf(d)'
  <2>1. Serving(d)' => Serving(d)
    BY <1>0, <1>6 DEF TypeOK, PollReadBusy, simVars
  <2>2. Reading(d)' => Reading(d)
    BY <1>0, <1>6 DEF TypeOK, PollReadBusy, NoPoll
  <2> QED
    BY <1>0, <1>6, <2>1, <2>2 DEF PollReadBusy, simVars, cliVars
<1>7. ASSUME SendStatus \/ WriteResponse PROVE FreshInvOf(d)'
  <2>1. Serving(d)' => Serving(d)
    BY <1>0, <1>7 DEF TypeOK, SendStatus, WriteResponse, Reply, simVars
  <2>2. Reading(d)' => Reading(d)
    BY <1>7 DEF SendStatus, WriteResponse, NoPoll
  <2> QED
    BY <1>0, <1>7, <2>1, <2>2 DEF SendStatus, WriteResponse, simVars, cliVars
<1>8. ASSUME BuildResponse \/ CheckResponse PROVE FreshInvOf(d)'
  BY <1>0, <1>8 DEF BuildResponse, CheckResponse, simVars, srvVars, cliVars
<1>9. ASSUME NEW c \in Clients, CallRequest(c) PROVE FreshInvOf(d)'
  <2>1. gen' = gen /\ srvGen' = srvGen /\ srvState' = srvState /\ poll' = poll
        /\ to_clear' = to_clear /\ cliPoll' = cliPoll
    BY <1>9 DEF CallRequest, simVars, srvVars
  <2>2. cliGen'[d] = IF d = c THEN gen ELSE cliGen[d]
    BY <1>0, <1>9 DEF TypeOK, CallRequest
  <2>3. d # c => req'[d] = req[d]
    BY <1>0, <1>9 DEF TypeOK, CallRequest, SendRequest
  <2> QED
    BY <1>0, <2>1, <2>2, <2>3
<1>10. ASSUME NEW c \in Clients, CancelRequest(c) PROVE FreshInvOf(d)'
  <2>1. d = c => req'[d].op = "CANCEL"
    BY <1>0, <1>10 DEF TypeOK, CancelRequest
  <2>2. d # c => req'[d] = req[d]
    BY <1>0, <1>10 DEF TypeOK, CancelRequest
  <2> QED
    BY <1>0, <1>10, <2>1, <2>2 DEF CancelRequest, simVars, srvVars
<1>11. ASSUME NEW c \in Clients, ClientPoll(c) \/ ClientRead(c) PROVE FreshInvOf(d)'
  <2>1. cliGen[d] = gen => cliGen'[d] = gen
    BY <1>0, <1>11 DEF TypeOK, ClientPoll, ClientRead
  <2>2. cliPoll'[d] \in {"idle", "read"}
    BY <1>0, <1>11 DEF TypeOK, ClientPoll, ClientRead
  <2> QED
    BY <1>0, <1>11, <2>1, <2>2 DEF ClientPoll, ClientRead, simVars, srvVars
<1>12. ASSUME NEW c \in Clients PROVE ~CallEnter(c) /\ ~CallReset(c) /\ ~CallSend(c)
  BY DEF FreshInv, CallEnter, CallReset, CallSend
<1> HIDE DEF FreshInvOf, Requested, Reading, Serving
<1> QED
  BY <1>1, <1>2, <1>3, <1>4, <1>5, <1>6, <1>7, <1>8, <1>9, <1>10, <1>11, <1>12
  DEF Next, Simulation, Server, Application, Client

\* When flags are being cleared nobody polls; a poll ends before the simulation
\* has stopped.
PollPhase ==
  /\ to_clear # {} => sim \in {"Runnable", "Resetting"}
  /\ poll # NoPoll => sim \in {"Running", "Stopping"}

LEMMA NextPollPhase == ASSUME PollPhase, Next PROVE PollPhase'
<1> USE DEF PollPhase
<1>1. ASSUME Simulation PROVE PollPhase'
  BY <1>1 DEF Simulation, Start, Reset, Acknowledged, Stop, Stopped, ClearFlag, InLoop
<1>2. ASSUME Server PROVE PollPhase'
  BY <1>2 DEF Server, PollBegin, PollRead, PollReadBusy, SendStatus, NoPoll, simVars
<1>3. ASSUME Application PROVE PollPhase'
  BY <1>3 DEF Application, BuildResponse, CheckResponse, WriteResponse, simVars
<1>4. ASSUME NEW c \in Clients, Client(c) PROVE PollPhase'
  BY <1>4 DEF Client, CallRequest, CancelRequest, CallEnter, CallReset, CallSend, ClientPoll,
     ClientRead, simVars
<1> QED
  BY <1>1, <1>2, <1>3, <1>4 DEF Next

LEMMA NextPollIdle ==
  ASSUME TypeOK, poll.at = "idle" => poll = NoPoll, Next
  PROVE  poll'.at = "idle" => poll' = NoPoll
<1>1. ASSUME Simulation \/ Application \/ \E c \in Clients : Client(c) PROVE poll' = poll
  BY <1>1 DEF Simulation, Start, Reset, Acknowledged, Stop, Stopped, ClearFlag,
     Application, BuildResponse, CheckResponse, WriteResponse,
     Client, CallRequest, CancelRequest, CallEnter, CallReset, CallSend, ClientPoll, ClientRead
<1>2. ASSUME PollBegin \/ PollRead \/ SendStatus PROVE poll'.at = "idle" => poll' = NoPoll
  BY <1>2 DEF PollBegin, PollRead, SendStatus, NoPoll
<1>3. ASSUME PollReadBusy PROVE poll'.at = "idle" => poll' = NoPoll
  BY <1>3 DEF PollReadBusy, TypeOK
<1> QED
  BY <1>1, <1>2, <1>3 DEF Next, Server

\* When the clients are assets, no request of an earlier run is served in a later
\* one, however they retry and cancel and whenever the application answers.
THEOREM RequestsOfThisRunCorrect ==
  ASSUME "unregistered" \notin Usage PROVE Spec => []RequestsOfThisRun
<1>1. Init => FreshInv
  <2> SUFFICES ASSUME Init PROVE FreshInv
    OBVIOUS
  <2> QED
    BY InitTypeOK DEF Init, FreshInv, FreshInvOf, Requested, Reading, Serving, NoPoll
<1>2. FreshInv /\ AnswerNotRefused /\ [Next]_vars => FreshInv'
  <2>1. ASSUME FreshInv, AnswerNotRefused, Next PROVE FreshInv'
    <3>1. TypeOK' /\ srvGen' <= gen'
      BY <2>1, NextTypeOK, NextGenInv DEF FreshInv, GenInv
    <3>2. PollPhase' /\ (poll'.at = "idle" => poll' = NoPoll)
      BY <2>1, NextPollPhase, NextPollIdle DEF FreshInv, PollPhase
    <3>3. \A d \in Clients : FreshInvOf(d)'
      BY <2>1, NextFreshInvOf
    <3> QED
      BY <3>1, <3>2, <3>3 DEF FreshInv, PollPhase
  <2>2. ASSUME FreshInv, UNCHANGED vars PROVE FreshInv'
    BY <2>2, StutterTypeOK
    DEF FreshInv, FreshInvOf, Requested, Reading, Serving, vars, simVars, srvVars, cliVars
  <2> QED
    BY <2>1, <2>2
<1>3. FreshInv => RequestsOfThisRun
  BY DEF FreshInv, FreshInvOf, Serving, RequestsOfThisRun
<1> QED
  BY <1>1, <1>2, <1>3, AnswerNotRefusedCorrect, PTL DEF Spec

-----------------------------------------------------------------------------
(* Responses, when work ends with the run *)

\* A response that is on its way, and the poll and the answer that may send one,
\* belong to a request accepted in this run.
StaleInv ==
  /\ GenInv /\ PollPhase
  /\ out # NoOut => sim \in {"Running", "Stopping"}
  /\ poll.at = "read" => srvGen = gen
  /\ poll.at # "idle" /\ poll.state # "IDLE" => reqGen = gen
  /\ out.at = "checked" => reqGen = gen
  /\ \A c \in Clients : Answered(c) => reqGen = gen

LEMMA NextStaleInv == ASSUME "late" \notin Usage, StaleInv, Next PROVE StaleInv'
<1>0. GenInv' /\ PollPhase' /\ TypeOK
  BY NextTypeOK, NextGenInv, NextPollPhase DEF StaleInv, GenInv
<1> DEFINE Rest ==
      /\ out # NoOut => sim \in {"Running", "Stopping"}
      /\ poll.at = "read" => srvGen = gen
      /\ poll.at # "idle" /\ poll.state # "IDLE" => reqGen = gen
      /\ out.at = "checked" => reqGen = gen
      /\ \A c \in Clients : Answered(c) => reqGen = gen
<1>a. Rest
  BY DEF StaleInv
<1>1. ASSUME Start PROVE Rest'
  <2>1. poll = NoPoll /\ out = NoOut
    BY <1>1, <1>a DEF StaleInv, PollPhase, Start
  <2>2. \A c \in Clients : ~Answered(c)'
    BY <1>1 DEF Start, Answered, Channels
  <2> QED
    BY <1>1, <2>1, <2>2 DEF Start, NoPoll, NoOut, srvVars, appVars
<1>2. ASSUME Reset \/ Acknowledged \/ Stop PROVE Rest'
  BY <1>2, <1>a DEF StaleInv, PollPhase, Reset, Acknowledged, Stop, srvVars, appVars, Answered
<1>3. ASSUME Stopped PROVE Rest'
  BY <1>3, <1>a DEF Stopped, InLoop, srvVars, Answered
<1>4. ASSUME NEW ch \in Channels, ClearFlag(ch) PROVE Rest'
  <2>1. ch[1] \in Clients /\ ch = <<ch[1], ch[2]>>
    BY DEF Channels
  <2>2. \A c \in Clients : Answered(c)' => Answered(c)
    BY <1>0, <1>4, <2>1, LowerRsp DEF ClearFlag, Answered
  <2> QED
    BY <1>4, <1>a, <2>2 DEF ClearFlag, srvVars, appVars
<1>5. ASSUME PollBegin PROVE Rest'
  <2>1. /\ out = NoOut /\ srvGen' = gen /\ UNCHANGED <<sim, gen, to_clear, reqGen, out, rsp>>
        /\ \/ poll' = NoPoll
           \/ poll'.at # "idle" /\ poll'.state = SrvNow[CurNow]
    BY <1>5 DEF PollBegin, SameThread, simVars, appVars
  <2>2. SrvNow[CurNow] # "IDLE" => reqGen = gen
    BY <1>0, SrvNowType DEF StaleInv, GenInv, AnswerNotRefused, SrvNow, CurNow, TypeOK
  <2> QED
    BY <1>a, <2>1, <2>2 DEF Answered, NoPoll
<1>6. ASSUME PollRead PROVE Rest'
  <2>1. srvGen = gen
    BY <1>6, <1>a DEF PollRead
  <2>2. poll' = NoPoll /\ reqGen' \in {reqGen, srvGen}
        /\ UNCHANGED <<sim, gen, to_clear, srvGen, out, rsp>>
    BY <1>6 DEF PollRead, simVars
  <2> QED
    BY <1>a, <2>1, <2>2 DEF Answered, NoPoll
<1>7. ASSUME PollReadBusy PROVE Rest'
  <2>1. \/ poll' = NoPoll
        \/ poll'.at = "status" /\ poll'.state = poll.state
    BY <1>0, <1>7 DEF PollReadBusy, TypeOK
  <2>2. poll.at # "idle" /\ UNCHANGED <<sim, gen, to_clear, srvGen, reqGen, out, rsp>>
    BY <1>7 DEF PollReadBusy, simVars, appVars
  <2> QED
    BY <1>a, <2>1, <2>2 DEF Answered, NoPoll
<1>8. ASSUME SendStatus PROVE Rest'
  <2>1. reqGen = gen
    BY <1>0, <1>8, <1>a DEF SendStatus, TypeOK
  <2>2. poll' = NoPoll /\ UNCHANGED <<sim, gen, reqGen, srvGen, out>>
    BY <1>8 DEF SendStatus, simVars, appVars
  <2> QED
    BY <1>a, <2>1, <2>2 DEF NoPoll
<1>9. ASSUME BuildResponse PROVE Rest'
  <2>1. sim = "Running" /\ out'.at = "built"
        /\ UNCHANGED <<sim, gen, to_clear, reqGen, srvGen, poll, rsp>>
    BY <1>9 DEF BuildResponse, simVars, srvVars
  <2> QED
    BY <1>a, <2>1 DEF Answered
<1>10. ASSUME CheckResponse PROVE Rest'
  <2>1. \/ out' = NoOut
        \/ reqGen = gen /\ sim = "Running"
    BY <1>10 DEF CheckResponse, AcceptsResponse
  <2>2. UNCHANGED <<sim, gen, to_clear, reqGen, srvGen, poll, rsp>>
    BY <1>10 DEF CheckResponse, simVars, srvVars
  <2> QED
    BY <1>a, <2>1, <2>2 DEF Answered, NoOut
<1>11. ASSUME WriteResponse PROVE Rest'
  <2>1. reqGen = gen
    BY <1>11, <1>a DEF WriteResponse
  <2>2. out' = NoOut /\ UNCHANGED <<sim, gen, reqGen, srvGen, poll>>
    BY <1>11 DEF WriteResponse, simVars
  <2> QED
    BY <1>a, <2>1, <2>2 DEF NoOut
<1>12. ASSUME NEW x \in Clients, Client(x) PROVE Rest'
  <2>1. UNCHANGED <<sim, gen, to_clear, reqGen, srvGen, poll, out>>
    BY <1>12 DEF Client, CallRequest, CancelRequest, CallEnter, CallReset, CallSend, ClientPoll,
       ClientRead, simVars, srvVars, appVars
  <2>2. rsp' = rsp \/ rsp' = [rsp EXCEPT ![x].flag = FALSE]
    BY <1>12 DEF Client, CallRequest, CancelRequest, CallEnter, CallReset, CallSend, ClientPoll,
       ClientRead
  <2>3. \A c \in Clients : Answered(c)' => Answered(c)
    BY <1>0, <2>1, <2>2, LowerRsp DEF Answered
  <2> QED
    BY <1>a, <2>1, <2>3
<1>13. Rest'
  <2> HIDE DEF Rest
  <2> QED
    BY <1>1, <1>2, <1>3, <1>4, <1>5, <1>6, <1>7, <1>8, <1>9, <1>10, <1>11, <1>12
    DEF Next, Simulation, Server, Application
<1> QED
  BY <1>0, <1>13 DEF StaleInv

\* When the application drops its work at a stop, no response of an earlier run is
\* on its way in a later one, however the clients retry and cancel, whoever they are.
THEOREM StaleResponseRefusedCorrect ==
  ASSUME "late" \notin Usage PROVE Spec => []StaleResponseRefused
<1>1. Init => StaleInv
  <2> SUFFICES ASSUME Init PROVE StaleInv
    OBVIOUS
  <2>1. GenInv
    BY InitTypeOK DEF Init, GenInv, AnswerNotRefused
  <2> QED
    BY <2>1 DEF Init, StaleInv, PollPhase, Answered, NoPoll, NoOut
<1>2. StaleInv /\ [Next]_vars => StaleInv'
  <2>1. ASSUME StaleInv, UNCHANGED vars PROVE StaleInv'
    <3>1. GenInv'
      BY <2>1, StutterTypeOK DEF StaleInv, GenInv, AnswerNotRefused, vars, simVars, srvVars
    <3> QED
      BY <2>1, <3>1 DEF StaleInv, PollPhase, Answered, vars, simVars, srvVars, appVars
  <2> QED
    BY <2>1, NextStaleInv
<1>3. StaleInv => StaleResponseRefused
  BY DEF StaleInv, PollPhase, Answered, StaleResponseRefused
<1> QED
  BY <1>1, <1>2, <1>3, PTL DEF Spec

-----------------------------------------------------------------------------
(* The inductive invariant of the disciplined use *)

LEMMA InitIInv == Init => IInv
<1> SUFFICES ASSUME Init PROVE IInv
  OBVIOUS
<1>1. TypeOK
  BY InitTypeOK
<1>2. PhaseInv
  BY DEF Init, PhaseInv, InLoop
<1>3. ServerInv
  BY DEF Init, ServerInv, NoPoll, NoOut
<1>4. CallInv
  BY DEF Init, CallInv, CallInvOf, OnePlace, InFlight, Requested, Reading, Serving, Answered,
         Taking, NoPoll
<1> QED
  BY <1>1, <1>2, <1>3, <1>4 DEF IInv

\* An asset's call is not interrupted.
LEMMA CallsWhole ==
  ASSUME Usage \subseteq {"progress"}, IInv, NEW c \in Clients PROVE ~CallEnter(c) /\ ~CallReset(c) /\ ~CallSend(c)
  BY DEF IInv, CallInv, CallInvOf, CallEnter, CallReset, CallSend

\* Running and Stopped are reached only with the flags cleared and no call under way.
LEMMA NextPhaseInv == ASSUME Usage \subseteq {"progress"}, IInv, Next PROVE PhaseInv'
<1> USE DEF PhaseInv, InLoop
<1>1. ASSUME Start PROVE PhaseInv'
  BY <1>1 DEF IInv, TypeOK, Start, simVars, srvVars, appVars, cliVars
<1>2. ASSUME Reset PROVE PhaseInv'
  BY <1>2 DEF IInv, TypeOK, Reset, simVars, srvVars, appVars, cliVars
<1>3. ASSUME Acknowledged PROVE PhaseInv'
  BY <1>3 DEF IInv, TypeOK, Acknowledged, simVars, srvVars, appVars, cliVars
<1>4. ASSUME Stop PROVE PhaseInv'
  BY <1>4 DEF IInv, TypeOK, Stop, simVars, srvVars, appVars, cliVars
<1>5. ASSUME Stopped PROVE PhaseInv'
  BY <1>5 DEF IInv, TypeOK, Stopped, simVars, srvVars, appVars, cliVars
<1>6. ASSUME NEW ch \in Channels, ClearFlag(ch) PROVE PhaseInv'
  BY <1>6 DEF IInv, TypeOK, ClearFlag, simVars, srvVars, appVars, cliVars
<1>7. ASSUME PollBegin PROVE PhaseInv'
  BY <1>7 DEF IInv, TypeOK, PollBegin, SrvNow, CurNow, SameThread, simVars, srvVars, appVars, cliVars
<1>8. ASSUME PollRead PROVE PhaseInv'
  <2>1. poll # NoPoll
    BY <1>8 DEF PollRead, NoPoll
  <2>2. sim \in {"Running", "Stopping"} /\ to_clear = {}
    BY <2>1 DEF IInv
  <2> QED
    BY <1>8, <2>2 DEF IInv, PollRead, simVars, srvVars, appVars, cliVars
<1>9. ASSUME PollReadBusy PROVE PhaseInv'
  <2>1. poll # NoPoll
    BY <1>9 DEF PollReadBusy, NoPoll
  <2>2. sim \in {"Running", "Stopping"} /\ to_clear = {}
    BY <2>1 DEF IInv
  <2> QED
    BY <1>9, <2>2 DEF IInv, PollReadBusy, simVars, srvVars, appVars, cliVars
<1>10. ASSUME SendStatus PROVE PhaseInv'
  BY <1>10 DEF IInv, TypeOK, SendStatus, Reply, simVars, srvVars, appVars, cliVars
<1>11. ASSUME BuildResponse PROVE PhaseInv'
  BY <1>11 DEF IInv, TypeOK, BuildResponse, simVars, srvVars, appVars, cliVars
<1>12. ASSUME CheckResponse PROVE PhaseInv'
  BY <1>12 DEF IInv, TypeOK, CheckResponse, AcceptsResponse, simVars, srvVars, appVars, cliVars
<1>13. ASSUME WriteResponse PROVE PhaseInv'
  BY <1>13 DEF IInv, TypeOK, WriteResponse, Reply, simVars, srvVars, appVars, cliVars
<1>14. ASSUME NEW c \in Clients, CallRequest(c) PROVE PhaseInv'
  BY <1>14 DEF IInv, TypeOK, CallRequest, SendRequest, CliNow, simVars, srvVars, appVars, cliVars
<1>15. ASSUME NEW c \in Clients, CancelRequest(c) PROVE PhaseInv'
  BY <1>15 DEF IInv, TypeOK, CancelRequest, simVars, srvVars, appVars, cliVars
<1>16. ASSUME NEW c \in Clients, ClientPoll(c) PROVE PhaseInv'
  BY <1>16 DEF IInv, TypeOK, ClientPoll, CliNow, simVars, srvVars, appVars, cliVars
<1>17. ASSUME NEW c \in Clients, ClientRead(c) PROVE PhaseInv'
  BY <1>17 DEF IInv, TypeOK, ClientRead, simVars, srvVars, appVars, cliVars
<1> HIDE DEF PhaseInv, InLoop
<1> QED
  BY <1>1, <1>2, <1>3, <1>4, <1>5, <1>6, <1>7, <1>8, <1>9,
     <1>10, <1>11, <1>12, <1>13, <1>14, <1>15, <1>16, <1>17, CallsWhole
  DEF Next, Simulation, Server, Application, Client

\* The server serves its current client only.
LEMMA NextServerInv == ASSUME Usage \subseteq {"progress"}, IInv, Next PROVE ServerInv'
<1> USE DEF ServerInv, NoPoll, NoOut
<1>1. ASSUME Start PROVE ServerInv'
  BY <1>1 DEF IInv, TypeOK, Start, PhaseInv, InLoop, simVars, srvVars, appVars, cliVars
<1>2. ASSUME Reset PROVE ServerInv'
  BY <1>2 DEF IInv, TypeOK, Reset, PhaseInv, InLoop, simVars, srvVars, appVars, cliVars
<1>3. ASSUME Acknowledged PROVE ServerInv'
  BY <1>3 DEF IInv, TypeOK, Acknowledged, PhaseInv, InLoop, simVars, srvVars, appVars, cliVars
<1>4. ASSUME Stop PROVE ServerInv'
  BY <1>4 DEF IInv, TypeOK, Stop, PhaseInv, InLoop, simVars, srvVars, appVars, cliVars
<1>5. ASSUME Stopped PROVE ServerInv'
  BY <1>5 DEF IInv, TypeOK, Stopped, PhaseInv, InLoop, simVars, srvVars, appVars, cliVars
<1>6. ASSUME NEW ch \in Channels, ClearFlag(ch) PROVE ServerInv'
  <2>1. ch[1] \in Clients
    BY DEF Channels
  <2>2. \A c \in Clients : req'[c].op = req[c].op
    <3>1. req' = req \/ req' = [req EXCEPT ![ch[1]].flag = FALSE]
      BY <1>6 DEF ClearFlag
    <3> QED
      BY <2>1, <3>1, LowerReq DEF IInv
  <2> QED
    BY <1>6, <2>2 DEF IInv, TypeOK, ClearFlag, simVars, srvVars, appVars, cliVars
<1>7. ASSUME PollBegin PROVE ServerInv'
  <2>1. CurNow \in Clients /\ \A c \in Clients : SrvNow[c] \in {"IDLE", "DOING"}
    BY SrvNowType DEF IInv, TypeOK, SrvNow, States
  <2>2. to_clear = {} /\ out = NoOut
    BY <1>7 DEF IInv, PhaseInv, PollBegin, SameThread
  <2>3. req[CurNow].flag => SrvNow[CurNow] = "IDLE"
    BY <2>1, <2>2 DEF IInv, TypeOK, CallInv, CallInvOf, OnePlace, Requested, Serving, SrvNow
  <2>4. \A c \in Clients : req'[c].op = req[c].op
    BY <1>7, <2>1, LowerReq DEF IInv, PollBegin
  <2>5. \A c \in Clients : SrvNow[c] # "IDLE" => c = CurNow
    BY DEF IInv, SrvNow, CurNow
  <2>6. work # 0 => SrvNow = srvState /\ CurNow = cur
    BY DEF IInv, SrvNow, CurNow
  <2>7. \/ poll' = NoPoll
        \/ poll' = [at |-> "read", client |-> CurNow, state |-> SrvNow[CurNow]] /\ req[CurNow].flag
        \/ poll' = [at |-> "status", client |-> CurNow, state |-> SrvNow[CurNow]]
    BY <1>7 DEF IInv, PollBegin
  <2>8. /\ srvState' = SrvNow /\ cur' = CurNow /\ srvGen' = gen
        /\ UNCHANGED <<gen, work, out, call>>
    BY <1>7 DEF PollBegin, simVars, appVars, cliVars
  <2>9. \A c \in Clients : req'[c].op = "REQUEST" /\ srvState'[c] # "CANCELING"
    BY <2>1, <2>4, <2>8 DEF IInv
  <2>10. \/ poll' = NoPoll
         \/ /\ poll'.client = cur' /\ poll'.state = srvState'[cur']
            /\ poll'.at \in {"read", "status"} /\ (poll'.at = "read" => poll'.state = "IDLE")
    BY <2>3, <2>7, <2>8
  <2>11. work' # 0 => srvGen' = gen' /\ (srvState'[cur'] = "DOING" => work' = call'[cur'])
    BY <2>6, <2>8 DEF IInv
  <2> QED
    BY <2>2, <2>5, <2>8, <2>9, <2>10, <2>11
<1>8. ASSUME PollRead PROVE ServerInv'
  <2>1. /\ poll.client = cur /\ cur \in Clients /\ req[cur].op = "REQUEST"
        /\ srvState[cur] = "IDLE" /\ srvGen = gen /\ out = NoOut
    BY <1>8 DEF IInv, TypeOK, PollRead
  <2>2. req[cur].call = call[cur]
    BY <1>8, <2>1 DEF IInv, CallInv, CallInvOf, Reading, PollRead
  <2>3. /\ srvState' = [srvState EXCEPT ![cur] = "DOING"]
        /\ work' = call[cur] /\ reqGen' = gen
    BY <1>8, <2>1, <2>2 DEF PollRead
  <2> QED
    BY <1>8, <2>1, <2>3 DEF IInv, TypeOK, PollRead, simVars, cliVars
<1>9. ASSUME PollReadBusy PROVE ServerInv'
  BY <1>9 DEF IInv, TypeOK, PollReadBusy, PhaseInv, InLoop, simVars, srvVars, appVars, cliVars
<1>10. ASSUME SendStatus PROVE ServerInv'
  <2>1. /\ poll.state = "DOING" /\ cur \in Clients /\ srvState[cur] = "DOING" /\ srvGen = gen
        /\ out = NoOut /\ poll # NoPoll
    BY <1>10 DEF IInv, TypeOK, SendStatus, States
  <2>2. to_clear = {}
    BY <2>1 DEF IInv, PhaseInv, InLoop
  <2>3. ~rsp[cur].flag
    BY <2>1, <2>2 DEF IInv, CallInv, CallInvOf, OnePlace, Serving, Answered
  <2>4. srvState' = [srvState EXCEPT ![cur] = "IDLE"] /\ poll' = NoPoll
    BY <1>10, <2>3 DEF SendStatus, Reply
  <2>5. \A c \in Clients : srvState'[c] = "IDLE"
    BY <2>1, <2>4 DEF IInv, TypeOK, States
  <2>6. UNCHANGED <<gen, req, srvGen, work, out>> /\ cur' \in Clients
    BY <1>10, <2>1, NextClient DEF SendStatus, Reply, simVars, appVars
  <2> QED
    BY <2>1, <2>4, <2>5, <2>6 DEF IInv
<1>11. ASSUME BuildResponse PROVE ServerInv'
  BY <1>11 DEF IInv, TypeOK, BuildResponse, PhaseInv, InLoop, simVars, srvVars, appVars, cliVars
<1>12. ASSUME CheckResponse PROVE ServerInv'
  <2>1. work # 0
    BY <1>12 DEF IInv, CheckResponse
  <2>2. poll = NoPoll
    BY <1>12 DEF IInv, TypeOK, CheckResponse
  <2>3. \/ out' = [out EXCEPT !.at = "checked"] /\ work' = work
        \/ out' = NoOut /\ work' \in {work, 0}
    BY <1>12 DEF CheckResponse
  <2>4. UNCHANGED <<gen, poll, req, srvState, cur, srvGen, call>>
    BY <1>12 DEF CheckResponse, simVars, srvVars, cliVars
  <2>5. CASE out' = NoOut /\ work' \in {work, 0}
    BY <2>2, <2>4, <2>5 DEF IInv
  <2>6. CASE out' # NoOut
    <3>1. out' = [out EXCEPT !.at = "checked"] /\ work' = work /\ srvState[cur] = "DOING"
      <4>1. sim = "Running" /\ AcceptsResponse
        BY <1>12, <2>6 DEF CheckResponse
      <4>2. cur \in Clients
        BY DEF IInv, TypeOK
      <4> QED
        BY <1>12, <4>1, <4>2 DEF CheckResponse, AcceptsResponse, IInv
    <3>2. out \in Outgoing /\ out # NoOut
      BY <1>12 DEF IInv, TypeOK, CheckResponse
    <3>3. /\ out'.at = "checked" /\ out'.status = out.status
          /\ out'.to = out.to /\ out'.call = out.call
      BY <3>1, <3>2 DEF Outgoing
    <3> QED
      BY <2>1, <2>2, <2>4, <3>1, <3>2, <3>3 DEF IInv
  <2> QED
    BY <2>3, <2>5, <2>6
<1>13. ASSUME WriteResponse PROVE ServerInv'
  <2>1. /\ work # 0 /\ poll = NoPoll
        /\ cur \in Clients /\ srvState[cur] = "DOING" /\ srvGen = gen
    BY <1>13 DEF IInv, TypeOK, WriteResponse
  <2>2. to_clear = {}
    BY <2>1 DEF IInv, PhaseInv
  <2>3. ~rsp[cur].flag
    BY <2>1, <2>2 DEF IInv, CallInv, CallInvOf, OnePlace, Serving, Answered
  <2>4. srvState' = [srvState EXCEPT ![cur] = "IDLE"] /\ work' = 0 /\ out' = NoOut
    BY <1>13, <2>3 DEF WriteResponse, Reply
  <2>5. \A c \in Clients : srvState'[c] = "IDLE"
    BY <2>1, <2>4 DEF IInv, TypeOK, States
  <2>6. UNCHANGED <<gen, req, poll>> /\ cur' \in Clients
    BY <1>13, <2>1, NextClient DEF WriteResponse, Reply, simVars
  <2> QED
    BY <2>1, <2>4, <2>5, <2>6 DEF IInv
<1>14. ASSUME NEW c \in Clients, CallRequest(c) PROVE ServerInv'
  <2>1. work # 0 /\ srvState[cur] = "DOING" => c # cur
    BY <1>14 DEF IInv, CallInv, CallInvOf, InFlight, Serving, CallRequest, CliNow
  <2>2. \A d \in Clients : req'[d].op = req[d].op
    BY <1>14 DEF IInv, TypeOK, CallRequest, SendRequest
  <2>3. \A d \in Clients : d # c => call'[d] = call[d]
    BY <1>14 DEF IInv, TypeOK, CallRequest, SendRequest
  <2> QED
    BY <1>14, <2>1, <2>2, <2>3 DEF IInv, TypeOK, CallRequest, SendRequest, simVars, srvVars, appVars
<1>15. ASSUME NEW c \in Clients, CancelRequest(c) PROVE ServerInv'
  BY <1>15 DEF IInv, TypeOK, CancelRequest, PhaseInv, InLoop, simVars, srvVars, appVars, cliVars
<1>16. ASSUME NEW c \in Clients, ClientPoll(c) PROVE ServerInv'
  BY <1>16 DEF IInv, TypeOK, ClientPoll, CliNow, PhaseInv, InLoop, simVars, srvVars, appVars, cliVars
<1>17. ASSUME NEW c \in Clients, ClientRead(c) PROVE ServerInv'
  BY <1>17 DEF IInv, TypeOK, ClientRead, PhaseInv, InLoop, simVars, srvVars, appVars, cliVars
<1> HIDE DEF ServerInv, NoPoll, NoOut
<1> QED
  BY <1>1, <1>2, <1>3, <1>4, <1>5, <1>6, <1>7, <1>8, <1>9,
     <1>10, <1>11, <1>12, <1>13, <1>14, <1>15, <1>16, <1>17, CallsWhole
  DEF Next, Simulation, Server, Application, Client

\* Each step moves a call from one place to the next, or leaves it where it is.
LEMMA NextCallInv == ASSUME Usage \subseteq {"progress"}, IInv, Next PROVE CallInv'
<1> SUFFICES ASSUME NEW d \in Clients PROVE CallInvOf(d)'
  BY DEF CallInv
<1>0. CallInvOf(d) /\ TypeOK
  BY DEF IInv, CallInv
<1> USE DEF CallInvOf, OnePlace, InFlight, Requested, Reading, Serving, Answered, Taking
<1>1. ASSUME Start PROVE CallInvOf(d)'
  <2>1. <<d, "req">> \in to_clear' /\ <<d, "rsp">> \in to_clear'
    BY <1>1 DEF Start, Channels
  <2>2. cliPoll[d] = "idle" /\ poll = NoPoll
    BY <1>1 DEF IInv, PhaseInv, InLoop, Start
  <2>3. gen' # srvGen
    BY <1>1 DEF IInv, TypeOK, PhaseInv, Start
  <2> QED
    BY <1>0, <1>1, <2>1, <2>2, <2>3 DEF Start, NoPoll, srvVars, appVars, cliVars
<1>2. ASSUME Reset PROVE CallInvOf(d)'
  BY <1>0, <1>2 DEF IInv, TypeOK, PhaseInv, ServerInv, Reset, simVars, srvVars, appVars, cliVars
<1>3. ASSUME Acknowledged PROVE CallInvOf(d)'
  BY <1>0, <1>3 DEF IInv, TypeOK, PhaseInv, ServerInv, Acknowledged, simVars, srvVars, appVars, cliVars
<1>4. ASSUME Stop PROVE CallInvOf(d)'
  BY <1>0, <1>4 DEF IInv, TypeOK, PhaseInv, ServerInv, Stop, simVars, srvVars, appVars, cliVars
<1>5. ASSUME Stopped PROVE CallInvOf(d)'
  BY <1>0, <1>5 DEF IInv, TypeOK, PhaseInv, ServerInv, Stopped, simVars, srvVars, appVars, cliVars
<1>6. ASSUME NEW ch \in Channels, ClearFlag(ch) PROVE CallInvOf(d)'
  <2>1. ch[1] \in Clients /\ ch = <<ch[1], ch[2]>> /\ ch[2] \in {"req", "rsp"}
    BY DEF Channels
  <2>2. /\ req'[d].call = req[d].call
        /\ rsp'[d].call = rsp[d].call /\ rsp'[d].to = rsp[d].to /\ rsp'[d].status = rsp[d].status
    BY <1>0, <1>6, <2>1, LowerReq, LowerRsp DEF ClearFlag
  <2>3. Requested(d)' => Requested(d)
    BY <1>0, <1>6, <2>1, LowerReq DEF ClearFlag
  <2>4. Answered(d)' => Answered(d)
    BY <1>0, <1>6, <2>1, LowerRsp DEF ClearFlag
  <2> QED
    BY <1>0, <1>6, <2>2, <2>3, <2>4 DEF ClearFlag, srvVars, appVars, cliVars
<1>7. ASSUME PollBegin PROVE CallInvOf(d)'
  <2>1. CurNow \in Clients /\ to_clear = {} /\ poll = NoPoll
    BY <1>0, <1>7, SrvNowType DEF IInv, PhaseInv, PollBegin
  <2>2. req'[d].call = req[d].call /\ (req'[d].flag => req[d].flag)
    BY <1>0, <1>7, <2>1, LowerReq DEF PollBegin
  <2>3. Serving(d)' => Serving(d)
    BY <1>7 DEF PollBegin, SrvNow
  <2>4. Reading(d)' => req[d].flag /\ ~req'[d].flag
    BY <1>0, <1>7, <2>1, LowerReq DEF PollBegin, NoPoll
  <2> QED
    BY <1>0, <1>7, <2>1, <2>2, <2>3, <2>4 DEF PollBegin, simVars, appVars, cliVars, NoPoll
<1>8. ASSUME PollRead PROVE CallInvOf(d)'
  <2>1. /\ poll.client = cur /\ cur \in Clients /\ req[cur].op = "REQUEST"
        /\ srvState[cur] = "IDLE" /\ srvGen = gen
    BY <1>8 DEF IInv, TypeOK, ServerInv, PollRead
  <2>2. /\ srvState' = [srvState EXCEPT ![cur] = "DOING"] /\ reqGen' = gen
        /\ execs' = [execs EXCEPT ![cur] = @ + 1] /\ poll' = NoPoll
    BY <1>8, <2>1 DEF PollRead
  <2>3. CASE d = cur
    <3>1. execs'[d] = 1
      BY <1>0, <1>8, <2>1, <2>2, <2>3 DEF TypeOK, PollRead
    <3> QED
      BY <1>0, <1>8, <2>1, <2>2, <2>3, <3>1 DEF PollRead, TypeOK, simVars, cliVars, NoPoll
  <2>4. CASE d # cur
    <3>1. execs'[d] = execs[d] /\ srvState'[d] = srvState[d]
      BY <1>0, <2>2, <2>4 DEF TypeOK
    <3> QED
      BY <1>0, <1>8, <2>1, <2>2, <2>4, <3>1 DEF PollRead, TypeOK, simVars, cliVars, NoPoll
  <2> QED
    BY <2>3, <2>4
<1>9. ASSUME PollReadBusy PROVE CallInvOf(d)'
  BY <1>0, <1>9 DEF IInv, TypeOK, PhaseInv, ServerInv, PollReadBusy, simVars, srvVars, appVars, cliVars
<1>10. ASSUME SendStatus PROVE CallInvOf(d)'
  <2>1. /\ poll.state = "DOING" /\ poll # NoPoll /\ poll.at # "read"
        /\ cur \in Clients /\ Serving(cur)
    BY <1>10 DEF IInv, TypeOK, ServerInv, SendStatus, States, NoPoll
  <2>2. to_clear = {}
    BY <2>1 DEF IInv, PhaseInv, InLoop
  <2>3. ~rsp[cur].flag /\ reqGen = gen /\ execs[cur] = 1
    BY <2>1, <2>2 DEF IInv, CallInv
  <2> DEFINE m == [flag |-> TRUE, status |-> "DOING", to |-> cur, call |-> 0]
  <2>4. /\ rsp' = [rsp EXCEPT ![cur] = m] /\ srvState' = [srvState EXCEPT ![cur] = "IDLE"]
        /\ poll' = NoPoll
    BY <1>10, <2>1, <2>3 DEF SendStatus, Reply
  <2>5. m.status = "DOING" /\ m.to = cur
    OBVIOUS
  <2> HIDE DEF m
  <2>6. UNCHANGED <<gen, to_clear, req, srvGen, reqGen, cliState, cliGen, cliPoll, call, execs>>
    BY <1>10 DEF SendStatus, simVars, cliVars
  <2>7. CASE d = cur
    <3>1. rsp'[d] = m /\ srvState'[d] = "IDLE"
      BY <1>0, <2>1, <2>4, <2>7 DEF TypeOK
    <3> QED
      BY <1>0, <2>1, <2>2, <2>3, <2>4, <2>5, <2>6, <2>7, <3>1 DEF NoPoll
  <2>8. CASE d # cur
    <3>1. rsp'[d] = rsp[d] /\ srvState'[d] = srvState[d]
      BY <1>0, <2>1, <2>4, <2>8 DEF TypeOK
    <3> QED
      BY <1>0, <2>1, <2>2, <2>4, <2>6, <3>1 DEF NoPoll
  <2> QED
    BY <2>7, <2>8
<1>11. ASSUME BuildResponse PROVE CallInvOf(d)'
  BY <1>0, <1>11 DEF IInv, TypeOK, PhaseInv, ServerInv, BuildResponse, simVars, srvVars, appVars, cliVars
<1>12. ASSUME CheckResponse PROVE CallInvOf(d)'
  BY <1>0, <1>12 DEF IInv, TypeOK, PhaseInv, ServerInv, CheckResponse, AcceptsResponse, simVars, srvVars, appVars, cliVars
<1>13. ASSUME WriteResponse PROVE CallInvOf(d)'
  <2>1. /\ out.status = "DONE" /\ out.to = cur /\ out.call = call[cur] /\ poll = NoPoll
        /\ work # 0 /\ cur \in Clients /\ Serving(cur) /\ reqGen = gen
    <3>1. /\ out # NoOut /\ out.at = "checked"
      BY <1>13 DEF WriteResponse, NoOut
    <3>2. /\ cur \in Clients /\ work # 0 /\ srvState[cur] = "DOING" /\ srvGen = gen
          /\ out.status = "DONE" /\ out.to = cur /\ out.call = work
      BY <3>1 DEF IInv, TypeOK, ServerInv
    <3>3. work = call[cur] /\ poll = NoPoll
      BY <3>1, <3>2 DEF IInv, TypeOK, ServerInv
    <3>4. Serving(cur) /\ CallInvOf(cur)
      BY <3>2 DEF IInv, CallInv
    <3> QED
      BY <3>2, <3>3, <3>4
  <2>2. to_clear = {}
    BY <2>1 DEF IInv, PhaseInv
  <2>3. ~rsp[cur].flag
    BY <2>1, <2>2 DEF IInv, CallInv
  <2> DEFINE m == [flag |-> TRUE, status |-> "DONE", to |-> cur, call |-> call[cur]]
  <2>4. rsp' = [rsp EXCEPT ![cur] = m] /\ srvState' = [srvState EXCEPT ![cur] = "IDLE"]
    BY <1>13, <2>1, <2>3 DEF WriteResponse, Reply
  <2>5. m.status = "DONE" /\ m.to = cur /\ m.call = call[cur]
    OBVIOUS
  <2> HIDE DEF m
  <2>6. CASE d = cur
    <3>1. rsp'[d] = m /\ srvState'[d] = "IDLE"
      BY <1>0, <2>1, <2>4, <2>6 DEF TypeOK
    <3> QED
      BY <1>0, <1>13, <2>1, <2>2, <2>5, <2>6, <3>1 DEF WriteResponse, simVars, cliVars, NoPoll
  <2>7. CASE d # cur
    <3>1. rsp'[d] = rsp[d] /\ srvState'[d] = srvState[d]
      BY <1>0, <2>1, <2>4, <2>7 DEF TypeOK
    <3> QED
      BY <1>0, <1>13, <2>1, <2>2, <3>1 DEF WriteResponse, simVars, cliVars, NoPoll
  <2> QED
    BY <2>6, <2>7
<1>14. ASSUME NEW c \in Clients, CallRequest(c) PROVE CallInvOf(d)'
  BY <1>0, <1>14 DEF IInv, TypeOK, PhaseInv, ServerInv, CallRequest, SendRequest, CliNow, simVars, srvVars, appVars, cliVars
<1>15. ASSUME NEW c \in Clients, CancelRequest(c) PROVE CallInvOf(d)'
  BY <1>0, <1>15 DEF IInv, TypeOK, PhaseInv, ServerInv, CancelRequest, simVars, srvVars, appVars, cliVars
<1>16. ASSUME NEW c \in Clients, ClientPoll(c) PROVE CallInvOf(d)'
  <2>1. to_clear = {}
    BY <1>16 DEF IInv, PhaseInv, ClientPoll
  <2>2. /\ rsp'[d].call = rsp[d].call /\ rsp'[d].to = rsp[d].to /\ rsp'[d].status = rsp[d].status
        /\ rsp'[d].flag => rsp[d].flag
    BY <1>0, <1>16, LowerRsp DEF ClientPoll
  <2>3. Taking(d)' => Taking(d) \/ (Answered(d) /\ ~rsp'[d].flag)
    BY <1>0, <1>16, <2>1, LowerRsp DEF TypeOK, ClientPoll
  <2>4. InFlight(d) => cliState'[d] = cliState[d] /\ cliGen'[d] = cliGen[d]
    BY <1>0, <1>16 DEF TypeOK, ClientPoll, CliNow
  <2>5. cliState'[d] # "CANCELING"
    BY <1>0, <1>16 DEF TypeOK, ClientPoll, CliNow
  <2>6. cliPoll'[d] \in {"idle", "read"}
    BY <1>0, <1>16 DEF TypeOK, ClientPoll
  <2> QED
    BY <1>0, <1>16, <2>1, <2>2, <2>3, <2>4, <2>5, <2>6 DEF ClientPoll, simVars, srvVars, appVars
<1>17. ASSUME NEW c \in Clients, ClientRead(c) PROVE CallInvOf(d)'
  BY <1>0, <1>17 DEF IInv, TypeOK, PhaseInv, ServerInv, ClientRead, simVars, srvVars, appVars, cliVars
<1> HIDE DEF CallInvOf, OnePlace, InFlight, Requested, Reading, Serving, Answered, Taking
<1> QED
  BY <1>1, <1>2, <1>3, <1>4, <1>5, <1>6, <1>7, <1>8, <1>9,
     <1>10, <1>11, <1>12, <1>13, <1>14, <1>15, <1>16, <1>17, CallsWhole
  DEF Next, Simulation, Server, Application, Client


LEMMA StutterIInv == ASSUME IInv, UNCHANGED vars PROVE IInv'
<1>1. TypeOK'
  BY StutterTypeOK DEF IInv
<1>2. PhaseInv' /\ ServerInv'
  BY DEF IInv, PhaseInv, InLoop, ServerInv, vars, simVars, srvVars, appVars, cliVars
<1>3. CallInv'
  BY ZenonT(90) DEF IInv, CallInv, CallInvOf, OnePlace, InFlight, Requested, Reading, Serving, Answered,
         Taking, vars, simVars, srvVars, appVars, cliVars
<1> QED
  BY <1>1, <1>2, <1>3 DEF IInv

\* The inductive invariant, for clients and applications that follow the rules.
THEOREM IInvCorrect == ASSUME Usage \subseteq {"progress"} PROVE Spec => []IInv
<1>1. Init => IInv
  BY InitIInv
<1>2. IInv /\ [Next]_vars => IInv'
  <2>1. ASSUME IInv, Next PROVE IInv'
    BY <2>1, NextTypeOK, NextPhaseInv, NextServerInv, NextCallInv DEF IInv
  <2> QED
    BY <2>1, StutterIInv
<1> QED
  BY <1>1, <1>2, PTL DEF Spec

\* Only the current client's request is in progress: a reply always finds the
\* request it belongs to (get_current_client_id in reply).
THEOREM OnlyCurrentBusyCorrect == ASSUME Usage \subseteq {"progress"} PROVE Spec => []OnlyCurrentBusy
<1>1. IInv => OnlyCurrentBusy
  BY DEF IInv, ServerInv, OnlyCurrentBusy
<1> QED
  BY <1>1, IInvCorrect, PTL

-----------------------------------------------------------------------------
(* The service implements the contract *)

\* The initial states of the service are initial states of the contract.
LEMMA InitContract == Init => Contract!Init
<1> SUFFICES ASSUME Init PROVE Contract!Init
  OBVIOUS
<1>1. gen = 0 /\ call = [c \in Clients |-> 0] /\ answer = [c \in Clients |-> 0]
  BY DEF Init
<1>2. {c \in Clients : cliState[c] # "IDLE"} = {}
  BY DEF Init
<1>3. execs = [c \in Clients |-> 0]
  BY DEF Init
<1>4. [c \in Clients |-> IF cliState[c] # "IDLE" THEN cliGen[c] ELSE 0] = [c \in Clients |-> 0]
  BY DEF Init
<1> QED
  BY <1>1, <1>2, <1>3, <1>4 DEF Contract!Init

\* Steps that leave the generation, the clients and the executions alone are
\* invisible to the contract.
LEMMA Invisible == ASSUME UNCHANGED <<gen, cliVars, execs>> PROVE UNCHANGED Contract!vars
  BY DEF cliVars, Contract!vars

\* Every step of the service is a step of the contract or invisible.
LEMMA StepContract == ASSUME Usage \subseteq {"progress"}, IInv, Next PROVE [Contract!Next]_(Contract!vars)
<1>0. TypeOK
  BY DEF IInv
<1>1. ASSUME Start PROVE Contract!NewRun
  BY <1>1 DEF Start, cliVars, Contract!NewRun
<1>2. ASSUME Reset \/ Acknowledged \/ Stop \/ Stopped PROVE UNCHANGED Contract!vars
  BY <1>2, Invisible DEF Reset, Acknowledged, Stop, Stopped
<1>3. ASSUME NEW ch \in Channels, ClearFlag(ch) PROVE UNCHANGED Contract!vars
  BY <1>3, Invisible DEF ClearFlag
<1>4. ASSUME PollBegin \/ PollReadBusy \/ SendStatus PROVE UNCHANGED Contract!vars
  BY <1>4, Invisible DEF PollBegin, PollReadBusy, SendStatus, simVars
<1>5. ASSUME NEW c \in Clients, c = poll.client, PollRead PROVE Contract!Execute(c)
  <2>1. Reading(c) /\ req[c].op = "REQUEST"
    BY <1>5 DEF IInv, TypeOK, ServerInv, PollRead, Reading
  <2>2. cliState[c] = "DOING" /\ cliGen[c] = gen /\ execs[c] = 0
    BY <2>1 DEF IInv, CallInv, CallInvOf, InFlight
  <2>3. execs' = [execs EXCEPT ![c] = 1] /\ gen' = gen /\ UNCHANGED cliVars
    BY <1>0, <1>5, <2>1, <2>2 DEF PollRead, simVars, TypeOK
  <2> QED
    BY <2>1, <2>2, <2>3 DEF Contract!Execute, cliVars
<1>6. ASSUME BuildResponse \/ CheckResponse \/ WriteResponse PROVE UNCHANGED Contract!vars
  BY <1>6, Invisible DEF BuildResponse, CheckResponse, WriteResponse, simVars
<1>7. ASSUME NEW c \in Clients, CallRequest(c) PROVE Contract!Call(c)
  <2>1. to_clear = {} /\ gen > 0
    BY <1>7 DEF IInv, PhaseInv, CallRequest
  <2>2. CliNow(c) = "IDLE" /\ (cliState[c] # "IDLE" => cliGen[c] # gen)
    BY <1>7 DEF CallRequest, CliNow
  <2>3. ~req[c].flag
    BY <2>1, <2>2 DEF IInv, CallInv, CallInvOf, InFlight, Requested
  <2>4. /\ cliState' = [cliState EXCEPT ![c] = "DOING"]
        /\ cliGen' = [cliGen EXCEPT ![c] = gen]
        /\ call' = [call EXCEPT ![c] = @ + 1]
        /\ execs' = [execs EXCEPT ![c] = 0]
        /\ gen' = gen /\ answer' = answer
    BY <1>7, <2>2, <2>3 DEF CallRequest, SendRequest, simVars
  <2>5. c \in {d \in Clients : cliState[d] # "IDLE"}
          => [d \in Clients |-> IF cliState[d] # "IDLE" THEN cliGen[d] ELSE 0][c] # gen
    BY <2>2
  <2>6. {d \in Clients : cliState'[d] # "IDLE"} = {d \in Clients : cliState[d] # "IDLE"} \union {c}
    BY <1>0, <2>4 DEF TypeOK
  <2>7. [d \in Clients |-> IF cliState'[d] # "IDLE" THEN cliGen'[d] ELSE 0]
          = [[d \in Clients |-> IF cliState[d] # "IDLE" THEN cliGen[d] ELSE 0] EXCEPT ![c] = gen]
    BY <1>0, <2>4 DEF TypeOK
  <2> QED
    BY <2>1, <2>4, <2>5, <2>6, <2>7 DEF Contract!Call
<1>8. ASSUME NEW c \in Clients, ClientPoll(c)
      PROVE  Contract!Abandon(c) \/ UNCHANGED Contract!vars
  <2>1. /\ cliState' = [cliState EXCEPT ![c] = CliNow(c)]
        /\ cliGen' = [cliGen EXCEPT ![c] = gen]
        /\ UNCHANGED <<gen, call, answer, execs>>
    BY <1>8 DEF ClientPoll, simVars
  <2>2. CASE cliGen[c] = gen \/ cliState[c] = "IDLE"
    BY <1>0, <2>1, <2>2 DEF TypeOK, CliNow, Contract!vars
  <2>3. CASE cliGen[c] # gen /\ cliState[c] # "IDLE"
    BY <1>0, <2>1, <2>3 DEF TypeOK, CliNow, Contract!Abandon
  <2> QED
    BY <2>2, <2>3
<1>9. ASSUME NEW c \in Clients, ClientRead(c)
      PROVE  Contract!Return(c) \/ UNCHANGED Contract!vars
  <2>1. Taking(c)
    BY <1>9 DEF ClientRead, Taking
  <2>2. /\ cliState[c] = "DOING" /\ cliGen[c] = gen /\ execs[c] = 1 /\ rsp[c].to = c
        /\ rsp[c].status \in {"DONE", "DOING"} /\ (rsp[c].status = "DONE" => rsp[c].call = call[c])
    BY <2>1 DEF IInv, CallInv, CallInvOf, InFlight
  <2>3. CASE rsp[c].status = "DONE"
    <3>1. /\ cliState' = [cliState EXCEPT ![c] = "IDLE"]
          /\ answer' = [answer EXCEPT ![c] = call[c]]
          /\ UNCHANGED <<gen, cliGen, call, execs>>
      BY <1>9, <2>2, <2>3 DEF ClientRead, Final, simVars
    <3> QED
      BY <1>0, <2>2, <3>1 DEF TypeOK, Contract!Return
  <2>4. CASE rsp[c].status = "DOING"
    <3>1. UNCHANGED <<gen, cliState, answer, cliGen, call, execs>>
      BY <1>9, <2>4 DEF ClientRead, Final, simVars
    <3> QED
      BY <3>1 DEF Contract!vars
  <2> QED
    BY <2>2, <2>3, <2>4
<1>10. ASSUME NEW c \in Clients, CancelRequest(c) PROVE FALSE
  BY <1>10 DEF CancelRequest
<1>11. poll.client \in Clients
  BY <1>0 DEF TypeOK
<1>12. ASSUME Simulation PROVE Contract!Next \/ UNCHANGED Contract!vars
  BY <1>1, <1>2, <1>3, <1>12 DEF Simulation, Contract!Next
<1>13. ASSUME Server \/ Application PROVE Contract!Next \/ UNCHANGED Contract!vars
  <2>1. ASSUME PollRead PROVE Contract!Next
    <3>1. \E c \in Clients : Contract!Execute(c)
      BY <1>5, <1>11, <2>1
    <3> QED
      BY <3>1 DEF Contract!Next
  <2>2. ASSUME PollBegin \/ PollReadBusy \/ SendStatus \/ Application
        PROVE  UNCHANGED Contract!vars
    BY <1>4, <1>6, <2>2 DEF Application
  <2> QED
    BY <1>13, <2>1, <2>2 DEF Server
<1>14. ASSUME NEW c \in Clients, Client(c) PROVE Contract!Next \/ UNCHANGED Contract!vars
  BY <1>7, <1>8, <1>9, <1>10, <1>14, CallsWhole DEF Client, Contract!Next
<1>15. Contract!Next \/ UNCHANGED Contract!vars
  <2>1. CASE Simulation
    BY <1>12, <2>1
  <2>2. CASE Server \/ Application
    BY <1>13, <2>2
  <2>3. CASE \E c \in Clients : Client(c)
    <3>1. PICK c \in Clients : Client(c)
      BY <2>3
    <3> QED
      BY <1>14, <3>1
  <2> QED
    BY <2>1, <2>2, <2>3 DEF Next
<1> QED
  BY <1>15

\* A service used as intended implements the contract: no call is executed twice
\* or answered unexecuted, every answer is the one to the client's last call of
\* this run, and a call of an earlier run is only abandoned.
THEOREM KeepsContractCorrect == ASSUME Usage \subseteq {"progress"} PROVE Spec => KeepsContract
<1>1. IInv /\ [Next]_vars => [Contract!Next]_(Contract!vars)
  <2>1. ASSUME UNCHANGED vars PROVE UNCHANGED Contract!vars
    BY <2>1, Invisible DEF vars, simVars
  <2> QED
    BY <2>1, StepContract
<1> QED
  BY <1>1, InitContract, IInvCorrect, PTL DEF Spec, KeepsContract, Contract!Spec
=============================================================================
