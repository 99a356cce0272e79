----------------------------- MODULE EppConnection ----------------------------
(***************************************************************************)
(* A SuperClient, the EPPClient under it and the peer of their connection. *)
(* The calls of a SuperClient are made one after the other: each puts its  *)
(* message on NewWork and waits 90 s for what comes on WorkResponse.       *)
(***************************************************************************)
EXTENDS EppClient, EppServer

CONSTANTS
  HandleResponseWraps,   \* HandleResponse wraps an error that may be nil
  Work,                  \* bound: the messages that may be sent, by call
  MaxCalls               \* bound: calls of the SuperClient

ASSUME HandleResponseAssumption == HandleResponseWraps \in BOOLEAN
ASSUME MaxCallsAssumption == MaxCalls \in Nat

(* Every call makes a command, with a transaction ID of its own.            *)
ASSUME WorkAssumption ==
  \A i \in 1 .. MaxCalls : \A m \in Work[i] :
    Has(m, "command", "plain") /\ m[<<"command", "plain">>] = i /\ ~Has(m, "hello", "plain")

(* The callbacks of log-in and log-out return what HandleResponse does.     *)
ASSUME CallbackAssumption == LoginCallbackFails = HandleResponseWraps

VARIABLES
  caller,   \* starting, idle, submitting, waiting, stopping, ended
  call,     \* the message of the present call
  results   \* what the calls returned, in order

superVars == <<caller, call, results>>
vars == <<wire, clientVars, serverVars, superVars>>

-----------------------------------------------------------------------------
(* What the calls make of the message they get *)

(* A message that is no response is dereferenced all the same; fmt.Errorf   *)
(* makes an error of a nil error.                                           *)
HandleResponse(m) ==
  CASE ~Has(m, "response", "plain") -> "panic"
    [] Has(m, "response", "plain") /\ HandleResponseWraps -> "error"
    [] OTHER -> "nil"

PollRequest(m) == IF IsError(m) THEN "error" ELSE "done"
(* The error of an acknowledgement is shadowed: only a timeout is returned. *)
AckPoll(m) == "done"
Available(m, form) ==
  IF MessageType(m) = <<"response", form, "chkData">>
     /\ m[<<"chkData", form>>].name = call[<<"check", form>>]
  THEN "done" ELSE "error"
DomainAvailable(m) == Available(m, "domain")
HostAvailable(m) == Available(m, "host")
Info(m, form) ==
  IF MessageType(m) = <<"response", form, "infData">>
     /\ m[<<"infData", form>>].name = call[<<"info", form>>]
  THEN "done" ELSE "error"
DomainInfo(m) == Info(m, "domain")
HostInfo(m) == Info(m, "host")
RequestDomainTransfer(m) ==
  IF MessageType(m) = <<"response", "domain", "trnData">> THEN "done" ELSE "error"
QueryDomainTransfer(m) ==
  IF MessageType(m) = <<"response", "domain", "trnData">> THEN "done" ELSE "error"
expect1000Response(m) ==
  IF m[<<"response", "plain">>].code = 1000 THEN "done" ELSE "error"

Outcome(m) ==
  LET type == MessageType(call)
      poll == Has(call, "poll", "plain")
      handled == HandleResponse(m)
  IN  CASE poll /\ handled # "panic" /\ call[<<"poll", "plain">>].op = "ack" -> AckPoll(m)
        [] handled # "nil" /\ ~(poll /\ call[<<"poll", "plain">>].op = "ack") -> handled
        [] poll /\ call[<<"poll", "plain">>].op = "req" /\ handled = "nil" -> PollRequest(m)
        [] type = <<"command", "check", "domain">> /\ handled = "nil" -> DomainAvailable(m)
        [] type = <<"command", "check", "host">> /\ handled = "nil" -> HostAvailable(m)
        [] type = <<"command", "info", "domain">> /\ handled = "nil" -> DomainInfo(m)
        [] type = <<"command", "info", "host">> /\ handled = "nil" -> HostInfo(m)
        [] type = <<"command", "transfer", "domain", "request">> /\ handled = "nil" ->
             RequestDomainTransfer(m)
        [] type = <<"command", "transfer", "domain", "query">> /\ handled = "nil" ->
             QueryDomainTransfer(m)
        [] OTHER -> IF handled = "nil" THEN expect1000Response(m) ELSE handled

-----------------------------------------------------------------------------
(* SuperClient *)

KeepClient ==
  UNCHANGED <<wire, serverVars, currentState, fsm, pending, SendChannel, RecvChannel,
              SendErrorChannel, StopChannel, sender, listener, LastGreetingTime>>

(* blockUntilWaitForWork: the statuses before are read and dropped. *)
NewSuperClient ==
  /\ caller = "starting"
  /\ "waitingForWork" \in StatusChannel
  /\ caller' = "idle"
  /\ UNCHANGED <<call, results, NewWork, WorkResponse, LogoutChannel, StatusChannel>>
  /\ KeepClient

Call(msg) ==
  /\ caller = "idle" /\ Len(results) < MaxCalls
  /\ caller' = "submitting" /\ call' = msg
  /\ UNCHANGED <<results, NewWork, WorkResponse, LogoutChannel, StatusChannel>>
  /\ KeepClient

Submit ==
  /\ caller = "submitting"
  /\ Len(NewWork) < ChanBufferSize
  /\ NewWork' = Append(NewWork, call)
  /\ caller' = "waiting"
  /\ UNCHANGED <<call, results, WorkResponse, LogoutChannel, StatusChannel>>
  /\ KeepClient

Answer ==
  /\ caller = "waiting"
  /\ WorkResponse # <<>> /\ WorkResponse' = Tail(WorkResponse)
  /\ LET m == Head(WorkResponse) IN
     results' = Append(results,
       [to |-> IF Has(m, "response", "plain") THEN m[<<"response", "plain">>].clTRID ELSE -1,
        outcome |-> Outcome(m)])
  /\ caller' = "idle"
  /\ UNCHANGED <<call, NewWork, LogoutChannel, StatusChannel>> /\ KeepClient

ResponseTimeout ==
  /\ caller = "waiting"
  /\ results' = Append(results, [to |-> -1, outcome |-> "timeout"])
  /\ caller' = "idle"
  /\ UNCHANGED <<call, NewWork, WorkResponse, LogoutChannel, StatusChannel>>
  /\ KeepClient

Logout ==
  /\ caller = "idle"
  /\ ~LogoutChannel /\ LogoutChannel' = TRUE
  /\ caller' = "stopping"
  /\ UNCHANGED <<call, results, NewWork, WorkResponse, StatusChannel>> /\ KeepClient

(* StatusWatcher puts the status of a shutdown back. *)
waitForShutdown ==
  /\ caller = "stopping"
  /\ caller' = IF "shutdownRequested" \in StatusChannel THEN "ended" ELSE "timed out"
  /\ UNCHANGED <<call, results, NewWork, WorkResponse, LogoutChannel, StatusChannel>>
  /\ KeepClient

SuperClient ==
  \/ NewSuperClient
  \/ \E msg \in Work[Len(results) + 1] : Call(msg)
  \/ Submit
  \/ Answer
  \/ ResponseTimeout
  \/ Logout
  \/ waitForShutdown

Init ==
  /\ WireInit /\ NewEPPClient /\ ServerInit
  /\ caller = "starting" /\ call = <<>> /\ results = <<>>

Client == StartFSM \/ Deliver \/ Handler
Goroutines == EPPSender \/ EPPListener
Peer == (Handle \/ Registry) /\ UNCHANGED <<clientVars, superVars>>

(* Nobody has the client, to stop it, before NewSuperClient returns. *)
Next ==
  \/ (Client \/ Goroutines) /\ UNCHANGED <<serverVars, superVars>>
  \/ Stop /\ caller # "starting" /\ UNCHANGED <<serverVars, superVars>>
  \/ SuperClient
  \/ Peer
  \/ Cut /\ UNCHANGED <<clientVars, serverVars, superVars>>

(* Goroutines run and timers fire.  Nothing is assumed of who calls, of the *)
(* network or of the peer.                                                  *)
Fairness ==
  /\ WF_vars(Client /\ UNCHANGED <<serverVars, superVars>>)
  /\ WF_vars(EPPSender /\ UNCHANGED <<serverVars, superVars>>)
  /\ WF_vars(EPPListener /\ UNCHANGED <<serverVars, superVars>>)
  /\ WF_vars(NewSuperClient)
  /\ WF_vars(Submit)
  /\ WF_vars(Answer \/ ResponseTimeout)
  /\ WF_vars(waitForShutdown)

Spec == Init /\ [][Next]_vars /\ Fairness

-----------------------------------------------------------------------------
(* Properties *)

(* The calls carry no expectation of which command an answer is for: they   *)
(* take the next message.  As long as no call has timed out it is the       *)
(* answer to the call's own command, over every interleaving of the three   *)
(* goroutines, keepalives and losses.                                       *)
AnswersMatchCalls ==
  \A i \in 1 .. Len(results) :
    (\A j \in 1 .. i : results[j].outcome # "timeout") => results[i].to = i

(* One command at a time: whatever the calls that gave up have left in the  *)
(* queues, there is at most one command or answer to a command between the  *)
(* state machine and the peer.                                              *)
IsWork(m) ==
  \/ Has(m, "command", "plain") /\ m[<<"command", "plain">>] \in 1 .. MaxCalls
  \/ Has(m, "response", "plain") /\ m[<<"response", "plain">>].clTRID \in 1 .. MaxCalls
OneCommandOnTheWire ==
  LET wired == SendChannel \o toServer \o toClient \o RecvChannel
  IN  \A i, j \in 1 .. Len(wired) : IsWork(wired[i]) /\ IsWork(wired[j]) => i = j

(* No command goes out before the peer has accepted the login.              *)
LoggedInBeforeWork ==
  (peer = "server" /\ serverState = "WaitingForClient")
    => ~\E m \in ToSet(SendChannel \o toServer) : IsWork(m)

(* Answers that come after their call gave up stay in WorkResponse: never   *)
(* more of them, the one that is being put there included, than calls have  *)
(* timed out and one for the call that waits.  So the state machine cannot  *)
(* block on WorkResponse before as many calls have timed out as it has      *)
(* places.                                                                  *)
TimedOut == {i \in 1 .. Len(results) : results[i].outcome = "timeout"}
PuttingAnswer == fsm = "sending" /\ pending.to = "WorkResponse"
LateAnswersBounded ==
  Len(WorkResponse) + (IF PuttingAnswer THEN 1 ELSE 0)
    <= Cardinality(TimedOut) + (IF caller = "waiting" THEN 1 ELSE 0)

(* The state machine never hangs: whatever became of the sender, the        *)
(* listener, the connection and the calls, timers take it out of every      *)
(* state, and it ends.  Two states alone hold it for good: an answer for    *)
(* which WorkResponse never has room again, and a shutdown whose sender has *)
(* ended and takes no stop.  A write error alone never holds it.            *)
StuckPutting == PuttingAnswer /\ Len(WorkResponse) = ChanBufferSize
StuckStopping == currentState = "shutdownRequested" /\ sender = "ended"
NeverStuck == <>(fsm = "ended") \/ <>[]StuckPutting \/ <>[]StuckStopping

(* A call comes back, answered or not, also when the state machine has left *)
(* the work loop or ended.  Only when as many calls have timed out as       *)
(* NewWork has places can one wait for good, to put its message there.      *)
CallsReturn ==
  caller \in {"submitting", "waiting"}
    ~> (caller = "idle" \/ Cardinality(TimedOut) >= ChanBufferSize)

-----------------------------------------------------------------------------
(* What a comment says and the code does not do *)

(* lib/epp.go:188-189: HandleResponse sets the error of the action based on *)
(* the response.  It returns one of its own for every response: a log-in    *)
(* that the peer accepted ends the state machine, and NewSuperClient does   *)
(* not return.  The other ways not to return are not meant: this is about   *)
(* an answer that the state machine does not leave unread for its timer.    *)
LogInAccepted ==
  /\ In("waitForLoginResponse") /\ RecvChannel # <<>>
  /\ MessageType(Head(RecvChannel)) = <<"response">> /\ ~IsError(Head(RecvChannel))
LeftUnread == fsm = "ended" /\ RecvChannel # <<>>
AcceptedLogInReturns == LogInAccepted ~> (caller # "starting" \/ LeftUnread)
=============================================================================
