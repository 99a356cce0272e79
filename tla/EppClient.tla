------------------------------- MODULE EppClient ------------------------------
(***************************************************************************)
(* EPPClient of package client: the goroutine of the finite state machine, *)
(* the sender and the listener goroutine, and the channels between them.   *)
(*                                                                         *)
(* StartFSM goes round: it looks at SendErrorChannel and StopChannel       *)
(* ("top"), enters the handler of its state and waits there ("select");    *)
(* a handler that puts a message on a channel waits for room ("sending").  *)
(* A timer may run out whenever its handler waits.                         *)
(***************************************************************************)
EXTENDS EppWire

CONSTANTS
  ChanBufferSize,       \* places in a channel (25 in the code)
  LoginCallbackFails    \* the login and logout callbacks return an error

ASSUME ChanBufferSizeAssumption == ChanBufferSize \in Nat \ {0}
ASSUME LoginCallbackAssumption == LoginCallbackFails \in BOOLEAN

VARIABLES
  currentState,       \* EPPClientState
  fsm,                \* where StartFSM is: top, select, sending, ended
  pending,            \* the message a handler is putting on a channel
  SendChannel, RecvChannel, NewWork, WorkResponse,
  SendErrorChannel,   \* BOOLEAN: the sender left an error
  StopChannel, LogoutChannel,   \* BOOLEAN: one place each
  StatusChannel,      \* the states somebody waits for that were posted
  sender, listener,   \* goroutines: none, running, ended
  LastGreetingTime    \* "now" while nothing was waited for since, or "past"

channels == <<SendChannel, RecvChannel, NewWork, WorkResponse, SendErrorChannel,
              StopChannel, LogoutChannel, StatusChannel>>
clientVars == <<currentState, fsm, pending, channels, sender, listener,
                LastGreetingTime>>

States ==
  {"closedConnection", "newConnection", "openedConnection",
   "preparePreLoginHello", "prepareLogin", "waitForLoginResponse",
   "waitingForWork", "waitingForWorkHello", "waitingForWorkHelloResp",
   "waitForCommandResponse", "preparelogout", "waitLogout", "shutdownRequested", ""}

(* Consumers wait for these two; StatusWatcher takes the others away. *)
Awaited == {"waitingForWork", "shutdownRequested"}

(* Nothing is being put on a channel. *)
None == [to |-> "nothing", msg |-> <<>>, next |-> ""]

(* Transaction IDs: the login and the logout have one that no call has. *)
OwnTx == 0

-----------------------------------------------------------------------------
(* StartFSM *)

(* The end of a round: a handler returned next, and perhaps an error. *)
Return(next, err) ==
  /\ pending' = None
  /\ IF next = "closedConnection"
     THEN fsm' = "ended" /\ UNCHANGED <<currentState, StatusChannel>>
     ELSE /\ currentState' = next
          /\ StatusChannel' = StatusChannel \cup ({next} \cap Awaited)
          /\ fsm' = IF err THEN "ended" ELSE "top"

(* The handler waits for room in a channel before it returns next. *)
Put(to, msg, next) ==
  /\ fsm' = "sending"
  /\ pending' = [to |-> to, msg |-> msg, next |-> next]
  /\ UNCHANGED <<currentState, StatusChannel>>

(* The select at the top takes one of what is there, and waits for nothing. *)
StartFSM ==
  /\ fsm = "top" /\ fsm' = "select"
  /\ \/ /\ SendErrorChannel /\ SendErrorChannel' = FALSE
        /\ UNCHANGED <<currentState, StopChannel>>
     \/ /\ StopChannel /\ StopChannel' = FALSE
        /\ currentState' = "shutdownRequested"
        /\ UNCHANGED SendErrorChannel
     \/ /\ ~SendErrorChannel /\ ~StopChannel
        /\ UNCHANGED <<currentState, SendErrorChannel, StopChannel>>
  /\ UNCHANGED <<wire, pending, SendChannel, RecvChannel, NewWork, WorkResponse,
                 LogoutChannel, StatusChannel, sender, listener, LastGreetingTime>>

(* The message has its place, and the handler returns. *)
Deliver ==
  /\ fsm = "sending"
  /\ CASE pending.to = "SendChannel" ->
            /\ Len(SendChannel) < ChanBufferSize
            /\ SendChannel' = Append(SendChannel, pending.msg)
            /\ UNCHANGED WorkResponse
       [] pending.to = "WorkResponse" ->
            /\ Len(WorkResponse) < ChanBufferSize
            /\ WorkResponse' = Append(WorkResponse, pending.msg)
            /\ UNCHANGED SendChannel
  /\ Return(pending.next, FALSE)
  /\ UNCHANGED <<wire, RecvChannel, NewWork, SendErrorChannel, StopChannel,
                 LogoutChannel, sender, listener, LastGreetingTime>>

-----------------------------------------------------------------------------
(* The handlers *)

In(state) == fsm = "select" /\ currentState = state
KeepChannels ==
  UNCHANGED <<SendChannel, NewWork, WorkResponse, SendErrorChannel, LogoutChannel>>
KeepTime == UNCHANGED LastGreetingTime
KeepLink == UNCHANGED <<wire, sender, listener>>

(* Branches of the selects. *)
OnStop ==
  /\ StopChannel /\ StopChannel' = FALSE
  /\ Return("shutdownRequested", FALSE)
  /\ UNCHANGED RecvChannel
OnTimeout(next) == Return(next, TRUE) /\ UNCHANGED <<StopChannel, RecvChannel>>
Take(msg) ==
  /\ RecvChannel # <<>> /\ msg = Head(RecvChannel)
  /\ RecvChannel' = Tail(RecvChannel)
  /\ UNCHANGED StopChannel

(* shouldlogin is true until a logout, after which nothing closes and opens *)
(* again.                                                                   *)
closedConnectionState ==
  /\ In("closedConnection")
  /\ Return("newConnection", FALSE)
  /\ UNCHANGED <<RecvChannel, StopChannel>> /\ KeepChannels /\ KeepTime /\ KeepLink

newConnectionState ==
  /\ In("newConnection")
  /\ \/ /\ Return("closedConnection", TRUE)
        /\ KeepLink
     \/ /\ link' = "up" /\ sender' = "running" /\ listener' = "running"
        /\ Return("openedConnection", FALSE)
        /\ UNCHANGED <<toServer, toClient>>
  /\ UNCHANGED <<RecvChannel, StopChannel>> /\ KeepChannels /\ KeepTime

(* Faulty variant: a greeting is all it takes. *)
openedConnectionWithoutLogin ==
  /\ In("openedConnection")
  /\ \E msg \in ToSet(RecvChannel) : Take(msg) /\ Return("waitingForWork", FALSE)
  /\ KeepChannels /\ KeepTime /\ KeepLink

openedConnectionState ==
  /\ In("openedConnection")
  /\ \/ OnStop
     \/ \E msg \in ToSet(RecvChannel) :
          /\ Take(msg)
          /\ IF MessageType(msg) = <<"greeting">> THEN Return("prepareLogin", FALSE)
             ELSE Return("", TRUE)
     \/ OnTimeout("preparePreLoginHello")
  /\ KeepChannels /\ KeepTime /\ KeepLink

prepareLoginState ==
  /\ In("prepareLogin")
  /\ Put("SendChannel", GetEPPLogin(OwnTx), "waitForLoginResponse")
  /\ UNCHANGED <<RecvChannel, StopChannel>> /\ KeepChannels /\ KeepTime /\ KeepLink

(* Faulty variant: the response to the login is passed on like another. *)
LoginOutcomePassedOn(msg) == Put("WorkResponse", msg, "waitingForWork")

LoginOutcome(msg) ==
  CASE LoginCallbackFails -> Return("", TRUE)
    [] ~LoginCallbackFails /\ MessageType(msg) = <<"response">> ->
         IF IsError(msg) THEN Return("prepareLogin", TRUE)
         ELSE Return("waitingForWork", FALSE)
    [] OTHER -> Return("waitForLoginResponse", FALSE)

waitLoginState ==
  /\ In("waitForLoginResponse")
  /\ \/ OnStop
     \/ \E msg \in ToSet(RecvChannel) : Take(msg) /\ LoginOutcome(msg)
     \/ OnTimeout("closedConnection")
  /\ KeepChannels /\ KeepTime /\ KeepLink

(* The keepalive period is over on entry, or runs out while it waits: the   *)
(* one is a hello, the other the end of the state machine.                  *)
waitForWorkState ==
  /\ In("waitingForWork")
  /\ \/ /\ \/ OnStop
           \/ /\ LastGreetingTime = "past"
              /\ Return("waitingForWorkHello", FALSE)
              /\ UNCHANGED <<RecvChannel, StopChannel>>
           \/ OnTimeout("waitingForWorkHello")
        /\ KeepTime /\ UNCHANGED <<NewWork, LogoutChannel>>
     \/ /\ \E msg \in ToSet(RecvChannel) :
             Take(msg) /\ Put("WorkResponse", msg, "waitingForWork")
        /\ LastGreetingTime' = "past" /\ UNCHANGED <<NewWork, LogoutChannel>>
     \/ /\ NewWork # <<>> /\ NewWork' = Tail(NewWork)
        /\ Put("SendChannel", Head(NewWork), "waitForCommandResponse")
        /\ LastGreetingTime' = "past"
        /\ UNCHANGED <<RecvChannel, StopChannel, LogoutChannel>>
     \/ /\ LogoutChannel /\ LogoutChannel' = FALSE
        /\ Return("preparelogout", FALSE)
        /\ KeepTime /\ UNCHANGED <<RecvChannel, StopChannel, NewWork>>
  /\ UNCHANGED <<SendChannel, WorkResponse, SendErrorChannel>> /\ KeepLink

waitForWorkHelloState ==
  /\ In("waitingForWorkHello")
  /\ Put("SendChannel", GetEPPHello, "waitingForWorkHelloResp")
  /\ UNCHANGED <<RecvChannel, StopChannel>> /\ KeepChannels /\ KeepTime /\ KeepLink

(* Faulty variant: the greeting is passed on like an answer. *)
waitForWorkHelloRespPassesOn ==
  /\ In("waitingForWorkHelloResp")
  /\ \/ OnStop
     \/ \E msg \in ToSet(RecvChannel) :
          Take(msg) /\ Put("WorkResponse", msg, "waitingForWork")
     \/ OnTimeout("closedConnection")
  /\ KeepChannels /\ KeepTime /\ KeepLink

waitForWorkHelloRespState ==
  /\ In("waitingForWorkHelloResp")
  /\ \/ OnStop /\ KeepTime
     \/ \E msg \in ToSet(RecvChannel) :
          /\ Take(msg)
          /\ IF MessageType(msg) = <<"greeting">> THEN Return("waitingForWork", FALSE) /\ LastGreetingTime' = "now"
             ELSE Return("waitingForWorkHelloResp", FALSE) /\ KeepTime
     \/ OnTimeout("closedConnection") /\ KeepTime
  /\ KeepChannels /\ KeepLink

(* Faulty variants: no timer, and back to work when it runs out. *)
waitForCommandResponseUntimed ==
  /\ In("waitForCommandResponse")
  /\ \/ OnStop
     \/ \E msg \in ToSet(RecvChannel) :
          Take(msg) /\ Put("WorkResponse", msg, "waitingForWork")
  /\ KeepChannels /\ KeepTime /\ KeepLink
waitForCommandResponseGivesUp ==
  /\ In("waitForCommandResponse")
  /\ \/ OnStop
     \/ \E msg \in ToSet(RecvChannel) :
          Take(msg) /\ Put("WorkResponse", msg, "waitingForWork")
     \/ Return("waitingForWork", FALSE) /\ UNCHANGED <<StopChannel, RecvChannel>>
  /\ KeepChannels /\ KeepTime /\ KeepLink

waitForCommandResponseState ==
  /\ In("waitForCommandResponse")
  /\ \/ OnStop
     \/ \E msg \in ToSet(RecvChannel) :
          Take(msg) /\ Put("WorkResponse", msg, "waitingForWork")
     \/ OnTimeout("preparelogout")
  /\ KeepChannels /\ KeepTime /\ KeepLink

prepareLogoutState ==
  /\ In("preparelogout")
  /\ Put("SendChannel", GetEPPLogout(OwnTx), "waitLogout")
  /\ UNCHANGED <<RecvChannel, StopChannel>> /\ KeepChannels /\ KeepTime /\ KeepLink

(* Whatever comes, the connection counts as closed; an error of the callback *)
(* alone leaves another state.                                               *)
waitLogoutState ==
  /\ In("waitLogout")
  /\ \/ OnStop
     \/ \E msg \in ToSet(RecvChannel) :
          /\ Take(msg)
          /\ Return(IF LoginCallbackFails THEN "" ELSE "closedConnection", TRUE)
     \/ OnTimeout("closedConnection")
  /\ KeepChannels /\ KeepTime /\ KeepLink

(* senderStop has no buffer: the sender must be there to take it. *)
shutdownState ==
  /\ In("shutdownRequested")
  /\ sender = "running" /\ sender' = "ended"
  /\ Return("closedConnection", FALSE)
  /\ UNCHANGED <<RecvChannel, StopChannel, wire, listener>> /\ KeepChannels /\ KeepTime

Handler ==
  \/ closedConnectionState
  \/ newConnectionState
  \/ openedConnectionState
  \/ prepareLoginState
  \/ waitLoginState
  \/ waitForWorkState
  \/ waitForWorkHelloState
  \/ waitForWorkHelloRespState
  \/ waitForCommandResponseState
  \/ prepareLogoutState
  \/ waitLogoutState
  \/ shutdownState

-----------------------------------------------------------------------------
(* The goroutines of the connection *)

(* A write fails when the connection is gone; one that the peer has closed  *)
(* may take it and lose it.                                                 *)
EPPSender ==
  /\ sender = "running"
  /\ SendChannel # <<>> /\ SendChannel' = Tail(SendChannel)
  /\ \/ /\ link = "up" /\ toServer' = Append(toServer, Head(SendChannel))
        /\ UNCHANGED <<sender, SendErrorChannel>>
     \/ /\ link = "closed"
        /\ UNCHANGED <<sender, SendErrorChannel, toServer>>
     \/ /\ link \in {"closed", "cut"}
        /\ sender' = "ended" /\ SendErrorChannel' = TRUE
        /\ UNCHANGED toServer
  /\ UNCHANGED <<link, toClient, currentState, fsm, pending, RecvChannel, NewWork,
                 WorkResponse, StopChannel, LogoutChannel, StatusChannel, listener,
                 LastGreetingTime>>

(* A message is put out, or does not parse, or the connection is at its end: *)
(* nobody is told of the latter two.                                         *)
EPPListener ==
  /\ listener = "running"
  /\ \/ /\ toClient # <<>> /\ toClient' = Tail(toClient)
        /\ \/ /\ Len(RecvChannel) < ChanBufferSize
              /\ RecvChannel' =
                   Append(RecvChannel, TypedMessage(UnmarshalMessage(Head(toClient))))
              /\ UNCHANGED listener
           \/ listener' = "ended" /\ UNCHANGED RecvChannel
     \/ /\ link # "up" /\ toClient = <<>>
        /\ listener' = "ended"
        /\ UNCHANGED <<toClient, RecvChannel>>
  /\ UNCHANGED <<link, toServer, currentState, fsm, pending, SendChannel, NewWork,
                 WorkResponse, SendErrorChannel, StopChannel, LogoutChannel,
                 StatusChannel, sender, LastGreetingTime>>

Stop ==
  /\ ~StopChannel /\ StopChannel' = TRUE
  /\ fsm # "ended"
  /\ UNCHANGED <<wire, currentState, fsm, pending, SendChannel, RecvChannel, NewWork,
                 WorkResponse, SendErrorChannel, LogoutChannel, StatusChannel,
                 sender, listener, LastGreetingTime>>

NewEPPClient ==
  /\ currentState = "closedConnection" /\ fsm = "top" /\ pending = None
  /\ SendChannel = <<>> /\ RecvChannel = <<>>
  /\ NewWork = <<>> /\ WorkResponse = <<>>
  /\ SendErrorChannel = FALSE /\ StopChannel = FALSE /\ LogoutChannel = FALSE
  /\ StatusChannel = {}
  /\ sender = "none" /\ listener = "none"
  /\ LastGreetingTime = "past"
=============================================================================
