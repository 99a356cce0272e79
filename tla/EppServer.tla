------------------------------- MODULE EppServer ------------------------------
(***************************************************************************)
(* The peer of an EPP client: the connection of package server, the EPP    *)
(* server the client is tried against, or a registry.  Which of the two it *)
(* is shows in "peer".                                                     *)
(***************************************************************************)
EXTENDS EppWire

CONSTANTS
  Exists,       \* <<form, name>> of the objects the server knows
  Sponsored,    \* names of the domains the logged-in client sponsors
  MaxFailedLoginAttempts

VARIABLES
  peer,                  \* "server" or "registry"
  serverState,           \* EPPServerState; "ended" when Handle has returned
  FailedLoginAttempts,
  knowsPassword          \* the client's password is the one in Logins

serverVars == <<peer, serverState, FailedLoginAttempts, knowsPassword>>

Tx(m) == IF Has(m, "command", "plain") THEN m[<<"command", "plain">>] ELSE -1
Reply(m, code) == GetEPPResponse(Tx(m), code)
CommandObject(m, e) == CHOOSE f \in Objects : Has(m, e, f)

-----------------------------------------------------------------------------
(* The handlers of package server *)

KeepPeer == UNCHANGED <<peer, knowsPassword>>

WriteEPP(m) == toClient' = Append(toClient, m)

(* Handle sends the greeting and waits for a login. *)
PrepareGreeting ==
  /\ peer = "server" /\ link = "up" /\ serverState = "PrepareGreeting"
  /\ WriteEPP(GetEPPGreeting)
  /\ serverState' = "WaitingForClient"
  /\ UNCHANGED <<link, toServer, FailedLoginAttempts>> /\ KeepPeer

HandleWaitingForClient ==
  /\ peer = "server" /\ link = "up" /\ serverState = "WaitingForClient"
  /\ toServer # <<>> /\ toServer' = Tail(toServer)
  /\ LET m == UnmarshalMessage(Head(toServer))
         login == MessageType(m) = <<"command", "login">>
         answer(code, state) == WriteEPP(Reply(m, code)) /\ serverState' = state
     IN /\ CASE login /\ knowsPassword -> answer(1000, "WaitingForCommand")
             [] login /\ ~knowsPassword ->
                  IF FailedLoginAttempts >= MaxFailedLoginAttempts
                  THEN answer(2501, "CloseConnection")
                  ELSE answer(2200, "WaitingForClient")
             [] OTHER -> answer(2002, "CloseConnection")
        /\ FailedLoginAttempts' =
             IF serverState' = "WaitingForClient" THEN FailedLoginAttempts + 1
             ELSE FailedLoginAttempts
  /\ UNCHANGED link /\ KeepPeer

(* check: an object is available that is not known. *)
generateCheckResponseObject(m) ==
  LET form == CommandObject(m, "check")
      name == m[<<"check", form>>]
  IN  WithData(Reply(m, 1000), "chkData", form,
        [name |-> name, avail |-> <<form, name>> \notin Exists])

Information(m, form) ==
  LET name == m[<<"info", form>>] IN
  IF <<form, name>> \in Exists
  THEN WithData(Reply(m, 1000), "infData", form, [name |-> name])
  ELSE Reply(m, 2303)

handleContactInfo(m) == Information(m, "contact")
handleHostInfo(m) == Information(m, "host")
handleDomainInfo(m) == Information(m, "domain")

(* An update of a domain somebody else sponsors gets no answer at all; one  *)
(* of an unknown domain gets its answer and brings the server down.         *)
handleDomainUpdate(m) ==
  LET name == m[<<"update", "domain">>].name IN
  CASE <<"domain", name>> \notin Exists ->
         WriteEPP(Reply(m, 2303)) /\ serverState' = "ended" /\ link' = "closed"
    [] <<"domain", name>> \in Exists /\ name \in Sponsored ->
         WriteEPP(Reply(m, 1000)) /\ UNCHANGED <<serverState, link>>
    [] OTHER -> UNCHANGED <<toClient, serverState, link>>

(* A hello, a poll and most commands get no answer, transfers among them:    *)
(* their case asks for the type of a transfer without an object.  The        *)
(* updates of hosts and contacts end the handler, and the connection stays   *)
(* as it is.                                                                 *)
Unhandled == {<<"command", "update", "host">>, <<"command", "update", "contact">>}

Answered(m) ==
  LET type == MessageType(m) IN
  CASE type = <<"command", "logout">> -> {Reply(m, 1500)}
    [] Len(type) = 3 /\ type[2] = "check" -> {generateCheckResponseObject(m)}
    [] type = <<"command", "info", "contact">> -> {handleContactInfo(m)}
    [] type = <<"command", "info", "host">> -> {handleHostInfo(m)}
    [] type = <<"command", "info", "domain">> -> {handleDomainInfo(m)}
    [] OTHER -> {}

(* A message that makes TypedMessage panic ends the server's process, and    *)
(* with it the connection.                                                   *)
HandleWaitingForCommand ==
  /\ peer = "server" /\ link = "up" /\ serverState = "WaitingForCommand"
  /\ toServer # <<>> /\ toServer' = Tail(toServer)
  /\ LET received == UnmarshalMessage(Head(toServer))
         m == TypedMessage(received)
     IN CASE TypedMessagePanics(received) ->
               serverState' = "ended" /\ link' = "closed" /\ UNCHANGED toClient
          [] ~TypedMessagePanics(received)
             /\ MessageType(m) = <<"command", "update", "domain">> ->
               handleDomainUpdate(m)
          [] OTHER ->
               /\ toClient' = toClient \o SetToSeq(Answered(m))
               /\ serverState' =
                    CASE MessageType(m) = <<"command", "logout">> -> "CloseConnection"
                      [] MessageType(m) \in Unhandled -> "ended"
                      [] OTHER -> serverState
               /\ UNCHANGED link
  /\ UNCHANGED FailedLoginAttempts /\ KeepPeer

(* Handle's last state, and what a timeout of the two waiting states does. *)
Close ==
  /\ peer = "server" /\ link = "up"
  /\ serverState \in {"WaitingForClient", "WaitingForCommand", "CloseConnection"}
  /\ serverState' = "ended"
  /\ link' = "closed"
  /\ UNCHANGED <<toServer, toClient, FailedLoginAttempts>> /\ KeepPeer

Handle ==
  \/ PrepareGreeting
  \/ HandleWaitingForClient
  \/ HandleWaitingForCommand
  \/ Close

-----------------------------------------------------------------------------
(* A registry: it greets, answers what it is asked in order, a hello with a *)
(* greeting and a command with a response of some code, and closes the      *)
(* connection after a logout or a fatal error.                              *)
Codes == {1000, 2303, 2501}

RegistryGreets ==
  /\ peer = "registry" /\ link = "up" /\ serverState = "PrepareGreeting"
  /\ WriteEPP(GetEPPGreeting)
  /\ serverState' = "WaitingForCommand"
  /\ UNCHANGED <<link, toServer, FailedLoginAttempts>> /\ KeepPeer

RegistryAnswers(code) ==
  /\ peer = "registry" /\ link = "up" /\ serverState = "WaitingForCommand"
  /\ toServer # <<>> /\ toServer' = Tail(toServer)
  /\ LET m == Head(toServer)
         hello == Has(m, "hello", "plain")
         answer == Reply(m, IF Has(m, "logout", "plain") THEN 1500 ELSE code)
     IN /\ hello => code = 1000
        /\ WriteEPP(IF hello THEN GetEPPGreeting ELSE answer)
        /\ IF ~hello /\ (IsFatalError(answer) \/ Has(m, "logout", "plain"))
           THEN serverState' = "ended" /\ link' = "closed"
           ELSE UNCHANGED <<serverState, link>>
  /\ UNCHANGED FailedLoginAttempts /\ KeepPeer

Registry == RegistryGreets \/ \E code \in Codes : RegistryAnswers(code)

ServerInit ==
  /\ peer \in {"server", "registry"}
  /\ serverState = "PrepareGreeting"
  /\ FailedLoginAttempts = 0
  /\ knowsPassword \in BOOLEAN
  /\ (peer = "registry" => knowsPassword)
=============================================================================
