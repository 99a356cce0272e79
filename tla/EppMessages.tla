------------------------------ MODULE EppMessages ------------------------------
(***************************************************************************)
(* The EPP messages of package epp: how the constructors build them, what  *)
(* a receiver gets of them (UnmarshalMessage reads every namespaced object *)
(* into a generic one), how TypedMessage turns the generic objects back    *)
(* into typed ones, and what MessageType makes of the result.              *)
(*                                                                         *)
(* A message is a function from its parts to their data.  A part is a pair *)
(* <<element, form>>: form "plain" for an element without a namespace of   *)
(* its own, "domain", "host" or "contact" for a typed object, "generic"    *)
(* for one as it was received.  Dates, phone numbers and the like, and the *)
(* upper-casing of names, are left out.                                    *)
(***************************************************************************)
EXTENDS Integers, Sequences, FiniteSets, TLC

CONSTANTS
  Names,   \* names of domains and hosts, IDs of contacts
  Tld      \* the registry a name belongs to: "COM", "NET" or another

Objects == {"domain", "host", "contact"}
Transfers == {"request", "query", "approve", "reject", "cancel"}
CommandElements ==
  {"login", "logout", "check", "create", "info", "delete", "update",
   "transfer", "renew", "poll"}
DataElements == {"chkData", "creData", "infData", "renData", "trnData"}

Part(element, form, data) == [part \in {<<element, form>>} |-> data]
Has(m, element, form) == <<element, form>> \in DOMAIN m

\* the message with the parts of all of these, no two of which share one
Join(messages) ==
  [part \in UNION {DOMAIN m : m \in messages} |->
     (CHOOSE m \in messages : part \in DOMAIN m)[part]]
m ++ n == Join({m, n})

-----------------------------------------------------------------------------
(* Constructors: requests *)

GetEPPHello == Part("hello", "plain", <<>>)
GetEPPGreeting == Part("greeting", "plain", <<>>)
GetEPPCommand(tx) == Part("command", "plain", tx)
Envelope(element, tx) == GetEPPCommand(tx) ++ Part(element, "plain", <<>>)

(* The NameStore extension, which the registry asks for in its own zones. *)
NameStore(name) ==
  IF Tld[name] \in {"COM", "NET"} THEN Part("namestore", "domain", Tld[name])
  ELSE <<>>

GetEPPLogin(tx) == Envelope("login", tx)
GetEPPLoginPasswordChange(tx) ==
  GetEPPCommand(tx) ++ Part("login", "plain", <<"newPassword">>)
GetEPPLogout(tx) == Envelope("logout", tx)
GetEPPPollRequest(tx) == GetEPPCommand(tx) ++ Part("poll", "plain", [op |-> "req"])
GetEPPPollAcknowledge(id, tx) ==
  GetEPPCommand(tx) ++ Part("poll", "plain", [op |-> "ack", msgID |-> id])

GetEPPDomainCheck(n, tx) ==
  Envelope("check", tx) ++ Part("check", "domain", n) ++ NameStore(n)
GetEPPHostCheck(n, tx) ==
  Envelope("check", tx) ++ Part("check", "host", n) ++ NameStore(n)
GetEPPContactCheck(n, tx) == Envelope("check", tx) ++ Part("check", "contact", n)

GetEPPDomainCreate(n, hosts, tx) ==
  Envelope("create", tx) ++ Part("create", "domain", [name |-> n, hosts |-> hosts])
    ++ NameStore(n)
GetEPPHostCreate(n, addrs, tx) ==
  Envelope("create", tx) ++ Part("create", "host", [name |-> n, addrs |-> addrs])
    ++ NameStore(n)
GetEPPContactCreate(n, tx) ==
  Envelope("create", tx) ++ Part("create", "contact", [id |-> n])

GetEPPDomainInfo(n, tx) ==
  Envelope("info", tx) ++ Part("info", "domain", n) ++ NameStore(n)
GetEPPHostInfo(n, tx) ==
  Envelope("info", tx) ++ Part("info", "host", n) ++ NameStore(n)
GetEPPContactInfo(n, tx) == Envelope("info", tx) ++ Part("info", "contact", n)

GetEPPDomainDelete(n, tx) ==
  Envelope("delete", tx) ++ Part("delete", "domain", n) ++ NameStore(n)
GetEPPHostDelete(n, tx) ==
  Envelope("delete", tx) ++ Part("delete", "host", n) ++ NameStore(n)
GetEPPContactDelete(n, tx) == Envelope("delete", tx) ++ Part("delete", "contact", n)

(* The lists of an update: what is added and what is removed. *)
AddRemove(hosts, statuses) == [hosts |-> hosts, statuses |-> statuses]
NoChange == AddRemove(<<>>, <<>>)

GetEPPDomainUpdate(n, add, rem, tx) ==
  Envelope("update", tx)
    ++ Part("update", "domain", [name |-> n, add |-> add, rem |-> rem])
    ++ NameStore(n)
GetEPPHostUpdate(n, add, rem, tx) ==
  Envelope("update", tx)
    ++ Part("update", "host", [name |-> n, add |-> add, rem |-> rem])
    ++ NameStore(n)

(* What a contact's update may change, each element by a pointer of its own: *)
(* "chg" is the set of those that are given, and the others are nil.        *)
ContactChange == {"postal", "voice", "fax"}

GetEPPContactUpdate(n, add, rem, chg, tx) ==
  Envelope("update", tx)
    ++ Part("update", "contact", [name |-> n, add |-> add, rem |-> rem, chg |-> chg])

(* These three write into the extension that GetEPPDomainUpdate made: there *)
(* is one only for a name under .COM or .NET, and a panic for another.      *)
GetEPPDomainSyncUpdate(n, tx) ==
  GetEPPDomainUpdate(n, NoChange, NoChange, tx) ++ Part("sync", "domain", n)
GetEPPDomainSecDNSUpdate(n, tx) ==
  GetEPPDomainUpdate(n, NoChange, NoChange, tx) ++ Part("secDNS", "domain", n)
GetEPPDomainRestore(n, op, tx) ==
  GetEPPDomainUpdate(n, NoChange, NoChange, tx) ++ Part("rgp", "domain", op)

GetEPPDomainTransfer(n, op, tx) ==
  GetEPPCommand(tx) ++ Part("transfer", "plain", op) ++ Part("transfer", "domain", n)
    ++ NameStore(n)
GetEPPContactTransfer(n, op, tx) ==
  GetEPPCommand(tx) ++ Part("transfer", "plain", op) ++ Part("transfer", "contact", n)

GetEPPDomainRenew(n, tx) ==
  Envelope("renew", tx) ++ Part("renew", "domain", n) ++ NameStore(n)

-----------------------------------------------------------------------------
(* Constructors: responses *)

GetEPPResponse(tx, code) == Part("response", "plain", [clTRID |-> tx, code |-> code])
WithData(r, element, form, data) == r ++ Part(element, form, data)

IsFatalError(m) == m[<<"response", "plain">>].code \in 2500 .. 2599
IsError(m) == m[<<"response", "plain">>].code \in 2000 .. 2999

-----------------------------------------------------------------------------
(* The shape of a message that a constructor made: at most one typed object *)
(* to an element, of a form that the element has a field for; a poll is a   *)
(* command and nothing else; an update of a domain has both its lists, one  *)
(* of a contact also its change block.                                      *)
FormsOf(element) ==
  CASE element \in {"renew", "renData", "namestore"} -> {"domain"}
    [] element \in {"transfer", "trnData"} -> {"domain", "contact"}
    [] OTHER -> Objects

AddRemoves == [hosts : Seq(STRING), statuses : Seq(STRING)]
DomainUpdates == [name : Names, add : AddRemoves, rem : AddRemoves]
ContactUpdates ==
  [name : Names, add : AddRemoves, rem : AddRemoves, chg : SUBSET ContactChange]

WellFormed(m) ==
  /\ IsFiniteSet(DOMAIN m) /\ DOMAIN m # {}
  /\ \A p \in DOMAIN m : p = <<p[1], p[2]>> /\ p[2] \in FormsOf(p[1]) \cup {"plain"}
  /\ \A p, q \in DOMAIN m :
       p[1] = q[1] /\ p[2] # "plain" /\ q[2] # "plain" => p = q
  /\ Has(m, "poll", "plain")
       => DOMAIN m = {<<"command", "plain">>, <<"poll", "plain">>}
  /\ Has(m, "update", "domain") => m[<<"update", "domain">>] \in DomainUpdates
  /\ Has(m, "update", "contact") => m[<<"update", "contact">>] \in ContactUpdates

-----------------------------------------------------------------------------
(* What is received: a typed object becomes a generic one that knows its    *)
(* namespace.  The sync, rgp and secDNS extensions have no generic form and *)
(* are lost.                                                                *)
Lost == {"sync", "rgp", "secDNS"}

UnmarshalMessage(m) ==
  LET parts == {p \in DOMAIN m : p[1] \notin Lost}
      form(p) == IF p[2] = "plain" THEN p ELSE <<p[1], "generic">>
  IN  [q \in {form(p) : p \in parts} |->
         IF q[2] = "plain" THEN m[q]
         ELSE LET p == CHOOSE p \in parts : p[1] = q[1] /\ p[2] # "plain"
              IN  [ns |-> p[2], data |-> m[p]]]

-----------------------------------------------------------------------------
(* TypedMessage *)

(* The change block of a contact's update is read through the pointers to   *)
(* all of its elements, those that are nil included: such a message makes   *)
(* TypedMessage panic, and nothing recovers.                                *)
TypedMessagePanics(m) ==
  /\ Has(m, "update", "generic")
  /\ m[<<"update", "generic">>].ns = "contact"
  /\ m[<<"update", "generic">>].data.chg # ContactChange

(* Generic object of element e, typed by its namespace, its data converted. *)
Retype(m, e, forms, convert(_)) ==
  IF ~Has(m, e, "generic") \/ m[<<e, "generic">>].ns \notin forms THEN <<>>
  ELSE Part(e, m[<<e, "generic">>].ns, convert(m[<<e, "generic">>].data))

Same(data) == data

TypedCheck(m) == Retype(m, "check", Objects, Same)
TypedCreate(m) == Retype(m, "create", Objects, Same)
TypedInfo(m) == Retype(m, "info", Objects, Same)
TypedDelete(m) == Retype(m, "delete", Objects, Same)
TypedTransfer(m) == Retype(m, "transfer", {"domain", "contact"}, Same)
TypedRenew(m) == Retype(m, "renew", {"domain"}, Same)

(* Faulty variant: the removed hosts are not copied. *)
TypedUpdateAddOnly(m) ==
  LET typed(data) == [data EXCEPT !.rem = NoChange]
  IN  Retype(m, "update", Objects, typed)

(* The list of hosts is made anew for every host that is copied into it, so *)
(* the last one is all that a domain's update keeps.                        *)
TypedUpdate(m) ==
  LET last(s) == IF s = <<>> THEN <<>> ELSE <<s[Len(s)]>>
      typed(data) ==
        IF m[<<"update", "generic">>].ns # "domain" THEN data
        ELSE [data EXCEPT !.add.hosts = last(@), !.rem.hosts = last(@)]
  IN  Retype(m, "update", Objects, typed)

TypedExtension(m) == Retype(m, "namestore", {"domain"}, Same)

(* Faulty variant: the data of a renewal is forgotten. *)
TypedResultDataNoRenewal(m) ==
  Join({Retype(m, "chkData", Objects, Same), Retype(m, "creData", Objects, Same),
        Retype(m, "infData", Objects, Same),
        Retype(m, "trnData", {"domain", "contact"}, Same)})

(* Every element of the result data; renewals are of domains, and hosts are *)
(* not transferred.                                                         *)
TypedResultData(m) ==
  Join({Retype(m, "chkData", Objects, Same), Retype(m, "creData", Objects, Same),
        Retype(m, "infData", Objects, Same), Retype(m, "renData", {"domain"}, Same),
        Retype(m, "trnData", {"domain", "contact"}, Same)})

(* Elements of a command that are copied as they are: not poll. *)
Plain(m) ==
  LET kept == {"greeting", "hello", "command", "response"}
                \cup (CommandElements \ {"poll"})
  IN  [p \in {p \in DOMAIN m : p[1] \in kept /\ p[2] = "plain"} |-> m[p]]

(* The typed message, of one that does not panic. *)
TypedMessage(m) ==
  Join({Plain(m), TypedCheck(m), TypedCreate(m), TypedInfo(m), TypedDelete(m),
        TypedUpdate(m), TypedTransfer(m), TypedRenew(m), TypedExtension(m),
        TypedResultData(m)})

-----------------------------------------------------------------------------
(* MessageType: the constants "epp.command.check.domain" and so on, as      *)
(* sequences of their parts.                                                *)

Forms(m, e) == {f \in Objects : Has(m, e, f)}

TransferType(m) ==
  IF Cardinality(Forms(m, "transfer")) # 1 THEN <<"command", "transfer">>
  ELSE <<"command", "transfer", CHOOSE f \in Objects : Has(m, "transfer", f),
         m[<<"transfer", "plain">>]>>

ObjectType(m, e) ==
  IF Cardinality(Forms(m, e)) # 1 THEN <<"command", e>>
  ELSE <<"command", e, CHOOSE f \in Objects : Has(m, e, f)>>

CommandType(m) ==
  LET present == {e \in CommandElements : Has(m, e, "plain")} IN
  IF Cardinality(present) # 1 THEN <<"command">>
  ELSE LET e == CHOOSE e \in present : TRUE IN
       CASE e \in {"login", "logout", "poll"} -> <<"command", e>>
         [] e = "transfer" -> TransferType(m)
         [] OTHER -> ObjectType(m, e)

ResponseType(m) ==
  LET present == {p \in DataElements \X Objects : p \in DOMAIN m} IN
  IF Cardinality(present) # 1 THEN <<"response">>
  ELSE LET p == CHOOSE p \in present : TRUE IN <<"response", p[2], p[1]>>

MessageType(m) ==
  LET top == {t \in {"greeting", "hello", "command", "response"} : Has(m, t, "plain")} IN
  CASE top = {"command"} -> CommandType(m)
    [] top = {"response"} -> ResponseType(m)
    [] top = {"greeting"} -> <<"greeting">>
    [] top = {"hello"} -> <<"hello">>
    [] OTHER -> <<"generic">>
=============================================================================
