-------------------------------- MODULE Registry ------------------------------
(***************************************************************************)
(* The registry as the provisioner meets it: domains, hosts, the queue of  *)
(* poll messages, and which commands it refuses.  It is not part of the    *)
(* repository; it keeps the rules of the EPP object mappings that src/epp  *)
(* and src/provision are written against.                                  *)
(***************************************************************************)
EXTENDS Integers, Sequences, FiniteSets

CONSTANTS
  Domains, Hosts,
  Parent,           \* the domain a host is under; NoParent: not .COM or .NET
  NoParent,
  Statuses, DSRecords, Addresses,
  ClientStatuses,   \* the statuses a registrar may set
  DomainStarts,     \* bound: what the registry may hold of a domain at first
  HostStarts,       \* bound: ... of a host
  PollStarts        \* bound: the poll messages waiting at first

ASSUME ParentAssumption == Parent \in [Hosts -> Domains \cup {NoParent}]
ASSUME DisjointAssumption == Domains \cap Hosts = {}

ASSUME StatusesAssumption == "clientUpdate" \in ClientStatuses /\ ClientStatuses \subseteq Statuses

Objects == Domains \cup Hosts

\* What the registry holds of a domain and of a host.  A registration that is about to end
\* expires in year 0; it is renewed year by year.
DomainObject ==
  [exists : BOOLEAN, sponsor : {"us", "them"}, hosts : SUBSET Hosts, statuses : SUBSET Statuses,
   ds : SUBSET DSRecords, expires : Nat, transfer : {"none", "in", "out"}]
HostObject == [exists : BOOLEAN, addresses : SUBSET Addresses, statuses : SUBSET Statuses]
PollMessage ==
  [kind : {"transferRequested", "transferApproved", "transferRejected", "transferCancelled",
           "unusedObjects", "other"}, domain : Domains]

ASSUME StartsAssumption ==
  /\ DomainStarts \subseteq DomainObject /\ \A s \in DomainStarts : s.expires <= 1
  /\ HostStarts \subseteq HostObject
  /\ PollStarts \subseteq Seq(PollMessage)

Client(statuses) == statuses \cap ClientStatuses

VARIABLES
  registry,   \* what the registry holds of every domain and host
  polls       \* the poll messages of this registrar, the oldest first

registryVars == <<registry, polls>>

-----------------------------------------------------------------------------
(* A command: what it does, to which object, and with what *)

Ours(d) == registry[d].exists /\ registry[d].sponsor = "us"
Linked(h) == \E d \in Domains : registry[d].exists /\ h \in registry[d].hosts
Sponsor(h) == Parent[h] # NoParent /\ Ours(Parent[h])

(* Under an update lock only the removal of the client's lock goes through. *)
Unlocked(c) ==
  /\ "serverUpdate" \notin registry[c.on].statuses
  /\ \/ "clientUpdate" \notin registry[c.on].statuses
     \/ c.op \in {"unlock", "remStatuses", "hostStatuses"} /\ "clientUpdate" \in c.arg.rem

Accepts(c) ==
  CASE c.op = "create" -> ~registry[c.on].exists
    [] c.op = "delete" ->
         /\ Ours(c.on) /\ registry[c.on].statuses = {}
         /\ \A h \in Hosts : Parent[h] = c.on => ~registry[h].exists
    [] c.op \in {"unlock", "addHosts", "remHosts", "addDS", "remDS",
                 "addStatuses", "remStatuses"} ->
         Ours(c.on) /\ Unlocked(c) /\ \A h \in c.arg.add \cap Hosts : registry[h].exists
    [] c.op = "renew" ->
         Ours(c.on) /\ c.arg = registry[c.on].expires /\ registry[c.on].expires < 2
    [] c.op = "transfer" ->
         /\ registry[c.on].exists /\ registry[c.on].sponsor = "them"
         /\ registry[c.on].transfer = "none"
    [] c.op \in {"approve", "reject"} -> Ours(c.on) /\ registry[c.on].transfer = "out"
    [] c.op = "hostCreate" -> ~registry[c.on].exists /\ Sponsor(c.on)
    [] c.op = "hostDelete" ->
         registry[c.on].exists /\ Sponsor(c.on) /\ ~Linked(c.on) /\ registry[c.on].statuses = {}
    [] c.op \in {"hostStatuses", "hostAddresses"} ->
         registry[c.on].exists /\ Sponsor(c.on) /\ Unlocked(c)
    [] OTHER -> TRUE   \* an info command; the acknowledgement of a poll message

(* What a registry refuses; an acknowledgement it may refuse at any time. *)
Refuses(c) == ~Accepts(c) \/ c.op = "ack"

Edit(set, arg) == (set \ arg.rem) \cup arg.add

Changed(c) ==
  LET r == registry[c.on]
  IN  CASE c.op = "create" ->
             [exists |-> TRUE, sponsor |-> "us", hosts |-> {}, statuses |-> {}, ds |-> {},
              expires |-> 1, transfer |-> "none"]
        [] c.op \in {"delete", "hostDelete"} -> [r EXCEPT !.exists = FALSE]
        [] c.op \in {"addHosts", "remHosts"} -> [r EXCEPT !.hosts = Edit(@, c.arg)]
        [] c.op \in {"addDS", "remDS"} -> [r EXCEPT !.ds = Edit(@, c.arg)]
        [] c.op \in {"unlock", "addStatuses", "remStatuses", "hostStatuses"} ->
             [r EXCEPT !.statuses = Edit(@, c.arg)]
        [] c.op = "renew" -> [r EXCEPT !.expires = @ + 1]
        [] c.op = "transfer" -> [r EXCEPT !.transfer = "in"]
        [] c.op = "approve" -> [r EXCEPT !.transfer = "none", !.sponsor = "them"]
        [] c.op = "reject" -> [r EXCEPT !.transfer = "none"]
        [] c.op = "hostCreate" -> [exists |-> TRUE, addresses |-> c.arg.add, statuses |-> {}]
        [] c.op = "hostAddresses" -> [r EXCEPT !.addresses = Edit(@, c.arg)]
        [] OTHER -> r

Carry(c) ==
  /\ registry' = [registry EXCEPT ![c.on] = Changed(c)]
  /\ polls' = IF c.op = "ack" /\ polls # <<>> THEN Tail(polls) ELSE polls

-----------------------------------------------------------------------------
(* What happens at the registry without a command of the provisioner *)

TransferRequested(d) ==
  /\ Ours(d) /\ registry[d].transfer = "none" /\ Len(polls) < 1
  /\ {"clientTransfer", "serverTransfer"} \cap registry[d].statuses = {}
  /\ registry' = [registry EXCEPT ![d].transfer = "out"]
  /\ polls' = Append(polls, [kind |-> "transferRequested", domain |-> d])

TransferredIn(d) ==
  /\ registry[d].transfer = "in"
  /\ registry' = [registry EXCEPT ![d].transfer = "none", ![d].sponsor = "us"]
  /\ UNCHANGED polls

RegistryInit ==
  /\ registry \in {f \in [Objects -> DomainStarts \cup HostStarts] :
                     /\ \A d \in Domains : f[d] \in DomainStarts
                     /\ \A h \in Hosts : f[h] \in HostStarts
                     /\ \A d \in Domains, h \in Hosts :
                          f[d].exists /\ h \in f[d].hosts => f[h].exists}
  /\ polls \in PollStarts
=============================================================================
