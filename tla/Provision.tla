------------------------------- MODULE Provision ------------------------------
(***************************************************************************)
(* The runs of the provisioner (src/provision/main.go) against a registry, *)
(* and the part of the registrar's rows they work from (CheckRequired, the *)
(* hold, the approved revision).  A run verifies the objects that need a   *)
(* check, then goes through its phases; every command may be refused, be   *)
(* lost, or be carried out with its answer lost, and a run may die between *)
(* any two commands.                                                       *)
(***************************************************************************)
EXTENDS Registry

CONSTANTS
  Nothing,       \* no verified object, no answer
  Revisions,     \* the revisions an object may be approved with
  Listed,        \* bound: the objects whose check is set at first
  MaxRuns,       \* bound: runs of the provisioner
  MaxEvents,     \* bound: what users and other registrars do
  MaxFailures    \* bound: lost commands, lost answers, failed checks and deaths

\* What users may ask of a domain and of a host, and the row of either.
DomainRevision ==
  [desired : {"active", "inactive", "external"}, hosts : SUBSET Hosts,
   statuses : SUBSET Statuses, ds : SUBSET DSRecords]
HostRevision ==
  [desired : {"active", "inactive"}, addresses : SUBSET Addresses, statuses : SUBSET Statuses]
Row == [rev : DomainRevision \cup HostRevision, check : BOOLEAN, hold : BOOLEAN, expires : Nat]

ASSUME RevisionsAssumption ==
  /\ DOMAIN Revisions = Objects
  /\ \A d \in Domains : Revisions[d] \subseteq DomainRevision
  /\ \A h \in Hosts : Revisions[h] \subseteq HostRevision
ASSUME NothingAssumption == Nothing \notin Row \cup DomainObject \cup HostObject
ASSUME ProvisionBounds == MaxRuns \in Nat /\ MaxEvents \in Nat /\ MaxFailures \in Nat

VARIABLES
  row,        \* the registrar's rows: rev, check, hold, expires
  pc,         \* the phase of the run, or idle
  todo,       \* the objects the phase has still to look at
  work,       \* the domains GetWork listed
  verified,   \* verifiedDomains and verifiedHosts: the row as it was exported
  avail,      \* domainAvailability, hostAvailability: unknown, yes, no
  info,       \* domainInfoResponses, hostInfoResponses
  plan,       \* the commands still to be sent for the present object
  changed,    \* domainChangeMade, hostChangeMade
  completed,  \* rr.CompletedRun
  mishaps,    \* history: what went wrong in this run, with which object
  runs, events, failures   \* counters of the bounds

run == <<todo, work, verified, avail, info, plan, changed, completed>>
bounds == <<runs, events, failures>>
vars == <<registryVars, row, pc, run, mishaps, bounds>>

-----------------------------------------------------------------------------
(* Commands *)

\* onError: go on ("log"), leave this object ("skip"), or leave the run ("stop")
Command(op, on, arg, onError, marks) ==
  [op |-> op, on |-> on, arg |-> arg, onError |-> onError, marks |-> marks]
Add(set) == [add |-> set, rem |-> {}]
Rem(set) == [add |-> {}, rem |-> set]
Unless(none, cmd) == IF none THEN <<>> ELSE <<cmd>>

UpdateDomainInfo(d, onError) == Command("info", d, Add({}), onError, FALSE)
UpdateHostInfo(h) == Command("info", h, Add({}), "log", FALSE)
Refresh(o) == Command("refresh", o, Add({}), "log", FALSE)

DiffHostListAdditions(inf, rev) == [add |-> rev.hosts \ inf.hosts, rem |-> {}]   \* faulty
DiffHostList(inf, rev) == [add |-> rev.hosts \ inf.hosts, rem |-> inf.hosts \ rev.hosts]
DiffDomainDSData(inf, rev) == [add |-> rev.ds \ inf.ds, rem |-> inf.ds \ rev.ds]
DiffStatuses(inf, rev) ==
  [add |-> Client(rev.statuses) \ inf.statuses, rem |-> Client(inf.statuses) \ rev.statuses]
DiffIPs(inf, rev) == [add |-> rev.addresses \ inf.addresses, rem |-> inf.addresses \ rev.addresses]
Same(diff) == diff = Add({})

-----------------------------------------------------------------------------
(* DomainUpdate: the commands for one domain *)

(* The lock is taken off before the changes, whatever they are, unless the  *)
(* registry's own lock is on; the command may fail, the changes are tried   *)
(* all the same.                                                            *)
Unlocks(inf) == {"clientUpdate", "serverUpdate"} \cap inf.statuses = {"clientUpdate"}
DomainUnlockForChangeOrSkip(d, inf) ==   \* faulty: as HostUpdate does
  Unless(~Unlocks(inf), Command("unlock", d, Rem({"clientUpdate"}), "skip", FALSE))
DomainUnlockForChange(d, inf) ==
  Unless(~Unlocks(inf), Command("unlock", d, Rem({"clientUpdate"}), "log", FALSE))

\* clientUpdate is not part of the difference: it is to be what it was
Relock(inf, statuses) ==
  IF Unlocks(inf) /\ "clientUpdate" \notin statuses.rem
  THEN [statuses EXCEPT !.add = @ \cup {"clientUpdate"}]
  ELSE statuses

RenewalFromInfo(d, inf) ==   \* faulty
  Unless({"clientRenew", "serverRenew"} \cap inf.statuses # {} \/ verified[d].expires # 0,
         Command("renew", d, inf.expires, "log", TRUE))
Renewal(d, inf) ==
  Unless({"clientRenew", "serverRenew"} \cap inf.statuses # {} \/ verified[d].expires # 0,
         Command("renew", d, verified[d].expires, "log", TRUE))

\* the calls of the super client, each left out when it has nothing to do
Part(op, d, part) == Unless(Same(part), Command(op, d, part, "log", TRUE))
DomainAddHosts(d, hosts) == Part("addHosts", d, Add(hosts.add))
DomainRemoveHosts(d, hosts) == Part("remHosts", d, Rem(hosts.rem))
DomainAddDSRecords(d, ds) == Part("addDS", d, Add(ds.add))
DomainRemoveDSRecords(d, ds) == Part("remDS", d, Rem(ds.rem))
DomainAddStatuses(d, statuses) == Part("addStatuses", d, Add(statuses.add))
DomainRemoveStatuses(d, statuses) == Part("remStatuses", d, Rem(statuses.rem))

ChangeHostsRemovalFirst(d, hosts) ==   \* faulty
  DomainRemoveHosts(d, hosts) \o DomainAddHosts(d, hosts)
ChangeHosts(d, hosts) == DomainAddHosts(d, hosts) \o DomainRemoveHosts(d, hosts)

ActiveDomain(d) ==
  LET inf == info[d]
      rev == verified[d].rev
      hosts == DiffHostList(inf, rev)
      ds == DiffDomainDSData(inf, rev)
      diff == DiffStatuses(inf, rev)
      statuses == Relock(inf, diff)
      changes ==
        DomainUnlockForChange(d, inf) \o ChangeHosts(d, hosts)
        \o DomainAddDSRecords(d, ds) \o DomainRemoveDSRecords(d, ds)
        \o DomainRemoveStatuses(d, statuses) \o DomainAddStatuses(d, statuses)
  IN  (IF Same(hosts) /\ Same(ds) /\ Same(diff) THEN <<>> ELSE changes) \o Renewal(d, inf)

DomainDelete(d) == Command("delete", d, Add({}), "stop", TRUE)
InactiveDomain(d, answer) ==
  Unless(answer # "yes", DomainDelete(d))

ExternalDomain(d, answer) ==
  Unless(answer # "yes" \/ "clientTransfer" \notin info[d].statuses,
         Command("remStatuses", d, Rem({"clientTransfer"}), "log", TRUE))

\* whether DomainUpdate asks the operator before it goes on
AsksDomain(d) ==
  /\ avail[d] = "no"
  /\ \/ verified[d].rev.desired = "inactive"
     \/ /\ verified[d].rev.desired = "external" /\ info[d] # Nothing
        /\ info[d].sponsor = "us"

DomainPlan(d, answer) ==
  LET desired == verified[d].rev.desired
  IN  IF avail[d] # "no" \/ (desired # "inactive" /\ info[d] = Nothing) THEN <<>>
      ELSE (CASE desired = "inactive" -> InactiveDomain(d, answer)
              [] desired = "active" -> ActiveDomain(d)
              [] desired = "external" /\ AsksDomain(d) -> ExternalDomain(d, answer)
              [] OTHER -> <<>>)
           \o <<Refresh(d)>>

-----------------------------------------------------------------------------
(* HostUpdate: the commands for one host *)

HostUnlockForChange(h, inf) ==
  Unless("clientUpdate" \notin inf.statuses,
         Command("hostStatuses", h, Rem({"clientUpdate"}), "skip", FALSE))

HostStatusUpdate(h, diff, rev) ==
  LET relock == IF "clientUpdate" \in rev.statuses
                THEN [diff EXCEPT !.add = @ \cup {"clientUpdate"}]
                ELSE [diff EXCEPT !.rem = @ \ {"clientUpdate"}]
  IN  Unless(relock = Add({}), Command("hostStatuses", h, relock, "stop", TRUE))

HostChangeIPAddresses(h, ips) == Unless(Same(ips), Command("hostAddresses", h, ips, "log", TRUE))
HostCreate(h, rev) == Command("hostCreate", h, Add(rev.addresses), "stop", TRUE)
HostDelete(h) == Command("hostDelete", h, Add({}), "stop", TRUE)

ActiveHost(h) ==
  LET inf == info[h]
      rev == verified[h].rev
      ips == DiffIPs(inf, rev)
      diff == DiffStatuses(inf, rev)
  IN  IF (Same(ips) /\ Same(diff)) \/ "serverUpdate" \in inf.statuses THEN <<>>
      ELSE HostUnlockForChange(h, inf)
           \o HostChangeIPAddresses(h, ips)
           \o HostStatusUpdate(h, diff, rev)
           \o <<UpdateHostInfo(h)>>

\* Promote gave the current revision its desired state for a state: the hosts of a domain
\* that is to be external are left alone
LeftAlone(h) ==
  /\ Parent[h] # NoParent /\ verified[Parent[h]] # Nothing
  /\ verified[Parent[h]].rev.desired = "external"

HostPlan(h) ==
  LET rev == verified[h].rev
  IN  IF verified[Parent[h]] = Nothing \/ LeftAlone(h) THEN <<>>
      ELSE CASE avail[h] = "yes" /\ rev.desired = "active" ->
                  <<HostCreate(h, rev), UpdateHostInfo(h)>>
             [] avail[h] = "no" /\ rev.desired = "inactive" ->
                  <<HostDelete(h), UpdateHostInfo(h)>>
             [] avail[h] = "no" /\ rev.desired = "active" /\ info[h] # Nothing ->
                  ActiveHost(h)
             [] OTHER -> <<>>

-----------------------------------------------------------------------------
(* What a push does to a row *)

(* LoadEPPInfo refuses the information of the domain it belongs to: the     *)
(* test of the name is the wrong way round.                                 *)
DomainEPPMatchesExpected(inf, rev) ==
  inf.statuses = rev.statuses /\ inf.hosts = rev.hosts /\ inf.ds = rev.ds
DomainLoadEPPInfo(d, name, inf) ==
  LET mine == name = d
      implemented == \/ DomainEPPMatchesExpected(inf, row[d].rev)
                     \/ row[d].rev.desired = "external" /\ inf.sponsor # "us"
  IN  IF mine THEN row[d]
      ELSE [row[d] EXCEPT !.expires = inf.expires, !.check = @ /\ ~implemented]

HostEPPMatchesAddresses(inf, rev) == inf.addresses = rev.addresses   \* faulty
HostEPPMatchesExpected(inf, rev) ==
  inf.statuses = rev.statuses /\ inf.addresses = rev.addresses
HostLoadEPPInfo(h, inf) ==
  [row[h] EXCEPT !.check = @ /\ ~HostEPPMatchesExpected(inf, row[h].rev)]

UnsetCheck(o) == [row[o] EXCEPT !.check = FALSE]

-----------------------------------------------------------------------------
(* Starting a run, and its end *)

Empty == [o \in Objects |-> Nothing]

StartRun ==
  /\ pc = "idle" /\ runs < MaxRuns /\ runs' = runs + 1
  /\ work' = {o \in Objects : row[o].check /\ ~row[o].hold}
  /\ todo' = work' \cap Hosts /\ pc' = "verifyHosts"
  /\ verified' = Empty /\ info' = Empty
  /\ avail' = [o \in Objects |-> "unknown"]
  /\ plan' = <<>> /\ changed' = FALSE /\ completed' = FALSE /\ mishaps' = {}
  /\ UNCHANGED <<registryVars, row, events, failures>>

Quit ==
  /\ pc' = "cleanup" /\ plan' = <<>> /\ todo' = {}

(* Logout, and with it the run, ends in a timeout: EndEPPRun is not reached. *)
Cleanup ==
  /\ pc = "cleanup" /\ pc' = "idle"
  /\ UNCHANGED <<registryVars, row, run, mishaps, bounds>>

Die ==
  /\ pc # "idle" /\ failures < MaxFailures /\ failures' = failures + 1
  /\ pc' = "idle" /\ plan' = <<>> /\ todo' = {}
  /\ UNCHANGED <<registryVars, row, work, verified, avail, info, changed, completed,
                 mishaps, runs, events>>

-----------------------------------------------------------------------------
(* The phases *)

VerifiedDomains == {d \in Domains : verified[d] # Nothing}
VerifiedHosts == {h \in Hosts : verified[h] # Nothing}
hostDomains == {Parent[h] : h \in VerifiedHosts} \ {NoParent}

Following ==
  [verifyHosts |-> "verifyDomains", verifyDomains |-> "polls", domainExists |-> "hostExists",
   hostExists |-> "domainInfo", domainInfo |-> "hostInfo", hostInfo |-> "transferIn",
   transferIn |-> "hostUpdate", hostUpdate |-> "domainUpdate",
   domainUpdate |-> "pushDomains", pushDomains |-> "pushHosts", pushHosts |-> "cleanup"]

Looks(phase) ==
  CASE phase = "verifyDomains" -> (work \cap Domains) \cup hostDomains
    [] phase \in {"domainExists", "domainInfo", "transferIn", "domainUpdate", "pushDomains"} ->
         VerifiedDomains
    [] phase \in {"hostExists", "hostInfo", "hostUpdate", "pushHosts"} -> VerifiedHosts
    [] OTHER -> {}

NextPhase ==
  /\ pc \in DOMAIN Following /\ todo = {} /\ plan = <<>>
  /\ pc' = Following[pc] /\ todo' = Looks(Following[pc])
  /\ completed' = (pc = "pushHosts")
  /\ UNCHANGED <<registryVars, row, work, verified, avail, info, plan, changed, mishaps,
                 bounds>>

\* taking an object of the present phase
Take(phase, o) ==
  /\ pc = phase /\ plan = <<>> /\ o \in todo

Troubled(what, o) == mishaps' = mishaps \cup {<<what, o>>}
Untroubled == UNCHANGED mishaps
Fails == failures < MaxFailures /\ failures' = failures + 1
Works == UNCHANGED failures

(* GetVerifiedHost, GetVerifiedDomain: the export, or errors. *)
Verify(phase, o) ==
  /\ Take(phase, o) /\ todo' = todo \ {o}
  /\ \/ verified' = [verified EXCEPT ![o] = row[o]] /\ Works /\ Untroubled
     \/ Fails /\ Troubled("verify", o) /\ UNCHANGED verified
  /\ UNCHANGED <<registryVars, pc, work, avail, info, plan, changed, completed, runs, events>>

VerifyHost(h) ==
  /\ Verify("verifyHosts", h)
  /\ row' = IF Parent[h] = NoParent /\ verified'[h] # Nothing
            THEN [row EXCEPT ![h] = UnsetCheck(h)] ELSE row

VerifyDomain(d) == Verify("verifyDomains", d) /\ UNCHANGED row

(* PollRequest, and what is sent before the next one.  No answer to a       *)
(* question, or a message of another kind, leaves the run.  AckPoll loses   *)
(* the error of a refusal, and that of a timeout is only logged: the same   *)
(* message is asked for again.                                              *)
handleDomainTransferOutRequest(d, answer) ==
  CASE verified[d] = Nothing -> "no"
    [] verified[d] # Nothing /\ verified[d].rev.desired # "external" -> "no"
    [] OTHER -> answer

PollPlan(m, answer) ==
  LET ack == Command("ack", m.domain, Add({}), "log", FALSE)
      transfer == handleDomainTransferOutRequest(m.domain, answer)
      Decide(op) == <<Command(op, m.domain, Add({}), "stop", FALSE), ack>>
  IN  CASE m.kind = "transferRequested" /\ transfer = "yes" -> Decide("approve")
        [] m.kind = "transferRequested" /\ transfer = "no" -> Decide("reject")
        [] m.kind \in {"transferApproved", "transferRejected", "transferCancelled"} -> <<ack>>
        [] m.kind = "unusedObjects" /\ answer = "yes" -> <<ack>>
        [] OTHER -> <<>>   \* not dequeued: this would result in a loop

NotDequeuedGoesOn == UNCHANGED <<pc, todo, plan>>   \* faulty
NotDequeued == Quit

HandlePolls ==
  /\ pc = "polls" /\ plan = <<>>
  /\ UNCHANGED <<registryVars, row, work, verified, avail, info, changed, completed, runs,
                 events>>
  /\ \/ /\ polls = <<>> /\ Works /\ Untroubled
        /\ pc' = "domainExists" /\ todo' = Looks("domainExists") /\ plan' = plan
     \/ /\ polls # <<>> /\ Works /\ Untroubled
        /\ \E answer \in {"yes", "no", "error"} :
             LET p == PollPlan(Head(polls), answer)
             IN  IF p = <<>> THEN NotDequeued ELSE plan' = p /\ UNCHANGED <<pc, todo>>
     \/ Fails /\ Quit /\ Untroubled

\* a command whose answer the phase needs: without it the run ends
Asked(o) ==
  \/ Works /\ Untroubled /\ todo' = todo \ {o} /\ UNCHANGED pc
  \/ Fails /\ Troubled("check", o) /\ Quit

DomainCreate(d) == Command("create", d, Add({}), "stop", FALSE)
GetDomainExistance(d) ==
  /\ Take("domainExists", d)
  /\ Asked(d)
  /\ LET missing == ~registry[d].exists
         register == missing /\ verified[d].rev.desired = "active"
     IN  /\ avail' = [avail EXCEPT ![d] = IF missing /\ ~register THEN "yes" ELSE "no"]
         /\ plan' = Unless(~register \/ pc' # pc, DomainCreate(d))
  /\ UNCHANGED <<registryVars, row, work, verified, info, changed, completed, runs, events>>

GetHostExistance(h) ==
  /\ Take("hostExists", h)
  /\ Asked(h)
  /\ avail' = [avail EXCEPT ![h] = IF registry[h].exists THEN "no" ELSE "yes"]
  /\ plan' = <<>>
  /\ UNCHANGED <<registryVars, row, work, verified, info, changed, completed, runs, events>>

\* the phases that only choose what is sent for an object
Send(phase, o, commands) ==
  /\ Take(phase, o)
  /\ todo' = todo \ {o} /\ plan' = commands /\ changed' = FALSE
  /\ UNCHANGED <<registryVars, row, pc, work, verified, avail, info, completed, bounds>>

GetDomainInfo(d) ==
  Send("domainInfo", d, Unless(avail[d] # "no", UpdateDomainInfo(d, "stop"))) /\ Untroubled

GetHostInfo(h) ==
  IF Parent[h] = NoParent
  THEN /\ Take("hostInfo", h) /\ Quit /\ Untroubled
       /\ UNCHANGED <<registryVars, row, work, verified, avail, info, changed, completed, bounds>>
  ELSE /\ Send("hostInfo", h, Unless(verified[Parent[h]] = Nothing \/ avail[h] # "no",
                                     UpdateHostInfo(h)))
       /\ Untroubled

RequestDomainTransfer(d) == Command("transfer", d, Add({}), "stop", FALSE)

\* whether the authorization is at hand is a file of the operator's
DomainTransferInRequests(d) ==
  LET wanted ==
        /\ verified[d].rev.desired = "active" /\ info[d] # Nothing
        /\ info[d].sponsor # "us"
        /\ {"clientTransfer", "serverTransfer"} \cap info[d].statuses = {}
  IN  \E authInfo \in BOOLEAN :
        Send("transferIn", d,
             Unless(~wanted \/ ~authInfo, RequestDomainTransfer(d)))
        /\ Untroubled

HostUpdate(h) == Send("hostUpdate", h, HostPlan(h)) /\ Untroubled

DomainUpdate(d) ==
  \E answer \in {"yes", "no", "error"} :
    /\ Send("domainUpdate", d, DomainPlan(d, answer))
    /\ IF answer = "yes" \/ ~AsksDomain(d) THEN Untroubled ELSE Troubled("prompt", d)

\* a push that fails is only logged
Push(phase, o, new) ==
  /\ Take(phase, o) /\ todo' = todo \ {o}
  /\ \/ row' = [row EXCEPT ![o] = new] /\ Works
     \/ Fails /\ UNCHANGED row
  /\ UNCHANGED <<registryVars, pc, work, verified, avail, info, plan, changed, completed,
                 mishaps, runs, events>>

PushDomains(d) ==
  Push("pushDomains", d,
       IF info[d] = Nothing THEN UnsetCheck(d) ELSE DomainLoadEPPInfo(d, d, info[d]))
PushHosts(h) ==
  Push("pushHosts", h,
       IF info[h] = Nothing THEN UnsetCheck(h) ELSE HostLoadEPPInfo(h, info[h]))

-----------------------------------------------------------------------------
(* Sending the next command of the plan *)

Answered(c) ==
  /\ plan' = Tail(plan) /\ changed' = (changed \/ c.marks)
  /\ info' = IF c.op \in {"info", "refresh"}
             THEN [info EXCEPT ![c.on] =
                     IF registry[c.on].exists THEN registry[c.on] ELSE Nothing]
             ELSE info
  /\ Untroubled /\ UNCHANGED <<pc, todo>>

Failed(c) ==
  /\ Troubled(c.op, c.on)
  /\ info' = IF c.op \in {"info", "refresh"} THEN [info EXCEPT ![c.on] = Nothing] ELSE info
  /\ IF c.onError = "stop" THEN Quit
     ELSE /\ plan' = IF c.onError = "skip" THEN <<>> ELSE Tail(plan)
          /\ UNCHANGED <<pc, todo>>
  /\ UNCHANGED changed

Unneeded(c) == c.op = "refresh" /\ ~changed

SendCommand ==
  /\ plan # <<>>
  /\ UNCHANGED <<row, work, verified, avail, completed, runs, events>>
  /\ LET c == Head(plan) IN
     \/ /\ Unneeded(c)
        /\ plan' = Tail(plan)
        /\ UNCHANGED <<registryVars, pc, todo, info, changed, mishaps, failures>>
     \/ ~Unneeded(c) /\ Accepts(c) /\ Carry(c) /\ Answered(c) /\ Works
     \/ ~Unneeded(c) /\ Accepts(c) /\ Carry(c) /\ Failed(c) /\ Fails
     \/ ~Unneeded(c) /\ Refuses(c) /\ Failed(c) /\ Works /\ UNCHANGED registryVars
     \/ ~Unneeded(c) /\ Failed(c) /\ Fails /\ UNCHANGED registryVars

-----------------------------------------------------------------------------
(* What else happens *)

Event ==
  /\ events < MaxEvents /\ events' = events + 1
  /\ UNCHANGED <<pc, run, runs, failures>>

(* A revision is approved: Domain.UpdateState, Host.UpdateState. *)
Approved(o) ==
  /\ Event /\ Troubled("approved", o) /\ UNCHANGED registryVars
  /\ \E rev \in Revisions[o] : row' = [row EXCEPT ![o].rev = rev, ![o].check = TRUE]

UpdateHoldStatus(o) ==
  /\ Event /\ Untroubled /\ UNCHANGED registryVars
  /\ row' = [row EXCEPT ![o].hold = ~@]

CheckUpdate(o) ==
  /\ Event /\ Untroubled /\ UNCHANGED registryVars
  /\ row' = [row EXCEPT ![o].check = TRUE]

FlagDomainsRequiringRenewal ==
  /\ Event /\ Untroubled /\ UNCHANGED registryVars
  /\ row' = [o \in Objects |->
       IF o \in Domains /\ row[o].expires = 0 /\ row[o].rev.desired = "active"
       THEN [row[o] EXCEPT !.check = TRUE] ELSE row[o]]

OtherRegistrar(d) ==
  /\ Event /\ Troubled("registry", d) /\ UNCHANGED row
  /\ TransferRequested(d) \/ TransferredIn(d)

-----------------------------------------------------------------------------

Init ==
  /\ RegistryInit
  /\ row \in {f \in [Objects -> [rev : UNION {Revisions[o] : o \in Objects},
                                 check : BOOLEAN, hold : {FALSE}, expires : {0}]] :
                \A o \in Objects : f[o].rev \in Revisions[o] /\ f[o].check = (o \in Listed)}
  /\ pc = "idle" /\ todo = {} /\ work = {} /\ plan = <<>>
  /\ verified = Empty /\ info = Empty /\ avail = [o \in Objects |-> "unknown"]
  /\ changed = FALSE /\ completed = FALSE /\ mishaps = {}
  /\ runs = 0 /\ events = 0 /\ failures = 0

Phases ==
  \/ \E h \in Hosts : \/ VerifyHost(h) \/ GetHostExistance(h) \/ GetHostInfo(h)
                      \/ HostUpdate(h) \/ PushHosts(h)
  \/ \E d \in Domains : \/ VerifyDomain(d) \/ GetDomainExistance(d) \/ GetDomainInfo(d)
                        \/ DomainTransferInRequests(d) \/ DomainUpdate(d) \/ PushDomains(d)
  \/ HandlePolls

Provisioner == Phases \/ NextPhase \/ SendCommand \/ Cleanup

Others ==
  \/ \E o \in Objects : Approved(o) \/ UpdateHoldStatus(o) \/ CheckUpdate(o)
  \/ \E d \in Domains : OtherRegistrar(d)
  \/ FlagDomainsRequiringRenewal

Next == StartRun \/ Provisioner \/ Die \/ Others
Spec == Init /\ [][Next]_vars /\ WF_vars(Provisioner)

-----------------------------------------------------------------------------
(* Properties *)

\* nothing went wrong with o in the present run; a host depends on its parent
Calm(o) ==
  ~\E m \in mishaps :
     m[1] \notin {"renew", "ack", "approved"} /\ (m[2] = o \/ (o \in Hosts /\ m[2] = Parent[o]))

DomainMatches(d, rev) ==
  LET r == registry[d]
  IN  CASE rev.desired = "active" ->
             r.exists /\ r.hosts = rev.hosts /\ r.ds = rev.ds
             /\ Client(r.statuses) = Client(rev.statuses)
        [] rev.desired = "inactive" -> ~r.exists
        [] OTHER -> ~Ours(d) \/ "clientTransfer" \notin r.statuses

HostMatches(h, rev) ==
  LET r == registry[h]
  IN  IF rev.desired = "active"
      THEN r.exists /\ r.addresses = rev.addresses
           /\ Client(r.statuses) = Client(rev.statuses)
      ELSE ~r.exists

Provisioned(o) ==
  IF o \in Domains THEN DomainMatches(o, row[o].rev) ELSE HostMatches(o, row[o].rev)

(* A run that went through all its phases leaves the registry with what    *)
(* was verified, for every object nothing went wrong with: no command was  *)
(* refused or lost and no prompt declined, and a host was there before, is *)
(* not locked by the registry and has a verified parent that is not to be  *)
(* external.  It holds whatever is approved meanwhile, and whatever earlier *)
(* runs that died half way left behind (main.go, phases 1 to 8).           *)
CompletedMatches ==
  pc = "cleanup" /\ completed =>
    /\ \A d \in VerifiedDomains : Calm(d) => DomainMatches(d, verified[d].rev)
    /\ \A h \in VerifiedHosts :
         /\ Calm(h) /\ avail[h] # "yes" /\ ~LeftAlone(h)
         /\ "serverUpdate" \notin registry[h].statuses
         => HostMatches(h, verified[h].rev)

(* However many of the changes of a domain fail, its update lock is back   *)
(* when the run has completed, as long as the command that adds the        *)
(* statuses did not fail: even when the command that took it off seemed to *)
(* have failed (DomainUpdate, DomainUnlockForChange).                      *)
RelockedAfterChange ==
  pc = "cleanup" /\ completed =>
    \A d \in VerifiedDomains :
      /\ verified[d].rev.desired = "active"
      /\ "clientUpdate" \in verified[d].rev.statuses
      /\ {<<"addStatuses", d>>, <<"registry", d>>} \cap mishaps = {}
      => "clientUpdate" \in registry[d].statuses

(* The new name servers of a domain are added before the old ones go: a    *)
(* registered domain that is to have name servers is never left without    *)
(* any, unless the command that adds them failed (DomainUpdate).           *)
NeverUndelegated ==
  [][\A d \in Domains :
       /\ registry[d].exists /\ registry[d].hosts # {}
       /\ registry'[d].exists /\ registry'[d].hosts = {}
       => \/ verified[d].rev.hosts = {}
          \/ <<"addHosts", d>> \in mishaps]_vars

(* The push looks at information that is older than the revision in force, *)
(* or of a host the run left alone, and what it looks at is not enough:    *)
(* without information it takes the check off unseen, and with a host's it *)
(* does not see that the host is to be deleted.                            *)
ClearedUnseen(o) ==
  /\ <<"approved", o>> \in mishaps \/ (o \in Hosts /\ LeftAlone(o))
  /\ info[o] = Nothing \/ (o \in Hosts /\ row[o].rev.desired = "inactive")

(* A check is only taken off an object the registry holds as its current   *)
(* revision says, one approved in the middle of the run included, unless   *)
(* something went wrong with it in that run or it was cleared unseen       *)
(* (PushDomains, PushHosts, LoadEPPInfo).                                  *)
ClearedWhenProvisioned ==
  [][\A o \in Objects :
       row[o].check /\ ~row'[o].check =>
         \/ ~Calm(o) \/ Provisioned(o)
         \/ o \in Hosts /\ Parent[o] = NoParent
         \/ ClearedUnseen(o)]_vars

(* The expiry a renewal is sent with is the one the registrar knows, and   *)
(* never comes back from the registry: however often a run is repeated,    *)
(* cut off or left without an answer, no second year is bought.            *)
RenewedOnce == \A d \in Domains : registry[d].expires <= 1

(* A run ends, whatever the operator answers and whatever the registry      *)
(* does, with one exception: it refuses the acknowledgement of a message    *)
(* again and again, which is no more than logged, and HandlePolls asks for  *)
(* the same message again.                                                  *)
AcknowledgementRefused == SendCommand /\ Head(plan).op = "ack" /\ polls' = polls
RunsEnd == []<><<AcknowledgementRefused>>_vars \/ ((pc # "idle") ~> (pc = "idle"))

(* "LoadEPPInfo accepts an EPP response and attempts to marshall the data  *)
(* from the response into the object that was called" (domain.go:957): the *)
(* expiry the registry reports of a domain reaches its row.                *)
PushLoads ==
  [][\A d \in Domains :
       pc = "pushDomains" /\ d \in todo /\ d \notin todo' /\ info[d] # Nothing
       /\ failures' = failures
       => row'[d].expires = info[d].expires]_vars
=============================================================================
