---------------------------- MODULE RevisionEdit ----------------------------
(***************************************************************************)
(* What a revision says, and how a form changes it.  Next to its columns a *)
(* revision has lists that are tables of their own: the approver sets that *)
(* must and may approve, the name servers of a domain, the members of an   *)
(* approver set, the addresses of a host, the DS records of a domain.      *)
(* ParseFromFormUpdate replaces them one statement at a time, outside of   *)
(* any transaction, and UpdateHandlerWeb saves the row at the end; so an   *)
(* edit can fail, stop or be overtaken between two of them.  Compare and   *)
(* CompareExport are what later tells such a revision from the one that    *)
(* was signed.                                                             *)
(*                                                                         *)
(* One revision is looked at, with one attestation; the workflow around it *)
(* is in DomainChange and ObjectChange.                                    *)
(***************************************************************************)
EXTENDS Integers, FiniteSets, Sequences, Functions

CONSTANTS
  Kinds,     \* the kinds of objects whose revisions are looked at
  Forms,     \* what the forms say
  Requests,  \* requests that the server works on at a time
  MaxRow,    \* bound: IDs of the rows of host addresses and DS records
  Faults     \* what may go wrong

AllKinds == {"domain", "host", "contact", "apiuser", "approver", "approverset"}
ASSUME RevisionKinds == Kinds \subseteq AllKinds
ASSUME EditFaults == Faults \subseteq {"crash", "race", "edits", "dberror"}

(* A form names objects by their IDs, which the database counts from 1, and *)
(* gives the values of rows that it has yet to make.                        *)
ASSUME FormsNameObjects ==
  \A form \in Forms :
    /\ form.required \subseteq Nat \ {0} /\ form.informed \subseteq Nat \ {0}
    /\ form.hostnames \subseteq Nat \ {0} /\ form.approvers \subseteq Nat \ {0}
    /\ IsFiniteSet(form.addresses) /\ IsFiniteSet(form.ds)

VARIABLES
  kind,     \* of the object
  row,      \* the revision in the database, with its lists
  nextRow,  \* the ID the database gives to the next row of a list
  jobs,     \* what each request is at
  seen,     \* the export that an approver signed, if any
  told,     \* history: the form of the last edit, if it was answered with success
  trouble   \* history: what went wrong

vars == <<kind, row, nextRow, jobs, seen, told, trouble>>

(* The lists of each kind, as its GetExportVersion gives them. *)
DomainRevisionLists == {"required", "informed", "hostnames", "ds"}
HostRevisionLists == {"required", "informed", "addresses"}
ContactRevisionLists == {"required", "informed"}
APIUserRevisionLists == {"required", "informed"}
ApproverRevisionLists == {"required", "informed"}
ApproverSetRevisionLists == {"required", "informed", "approvers"}

Lists ==
  CASE kind = "domain" -> DomainRevisionLists
    [] kind = "host" -> HostRevisionLists
    [] kind = "contact" -> ContactRevisionLists
    [] kind = "apiuser" -> APIUserRevisionLists
    [] kind = "approver" -> ApproverRevisionLists
    [] kind = "approverset" -> ApproverSetRevisionLists

(* These lists own their rows; the others name objects by their IDs.  An    *)
(* item has the ID of its row or object, and 0 as long as it has no row.    *)
Owned == {"addresses", "ds"}

(* ParseApproverSets: set 1 is always among those that must approve. *)
ParseApproverSets(ids, requireAppSet1) ==
  IF requireAppSet1 THEN ids \cup {1} ELSE ids

Objects(ids) == {[id |-> i, value |-> "object"] : i \in ids}
Parsed(form, list) ==
  CASE list = "required" -> Objects(ParseApproverSets(form.required, TRUE))
    [] list = "informed" -> Objects(ParseApproverSets(form.informed, FALSE))
    [] list = "hostnames" -> Objects(form.hostnames)
    [] list = "approvers" -> Objects(form.approvers)
    [] list = "addresses" -> {[id |-> 0, value |-> v] : v \in form.addresses}
    [] list = "ds" -> {[id |-> 0, value |-> v] : v \in form.ds}

-----------------------------------------------------------------------------
(* The export that was signed against the revision as it is *)

(* Faulty variant: items that are gone do not count. *)
SameItemsLeft(a, b) == \A x \in a : \E y \in b : x.id = y.id

(* CompareHostAddressLists and its seven copies: as many items, with the    *)
(* same IDs.                                                                *)
SameItems(a, b) ==
  /\ Cardinality(a) = Cardinality(b)
  /\ \A x \in a : \E y \in b : x.id = y.id
  /\ \A y \in b : \E x \in a : x.id = y.id
CompareHostAddressLists(a, b) == SameItems(a, b)
CompareDSDataEntries(a, b) == SameItems(a, b)
CompareToHostListExportShortList(a, b) == SameItems(a, b)
CompareToHostExportShortLists(a, b) == SameItems(a, b)
CompareToApproverListExportShortList(a, b) == SameItems(a, b)
CompareToApproverExportShortLists(a, b) == SameItems(a, b)
CompareToApproverSetListToExportShort(a, b) == SameItems(a, b)
CompareToApproverSetExportShortLists(a, b) == SameItems(a, b)

SameSets(e, r) ==
  /\ e.text = r.text
  /\ CompareToApproverSetListToExportShort(r.lists.required, e.lists.required)
  /\ CompareToApproverSetListToExportShort(r.lists.informed, e.lists.informed)
SameSetExports(e, r) ==
  /\ e.text = r.text
  /\ CompareToApproverSetExportShortLists(r.lists.required, e.lists.required)
  /\ CompareToApproverSetExportShortLists(r.lists.informed, e.lists.informed)

(* The class of a domain only adds to the errors. *)
DomainRevisionCompare(e, r) ==
  /\ SameSets(e, r)
  /\ CompareToHostListExportShortList(r.lists.hostnames, e.lists.hostnames)
  /\ CompareDSDataEntries(r.lists.ds, e.lists.ds)
HostRevisionCompare(e, r) ==
  SameSets(e, r) /\ CompareHostAddressLists(r.lists.addresses, e.lists.addresses)
ContactRevisionCompare(e, r) == SameSets(e, r)
APIUserRevisionCompare(e, r) == SameSets(e, r)
ApproverRevisionCompare(e, r) == SameSets(e, r)
ApproverSetRevisionCompare(e, r) ==
  SameSets(e, r) /\ CompareToApproverListExportShortList(r.lists.approvers, e.lists.approvers)

DomainRevisionCompareExport(e, r) ==
  /\ SameSetExports(e, r)
  /\ CompareToHostExportShortLists(r.lists.hostnames, e.lists.hostnames)
  /\ CompareDSDataEntries(r.lists.ds, e.lists.ds)
HostRevisionCompareExport(e, r) ==
  SameSetExports(e, r) /\ CompareHostAddressLists(r.lists.addresses, e.lists.addresses)
ContactRevisionCompareExport(e, r) == SameSetExports(e, r)
APIUserRevisionCompareExport(e, r) == SameSetExports(e, r)
ApproverRevisionCompareExport(e, r) == SameSetExports(e, r)
ApproverSetRevisionCompareExport(e, r) ==
  /\ SameSetExports(e, r)
  /\ CompareToApproverExportShortLists(r.lists.approvers, e.lists.approvers)

(* What the server asks before it takes a signature... *)
Compare(e, r) ==
  CASE kind = "domain" -> DomainRevisionCompare(e, r)
    [] kind = "host" -> HostRevisionCompare(e, r)
    [] kind = "contact" -> ContactRevisionCompare(e, r)
    [] kind = "apiuser" -> APIUserRevisionCompare(e, r)
    [] kind = "approver" -> ApproverRevisionCompare(e, r)
    [] kind = "approverset" -> ApproverSetRevisionCompare(e, r)

(* ...and what a client asks before it uses the object. *)
CompareExport(e, r) ==
  CASE kind = "domain" -> DomainRevisionCompareExport(e, r)
    [] kind = "host" -> HostRevisionCompareExport(e, r)
    [] kind = "contact" -> ContactRevisionCompareExport(e, r)
    [] kind = "apiuser" -> APIUserRevisionCompareExport(e, r)
    [] kind = "approver" -> ApproverRevisionCompareExport(e, r)
    [] kind = "approverset" -> ApproverSetRevisionCompareExport(e, r)

-----------------------------------------------------------------------------
(* The statements of an edit *)

(* The lists in the order in which ParseFromFormUpdate comes to them. *)
DomainRevisionUpdate == <<"ds", "required", "informed", "hostnames">>
HostRevisionUpdate == <<"required", "informed", "addresses">>
ContactRevisionUpdate == <<"required", "informed">>
APIUserRevisionUpdate == <<"required", "informed">>
ApproverRevisionUpdate == <<"required", "informed">>
ApproverSetRevisionUpdate == <<"approvers", "required", "informed">>

Updates ==
  CASE kind = "domain" -> DomainRevisionUpdate
    [] kind = "host" -> HostRevisionUpdate
    [] kind = "contact" -> ContactRevisionUpdate
    [] kind = "apiuser" -> APIUserRevisionUpdate
    [] kind = "approver" -> ApproverRevisionUpdate
    [] kind = "approverset" -> ApproverSetRevisionUpdate

(* A request has the revision in its memory.  An edit is at one of the      *)
(* lists; once it has cleared it, some items are left to add.               *)
Idle == [does |-> "nothing"]
EditJob(form) ==
  [does |-> "edit", form |-> form,
   mem |-> [row EXCEPT !.text = form.text, !.class = form.class],
   at |-> 1, cleared |-> FALSE, items |-> {}]
StartJob == [does |-> "start", mem |-> [row EXCEPT !.st = "pendingapproval"]]

Busy == {q \in Requests : jobs[q] # Idle}
Edits == {q \in Requests : jobs[q].does = "edit"}
Current(q) == Updates[jobs[q].at]
AtList(q) == q \in Edits /\ jobs[q].at \in DOMAIN Updates
AtSave(q) ==
  \/ jobs[q].does = "start"
  \/ q \in Edits /\ jobs[q].at \notin DOMAIN Updates

Put(r, list, items) == [r EXCEPT !.lists[list] = items]
Added(r, list, x) == Put(r, list, r.lists[list] \cup {x})

(* Faulty variants: the old items stay; the items go in in the wrong order. *)
NotCleared(r, list) == r
LastByID(items) == {x \in items : \A y \in items : y.id <= x.id}

(* Association.Clear, on the row and in memory. *)
Cleared(r, list) == Put(r, list, {})

(* ParseApproverSets sorts by ID, and the items are added in that order. *)
FirstByID(items) == {x \in items : \A y \in items : x.id <= y.id}

(* On with what is left of a list, or with the next one. *)
GoOn(job, items) ==
  IF items = {} THEN [job EXCEPT !.at = @ + 1, !.cleared = FALSE, !.items = {}]
  ELSE [job EXCEPT !.cleared = TRUE, !.items = items]
Skip(job) == GoOn(job, {})
GiveUp(job) == [job EXCEPT !.at = Len(Updates) + 1, !.cleared = FALSE, !.items = {}]

(* New items get rows with new IDs, the others keep theirs. *)
New(items) == {x \in items : x.id = 0}
Numbers(items, next) ==
  CHOOSE f \in Bijection(items, next .. (next + Cardinality(items) - 1)) : TRUE
Inserted(items, next) ==
  (items \ New(items))
    \cup {[id |-> Numbers(New(items), next)[x], value |-> x.value] : x \in New(items)}

(* The whole row is saved with the lists in memory: what a list has and the *)
(* database has not is added, nothing is removed.                           *)
Saved(r, mem, next) ==
  [mem EXCEPT !.lists =
     [l \in Lists |-> r.lists[l] \cup Inserted(mem.lists[l], next)]]
NewRows(mem) == Cardinality(New(UNION {mem.lists[l] : l \in Owned \cap Lists}))

-----------------------------------------------------------------------------
(* Requests *)

(* Another request runs while one is between two statements. *)
Overtaking(what) ==
  IF Busy = {} THEN UNCHANGED trouble
  ELSE what \in Faults /\ trouble' = trouble \cup {what}

(* UpdateHandlerWeb and ParseFromFormUpdate of a revision. *)
BeginEdit(q, form) ==
  /\ jobs[q] = Idle /\ row.st = "new"
  /\ jobs' = [jobs EXCEPT ![q] = EditJob(form)]
  /\ Overtaking(IF Edits = {} THEN "race" ELSE "edits")
  /\ UNCHANGED <<kind, row, nextRow, seen, told>>

(* StartApprovalProcess of a revision, with the rows it has read. *)
BeginStart(q) ==
  /\ jobs[q] = Idle /\ row.st = "new"
  /\ jobs' = [jobs EXCEPT ![q] = StartJob]
  /\ Overtaking("race")
  /\ UNCHANGED <<kind, row, nextRow, seen, told>>

(* The rows of an owned list are deleted, and made again by the save. *)
Delete(q) ==
  /\ AtList(q) /\ Current(q) \in Owned
  /\ row' = Put(row, Current(q), {})
  /\ jobs' = [jobs EXCEPT ![q] =
       [Skip(jobs[q]) EXCEPT
          !.mem = Put(@, Current(q), Parsed(jobs[q].form, Current(q)))]]
  /\ UNCHANGED <<kind, nextRow, seen, told, trouble>>

(* UpdateApproverSets, UpdateHosts and the copy for approvers. *)
Clear(q) ==
  /\ AtList(q) /\ Current(q) \notin Owned /\ ~jobs[q].cleared
  /\ row' = Cleared(row, Current(q))
  /\ jobs' = [jobs EXCEPT ![q] =
       [GoOn(jobs[q], Parsed(jobs[q].form, Current(q))) EXCEPT
          !.mem = Cleared(@, Current(q))]]
  /\ UNCHANGED <<kind, nextRow, seen, told, trouble>>

Add(q) ==
  /\ AtList(q) /\ jobs[q].cleared
  /\ \E x \in FirstByID(jobs[q].items) :
       /\ row' = Added(row, Current(q), x)
       /\ jobs' = [jobs EXCEPT ![q] =
            [GoOn(jobs[q], jobs[q].items \ {x}) EXCEPT
               !.mem = Added(@, Current(q), x)]]
  /\ UNCHANGED <<kind, nextRow, seen, told, trouble>>

(* The change request of a start is a new one, with no signature yet. *)
Save(q) ==
  /\ AtSave(q)
  /\ nextRow + NewRows(jobs[q].mem) <= MaxRow + 1
  /\ row' = Saved(row, jobs[q].mem, nextRow)
  /\ nextRow' = nextRow + NewRows(jobs[q].mem)
  /\ jobs' = [jobs EXCEPT ![q] = Idle]
  /\ told' = IF q \in Edits THEN {jobs[q].form} ELSE told
  /\ seen' = IF q \in Edits THEN seen ELSE {}
  /\ UNCHANGED <<kind, trouble>>

(* The database refuses a statement.  Deleting rows, clearing or adding     *)
(* approvers and the save itself answer the request with the error.         *)
Refused(q) ==
  /\ "dberror" \in Faults
  /\ \/ AtSave(q)
     \/ AtList(q) /\ Current(q) \in Owned \cup {"approvers"}
  /\ jobs' = [jobs EXCEPT ![q] = Idle]
  /\ told' = IF q \in Edits THEN {} ELSE told
  /\ trouble' = trouble \cup {"dberror"}
  /\ UNCHANGED <<kind, row, nextRow, seen>>

(* Where ParseFromFormUpdate goes on after another statement failed.  The   *)
(* rest of the list is given up.  The copy for API users then tests another *)
(* variable and takes the whole list over into memory; the others return a  *)
(* variable that holds no error, so the row is saved as it is in memory.    *)
AfterError(job, mem, list) ==
  IF kind = "apiuser"
  THEN [Skip(job) EXCEPT !.mem = Put(@, list, Parsed(job.form, list))]
  ELSE [GiveUp(job) EXCEPT !.mem = mem]

Swallowed(q) ==
  /\ "dberror" \in Faults
  /\ AtList(q) /\ Current(q) \notin Owned \cup {"approvers"}
  /\ \/ /\ ~jobs[q].cleared
        /\ jobs' = [jobs EXCEPT ![q] =
             AfterError(@, Cleared(@.mem, Current(q)), Current(q))]
     \/ /\ jobs[q].cleared
        /\ \E x \in FirstByID(jobs[q].items) :
             jobs' = [jobs EXCEPT ![q] =
               AfterError(@, Added(@.mem, Current(q), x), Current(q))]
  /\ trouble' = trouble \cup {"dberror"}
  /\ UNCHANGED <<kind, row, nextRow, seen, told>>

Crash ==
  /\ "crash" \in Faults /\ Busy # {}
  /\ jobs' = [q \in Requests |-> Idle]
  /\ told' = IF Edits = {} THEN told ELSE {}
  /\ trouble' = trouble \cup {"crash"}
  /\ UNCHANGED <<kind, row, nextRow, seen>>

(* An approver signs the revision as the server shows it. *)
Attest ==
  /\ row.st = "pendingapproval" /\ seen = {}
  /\ seen' = {row}
  /\ Overtaking("race")
  /\ UNCHANGED <<kind, row, nextRow, jobs, told>>

(* The upload of the signature: the revision goes into force when the       *)
(* signed export compares equal; else the signature is not kept.            *)
Upload ==
  /\ row.st = "pendingapproval"
  /\ \E e \in seen :
       IF Compare(e, row)
       THEN row' = [row EXCEPT !.st = "active"] /\ UNCHANGED seen
       ELSE seen' = {} /\ UNCHANGED row
  /\ Overtaking("race")
  /\ UNCHANGED <<kind, nextRow, jobs, told>>

-----------------------------------------------------------------------------
(* ParseFromForm of the revision: row and lists are saved together. *)
Created(form) ==
  [st |-> "new", text |-> form.text, class |-> form.class,
   lists |-> [l \in Lists |-> Inserted(Parsed(form, l), 1)]]

Init ==
  /\ kind \in Kinds
  /\ \E form \in Forms :
       /\ row = Created(form)
       /\ nextRow = 1 + Cardinality(UNION {Parsed(form, l) : l \in Owned \cap Lists})
       /\ told = {form}
  /\ jobs = [q \in Requests |-> Idle] /\ seen = {} /\ trouble = {}

Next ==
  \/ \E q \in Requests :
       \/ \E form \in Forms : BeginEdit(q, form)
       \/ BeginStart(q)
       \/ Delete(q) \/ Clear(q) \/ Add(q) \/ Save(q)
       \/ Refused(q) \/ Swallowed(q)
  \/ Crash
  \/ Attest
  \/ Upload

Spec == Init /\ [][Next]_vars

-----------------------------------------------------------------------------
(* Properties *)

(* What the items of a list say: the IDs of the rows a revision owns are    *)
(* not part of it.                                                          *)
Content(list, items) ==
  {IF list \in Owned THEN x.value ELSE x.id : x \in items}

(* A revision says what another one says. *)
SaysTheSame(a, b) ==
  /\ a.text = b.text
  /\ \A l \in Lists : Content(l, a.lists[l]) = Content(l, b.lists[l])

(* The revision says what the form said. *)
Carries(r, form) ==
  /\ r.text = form.text /\ r.class = form.class
  /\ \A l \in Lists : Content(l, r.lists[l]) = Content(l, Parsed(form, l))

(* Once an edit has been answered, the revision says what the last form     *)
(* said and nothing of what it said before, as long as nothing goes wrong   *)
(* (the statements of ParseFromFormUpdate with the save of the handler).    *)
EditIsWhole ==
  trouble = {} /\ Busy = {} => \E form \in told : Carries(row, form)

(* Approver set 1 is among those that must approve the next change of an    *)
(* object, whatever an edit left behind when it failed, stopped or was      *)
(* overtaken by anything but another edit: ParseApproverSets sorts it to    *)
(* the front, and an empty list makes StartApprovalProcess ask set 1.       *)
NextApprovals(r) ==
  IF r.lists.required = {} THEN {1} ELSE {x.id : x \in r.lists.required}
SetOneApproves ==
  "edits" \notin trouble /\ row.st = "active" => 1 \in NextApprovals(row)

(* What a client accepts says what an approver signed, but for the class of *)
(* a domain, though edits that are overtaken by each other and by the whole *)
(* approval still empty and fill the lists of a revision that is in force   *)
(* then (CompareExport looks at the IDs of their items, in both directions).*)
AcceptedAsSigned ==
  row.st = "active" =>
    \A e \in seen : CompareExport(e, row) => SaysTheSame(e, row)

(* lib/hostrevision.go:834-836: "An error object is always the second       *)
(* return value which is nil when no errors have occurred during parsing    *)
(* otherwise an error is returned."  An edit that is answered without an    *)
(* error has then been made.                                                *)
ErrorIsReturned ==
  trouble \subseteq {"dberror"} /\ Busy = {} =>
    \A form \in told : Carries(row, form)
=============================================================================
