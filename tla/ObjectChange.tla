---------------------------- MODULE ObjectChange ----------------------------
(***************************************************************************)
(* The approval workflow of the registrar's other objects: a host, a       *)
(* contact, an API user, an approver or an approver set.  Each kind has    *)
(* its own copy of the code that DomainChange models for domains; here the *)
(* copies stand next to each other, with what differs between them, and    *)
(* with what DomainChange leaves out: no request runs in a transaction, so *)
(* a crash leaves the rows that were saved before it, and a request that   *)
(* read its rows before another one's writes saves what it read.           *)
(*                                                                         *)
(* A change request (CR) is approved or declined by one attestation, the   *)
(* one of approver set 1: what more approvals, blocked sets and rosters do *)
(* is in DomainChange.                                                     *)
(***************************************************************************)
EXTENDS Integers, Sequences

CONSTANTS
  Kinds,      \* the kinds of objects that are looked at
  NumRevs,    \* bound: revisions of the object
  NumCRs,     \* bound: change requests that are made for it
  Faults,     \* bound: kinds of trouble that happen, once each
  Unsigned    \* the empty Signature column, no paper, no loaded row

AllKinds == {"host", "contact", "apiuser", "approver", "approverset"}
ASSUME KindsAssumption == Kinds \subseteq AllKinds
ASSUME FaultsAssumption == Faults \subseteq {"crash", "race", "restart"}
(* BootstrapRegistrar makes two revisions. *)
ASSUME BoundsAssumption == NumRevs \in Nat /\ NumRevs >= 2 /\ NumCRs \in Nat

Revs == 1 .. NumRevs
CRs == 1 .. NumCRs
None == 0

VARIABLES
  kind,     \* of the object
  root,     \* it is approver 1 or approver set 1, made by BootstrapRegistrar
  db,       \* the row of the object, its revisions and their CRs
  paper,    \* an attestation an approver prepared and may upload any time
  late,     \* a request that has read its revision and not yet gone on
  trouble   \* history: what has happened that no single request does

vars == <<kind, root, db, paper, late, trouble>>

Desired == {"active", "inactive", "bootstrap"}
Live == {"active", "inactive", "bootstrap"}
PendingStates ==
  {"pendingbootstrap", "pendingnew", "activependingapproval",
   "inactivependingapproval"}
Revision ==
  [st : {"unused", "new", "pendingapproval", "cancelled", "approvalfailed",
         "superseded"} \cup Live,
   desired : Desired, cr : CRs \cup {None}]
(* An attestation names the approval, by its CR, and carries the export of  *)
(* the object: its pending revision, whose desired state stands for all     *)
(* that a revision says.                                                    *)
Attestations ==
  [cr : CRs, rev : Revs, desired : Desired, action : {"approved", "declined"}]
ChangeRequest ==
  [st : {"unused", "new", "pendingapproval", "approved", "declined", "cancelled"},
   rev : Revs \cup {None}, init : Revs \cup {None},
   signed : Attestations \cup {Unsigned}]
Rows ==
  [state : {"new", "approvalfailed", "pendingapproval", "superseded", "cancelled"}
             \cup Live \cup PendingStates,
   current : Revs \cup {None},
   rev : [Revs -> Revision], cr : [CRs -> ChangeRequest]]
LateRequests == [op : {"cancel", "start", "edit"}, rev : Revs, row : Revision]

-----------------------------------------------------------------------------
(* Rows *)

Open(d) == {r \in Revs : d.rev[r].st \in {"new", "pendingapproval"}}

(* GetNewAndPendingRevisions: the open revision with the lowest ID. *)
Pending(d) ==
  IF Open(d) = {} THEN None
  ELSE CHOOSE r \in Open(d) : \A q \in Open(d) : r <= q

(* The keys of approver set 1 are those of its current revision, while that *)
(* is in force; the keys of the set that signs for the others are there.    *)
PrepareGPGKeys(d) ==
  kind = "approverset" /\ root =>
    d.current # None /\ d.rev[d.current].st \in {"bootstrap", "active"}

(* The export of a revision against the revision as it is now. *)
Compare(a, r, revision) == a.rev = r /\ a.desired = revision.desired

(* Faulty variant: what the attestation says is not compared. *)
VerifyCRUncompared(d) ==
  LET p == Pending(d)
      c == IF p = None THEN None ELSE d.rev[p].cr
  IN  /\ c # None
      /\ d.cr[c].init = d.current
      /\ d.cr[c].rev = p
      /\ d.cr[c].signed # Unsigned
      /\ PrepareGPGKeys(d)

(* Faulty variant: which revision the CR is to replace is not compared. *)
VerifyCRAnyBase(d) ==
  LET p == Pending(d)
      c == IF p = None THEN None ELSE d.rev[p].cr
  IN  /\ c # None
      /\ d.cr[c].rev = p
      /\ d.cr[c].signed # Unsigned
      /\ PrepareGPGKeys(d)
      /\ d.cr[c].signed.cr = c
      /\ Compare(d.cr[c].signed, p, d.rev[p])

VerifyCR(d) ==
  LET p == Pending(d)
      c == IF p = None THEN None ELSE d.rev[p].cr
  IN  /\ c # None
      /\ d.cr[c].init = d.current
      /\ d.cr[c].rev = p
      /\ d.cr[c].signed # Unsigned
      /\ PrepareGPGKeys(d)
      /\ d.cr[c].signed.cr = c
      /\ Compare(d.cr[c].signed, p, d.rev[p])

-----------------------------------------------------------------------------
(* UpdateState of the object, as the rows it saves one after the other *)

(* Faulty variant: the old revision stays in force. *)
PromoteWithoutSupersed(d, p) ==
  LET promoted == [d EXCEPT !.rev[p].st = d.rev[p].desired]
  IN  <<promoted, [promoted EXCEPT !.state = d.rev[p].desired, !.current = p]>>

(* Promote, Supersed and the save of the object.  Supersed asks the state   *)
(* of the current revision, and a desired state that is not active or       *)
(* inactive ends it before the object is saved.                             *)
Promote(d, p) ==
  LET promoted == [d EXCEPT !.rev[p].st = d.rev[p].desired]
      superseded == IF d.current = None THEN promoted
                    ELSE [promoted EXCEPT !.rev[d.current].st = "superseded"]
      target == d.rev[p].desired
  IN  IF d.current # None /\ promoted.rev[d.current].st \notin Live
      THEN <<promoted>>
      ELSE IF target \notin {"active", "inactive"}
      THEN <<promoted, superseded>>
      ELSE <<promoted, superseded,
             [superseded EXCEPT !.state = target, !.current = p]>>

(* The object goes back to the state of its current revision. *)
Decline(d, p) ==
  LET failed == [d EXCEPT !.rev[p].st = "approvalfailed"]
      state == IF d.current = None THEN "new"
               ELSE IF failed.rev[d.current].st = "bootstrap" THEN "active"
               ELSE failed.rev[d.current].st
  IN  <<failed, [failed EXCEPT !.state = state]>>

(* Faulty variant: no way back for an object that waits for nothing. *)
RevertNothing(d) == <<d>>

(* No open revision with a CR: back to a resting state. *)
Revert(d) ==
  <<[d EXCEPT !.state = IF d.state = "pendingbootstrap" THEN "bootstrap"
                        ELSE IF d.current # None THEN d.rev[d.current].desired
                        ELSE "new"]>>

(* The CR decides only when it verifies; one that is still undecided, and   *)
(* an object at rest, are left alone (with an error the caller drops).      *)
ResolvePending(d) ==
  LET p == Pending(d) IN
  IF d.state \notin PendingStates THEN <<d>>
  ELSE IF p = None \/ d.rev[p].cr = None THEN Revert(d)
  ELSE IF ~VerifyCR(d) THEN <<d>>
  ELSE IF d.cr[d.rev[p].cr].st = "approved" THEN Promote(d, p)
  ELSE IF d.cr[d.rev[p].cr].st = "declined" THEN Decline(d, p)
  ELSE <<d>>

HostUpdateState(d) == ResolvePending(d)
ContactUpdateState(d) == ResolvePending(d)
APIUserUpdateState(d) == ResolvePending(d)
ApproverUpdateState(d) == ResolvePending(d)
(* Its pending approvals are updated afterwards: DomainChange has them.     *)
ApproverSetUpdateState(d) == ResolvePending(d)

Saves(d) ==
  CASE kind = "host" -> HostUpdateState(d)
    [] kind = "contact" -> ContactUpdateState(d)
    [] kind = "apiuser" -> APIUserUpdateState(d)
    [] kind = "approver" -> ApproverUpdateState(d)
    [] kind = "approverset" -> ApproverSetUpdateState(d)

After(saves) == saves[Len(saves)]
UpdateState(d) == After(Saves(d))

(* ChangeRequest.UpdateState, with the state its approval's signature gives *)
(* it; a CR past pendingapproval answers with an error.                     *)
Advance(d, c) ==
  IF Open(d) = {} THEN "cancelled"
  ELSE IF d.cr[c].st = "new" THEN "pendingapproval"
  ELSE IF d.cr[c].signed # Unsigned /\ VerifyCR(d) THEN d.cr[c].signed.action
  ELSE "pendingapproval"

CRSaves(d, c) ==
  IF d.cr[c].st \notin {"new", "pendingapproval"} THEN <<d>>
  ELSE LET advanced == [d EXCEPT !.cr[c].st = Advance(d, c)]
       IN  <<advanced>> \o Saves(advanced)

-----------------------------------------------------------------------------
(* Requests *)

(* A request runs to its end, or the server stops after one of its saves.   *)
Does(saves) ==
  \E n \in 1 .. Len(saves) :
    /\ n < Len(saves) => "crash" \in Faults \ trouble /\ saves[n] # After(saves)
    /\ db' = saves[n]
    /\ trouble' = IF n < Len(saves) THEN trouble \cup {"crash"} ELSE trouble

(* ParseFromForm and ParseFromFormUpdate of the revision, then its save.    *)
Create(r, desired) ==
  /\ db.rev[r].st = "unused"
  /\ \A q \in Revs : q < r => db.rev[q].st # "unused"
  /\ db' = [db EXCEPT !.rev[r] =
              [st |-> "new", desired |-> desired, cr |-> None]]
  /\ UNCHANGED <<kind, root, paper, late, trouble>>

HostRevisionCreate(r, desired) == kind = "host" /\ Create(r, desired)
ContactRevisionCreate(r, desired) == kind = "contact" /\ Create(r, desired)
APIUserRevisionCreate(r, desired) == kind = "apiuser" /\ Create(r, desired)
ApproverRevisionCreate(r, desired) == kind = "approver" /\ Create(r, desired)
ApproverSetRevisionCreate(r, desired) ==
  kind = "approverset" /\ Create(r, desired)

(* The whole row is saved, as it was read and with what the form changes. *)
EditSaves(r, row, desired) ==
  <<[db EXCEPT !.rev[r] = [row EXCEPT !.desired = desired]]>>

Edit(r, desired) ==
  /\ db.rev[r].st = "new"
  /\ Does(EditSaves(r, db.rev[r], desired))
  /\ UNCHANGED <<kind, root, paper, late>>

HostRevisionEdit(r, desired) == kind = "host" /\ Edit(r, desired)
ContactRevisionEdit(r, desired) == kind = "contact" /\ Edit(r, desired)
APIUserRevisionEdit(r, desired) == kind = "apiuser" /\ Edit(r, desired)
ApproverRevisionEdit(r, desired) == kind = "approver" /\ Edit(r, desired)
ApproverSetRevisionEdit(r, desired) ==
  kind = "approverset" /\ Edit(r, desired)

(* The state of the object once approval has been asked for. *)
StartedState(d) ==
  IF d.current = None THEN "pendingnew"
  ELSE CASE d.rev[d.current].desired = "bootstrap" -> "pendingbootstrap"
         [] d.rev[d.current].desired = "active" -> "activependingapproval"
         [] OTHER -> "inactivependingapproval"

UnusedCRs == {c \in CRs : db.cr[c].st = "unused"}

(* StartApprovalProcess on the revision as it was read: the CR, the         *)
(* revision, the object, and then the CR's UpdateState, saved in turn.      *)
StartSaves(r, row) ==
  LET c == CHOOSE b \in UnusedCRs : \A o \in UnusedCRs : b <= o
      asked == [db EXCEPT !.cr[c] =
        [st |-> "new", rev |-> r, init |-> db.current, signed |-> Unsigned]]
      waits == [asked EXCEPT !.rev[r] =
        [row EXCEPT !.st = "pendingapproval", !.cr = c]]
      started == [waits EXCEPT !.state = StartedState(waits)]
  IN  <<asked, waits, started>> \o CRSaves(started, c)

CanStart == UnusedCRs # {} /\ Pending(db) # db.current

Start(r) ==
  /\ CanStart
  /\ Does(StartSaves(r, db.rev[r]))
  /\ UNCHANGED <<kind, root, paper, late>>

HostRevisionStart(r) == kind = "host" /\ db.rev[r].st = "new" /\ Start(r)
ContactRevisionStart(r) == kind = "contact" /\ db.rev[r].st = "new" /\ Start(r)
APIUserRevisionStart(r) == kind = "apiuser" /\ db.rev[r].st = "new" /\ Start(r)
ApproverRevisionStart(r) == kind = "approver" /\ db.rev[r].st = "new" /\ Start(r)

(* The copy for approver sets does not ask for the state of the revision.   *)
ApproverSetRevisionStart(r) ==
  kind = "approverset" /\ db.rev[r].st = "new" /\ Start(r)
ApproverSetRevisionRestart(r) ==
  /\ kind = "approverset" /\ "restart" \in Faults
  /\ db.rev[r].st \notin {"unused", "new"}
  /\ CanStart
  /\ db' = After(StartSaves(r, db.rev[r]))
  /\ trouble' = trouble \cup {"restart"}
  /\ UNCHANGED <<kind, root, paper, late>>

CancelSaves(r, c) ==
  LET cancelled == [db EXCEPT !.rev[r].st = "cancelled"]
      told == UpdateState(cancelled)
  IN  <<cancelled, told>> \o (IF c = None THEN <<>> ELSE CRSaves(told, c))

(* Faulty variant: any revision can be cancelled. *)
CancelAny(r) ==
  /\ db.rev[r].st # "unused"
  /\ Does(CancelSaves(r, db.rev[r].cr))
  /\ UNCHANGED <<kind, root, paper, late>>

Cancel(r) ==
  /\ r \in Open(db)
  /\ Does(CancelSaves(r, db.rev[r].cr))
  /\ UNCHANGED <<kind, root, paper, late>>

HostRevisionCancel(r) == kind = "host" /\ Cancel(r)
ContactRevisionCancel(r) == kind = "contact" /\ Cancel(r)
APIUserRevisionCancel(r) == kind = "apiuser" /\ Cancel(r)
ApproverRevisionCancel(r) == kind = "approver" /\ Cancel(r)
ApproverSetRevisionCancel(r) == kind = "approverset" /\ Cancel(r)

(* TakeAction of the revisions. *)
HostRevisionAction(r) == HostRevisionCancel(r) \/ HostRevisionStart(r)
ContactRevisionAction(r) == ContactRevisionCancel(r) \/ ContactRevisionStart(r)
APIUserRevisionAction(r) == APIUserRevisionCancel(r) \/ APIUserRevisionStart(r)
ApproverRevisionAction(r) == ApproverRevisionCancel(r) \/ ApproverRevisionStart(r)

(* "Update Object State" is offered for the revisions of approver sets. *)
TriggerUpdate ==
  /\ Does(Saves(db))
  /\ UNCHANGED <<kind, root, paper, late>>
ApproverSetRevisionAction(r) ==
  \/ ApproverSetRevisionCancel(r)
  \/ ApproverSetRevisionStart(r)
  \/ ApproverSetRevisionRestart(r)
  \/ kind = "approverset" /\ db.rev[r].st # "unused" /\ TriggerUpdate

-----------------------------------------------------------------------------
(* Approvals *)

(* An approver has the client make an attestation of the approval of CR c:  *)
(* it carries the pending revision as the server shows it at that time.     *)
Attest(c, action) ==
  /\ paper = Unsigned
  /\ db.cr[c].st = "pendingapproval" /\ Pending(db) # None
  /\ paper' = [cr |-> c, rev |-> Pending(db),
               desired |-> db.rev[Pending(db)].desired,
               action |-> action]
  /\ UNCHANGED <<kind, root, db, late, trouble>>

(* The signature is stored first; the CR and the object follow from it when *)
(* it verifies, and it is cleared again when it does not.                   *)
Upload ==
  /\ paper # Unsigned
  /\ LET c == paper.cr
         signed == [db EXCEPT !.cr[c].signed = paper]
     IN  IF db.cr[c].st = "pendingapproval"
         THEN Does(IF VerifyCR(signed) THEN <<signed>> \o CRSaves(signed, c)
                   ELSE <<signed, [signed EXCEPT !.cr[c].signed = Unsigned]>>)
         ELSE Does(Saves(db))     \* refused, after a refresh
  /\ paper' = Unsigned
  /\ UNCHANGED <<kind, root, late>>

-----------------------------------------------------------------------------
(* A request that is overtaken: it has read its revision, others run, and   *)
(* then it goes on with what it read.                                       *)

Load(r, op) ==
  /\ "race" \in Faults \ trouble
  /\ late = Unsigned
  /\ IF op = "cancel" THEN r \in Open(db) ELSE db.rev[r].st = "new"
  /\ late' = [op |-> op, rev |-> r, row |-> db.rev[r]]
  /\ trouble' = trouble \cup {"race"}
  /\ UNCHANGED <<kind, root, db, paper>>

Overtaken(saves) ==
  /\ db' = After(saves)
  /\ late' = Unsigned
  /\ UNCHANGED <<kind, root, paper, trouble>>

GoOn ==
  /\ late # Unsigned
  /\ \/ /\ late.op = "cancel"
        /\ Overtaken(CancelSaves(late.rev, late.row.cr))
     \/ /\ late.op = "start"
        /\ Overtaken(IF CanStart THEN StartSaves(late.rev, late.row) ELSE <<db>>)
     \/ /\ late.op = "edit"
        /\ \E desired \in {"active", "inactive"} :
             Overtaken(EditSaves(late.rev, late.row, desired))

-----------------------------------------------------------------------------
Blank == [st |-> "unused", desired |-> "active", cr |-> None]
NoCR == [st |-> "unused", rev |-> None, init |-> None, signed |-> Unsigned]

(* ParseFromForm of the object itself. *)
NewObject ==
  [state |-> "new", current |-> None,
   rev |-> [r \in Revs |-> Blank], cr |-> [c \in CRs |-> NoCR]]

(* Approver 1 and approver set 1, with a revision in force that nobody      *)
(* approved and the one that is to be approved first.                       *)
BootstrapRegistrar ==
  [NewObject EXCEPT
     !.state = "active", !.current = 1,
     !.rev[1] = [Blank EXCEPT !.st = "bootstrap", !.desired = "bootstrap"],
     !.rev[2] = [Blank EXCEPT !.st = "new"]]

Init ==
  /\ kind \in Kinds
  /\ root \in BOOLEAN
  /\ root => kind \in {"approver", "approverset"}
  /\ db = IF root THEN BootstrapRegistrar ELSE NewObject
  /\ paper = Unsigned /\ late = Unsigned /\ trouble = {}

Next ==
  \/ \E r \in Revs :
       \/ \E desired \in {"active", "inactive"} :
            \/ HostRevisionCreate(r, desired)
            \/ ContactRevisionCreate(r, desired)
            \/ APIUserRevisionCreate(r, desired)
            \/ ApproverRevisionCreate(r, desired)
            \/ ApproverSetRevisionCreate(r, desired)
            \/ HostRevisionEdit(r, desired)
            \/ ContactRevisionEdit(r, desired)
            \/ APIUserRevisionEdit(r, desired)
            \/ ApproverRevisionEdit(r, desired)
            \/ ApproverSetRevisionEdit(r, desired)
       \/ HostRevisionAction(r)
       \/ ContactRevisionAction(r)
       \/ APIUserRevisionAction(r)
       \/ ApproverRevisionAction(r)
       \/ ApproverSetRevisionAction(r)
       \/ \E op \in {"cancel", "start", "edit"} : Load(r, op)
  \/ \E c \in CRs, action \in {"approved", "declined"} : Attest(c, action)
  \/ Upload
  \/ GoOn

Spec == Init /\ [][Next]_vars

-----------------------------------------------------------------------------
(* Properties *)

(* Type invariant. *)
TypeOK ==
  /\ kind \in Kinds /\ root \in BOOLEAN
  /\ db \in Rows
  /\ paper \in Attestations \cup {Unsigned}
  /\ late \in LateRequests \cup {Unsigned}
  /\ trouble \subseteq Faults

InForce(r) == db.rev[r].st \in Live
WasInForce(r) == InForce(r) \/ db.rev[r].st = "superseded"

(* Nothing is or was in force that an approver has not signed as it is:     *)
(* with a CR of that very revision, an attestation of that CR that approves *)
(* it, and what the attestation shows of it.  It holds through crashes,     *)
(* overtaken requests and restarted approvals (VerifyCR and Compare run     *)
(* before every promotion).                                                 *)
InForceWasSigned ==
  \A r \in Revs : WasInForce(r) /\ db.rev[r].desired # "bootstrap" =>
    \E c \in CRs :
      /\ db.cr[c].st = "approved" /\ db.cr[c].rev = r
      /\ db.cr[c].signed # Unsigned
      /\ db.cr[c].signed.cr = c /\ db.cr[c].signed.rev = r
      /\ db.cr[c].signed.action = "approved"
      /\ db.cr[c].signed.desired = db.rev[r].desired

(* One revision is in force and the object names it (Promote, Supersed and  *)
(* the save of CurrentRevisionID), and each that came into force replaced   *)
(* another one (InitialRevisionID of its CR), as long as no request is cut  *)
(* short or overtaken and no approval is restarted.                         *)
OneInForce ==
  trouble = {} =>
    /\ \A r \in Revs : InForce(r) <=> r = db.current
    /\ \A r, q \in {p \in Revs : WasInForce(p) /\ db.rev[p].cr # None} :
         db.cr[db.rev[r].cr].init = db.cr[db.rev[q].cr].init => r = q

(* No other revision is in force next to the current one while that one is: *)
(* restarted and overtaken approvals can take the current revision out of   *)
(* force and leave another one there, but only a crash leaves two of which  *)
(* the object names one (Promote asks the state of the current revision     *)
(* before Supersed and the save of CurrentRevisionID).                      *)
CurrentIsAlone ==
  "crash" \notin trouble =>
    \A r \in Revs : InForce(r) /\ db.current # None /\ InForce(db.current) =>
      r = db.current

(* An object is in a pending state only while a revision waits for approval *)
(* (StartedState, and the revert of UpdateState), again without trouble.    *)
PendingHasCause ==
  trouble = {} =>
    (db.state \in PendingStates =>
       \E r \in Revs : db.rev[r].st = "pendingapproval")

(* A revision that was cancelled, declined or superseded never comes back,  *)
(* and a decided CR keeps its decision and its signature, whatever crashes; *)
(* only an overtaken or restarted request brings a revision back.           *)
DecidedIsFinal ==
  [][/\ trouble' \subseteq {"crash"} =>
          \A r \in Revs :
            db.rev[r].st \in {"cancelled", "approvalfailed", "superseded"} =>
              db'.rev[r].st = db.rev[r].st
     /\ \A c \in CRs : db.cr[c].st \in {"approved", "declined", "cancelled"} =>
          db'.cr[c] = db.cr[c]]_vars
=============================================================================
