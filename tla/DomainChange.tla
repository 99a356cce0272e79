---------------------------- MODULE DomainChange ----------------------------
(***************************************************************************)
(* The approval workflow of one domain of the registrar (package lib):     *)
(* its revisions, the change request (CR) each revision gets when approval *)
(* is asked for, the approvals of that CR (one per required approver set), *)
(* and the promotion or the decline of the revision.  Hosts and contacts   *)
(* run the same code over their own rows.                                  *)
(*                                                                         *)
(* Every action is one HTTP request, run to its end: the row it edits and  *)
(* the whole cascade of UpdateState calls the edit sets off.  The cascade  *)
(* is mutually recursive in the code (approval -> change request ->        *)
(* approvals and domain -> ...); here each stage is an operator that gives *)
(* the fixpoint that the recursion ends in.                                *)
(***************************************************************************)
EXTENDS Integers

CONSTANTS
  NumRevs,    \* bound: revisions that are ever created for the domain
  Sets,       \* approver sets
  FinalSet,   \* approver set 1, in every required list and signed last
  Approvers,  \* approvers, each with one GPG key
  Wanted,     \* bound: desired states the revisions are given
  Verdicts,   \* bound: Action texts of the attestations that are uploaded
  NoSig       \* the empty Signature column

Revs == 1 .. NumRevs
None == 0     \* a NULL CurrentRevisionID, an absent PendingRevision

LiveStates == {"active", "inactive", "external"}
PendingStates ==
  {"pendingnew", "pendingnewexternal", "activependingapproval",
   "inactivependingapproval", "externalpendingapproval"}
DomainStates == {"new", "newexternal"} \cup PendingStates \cup LiveStates
RevStates ==
  {"unused", "new", "pendingapproval", "cancelled", "approvalfailed",
   "superseded"} \cup LiveStates
CRStates == {"none", "pendingapproval", "approved", "declined", "cancelled"}
Blocked == {"novalidapprovers", "inactiveapproverset"}
ApprovalStates ==
  {"none", "new", "pendingapproval", "approved", "declined", "cancelled"}
    \cup Blocked

(* A signed ApprovalAttestation: the approval (named by its change request) *)
(* and the pending revision it attests to, the signer, and the Action text: *)
(* anything but "approved" and "declined" is "other".                       *)
Signatures ==
  [for : Revs, rev : Revs, by : Approvers,
   action : {"approved", "declined", "other"}]

ASSUME NumRevsAssumption == NumRevs \in Nat
ASSUME WantedAssumption == Wanted \subseteq LiveStates
ASSUME VerdictsAssumption == Verdicts \subseteq {"approved", "declined", "other"}
ASSUME FinalSetAssumption == FinalSet \in Sets
ASSUME NoSigAssumption == NoSig \notin Signatures

VARIABLES
  db,      \* the rows of the domain, its revisions, CRs and approvals
  roster   \* the approver sets and approvers, as other requests leave them

vars == <<db, roster>>

Approval == [st : ApprovalStates, sig : Signatures \cup {NoSig}]
Revision == [st : RevStates, desired : LiveStates, req : SUBSET Sets]
ChangeRequest ==
  [st : CRStates, init : Revs \cup {None}, appr : [Sets -> Approval]]
Rows ==
  [state : DomainStates, current : Revs \cup {None},
   rev : [Revs -> Revision], cr : [Revs -> ChangeRequest]]
Rosters ==
  [inactive : SUBSET Sets,                \* sets whose state is inactive
   members : [Sets -> SUBSET Approvers],  \* approvers of the current revision
   working : SUBSET Approvers]            \* approvers whose state is active

-----------------------------------------------------------------------------
(* Rows *)

Open(d) == {r \in Revs : d.rev[r].st \in {"new", "pendingapproval"}}

(* Domain.PendingRevision: the open revision with the lowest ID. *)
Pending(d) ==
  IF Open(d) = {} THEN None
  ELSE CHOOSE r \in Open(d) : \A q \in Open(d) : r <= q

(* Faulty variant: asks the domain's state instead of its revisions. *)
HasPendingRevisionByState(d) == d.state \in PendingStates

HasPendingRevision(d) == Open(d) # {}

Required(A) == {s \in Sets : A[s].st # "none"}
Awaiting(A) == {s \in Required(A) : A[s].st \notin Blocked \cup {"approved"}}

(* All but one of the approvals are done and a final approval exists. *)
ReadyForFinalApproval(A) ==
  FinalSet \in Required(A) /\ \E s \in Sets : Awaiting(A) = {s}

SetStatus(e, s) ==
  IF s \in e.inactive THEN "inactiveapproverset"
  ELSE IF e.members[s] \cap e.working = {} THEN "novalidapprovers"
  ELSE "valid"

(* A signature verifies against the keys of the set's current revision: the *)
(* set must be active; the state of the approver who signed is not asked.   *)
ValidSignature(e, s, sig) ==
  sig # NoSig /\ s \notin e.inactive /\ sig.by \in e.members[s]

-----------------------------------------------------------------------------
(* Approvals *)

CheckValidityOfApproverSet(e, A, s) ==
  IF SetStatus(e, s) # "valid" THEN SetStatus(e, s)
  ELSE IF s # FinalSet \/ ReadyForFinalApproval(A) THEN "pendingapproval"
  ELSE "new"

(* Faulty variant of ApprovalStep: never asks whether the CR is cancelled. *)
ApprovalStepIgnoresCancel(e, st, A, s) ==
  IF \/ A[s].st = "new" /\ st = "pendingapproval"
     \/ A[s].st = "pendingapproval" /\ A[s].sig = NoSig
     \/ A[s].st \in Blocked
  THEN CheckValidityOfApproverSet(e, A, s) ELSE A[s].st

(* One call of Approval.UpdateState on an approval no known action signs.   *)
(* (A kept signature of action "other" makes it leave the state alone.)     *)
ApprovalStep(e, st, A, s) ==
  LET a == A[s]
      follows == \/ a.st = "new" /\ st = "pendingapproval"
                 \/ a.st = "pendingapproval" /\ a.sig = NoSig
                 \/ a.st \in Blocked
  IN  IF a.st \in {"new", "pendingapproval"} /\ st = "cancelled" THEN "cancelled"
      ELSE IF follows THEN CheckValidityOfApproverSet(e, A, s)
      ELSE a.st

(* ... and with the AfterSave hook, which calls UpdateState again on what   *)
(* was saved.  When that second call changes the row it calls the CR; a CR  *)
(* past pendingapproval answers with an error, and the error undoes the     *)
(* save, unless the save ran inside another one's transaction (nested).     *)
ApprovalUpdateState(e, st, A, s, nested) ==
  LET first == ApprovalStep(e, st, A, s)
      second == ApprovalStep(e, st, [A EXCEPT ![s].st = first], s)
  IN  IF first = second \/ st = "pendingapproval" \/ nested
      THEN second ELSE A[s].st

(* All the approvals of change request c, the final one on the others'      *)
(* outcome; it steps back when another approval waits for a signature too.  *)
Settle(e, c, nested) ==
  LET rest == [s \in Sets |->
                 IF s = FinalSet THEN c.appr[s]
                 ELSE [c.appr[s] EXCEPT
                         !.st = ApprovalUpdateState(e, c.st, c.appr, s, nested)]]
      final == ApprovalUpdateState(e, c.st, rest, FinalSet, nested)
      others == \E s \in Sets \ {FinalSet} : rest[s].st = "pendingapproval"
  IN  [rest EXCEPT ![FinalSet].st =
         IF final = "pendingapproval" /\ others /\ c.st # "approved"
         THEN "new" ELSE final]

(* The change of an approval reaches the change request, except when a      *)
(* blocked approval changes in one step (UpdateState sets no cascadeState). *)
Cascades(e, c, A) ==
  \E s \in Sets :
    /\ A[s].st # c.appr[s].st
    /\ c.appr[s].st \in Blocked =>
         A[s].st # ApprovalStep(e, c.st, [A EXCEPT ![s] = c.appr[s]], s)

-----------------------------------------------------------------------------
(* Change requests *)

(* The state ChangeRequest.UpdateState gives a CR. *)
Advance(c, pending) ==
  LET has(st) == \E s \in Sets : c.appr[s].st = st IN
  IF c.st # "pendingapproval" THEN c.st
  ELSE IF ~pending THEN "cancelled"
  ELSE IF has("declined") THEN "declined"
  ELSE IF has("approved") /\ Awaiting(c.appr) = {} THEN "approved"
  ELSE c.st

UpdateApprovals(e, c, pending, nested) ==
  LET A == Settle(e, c, nested)
      c2 == [c EXCEPT !.appr = A,
                      !.st = IF Cascades(e, c, A)
                             THEN Advance([c EXCEPT !.appr = A], pending)
                             ELSE c.st]
  IN  [c2 EXCEPT !.appr = Settle(e, c2, nested)]

(* UpdateState cascades when the state changes or only one approval is left. *)
Fires(c, pending) ==
  /\ c.st = "pendingapproval"
  /\ Advance(c, pending) # c.st \/ ReadyForFinalApproval(c.appr)

CRUpdateState(e, c, pending, nested) ==
  IF Fires(c, pending)
  THEN UpdateApprovals(e, [c EXCEPT !.st = Advance(c, pending)], pending, nested)
  ELSE c

-----------------------------------------------------------------------------
(* The domain *)

(* Faulty variants of VerifyCR: one ignores the CR's initial revision, one  *)
(* what the attestations are about.                                         *)
VerifyCRAnyBase(e, d) ==
  LET p == Pending(d) IN
  /\ p # None
  /\ d.cr[p].st # "none"
  /\ \A s \in Required(d.cr[p].appr) :
       LET sig == d.cr[p].appr[s].sig IN
       ValidSignature(e, s, sig) /\ sig.for = p /\ sig.rev = p
VerifyCRAnyAttestation(e, d) ==
  LET p == Pending(d) IN
  /\ p # None
  /\ d.cr[p].st # "none"
  /\ d.cr[p].init = d.current
  /\ \A s \in Required(d.cr[p].appr) : ValidSignature(e, s, d.cr[p].appr[s].sig)

(* The pending revision's CR belongs to this change, starts from the        *)
(* current revision, and every one of its approvals carries a signature     *)
(* that is valid now and attests to this approval and this revision.        *)
VerifyCR(e, d) ==
  LET p == Pending(d) IN
  /\ p # None
  /\ d.cr[p].st # "none"
  /\ d.cr[p].init = d.current
  /\ \A s \in Required(d.cr[p].appr) :
       LET sig == d.cr[p].appr[s].sig IN
       ValidSignature(e, s, sig) /\ sig.for = p /\ sig.rev = p

(* Faulty variant: the old revision is not superseded. *)
PromoteWithoutSupersed(d, p) ==
  [d EXCEPT !.rev[p].st = d.rev[p].desired,
            !.current = p, !.state = d.rev[p].desired]

Promote(d, p) ==
  LET promoted == [d EXCEPT !.rev[p].st = d.rev[p].desired]
  IN  IF d.current = None
      THEN [promoted EXCEPT !.current = p, !.state = d.rev[p].desired]
      ELSE IF promoted.rev[d.current].st \in LiveStates
      THEN [promoted EXCEPT !.rev[d.current].st = "superseded",
                            !.current = p, !.state = d.rev[p].desired]
      ELSE promoted       \* Supersed refuses: what is saved stays saved

(* Faulty variant: the domain takes the declined revision's state. *)
DeclineCopiesRevision(d, p) ==
  [d EXCEPT !.rev[p].st = "approvalfailed", !.state = "approvalfailed"]

Decline(d, p) ==
  IF d.rev[p].st # "pendingapproval" THEN d
  ELSE [d EXCEPT
          !.rev[p].st = "approvalfailed",
          !.state = IF d.current # None THEN d.rev[d.current].st
                    ELSE IF d.state = "externalpendingapproval" THEN "newexternal"
                    ELSE "new"]

(* Faulty variants: the state is left alone, or the current revision is     *)
(* forgotten.                                                               *)
RevertNothing(d) == d
RevertToNew(d) == [d EXCEPT !.state = "new"]

(* No pending revision, or one without a CR: back to a resting state. *)
Revert(d) ==
  [d EXCEPT !.state = IF d.current # None THEN d.rev[d.current].desired
                      ELSE IF d.state = "pendingnewexternal" THEN "newexternal"
                      ELSE "new"]

DomainUpdateState(e, d) ==
  LET p == Pending(d) IN
  IF d.state \notin PendingStates THEN d
  ELSE IF p = None \/ d.cr[p].st = "none" THEN Revert(d)
  ELSE IF ~VerifyCR(e, d) THEN d
  ELSE IF d.cr[p].st = "approved" THEN Promote(d, p)
  ELSE IF d.cr[p].st = "declined" THEN Decline(d, p)
  ELSE d

(* UpdateApprovals and UpdateState of the CR of revision r, with the update  *)
(* of the domain that UpdateApprovals ends with.                             *)
RefreshCR(e, d, r) ==
  DomainUpdateState(e, [d EXCEPT !.cr[r] =
    UpdateApprovals(e, d.cr[r], HasPendingRevision(d), FALSE)])

UpdateCR(e, d, r) ==
  IF Fires(d.cr[r], HasPendingRevision(d))
  THEN DomainUpdateState(e, [d EXCEPT !.cr[r] =
         CRUpdateState(e, d.cr[r], HasPendingRevision(d), FALSE)])
  ELSE d

-----------------------------------------------------------------------------
(* Requests about the domain *)

EditDomain(state) ==
  /\ db.state \in {"new", "newexternal"}
  /\ db' = [db EXCEPT !.state = state]
  /\ UNCHANGED roster

(* Nothing asks whether the domain has an open revision already; approver   *)
(* set 1 is added to the required ones that are asked for.                  *)
CreateRevision(r, desired, req) ==
  /\ db.rev[r].st = "unused"
  /\ \A q \in Revs : q < r => db.rev[q].st # "unused"
  /\ db' = [db EXCEPT !.rev[r] =
              [st |-> "new", desired |-> desired, req |-> req \cup {FinalSet}]]
  /\ UNCHANGED roster

EditRevision(r, desired, req) ==
  /\ db.rev[r].st = "new"
  /\ db' = [db EXCEPT !.rev[r] =
              [@ EXCEPT !.desired = desired, !.req = req \cup {FinalSet}]]
  /\ UNCHANGED roster

(* The state of the domain once approval of a revision has been asked for. *)
StartedState(d) ==
  LET desired == IF d.current # None THEN d.rev[d.current].desired
                                     ELSE d.rev[Pending(d)].desired
  IN  IF d.current = None
      THEN IF desired = "external" THEN "pendingnewexternal" ELSE "pendingnew"
      ELSE CASE desired = "active" -> "activependingapproval"
             [] desired = "inactive" -> "inactivependingapproval"
             [] desired = "external" -> "externalpendingapproval"

NewCR(d) ==
  LET needed == IF d.current = None THEN {FinalSet} ELSE d.rev[d.current].req
  IN  [st |-> "pendingapproval", init |-> d.current,
       appr |-> [s \in Sets |-> [st |-> IF s \in needed THEN "new" ELSE "none",
                                 sig |-> NoSig]]]

StartApprovalProcess(r) ==
  /\ db.rev[r].st = "new"
  /\ LET d == [db EXCEPT !.rev[r].st = "pendingapproval", !.cr[r] = NewCR(db)]
     IN  db' = RefreshCR(roster, [d EXCEPT !.state = StartedState(d)], r)
  /\ UNCHANGED roster

(* Faulty variant: the state of the revision is not asked for. *)
CancelAnyRevision(r) ==
  /\ db.rev[r].st # "unused"
  /\ LET d == DomainUpdateState(roster, [db EXCEPT !.rev[r].st = "cancelled"])
     IN  db' = IF d.cr[r].st = "none" THEN d ELSE UpdateCR(roster, d, r)
  /\ UNCHANGED roster

Cancel(r) ==
  /\ r \in Open(db)
  /\ LET d == DomainUpdateState(roster, [db EXCEPT !.rev[r].st = "cancelled"])
     IN  db' = IF d.cr[r].st = "none" THEN d ELSE UpdateCR(roster, d, r)
  /\ UNCHANGED roster

(* An upload refreshes the approvals of the CR before it asks whether the   *)
(* approval waits for a signature, and so does one that is refused.         *)
RefuseUpload(r, s) ==
  /\ db.cr[r].appr[s].st \notin {"none", "pendingapproval"}
  /\ db' = RefreshCR(roster, db, r)
  /\ UNCHANGED roster

(* A signature that is kept but does not verify with the CR is cleared or   *)
(* rolled back again.                                                       *)
UploadSignature(r, s, sig) ==
  /\ db.cr[r].appr[s].st = "pendingapproval"
  /\ LET d == RefreshCR(roster, db, r)
         signed == [d EXCEPT !.cr[r].appr[s].sig = sig]
         decided == [signed EXCEPT !.cr[r].appr[s].st = sig.action]
         accepted == /\ d.cr[r].appr[s].st = "pendingapproval"
                     /\ ValidSignature(roster, s, sig)
     IN  db' = IF accepted /\ sig.action = "other" THEN signed
               ELSE IF accepted /\ VerifyCR(roster, signed)
               THEN UpdateCR(roster, decided, r)
               ELSE d
  /\ UNCHANGED roster

-----------------------------------------------------------------------------
(* Requests about approver sets and approvers, as this domain sees them *)

(* A revision of approver set s is promoted: its UpdateState calls every    *)
(* approval of the set that is pending or blocked, whatever CR it is of.    *)
ApproverSetCascade(e, d, s, nested) ==
  LET pending == HasPendingRevision(d)
      touched(r) == d.cr[r].appr[s].st \in Blocked \cup {"pendingapproval"}
      stepped(r) == [d.cr[r] EXCEPT !.appr[s].st =
        ApprovalUpdateState(e, d.cr[r].st, d.cr[r].appr, s, nested)]
      reaches(r) == touched(r) /\ Cascades(e, d.cr[r], stepped(r).appr)
      rows == [d EXCEPT !.cr = [r \in Revs |->
                 IF reaches(r) THEN CRUpdateState(e, stepped(r), pending, nested)
                 ELSE IF touched(r) THEN stepped(r)
                 ELSE d.cr[r]]]
  IN  IF \E r \in Revs : reaches(r) /\ Fires(stepped(r), pending)
      THEN DomainUpdateState(e, rows) ELSE rows

ApproverSetPromoted(s, active, members, nested) ==
  /\ roster' = [roster EXCEPT
       !.inactive = IF active THEN @ \ {s} ELSE @ \cup {s},
       !.members[s] = members]
  /\ db' = ApproverSetCascade(roster', db, s, nested)

(* An approver's own promotion saves the approver and updates its sets,     *)
(* whose UpdateState has nothing to do: no approval is called.              *)
ApproverPromoted(a, active) ==
  /\ roster' = [roster EXCEPT
       !.working = IF active THEN @ \cup {a} ELSE @ \ {a}]
  /\ UNCHANGED db

-----------------------------------------------------------------------------
NoRows(state) ==
  [state |-> state, current |-> None,
   rev |-> [r \in Revs |-> [st |-> "unused", desired |-> "active", req |-> {}]],
   cr |-> [r \in Revs |-> [st |-> "none", init |-> None,
             appr |-> [s \in Sets |-> [st |-> "none", sig |-> NoSig]]]]]

Init ==
  /\ db \in {NoRows("new"), NoRows("newexternal")}
  /\ roster \in Rosters

Next ==
  \/ \E state \in {"new", "newexternal"} : EditDomain(state)
  \/ \E r \in Revs :
       \/ \E desired \in Wanted, req \in SUBSET (Sets \ {FinalSet}) :
            CreateRevision(r, desired, req) \/ EditRevision(r, desired, req)
       \/ StartApprovalProcess(r)
       \/ Cancel(r)
       \/ \E s \in Sets : RefuseUpload(r, s)
       \/ \E s \in Sets, sig \in Signatures :
            sig.action \in Verdicts /\ UploadSignature(r, s, sig)
  \/ \E s \in Sets, active \in BOOLEAN, members \in SUBSET Approvers,
        nested \in BOOLEAN : ApproverSetPromoted(s, active, members, nested)
  \/ \E a \in Approvers, active \in BOOLEAN : ApproverPromoted(a, active)

Spec == Init /\ [][Next]_vars

-----------------------------------------------------------------------------
(* Properties *)

(* Type invariant: every row and the roster stay within their types. *)
TypeOK == db \in Rows /\ roster \in Rosters

Live(d, r) == d.rev[r].st \in LiveStates
Promoted(d, r) == Live(d, r) \/ d.rev[r].st = "superseded"

(* The domain has one revision in force and names it: Promote, Supersed and *)
(* the save of CurrentRevisionID never leave two live revisions, nor a      *)
(* current revision that is not live (Domain.UpdateState).                  *)
OneLiveRevision == \A r \in Revs : Live(db, r) <=> r = db.current

(* The state column agrees with the current revision whatever was started,  *)
(* declined, cancelled or promoted in between: at rest it is that           *)
(* revision's state, and during an approval the pending form of it.         *)
StateTracksCurrent ==
  IF db.current = None
  THEN db.state \in {"new", "newexternal", "pendingnew", "pendingnewexternal"}
  ELSE LET st == db.rev[db.current].st IN
       db.state \in {st, CASE st = "active" -> "activependingapproval"
                          [] st = "inactive" -> "inactivependingapproval"
                          [] OTHER -> "externalpendingapproval"}

(* A revision that is or was in force got there by an approved CR, with an  *)
(* approval whose attestation approves this revision on this CR: with open  *)
(* revisions side by side, none rides on another one's signatures.          *)
PromotedWasApproved ==
  \A r \in Revs : Promoted(db, r) =>
    /\ db.cr[r].st = "approved"
    /\ \E s \in Sets : LET a == db.cr[r].appr[s] IN
         /\ a.st = "approved" /\ a.sig # NoSig
         /\ a.sig.for = r /\ a.sig.rev = r /\ a.sig.action = "approved"

(* The revisions that were in force form one line: each CR was written      *)
(* against the revision its own one superseded, no two against the same one *)
(* (VerifyCR's comparison of InitialRevisionID with the current revision).  *)
LinearHistory ==
  \A r \in Revs : Promoted(db, r) =>
    /\ db.cr[r].init # None => db.rev[db.cr[r].init].st = "superseded"
    /\ \A q \in Revs \ {r} : Promoted(db, q) => db.cr[q].init # db.cr[r].init

(* A revision that waits for approval has a CR that can still promote it or *)
(* already decided about it: no request cancels a CR under an open revision *)
(* (ChangeRequest.UpdateState cancels only without a pending revision).     *)
WaitingHasRequest ==
  \A r \in Revs : db.rev[r].st = "pendingapproval" =>
    db.cr[r].st \in {"pendingapproval", "approved", "declined"}

(* A pending state of the domain is never left behind: some revision waits  *)
(* for approval (the revert branch of Domain.UpdateState).                  *)
PendingHasCause ==
  db.state \in PendingStates =>
    \E r \in Revs : db.rev[r].st = "pendingapproval"

Final == {"approved", "declined", "cancelled"}

(* While every uploaded attestation approves or declines, a CR that was     *)
(* decided or cancelled waits for no signature: a late upload finds no      *)
(* approval in pendingapproval, however the roster changes afterwards.      *)
DecidedTakesNoSignature ==
  \A r \in Revs, s \in Sets :
    db.cr[r].st \in Final => db.cr[r].appr[s].st # "pendingapproval"

(* What is terminal stays: cancelled, failed and superseded revisions,      *)
(* decided or cancelled CRs and approvals, signatures included.             *)
TerminalIsFinal ==
  [][\A r \in Revs :
       /\ db.rev[r].st \in {"cancelled", "approvalfailed", "superseded"} =>
            db'.rev[r].st = db.rev[r].st
       /\ db.cr[r].st \in Final =>
            db'.cr[r].st = db.cr[r].st /\ db'.cr[r].init = db.cr[r].init
       /\ \A s \in Sets : db.cr[r].appr[s].st \in Final =>
            db'.cr[r].appr[s] = db.cr[r].appr[s]]_vars

-----------------------------------------------------------------------------
(* What the documents say and the code does not do *)

(* doc/changerequest.md:87: a CR in pendingapproval "has at least one       *)
(* Approval that has been approved but has not completed": so the upload of *)
(* a good approving signature on the pending revision's CR is accepted.     *)
GoodSignatureCounts ==
  [][\A r \in Revs, s \in Sets, a \in Approvers :
       LET sig == [for |-> r, rev |-> r, by |-> a, action |-> "approved"] IN
       /\ UploadSignature(r, s, sig)
       /\ ValidSignature(roster, s, sig) /\ SetStatus(roster, s) = "valid"
       /\ r = Pending(db) /\ db.cr[r].init = db.current
       => db'.cr[r].appr[s].st = "approved"]_vars
=============================================================================
