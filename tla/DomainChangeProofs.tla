------------------------- MODULE DomainChangeProofs -------------------------
(***************************************************************************)
(* Proofs about DomainChange and DomainLedger, for every value of the      *)
(* constants.  Lemmas follow a request through the cascade: one approval,  *)
(* the approvals of a CR, the CR, the domain; the invariant is then kept   *)
(* by each action because it is kept by each stage.                        *)
(***************************************************************************)
EXTENDS DomainLedger, WellFoundedInduction, TLAPS

(* How UpdateState may change the state of an approval: terminal and absent *)
(* ones stay, and it never decides (only an upload does).                   *)
ApprovalFollows(x, y) ==
  /\ y \in ApprovalStates
  /\ x \in Final \cup {"none"} => y = x
  /\ x \notin Final \cup {"none"} => y \notin {"none", "approved", "declined"}

(* How the cascade may change a change request. *)
ApprovalsFollow(A, B) ==
  /\ B \in [Sets -> Approval]
  /\ \A s \in Sets : /\ B[s].sig = A[s].sig
                     /\ ApprovalFollows(A[s].st, B[s].st)

CRFollows(c, d, pending) ==
  /\ d \in ChangeRequest
  /\ d.init = c.init
  /\ c.st # "pendingapproval" => d.st = c.st
  /\ c.st = "pendingapproval" => d.st \in Final \cup {"pendingapproval"}
  /\ c.st # "cancelled" /\ d.st = "cancelled" => ~pending
  /\ c.st # "approved" /\ d.st = "approved" =>
       \E s \in Sets : d.appr[s].st = "approved"
  /\ ApprovalsFollow(c.appr, d.appr)

-----------------------------------------------------------------------------
(* One call of Approval.UpdateState follows. *)
LEMMA ApprovalStepFollows ==
  ASSUME NEW e, NEW st, NEW A \in [Sets -> Approval], NEW s \in Sets
  PROVE  ApprovalFollows(A[s].st, ApprovalStep(e, st, A, s))
<1>1. CheckValidityOfApproverSet(e, A, s) \in Blocked \cup {"new", "pendingapproval"}
  BY DEF CheckValidityOfApproverSet, SetStatus, Blocked
<1>2. A[s].st \in ApprovalStates
  BY DEF Approval
<1> QED
  BY <1>1, <1>2 DEF ApprovalFollows, ApprovalStep, ApprovalStates, Blocked, Final

(* So does a save of an approval with its hook. *)
LEMMA ApprovalUpdateStateFollows ==
  ASSUME NEW e, NEW st, NEW nested, NEW A \in [Sets -> Approval], NEW s \in Sets
  PROVE  ApprovalFollows(A[s].st, ApprovalUpdateState(e, st, A, s, nested))
<1> DEFINE first == ApprovalStep(e, st, A, s)
           B == [A EXCEPT ![s].st = first]
           second == ApprovalStep(e, st, B, s)
<1>1. ApprovalFollows(A[s].st, first)
  BY ApprovalStepFollows
<1>2. B \in [Sets -> Approval] /\ B[s].st = first
  BY <1>1 DEF ApprovalFollows, Approval
<1>3. ApprovalFollows(B[s].st, second)
  <2> HIDE DEF B
  <2> QED BY <1>2, ApprovalStepFollows
<1>4. ApprovalFollows(A[s].st, second)
  <2> HIDE DEF first, second, B
  <2> QED BY <1>1, <1>2, <1>3 DEF ApprovalFollows, Final
<1>5. ApprovalFollows(A[s].st, A[s].st)
  BY DEF ApprovalFollows, Approval, Final
<1> QED
  BY <1>4, <1>5 DEF ApprovalUpdateState

(* Settling the approvals of a CR moves each one as UpdateState may. *)
LEMMA SettleFollows ==
  ASSUME NEW e, NEW nested, NEW c \in ChangeRequest
  PROVE  ApprovalsFollow(c.appr, Settle(e, c, nested))
<1> DEFINE rest == [s \in Sets |->
                 IF s = FinalSet THEN c.appr[s]
                 ELSE [c.appr[s] EXCEPT
                         !.st = ApprovalUpdateState(e, c.st, c.appr, s, nested)]]
           final == ApprovalUpdateState(e, c.st, rest, FinalSet, nested)
           last == IF final = "pendingapproval"
                      /\ (\E s \in Sets \ {FinalSet} : rest[s].st = "pendingapproval")
                      /\ c.st # "approved"
                   THEN "new" ELSE final
<1>1. c.appr \in [Sets -> Approval]
  BY DEF ChangeRequest
<1>2. ASSUME NEW s \in Sets
      PROVE  ApprovalFollows(c.appr[s].st, ApprovalUpdateState(e, c.st, c.appr, s, nested))
  BY <1>1, ApprovalUpdateStateFollows
<1>3. rest \in [Sets -> Approval] /\ rest[FinalSet] = c.appr[FinalSet]
  BY <1>1, <1>2, FinalSetAssumption DEF Approval, ApprovalFollows
<1>4. \A s \in Sets \ {FinalSet} :
        rest[s].sig = c.appr[s].sig /\ ApprovalFollows(c.appr[s].st, rest[s].st)
  BY <1>1, <1>2 DEF Approval, ApprovalFollows
<1>5. ApprovalFollows(c.appr[FinalSet].st, final)
  <2> HIDE DEF rest
  <2> QED BY <1>3, ApprovalUpdateStateFollows, FinalSetAssumption
<1>6. ApprovalFollows(c.appr[FinalSet].st, last)
  <2> HIDE DEF rest, final
  <2> QED BY <1>5 DEF ApprovalFollows, Final, ApprovalStates
<1>7. Settle(e, c, nested) = [rest EXCEPT ![FinalSet].st = last]
  BY DEF Settle
<1> HIDE DEF rest, last
<1> QED
  BY <1>3, <1>4, <1>6, <1>7, FinalSetAssumption
  DEF ApprovalsFollow, ApprovalFollows, Approval

(* CRFollows holds across two stages. *)
LEMMA CRFollowsTransitive ==
  ASSUME NEW c \in ChangeRequest, NEW c1, NEW c2, NEW pending,
         CRFollows(c, c1, pending), CRFollows(c1, c2, pending)
  PROVE  CRFollows(c, c2, pending)
<1>1. ApprovalsFollow(c.appr, c2.appr)
  BY DEF CRFollows, ApprovalsFollow, ApprovalFollows, Final
<1>2. c1.st \in CRStates /\ c2.st \in CRStates
  BY DEF CRFollows, ChangeRequest
<1>3. c.st # "approved" /\ c2.st = "approved" =>
        \E s \in Sets : c2.appr[s].st = "approved"
  <2> SUFFICES ASSUME c.st # "approved", c2.st = "approved", c1.st = "approved"
               PROVE  \E s \in Sets : c2.appr[s].st = "approved"
    BY DEF CRFollows
  <2>1. PICK s \in Sets : c1.appr[s].st = "approved"
    BY DEF CRFollows
  <2> QED
    BY <2>1 DEF CRFollows, ApprovalsFollow, ApprovalFollows, Final
<1> QED
  BY <1>1, <1>2, <1>3 DEF CRFollows, Final

(* A CR follows when its state advances ... *)
LEMMA AdvanceFollows ==
  ASSUME NEW c \in ChangeRequest, NEW pending \in BOOLEAN
  PROVE  CRFollows(c, [c EXCEPT !.st = Advance(c, pending)], pending)
<1> DEFINE d == [c EXCEPT !.st = Advance(c, pending)]
<1>1. /\ c.st # "pendingapproval" => Advance(c, pending) = c.st
      /\ c.st = "pendingapproval" =>
           Advance(c, pending) \in Final \cup {"pendingapproval"}
      /\ c.st # "cancelled" /\ Advance(c, pending) = "cancelled" => ~pending
      /\ c.st # "approved" /\ Advance(c, pending) = "approved" =>
           \E s \in Sets : c.appr[s].st = "approved"
  BY DEF Advance, Final
<1>2. ApprovalsFollow(c.appr, c.appr)
  BY DEF ApprovalsFollow, ApprovalFollows, ChangeRequest, Approval, Final
<1>3. d \in ChangeRequest /\ d.st = Advance(c, pending)
      /\ d.init = c.init /\ d.appr = c.appr
  BY <1>1 DEF ChangeRequest, CRStates, Final
<1> QED
  BY <1>1, <1>2, <1>3 DEF CRFollows

(* ... and when its approvals move. *)
LEMMA ApprovalsFollowInCR ==
  ASSUME NEW c \in ChangeRequest, NEW A, NEW pending, ApprovalsFollow(c.appr, A)
  PROVE  CRFollows(c, [c EXCEPT !.appr = A], pending)
<1>1. A \in [Sets -> Approval]
  BY DEF ApprovalsFollow
<1> QED
  BY <1>1 DEF CRFollows, ChangeRequest, CRStates, Final

LEMMA UpdateApprovalsFollows ==
  ASSUME NEW e, NEW nested, NEW c \in ChangeRequest, NEW pending \in BOOLEAN
  PROVE  CRFollows(c, UpdateApprovals(e, c, pending, nested), pending)
<1> DEFINE A == Settle(e, c, nested)
           c1 == [c EXCEPT !.appr = A]
           c2 == IF Cascades(e, c, A) THEN [c1 EXCEPT !.st = Advance(c1, pending)]
                                      ELSE c1
           c3 == [c2 EXCEPT !.appr = Settle(e, c2, nested)]
<1>1. CRFollows(c, c1, pending)
  BY SettleFollows, ApprovalsFollowInCR
<1>2. c1 \in ChangeRequest
  BY <1>1 DEF CRFollows
<1>3. CRFollows(c1, c2, pending)
  <2>1. CRFollows(c1, [c1 EXCEPT !.st = Advance(c1, pending)], pending)
    BY <1>2, AdvanceFollows
  <2>2. CRFollows(c1, c1, pending)
    BY <1>2 DEF CRFollows, ApprovalsFollow, ApprovalFollows, ChangeRequest,
                Approval, Final
  <2> QED
    BY <2>1, <2>2
<1>4. c2 \in ChangeRequest
  BY <1>3 DEF CRFollows
<1>5. CRFollows(c2, c3, pending)
  BY <1>4, SettleFollows, ApprovalsFollowInCR
<1>6. CRFollows(c, c3, pending)
  <2> HIDE DEF c1, c2, c3
  <2> QED BY <1>1, <1>2, <1>3, <1>5, CRFollowsTransitive
<1>7. UpdateApprovals(e, c, pending, nested) = c3
  BY DEF UpdateApprovals, ChangeRequest
<1> QED
  BY <1>6, <1>7

LEMMA CRUpdateStateFollows ==
  ASSUME NEW e, NEW nested, NEW c \in ChangeRequest, NEW pending \in BOOLEAN
  PROVE  CRFollows(c, CRUpdateState(e, c, pending, nested), pending)
<1> DEFINE c1 == [c EXCEPT !.st = Advance(c, pending)]
<1>1. CRFollows(c, c1, pending)
  BY AdvanceFollows
<1>2. c1 \in ChangeRequest
  BY <1>1 DEF CRFollows
<1>3. CRFollows(c, UpdateApprovals(e, c1, pending, nested), pending)
  <2> HIDE DEF c1
  <2> QED BY <1>1, <1>2, UpdateApprovalsFollows, CRFollowsTransitive
<1>4. CRFollows(c, c, pending)
  BY DEF CRFollows, ApprovalsFollow, ApprovalFollows, ChangeRequest, Approval,
         CRStates, Final
<1> QED
  BY <1>3, <1>4 DEF CRUpdateState

-----------------------------------------------------------------------------
(* The pending revision exists as soon as some revision is open. *)
LEMMA PendingIsOpen ==
  ASSUME NEW d, HasPendingRevision(d)
  PROVE  Pending(d) \in Open(d)
<1>1. Open(d) \subseteq Nat /\ Open(d) # {}
  BY NumRevsAssumption DEF HasPendingRevision, Open, Revs
<1>2. PICK r \in Open(d) : \A q \in Open(d) : ~(<<q, r>> \in OpToRel(<, Nat))
  BY <1>1, NatLessThanWellFounded, WFMin, Zenon
<1>3. ASSUME NEW q \in Open(d)
      PROVE  r <= q
  <2>1. r \in Nat /\ q \in Nat
    BY <1>1
  <2>2. OpToRel(<, Nat) = {ss \in Nat \X Nat : ss[1] < ss[2]}
    BY Zenon DEF OpToRel
  <2>3. <<q, r>> \notin {ss \in Nat \X Nat : ss[1] < ss[2]}
    BY <1>2, <2>2
  <2> QED BY <2>1, <2>3
<1> QED
  BY <1>1, <1>3 DEF Pending

LEMMA PendingIsRevision ==
  ASSUME NEW d
  PROVE  /\ Pending(d) \in Revs \cup {None}
         /\ Pending(d) = None <=> ~HasPendingRevision(d)
         /\ Pending(d) # None => Pending(d) \in Open(d)
<1>1. None \notin Open(d)
  BY NumRevsAssumption DEF Open, Revs, None
<1> QED
  BY <1>1, PendingIsOpen DEF Pending, HasPendingRevision, Open

-----------------------------------------------------------------------------
(* The inductive invariant, of the rows of a domain. *)

LiveAsDesired(d) ==
  \A r \in Revs : Live(d, r) => d.rev[r].st = d.rev[r].desired

OneLive(d) == \A r \in Revs : Live(d, r) <=> r = d.current

(* Before the first promotion there is nothing to supersede. *)
NothingBefore(d) ==
  d.current = None => \A r \in Revs : d.rev[r].st # "superseded"

RequestAfterStart(d) ==
  \A r \in Revs :
    /\ d.rev[r].st \in {"unused", "new"} => d.cr[r].st = "none"
    /\ d.rev[r].st = "pendingapproval" =>
         d.cr[r].st \in {"pendingapproval", "approved", "declined"}

(* No approval without a CR, and no decision without the signature for it. *)
DecisionsAreSigned(d) ==
  \A r \in Revs :
    /\ d.cr[r].st = "approved" => \E s \in Sets : d.cr[r].appr[s].st = "approved"
    /\ \A s \in Sets : LET a == d.cr[r].appr[s] IN
         /\ d.cr[r].st = "none" => a.st = "none"
         /\ a.st \in {"approved", "declined"} => a.sig # NoSig /\ a.sig.action = a.st

Approved(d, r) ==
  /\ d.cr[r].st = "approved"
  /\ \E s \in Sets : LET a == d.cr[r].appr[s] IN
       /\ a.st = "approved" /\ a.sig # NoSig
       /\ a.sig.for = r /\ a.sig.rev = r /\ a.sig.action = "approved"

PromotedApproved(d) == \A r \in Revs : Promoted(d, r) => Approved(d, r)

Linear(d) ==
  \A r \in Revs : Promoted(d, r) =>
    /\ d.cr[r].init # None => d.rev[d.cr[r].init].st = "superseded"
    /\ \A q \in Revs \ {r} : Promoted(d, q) => d.cr[q].init # d.cr[r].init

PendingForm(st) == CASE st = "active" -> "activependingapproval"
                     [] st = "inactive" -> "inactivependingapproval"
                     [] OTHER -> "externalpendingapproval"

StateAgrees(d) ==
  IF d.current = None
  THEN d.state \in {"new", "newexternal", "pendingnew", "pendingnewexternal"}
  ELSE d.state \in {d.rev[d.current].st, PendingForm(d.rev[d.current].st)}

(* What holds between the stages of a request, and what at its end only. *)
Base(d) ==
  /\ d \in Rows
  /\ LiveAsDesired(d) /\ OneLive(d) /\ NothingBefore(d)
  /\ RequestAfterStart(d) /\ DecisionsAreSigned(d)
  /\ PromotedApproved(d) /\ Linear(d)
  /\ StateAgrees(d)

Cause(d) ==
  d.state \in PendingStates => \E r \in Revs : d.rev[r].st = "pendingapproval"

Inv == Base(db) /\ Cause(db) /\ roster \in Rosters

-----------------------------------------------------------------------------
(* Rows that differ by what the cascade does to change requests only. *)
RowsFollow(d, d2) ==
  /\ d2 \in Rows
  /\ d2.rev = d.rev /\ d2.state = d.state /\ d2.current = d.current
  /\ \A r \in Revs : CRFollows(d.cr[r], d2.cr[r], HasPendingRevision(d))

LEMMA RowsFollowKeepsBase ==
  ASSUME NEW d, NEW d2, Base(d), RowsFollow(d, d2)
  PROVE  Base(d2)
<1> USE DEF Base, RowsFollow
<1>1. \A r \in Revs : Promoted(d2, r) <=> Promoted(d, r)
  BY DEF Promoted, Live
<1>2. LiveAsDesired(d2) /\ OneLive(d2) /\ NothingBefore(d2)
  BY DEF LiveAsDesired, OneLive, NothingBefore, Live
<1>3. RequestAfterStart(d2)
  <2> SUFFICES ASSUME NEW r \in Revs
               PROVE  /\ d2.rev[r].st \in {"unused", "new"} => d2.cr[r].st = "none"
                      /\ d2.rev[r].st = "pendingapproval" =>
                           d2.cr[r].st \in {"pendingapproval", "approved", "declined"}
    BY DEF RequestAfterStart
  <2>1. CRFollows(d.cr[r], d2.cr[r], HasPendingRevision(d))
    OBVIOUS
  <2>2. CASE d.rev[r].st \in {"unused", "new"}
    BY <2>1, <2>2 DEF CRFollows, RequestAfterStart
  <2>3. CASE d.rev[r].st = "pendingapproval"
    <3>1. HasPendingRevision(d)
      BY <2>3 DEF HasPendingRevision, Open
    <3> QED BY <2>1, <2>3, <3>1 DEF CRFollows, RequestAfterStart, Final
  <2> QED BY <2>2, <2>3
<1>4. DecisionsAreSigned(d2)
  <2> SUFFICES ASSUME NEW r \in Revs
               PROVE  /\ d2.cr[r].st = "approved" =>
                           \E s \in Sets : d2.cr[r].appr[s].st = "approved"
                      /\ \A s \in Sets : LET a == d2.cr[r].appr[s] IN
                           /\ d2.cr[r].st = "none" => a.st = "none"
                           /\ a.st \in {"approved", "declined"} =>
                                a.sig # NoSig /\ a.sig.action = a.st
    BY DEF DecisionsAreSigned
  <2>1. CRFollows(d.cr[r], d2.cr[r], HasPendingRevision(d))
    OBVIOUS
  <2>2. d.cr[r].st \in CRStates
    BY DEF Rows, ChangeRequest
  <2>3. d2.cr[r].st = "approved" => \E s \in Sets : d2.cr[r].appr[s].st = "approved"
    <3>1. CASE d.cr[r].st = "approved"
      <4>1. PICK s \in Sets : d.cr[r].appr[s].st = "approved"
        BY <3>1 DEF DecisionsAreSigned
      <4> QED BY <4>1, <2>1 DEF CRFollows, ApprovalsFollow, ApprovalFollows, Final
    <3>2. CASE d.cr[r].st # "approved"
      BY <3>2, <2>1 DEF CRFollows
    <3> QED BY <3>1, <3>2
  <2>4. ASSUME NEW s \in Sets
        PROVE  LET a == d2.cr[r].appr[s] IN
               /\ d2.cr[r].st = "none" => a.st = "none"
               /\ a.st \in {"approved", "declined"} => a.sig # NoSig /\ a.sig.action = a.st
    <3>1. d2.cr[r].st = "none" => d.cr[r].st = "none"
      BY <2>1, <2>2 DEF CRFollows, Final
    <3>2. /\ d2.cr[r].appr[s].sig = d.cr[r].appr[s].sig
          /\ ApprovalFollows(d.cr[r].appr[s].st, d2.cr[r].appr[s].st)
      BY <2>1 DEF CRFollows, ApprovalsFollow
    <3> QED BY <3>1, <3>2, SMTT(20) DEF DecisionsAreSigned, ApprovalFollows, Final
  <2> QED BY <2>3, <2>4
<1>5. PromotedApproved(d2)
  <2> SUFFICES ASSUME NEW r \in Revs, Promoted(d2, r)
               PROVE  Approved(d2, r)
    BY DEF PromotedApproved
  <2>1. Approved(d, r)
    BY <1>1 DEF PromotedApproved
  <2>2. CRFollows(d.cr[r], d2.cr[r], HasPendingRevision(d))
    OBVIOUS
  <2>3. PICK s \in Sets : LET a == d.cr[r].appr[s] IN
          /\ a.st = "approved" /\ a.sig # NoSig
          /\ a.sig.for = r /\ a.sig.rev = r /\ a.sig.action = "approved"
    BY <2>1 DEF Approved
  <2>4. d2.cr[r].appr[s].st = "approved" /\ d2.cr[r].appr[s].sig = d.cr[r].appr[s].sig
    BY <2>2, <2>3 DEF CRFollows, ApprovalsFollow, ApprovalFollows, Final
  <2>5. d2.cr[r].st = "approved"
    BY <2>1, <2>2 DEF Approved, CRFollows
  <2> QED BY <2>3, <2>4, <2>5 DEF Approved
<1>6. Linear(d2)
  <2>1. \A r \in Revs : d2.cr[r].init = d.cr[r].init
    BY DEF CRFollows
  <2> QED BY <1>1, <2>1 DEF Linear
<1>7. StateAgrees(d2)
  BY DEF StateAgrees
<1> QED
  BY <1>2, <1>3, <1>4, <1>5, <1>6, <1>7

-----------------------------------------------------------------------------
(* What one request may do to the rows, beside keeping the invariant: what  *)
(* is terminal stays, and the line of promoted revisions grows by one.      *)
Superseded(d) == {r \in Revs : d.rev[r].st = "superseded"}

KeepsTerminal(d, D) ==
  \A r \in Revs :
    /\ d.rev[r].st \in {"cancelled", "approvalfailed", "superseded"} =>
         D.rev[r].st = d.rev[r].st
    /\ d.cr[r].st \in Final => D.cr[r].st = d.cr[r].st /\ D.cr[r].init = d.cr[r].init
    /\ \A s \in Sets : d.cr[r].appr[s].st \in Final =>
         D.cr[r].appr[s] = d.cr[r].appr[s]

SameRequests(d, D) ==
  \A r \in Revs : D.cr[r].init = d.cr[r].init
                   /\ (D.cr[r].st = "none" <=> d.cr[r].st = "none")

SameLine(d, D) == D.current = d.current /\ Superseded(D) = Superseded(d)

TakesOver(d, D) ==
  \E c \in Revs \ (Superseded(d) \cup {d.current}) :
    /\ D.cr[c].st = "approved" /\ D.cr[c].init = d.current
    /\ D.current = c
    /\ Superseded(D) = Superseded(d) \cup ({d.current} \ {None})

(* A stage of the cascade: a promotion needs a pending state and ends it,   *)
(* so a request promotes once however many stages it runs.                  *)
Evolves(d, D) ==
  /\ KeepsTerminal(d, D) /\ SameRequests(d, D)
  /\ \/ SameLine(d, D) /\ (d.state \notin PendingStates => D.state \notin PendingStates)
     \/ TakesOver(d, D) /\ d.state \in PendingStates /\ D.state \notin PendingStates

(* The edit a request begins with: it may submit a revision.                *)
Submits(d, D) ==
  \A r \in Revs :
    IF d.cr[r].st # "none"
    THEN D.cr[r].st # "none" /\ D.cr[r].init = d.cr[r].init
    ELSE D.cr[r].st # "none" => D.cr[r].init = d.current

Edits(d, D) == KeepsTerminal(d, D) /\ Submits(d, D) /\ SameLine(d, D)

(* A whole request. *)
Step(d, D) ==
  KeepsTerminal(d, D) /\ Submits(d, D) /\ (SameLine(d, D) \/ TakesOver(d, D))

LEMMA EvolvesReflexive ==
  ASSUME NEW d PROVE Evolves(d, d)
BY DEF Evolves, KeepsTerminal, SameRequests, SameLine

LEMMA KeepsTerminalTransitive ==
  ASSUME NEW d, NEW d1, NEW d2, KeepsTerminal(d, d1), KeepsTerminal(d1, d2)
  PROVE  KeepsTerminal(d, d2)
BY DEF KeepsTerminal

LEMMA EvolvesTransitive ==
  ASSUME NEW d, NEW d1, NEW d2, Evolves(d, d1), Evolves(d1, d2)
  PROVE  Evolves(d, d2)
<1>1. KeepsTerminal(d, d2) /\ KeepsTerminal(d1, d2)
  BY KeepsTerminalTransitive DEF Evolves
<1>2. SameRequests(d, d2) /\ SameRequests(d1, d2)
  BY DEF Evolves, SameRequests
<1>3. CASE SameLine(d, d1) /\ SameLine(d1, d2)
  BY <1>1, <1>2, <1>3 DEF Evolves, SameLine, TakesOver
<1>4. CASE SameLine(d, d1) /\ TakesOver(d1, d2) /\ d1.state \in PendingStates
           /\ d2.state \notin PendingStates
  <2>1. TakesOver(d, d2)
    BY <1>4 DEF SameLine, TakesOver
  <2>2. d.state \in PendingStates
    BY <1>4 DEF Evolves
  <2> QED BY <1>1, <1>2, <1>4, <2>1, <2>2 DEF Evolves
<1>5. CASE TakesOver(d, d1) /\ SameLine(d1, d2) /\ d1.state \notin PendingStates
           /\ d.state \in PendingStates
  <2>1. TakesOver(d, d2)
    BY <1>1, <1>2, <1>5 DEF SameLine, TakesOver, KeepsTerminal, SameRequests, Final
  <2>2. d2.state \notin PendingStates
    BY <1>5 DEF Evolves
  <2> QED BY <1>1, <1>2, <1>5, <2>1, <2>2 DEF Evolves
<1> QED
  BY <1>3, <1>4, <1>5 DEF Evolves

LEMMA EditThenEvolve ==
  ASSUME NEW d, NEW d1, NEW d2, Edits(d, d1), Evolves(d1, d2)
  PROVE  Step(d, d2)
<1>1. KeepsTerminal(d, d2)
  BY KeepsTerminalTransitive DEF Edits, Evolves
<1>2. Submits(d, d2)
  BY DEF Edits, Evolves, Submits, SameRequests, SameLine
<1>3. SameLine(d, d2) \/ TakesOver(d, d2)
  BY DEF Edits, Evolves, SameLine, TakesOver
<1> QED
  BY <1>1, <1>2, <1>3 DEF Step

LEMMA EvolvesIsStep ==
  ASSUME NEW d, NEW D, Evolves(d, D)
  PROVE  Step(d, D)
<1>1. Edits(d, d)
  BY DEF Edits, KeepsTerminal, Submits, SameLine
<1> QED
  BY <1>1, EditThenEvolve

LEMMA RowsFollowEvolves ==
  ASSUME NEW d, NEW d2, d \in Rows, RowsFollow(d, d2)
  PROVE  Evolves(d, d2)
<1>1. d2.rev = d.rev /\ d2.current = d.current /\ d2.state = d.state
  BY DEF RowsFollow
<1>2. ASSUME NEW r \in Revs
      PROVE  /\ d2.cr[r].init = d.cr[r].init
             /\ d2.cr[r].st = "none" <=> d.cr[r].st = "none"
             /\ d.cr[r].st \in Final => d2.cr[r].st = d.cr[r].st
             /\ \A s \in Sets : d.cr[r].appr[s].st \in Final =>
                  d2.cr[r].appr[s] = d.cr[r].appr[s]
  <2>1. CRFollows(d.cr[r], d2.cr[r], HasPendingRevision(d))
    BY DEF RowsFollow
  <2>2. d.cr[r] \in ChangeRequest /\ d2.cr[r] \in ChangeRequest
    BY <2>1 DEF CRFollows, Rows
  <2>3. ASSUME NEW s \in Sets, d.cr[r].appr[s].st \in Final
        PROVE  d2.cr[r].appr[s] = d.cr[r].appr[s]
    <3>1. d.cr[r].appr[s] \in Approval /\ d2.cr[r].appr[s] \in Approval
      BY <2>2 DEF ChangeRequest
    <3>2. /\ d2.cr[r].appr[s].sig = d.cr[r].appr[s].sig
          /\ d2.cr[r].appr[s].st = d.cr[r].appr[s].st
      BY <2>1, <2>3 DEF CRFollows, ApprovalsFollow, ApprovalFollows
    <3> QED BY <3>1, <3>2 DEF Approval
  <2> QED BY <2>1, <2>2, <2>3 DEF CRFollows, Final
<1>3. KeepsTerminal(d, d2) /\ SameRequests(d, d2)
  BY <1>1, <1>2 DEF KeepsTerminal, SameRequests
<1> QED
  BY <1>1, <1>3 DEF Evolves, SameLine, Superseded

-----------------------------------------------------------------------------
(* What Promote does to rows in which the invariant holds: the pending      *)
(* revision takes over and the current one, if any, is superseded.          *)
LEMMA PromoteEffect ==
  ASSUME NEW d, Base(d), NEW p \in Open(d)
  PROVE  LET D == Promote(d, p) IN
         /\ D \in Rows /\ D.cr = d.cr /\ D.current = p
         /\ D.state = d.rev[p].desired
         /\ \A r \in Revs :
              /\ D.rev[r].desired = d.rev[r].desired
              /\ D.rev[r].st = IF r = p THEN d.rev[p].desired
                               ELSE IF r = d.current THEN "superseded"
                               ELSE d.rev[r].st
<1> DEFINE promoted == [d EXCEPT !.rev[p].st = d.rev[p].desired]
<1>1. /\ d \in Rows /\ p \in Revs
      /\ d.rev \in [Revs -> Revision] /\ d.current \in Revs \cup {None}
      /\ d.rev[p].desired \in LiveStates
  BY DEF Base, Open, Rows, Revision
<1>2. d.current # None => d.current \in Revs /\ d.rev[d.current].st \in LiveStates
  BY <1>1 DEF Base, OneLive, Live
<1>3. p # d.current
  BY <1>1, <1>2 DEF Open, LiveStates, Base, OneLive, Live
<1>4. /\ promoted \in Rows /\ promoted.cr = d.cr /\ promoted.current = d.current
      /\ \A r \in Revs : /\ promoted.rev[r].desired = d.rev[r].desired
                         /\ promoted.rev[r].st = IF r = p THEN d.rev[p].desired
                                                 ELSE d.rev[r].st
  BY <1>1 DEF Rows, Revision, RevStates
<1>5. CASE d.current = None
  <2>1. Promote(d, p) = [promoted EXCEPT !.current = p, !.state = d.rev[p].desired]
    BY <1>5 DEF Promote
  <2>2. None \notin Revs
    BY NumRevsAssumption DEF Revs, None
  <2> HIDE DEF promoted
  <2> QED
    BY <1>1, <1>4, <1>5, <2>1, <2>2 DEF Rows, DomainStates
<1>6. CASE d.current # None
  <2>1. promoted.rev[d.current].st \in LiveStates
    BY <1>2, <1>3, <1>4, <1>6
  <2>2. Promote(d, p) = [promoted EXCEPT !.rev[d.current].st = "superseded",
                            !.current = p, !.state = d.rev[p].desired]
    BY <1>6, <2>1 DEF Promote
  <2> HIDE DEF promoted
  <2>3. promoted.rev \in [Revs -> Revision]
    BY <1>4 DEF Rows
  <2> DEFINE rev2 == [promoted.rev EXCEPT ![d.current].st = "superseded"]
  <2>4. /\ rev2 \in [Revs -> Revision]
        /\ \A r \in Revs :
             /\ rev2[r].desired = promoted.rev[r].desired
             /\ rev2[r].st = IF r = d.current THEN "superseded"
                            ELSE promoted.rev[r].st
    BY <1>2, <1>6, <2>3 DEF Revision, RevStates
  <2> HIDE DEF rev2
  <2>5. /\ Promote(d, p).rev = rev2 /\ Promote(d, p).cr = promoted.cr
        /\ Promote(d, p).current = p /\ Promote(d, p).state = d.rev[p].desired
        /\ Promote(d, p) \in Rows
    BY <1>1, <1>4, <2>2, <2>4 DEF Rows, DomainStates, rev2
  <2> QED
    BY <1>3, <1>4, <2>4, <2>5
<1> QED
  BY <1>5, <1>6

LEMMA PromoteKeepsBase ==
  ASSUME NEW e, NEW d, Base(d), Pending(d) # None, VerifyCR(e, d),
         d.cr[Pending(d)].st = "approved"
  PROVE  Base(Promote(d, Pending(d)))
<1> DEFINE p == Pending(d)
           D == Promote(d, p)
<1>1. p \in Open(d) /\ p \in Revs /\ d.rev[p].desired \in LiveStates
      /\ ~Promoted(d, p)
  BY PendingIsRevision DEF Open, Base, Rows, Revision, Promoted, Live, LiveStates
<1>2. /\ D \in Rows /\ D.cr = d.cr /\ D.current = p
      /\ D.state = d.rev[p].desired
      /\ \A r \in Revs :
           /\ D.rev[r].desired = d.rev[r].desired
           /\ D.rev[r].st = IF r = p THEN d.rev[p].desired
                            ELSE IF r = d.current THEN "superseded"
                            ELSE d.rev[r].st
  BY <1>1, PromoteEffect
<1>3. d.cr[p].init = d.current /\ d.cr[p].st = "approved"
  BY DEF VerifyCR
<1>4. Approved(d, p)
  <2>1. PICK s \in Sets : d.cr[p].appr[s].st = "approved"
    BY <1>1, <1>3 DEF Base, DecisionsAreSigned
  <2>2. d.cr[p].appr[s].sig # NoSig /\ d.cr[p].appr[s].sig.action = "approved"
    BY <1>1, <2>1 DEF Base, DecisionsAreSigned
  <2>3. d.cr[p].appr[s].sig.for = p /\ d.cr[p].appr[s].sig.rev = p
    BY <2>1 DEF VerifyCR, Required
  <2> QED BY <1>3, <2>1, <2>2, <2>3 DEF Approved
<1> HIDE DEF D, p
<1>5. \A r \in Revs : Promoted(D, r) <=> Promoted(d, r) \/ r = p
  BY <1>1, <1>2 DEF Promoted, Live, Base, OneLive, LiveStates
<1>6. LiveAsDesired(D) /\ OneLive(D)
  BY <1>1, <1>2 DEF LiveAsDesired, OneLive, Live, Base, LiveStates
<1>7. NothingBefore(D)
  <2>1. None \notin Revs
    BY NumRevsAssumption DEF Revs, None
  <2> QED BY <1>1, <1>2, <2>1 DEF NothingBefore
<1>8. RequestAfterStart(D)
  BY <1>1, <1>2 DEF RequestAfterStart, Base, LiveStates
<1>9. DecisionsAreSigned(D)
  BY <1>2, SMTT(20) DEF DecisionsAreSigned, Base
<1>10. PromotedApproved(D)
  BY <1>2, <1>4, <1>5 DEF PromotedApproved, Approved, Base
<1>11. Linear(D)
  <2>1. ASSUME NEW r \in Revs, Promoted(D, r), D.cr[r].init # None
        PROVE  D.rev[D.cr[r].init].st = "superseded"
    <3>1. D.cr[r].init \in Revs
      BY <1>2, <2>1 DEF Rows, ChangeRequest
    <3>2. CASE r = p
      <4>1. d.current \in Revs /\ d.current # p
        BY <1>1, <1>2, <1>3, <3>1, <3>2 DEF Base, OneLive, Promoted
      <4> QED BY <1>2, <1>3, <3>2, <4>1
    <3>3. CASE r # p
      <4>1. d.rev[d.cr[r].init].st = "superseded"
        BY <1>2, <1>5, <2>1, <3>3 DEF Base, Linear
      <4>2. d.cr[r].init # p
        BY <1>1, <4>1 DEF Promoted
      <4> QED BY <1>2, <3>1, <4>1, <4>2
    <3> QED BY <3>2, <3>3
  <2>2. ASSUME NEW r \in Revs, Promoted(d, r)
        PROVE  d.cr[r].init # d.current
    <3>1. CASE d.current = None
      BY <2>2, <3>1, NumRevsAssumption
      DEF Base, NothingBefore, OneLive, Promoted, Revs, None
    <3>2. CASE d.current # None
      <4>1. d.current \in Revs /\ d.rev[d.current].st \in LiveStates
        BY <3>2 DEF Base, Rows, OneLive, Live
      <4> QED BY <2>2, <3>2, <4>1 DEF Base, Linear, LiveStates
    <3> QED BY <3>1, <3>2
  <2>3. ASSUME NEW r \in Revs, NEW q \in Revs \ {r}, Promoted(D, r), Promoted(D, q)
        PROVE  D.cr[q].init # D.cr[r].init
    BY <1>2, <1>3, <1>5, <2>2, <2>3 DEF Base, Linear
  <2> QED BY <2>1, <2>3 DEF Linear
<1>12. StateAgrees(D)
  <2>1. p # None
    BY DEF p
  <2> QED BY <1>1, <1>2, <2>1 DEF StateAgrees
<1>13. Base(D)
  BY <1>2, <1>6, <1>7, <1>8, <1>9, <1>10, <1>11, <1>12 DEF Base
<1> QED
  BY <1>13 DEF D, p

-----------------------------------------------------------------------------
(* One revision that is not and never was in force changes, with its CR.    *)
LEMMA OneMovesKeepsBase ==
  ASSUME NEW d, NEW D, NEW p \in Revs, Base(d),
         D \in Rows, D.current = d.current,
         ~Promoted(d, p), ~Promoted(D, p),
         \A r \in Revs \ {p} : D.rev[r] = d.rev[r] /\ D.cr[r] = d.cr[r],
         RequestAfterStart(D), DecisionsAreSigned(D), StateAgrees(D)
  PROVE  Base(D)
<1>1. \A r \in Revs : Promoted(D, r) => r # p /\ Promoted(d, r)
  BY DEF Promoted, Live
<1>2. LiveAsDesired(D) /\ OneLive(D) /\ NothingBefore(D)
  BY DEF LiveAsDesired, OneLive, NothingBefore, Base, Live, Promoted
<1>3. PromotedApproved(D)
  BY <1>1 DEF PromotedApproved, Approved, Base
<1>4. Linear(D)
  <2>1. ASSUME NEW r \in Revs, Promoted(D, r), D.cr[r].init # None
        PROVE  D.rev[D.cr[r].init].st = "superseded"
    <3>1. D.cr[r] = d.cr[r] /\ D.cr[r].init \in Revs
      BY <1>1, <2>1 DEF Rows, ChangeRequest
    <3>2. d.rev[d.cr[r].init].st = "superseded"
      BY <1>1, <2>1, <3>1 DEF Base, Linear
    <3> QED BY <3>1, <3>2 DEF Promoted
  <2> QED BY <1>1, <2>1 DEF Linear, Base
<1> QED
  BY <1>2, <1>3, <1>4 DEF Base

(* Only the state of the domain changes. *)
LEMMA RestateKeepsBase ==
  ASSUME NEW d, Base(d), NEW state \in DomainStates,
         StateAgrees([d EXCEPT !.state = state])
  PROVE  Base([d EXCEPT !.state = state])
<1> DEFINE D == [d EXCEPT !.state = state]
<1>1. /\ D \in Rows /\ D.rev = d.rev /\ D.cr = d.cr /\ D.current = d.current
      /\ StateAgrees(D)
  BY DEF Base, Rows
<1> HIDE DEF D
<1>2. \A r \in Revs : Promoted(D, r) <=> Promoted(d, r)
  BY <1>1 DEF Promoted, Live
<1>3. Base(D)
  BY <1>1, <1>2 DEF Base, LiveAsDesired, OneLive, NothingBefore,
     RequestAfterStart, DecisionsAreSigned, PromotedApproved, Approved, Linear, Live
<1> QED
  BY <1>3 DEF D

LEMMA CurrentIsLive ==
  ASSUME NEW d, Base(d), d.current # None
  PROVE  /\ d.current \in Revs /\ d.rev[d.current].st \in LiveStates
         /\ d.rev[d.current].desired = d.rev[d.current].st
  BY DEF Base, Rows, OneLive, LiveAsDesired, Live

LEMMA DeclineKeepsBase ==
  ASSUME NEW d, Base(d), NEW p \in Open(d), d.rev[p].st = "pendingapproval"
  PROVE  /\ Base(Decline(d, p))
         /\ Decline(d, p).state \in LiveStates \cup {"new", "newexternal"}
<1> DEFINE state == IF d.current # None THEN d.rev[d.current].st
                    ELSE IF d.state = "externalpendingapproval" THEN "newexternal"
                    ELSE "new"
           D == [d EXCEPT !.rev[p].st = "approvalfailed", !.state = state]
<1>1. Decline(d, p) = D
  BY DEF Decline
<1>2. p \in Revs /\ d \in Rows /\ d.rev \in [Revs -> Revision]
  BY DEF Open, Base, Rows
<1>3. /\ d.current # None => state \in LiveStates /\ state = d.rev[d.current].st
                             /\ d.current \in Revs /\ d.current # p
      /\ d.current = None => state \in {"new", "newexternal"}
  BY CurrentIsLive DEF LiveStates
<1>4. state \in LiveStates \cup {"new", "newexternal"}
  BY <1>3
<1> HIDE DEF state
<1>5. /\ D \in Rows /\ D.current = d.current /\ D.state = state /\ D.cr = d.cr
      /\ D.rev[p].st = "approvalfailed"
      /\ \A r \in Revs \ {p} : D.rev[r] = d.rev[r]
  BY <1>2, <1>4, ZenonT(30) DEF Rows, Revision, RevStates, DomainStates
<1> HIDE DEF D
<1>6. ~Promoted(d, p) /\ ~Promoted(D, p)
  BY <1>5 DEF Promoted, Live, LiveStates
<1>7. RequestAfterStart(D) /\ DecisionsAreSigned(D)
  BY <1>5 DEF Base, RequestAfterStart, DecisionsAreSigned
<1>8. StateAgrees(D)
  BY <1>3, <1>5 DEF StateAgrees
<1>9. Base(D)
  BY <1>2, <1>5, <1>6, <1>7, <1>8, OneMovesKeepsBase
<1> QED
  BY <1>1, <1>4, <1>5, <1>9

LEMMA RevertKeepsBase ==
  ASSUME NEW d, Base(d)
  PROVE  /\ Base(Revert(d))
         /\ Revert(d).state \in LiveStates \cup {"new", "newexternal"}
<1> DEFINE state == IF d.current # None THEN d.rev[d.current].desired
                    ELSE IF d.state = "pendingnewexternal" THEN "newexternal"
                    ELSE "new"
           D == [d EXCEPT !.state = state]
<1>1. Revert(d) = D
  BY DEF Revert
<1>2. /\ d.current # None => state \in LiveStates /\ state = d.rev[d.current].st
      /\ d.current = None => state \in {"new", "newexternal"}
  BY CurrentIsLive
<1>3. state \in LiveStates \cup {"new", "newexternal"}
  BY <1>2
<1> HIDE DEF state
<1>4. D.rev = d.rev /\ D.current = d.current /\ D.state = state
  BY DEF Base, Rows
<1>5. StateAgrees(D)
  BY <1>2, <1>4 DEF StateAgrees
<1>6. Base(D)
  BY <1>3, <1>5, RestateKeepsBase DEF DomainStates
<1> QED
  BY <1>1, <1>3, <1>4, <1>6

(* The update of the domain keeps the invariant, and whatever state it       *)
(* leaves pending has its cause.                                            *)
LEMMA DomainUpdateStateKeeps ==
  ASSUME NEW e, NEW d, Base(d)
  PROVE  Base(DomainUpdateState(e, d)) /\ Cause(DomainUpdateState(e, d))
<1> DEFINE p == Pending(d)
           D == DomainUpdateState(e, d)
<1>1. \A x : x.state \in LiveStates \cup {"new", "newexternal"} => Cause(x)
  BY DEF Cause, PendingStates, LiveStates
<1>2. CASE d.state \notin PendingStates
  BY <1>2 DEF DomainUpdateState, Cause
<1>3. CASE d.state \in PendingStates /\ (p = None \/ d.cr[p].st = "none")
  <2>1. D = Revert(d)
    BY <1>3 DEF DomainUpdateState
  <2> QED BY <1>1, <2>1, RevertKeepsBase
<1>4. CASE d.state \in PendingStates /\ ~(p = None \/ d.cr[p].st = "none")
  <2>1. p \in Open(d) /\ p \in Revs
    BY <1>4, PendingIsRevision DEF Open
  <2>2. d.rev[p].st = "pendingapproval"
    BY <1>4, <2>1 DEF Base, RequestAfterStart, Open
  <2>3. Cause(d)
    BY <2>1, <2>2 DEF Cause
  <2>4. CASE VerifyCR(e, d) /\ d.cr[p].st = "approved"
    <3>1. D = Promote(d, p)
      BY <1>4, <2>4 DEF DomainUpdateState
    <3>2. Base(D)
      BY <1>4, <2>4, <3>1, PromoteKeepsBase
    <3>3. D.state \in LiveStates
      <4>1. D.state = d.rev[p].desired
        BY <2>1, <3>1, PromoteEffect
      <4> QED BY <2>1, <4>1 DEF Base, Rows, Revision
    <3> QED BY <1>1, <3>2, <3>3
  <2>5. CASE VerifyCR(e, d) /\ d.cr[p].st = "declined"
    <3>1. D = Decline(d, p)
      BY <1>4, <2>5 DEF DomainUpdateState
    <3> QED BY <1>1, <2>1, <2>2, <3>1, DeclineKeepsBase
  <2>6. CASE ~VerifyCR(e, d) \/ d.cr[p].st \notin {"approved", "declined"}
    <3>1. D = d
      BY <1>4, <2>6 DEF DomainUpdateState
    <3> QED BY <2>3, <3>1
  <2> QED BY <2>4, <2>5, <2>6
<1> QED
  BY <1>2, <1>3, <1>4

(* A promotion is one step of the line; a decline and a revert are none.    *)
LEMMA PromoteEvolves ==
  ASSUME NEW e, NEW d, Base(d), Pending(d) # None, VerifyCR(e, d),
         d.cr[Pending(d)].st = "approved", d.state \in PendingStates
  PROVE  Evolves(d, Promote(d, Pending(d)))
<1> DEFINE p == Pending(d)
           D == Promote(d, p)
<1>1. p \in Open(d) /\ p \in Revs /\ d.rev[p].desired \in LiveStates
      /\ d.rev[p].st \in {"new", "pendingapproval"}
  BY PendingIsRevision DEF Open, Base, Rows, Revision
<1>2. /\ D.cr = d.cr /\ D.current = p /\ D.state = d.rev[p].desired
      /\ \A r \in Revs : D.rev[r].st = IF r = p THEN d.rev[p].desired
                                       ELSE IF r = d.current THEN "superseded"
                                       ELSE d.rev[r].st
  BY <1>1, PromoteEffect
<1>3. d.cr[p].init = d.current /\ d.cr[p].st = "approved"
  BY DEF VerifyCR
<1>4. d.current # None => d.current \in Revs /\ d.rev[d.current].st \in LiveStates
  BY CurrentIsLive
<1> HIDE DEF D, p
<1>5. p # d.current
  BY <1>1, <1>4, NumRevsAssumption DEF LiveStates, Revs, None
<1>6. KeepsTerminal(d, D)
  <2>1. ASSUME NEW r \in Revs,
               d.rev[r].st \in {"cancelled", "approvalfailed", "superseded"}
        PROVE  r # p /\ r # d.current
    BY <1>1, <1>4, <2>1, NumRevsAssumption DEF LiveStates, Revs, None
  <2> QED BY <1>2, <2>1 DEF KeepsTerminal
<1>7. TakesOver(d, D)
  <2>1. p \in Revs \ (Superseded(d) \cup {d.current})
    BY <1>1, <1>5 DEF Superseded
  <2>2. Superseded(D) = Superseded(d) \cup ({d.current} \ {None})
    <3>1. None \notin Revs
      BY NumRevsAssumption DEF Revs, None
    <3> QED BY <1>1, <1>2, <1>4, <1>5, <3>1 DEF Superseded, LiveStates
  <2> QED BY <1>2, <1>3, <2>1, <2>2 DEF TakesOver
<1>8. Evolves(d, D)
  BY <1>1, <1>2, <1>6, <1>7 DEF Evolves, SameRequests, PendingStates, LiveStates
<1> QED
  BY <1>8 DEF D, p

LEMMA DeclineEvolves ==
  ASSUME NEW d, Base(d), NEW p \in Open(d), d.rev[p].st = "pendingapproval"
  PROVE  Evolves(d, Decline(d, p))
<1> DEFINE D == Decline(d, p)
<1>1. /\ D.cr = d.cr /\ D.current = d.current
      /\ \A r \in Revs : D.rev[r].st = IF r = p THEN "approvalfailed" ELSE d.rev[r].st
  BY DEF Decline, Base, Rows, Revision, Open
<1>2. D.state \notin PendingStates
  BY DeclineKeepsBase DEF LiveStates, PendingStates
<1> HIDE DEF D
<1>3. Evolves(d, D)
  BY <1>1, <1>2 DEF Evolves, KeepsTerminal, SameRequests, SameLine, Superseded
<1> QED
  BY <1>3 DEF D

LEMMA RevertEvolves ==
  ASSUME NEW d, Base(d)
  PROVE  Evolves(d, Revert(d))
<1> DEFINE D == Revert(d)
<1>1. D.cr = d.cr /\ D.current = d.current /\ D.rev = d.rev
  BY DEF Revert, Base, Rows
<1>2. D.state \notin PendingStates
  BY RevertKeepsBase DEF LiveStates, PendingStates
<1> HIDE DEF D
<1>3. Evolves(d, D)
  BY <1>1, <1>2 DEF Evolves, KeepsTerminal, SameRequests, SameLine, Superseded
<1> QED
  BY <1>3 DEF D

LEMMA DomainUpdateStateEvolves ==
  ASSUME NEW e, NEW d, Base(d)
  PROVE  Evolves(d, DomainUpdateState(e, d))
<1> DEFINE p == Pending(d)
           D == DomainUpdateState(e, d)
<1>1. CASE d.state \in PendingStates /\ (p = None \/ d.cr[p].st = "none")
  <2>1. D = Revert(d)
    BY <1>1 DEF DomainUpdateState
  <2> QED BY <2>1, RevertEvolves
<1>2. CASE d.state \in PendingStates /\ ~(p = None \/ d.cr[p].st = "none")
           /\ VerifyCR(e, d) /\ d.cr[p].st = "approved"
  <2>1. D = Promote(d, p)
    BY <1>2 DEF DomainUpdateState
  <2> QED BY <1>2, <2>1, PromoteEvolves
<1>3. CASE d.state \in PendingStates /\ ~(p = None \/ d.cr[p].st = "none")
           /\ VerifyCR(e, d) /\ d.cr[p].st = "declined"
  <2>1. D = Decline(d, p)
    BY <1>3 DEF DomainUpdateState
  <2>2. p \in Open(d) /\ p \in Revs
    BY <1>3, PendingIsRevision DEF Open
  <2>3. d.rev[p].st = "pendingapproval"
    BY <1>3, <2>2 DEF Base, RequestAfterStart, Open
  <2> QED BY <2>1, <2>2, <2>3, DeclineEvolves
<1>4. CASE \/ d.state \notin PendingStates
           \/ /\ ~(p = None \/ d.cr[p].st = "none")
              /\ ~VerifyCR(e, d) \/ d.cr[p].st \notin {"approved", "declined"}
  <2>1. D = d
    BY <1>4 DEF DomainUpdateState
  <2> QED BY <2>1, EvolvesReflexive
<1> QED
  BY <1>1, <1>2, <1>3, <1>4

-----------------------------------------------------------------------------
(* The updates of one CR, and those a promoted approver set makes.          *)
LEMMA FollowsItself ==
  ASSUME NEW c \in ChangeRequest, NEW pending
  PROVE  CRFollows(c, c, pending)
BY DEF CRFollows, ApprovalsFollow, ApprovalFollows, ChangeRequest, Approval,
       CRStates, Final

LEMMA HasPendingIsBoolean ==
  ASSUME NEW d PROVE HasPendingRevision(d) \in BOOLEAN
BY DEF HasPendingRevision

LEMMA OneCRFollows ==
  ASSUME NEW d, Base(d), NEW r \in Revs, NEW c,
         CRFollows(d.cr[r], c, HasPendingRevision(d))
  PROVE  /\ Base([d EXCEPT !.cr[r] = c])
         /\ Evolves(d, [d EXCEPT !.cr[r] = c])
<1> DEFINE D == [d EXCEPT !.cr[r] = c]
<1>1. c \in ChangeRequest /\ d \in Rows /\ d.cr \in [Revs -> ChangeRequest]
  BY DEF CRFollows, Base, Rows
<1>2. /\ D \in Rows /\ D.rev = d.rev /\ D.state = d.state /\ D.current = d.current
      /\ D.cr[r] = c /\ \A q \in Revs \ {r} : D.cr[q] = d.cr[q]
  BY <1>1 DEF Rows
<1> HIDE DEF D
<1>3. \A q \in Revs : CRFollows(d.cr[q], D.cr[q], HasPendingRevision(d))
  BY <1>1, <1>2, FollowsItself
<1>4. RowsFollow(d, D)
  BY <1>2, <1>3 DEF RowsFollow
<1>5. Base(D) /\ Evolves(d, D)
  BY <1>1, <1>4, RowsFollowKeepsBase, RowsFollowEvolves
<1> QED
  BY <1>5 DEF D

LEMMA RefreshCRKeeps ==
  ASSUME NEW e, NEW d, Base(d), NEW r \in Revs
  PROVE  LET D == RefreshCR(e, d, r) IN Base(D) /\ Cause(D) /\ Evolves(d, D)
<1> DEFINE c == UpdateApprovals(e, d.cr[r], HasPendingRevision(d), FALSE)
           x == [d EXCEPT !.cr[r] = c]
           D == DomainUpdateState(e, x)
<1>1. d.cr[r] \in ChangeRequest
  BY DEF Base, Rows
<1>2. CRFollows(d.cr[r], c, HasPendingRevision(d))
  BY <1>1, HasPendingIsBoolean, UpdateApprovalsFollows
<1>3. Base(x) /\ Evolves(d, x)
  BY <1>2, OneCRFollows
<1> HIDE DEF x
<1>4. Base(D) /\ Cause(D) /\ Evolves(x, D)
  BY <1>3, DomainUpdateStateKeeps, DomainUpdateStateEvolves
<1>5. Base(D) /\ Cause(D) /\ Evolves(d, D)
  BY <1>3, <1>4, EvolvesTransitive
<1> QED
  BY <1>5 DEF RefreshCR, x

LEMMA UpdateCRKeeps ==
  ASSUME NEW e, NEW d, Base(d), Cause(d), NEW r \in Revs
  PROVE  LET D == UpdateCR(e, d, r) IN Base(D) /\ Cause(D) /\ Evolves(d, D)
<1> DEFINE c == CRUpdateState(e, d.cr[r], HasPendingRevision(d), FALSE)
           x == [d EXCEPT !.cr[r] = c]
           D == DomainUpdateState(e, x)
<1>1. d.cr[r] \in ChangeRequest
  BY DEF Base, Rows
<1>2. CRFollows(d.cr[r], c, HasPendingRevision(d))
  BY <1>1, HasPendingIsBoolean, CRUpdateStateFollows
<1>3. Base(x) /\ Evolves(d, x)
  BY <1>2, OneCRFollows
<1> HIDE DEF x
<1>4. Base(D) /\ Cause(D) /\ Evolves(x, D)
  BY <1>3, DomainUpdateStateKeeps, DomainUpdateStateEvolves
<1>5. Base(D) /\ Cause(D) /\ Evolves(d, D)
  BY <1>3, <1>4, EvolvesTransitive
<1> QED
  BY <1>5, EvolvesReflexive DEF UpdateCR, x

(* One approval of a CR is saved with its hook, outside an UpdateApprovals. *)
LEMMA SteppedFollows ==
  ASSUME NEW e, NEW nested, NEW c \in ChangeRequest, NEW s \in Sets, NEW pending
  PROVE  CRFollows(c, [c EXCEPT !.appr[s].st =
           ApprovalUpdateState(e, c.st, c.appr, s, nested)], pending)
<1> DEFINE x == ApprovalUpdateState(e, c.st, c.appr, s, nested)
           A == [c.appr EXCEPT ![s].st = x]
<1>1. c.appr \in [Sets -> Approval]
  BY DEF ChangeRequest
<1>2. ApprovalFollows(c.appr[s].st, x)
  BY <1>1, ApprovalUpdateStateFollows
<1> HIDE DEF x
<1>3. \A t \in Sets : ApprovalFollows(c.appr[t].st, c.appr[t].st)
  BY <1>1 DEF ApprovalFollows, Approval, Final
<1>4. ApprovalsFollow(c.appr, A)
  <2>1. A \in [Sets -> Approval]
    BY <1>1, <1>2 DEF Approval, ApprovalFollows
  <2>2. \A t \in Sets : /\ A[t].sig = c.appr[t].sig
                        /\ A[t].st = IF t = s THEN x ELSE c.appr[t].st
    BY <1>1 DEF Approval
  <2> HIDE DEF A
  <2> QED BY <1>2, <1>3, <2>1, <2>2 DEF ApprovalsFollow
<1>5. [c EXCEPT !.appr = A] = [c EXCEPT !.appr[s].st = x]
  BY DEF ChangeRequest
<1> HIDE DEF A
<1>6. CRFollows(c, [c EXCEPT !.appr = A], pending)
  BY <1>4, ApprovalsFollowInCR
<1> QED
  BY <1>5, <1>6 DEF x

LEMMA ApproverSetCascadeKeeps ==
  ASSUME NEW e, NEW d, Base(d), Cause(d), NEW s \in Sets, NEW nested
  PROVE  LET D == ApproverSetCascade(e, d, s, nested) IN
         Base(D) /\ Cause(D) /\ Evolves(d, D)
<1> DEFINE pending == HasPendingRevision(d)
           touched(r) == d.cr[r].appr[s].st \in Blocked \cup {"pendingapproval"}
           stepped(r) == [d.cr[r] EXCEPT !.appr[s].st =
             ApprovalUpdateState(e, d.cr[r].st, d.cr[r].appr, s, nested)]
           reaches(r) == touched(r) /\ Cascades(e, d.cr[r], stepped(r).appr)
           row(r) == IF reaches(r) THEN CRUpdateState(e, stepped(r), pending, nested)
                     ELSE IF touched(r) THEN stepped(r)
                     ELSE d.cr[r]
           rows == [d EXCEPT !.cr = [r \in Revs |-> row(r)]]
           D == ApproverSetCascade(e, d, s, nested)
<1>1. D = rows \/ D = DomainUpdateState(e, rows)
  BY Zenon DEF ApproverSetCascade
<1>2. ASSUME NEW r \in Revs
      PROVE  CRFollows(d.cr[r], row(r), pending)
  <2>1. d.cr[r] \in ChangeRequest
    BY DEF Base, Rows
  <2>2. CRFollows(d.cr[r], d.cr[r], pending)
    BY <2>1, FollowsItself
  <2>3. CRFollows(d.cr[r], stepped(r), pending)
    BY <2>1, SteppedFollows
  <2>4. stepped(r) \in ChangeRequest
    BY <2>3 DEF CRFollows
  <2> HIDE DEF stepped
  <2>5. CRFollows(stepped(r), CRUpdateState(e, stepped(r), pending, nested), pending)
    BY <2>4, HasPendingIsBoolean, CRUpdateStateFollows
  <2>6. CRFollows(d.cr[r], CRUpdateState(e, stepped(r), pending, nested), pending)
    <3> HIDE DEF pending
    <3> QED BY <2>1, <2>3, <2>5, CRFollowsTransitive
  <2> QED BY <2>2, <2>3, <2>6
<1>3. RowsFollow(d, rows)
  <2> HIDE DEF row
  <2>1. \A r \in Revs : row(r) \in ChangeRequest
    BY <1>2 DEF CRFollows
  <2>2. rows \in Rows /\ rows.rev = d.rev /\ rows.state = d.state
        /\ rows.current = d.current /\ \A r \in Revs : rows.cr[r] = row(r)
    BY <2>1 DEF Base, Rows
  <2> HIDE DEF rows
  <2> QED BY <1>2, <2>2 DEF RowsFollow
<1> HIDE DEF rows
<1>4. Base(rows) /\ Evolves(d, rows)
  BY <1>3, RowsFollowKeepsBase, RowsFollowEvolves DEF Base
<1>5. Cause(rows)
  BY <1>3 DEF RowsFollow, Cause
<1>6. Base(D) /\ Cause(D) /\ Evolves(d, D)
  <2> HIDE DEF D
  <2> QED BY <1>1, <1>4, <1>5, DomainUpdateStateKeeps, DomainUpdateStateEvolves,
             EvolvesTransitive
<1> QED
  BY <1>6

-----------------------------------------------------------------------------
(* The requests. *)
LEMMA InitHolds == Init => Inv
<1> SUFFICES ASSUME NEW state \in {"new", "newexternal"}, db = NoRows(state),
                    roster \in Rosters
             PROVE  Inv
  BY DEF Init
<1>1. /\ db.state = state /\ db.current = None
      /\ \A r \in Revs : /\ db.rev[r].st = "unused" /\ db.cr[r].st = "none"
                         /\ \A s \in Sets : db.cr[r].appr[s].st = "none"
  BY DEF NoRows
<1>2. db \in Rows
  BY DEF NoRows, Rows, Revision, RevStates, LiveStates, ChangeRequest, CRStates,
         Approval, ApprovalStates, DomainStates
<1>3. \A r \in Revs : ~Promoted(db, r) /\ r # None
  BY <1>1, NumRevsAssumption DEF Promoted, Live, LiveStates, Revs, None
<1>4. Base(db)
  BY <1>1, <1>2, <1>3
  DEF Base, LiveAsDesired, OneLive, NothingBefore, RequestAfterStart, Promoted,
      DecisionsAreSigned, PromotedApproved, Linear, StateAgrees
<1> QED
  BY <1>1, <1>4 DEF Inv, Cause, PendingStates

LEMMA EditDomainKeeps ==
  ASSUME Inv, NEW state \in {"new", "newexternal"}, EditDomain(state)
  PROVE  Inv' /\ Step(db, db')
<1>1. db' = [db EXCEPT !.state = state] /\ Base(db) /\ roster' = roster
  BY DEF EditDomain, Inv
<1>2. db'.state = state /\ db'.current = db.current /\ db'.rev = db.rev
  BY <1>1 DEF Base, Rows
<1>3. db.current = None
  BY <1>1, CurrentIsLive DEF EditDomain, Base, StateAgrees, PendingForm, LiveStates
<1>4. StateAgrees(db')
  BY <1>2, <1>3 DEF StateAgrees
<1>5. Base(db')
  BY <1>1, <1>4, RestateKeepsBase DEF DomainStates
<1>6. Step(db, db')
  <2>1. db'.cr = db.cr
    BY <1>1 DEF Base, Rows
  <2>2. Edits(db, db')
    BY <1>2, <2>1 DEF Edits, KeepsTerminal, Submits, SameLine, Superseded
  <2> QED BY <2>2, EvolvesReflexive, EditThenEvolve
<1> QED
  BY <1>1, <1>2, <1>5, <1>6 DEF Inv, Cause, PendingStates

(* A revision is written before approval is asked for. *)
LEMMA DraftKeeps ==
  ASSUME NEW d, Base(d), Cause(d), NEW r \in Revs, NEW D,
         d.rev[r].st \in {"unused", "new"},
         NEW x \in Revision, x.st = "new",
         D = [d EXCEPT !.rev[r] = x]
  PROVE  Base(D) /\ Cause(D) /\ Step(d, D)
<1>1. /\ D \in Rows /\ D.current = d.current /\ D.state = d.state /\ D.cr = d.cr
      /\ D.rev[r] = x /\ \A q \in Revs \ {r} : D.rev[q] = d.rev[q]
  BY DEF Base, Rows
<1>2. ~Promoted(d, r) /\ ~Promoted(D, r)
  BY <1>1 DEF Promoted, Live, LiveStates
<1>3. RequestAfterStart(D) /\ DecisionsAreSigned(D)
  BY <1>1 DEF Base, RequestAfterStart, DecisionsAreSigned
<1>4. StateAgrees(D)
  <2>1. d.current # None => d.current # r
    BY <1>2, CurrentIsLive DEF Promoted, Live
  <2> QED BY <1>1, <2>1, CurrentIsLive DEF Base, StateAgrees
<1>5. Base(D)
  <2>1. PICK y : y = D
    OBVIOUS
  <2>2. /\ y \in Rows /\ y.current = d.current
        /\ \A q \in Revs \ {r} : y.rev[q] = d.rev[q] /\ y.cr[q] = d.cr[q]
    BY <1>1, <2>1
  <2>3. /\ ~Promoted(d, r) /\ ~Promoted(y, r)
        /\ RequestAfterStart(y) /\ DecisionsAreSigned(y) /\ StateAgrees(y)
    BY <1>2, <1>3, <1>4, <2>1
  <2>4. Base(y)
    BY <2>2, <2>3, OneMovesKeepsBase
  <2> QED BY <2>1, <2>4
<1>6. Cause(D)
  BY <1>1 DEF Cause
<1>7. Step(d, D)
  <2>1. Edits(d, D)
    BY <1>1 DEF Edits, KeepsTerminal, Submits, SameLine, Superseded
  <2> QED BY <2>1, EvolvesReflexive, EditThenEvolve
<1> QED
  BY <1>5, <1>6, <1>7

LEMMA CreateRevisionKeeps ==
  ASSUME Inv, NEW r \in Revs, NEW desired \in Wanted,
         NEW req \in SUBSET (Sets \ {FinalSet}),
         CreateRevision(r, desired, req)
  PROVE  Inv' /\ Step(db, db')
<1> DEFINE x == [st |-> "new", desired |-> desired, req |-> req \cup {FinalSet}]
<1>1. x \in Revision /\ x.st = "new"
  BY WantedAssumption, FinalSetAssumption DEF Revision, RevStates
<1>2. /\ db' = [db EXCEPT !.rev[r] = x] /\ db.rev[r].st = "unused"
      /\ Base(db) /\ Cause(db) /\ roster' \in Rosters
  BY DEF CreateRevision, Inv
<1> HIDE DEF x
<1>3. Base(db') /\ Cause(db') /\ Step(db, db')
  BY <1>1, <1>2, DraftKeeps
<1> QED
  BY <1>2, <1>3 DEF Inv

LEMMA EditRevisionKeeps ==
  ASSUME Inv, NEW r \in Revs, NEW desired \in Wanted,
         NEW req \in SUBSET (Sets \ {FinalSet}),
         EditRevision(r, desired, req)
  PROVE  Inv' /\ Step(db, db')
<1> DEFINE x == [db.rev[r] EXCEPT !.desired = desired, !.req = req \cup {FinalSet}]
<1>1. /\ db' = [db EXCEPT !.rev[r] = x]
      /\ db.rev[r].st = "new" /\ Base(db) /\ Cause(db) /\ roster' \in Rosters
  BY DEF EditRevision, Inv
<1>2. x \in Revision /\ x.st = "new"
  <2>1. db.rev[r] \in Revision
    BY <1>1 DEF Base, Rows
  <2> QED
    BY <1>1, <2>1, WantedAssumption, FinalSetAssumption DEF Revision
<1> HIDE DEF x
<1>3. Base(db') /\ Cause(db') /\ Step(db, db')
  BY <1>1, <1>2, DraftKeeps
<1> QED
  BY <1>1, <1>3 DEF Inv

(* The rows in which approval has been asked for, and the whole request. *)
Started(d, r) ==
  LET x == [d EXCEPT !.rev[r].st = "pendingapproval", !.cr[r] = NewCR(d)]
  IN  [x EXCEPT !.state = StartedState(x)]

LEMMA StartedKeepsBase ==
  ASSUME NEW d, Base(d), NEW r \in Revs, d.rev[r].st = "new"
  PROVE  LET D == Started(d, r) IN
         /\ Base(D) /\ Edits(d, D)
         /\ D.rev[r].st = "pendingapproval" /\ D.rev[r].req = d.rev[r].req
         /\ D.cr[r] = NewCR(d)
         /\ \A q \in Revs \ {r} : D.rev[q] = d.rev[q] /\ D.cr[q] = d.cr[q]
<1> DEFINE c == NewCR(d)
           x == [d EXCEPT !.rev[r].st = "pendingapproval", !.cr[r] = c]
           D == [x EXCEPT !.state = StartedState(x)]
<1>0. Started(d, r) = D
  BY DEF Started
<1>1. /\ d \in Rows /\ d.rev \in [Revs -> Revision] /\ d.cr \in [Revs -> ChangeRequest]
  BY DEF Base, Rows
<1>2. /\ c \in ChangeRequest /\ c.st = "pendingapproval"
      /\ c.init = d.current
      /\ \A s \in Sets : c.appr[s].st \in {"new", "none"}
  BY <1>1 DEF NewCR, ChangeRequest, CRStates, Approval, ApprovalStates, Rows
<1> HIDE DEF c
<1>3. /\ x.current = d.current /\ x \in Rows
      /\ x.rev[r].st = "pendingapproval" /\ x.rev[r].desired = d.rev[r].desired
      /\ x.rev[r].req = d.rev[r].req
      /\ x.cr[r] = c
      /\ \A q \in Revs \ {r} : x.rev[q] = d.rev[q] /\ x.cr[q] = d.cr[q]
  BY <1>1, <1>2 DEF Rows, Revision, RevStates
<1> HIDE DEF x
<1>4. /\ StartedState(x) \in DomainStates
      /\ x.current = None => StartedState(x) \in {"pendingnew", "pendingnewexternal"}
      /\ x.current # None => StartedState(x) = PendingForm(x.rev[x.current].st)
  <2>1. x.current # None =>
          /\ x.current \in Revs /\ x.current # r
          /\ x.rev[x.current].st \in LiveStates
          /\ x.rev[x.current].desired = x.rev[x.current].st
    BY <1>1, <1>3, CurrentIsLive DEF LiveStates
  <2> QED BY <2>1 DEF StartedState, PendingForm, DomainStates, PendingStates, LiveStates
<1>5. /\ D.current = x.current /\ D \in Rows /\ D.state = StartedState(x)
      /\ D.rev = x.rev /\ D.cr = x.cr
  BY <1>3, <1>4 DEF Rows
<1> HIDE DEF D
<1>6. StateAgrees(D)
  BY <1>4, <1>5 DEF StateAgrees
<1>7. RequestAfterStart(D) /\ DecisionsAreSigned(D)
  BY <1>1, <1>2, <1>3, <1>5 DEF Base, RequestAfterStart, DecisionsAreSigned
<1>8. ~Promoted(d, r) /\ ~Promoted(D, r)
  BY <1>1, <1>3, <1>5 DEF Promoted, Live, LiveStates
<1>9. Base(D)
  BY <1>1, <1>3, <1>5, <1>6, <1>7, <1>8, OneMovesKeepsBase
<1>10. Edits(d, D)
  <2>1. d.cr[r].st = "none" /\ \A s \in Sets : d.cr[r].appr[s].st = "none"
    BY <1>1 DEF Base, RequestAfterStart, DecisionsAreSigned
  <2>2. KeepsTerminal(d, D)
    BY <1>1, <1>3, <1>5, <2>1 DEF KeepsTerminal, Final
  <2>3. Submits(d, D)
    BY <1>2, <1>3, <1>5, <2>1 DEF Submits
  <2> QED BY <1>1, <1>3, <1>5, <2>2, <2>3 DEF Edits, SameLine, Superseded
<1> QED
  BY <1>0, <1>3, <1>5, <1>9, <1>10 DEF c

LEMMA StartApprovalProcessKeeps ==
  ASSUME Inv, NEW r \in Revs, StartApprovalProcess(r)
  PROVE  Inv' /\ Step(db, db')
<1> DEFINE D == Started(db, r)
<1>1. /\ db.rev[r].st = "new" /\ roster' \in Rosters
      /\ db' = RefreshCR(roster, D, r)
  BY DEF Inv, StartApprovalProcess, Started
<1>2. Base(D) /\ Edits(db, D)
  BY <1>1, StartedKeepsBase DEF Inv
<1> HIDE DEF D
<1>3. Base(db') /\ Cause(db') /\ Evolves(D, db')
  BY <1>1, <1>2, RefreshCRKeeps
<1>4. Step(db, db')
  BY <1>2, <1>3, EditThenEvolve
<1> QED
  BY <1>1, <1>3, <1>4 DEF Inv

(* The rows in which a revision has been cancelled, and the whole request. *)
Cancelled(d, r) == [d EXCEPT !.rev[r].st = "cancelled"]

LEMMA CancelledKeepsBase ==
  ASSUME NEW d, Base(d), NEW r \in Open(d)
  PROVE  LET D == Cancelled(d, r) IN
         /\ Base(D) /\ Edits(d, D) /\ D.cr = d.cr
         /\ D.rev[r].st = "cancelled" /\ D.rev[r].req = d.rev[r].req
         /\ \A q \in Revs \ {r} : D.rev[q] = d.rev[q]
<1> DEFINE D == Cancelled(d, r)
<1>1. r \in Revs /\ d.rev \in [Revs -> Revision] /\ d \in Rows
  BY DEF Base, Rows, Open
<1>2. /\ D.current = d.current /\ D \in Rows /\ D.state = d.state
      /\ D.cr = d.cr /\ D.rev[r].st = "cancelled" /\ D.rev[r].req = d.rev[r].req
      /\ \A q \in Revs \ {r} : D.rev[q] = d.rev[q]
  BY <1>1 DEF Cancelled, Rows, Revision, RevStates
<1> HIDE DEF D
<1>3. ~Promoted(d, r) /\ ~Promoted(D, r)
  BY <1>1, <1>2 DEF Promoted, Live, LiveStates, Open
<1>4. RequestAfterStart(D) /\ DecisionsAreSigned(D)
  BY <1>1, <1>2 DEF Base, RequestAfterStart, DecisionsAreSigned
<1>5. StateAgrees(D)
  <2>1. d.current # None => d.current \in Revs /\ d.current # r
    BY <1>1, <1>3, CurrentIsLive DEF Promoted, Live
  <2> QED BY <1>1, <1>2, <2>1 DEF Base, StateAgrees
<1>6. Base(D)
  BY <1>1, <1>2, <1>3, <1>4, <1>5, OneMovesKeepsBase
<1>7. Edits(d, D)
  BY <1>1, <1>2 DEF Edits, KeepsTerminal, Submits, SameLine, Superseded, Open
<1> QED
  BY <1>2, <1>6, <1>7 DEF D

LEMMA CancelKeeps ==
  ASSUME Inv, NEW r \in Revs, Cancel(r)
  PROVE  Inv' /\ Step(db, db')
<1> DEFINE D == Cancelled(db, r)
           d == DomainUpdateState(roster, D)
<1>1. /\ r \in Open(db) /\ roster' \in Rosters
      /\ db' = IF d.cr[r].st = "none" THEN d ELSE UpdateCR(roster, d, r)
  BY DEF Inv, Cancel, Cancelled
<1>2. Base(D) /\ Edits(db, D)
  BY <1>1, CancelledKeepsBase DEF Inv
<1> HIDE DEF D
<1>3. Base(d) /\ Cause(d) /\ Evolves(D, d)
  BY <1>2, DomainUpdateStateKeeps, DomainUpdateStateEvolves
<1> HIDE DEF d
<1>4. Base(db') /\ Cause(db') /\ Evolves(d, db')
  BY <1>1, <1>3, UpdateCRKeeps, EvolvesReflexive
<1>5. Step(db, db')
  BY <1>2, <1>3, <1>4, EvolvesTransitive, EditThenEvolve
<1> QED
  BY <1>1, <1>4, <1>5 DEF Inv

(* An approval that waits for a signature gets one, and its verdict or not. *)
LEMMA SignKeeps ==
  ASSUME NEW d, Base(d), Cause(d), NEW r \in Revs, NEW s \in Sets, NEW D,
         d.cr[r].appr[s].st = "pendingapproval",
         NEW a \in Approval,
         a.st \in {"pendingapproval", "approved", "declined"},
         a.st # "pendingapproval" => a.sig # NoSig /\ a.sig.action = a.st,
         D = [d EXCEPT !.cr[r].appr[s] = a]
  PROVE  Base(D) /\ Cause(D) /\ Evolves(d, D)
<1>1. /\ d \in Rows /\ d.cr \in [Revs -> ChangeRequest]
      /\ d.cr[r].appr \in [Sets -> Approval]
  BY DEF Base, Rows, ChangeRequest
<1>2. /\ D \in Rows /\ D.rev = d.rev /\ D.state = d.state /\ D.current = d.current
      /\ \A q \in Revs : /\ D.cr[q].st = d.cr[q].st /\ D.cr[q].init = d.cr[q].init
                         /\ \A t \in Sets : D.cr[q].appr[t] =
                              IF q = r /\ t = s THEN a ELSE d.cr[q].appr[t]
  BY <1>1, SMTT(20) DEF Rows, ChangeRequest
<1>3. \A q \in Revs : Promoted(D, q) <=> Promoted(d, q)
  BY <1>2 DEF Promoted, Live
<1>4. /\ LiveAsDesired(D) /\ OneLive(D) /\ NothingBefore(D)
      /\ RequestAfterStart(D) /\ StateAgrees(D)
  BY <1>2 DEF Base, LiveAsDesired, OneLive, NothingBefore, RequestAfterStart,
     StateAgrees, Live
<1>5. DecisionsAreSigned(D)
  <2>1. ASSUME NEW q \in Revs, D.cr[q].st = "approved"
        PROVE  \E t \in Sets : D.cr[q].appr[t].st = "approved"
    <3>1. PICK t \in Sets : d.cr[q].appr[t].st = "approved"
      BY <1>2, <2>1 DEF Base, DecisionsAreSigned
    <3> QED BY <1>2, <3>1
  <2>2. ASSUME NEW q \in Revs, NEW t \in Sets
        PROVE  LET b == D.cr[q].appr[t] IN
               /\ D.cr[q].st = "none" => b.st = "none"
               /\ b.st \in {"approved", "declined"} => b.sig # NoSig /\ b.sig.action = b.st
    BY <1>2 DEF Base, DecisionsAreSigned
  <2> QED BY <2>1, <2>2 DEF DecisionsAreSigned
<1>6. PromotedApproved(D)
  <2> SUFFICES ASSUME NEW q \in Revs, Promoted(D, q) PROVE Approved(D, q)
    BY DEF PromotedApproved
  <2>1. Approved(d, q)
    BY <1>3 DEF Base, PromotedApproved
  <2>2. PICK t \in Sets : LET b == d.cr[q].appr[t] IN
          /\ b.st = "approved" /\ b.sig # NoSig
          /\ b.sig.for = q /\ b.sig.rev = q /\ b.sig.action = "approved"
    BY <2>1 DEF Approved
  <2>3. D.cr[q].appr[t] = d.cr[q].appr[t]
    BY <1>2, <2>2
  <2>4. D.cr[q].st = "approved"
    BY <1>2, <2>1 DEF Approved
  <2>5. LET b == D.cr[q].appr[t] IN
          /\ b.st = "approved" /\ b.sig # NoSig
          /\ b.sig.for = q /\ b.sig.rev = q /\ b.sig.action = "approved"
    BY <2>2, <2>3
  <2> QED BY <2>4, <2>5, Zenon DEF Approved
<1>7. Linear(D)
  BY <1>2, <1>3 DEF Base, Linear
<1>8. Base(D)
  BY <1>2, <1>4, <1>5, <1>6, <1>7 DEF Base
<1>9. Cause(D)
  BY <1>2 DEF Cause
<1>10. Evolves(d, D)
  <2>1. KeepsTerminal(d, D)
    BY <1>2 DEF KeepsTerminal, Final
  <2> QED BY <1>2, <2>1 DEF Evolves, SameRequests, SameLine, Superseded
<1> QED
  BY <1>8, <1>9, <1>10

LEMMA RefuseUploadKeeps ==
  ASSUME Inv, NEW r \in Revs, NEW s \in Sets, RefuseUpload(r, s)
  PROVE  Inv' /\ Step(db, db')
<1>1. Base(db') /\ Cause(db') /\ Evolves(db, db')
  BY RefreshCRKeeps DEF RefuseUpload, Inv
<1> QED
  BY <1>1, EvolvesIsStep DEF RefuseUpload, Inv

LEMMA UploadSignatureKeeps ==
  ASSUME Inv, NEW r \in Revs, NEW s \in Sets, NEW sig \in Signatures,
         UploadSignature(r, s, sig)
  PROVE  Inv' /\ Step(db, db')
<1> DEFINE d == RefreshCR(roster, db, r)
           signed == [d EXCEPT !.cr[r].appr[s].sig = sig]
           decided == [signed EXCEPT !.cr[r].appr[s].st = sig.action]
           accepted == /\ d.cr[r].appr[s].st = "pendingapproval"
                       /\ ValidSignature(roster, s, sig)
           kept == [d.cr[r].appr[s] EXCEPT !.sig = sig]
           judged == [signed.cr[r].appr[s] EXCEPT !.st = sig.action]
<1>1. /\ roster' \in Rosters
      /\ \/ db' = d
         \/ accepted /\ db' = signed
         \/ accepted /\ sig.action # "other" /\ db' = UpdateCR(roster, decided, r)
  BY DEF UploadSignature, Inv
<1>2. Base(d) /\ Cause(d) /\ Evolves(db, d)
  BY RefreshCRKeeps DEF Inv
<1> HIDE DEF d
<1>3. /\ d \in Rows /\ d.cr \in [Revs -> ChangeRequest]
      /\ d.cr[r].appr \in [Sets -> Approval] /\ d.cr[r].appr[s] \in Approval
  BY <1>2 DEF Base, Rows, ChangeRequest
<1>4. ASSUME accepted
      PROVE  /\ kept \in Approval /\ kept.st = "pendingapproval" /\ kept.sig = sig
             /\ signed = [d EXCEPT !.cr[r].appr[s] = kept]
             /\ signed.cr[r].appr[s] = kept
  BY <1>3, <1>4 DEF Approval, ApprovalStates, Rows, ChangeRequest
<1> HIDE DEF kept
<1>5. decided = [signed EXCEPT !.cr[r].appr[s] = judged]
  <2> HIDE DEF signed
  <2> QED OBVIOUS
<1> HIDE DEF signed, decided
<1>6. accepted => Base(signed) /\ Cause(signed) /\ Evolves(d, signed)
  BY <1>2, <1>4, SignKeeps
<1>7. accepted /\ sig.action # "other" =>
        Base(decided) /\ Cause(decided) /\ Evolves(signed, decided)
  <2> SUFFICES ASSUME accepted, sig.action # "other"
               PROVE  Base(decided) /\ Cause(decided) /\ Evolves(signed, decided)
    OBVIOUS
  <2>1. sig.action \in {"approved", "declined"} /\ sig # NoSig
    BY NoSigAssumption DEF Signatures
  <2>2. judged \in Approval /\ judged.st = sig.action /\ judged.sig = sig
    BY <1>4, <2>1 DEF Approval, ApprovalStates
  <2> HIDE DEF judged
  <2>3. signed.cr[r].appr[s].st = "pendingapproval"
    BY <1>4
  <2> QED BY <1>5, <1>6, <2>1, <2>2, <2>3, SignKeeps
<1> HIDE DEF accepted
<1>8. Base(db') /\ Cause(db')
  BY <1>1, <1>2, <1>6, <1>7, UpdateCRKeeps
<1>9. Evolves(db, db')
  <2>1. accepted => Evolves(db, signed)
    BY <1>2, <1>6, EvolvesTransitive
  <2>2. accepted /\ sig.action # "other" => Evolves(db, decided)
    BY <1>7, <2>1, EvolvesTransitive
  <2>3. accepted /\ sig.action # "other" =>
          Evolves(decided, UpdateCR(roster, decided, r))
    BY <1>7, UpdateCRKeeps
  <2> QED BY <1>1, <1>2, <2>1, <2>2, <2>3, EvolvesTransitive
<1> QED
  BY <1>1, <1>8, <1>9, EvolvesIsStep, ZenonT(30) DEF Inv

LEMMA ApproverSetPromotedKeeps ==
  ASSUME Inv, NEW s \in Sets, NEW active \in BOOLEAN,
         NEW members \in SUBSET Approvers, NEW nested,
         ApproverSetPromoted(s, active, members, nested)
  PROVE  Inv' /\ Step(db, db')
<1>1. roster' \in Rosters
  BY DEF Inv, ApproverSetPromoted, Rosters
<1>2. Base(db') /\ Cause(db') /\ Evolves(db, db')
  BY ApproverSetCascadeKeeps DEF Inv, ApproverSetPromoted
<1> QED
  BY <1>1, <1>2, EvolvesIsStep DEF Inv

LEMMA NextKeeps == Inv /\ [Next]_vars => Inv' /\ Step(db, db')
<1> SUFFICES ASSUME Inv, [Next]_vars PROVE Inv' /\ Step(db, db')
  OBVIOUS
<1>1. ASSUME NEW state \in {"new", "newexternal"}, EditDomain(state) PROVE Inv' /\ Step(db, db')
  BY <1>1, EditDomainKeeps
<1>2. ASSUME NEW r \in Revs, NEW desired \in Wanted,
             NEW req \in SUBSET (Sets \ {FinalSet}),
             CreateRevision(r, desired, req) \/ EditRevision(r, desired, req)
      PROVE  Inv' /\ Step(db, db')
  BY <1>2, CreateRevisionKeeps, EditRevisionKeeps
<1>3. ASSUME NEW r \in Revs, StartApprovalProcess(r) PROVE Inv' /\ Step(db, db')
  BY <1>3, StartApprovalProcessKeeps
<1>4. ASSUME NEW r \in Revs, Cancel(r) PROVE Inv' /\ Step(db, db')
  BY <1>4, CancelKeeps
<1>5. ASSUME NEW r \in Revs, NEW s \in Sets, NEW sig \in Signatures,
             UploadSignature(r, s, sig)
      PROVE  Inv' /\ Step(db, db')
  BY <1>5, UploadSignatureKeeps
<1>6. ASSUME NEW s \in Sets, NEW active \in BOOLEAN, NEW members \in SUBSET Approvers,
             NEW nested \in BOOLEAN, ApproverSetPromoted(s, active, members, nested)
      PROVE  Inv' /\ Step(db, db')
  BY <1>6, ApproverSetPromotedKeeps
<1>7. ASSUME NEW a \in Approvers, NEW active \in BOOLEAN, ApproverPromoted(a, active)
      PROVE  Inv' /\ Step(db, db')
  BY <1>7, EvolvesReflexive, EvolvesIsStep DEF ApproverPromoted, Inv, Rosters
<1>8. ASSUME NEW r \in Revs, NEW s \in Sets, RefuseUpload(r, s) PROVE Inv' /\ Step(db, db')
  BY <1>8, RefuseUploadKeeps
<1>9. CASE UNCHANGED vars
  BY <1>9, EvolvesReflexive, EvolvesIsStep DEF vars, Inv
<1> QED
  BY <1>1, <1>2, <1>3, <1>4, <1>5, <1>6, <1>7, <1>8, <1>9 DEF Next

-----------------------------------------------------------------------------
(* The inductive invariant holds in every reachable state. *)
THEOREM Invariance == Spec => []Inv
<1>1. Inv /\ [Next]_vars => Inv'
  BY NextKeeps
<1> QED
  BY <1>1, InitHolds, PTL DEF Spec

(* Every row stays within its type, whatever requests arrive. *)
THEOREM TypeCorrect == Spec => []TypeOK
<1>1. Inv => TypeOK
  BY DEF Inv, Base, TypeOK
<1> QED
  BY <1>1, Invariance, PTL

(* Promotion never leaves two revisions in force, nor none that is named. *)
THEOREM OneLiveRevisionHolds == Spec => []OneLiveRevision
<1>1. Inv => OneLiveRevision
  BY DEF Inv, Base, OneLive, OneLiveRevision
<1> QED
  BY <1>1, Invariance, PTL

(* The state of the domain is its current revision's, or the pending form. *)
THEOREM StateTracksCurrentHolds == Spec => []StateTracksCurrent
<1>1. Inv => StateTracksCurrent
  BY DEF Inv, Base, StateAgrees, PendingForm, StateTracksCurrent
<1> QED
  BY <1>1, Invariance, PTL

(* Nothing comes into force without an approved CR and a signature for it. *)
THEOREM PromotedWasApprovedHolds == Spec => []PromotedWasApproved
<1>1. Inv => PromotedWasApproved
  BY DEF Inv, Base, PromotedApproved, Approved, PromotedWasApproved
<1> QED
  BY <1>1, Invariance, PTL

(* The revisions that were in force form one line. *)
THEOREM LinearHistoryHolds == Spec => []LinearHistory
<1>1. Inv => LinearHistory
  BY DEF Inv, Base, Linear, LinearHistory
<1> QED
  BY <1>1, Invariance, PTL

(* No CR is cancelled under a revision that waits for approval. *)
THEOREM WaitingHasRequestHolds == Spec => []WaitingHasRequest
<1>1. Inv => WaitingHasRequest
  BY DEF Inv, Base, RequestAfterStart, WaitingHasRequest
<1> QED
  BY <1>1, Invariance, PTL

(* No request leaves the domain pending without a revision that waits. *)
THEOREM PendingHasCauseHolds == Spec => []PendingHasCause
<1>1. Inv => PendingHasCause
  BY DEF Inv, Cause, PendingHasCause
<1> QED
  BY <1>1, Invariance, PTL

(* No request revises what is terminal: cancelled, failed and superseded    *)
(* revisions, decided or cancelled CRs and approvals with their signatures. *)
THEOREM TerminalIsFinalHolds == Spec => TerminalIsFinal
<1>1. Inv /\ [Next]_vars =>
        [\A r \in Revs :
           /\ db.rev[r].st \in {"cancelled", "approvalfailed", "superseded"} =>
                db'.rev[r].st = db.rev[r].st
           /\ db.cr[r].st \in Final =>
                db'.cr[r].st = db.cr[r].st /\ db'.cr[r].init = db.cr[r].init
           /\ \A s \in Sets : db.cr[r].appr[s].st \in Final =>
                db'.cr[r].appr[s] = db.cr[r].appr[s]]_vars
  BY NextKeeps DEF Step, KeepsTerminal
<1> QED
  BY <1>1, Invariance, PTL DEF Spec, TerminalIsFinal

-----------------------------------------------------------------------------
(* Refinement *)

LEMMA InitIsLedgerInit == Init => Ledger!Init
<1> SUFFICES ASSUME NEW state, db = NoRows(state) PROVE Ledger!Init
  BY DEF Init
<1>1. /\ db.current = None
      /\ \A r \in Revs : /\ db.rev[r].st = "unused" /\ db.cr[r].st = "none"
                         /\ db.cr[r].init = None
  BY DEF NoRows
<1> QED
  BY <1>1 DEF Ledger!Init, Final

LEMMA StepIsLedgerNext ==
  ASSUME Inv, Inv', Step(db, db')
  PROVE  Ledger!Next
<1>1. \A r \in Revs : db'.cr[r] \in ChangeRequest /\ db.cr[r] \in ChangeRequest
  BY DEF Inv, Base, Rows
<1>2. Ledger!Submit
  <2>1. [r \in Revs |-> db'.cr[r].init] \in [Revs -> Revs \cup {None}]
    BY <1>1 DEF ChangeRequest
  <2> QED BY <2>1 DEF Ledger!Submit, Step, Submits
<1>3. Ledger!Judge
  BY <1>1 DEF Ledger!Judge, Ledger!Verdict, Step, KeepsTerminal, Final
<1>4. Ledger!TakeOver
  <2>1. CASE SameLine(db, db')
    BY <2>1 DEF Ledger!TakeOver, SameLine, Superseded
  <2>2. CASE TakesOver(db, db')
    BY <2>2 DEF Ledger!TakeOver, TakesOver, Superseded, Final
  <2> QED BY <2>1, <2>2 DEF Step
<1> QED
  BY <1>2, <1>3, <1>4 DEF Ledger!Next

(* Every request of the workflow is a step of the ledger, and the empty     *)
(* database is its beginning.                                               *)
THEOREM LedgerImplemented == Spec => ImplementsLedger
<1>1. Inv /\ Inv' /\ [Next]_vars => [Ledger!Next]_(Ledger!vars)
  BY NextKeeps, StepIsLedgerNext
<1> QED
  BY <1>1, Invariance, InitIsLedgerInit, PTL DEF Spec, ImplementsLedger, Ledger!Spec
=============================================================================
