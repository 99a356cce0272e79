------------------------ MODULE DomainDecisionProofs ------------------------
(***************************************************************************)
(* Proof that a decided or cancelled CR waits for no signature, as long as *)
(* every uploaded attestation approves or declines (without that it is     *)
(* false: a kept attestation of another text waits on).  An upload keeps   *)
(* an approving or declining signature only if it verifies with all the    *)
(* others of its CR, so whoever signs signs alone; but the CR that is      *)
(* verified is the pending revision's and need not be the one that is      *)
(* signed, so the invariant also relates the sets the two ask for.         *)
(***************************************************************************)
EXTENDS DomainChangeProofs

Judged == {"approved", "declined"}

(* A signature is a decision, of the only approval its CR asks for, and a   *)
(* CR is decided by one.                                                    *)
Sealed(c) ==
  /\ \A s \in Sets : LET a == c.appr[s] IN
       /\ a.sig # NoSig <=> a.st \in Judged
       /\ a.sig # NoSig => Required(c.appr) = {s}
  /\ c.st \in Judged => \E s \in Sets : c.appr[s].st \in Judged

Done(c) == c.st \in Final => \A s \in Sets : c.appr[s].st # "pendingapproval"

Settled(d) == \A r \in Revs : Sealed(d.cr[r]) /\ Done(d.cr[r])

(* The sets asked for by a CR that starts from revision i. *)
Needed(d, i) == IF i = None THEN {FinalSet} ELSE d.rev[i].req

(* A CR asks for the sets of a revision that is or was in force, which is   *)
(* never edited again and always names the final set; what was superseded   *)
(* was superseded by a revision whose CR started from it.                   *)
Asked(d) ==
  \A r \in Revs :
    /\ d.cr[r].st # "none" =>
         /\ Required(d.cr[r].appr) = Needed(d, d.cr[r].init)
         /\ d.cr[r].init # None => Promoted(d, d.cr[r].init)
    /\ d.rev[r].st # "unused" => FinalSet \in d.rev[r].req
    /\ d.rev[r].st = "superseded" =>
         \E q \in Revs : Promoted(d, q) /\ d.cr[q].init = r

-----------------------------------------------------------------------------
(* Change requests *)

(* A sealed CR that is approved or declined waits for nothing. *)
LEMMA SealedIsDone ==
  ASSUME NEW c \in ChangeRequest, Sealed(c),
         c.st = "cancelled" => \A s \in Sets : c.appr[s].st # "pendingapproval"
  PROVE  Done(c)
<1> SUFFICES ASSUME c.st \in Judged, NEW s \in Sets
             PROVE  c.appr[s].st # "pendingapproval"
  BY DEF Done, Final, Judged
<1>1. PICK t \in Sets : c.appr[t].st \in Judged
  BY DEF Sealed
<1>2. Required(c.appr) = {t}
  BY <1>1 DEF Sealed
<1>3. CASE s = t
  BY <1>1, <1>3 DEF Judged
<1>4. CASE s # t
  BY <1>2, <1>4 DEF Required
<1> QED
  BY <1>3, <1>4

(* The approvals that move as UpdateState may stay sealed. *)
LEMMA SealedFollows ==
  ASSUME NEW c \in ChangeRequest, Sealed(c), NEW A, ApprovalsFollow(c.appr, A)
  PROVE  /\ Sealed([c EXCEPT !.appr = A])
         /\ Required(A) = Required(c.appr)
<1> DEFINE D == [c EXCEPT !.appr = A]
<1>1. D.appr = A /\ D.st = c.st
  BY DEF ChangeRequest
<1>2. ASSUME NEW s \in Sets
      PROVE  /\ A[s].sig = c.appr[s].sig
             /\ A[s].st \in Judged <=> c.appr[s].st \in Judged
             /\ A[s].st = "none" <=> c.appr[s].st = "none"
  BY DEF ApprovalsFollow, ApprovalFollows, Final, Judged
<1>3. Required(A) = Required(c.appr)
  BY <1>2 DEF Required
<1> HIDE DEF D
<1>4. Sealed(D)
  BY <1>1, <1>2, <1>3 DEF Sealed
<1> QED
  BY <1>3, <1>4 DEF D

LEMMA SealedAdvances ==
  ASSUME NEW c \in ChangeRequest, Sealed(c), NEW pending \in BOOLEAN
  PROVE  Sealed([c EXCEPT !.st = Advance(c, pending)])
<1> DEFINE D == [c EXCEPT !.st = Advance(c, pending)]
<1>1. D.appr = c.appr /\ D.st = Advance(c, pending)
  BY DEF ChangeRequest
<1>2. Advance(c, pending) \in Judged =>
        c.st \in Judged \/ \E s \in Sets : c.appr[s].st \in Judged
  BY DEF Advance, Judged
<1> HIDE DEF D
<1>3. Sealed(D)
  BY <1>1, <1>2 DEF Sealed
<1> QED
  BY <1>3 DEF D

(* Under a cancelled CR no approval is sent back to wait: a blocked one     *)
(* that could be cancels itself in the hook of the same save.               *)
LEMMA CancelledWaitsForNothing ==
  ASSUME NEW e, NEW nested, NEW A \in [Sets -> Approval], NEW s \in Sets
  PROVE  ApprovalUpdateState(e, "cancelled", A, s, nested) # "pendingapproval"
<1> DEFINE first == ApprovalStep(e, "cancelled", A, s)
           B == [A EXCEPT ![s].st = first]
           second == ApprovalStep(e, "cancelled", B, s)
           status == SetStatus(e, s)
<1>1. B[s].st = first /\ A[s].st \in ApprovalStates
  BY DEF Approval
<1>2. ApprovalFollows(A[s].st, first)
  BY ApprovalStepFollows
<1>3. CASE A[s].st \notin Blocked
  <2>1. first = IF A[s].st \in {"new", "pendingapproval"} THEN "cancelled"
                ELSE A[s].st
    BY <1>3 DEF ApprovalStep
  <2>2. first \in {"none", "approved", "declined", "cancelled"}
    BY <1>1, <1>3, <2>1 DEF ApprovalStates
  <2> HIDE DEF first, B
  <2>3. second = first
    BY <1>1, <2>2 DEF ApprovalStep, Blocked
  <2> HIDE DEF second
  <2>4. ApprovalUpdateState(e, "cancelled", A, s, nested) = first
    BY <2>3 DEF ApprovalUpdateState, first, second, B
  <2> QED BY <2>2, <2>4
<1>4. CASE A[s].st \in Blocked
  <2>1. first = CheckValidityOfApproverSet(e, A, s)
    BY <1>4 DEF ApprovalStep, Blocked
  <2>2. first \in Blocked => status # "valid"
    BY <2>1 DEF CheckValidityOfApproverSet, Blocked
  <2>3. first \in Blocked \cup {"new", "pendingapproval"}
    BY <2>1 DEF CheckValidityOfApproverSet, SetStatus, Blocked
  <2> HIDE DEF first, B
  <2>4. second # "pendingapproval"
    <3>1. CASE first \in Blocked
      <4>1. second = CheckValidityOfApproverSet(e, B, s)
        BY <1>1, <3>1 DEF ApprovalStep, Blocked
      <4> QED BY <2>2, <3>1, <4>1 DEF CheckValidityOfApproverSet, SetStatus
    <3>2. CASE first \in {"new", "pendingapproval"}
      BY <1>1, <3>2 DEF ApprovalStep
    <3> QED BY <2>3, <3>1, <3>2
  <2>5. ApprovalUpdateState(e, "cancelled", A, s, nested) \in {second, A[s].st}
    BY DEF ApprovalUpdateState, first, second, B
  <2> QED BY <1>4, <2>4, <2>5 DEF Blocked
<1> QED
  BY <1>3, <1>4

LEMMA CancelledSettles ==
  ASSUME NEW e, NEW nested, NEW c \in ChangeRequest, c.st = "cancelled", NEW s \in Sets
  PROVE  Settle(e, c, nested)[s].st # "pendingapproval"
<1> DEFINE rest == [t \in Sets |->
                 IF t = FinalSet THEN c.appr[t]
                 ELSE [c.appr[t] EXCEPT
                         !.st = ApprovalUpdateState(e, c.st, c.appr, t, nested)]]
           final == ApprovalUpdateState(e, c.st, rest, FinalSet, nested)
           last == IF final = "pendingapproval"
                      /\ (\E t \in Sets \ {FinalSet} : rest[t].st = "pendingapproval")
                      /\ c.st # "approved"
                   THEN "new" ELSE final
<1>1. c.appr \in [Sets -> Approval]
  BY DEF ChangeRequest
<1>2. ASSUME NEW t \in Sets
      PROVE  /\ ApprovalUpdateState(e, c.st, c.appr, t, nested) # "pendingapproval"
             /\ ApprovalUpdateState(e, c.st, c.appr, t, nested) \in ApprovalStates
  BY <1>1, CancelledWaitsForNothing, ApprovalUpdateStateFollows DEF ApprovalFollows
<1>3. rest \in [Sets -> Approval]
  BY <1>1, <1>2 DEF Approval
<1>4. s # FinalSet => rest[s].st # "pendingapproval"
  BY <1>1, <1>2 DEF Approval
<1>5. final # "pendingapproval"
  <2> HIDE DEF rest
  <2> QED BY <1>3, CancelledWaitsForNothing, FinalSetAssumption
<1>6. Settle(e, c, nested) = [rest EXCEPT ![FinalSet].st = last]
  BY DEF Settle
<1>7. last # "pendingapproval"
  BY <1>5
<1> HIDE DEF rest, last
<1> QED
  BY <1>3, <1>4, <1>6, <1>7, FinalSetAssumption DEF Approval

(* A CR that is sealed stays so, asks for the same sets and, where it ends  *)
(* decided or cancelled, waits for nothing.                                 *)
SealedOn(c, d) == Sealed(d) /\ Done(d) /\ Required(d.appr) = Required(c.appr)

LEMMA UpdateApprovalsSeals ==
  ASSUME NEW e, NEW nested, NEW c \in ChangeRequest, NEW pending \in BOOLEAN, Sealed(c)
  PROVE  SealedOn(c, UpdateApprovals(e, c, pending, nested))
<1> DEFINE A == Settle(e, c, nested)
           c1 == [c EXCEPT !.appr = A]
           c2 == IF Cascades(e, c, A) THEN [c1 EXCEPT !.st = Advance(c1, pending)]
                                      ELSE c1
           c3 == [c2 EXCEPT !.appr = Settle(e, c2, nested)]
<1>1. CRFollows(c, c1, pending)
  BY SettleFollows, ApprovalsFollowInCR
<1>2. c1 \in ChangeRequest /\ c1.appr = A
  BY <1>1 DEF CRFollows, ChangeRequest
<1>3. Sealed(c1) /\ Required(c1.appr) = Required(c.appr)
  BY <1>2, SettleFollows, SealedFollows
<1> HIDE DEF c1
<1>4. CRFollows(c1, [c1 EXCEPT !.st = Advance(c1, pending)], pending)
  BY <1>2, AdvanceFollows
<1>5. c2 \in ChangeRequest /\ c2.appr = c1.appr /\ Sealed(c2)
  BY <1>2, <1>3, <1>4, SealedAdvances DEF CRFollows, ChangeRequest
<1>6. UpdateApprovals(e, c, pending, nested) = c3
  BY DEF UpdateApprovals, ChangeRequest, c1
<1> HIDE DEF c2
<1>7. CRFollows(c2, c3, pending) /\ c3.st = c2.st /\ c3.appr = Settle(e, c2, nested)
  BY <1>5, SettleFollows, ApprovalsFollowInCR DEF ChangeRequest
<1>8. Sealed(c3) /\ Required(c3.appr) = Required(c2.appr)
  BY <1>5, <1>7, SettleFollows, SealedFollows
<1>9. Done(c3)
  <2>1. c3 \in ChangeRequest
    BY <1>7 DEF CRFollows
  <2>2. c3.st = "cancelled" => \A s \in Sets : c3.appr[s].st # "pendingapproval"
    BY <1>5, <1>7, CancelledSettles
  <2> HIDE DEF c3
  <2> QED BY <1>8, <2>1, <2>2, SealedIsDone
<1> QED
  BY <1>3, <1>5, <1>6, <1>8, <1>9 DEF SealedOn

LEMMA CRUpdateStateSeals ==
  ASSUME NEW e, NEW nested, NEW c \in ChangeRequest, NEW pending \in BOOLEAN,
         Sealed(c), Done(c)
  PROVE  SealedOn(c, CRUpdateState(e, c, pending, nested))
<1> DEFINE c1 == [c EXCEPT !.st = Advance(c, pending)]
<1>1. c1 \in ChangeRequest /\ c1.appr = c.appr
  BY AdvanceFollows DEF CRFollows, ChangeRequest
<1>2. Sealed(c1)
  BY SealedAdvances
<1> HIDE DEF c1
<1>3. SealedOn(c1, UpdateApprovals(e, c1, pending, nested))
  BY <1>1, <1>2, UpdateApprovalsSeals
<1> QED
  BY <1>1, <1>3 DEF SealedOn, CRUpdateState, c1

-----------------------------------------------------------------------------
(* The sets that are asked for *)

(* No stage of the cascade edits the required sets of a revision or of a CR *)
SameNeeds(d, D) ==
  \A r \in Revs :
    /\ D.rev[r].req = d.rev[r].req
    /\ D.rev[r].st = "unused" <=> d.rev[r].st = "unused"
    /\ Required(D.cr[r].appr) = Required(d.cr[r].appr)

LEMMA DomainUpdateStateSameNeeds ==
  ASSUME NEW e, NEW d, Base(d)
  PROVE  /\ SameNeeds(d, DomainUpdateState(e, d))
         /\ DomainUpdateState(e, d).cr = d.cr
<1> DEFINE p == Pending(d)
           D == DomainUpdateState(e, d)
           Good(x) == x.cr = d.cr /\ \A r \in Revs :
                        /\ x.rev[r].req = d.rev[r].req
                        /\ x.rev[r].st = "unused" <=> d.rev[r].st = "unused"
<1>1. /\ d \in Rows /\ d.rev \in [Revs -> Revision]
      /\ \A r \in Revs : d.rev[r].desired # "unused"
  BY DEF Base, Rows, Revision, LiveStates
<1>2. Good(d) /\ Good(Revert(d))
  BY <1>1 DEF Revert, Rows
<1>3. ASSUME p # None
      PROVE  Good(Promote(d, p)) /\ Good(Decline(d, p))
  <2>1. p \in Revs /\ d.rev[p].st # "unused"
    BY <1>3, PendingIsRevision DEF Open
  <2>2. d.current # None => d.current \in Revs /\ d.rev[d.current].st # "unused"
    BY CurrentIsLive DEF LiveStates
  <2> DEFINE mid == [d EXCEPT !.rev[p].st = d.rev[p].desired]
  <2>3. Good(mid) /\ mid.rev \in [Revs -> Revision] /\ mid.rev[p].st # "unused"
    <3>1. d.rev[p] \in Revision /\ d.rev[p].desired \in RevStates
      BY <1>1, <2>1 DEF Revision, RevStates
    <3> DEFINE x == [d.rev[p] EXCEPT !.st = d.rev[p].desired]
    <3>2. x \in Revision /\ x.req = d.rev[p].req /\ x.st = d.rev[p].desired
      BY <3>1 DEF Revision
    <3>3. mid.rev = [d.rev EXCEPT ![p] = x] /\ mid.cr = d.cr
      BY <1>1 DEF Rows
    <3> HIDE DEF x, mid
    <3>4. mid.rev \in [Revs -> Revision] /\ mid.rev[p] = x
          /\ \A r \in Revs \ {p} : mid.rev[r] = d.rev[r]
      BY <1>1, <2>1, <3>2, <3>3, SMTT(20)
    <3> QED BY <1>1, <2>1, <3>2, <3>3, <3>4
  <2> HIDE DEF mid
  <2>4. Good(Promote(d, p))
    <3>1. CASE Promote(d, p) = mid
      BY <2>3, <3>1
    <3>2. CASE Promote(d, p) = [mid EXCEPT !.current = p, !.state = d.rev[p].desired]
      BY <2>3, <3>2
    <3>3. CASE /\ d.current # None
               /\ Promote(d, p) = [mid EXCEPT !.rev[d.current].st = "superseded",
                                     !.current = p, !.state = d.rev[p].desired]
      <4> DEFINE late == [mid.rev EXCEPT ![d.current].st = "superseded"]
      <4>1. \A r \in Revs : /\ late[r].req = mid.rev[r].req
                            /\ late[r].st = IF r = d.current THEN "superseded"
                                            ELSE mid.rev[r].st
        BY <2>2, <2>3, <3>3 DEF Revision
      <4>2. Promote(d, p).rev = late /\ Promote(d, p).cr = mid.cr
        BY <3>3
      <4> HIDE DEF late
      <4> QED BY <2>2, <2>3, <3>3, <4>1, <4>2
    <3> QED BY <3>1, <3>2, <3>3 DEF Promote, mid
  <2>5. Good(Decline(d, p))
    BY <1>1, <2>1 DEF Decline, Rows, Revision
  <2> QED BY <2>4, <2>5
<1>4. Good(D)
  <2> HIDE DEF Good
  <2> QED BY <1>2, <1>3 DEF DomainUpdateState
<1> HIDE DEF D
<1>5. SameNeeds(d, D) /\ D.cr = d.cr
  BY <1>4 DEF SameNeeds
<1> QED
  BY <1>5 DEF D

(* A revision that is or was in force is so for good. *)
LEMMA PromotedForGood ==
  ASSUME NEW d, NEW D, Base(d), Base(D), Evolves(d, D), NEW r \in Revs, Promoted(d, r)
  PROVE  Promoted(D, r)
<1>1. CASE d.rev[r].st = "superseded"
  BY <1>1 DEF Evolves, KeepsTerminal, Promoted
<1>2. CASE Live(d, r)
  <2>1. r = d.current /\ r # None
    BY <1>2, NumRevsAssumption DEF Base, OneLive, Revs, None
  <2>2. CASE SameLine(d, D)
    BY <2>1, <2>2 DEF SameLine, Base, OneLive, Promoted
  <2>3. CASE TakesOver(d, D)
    <3>1. r \in Superseded(D)
      BY <2>1, <2>3 DEF TakesOver
    <3> QED BY <3>1 DEF Superseded, Promoted
  <2> QED BY <2>2, <2>3 DEF Evolves
<1> QED
  BY <1>1, <1>2 DEF Promoted

LEMMA AskedStays ==
  ASSUME NEW d, NEW D, Base(d), Base(D), Evolves(d, D), SameNeeds(d, D), Asked(d)
  PROVE  Asked(D)
<1> SUFFICES ASSUME NEW r \in Revs
             PROVE  /\ D.cr[r].st # "none" =>
                         /\ Required(D.cr[r].appr) = Needed(D, D.cr[r].init)
                         /\ D.cr[r].init # None => Promoted(D, D.cr[r].init)
                    /\ D.rev[r].st # "unused" => FinalSet \in D.rev[r].req
                    /\ D.rev[r].st = "superseded" =>
                         \E q \in Revs : Promoted(D, q) /\ D.cr[q].init = r
  BY DEF Asked
<1>1. /\ \A q \in Revs : Promoted(d, q) => Promoted(D, q)
      /\ \A q \in Revs : D.cr[q].init = d.cr[q].init
      /\ d.cr[r].init \in Revs \cup {None}
      /\ D.cr[r].st = "none" <=> d.cr[r].st = "none"
  BY PromotedForGood DEF Evolves, SameRequests, Base, Rows, ChangeRequest
<1>2. D.cr[r].st # "none" =>
        /\ Required(D.cr[r].appr) = Needed(D, D.cr[r].init)
        /\ D.cr[r].init # None => Promoted(D, D.cr[r].init)
  <2> SUFFICES ASSUME D.cr[r].st # "none"
               PROVE  /\ Required(D.cr[r].appr) = Needed(D, D.cr[r].init)
                      /\ D.cr[r].init # None => Promoted(D, D.cr[r].init)
    OBVIOUS
  <2> DEFINE i == d.cr[r].init
  <2>1. /\ Required(d.cr[r].appr) = Needed(d, i)
        /\ i # None => Promoted(d, i)
    BY <1>1 DEF Asked
  <2>2. D.cr[r].init = i /\ i \in Revs \cup {None}
    BY <1>1
  <2>3. Required(D.cr[r].appr) = Required(d.cr[r].appr)
    BY DEF SameNeeds
  <2> HIDE DEF i
  <2>4. Needed(D, i) = Needed(d, i)
    BY <2>2 DEF Needed, SameNeeds
  <2>5. i # None => Promoted(D, i)
    BY <1>1, <2>1, <2>2
  <2> QED BY <2>1, <2>2, <2>3, <2>4, <2>5
<1>3. D.rev[r].st # "unused" => FinalSet \in D.rev[r].req
  BY DEF Asked, SameNeeds
<1>4. ASSUME D.rev[r].st = "superseded"
      PROVE  \E q \in Revs : Promoted(D, q) /\ D.cr[q].init = r
  <2>1. r \in Superseded(D)
    BY <1>4 DEF Superseded
  <2>2. CASE r \in Superseded(d)
    <3>1. PICK q \in Revs : Promoted(d, q) /\ d.cr[q].init = r
      BY <2>2 DEF Asked, Superseded
    <3> QED BY <1>1, <3>1
  <2>3. CASE r \notin Superseded(d)
    <3>1. TakesOver(d, D)
      BY <2>1, <2>3 DEF Evolves, SameLine
    <3>2. PICK c \in Revs : D.cr[c].init = d.current /\ D.current = c
                            /\ Superseded(D) = Superseded(d) \cup ({d.current} \ {None})
      BY <3>1 DEF TakesOver
    <3>3. r = d.current /\ Promoted(D, c)
      BY <2>1, <2>3, <3>2 DEF Base, OneLive, Promoted
    <3> QED BY <3>2, <3>3
  <2> QED BY <2>2, <2>3
<1> QED
  BY <1>2, <1>3, <1>4

-----------------------------------------------------------------------------
(* The stages of the cascade *)

(* What one stage does to the rows, beside what Evolves says. *)
Decides(d, D) == Settled(D) /\ SameNeeds(d, D)

(* One CR is replaced by what it becomes. *)
LEMMA OneCRDecides ==
  ASSUME NEW e, NEW d, Base(d), NEW r \in Revs, NEW c,
         CRFollows(d.cr[r], c, HasPendingRevision(d)), SealedOn(d.cr[r], c),
         \A q \in Revs \ {r} : Sealed(d.cr[q]) /\ Done(d.cr[q])
  PROVE  Decides(d, DomainUpdateState(e, [d EXCEPT !.cr[r] = c]))
<1> DEFINE x == [d EXCEPT !.cr[r] = c]
           D == DomainUpdateState(e, x)
<1>1. Base(x)
  BY OneCRFollows
<1>2. x.rev = d.rev /\ x.cr[r] = c /\ \A q \in Revs \ {r} : x.cr[q] = d.cr[q]
  BY DEF Base, Rows
<1> HIDE DEF x
<1>3. SameNeeds(x, D) /\ D.cr = x.cr
  BY <1>1, DomainUpdateStateSameNeeds
<1> HIDE DEF D
<1>4. Settled(D)
  BY <1>2, <1>3 DEF Settled, SealedOn
<1>5. SameNeeds(d, D)
  BY <1>2, <1>3 DEF SameNeeds, SealedOn
<1> QED
  BY <1>4, <1>5 DEF Decides, D, x

LEMMA RefreshCRDecides ==
  ASSUME NEW e, NEW d, Base(d), NEW r \in Revs, Settled(d)
  PROVE  Decides(d, RefreshCR(e, d, r))
<1> DEFINE c == UpdateApprovals(e, d.cr[r], HasPendingRevision(d), FALSE)
<1>1. d.cr[r] \in ChangeRequest /\ Sealed(d.cr[r])
  BY DEF Base, Rows, Settled
<1>2. CRFollows(d.cr[r], c, HasPendingRevision(d)) /\ SealedOn(d.cr[r], c)
  BY <1>1, HasPendingIsBoolean, UpdateApprovalsFollows, UpdateApprovalsSeals
<1> HIDE DEF c
<1>3. Decides(d, DomainUpdateState(e, [d EXCEPT !.cr[r] = c]))
  BY <1>2, OneCRDecides DEF Settled
<1> QED
  BY <1>3 DEF RefreshCR, c

LEMMA UpdateCRDecides ==
  ASSUME NEW e, NEW d, Base(d), NEW r \in Revs, Settled(d)
  PROVE  Decides(d, UpdateCR(e, d, r))
<1> DEFINE c == CRUpdateState(e, d.cr[r], HasPendingRevision(d), FALSE)
<1>1. d.cr[r] \in ChangeRequest /\ Sealed(d.cr[r]) /\ Done(d.cr[r])
  BY DEF Base, Rows, Settled
<1>2. CRFollows(d.cr[r], c, HasPendingRevision(d)) /\ SealedOn(d.cr[r], c)
  BY <1>1, HasPendingIsBoolean, CRUpdateStateFollows, CRUpdateStateSeals
<1> HIDE DEF c
<1>3. Decides(d, DomainUpdateState(e, [d EXCEPT !.cr[r] = c]))
  BY <1>2, OneCRDecides DEF Settled
<1>4. Decides(d, d)
  BY DEF Decides, SameNeeds
<1> QED
  BY <1>3, <1>4 DEF UpdateCR, c

(* One approval of a settled CR is saved with its hook. *)
LEMMA SteppedSeals ==
  ASSUME NEW e, NEW nested, NEW c \in ChangeRequest, NEW s \in Sets, Sealed(c), Done(c)
  PROVE  SealedOn(c, [c EXCEPT !.appr[s].st =
           ApprovalUpdateState(e, c.st, c.appr, s, nested)])
<1> DEFINE x == ApprovalUpdateState(e, c.st, c.appr, s, nested)
           D == [c EXCEPT !.appr[s].st = x]
<1>1. c.appr \in [Sets -> Approval]
  BY DEF ChangeRequest
<1>2. c.st = "cancelled" => x # "pendingapproval"
  BY <1>1, CancelledWaitsForNothing
<1>3. CRFollows(c, D, TRUE)
  BY SteppedFollows
<1> HIDE DEF x
<1>4. /\ D.st = c.st /\ D = [c EXCEPT !.appr = D.appr]
      /\ \A t \in Sets : D.appr[t].st = IF t = s THEN x ELSE c.appr[t].st
  BY <1>1 DEF ChangeRequest, Approval
<1> HIDE DEF D
<1>5. Sealed(D) /\ Required(D.appr) = Required(c.appr)
  BY <1>3, <1>4, SealedFollows DEF CRFollows
<1>6. Done(D)
  <2>1. D \in ChangeRequest
    BY <1>3 DEF CRFollows
  <2>2. D.st = "cancelled" => \A t \in Sets : D.appr[t].st # "pendingapproval"
    BY <1>2, <1>4 DEF Done, Final
  <2> QED BY <1>5, <2>1, <2>2, SealedIsDone
<1> QED
  BY <1>5, <1>6 DEF SealedOn, D, x

LEMMA ApproverSetCascadeDecides ==
  ASSUME NEW e, NEW d, Base(d), NEW s \in Sets, NEW nested, Settled(d)
  PROVE  Decides(d, ApproverSetCascade(e, d, s, nested))
<1> DEFINE pending == HasPendingRevision(d)
           touched(r) == d.cr[r].appr[s].st \in Blocked \cup {"pendingapproval"}
           stepped(r) == [d.cr[r] EXCEPT !.appr[s].st =
             ApprovalUpdateState(e, d.cr[r].st, d.cr[r].appr, s, nested)]
           reaches(r) == touched(r) /\ Cascades(e, d.cr[r], stepped(r).appr)
           row(r) == IF reaches(r) THEN CRUpdateState(e, stepped(r), pending, nested)
                     ELSE IF touched(r) THEN stepped(r)
                     ELSE d.cr[r]
           rows == [d EXCEPT !.cr = [r \in Revs |-> row(r)]]
           D == ApproverSetCascade(e, d, s, nested)
<1>1. D = rows \/ D = DomainUpdateState(e, rows)
  BY Zenon DEF ApproverSetCascade
<1>2. ASSUME NEW r \in Revs
      PROVE  CRFollows(d.cr[r], row(r), pending) /\ SealedOn(d.cr[r], row(r))
  <2>1. d.cr[r] \in ChangeRequest /\ Sealed(d.cr[r]) /\ Done(d.cr[r])
    BY DEF Base, Rows, Settled
  <2>2. CRFollows(d.cr[r], d.cr[r], pending) /\ SealedOn(d.cr[r], d.cr[r])
    BY <2>1, FollowsItself DEF SealedOn
  <2>3. CRFollows(d.cr[r], stepped(r), pending) /\ SealedOn(d.cr[r], stepped(r))
    BY <2>1, SteppedFollows, SteppedSeals
  <2>4. stepped(r) \in ChangeRequest /\ Sealed(stepped(r)) /\ Done(stepped(r))
    BY <2>3 DEF CRFollows, SealedOn
  <2> HIDE DEF stepped
  <2>5. /\ CRFollows(stepped(r), CRUpdateState(e, stepped(r), pending, nested), pending)
        /\ SealedOn(stepped(r), CRUpdateState(e, stepped(r), pending, nested))
    BY <2>4, HasPendingIsBoolean, CRUpdateStateFollows, CRUpdateStateSeals
  <2>6. /\ CRFollows(d.cr[r], CRUpdateState(e, stepped(r), pending, nested), pending)
        /\ SealedOn(d.cr[r], CRUpdateState(e, stepped(r), pending, nested))
    <3> HIDE DEF pending
    <3> QED BY <2>1, <2>3, <2>5, CRFollowsTransitive DEF SealedOn
  <2> QED BY <2>2, <2>3, <2>6
<1>3. /\ RowsFollow(d, rows) /\ rows.rev = d.rev
      /\ \A r \in Revs : SealedOn(d.cr[r], rows.cr[r])
  <2> HIDE DEF row
  <2>1. \A r \in Revs : row(r) \in ChangeRequest
    BY <1>2 DEF CRFollows
  <2>2. rows \in Rows /\ rows.rev = d.rev /\ rows.state = d.state
        /\ rows.current = d.current /\ \A r \in Revs : rows.cr[r] = row(r)
    BY <2>1 DEF Base, Rows
  <2> HIDE DEF rows
  <2> QED BY <1>2, <2>2 DEF RowsFollow
<1> HIDE DEF rows
<1>4. Base(rows)
  BY <1>3, RowsFollowKeepsBase
<1>5. Decides(d, rows)
  BY <1>3 DEF Decides, Settled, SealedOn, SameNeeds
<1>6. PICK x : x = DomainUpdateState(e, rows)
  OBVIOUS
<1>7. SameNeeds(rows, x) /\ x.cr = rows.cr
  BY <1>4, <1>6, DomainUpdateStateSameNeeds
<1>8. Decides(d, x)
  <2>1. Settled(x)
    BY <1>5, <1>7 DEF Decides, Settled
  <2>2. SameNeeds(d, x)
    BY <1>5, <1>7 DEF Decides, SameNeeds
  <2> QED BY <2>1, <2>2 DEF Decides
<1> QED
  BY <1>1, <1>5, <1>6, <1>8

-----------------------------------------------------------------------------
(* The rows differ by the signature of one approval.                        *)
OtherSignature(d, D, r, s) ==
  /\ D.rev = d.rev /\ D.current = d.current
  /\ \A q \in Revs :
       /\ D.cr[q].st = d.cr[q].st /\ D.cr[q].init = d.cr[q].init
       /\ \A t \in Sets : /\ D.cr[q].appr[t].st = d.cr[q].appr[t].st
                          /\ q # r \/ t # s => D.cr[q].appr[t] = d.cr[q].appr[t]

(* Whoever signs signs alone: an upload that verifies is of the only        *)
(* approval its CR asks for.  If the verified CR is another one, it asks    *)
(* for the final set alone, hence so does whatever is in force, and so does *)
(* every CR that was written against something in force.                    *)
LEMMA SignerAlone ==
  ASSUME NEW e, NEW d, Base(d), Settled(d), Asked(d),
         NEW r \in Revs, NEW s \in Sets, d.cr[r].appr[s].st = "pendingapproval",
         NEW D, OtherSignature(d, D, r, s), VerifyCR(e, D)
  PROVE  Required(d.cr[r].appr) = {s}
<1> DEFINE p == Pending(d)
<1>1. /\ D.rev = d.rev /\ D.current = d.current
      /\ \A q \in Revs : /\ D.cr[q].st = d.cr[q].st
                         /\ D.cr[q].init = d.cr[q].init
                         /\ \A t \in Sets : /\ D.cr[q].appr[t].st = d.cr[q].appr[t].st
                                            /\ q # r \/ t # s =>
                                                 D.cr[q].appr[t] = d.cr[q].appr[t]
  BY DEF OtherSignature
<1>2. Pending(D) = p
  BY <1>1 DEF Pending, Open
<1>3. /\ p \in Revs /\ d.cr[p].st # "none" /\ d.cr[p].init = d.current
      /\ \A t \in Required(d.cr[p].appr) : p # r \/ t # s => d.cr[p].appr[t].sig # NoSig
  <2>1. VerifyCR(e, D)
    OBVIOUS
  <2>2. p \in Revs
    BY <1>2, <2>1, PendingIsRevision DEF VerifyCR
  <2> HIDE DEF p
  <2>3. /\ D.cr[p].st # "none" /\ D.cr[p].init = D.current
        /\ \A t \in Required(D.cr[p].appr) : D.cr[p].appr[t].sig # NoSig
    BY <1>2, <2>1 DEF VerifyCR, ValidSignature
  <2>4. Required(D.cr[p].appr) = Required(d.cr[p].appr)
    BY <1>1, <2>2 DEF Required
  <2>5. ASSUME NEW t \in Required(d.cr[p].appr), p # r \/ t # s
        PROVE  d.cr[p].appr[t].sig # NoSig
    <3>1. t \in Sets
      BY DEF Required
    <3>2. D.cr[p].appr[t] = d.cr[p].appr[t]
      BY <1>1, <2>2, <2>5, <3>1
    <3> QED BY <2>3, <2>4, <3>2
  <2> QED BY <1>1, <2>2, <2>3, <2>5
<1> HIDE DEF p
<1>4. s \in Required(d.cr[r].appr) /\ \A q \in Revs : Required(d.cr[q].appr) \subseteq Sets
  BY DEF Required
<1>5. ASSUME NEW q \in Revs, NEW t \in Sets, d.cr[q].appr[t].sig # NoSig
      PROVE  Required(d.cr[q].appr) = {t}
  BY <1>5 DEF Settled, Sealed
<1>6. CASE p = r
  BY <1>3, <1>4, <1>5, <1>6
<1>7. CASE p # r
  <2>1. ASSUME NEW i \in Revs, Promoted(d, i)
        PROVE  FinalSet \in Needed(d, i)
    <3>1. i # None
      BY NumRevsAssumption DEF Revs, None
    <3>2. d.rev[i].st # "unused"
      BY <2>1 DEF Promoted, Live, LiveStates
    <3>3. FinalSet \in d.rev[i].req
      BY <3>2 DEF Asked
    <3> QED BY <3>1, <3>3 DEF Needed
  <2>2. Needed(d, d.current) = {FinalSet}
    <3>1. Required(d.cr[p].appr) = Needed(d, d.current)
      BY <1>3 DEF Asked
    <3>2. FinalSet \in Needed(d, d.current)
      <4>1. CASE d.current = None
        BY <4>1 DEF Needed
      <4>2. CASE d.current # None
        BY <2>1, <4>2, CurrentIsLive DEF Promoted, Live
      <4> QED BY <4>1, <4>2
    <3> QED BY <1>3, <1>5, <1>7, <3>1, <3>2, FinalSetAssumption
  <2> DEFINE i == d.cr[r].init
  <2>3. d.cr[r].st # "none"
    BY DEF Base, DecisionsAreSigned
  <2>4. /\ Required(d.cr[r].appr) = Needed(d, i) /\ i \in Revs \cup {None}
        /\ i # None => Promoted(d, i)
    BY <2>3 DEF Asked, Base, Rows, ChangeRequest
  <2>5. Needed(d, i) = {FinalSet}
    <3>1. CASE i = None
      BY <3>1 DEF Needed
    <3>2. CASE i = d.current
      BY <2>2, <3>2
    <3>3. CASE i # None /\ i # d.current
      <4>1. i \in Revs /\ d.rev[i].st = "superseded" /\ Promoted(d, i)
        BY <2>4, <3>3 DEF Promoted, Base, OneLive
      <4>2. PICK q \in Revs : Promoted(d, q) /\ d.cr[q].init = i
        BY <4>1 DEF Asked
      <4>3. Approved(d, q)
        BY <4>2 DEF Base, PromotedApproved
      <4>4. PICK t \in Sets : d.cr[q].appr[t].sig # NoSig
        BY <4>3 DEF Approved
      <4>5. d.cr[q].st # "none"
        BY <4>3 DEF Approved
      <4>6. Needed(d, i) = {t}
        BY <1>5, <4>2, <4>4, <4>5 DEF Asked
      <4> QED BY <2>1, <4>1, <4>6
    <3> QED BY <3>1, <3>2, <3>3
  <2> QED BY <1>4, <2>4, <2>5
<1> QED
  BY <1>6, <1>7

-----------------------------------------------------------------------------
(* The requests *)

Decision(d) == Base(d) /\ Cause(d) /\ Settled(d) /\ Asked(d)

LEMMA RefreshCRKeepsDecision ==
  ASSUME NEW e, NEW d, Base(d), Settled(d), Asked(d), NEW r \in Revs
  PROVE  Decision(RefreshCR(e, d, r))
<1>1. LET D == RefreshCR(e, d, r) IN
      Base(D) /\ Cause(D) /\ Evolves(d, D) /\ Decides(d, D)
  BY RefreshCRKeeps, RefreshCRDecides
<1> QED
  BY <1>1, AskedStays DEF Decision, Decides

LEMMA UpdateCRKeepsDecision ==
  ASSUME NEW e, NEW d, Decision(d), NEW r \in Revs
  PROVE  Decision(UpdateCR(e, d, r))
<1>1. LET D == UpdateCR(e, d, r) IN
      Base(D) /\ Cause(D) /\ Evolves(d, D) /\ Decides(d, D)
  BY UpdateCRKeeps, UpdateCRDecides DEF Decision
<1> QED
  BY <1>1, AskedStays DEF Decision, Decides

LEMMA DomainUpdateStateKeepsDecision ==
  ASSUME NEW e, NEW d, Base(d), Settled(d), Asked(d)
  PROVE  Decision(DomainUpdateState(e, d))
<1>1. LET D == DomainUpdateState(e, d) IN
      Base(D) /\ Cause(D) /\ Evolves(d, D) /\ SameNeeds(d, D) /\ D.cr = d.cr
  BY DomainUpdateStateKeeps, DomainUpdateStateEvolves, DomainUpdateStateSameNeeds
<1> QED
  BY <1>1, AskedStays DEF Decision, Settled

(* A revision and its CR are written that are not and never were in force:  *)
(* no other CR starts from them.                                            *)
LEMMA EditKeepsAsked ==
  ASSUME NEW d, NEW D, Asked(d), NEW r \in Revs, ~Promoted(d, r), ~Promoted(D, r),
         \A q \in Revs \ {r} : D.rev[q] = d.rev[q] /\ D.cr[q] = d.cr[q],
         d \in Rows,
         FinalSet \in D.rev[r].req \/ D.rev[r].st = "unused",
         \/ D.cr[r] = d.cr[r]
         \/ /\ Required(D.cr[r].appr) = Needed(d, D.cr[r].init)
            /\ D.cr[r].init \in Revs \cup {None}
            /\ D.cr[r].init # None => Promoted(d, D.cr[r].init)
  PROVE  Asked(D)
<1> SUFFICES ASSUME NEW q \in Revs
             PROVE  /\ D.cr[q].st # "none" =>
                         /\ Required(D.cr[q].appr) = Needed(D, D.cr[q].init)
                         /\ D.cr[q].init # None => Promoted(D, D.cr[q].init)
                    /\ D.rev[q].st # "unused" => FinalSet \in D.rev[q].req
                    /\ D.rev[q].st = "superseded" =>
                         \E t \in Revs : Promoted(D, t) /\ D.cr[t].init = q
  BY DEF Asked
<1>1. ASSUME NEW t \in Revs, Promoted(d, t)
      PROVE  t # r /\ Promoted(D, t) /\ Needed(D, t) = Needed(d, t)
  BY <1>1 DEF Promoted, Live, Needed
<1>2. ASSUME D.cr[q].st # "none"
      PROVE  /\ Required(D.cr[q].appr) = Needed(D, D.cr[q].init)
             /\ D.cr[q].init # None => Promoted(D, D.cr[q].init)
  <2> DEFINE i == D.cr[q].init
  <2>1. /\ Required(D.cr[q].appr) = Needed(d, i) /\ i \in Revs \cup {None}
        /\ i # None => Promoted(d, i)
    BY <1>2 DEF Asked, Rows, ChangeRequest
  <2> HIDE DEF i
  <2>2. CASE i = None
    BY <2>1, <2>2 DEF i, Needed
  <2>3. CASE i # None
    BY <1>1, <2>1, <2>3 DEF i
  <2> QED BY <2>2, <2>3
<1>3. D.rev[q].st # "unused" => FinalSet \in D.rev[q].req
  BY DEF Asked
<1>4. ASSUME D.rev[q].st = "superseded"
      PROVE  \E t \in Revs : Promoted(D, t) /\ D.cr[t].init = q
  <2>1. q # r /\ d.rev[q].st = "superseded"
    BY <1>4 DEF Promoted
  <2>2. PICK t \in Revs : Promoted(d, t) /\ d.cr[t].init = q
    BY <2>1 DEF Asked
  <2> QED BY <1>1, <2>2
<1> QED
  BY <1>2, <1>3, <1>4

LEMMA InitDecides == Init => Decision(db)
<1> SUFFICES ASSUME NEW state \in {"new", "newexternal"}, db = NoRows(state), Init
             PROVE  Decision(db)
  BY DEF Init
<1>1. \A r \in Revs : /\ db.rev[r].st = "unused" /\ db.cr[r].st = "none"
                      /\ \A s \in Sets : /\ db.cr[r].appr[s].st = "none"
                                         /\ db.cr[r].appr[s].sig = NoSig
  BY DEF NoRows
<1>2. Settled(db)
  BY <1>1 DEF Settled, Sealed, Done, Judged
<1>3. Asked(db)
  BY <1>1 DEF Asked
<1> QED
  BY <1>2, <1>3, InitHolds DEF Decision, Inv

LEMMA EditDomainDecides ==
  ASSUME Inv, Decision(db), NEW state \in {"new", "newexternal"}, EditDomain(state)
  PROVE  Decision(db')
<1>1. Base(db') /\ Cause(db')
  BY EditDomainKeeps DEF Inv
<1>2. db'.rev = db.rev /\ db'.cr = db.cr
  BY DEF EditDomain, Decision, Base, Rows
<1> QED
  BY <1>1, <1>2 DEF Decision, Settled, Asked, Needed, Promoted, Live

LEMMA DraftDecides ==
  ASSUME NEW d, Base(d), Settled(d), Asked(d), NEW r \in Revs, NEW D,
         d.rev[r].st \in {"unused", "new"},
         NEW x \in Revision, x.st = "new", FinalSet \in x.req,
         D = [d EXCEPT !.rev[r] = x]
  PROVE  Settled(D) /\ Asked(D)
<1>1. /\ D.cr = d.cr /\ D.rev[r] = x /\ \A q \in Revs \ {r} : D.rev[q] = d.rev[q]
      /\ d \in Rows
  BY DEF Base, Rows
<1>2. ~Promoted(d, r) /\ ~Promoted(D, r)
  BY <1>1 DEF Promoted, Live, LiveStates
<1>3. Asked(D)
  BY <1>1, <1>2, EditKeepsAsked
<1> QED
  BY <1>1, <1>3 DEF Settled

LEMMA RevisionDecides ==
  ASSUME Inv, Decision(db), NEW r \in Revs, NEW desired \in Wanted,
         NEW req \in SUBSET (Sets \ {FinalSet}),
         CreateRevision(r, desired, req) \/ EditRevision(r, desired, req)
  PROVE  Decision(db')
<1>1. Base(db') /\ Cause(db')
  BY CreateRevisionKeeps, EditRevisionKeeps DEF Inv
<1>2. CASE CreateRevision(r, desired, req)
  <2> DEFINE x == [st |-> "new", desired |-> desired, req |-> req \cup {FinalSet}]
  <2>1. x \in Revision /\ x.st = "new" /\ FinalSet \in x.req
    BY WantedAssumption, FinalSetAssumption DEF Revision, RevStates
  <2>2. db' = [db EXCEPT !.rev[r] = x] /\ db.rev[r].st = "unused"
    BY <1>2 DEF CreateRevision
  <2> HIDE DEF x
  <2> QED BY <1>1, <2>1, <2>2, DraftDecides DEF Decision
<1>3. CASE EditRevision(r, desired, req)
  <2> DEFINE x == [db.rev[r] EXCEPT !.desired = desired, !.req = req \cup {FinalSet}]
  <2>1. db' = [db EXCEPT !.rev[r] = x] /\ db.rev[r].st = "new"
    BY <1>3 DEF EditRevision
  <2>2. x \in Revision /\ x.st = "new" /\ FinalSet \in x.req
    <3>1. db.rev[r] \in Revision
      BY DEF Decision, Base, Rows
    <3> QED BY <2>1, <3>1, WantedAssumption, FinalSetAssumption DEF Revision
  <2> HIDE DEF x
  <2> QED BY <1>1, <2>1, <2>2, DraftDecides DEF Decision
<1> QED
  BY <1>2, <1>3

LEMMA StartApprovalProcessDecides ==
  ASSUME Inv, Decision(db), NEW r \in Revs, StartApprovalProcess(r)
  PROVE  Decision(db')
<1> DEFINE D == Started(db, r)
<1>1. db.rev[r].st = "new" /\ db' = RefreshCR(roster, D, r) /\ db \in Rows
  BY DEF StartApprovalProcess, Started, Decision, Base
<1>2. /\ Base(D) /\ D.rev[r].st = "pendingapproval" /\ D.rev[r].req = db.rev[r].req
      /\ D.cr[r] = NewCR(db)
      /\ \A q \in Revs \ {r} : D.rev[q] = db.rev[q] /\ D.cr[q] = db.cr[q]
  BY <1>1, StartedKeepsBase DEF Decision
<1> HIDE DEF D
<1>3. /\ NewCR(db).st = "pendingapproval" /\ NewCR(db).init = db.current
      /\ \A s \in Sets : /\ NewCR(db).appr[s].sig = NoSig
                         /\ NewCR(db).appr[s].st \in {"new", "none"}
                         /\ NewCR(db).appr[s].st # "none" <=> s \in Needed(db, db.current)
  BY DEF NewCR, Needed
<1>4. Settled(D)
  <2>1. Sealed(NewCR(db)) /\ Done(NewCR(db))
    BY <1>3 DEF Sealed, Done, Judged, Final
  <2> QED BY <1>2, <2>1 DEF Settled, Decision
<1>5. Asked(D)
  <2>1. ~Promoted(db, r) /\ ~Promoted(D, r)
    BY <1>1, <1>2 DEF Promoted, Live, LiveStates
  <2>2. FinalSet \in D.rev[r].req
    BY <1>1, <1>2 DEF Decision, Asked
  <2>3. /\ db.current \in Revs \cup {None}
        /\ db.current # None => Promoted(db, db.current)
    BY <1>1, CurrentIsLive DEF Decision, Rows, Promoted, Live
  <2>4. Needed(db, db.current) \subseteq Sets
    <3>1. CASE db.current = None
      BY <3>1, FinalSetAssumption DEF Needed
    <3>2. CASE db.current # None
      BY <1>1, <2>3, <3>2 DEF Needed, Rows, Revision
    <3> QED BY <3>1, <3>2
  <2>5. Required(NewCR(db).appr) = Needed(db, db.current)
    BY <1>3, <2>4 DEF Required
  <2>6. /\ Required(D.cr[r].appr) = Needed(db, D.cr[r].init)
        /\ D.cr[r].init \in Revs \cup {None}
        /\ D.cr[r].init # None => Promoted(db, D.cr[r].init)
    BY <1>2, <1>3, <2>3, <2>5
  <2> QED BY <1>1, <1>2, <2>1, <2>2, <2>6, EditKeepsAsked DEF Decision
<1> QED
  BY <1>1, <1>2, <1>4, <1>5, RefreshCRKeepsDecision

LEMMA CancelDecides ==
  ASSUME Inv, Decision(db), NEW r \in Revs, Cancel(r)
  PROVE  Decision(db')
<1> DEFINE D == Cancelled(db, r)
           d == DomainUpdateState(roster, D)
<1>1. /\ r \in Open(db) /\ db \in Rows
      /\ db' = IF d.cr[r].st = "none" THEN d ELSE UpdateCR(roster, d, r)
  BY DEF Cancel, Cancelled, Decision, Base
<1>2. /\ Base(D) /\ D.cr = db.cr
      /\ D.rev[r].st = "cancelled" /\ D.rev[r].req = db.rev[r].req
      /\ \A q \in Revs \ {r} : D.rev[q] = db.rev[q]
  BY <1>1, CancelledKeepsBase DEF Decision
<1> HIDE DEF D
<1>3. Settled(D)
  BY <1>2 DEF Settled, Decision
<1>4. Asked(D)
  <2>1. ~Promoted(db, r) /\ ~Promoted(D, r)
    BY <1>1, <1>2 DEF Promoted, Live, LiveStates, Open
  <2>2. FinalSet \in D.rev[r].req
    BY <1>1, <1>2 DEF Decision, Asked, Open
  <2> QED BY <1>1, <1>2, <2>1, <2>2, EditKeepsAsked DEF Decision, Open
<1>5. Decision(d)
  BY <1>2, <1>3, <1>4, DomainUpdateStateKeepsDecision
<1> HIDE DEF d
<1> QED
  BY <1>1, <1>5, UpdateCRKeepsDecision DEF Open

(* The verdict of the upload that is kept: the CR asks for that approval    *)
(* alone and was not decided, so it is sealed again.                        *)
LEMMA VerdictDecides ==
  ASSUME NEW d, Decision(d), NEW r \in Revs, NEW s \in Sets,
         NEW sig \in Signatures, sig.action \in Judged,
         d.cr[r].appr[s].st = "pendingapproval",
         Required(d.cr[r].appr) = {s},
         NEW a, a = [st |-> sig.action, sig |-> sig],
         NEW D, D = [d EXCEPT !.cr[r].appr[s] = a]
  PROVE  Decision(D)
<1>1. /\ a \in Approval /\ a.st \in Judged /\ a.sig # NoSig /\ a.sig.action = a.st
  BY NoSigAssumption DEF Approval, ApprovalStates, Judged
<1>2. Base(D) /\ Cause(D) /\ Evolves(d, D)
  BY <1>1, SignKeeps DEF Decision, Judged
<1>3. /\ D.rev = d.rev
      /\ \A q \in Revs : /\ D.cr[q].st = d.cr[q].st
                         /\ \A t \in Sets : D.cr[q].appr[t] =
                              IF q = r /\ t = s THEN a ELSE d.cr[q].appr[t]
      /\ \A q \in Revs \ {r} : D.cr[q] = d.cr[q]
  BY DEF Decision, Base, Rows, ChangeRequest
<1>4. \A q \in Revs : Required(D.cr[q].appr) = Required(d.cr[q].appr)
  BY <1>1, <1>3 DEF Required, Judged
<1>5. d.cr[r].st \notin Final
  BY DEF Decision, Settled, Done
<1>6. ASSUME NEW t \in Sets, t # s
      PROVE  d.cr[r].appr[t].st = "none" /\ d.cr[r].appr[t].sig = NoSig
  <2>1. d.cr[r].appr[t].st = "none"
    BY <1>6 DEF Required
  <2> QED BY <2>1 DEF Decision, Settled, Sealed, Judged
<1>7. Sealed(D.cr[r])
  BY <1>1, <1>3, <1>4, <1>5, <1>6 DEF Sealed, Judged, Final
<1>8. Done(D.cr[r])
  BY <1>3, <1>5 DEF Done
<1>9. Settled(D)
  BY <1>3, <1>7, <1>8 DEF Settled, Decision
<1>10. SameNeeds(d, D)
  BY <1>3, <1>4, Zenon DEF SameNeeds
<1>11. Asked(D)
  BY <1>2, <1>10, AskedStays, ZenonT(30) DEF Decision
<1> QED
  BY <1>2, <1>9, <1>11, Zenon DEF Decision

LEMMA UploadSignatureDecides ==
  ASSUME Inv, Decision(db), NEW r \in Revs, NEW s \in Sets, NEW sig \in Signatures,
         sig.action \in Judged, UploadSignature(r, s, sig)
  PROVE  Decision(db')
<1> DEFINE d == RefreshCR(roster, db, r)
           signed == [d EXCEPT !.cr[r].appr[s].sig = sig]
           decided == [signed EXCEPT !.cr[r].appr[s].st = sig.action]
           kept == [d.cr[r].appr[s] EXCEPT !.sig = sig]
           judged == [signed.cr[r].appr[s] EXCEPT !.st = sig.action]
<1>1. \/ db' = d
      \/ /\ d.cr[r].appr[s].st = "pendingapproval" /\ VerifyCR(roster, signed)
         /\ db' = UpdateCR(roster, decided, r)
  BY DEF UploadSignature, Judged
<1>2. Decision(d)
  BY RefreshCRKeepsDecision DEF Decision
<1> HIDE DEF d
<1>3. /\ d \in Rows /\ d.cr \in [Revs -> ChangeRequest]
      /\ d.cr[r].appr \in [Sets -> Approval] /\ d.cr[r].appr[s] \in Approval
  BY <1>2 DEF Decision, Base, Rows, ChangeRequest
<1>4. decided = [signed EXCEPT !.cr[r].appr[s] = judged]
  <2> HIDE DEF signed
  <2> QED OBVIOUS
<1>5. signed = [d EXCEPT !.cr[r].appr[s] = kept] /\ signed.cr[r].appr[s] = kept
  BY <1>3 DEF Rows, ChangeRequest
<1>6. judged = [st |-> sig.action, sig |-> sig]
  BY <1>3, <1>5 DEF Approval
<1>7. OtherSignature(d, signed, r, s)
  BY <1>3 DEF OtherSignature, Rows, ChangeRequest, Approval
<1> HIDE DEF signed, decided, kept, judged
<1>8. decided = [d EXCEPT !.cr[r].appr[s] = judged]
  <2> DEFINE c == d.cr[r]
             x == [c.appr EXCEPT ![s] = kept]
             y == [c.appr EXCEPT ![s] = judged]
             cx == [c EXCEPT !.appr = x]
             cy == [c EXCEPT !.appr = y]
  <2>1. c \in ChangeRequest /\ c.appr \in [Sets -> Approval]
    BY <1>3
  <2> HIDE DEF c
  <2>2. [x EXCEPT ![s] = judged] = y
    BY <2>1
  <2> HIDE DEF x, y
  <2>3. [cx EXCEPT !.appr = y] = cy /\ cx.appr = x
    BY <2>1 DEF ChangeRequest
  <2> HIDE DEF cx, cy
  <2>4. signed = [d EXCEPT !.cr = [d.cr EXCEPT ![r] = cx]]
    BY <1>5 DEF cx, x, c
  <2>5. signed.cr = [d.cr EXCEPT ![r] = cx] /\ signed.cr[r] = cx
    BY <1>3, <2>4 DEF Rows
  <2>6. [signed.cr EXCEPT ![r] = cy] = [d.cr EXCEPT ![r] = cy]
    BY <1>3, <2>5
  <2>7. decided = [signed EXCEPT !.cr = [signed.cr EXCEPT ![r] = cy]]
    BY <1>4, <2>2, <2>3, <2>5
  <2>8. decided = [d EXCEPT !.cr = [d.cr EXCEPT ![r] = cy]]
    BY <1>3, <2>4, <2>6, <2>7 DEF Rows
  <2> QED BY <2>8 DEF cy, y, c
<1>9. CASE /\ d.cr[r].appr[s].st = "pendingapproval" /\ VerifyCR(roster, signed)
           /\ db' = UpdateCR(roster, decided, r)
  <2>1. Required(d.cr[r].appr) = {s}
    BY <1>2, <1>7, <1>9, SignerAlone DEF Decision
  <2>2. Decision(decided)
    BY <1>2, <1>6, <1>8, <1>9, <2>1, VerdictDecides
  <2> QED BY <1>9, <2>2, UpdateCRKeepsDecision
<1> QED
  BY <1>1, <1>2, <1>9, Zenon

LEMMA ApproverSetPromotedDecides ==
  ASSUME Inv, Decision(db), NEW s \in Sets, NEW active \in BOOLEAN,
         NEW members \in SUBSET Approvers, NEW nested,
         ApproverSetPromoted(s, active, members, nested)
  PROVE  Decision(db')
<1>1. PICK e : db' = ApproverSetCascade(e, db, s, nested)
  BY DEF ApproverSetPromoted
<1>2. /\ Base(db') /\ Cause(db') /\ Evolves(db, db') /\ Decides(db, db')
  BY <1>1, ApproverSetCascadeKeeps, ApproverSetCascadeDecides DEF Decision
<1> QED
  BY <1>2, AskedStays DEF Decision, Decides

LEMMA NextDecides ==
  ASSUME Verdicts \subseteq Judged, Inv, Decision(db), [Next]_vars
  PROVE  Decision(db')
<1>1. ASSUME NEW state \in {"new", "newexternal"}, EditDomain(state)
      PROVE  Decision(db')
  BY <1>1, EditDomainDecides
<1>2. ASSUME NEW r \in Revs, NEW desired \in Wanted,
             NEW req \in SUBSET (Sets \ {FinalSet}),
             CreateRevision(r, desired, req) \/ EditRevision(r, desired, req)
      PROVE  Decision(db')
  BY <1>2, RevisionDecides
<1>3. ASSUME NEW r \in Revs, StartApprovalProcess(r) PROVE Decision(db')
  BY <1>3, StartApprovalProcessDecides
<1>4. ASSUME NEW r \in Revs, Cancel(r) PROVE Decision(db')
  BY <1>4, CancelDecides
<1>5. ASSUME NEW r \in Revs, NEW s \in Sets, RefuseUpload(r, s) PROVE Decision(db')
  BY <1>5, RefreshCRKeepsDecision DEF RefuseUpload, Decision
<1>6. ASSUME NEW r \in Revs, NEW s \in Sets, NEW sig \in Signatures,
             sig.action \in Verdicts, UploadSignature(r, s, sig)
      PROVE  Decision(db')
  BY <1>6, UploadSignatureDecides
<1>7. ASSUME NEW s \in Sets, NEW active \in BOOLEAN, NEW members \in SUBSET Approvers,
             NEW nested \in BOOLEAN, ApproverSetPromoted(s, active, members, nested)
      PROVE  Decision(db')
  BY <1>7, ApproverSetPromotedDecides
<1>8. ASSUME NEW a \in Approvers, NEW active \in BOOLEAN, ApproverPromoted(a, active)
      PROVE  Decision(db')
  BY <1>8 DEF ApproverPromoted
<1>9. CASE UNCHANGED vars
  BY <1>9 DEF vars
<1> QED
  BY <1>1, <1>2, <1>3, <1>4, <1>5, <1>6, <1>7, <1>8, <1>9 DEF Next

-----------------------------------------------------------------------------
(* The strengthened invariant holds in every reachable state: CRs sealed and *)
(* settled, and asking for the sets of what they were written against.      *)
THEOREM DecisionInvariance ==
  ASSUME Verdicts \subseteq Judged
  PROVE  Spec => [](Inv /\ Decision(db))
<1>1. Init => Inv /\ Decision(db)
  BY InitHolds, InitDecides
<1>2. Inv /\ Decision(db) /\ [Next]_vars => (Inv /\ Decision(db))'
  BY NextKeeps, NextDecides
<1> QED
  BY <1>1, <1>2, PTL DEF Spec

(* While every attestation approves or declines, a CR that was decided or   *)
(* cancelled waits for no signature, however approver sets are changed and  *)
(* requests follow on one another.                                          *)
THEOREM DecidedTakesNoSignatureHolds ==
  ASSUME Verdicts \subseteq Judged
  PROVE  Spec => []DecidedTakesNoSignature
<1>1. Inv /\ Decision(db) => DecidedTakesNoSignature
  BY DEF Decision, Settled, Done, DecidedTakesNoSignature
<1> QED
  BY <1>1, DecisionInvariance, PTL

(* A CR that asks for two approver sets never gets a signature, let alone   *)
(* a decision: whatever is approved or declined was so by one set alone.    *)
OneSetDecides ==
  \A r \in Revs, s \in Sets :
    /\ db.cr[r].appr[s].sig # NoSig => Required(db.cr[r].appr) = {s}
    /\ db.cr[r].st \in Judged => \E t \in Sets : Required(db.cr[r].appr) = {t}

(* No sequence of requests gets a CR with two approvals signed or decided.   *)
THEOREM OneSetDecidesHolds ==
  ASSUME Verdicts \subseteq Judged
  PROVE  Spec => []OneSetDecides
<1>1. Inv /\ Decision(db) => OneSetDecides
  <2> SUFFICES ASSUME Decision(db), NEW r \in Revs
               PROVE  /\ \A s \in Sets : db.cr[r].appr[s].sig # NoSig =>
                           Required(db.cr[r].appr) = {s}
                      /\ db.cr[r].st \in Judged =>
                           \E t \in Sets : Required(db.cr[r].appr) = {t}
    BY DEF OneSetDecides
  <2>1. Sealed(db.cr[r])
    BY DEF Decision, Settled
  <2> QED BY <2>1 DEF Sealed
<1> QED
  BY <1>1, DecisionInvariance, PTL
=============================================================================
