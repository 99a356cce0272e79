------------------------- MODULE ObjectChangeProofs -------------------------
(***************************************************************************)
(* Proofs about ObjectChange and ObjectLedger, for any number of revisions *)
(* and change requests and for all troubles together.  A request is a list *)
(* of row saves: what must survive a crash is kept by every save of the    *)
(* list, what holds without one by its last save.                          *)
(***************************************************************************)
EXTENDS ObjectLedger, SequenceTheorems, WellFoundedInduction, TLAPS

(* Parts of the invariant that every single save keeps. *)

OnceInForce(d, r) == d.rev[r].st \in Live \cup {"superseded"}

(* CR c approved revision r as it is, with an attestation of both. *)
Witness(d, c, r) ==
  /\ d.cr[c].st = "approved" /\ d.cr[c].rev = r
  /\ d.cr[c].signed # Unsigned
  /\ d.cr[c].signed.cr = c /\ d.cr[c].signed.rev = r
  /\ d.cr[c].signed.action = "approved"
  /\ d.cr[c].signed.desired = d.rev[r].desired

Witnessed(d) ==
  \A r \in Revs : OnceInForce(d, r) /\ d.rev[r].desired # "bootstrap" =>
    \E c \in CRs : Witness(d, c, r)

(* An approved CR holds an attestation that approves. *)
ApprovedIsSigned(d) ==
  \A c \in CRs : d.cr[c].st = "approved" =>
    d.cr[c].signed # Unsigned /\ d.cr[c].signed.action = "approved"

(* Only the revision BootstrapRegistrar puts in force wants "bootstrap". *)
OnlyRootBootstraps(d) ==
  \A r \in Revs :
    d.rev[r].st = "new" \/ d.current = None => d.rev[r].desired # "bootstrap"

(* The object names a revision that exists. *)
CurrentExists(d) == d.current # None => d.rev[d.current].st # "unused"

Base(d) ==
  /\ d \in Rows
  /\ Witnessed(d) /\ ApprovedIsSigned(d) /\ OnlyRootBootstraps(d)
  /\ CurrentExists(d)

(* What a request may not undo. *)
Ended == {"cancelled", "approvalfailed", "superseded"}
Decided == {"approved", "declined", "cancelled"}
CRsKept(d, e) == \A c \in CRs : d.cr[c].st \in Decided => e.cr[c] = d.cr[c]
RevsKept(d, e) == \A r \in Revs : d.rev[r].st \in Ended => e.rev[r].st = d.rev[r].st

(* The rows that the saves of a request may lead to. *)
Onward(d) == {e \in Rows : Base(e) /\ CRsKept(d, e) /\ RevsKept(d, e)}

(* Those that an overtaken or restarted one may lead to. *)
Kept(d) == {e \in Rows : Base(e) /\ CRsKept(d, e)}

(* Parts that hold between requests, as long as none was cut short. *)
Alone(d) ==
  /\ d.current = None => \A r \in Revs : ~OnceInForce(d, r)
  /\ d.current # None /\ d.rev[d.current].st \in Live =>
       \A r \in Revs : d.rev[r].st \in Live => r = d.current

(* Parts that hold between requests, as long as there was no trouble. *)
OneOfThem(d) == \A r \in Revs : d.rev[r].st \in Live <=> r = d.current
OpenAsked(d) ==
  \A r \in Revs :
    /\ d.rev[r].st = "new" => d.rev[r].cr = None
    /\ d.rev[r].st = "pendingapproval" =>
         d.rev[r].cr # None /\ d.rev[r].desired # "bootstrap"
    /\ d.rev[r].cr # None => d.cr[d.rev[r].cr].st # "unused"
(* What a revision replaced was superseded, and is nobody else's to replace. *)
Approved(d, r) == OnceInForce(d, r) /\ d.rev[r].cr # None
Initial(d, r) == d.cr[d.rev[r].cr].init
Replaced(d) ==
  /\ \A r \in Revs : Approved(d, r) /\ Initial(d, r) # None =>
       d.rev[Initial(d, r)].st = "superseded"
  /\ \A r, q \in Revs :
       Approved(d, r) /\ Approved(d, q) /\ Initial(d, r) = Initial(d, q) => r = q
Sound(d) == Alone(d) /\ OneOfThem(d) /\ OpenAsked(d) /\ Replaced(d)
Cause(d) ==
  d.state \in PendingStates => \E r \in Revs : d.rev[r].st = "pendingapproval"

LateAsRead ==
  late # Unsigned =>
    /\ "race" \in trouble
    /\ late.op # "cancel" => late.row.st = "new" /\ late.row.desired # "bootstrap"

Inv ==
  /\ kind \in Kinds /\ root \in BOOLEAN
  /\ Base(db)
  /\ paper \in Attestations \cup {Unsigned}
  /\ late \in LateRequests \cup {Unsigned} /\ LateAsRead
  /\ trouble \subseteq Faults
  /\ "crash" \notin trouble => Alone(db)
  /\ trouble = {} => Sound(db) /\ Cause(db)

-----------------------------------------------------------------------------
(* Lists of saves *)

(* A list ends with one of its saves. *)
LEMMA AfterIsASave ==
  ASSUME NEW S, NEW s \in Seq(S), s # <<>>
  PROVE  After(s) \in S
BY DEF After

(* A list that goes on with another one ends as that one does. *)
LEMMA AfterConcat ==
  ASSUME NEW S, NEW s \in Seq(S), NEW t \in Seq(S), t # <<>>
  PROVE  s \o t \in Seq(S) /\ s \o t # <<>> /\ After(s \o t) = After(t)
<1>1. /\ s \o t \in Seq(S) /\ Len(s \o t) = Len(s) + Len(t)
      /\ \A i \in 1 .. Len(s) + Len(t) :
           (s \o t)[i] = IF i <= Len(s) THEN s[i] ELSE t[i - Len(s)]
  BY ConcatProperties
<1>2. Len(s) \in Nat /\ Len(t) \in Nat /\ Len(t) # 0
  BY EmptySeq, LenProperties
<1>3. Len(s) + Len(t) > Len(s) /\ Len(s) + Len(t) - Len(s) = Len(t)
  BY <1>2
<1> QED
  BY <1>1, <1>2, <1>3 DEF After

(* A request makes all its saves, or a crash leaves it at one of them. *)
LEMMA DoesSome ==
  ASSUME NEW S, NEW s \in Seq(S), s # <<>>, Does(s)
  PROVE  /\ db' \in S
         /\ trouble \subseteq trouble' /\ trouble' \subseteq trouble \cup {"crash"}
         /\ trouble' = trouble \/ "crash" \in Faults
         /\ "crash" \notin trouble' => db' = After(s)
<1>1. PICK n \in 1 .. Len(s) :
        /\ n < Len(s) => "crash" \in Faults \ trouble /\ s[n] # After(s)
        /\ db' = s[n]
        /\ trouble' = IF n < Len(s) THEN trouble \cup {"crash"} ELSE trouble
  BY DEF Does
<1>2. Len(s) \in Nat /\ s[n] \in S
  BY LenProperties, ElementOfSeq
<1>3. CASE n < Len(s)
  BY <1>1, <1>2, <1>3
<1>4. CASE ~(n < Len(s))
  <2>1. n = Len(s)
    BY <1>2, <1>4
  <2> QED
    BY <1>1, <1>2, <2>1 DEF After
<1> QED
  BY <1>3, <1>4

-----------------------------------------------------------------------------
(* Single saves *)

(* A request may go on from where it has got to. *)
LEMMA OnwardFurther ==
  ASSUME NEW d, NEW e \in Onward(d)
  PROVE  Onward(e) \subseteq Onward(d)
BY DEF Onward, CRsKept, RevsKept, Decided, Ended

LEMMA KeptFurther ==
  ASSUME NEW d
  PROVE  /\ Onward(d) \subseteq Kept(d)
         /\ \A e \in Kept(d) : Kept(e) \subseteq Kept(d) /\ Onward(e) \subseteq Kept(d)
BY DEF Kept, Onward, CRsKept, Decided

(* The rows as they are. *)
LEMMA OnwardSame ==
  ASSUME NEW d, Base(d)
  PROVE  d \in Onward(d)
BY DEF Onward, CRsKept, RevsKept, Base

(* The object's own state. *)
LEMMA SaveState ==
  ASSUME NEW d, Base(d), NEW st, [d EXCEPT !.state = st] \in Rows
  PROVE  [d EXCEPT !.state = st] \in Onward(d)
<1> DEFINE e == [d EXCEPT !.state = st]
<1>1. /\ d \in Rows /\ e \in Rows
      /\ e.rev = d.rev /\ e.cr = d.cr /\ e.current = d.current
  BY DEF Base, Rows
<1> HIDE DEF e
<1>2. e \in Onward(d)
  BY <1>1 DEF Onward, CRsKept, RevsKept, Base, Witnessed, Witness, OnceInForce,
              ApprovedIsSigned, OnlyRootBootstraps, CurrentExists
<1> QED
  BY <1>2 DEF e

(* A revision that is neither put in force nor brought back. *)
LEMMA SaveRevision ==
  ASSUME NEW d, Base(d), NEW r \in Revs, NEW row \in Revision,
         row.st \notin Live \cup {"superseded", "unused"},
         row.desired # "bootstrap" \/ (row.st # "new" /\ d.current # None)
  PROVE  LET e == [d EXCEPT !.rev[r] = row] IN
           /\ Base(e) /\ CRsKept(d, e)
           /\ d.rev[r].st \notin Ended \/ row.st = d.rev[r].st => e \in Onward(d)
<1> DEFINE e == [d EXCEPT !.rev[r] = row]
<1>1. /\ d \in Rows /\ e \in Rows /\ e.cr = d.cr /\ e.current = d.current
      /\ e.rev[r] = row /\ \A q \in Revs : q # r => e.rev[q] = d.rev[q]
  BY DEF Base, Rows
<1> HIDE DEF e
<1>2. Witnessed(e)
  <2> SUFFICES ASSUME NEW q \in Revs, OnceInForce(e, q),
                      e.rev[q].desired # "bootstrap"
               PROVE  \E c \in CRs : Witness(e, c, q)
    BY DEF Witnessed
  <2>1. q # r /\ e.rev[q] = d.rev[q]
    BY <1>1 DEF OnceInForce
  <2>2. PICK c \in CRs : Witness(d, c, q)
    BY <2>1 DEF Base, Witnessed, OnceInForce
  <2> QED
    BY <1>1, <2>1, <2>2 DEF Witness
<1>3. ApprovedIsSigned(e)
  BY <1>1 DEF Base, ApprovedIsSigned
<1>4. OnlyRootBootstraps(e) /\ CurrentExists(e)
  BY <1>1 DEF Base, OnlyRootBootstraps, CurrentExists, Rows
<1>5. /\ Base(e) /\ CRsKept(d, e)
      /\ d.rev[r].st \notin Ended \/ row.st = d.rev[r].st => e \in Onward(d)
  BY <1>1, <1>2, <1>3, <1>4 DEF Onward, Base, CRsKept, RevsKept
<1> QED
  BY <1>5 DEF e

(* A CR that is not decided: made, advanced, or with another signature. *)
LEMMA SaveCR ==
  ASSUME NEW d, Base(d), NEW c \in CRs, NEW row \in ChangeRequest,
         d.cr[c].st \notin Decided,
         row.st = "approved" => row.signed # Unsigned /\ row.signed.action = "approved"
  PROVE  [d EXCEPT !.cr[c] = row] \in Onward(d)
<1> DEFINE e == [d EXCEPT !.cr[c] = row]
<1>1. /\ d \in Rows /\ e \in Rows /\ e.rev = d.rev /\ e.current = d.current
      /\ e.cr[c] = row /\ \A b \in CRs : b # c => e.cr[b] = d.cr[b]
  BY DEF Base, Rows
<1> HIDE DEF e
<1>2. Witnessed(e)
  <2> SUFFICES ASSUME NEW q \in Revs, OnceInForce(e, q),
                      e.rev[q].desired # "bootstrap"
               PROVE  \E b \in CRs : Witness(e, b, q)
    BY DEF Witnessed
  <2>1. PICK b \in CRs : Witness(d, b, q)
    BY <1>1 DEF Base, Witnessed, OnceInForce
  <2>2. b # c
    BY <2>1 DEF Witness, Decided
  <2> QED
    BY <1>1, <2>1, <2>2 DEF Witness
<1>3. ApprovedIsSigned(e)
  BY <1>1 DEF Base, ApprovedIsSigned
<1>4. OnlyRootBootstraps(e) /\ CurrentExists(e)
  BY <1>1 DEF Base, OnlyRootBootstraps, CurrentExists, Rows
<1>5. e \in Onward(d)
  BY <1>1, <1>2, <1>3, <1>4 DEF Onward, Base, CRsKept, RevsKept
<1> QED
  BY <1>5 DEF e

(* The object names its new current revision. *)
LEMMA SaveObject ==
  ASSUME NEW d, Base(d), NEW st, NEW k \in Revs, d.rev[k].st # "unused",
         [d EXCEPT !.state = st, !.current = k] \in Rows
  PROVE  [d EXCEPT !.state = st, !.current = k] \in Onward(d)
<1> DEFINE e == [d EXCEPT !.state = st, !.current = k]
<1>1. /\ d \in Rows /\ e \in Rows
      /\ e.rev = d.rev /\ e.cr = d.cr /\ e.current # None /\ e.current = k
  BY BoundsAssumption DEF Base, Rows, Revs, None
<1> HIDE DEF e
<1>2. e \in Onward(d)
  BY <1>1 DEF Onward, CRsKept, RevsKept, Base, Witnessed, Witness, OnceInForce,
              ApprovedIsSigned, OnlyRootBootstraps, CurrentExists
<1> QED
  BY <1>2 DEF e

(* A revision in force is superseded. *)
LEMMA SaveSuperseded ==
  ASSUME NEW d, Base(d), NEW k \in Revs, d.rev[k].st \in Live
  PROVE  [d EXCEPT !.rev[k].st = "superseded"] \in Onward(d)
<1> DEFINE e == [d EXCEPT !.rev[k].st = "superseded"]
<1>1. /\ d \in Rows /\ e \in Rows /\ e.cr = d.cr /\ e.current = d.current
      /\ e.rev[k].st = "superseded" /\ e.rev[k].desired = d.rev[k].desired
      /\ \A q \in Revs : q # k => e.rev[q] = d.rev[q]
  BY DEF Base, Rows, Revision
<1> HIDE DEF e
<1>2. Witnessed(e)
  BY <1>1 DEF Base, Witnessed, Witness, OnceInForce
<1>3. ApprovedIsSigned(e) /\ OnlyRootBootstraps(e) /\ CurrentExists(e)
  BY <1>1 DEF Base, ApprovedIsSigned, OnlyRootBootstraps, CurrentExists, Rows
<1>4. CRsKept(d, e) /\ RevsKept(d, e)
  BY <1>1 DEF CRsKept, RevsKept, Ended, Live
<1>5. e \in Onward(d)
  BY <1>1, <1>2, <1>3, <1>4 DEF Onward, Base
<1> QED
  BY <1>5 DEF e

(* A set of IDs has a lowest one. *)
LEMMA LowestExists ==
  ASSUME NEW S \in SUBSET Nat, S # {}
  PROVE  \E r \in S : \A q \in S : r <= q
<1>1. PICK r \in S : \A q \in S : ~(<<q, r>> \in OpToRel(<, Nat))
  BY NatLessThanWellFounded, WFMin, Zenon
<1>2. ASSUME NEW q \in S
      PROVE  r <= q
  <2>1. r \in Nat /\ q \in Nat
    OBVIOUS
  <2>2. OpToRel(<, Nat) = {ss \in Nat \X Nat : ss[1] < ss[2]}
    BY Zenon DEF OpToRel
  <2>3. <<q, r>> \notin {ss \in Nat \X Nat : ss[1] < ss[2]}
    BY <1>1, <2>2
  <2> QED
    BY <2>1, <2>3
<1> QED
  BY <1>2

(* The open revision with the lowest ID exists if there is an open one. *)
LEMMA PendingIsOpen ==
  ASSUME NEW d
  PROVE  /\ Pending(d) = None <=> Open(d) = {}
         /\ Pending(d) # None => Pending(d) \in Open(d) /\ Pending(d) \in Revs
<1>1. Open(d) \in SUBSET Nat /\ None \notin Open(d) /\ Open(d) \subseteq Revs
  BY BoundsAssumption DEF Open, Revs, None
<1>2. Open(d) # {} => \E r \in Open(d) : \A q \in Open(d) : r <= q
  BY <1>1, LowestExists
<1> QED
  BY <1>1, <1>2 DEF Pending

(* The pending revision is put in force: VerifyCR has just looked at the    *)
(* attestation of its CR, and an approved CR holds one that approves.       *)
LEMMA SavePromoted ==
  ASSUME NEW d, Base(d), VerifyCR(d), Pending(d) # None,
         d.cr[d.rev[Pending(d)].cr].st = "approved"
  PROVE  [d EXCEPT !.rev[Pending(d)].st = d.rev[Pending(d)].desired] \in Onward(d)
<1> DEFINE p == Pending(d)
           c == d.rev[p].cr
           e == [d EXCEPT !.rev[p].st = d.rev[p].desired]
<1>1. p \in Revs /\ p \in Open(d)
  BY PendingIsOpen
<1> HIDE DEF p
<1>2. /\ d \in Rows /\ e \in Rows /\ e.cr = d.cr /\ e.current = d.current
      /\ e.rev[p].st = d.rev[p].desired /\ e.rev[p].desired = d.rev[p].desired
      /\ \A q \in Revs : q # p => e.rev[q] = d.rev[q]
      /\ d.rev[p].desired \in Desired
  <2>1. d \in Rows /\ d.rev[p] \in Revision
    BY <1>1 DEF Base, Rows
  <2>2. d.rev[p].desired \in Desired /\ d.rev[p].desired \in Live
    BY <2>1 DEF Revision, Desired, Live
  <2> DEFINE row == [d.rev[p] EXCEPT !.st = d.rev[p].desired]
  <2>3. row \in Revision /\ row.st = d.rev[p].desired /\ row.desired = d.rev[p].desired
    BY <2>1, <2>2 DEF Revision
  <2>4. e = [d EXCEPT !.rev[p] = row]
    OBVIOUS
  <2> HIDE DEF row, e
  <2>5. e \in Rows
    BY <1>1, <2>1, <2>3, <2>4 DEF Rows
  <2> QED
    BY <1>1, <2>1, <2>2, <2>3, <2>4, <2>5 DEF Rows
<1>3. c \in CRs /\ Witness(d, c, p)
  <2>1. c # None /\ d.cr[c].rev = p /\ d.cr[c].signed # Unsigned
        /\ d.cr[c].signed.cr = c /\ Compare(d.cr[c].signed, p, d.rev[p])
    BY DEF VerifyCR, p, None
  <2>2. c \in CRs
    BY <1>1, <1>2, <2>1 DEF Rows, Revision
  <2>3. d.cr[c].st = "approved" /\ d.cr[c].signed.action = "approved"
    BY <2>2 DEF p, Base, ApprovedIsSigned
  <2> QED
    BY <2>1, <2>2, <2>3, SMTT(60) DEF Witness, Compare
<1> HIDE DEF e, c
<1>4. Witnessed(e)
  <2> SUFFICES ASSUME NEW q \in Revs, OnceInForce(e, q),
                      e.rev[q].desired # "bootstrap"
               PROVE  \E b \in CRs : Witness(e, b, q)
    BY DEF Witnessed
  <2>1. CASE q = p
    BY <1>2, <1>3, <2>1 DEF Witness
  <2>2. CASE q # p
    <3>1. PICK b \in CRs : Witness(d, b, q)
      BY <1>2, <2>2 DEF Base, Witnessed, OnceInForce
    <3> QED
      BY <1>2, <2>2, <3>1 DEF Witness
  <2> QED
    BY <2>1, <2>2
<1>5. ApprovedIsSigned(e) /\ OnlyRootBootstraps(e) /\ CurrentExists(e)
  BY <1>1, <1>2 DEF Base, ApprovedIsSigned, OnlyRootBootstraps, CurrentExists, Desired, Rows
<1>6. CRsKept(d, e) /\ RevsKept(d, e)
  BY <1>1, <1>2 DEF CRsKept, RevsKept, Ended, Open
<1>7. e \in Onward(d)
  BY <1>2, <1>4, <1>5, <1>6 DEF Onward, Base
<1> QED
  BY <1>7 DEF e, p

-----------------------------------------------------------------------------
(* UpdateState of the object *)

RestStates == {"new", "approvalfailed", "pendingapproval", "superseded", "cancelled"}

(* The way back for an object that waits for nothing. *)
LEMMA RevertSaves ==
  ASSUME NEW d, Base(d)
  PROVE  Revert(d) \in Seq(Onward(d)) /\ Revert(d) # <<>>
<1> DEFINE st == IF d.state = "pendingbootstrap" THEN "bootstrap"
                 ELSE IF d.current # None THEN d.rev[d.current].desired
                 ELSE "new"
           e == [d EXCEPT !.state = st]
<1>1. d \in Rows /\ (d.current # None => d.rev[d.current] \in Revision)
  BY DEF Base, Rows
<1>2. st \in {"new"} \cup Live
  BY <1>1 DEF Revision, Desired, Live
<1>3. Revert(d) = <<e>>
  BY DEF Revert
<1> HIDE DEF st
<1>4. e \in Rows
  BY <1>1, <1>2 DEF Rows
<1>5. e \in Onward(d)
  BY <1>4, SaveState
<1> HIDE DEF e
<1> QED
  BY <1>3, <1>5

(* A decline. *)
LEMMA DeclineSaves ==
  ASSUME NEW d, Base(d), NEW p \in Open(d)
  PROVE  Decline(d, p) \in Seq(Onward(d)) /\ Decline(d, p) # <<>>
<1> DEFINE row == [d.rev[p] EXCEPT !.st = "approvalfailed"]
           e == [d EXCEPT !.rev[p] = row]
           st == IF d.current = None THEN "new"
                 ELSE IF e.rev[d.current].st = "bootstrap" THEN "active"
                 ELSE e.rev[d.current].st
           f == [e EXCEPT !.state = st]
<1>1. d \in Rows /\ p \in Revs /\ d.rev[p] \in Revision
      /\ d.rev[p].st \in {"new", "pendingapproval"}
  BY DEF Base, Rows, Open
<1>2. row \in Revision /\ row.st = "approvalfailed" /\ row.desired = d.rev[p].desired
  BY <1>1 DEF Revision
<1>3. Decline(d, p) = <<e, f>>
  BY DEF Decline
<1>4. d.current = None => d.rev[p].desired # "bootstrap"
  BY <1>1 DEF Base, OnlyRootBootstraps
<1> HIDE DEF row
<1>5. e \in Onward(d)
  BY <1>1, <1>2, <1>4, SaveRevision DEF Live, Ended
<1>6. e \in Rows /\ Base(e) /\ e.current = d.current
  BY <1>1, <1>5 DEF Onward, Rows
<1>7. st \in RestStates \cup Live
  BY <1>6 DEF Base, CurrentExists, Rows, Revision, RestStates, Live
<1> HIDE DEF e, st
<1>8. f \in Rows
  BY <1>6, <1>7 DEF Rows, RestStates
<1>9. f \in Onward(e)
  BY <1>6, <1>8, SaveState
<1>10. f \in Onward(d)
  BY <1>5, <1>9, OnwardFurther
<1> HIDE DEF f
<1> QED
  BY <1>3, <1>5, <1>10

(* A promotion. *)
LEMMA PromoteSaves ==
  ASSUME NEW d, Base(d), VerifyCR(d), Pending(d) # None,
         d.cr[d.rev[Pending(d)].cr].st = "approved"
  PROVE  /\ Promote(d, Pending(d)) \in Seq(Onward(d))
         /\ Promote(d, Pending(d)) # <<>>
<1> DEFINE p == Pending(d)
           e == [d EXCEPT !.rev[p].st = d.rev[p].desired]
           f == IF d.current = None THEN e
                ELSE [e EXCEPT !.rev[d.current].st = "superseded"]
           target == d.rev[p].desired
           g == [f EXCEPT !.state = target, !.current = p]
<1>1. p \in Revs /\ p \in Open(d)
  BY PendingIsOpen
<1>2. e \in Onward(d)
  BY SavePromoted
<1>3. Promote(d, p) =
        IF d.current # None /\ e.rev[d.current].st \notin Live THEN <<e>>
        ELSE IF target \notin {"active", "inactive"} THEN <<e, f>> ELSE <<e, f, g>>
  BY DEF Promote
<1>4. d \in Rows /\ d.current \in Revs \cup {None} /\ target \in Live
  <2>1. d \in Rows /\ d.rev[p] \in Revision
    BY <1>1 DEF Base, Rows
  <2> QED
    BY <2>1 DEF Rows, Revision, Desired, Live
<1>5. e.rev[p].st = target
  BY <1>1, <1>4 DEF Rows
<1> HIDE DEF p, e, target
<1>6. CASE d.current # None /\ e.rev[d.current].st \notin Live
  BY <1>2, <1>3, <1>6 DEF p
<1>7. CASE d.current = None \/ e.rev[d.current].st \in Live
  <2>1. f \in Onward(e)
    <3>1. CASE d.current = None
      BY <1>2, <3>1, OnwardSame DEF Onward
    <3>2. CASE d.current # None
      BY <1>2, <1>4, <1>7, <3>2, SaveSuperseded DEF Onward
    <3> QED
      BY <3>1, <3>2
  <2>2. f \in Onward(d) /\ f \in Rows /\ Base(f)
    BY <1>2, <2>1, OnwardFurther DEF Onward
  <2>3. f.rev[p].st \in {target, "superseded"}
    BY <1>1, <1>2, <1>4, <1>5 DEF Onward, Rows
  <2> HIDE DEF f
  <2>4. g \in Rows
    BY <1>1, <1>4, <2>2 DEF Rows
  <2>5. g \in Onward(f)
    BY <1>1, <1>4, <2>2, <2>3, <2>4, SaveObject DEF Live
  <2>6. g \in Onward(d)
    BY <2>2, <2>5, OnwardFurther
  <2> HIDE DEF g
  <2> QED
    BY <1>2, <1>3, <1>7, <2>2, <2>6 DEF p
<1> QED
  BY <1>6, <1>7

(* Whatever kind of object it is, and whatever it finds. *)
LEMMA SavesOnward ==
  ASSUME NEW d, Base(d), kind \in Kinds
  PROVE  /\ Saves(d) = ResolvePending(d)
         /\ Saves(d) \in Seq(Onward(d)) /\ Saves(d) # <<>>
         /\ UpdateState(d) \in Onward(d)
<1>1. Saves(d) = ResolvePending(d)
  BY KindsAssumption DEF Saves, AllKinds, HostUpdateState, ContactUpdateState,
     APIUserUpdateState, ApproverUpdateState, ApproverSetUpdateState
<1>2. <<d>> \in Seq(Onward(d)) /\ <<d>> # <<>>
  BY OnwardSame
<1>3. Pending(d) # None => Pending(d) \in Open(d)
  BY PendingIsOpen
<1>4. ResolvePending(d) \in Seq(Onward(d)) /\ ResolvePending(d) # <<>>
  BY <1>2, <1>3, RevertSaves, PromoteSaves, DeclineSaves DEF ResolvePending
<1> QED
  BY <1>1, <1>4, AfterIsASave DEF UpdateState

-----------------------------------------------------------------------------
(* UpdateState of a change request *)

Advanced(d, c) == [d EXCEPT !.cr[c].st = Advance(d, c)]
Undecided == {"new", "pendingapproval"}

(* Its own row: approved only by a signature that approves, and still a CR  *)
(* against what it was made against.                                        *)
LEMMA AdvancedRow ==
  ASSUME NEW d, Base(d), NEW c \in CRs
  PROVE  \E row \in ChangeRequest :
           /\ Advanced(d, c) = [d EXCEPT !.cr[c] = row]
           /\ row.st \in Decided \cup {"pendingapproval"}
           /\ row.init = d.cr[c].init
           /\ row.st = "approved" => row.signed # Unsigned /\ row.signed.action = "approved"
<1> DEFINE row == [d.cr[c] EXCEPT !.st = Advance(d, c)]
<1>1. d.cr[c] \in ChangeRequest
  BY DEF Base, Rows
<1>2. /\ Advance(d, c) \in Decided \cup {"pendingapproval"}
      /\ Advance(d, c) = "approved" =>
           d.cr[c].signed # Unsigned /\ d.cr[c].signed.action = "approved"
  <2>1. d.cr[c].signed # Unsigned => d.cr[c].signed.action \in {"approved", "declined"}
    BY <1>1 DEF ChangeRequest, Attestations
  <2> QED
    BY <2>1 DEF Advance, Decided
<1>3. /\ row \in ChangeRequest
      /\ row.st = Advance(d, c) /\ row.init = d.cr[c].init
      /\ row.st = "approved" => row.signed # Unsigned /\ row.signed.action = "approved"
  BY <1>1, <1>2 DEF ChangeRequest, Decided
<1>4. Advanced(d, c) = [d EXCEPT !.cr[c] = row]
  BY DEF Advanced
<1> HIDE DEF row
<1> QED
  BY <1>2, <1>3, <1>4

LEMMA AdvancedOnward ==
  ASSUME NEW d, Base(d), NEW c \in CRs, d.cr[c].st \in Undecided
  PROVE  Advanced(d, c) \in Onward(d)
<1>1. d.cr[c].st \notin Decided
  BY DEF Undecided, Decided
<1> QED
  BY <1>1, AdvancedRow, SaveCR

(* Then the object's. *)
LEMMA CRSavesOnward ==
  ASSUME NEW d, Base(d), NEW c \in CRs, kind \in Kinds
  PROVE  /\ CRSaves(d, c) \in Seq(Onward(d)) /\ CRSaves(d, c) # <<>>
         /\ After(CRSaves(d, c)) =
              IF d.cr[c].st \in Undecided THEN UpdateState(Advanced(d, c)) ELSE d
<1>1. CASE d.cr[c].st \in Undecided
  <2> DEFINE e == Advanced(d, c)
  <2>1. CRSaves(d, c) = <<e>> \o Saves(e)
    BY <1>1 DEF CRSaves, Advanced, Undecided
  <2>2. e \in Onward(d) /\ Base(e)
    BY <1>1, AdvancedOnward DEF Onward
  <2> HIDE DEF e
  <2> DEFINE first == <<e>>
             rest == Saves(e)
             S == Onward(d)
  <2>3. rest \in Seq(S) /\ rest # <<>>
    BY <2>2, SavesOnward, OnwardFurther
  <2>4. first \in Seq(S)
    BY <2>2
  <2>5. /\ CRSaves(d, c) = first \o rest
        /\ After(rest) = UpdateState(e)
    BY <2>1 DEF UpdateState
  <2> HIDE DEF first, rest, S
  <2>6. first \o rest \in Seq(S) /\ first \o rest # <<>>
        /\ After(first \o rest) = After(rest)
    BY <2>3, <2>4, AfterConcat
  <2> QED
    BY <1>1, <2>5, <2>6 DEF e, S
<1>2. CASE d.cr[c].st \notin Undecided
  <2>1. CRSaves(d, c) = <<d>>
    BY <1>2 DEF CRSaves, Undecided
  <2> QED
    BY <1>2, <2>1, OnwardSame DEF After
<1> QED
  BY <1>1, <1>2

-----------------------------------------------------------------------------
(* Requests *)

(* An edit of a revision that was read while it was new. *)
LEMMA EditSavesOnward ==
  ASSUME Base(db), NEW r \in Revs, NEW row \in Revision, row.st = "new",
         NEW desired \in {"active", "inactive"}
  PROVE  /\ EditSaves(r, row, desired) \in Seq(Kept(db))
         /\ EditSaves(r, row, desired) # <<>>
         /\ db.rev[r].st = "new" => EditSaves(r, row, desired) \in Seq(Onward(db))
<1> DEFINE edited == [row EXCEPT !.desired = desired]
           e == [db EXCEPT !.rev[r] = edited]
<1>1. edited \in Revision /\ edited.st = "new" /\ edited.desired = desired
  BY DEF Revision, Desired
<1>2. EditSaves(r, row, desired) = <<e>>
  BY DEF EditSaves
<1> HIDE DEF edited
<1>3. Base(e) /\ CRsKept(db, e) /\ (db.rev[r].st = "new" => e \in Onward(db))
  BY <1>1, SaveRevision DEF Live, Ended
<1>4. e \in Kept(db)
  BY <1>3 DEF Kept, Base
<1> HIDE DEF e
<1> QED
  BY <1>2, <1>3, <1>4

LowestUnused == CHOOSE b \in UnusedCRs : \A o \in UnusedCRs : b <= o

(* A start: the CR, the revision, the object, and what follows. *)
Asked(r) ==
  [db EXCEPT !.cr[LowestUnused] =
     [st |-> "new", rev |-> r, init |-> db.current, signed |-> Unsigned]]
Waits(r, row) ==
  [Asked(r) EXCEPT !.rev[r] = [row EXCEPT !.st = "pendingapproval", !.cr = LowestUnused]]
Started(r, row) ==
  [Waits(r, row) EXCEPT !.state = StartedState(Waits(r, row))]

LEMMA StartSavesOnward ==
  ASSUME Base(db), kind \in Kinds, UnusedCRs # {}, NEW r \in Revs,
         NEW row \in Revision, row.desired # "bootstrap" \/ db.current # None
  PROVE  /\ LowestUnused \in CRs /\ db.cr[LowestUnused].st = "unused"
         /\ Asked(r) \in Onward(db) /\ Waits(r, row) \in Onward(Asked(r)) \cup Kept(db)
         /\ Base(Started(r, row))
         /\ StartSaves(r, row) \in Seq(Kept(db)) /\ StartSaves(r, row) # <<>>
         /\ db.rev[r].st \notin Ended => StartSaves(r, row) \in Seq(Onward(db))
         /\ After(StartSaves(r, row)) = After(CRSaves(Started(r, row), LowestUnused))
<1> DEFINE c == LowestUnused
           new == [st |-> "new", rev |-> r, init |-> db.current, signed |-> Unsigned]
           waiting == [row EXCEPT !.st = "pendingapproval", !.cr = c]
           asked == Asked(r)
           waits == Waits(r, row)
           started == Started(r, row)
           tail == CRSaves(started, c)
<1>1. c \in CRs /\ db.cr[c].st = "unused"
  <2>1. UnusedCRs \in SUBSET Nat
    BY BoundsAssumption DEF UnusedCRs, CRs
  <2>2. c \in UnusedCRs
    BY <2>1, LowestExists DEF LowestUnused
  <2> QED
    BY <2>2 DEF UnusedCRs
<1>2. StartSaves(r, row) = <<asked, waits, started>> \o tail
  BY DEF StartSaves, LowestUnused, Asked, Waits, Started
<1> HIDE DEF c
<1>3. asked \in Onward(db)
  <2>1. new \in ChangeRequest /\ new.st = "new"
    BY DEF Base, Rows, ChangeRequest
  <2>2. asked = [db EXCEPT !.cr[c] = new]
    BY DEF Asked, c
  <2> HIDE DEF new
  <2> QED
    BY <1>1, <2>1, <2>2, SaveCR DEF Decided
<1>4. Base(asked) /\ asked \in Rows /\ asked.rev = db.rev /\ asked.current = db.current
  BY <1>3 DEF Onward, Asked, Base, Rows
<1>5. /\ Base(waits) /\ CRsKept(asked, waits)
      /\ db.rev[r].st \notin Ended => waits \in Onward(asked)
  <2>1. waiting \in Revision /\ waiting.st = "pendingapproval"
        /\ waiting.desired = row.desired
    BY <1>1 DEF Revision
  <2>2. waits = [asked EXCEPT !.rev[r] = waiting]
    BY DEF Waits, c
  <2> HIDE DEF waiting, asked
  <2> QED
    BY <1>4, <2>1, <2>2, SaveRevision DEF Live
<1> HIDE DEF asked
<1>6. started \in Onward(waits)
  <2>1. waits \in Rows
    BY <1>5 DEF Base
  <2>2. started = [waits EXCEPT !.state = StartedState(waits)]
    BY DEF Started
  <2>3. StartedState(waits) \in PendingStates
    BY DEF StartedState, PendingStates
  <2> HIDE DEF waits
  <2>4. [waits EXCEPT !.state = StartedState(waits)] \in Rows
    BY <2>1, <2>3 DEF Rows
  <2> QED
    BY <1>5, <2>2, <2>4, SaveState
<1>7. Base(started) /\ started \in Rows
  BY <1>6 DEF Onward
<1> HIDE DEF waits, started
<1>8. tail \in Seq(Onward(started)) /\ tail # <<>>
  BY <1>1, <1>7, CRSavesOnward
<1> HIDE DEF tail
<1>9. ASSUME NEW S, asked \in S, waits \in S, Onward(waits) \subseteq S
      PROVE  /\ StartSaves(r, row) \in Seq(S) /\ StartSaves(r, row) # <<>>
             /\ After(StartSaves(r, row)) = After(tail)
  <2>1. started \in S /\ Onward(started) \subseteq S
    BY <1>6, <1>9, OnwardFurther
  <2> DEFINE first == <<asked, waits, started>>
  <2>2. first \in Seq(S)
    BY <1>9, <2>1
  <2>3. tail \in Seq(S) /\ StartSaves(r, row) = first \o tail
    BY <1>2, <1>8, <2>1
  <2> HIDE DEF first
  <2>4. first \o tail \in Seq(S) /\ first \o tail # <<>>
        /\ After(first \o tail) = After(tail)
    BY <1>8, <2>2, <2>3, AfterConcat
  <2> QED
    BY <2>3, <2>4
<1>10. waits \in Kept(asked) /\ asked \in Kept(db)
  BY <1>3, <1>5, KeptFurther DEF Kept, Base
<1>11. waits \in Kept(db) /\ Onward(waits) \subseteq Kept(db)
  BY <1>10, KeptFurther
<1>12. db.rev[r].st \notin Ended => waits \in Onward(db) /\ Onward(waits) \subseteq Onward(db)
  BY <1>3, <1>5, OnwardFurther
<1> QED
  BY <1>1, <1>3, <1>7, <1>9, <1>10, <1>11, <1>12 DEF asked, waits, started, tail, c

Cancelled(r) == [db EXCEPT !.rev[r].st = "cancelled"]
Told(r) == UpdateState(Cancelled(r))

(* A cancel: the revision, the object, the CR, and the object again. *)
LEMMA CancelSavesOnward ==
  ASSUME Base(db), kind \in Kinds, NEW r \in Revs, NEW c \in CRs \cup {None}
  PROVE  /\ Base(Cancelled(r)) /\ Base(Told(r))
         /\ CancelSaves(r, c) \in Seq(Kept(db)) /\ CancelSaves(r, c) # <<>>
         /\ db.rev[r].st \notin Ended => CancelSaves(r, c) \in Seq(Onward(db))
         /\ After(CancelSaves(r, c)) =
              IF c = None THEN Told(r) ELSE After(CRSaves(Told(r), c))
<1> DEFINE d == Cancelled(r)
           told == Told(r)
           row == [db.rev[r] EXCEPT !.st = "cancelled"]
           first == <<d, told>>
           tail == CRSaves(told, c)
<1>1. /\ Base(d) /\ CRsKept(db, d)
      /\ db.rev[r].st \notin Ended => d \in Onward(db)
  <2>1. db.rev[r] \in Revision
    BY DEF Base, Rows
  <2>2. row \in Revision /\ row.st = "cancelled" /\ row.desired = db.rev[r].desired
    BY <2>1 DEF Revision
  <2>3. row.desired # "bootstrap" \/ db.current # None
    BY <2>2 DEF Base, OnlyRootBootstraps
  <2>4. d = [db EXCEPT !.rev[r] = row]
    BY DEF Cancelled
  <2> HIDE DEF row
  <2> QED
    BY <2>2, <2>3, <2>4, SaveRevision DEF Live
<1>2. told \in Onward(d)
  BY <1>1, SavesOnward DEF Told
<1>3. Base(told)
  BY <1>2 DEF Onward
<1>4. CancelSaves(r, c) = first \o (IF c = None THEN <<>> ELSE tail)
  BY DEF CancelSaves, Cancelled, Told
<1>5. After(first) = told
  BY DEF After
<1> HIDE DEF d, told
<1>6. c # None => tail \in Seq(Onward(told)) /\ tail # <<>>
  BY <1>3, CRSavesOnward
<1>7. ASSUME NEW S, d \in S, Onward(d) \subseteq S
      PROVE  /\ CancelSaves(r, c) \in Seq(S) /\ CancelSaves(r, c) # <<>>
             /\ After(CancelSaves(r, c)) = IF c = None THEN told ELSE After(tail)
  <2>1. told \in S /\ Onward(told) \subseteq S
    BY <1>2, <1>7, OnwardFurther
  <2>2. first \in Seq(S) /\ first # <<>>
    BY <1>7, <2>1
  <2> HIDE DEF first, tail
  <2>3. CASE c = None
    <3>1. first \o <<>> = first
      BY <2>2, ConcatEmptySeq
    <3> QED
      BY <1>4, <1>5, <2>2, <2>3, <3>1
  <2>4. CASE c # None
    <3>1. tail \in Seq(S) /\ tail # <<>>
      BY <1>6, <2>1, <2>4
    <3>2. first \o tail \in Seq(S) /\ first \o tail # <<>>
          /\ After(first \o tail) = After(tail)
      BY <2>2, <3>1, AfterConcat
    <3> QED
      BY <1>4, <2>4, <3>2
  <2> QED
    BY <2>3, <2>4
<1>8. d \in Kept(db) /\ Onward(d) \subseteq Kept(db)
  <2>1. d \in Kept(db)
    BY <1>1 DEF Kept, Base
  <2> QED
    BY <2>1, KeptFurther
<1>9. db.rev[r].st \notin Ended => Onward(d) \subseteq Onward(db)
  BY <1>1, OnwardFurther
<1> QED
  BY <1>1, <1>3, <1>7, <1>8, <1>9 DEF d, told, tail

(* A signature is stored on a CR that waits, and taken back again. *)
LEMMA SignedOnward ==
  ASSUME NEW d, Base(d), NEW c \in CRs, d.cr[c].st \in Undecided,
         NEW a \in Attestations \cup {Unsigned}
  PROVE  [d EXCEPT !.cr[c].signed = a] \in Onward(d)
<1> DEFINE row == [d.cr[c] EXCEPT !.signed = a]
<1>1. d.cr[c] \in ChangeRequest
  BY DEF Base, Rows
<1>2. row \in ChangeRequest /\ row.st = d.cr[c].st
  BY <1>1 DEF ChangeRequest
<1>3. [d EXCEPT !.cr[c].signed = a] = [d EXCEPT !.cr[c] = row]
  OBVIOUS
<1> HIDE DEF row
<1> QED
  BY <1>2, <1>3, SaveCR DEF Decided, Undecided

-----------------------------------------------------------------------------
(* What UpdateState comes to when it is not cut short *)

(* It leaves revisions and CRs alone. *)
Rests(d, e) ==
  /\ e.rev = d.rev /\ e.cr = d.cr /\ e.current = d.current
  /\ e.state \in PendingStates =>
       /\ e.state = d.state
       /\ Pending(d) # None /\ d.rev[Pending(d)].cr # None

(* It declines revision p. *)
Declines(d, p, e) ==
  /\ e.rev = [d.rev EXCEPT ![p].st = "approvalfailed"] /\ e.cr = d.cr
  /\ e.current = d.current
  /\ d.current = None => e.state = "new"
  /\ d.current # None => e.state \in {"active", e.rev[d.current].st}

(* It promotes revision p, which may go no further than its own row and the *)
(* current revision's.                                                      *)
TouchesOnly(d, p, e) ==
  /\ e.cr = d.cr
  /\ \A q \in Revs : e.rev[q].cr = d.rev[q].cr /\ e.rev[q].desired = d.rev[q].desired
  /\ \A q \in Revs \ {p, d.current} : e.rev[q] = d.rev[q]
Halts(d, p, e) ==
  /\ TouchesOnly(d, p, e)
  /\ d.current # None /\ e.current = d.current /\ e.rev[d.current].st \notin Live
  /\ p # d.current /\ d.rev[d.current].st \in Live => d.rev[p].desired = "bootstrap"
TakesOver(d, p, e) ==
  /\ TouchesOnly(d, p, e)
  /\ e.current = p /\ e.state \in {"active", "inactive"}
  /\ e.rev[p].st = IF p = d.current THEN "superseded" ELSE d.rev[p].desired
  /\ d.current \notin {None, p} =>
       d.rev[d.current].st \in Live /\ e.rev[d.current].st = "superseded"

(* The last save of a promotion. *)
LEMMA PromoteEnds ==
  ASSUME NEW d, Base(d), NEW p \in Revs, p \in Open(d)
  PROVE  LET e == After(Promote(d, p)) IN Halts(d, p, e) \/ TakesOver(d, p, e)
<1> DEFINE target == d.rev[p].desired
           k == d.current
           e == [d EXCEPT !.rev[p].st = target]
           f == IF k = None THEN e ELSE [e EXCEPT !.rev[k].st = "superseded"]
           g == [f EXCEPT !.state = target, !.current = p]
           last == After(Promote(d, p))
<1>1. /\ d \in Rows /\ d.rev \in [Revs -> Revision] /\ k \in Revs \cup {None}
      /\ d.rev[p] \in Revision /\ target \in Desired /\ target \in Live
      /\ k = None => target # "bootstrap"
      /\ None \notin Revs
  <2>1. d \in Rows /\ d.rev[p] \in Revision
    BY DEF Base, Rows
  <2>2. target \in Desired /\ target \in Live
    BY <2>1 DEF Revision, Desired, Live
  <2> QED
    BY <2>1, <2>2, BoundsAssumption DEF Rows, Base, OnlyRootBootstraps, Revs, None
<1> HIDE DEF target, k
<1>2. /\ e.cr = d.cr /\ e.current = k /\ e.rev[p].st = target
      /\ e.rev[p].cr = d.rev[p].cr /\ e.rev[p].desired = target
      /\ \A q \in Revs \ {p} : e.rev[q] = d.rev[q]
      /\ e.rev \in [Revs -> Revision]
      /\ DOMAIN e = DOMAIN d
  BY <1>1 DEF Rows, Revision, target, k, Live
<1> HIDE DEF e
<1>3. /\ f.cr = d.cr /\ f.current = k
      /\ k # None => f.rev[k].st = "superseded"
      /\ p # k => f.rev[p].st = target
      /\ \A q \in Revs : f.rev[q].cr = d.rev[q].cr /\ f.rev[q].desired = d.rev[q].desired
      /\ \A q \in Revs \ {p, k} : f.rev[q] = d.rev[q]
  BY <1>1, <1>2 DEF Revision, Rows, target
<1>4. last = IF k # None /\ e.rev[k].st \notin Live THEN e
             ELSE IF target \notin {"active", "inactive"} THEN f ELSE g
  BY DEF Promote, After, e, f, k, target
<1> HIDE DEF f
<1>5. CASE k # None /\ e.rev[k].st \notin Live
  <2>1. TouchesOnly(d, p, e)
    BY <1>2 DEF TouchesOnly, target, k
  <2> QED
    BY <1>1, <1>2, <1>4, <1>5, <2>1 DEF Halts, k
<1>6. CASE (k = None \/ e.rev[k].st \in Live) /\ target \notin {"active", "inactive"}
  <2>1. target = "bootstrap" /\ k # None
    BY <1>1, <1>6 DEF Live
  <2>2. TouchesOnly(d, p, f)
    BY <1>3 DEF TouchesOnly, target, k
  <2> QED
    BY <1>3, <1>4, <1>6, <2>1, <2>2 DEF Halts, Live, k, target
<1>7. CASE (k = None \/ e.rev[k].st \in Live) /\ target \in {"active", "inactive"}
  <2>1. g.rev = f.rev /\ g.cr = f.cr /\ g.current = p /\ g.state = target
    <3>1. DOMAIN f = DOMAIN d
      BY <1>2 DEF f
    <3> QED
      BY <1>1, <3>1 DEF Rows
  <2> HIDE DEF g
  <2>2. TouchesOnly(d, p, g)
    BY <1>3, <2>1 DEF TouchesOnly, target, k
  <2>3. k \notin {None, p} => d.rev[k].st \in Live
    BY <1>1, <1>2, <1>7
  <2> QED
    BY <1>1, <1>3, <1>4, <1>7, <2>1, <2>2, <2>3 DEF TakesOver, target, k
<1> QED
  BY <1>5, <1>6, <1>7

(* What a whole UpdateState comes to. *)
LEMMA UpdateStateEnds ==
  ASSUME NEW d, Base(d), kind \in Kinds
  PROVE  LET e == UpdateState(d)
             p == Pending(d)
             c == d.rev[p].cr
         IN \/ Rests(d, e)
            \/ /\ d.state \in PendingStates
               /\ p \in Revs /\ p \in Open(d) /\ c # None
               /\ \/ Declines(d, p, e)
                  \/ d.cr[c].init = d.current /\ (Halts(d, p, e) \/ TakesOver(d, p, e))
<1> DEFINE e == UpdateState(d)
           p == Pending(d)
           c == d.rev[p].cr
<1>1. e = After(ResolvePending(d)) /\ d \in Rows
  BY SavesOnward DEF UpdateState, Base
<1>2. p # None => p \in Revs /\ p \in Open(d)
  BY PendingIsOpen
<1>3. CASE d.state \notin PendingStates
  BY <1>1, <1>3 DEF ResolvePending, After, Rests
<1>4. CASE d.state \in PendingStates /\ (p = None \/ c = None)
  <2> DEFINE st == IF d.state = "pendingbootstrap" THEN "bootstrap"
                   ELSE IF d.current # None THEN d.rev[d.current].desired ELSE "new"
  <2>1. e = [d EXCEPT !.state = st]
    BY <1>1, <1>4, Zenon DEF ResolvePending, Revert, After
  <2>2. d.current # None => d.rev[d.current] \in Revision
    BY <1>1 DEF Rows
  <2>3. st \notin PendingStates
    BY <2>2 DEF Revision, Desired, PendingStates
  <2> HIDE DEF st
  <2> QED
    BY <1>1, <2>1, <2>3, SMTT(60) DEF Rests, Rows
<1>5. CASE d.state \in PendingStates /\ p # None /\ c # None
  <2>1. CASE ~VerifyCR(d) \/ d.cr[c].st \notin {"approved", "declined"}
    <3>1. ResolvePending(d) = <<d>>
      BY <1>5, <2>1 DEF ResolvePending
    <3> QED
      BY <1>1, <1>5, <3>1 DEF After, Rests
  <2>2. CASE VerifyCR(d) /\ d.cr[c].st = "approved"
    <3>1. d.cr[c].init = d.current
      BY <1>5, <2>2 DEF VerifyCR
    <3>2. e = After(Promote(d, p))
      BY <1>1, <1>5, <2>2 DEF ResolvePending
    <3> QED
      BY <1>2, <1>5, <3>1, <3>2, PromoteEnds
  <2>3. CASE VerifyCR(d) /\ d.cr[c].st = "declined"
    <3> DEFINE f == [d EXCEPT !.rev[p].st = "approvalfailed"]
               st == IF d.current = None THEN "new"
                     ELSE IF f.rev[d.current].st = "bootstrap" THEN "active"
                     ELSE f.rev[d.current].st
    <3>1. e = [f EXCEPT !.state = st]
      BY <1>1, <1>5, <2>3 DEF ResolvePending, Decline, After
    <3>2. /\ f.rev = [d.rev EXCEPT ![p].st = "approvalfailed"] /\ f.cr = d.cr
          /\ f.current = d.current /\ DOMAIN f = DOMAIN d
      BY <1>1 DEF Rows
    <3> HIDE DEF f
    <3>3. e.rev = f.rev /\ e.cr = f.cr /\ e.current = f.current /\ e.state = st
      BY <1>1, <3>1, <3>2 DEF Rows
    <3>4. Declines(d, p, e)
      BY <3>2, <3>3 DEF Declines
    <3> QED
      BY <1>2, <1>5, <3>4
  <2> QED
    BY <2>1, <2>2, <2>3
<1> QED
  BY <1>3, <1>4, <1>5

-----------------------------------------------------------------------------
(* What holds between requests *)

(* The object's own state says nothing of who is in force. *)
LEMMA StateKeeps ==
  ASSUME NEW d, NEW e, e.rev = d.rev, e.cr = d.cr, e.current = d.current
  PROVE  (Alone(d) => Alone(e)) /\ (Sound(d) => Sound(e))
BY DEF Alone, Sound, OneOfThem, OpenAsked, Replaced, Approved, Initial, OnceInForce

(* A revision that does not get into force by its save. *)
LEMMA RevisionKeeps ==
  ASSUME NEW d \in Rows, NEW r \in Revs, NEW row \in Revision,
         row.st \notin Live \cup {"superseded"}
  PROVE  LET e == [d EXCEPT !.rev[r] = row] IN
           /\ Alone(d) => Alone(e)
           /\ Sound(d) /\ d.rev[r].st \notin Live \cup {"superseded"}
              /\ (row.st = "new" => row.cr = None)
              /\ (row.st = "pendingapproval" => row.cr # None /\ row.desired # "bootstrap")
              /\ (row.cr # None => d.cr[row.cr].st # "unused")
              => Sound(e)
<1> DEFINE e == [d EXCEPT !.rev[r] = row]
<1>1. /\ e.cr = d.cr /\ e.current = d.current /\ d.current \in Revs \cup {None}
      /\ e.rev[r] = row /\ \A q \in Revs : q # r => e.rev[q] = d.rev[q]
      /\ e.cr \in [CRs -> ChangeRequest]
  BY DEF Rows
<1> HIDE DEF e
<1>2. Alone(d) => Alone(e)
  BY <1>1 DEF Alone, OnceInForce
<1>3. ASSUME Sound(d), d.rev[r].st \notin Live \cup {"superseded"},
             row.st = "new" => row.cr = None,
             row.st = "pendingapproval" => row.cr # None /\ row.desired # "bootstrap",
             row.cr # None => d.cr[row.cr].st # "unused"
      PROVE  Sound(e)
  <2>1. OneOfThem(e)
    BY <1>1, <1>3 DEF Sound, OneOfThem
  <2>2. OpenAsked(e)
    BY <1>1, <1>3 DEF Sound, OpenAsked
  <2>3. Replaced(e)
    <3>1. \A q \in Revs : Approved(e, q) =>
            q # r /\ Approved(d, q) /\ Initial(e, q) = Initial(d, q)
      BY <1>1 DEF Approved, Initial, OnceInForce
    <3>2. \A k \in Revs : d.rev[k].st = "superseded" => e.rev[k].st = "superseded"
      BY <1>1, <1>3
    <3>3. \A q \in Revs : Approved(d, q) => Initial(d, q) \in Revs \cup {None}
      BY DEF Approved, Initial, Rows, Revision, ChangeRequest
    <3> QED
      BY <1>3, <3>1, <3>2, <3>3 DEF Sound, Replaced
  <2> QED
    BY <1>2, <1>3, <2>1, <2>2, <2>3 DEF Sound
<1> QED
  BY <1>2, <1>3 DEF e

(* A CR that is made, or that keeps what it is to replace. *)
LEMMA CRKeeps ==
  ASSUME NEW d \in Rows, NEW c \in CRs, NEW row \in ChangeRequest, row.st # "unused",
         d.cr[c].st = "unused" \/ row.init = d.cr[c].init
  PROVE  LET e == [d EXCEPT !.cr[c] = row] IN
           /\ Alone(d) => Alone(e)
           /\ Sound(d) => Sound(e)
<1> DEFINE e == [d EXCEPT !.cr[c] = row]
<1>1. /\ e.rev = d.rev /\ e.current = d.current
      /\ e.cr[c] = row /\ \A b \in CRs : b # c => e.cr[b] = d.cr[b]
      /\ \A r \in Revs : d.rev[r].cr \in CRs \cup {None}
  BY DEF Rows, Revision
<1> HIDE DEF e
<1>2. Alone(d) => Alone(e)
  BY <1>1 DEF Alone, OnceInForce
<1>3. ASSUME Sound(d)
      PROVE  Sound(e)
  <2>1. OneOfThem(e) /\ OpenAsked(e)
    BY <1>1, <1>3 DEF Sound, OneOfThem, OpenAsked
  <2>2. \A r \in Revs : Approved(e, r) =>
          Approved(d, r) /\ Initial(e, r) = Initial(d, r)
    BY <1>1, <1>3 DEF Sound, OpenAsked, Approved, Initial, OnceInForce
  <2>3. Replaced(e)
    BY <1>1, <1>3, <2>2 DEF Sound, Replaced
  <2> QED
    BY <1>2, <1>3, <2>1, <2>3 DEF Sound
<1> QED
  BY <1>2, <1>3 DEF e

(* UpdateState leaves at most the revision in force that it names. *)
LEMMA UpdateStateAlone ==
  ASSUME NEW d, Base(d), kind \in Kinds, Alone(d)
  PROVE  Alone(UpdateState(d))
<1> DEFINE e == UpdateState(d)
           p == Pending(d)
<1>1. d \in Rows /\ d.current \in Revs \cup {None} /\ None \notin Revs
  BY BoundsAssumption DEF Base, Rows, Revs, None
<1>2. CASE Rests(d, e)
  BY <1>2, StateKeeps DEF Rests
<1>3. ASSUME p \in Revs, p \in Open(d), Declines(d, p, e)
      PROVE  Alone(e)
  <2>1. /\ e.current = d.current /\ e.rev[p].st = "approvalfailed"
        /\ \A q \in Revs \ {p} : e.rev[q] = d.rev[q]
    BY <1>1, <1>3 DEF Declines, Rows, Revision
  <2> HIDE DEF e, p
  <2> QED
    BY <1>1, <1>3, <2>1 DEF Alone, OnceInForce, Live
<1>4. ASSUME Halts(d, p, e)
      PROVE  Alone(e)
  BY <1>1, <1>4 DEF Halts, Alone
<1>5. ASSUME p \in Revs, p \in Open(d), TakesOver(d, p, e)
      PROVE  Alone(e)
  <2> HIDE DEF e, p
  <2>1. p \in Revs /\ p # None /\ e.current = p
    BY <1>1, <1>5 DEF TakesOver
  <2>2. ASSUME e.rev[p].st \in Live, NEW q \in Revs, e.rev[q].st \in Live, q # p
        PROVE  FALSE
    <3>1. p # d.current
      BY <1>5, <2>2 DEF TakesOver, Live
    <3>2. q # d.current /\ d.rev[q].st \in Live
      BY <1>1, <1>5, <2>2, <3>1 DEF TakesOver, TouchesOnly, Live
    <3> QED
      BY <1>1, <1>5, <2>2, <3>1, <3>2 DEF TakesOver, Alone, OnceInForce
  <2> QED
    BY <2>1, <2>2 DEF Alone
<1> QED
  BY <1>2, <1>3, <1>4, <1>5, UpdateStateEnds

(* Without trouble it keeps who replaced whom, and leaves no pending state  *)
(* without a cause.                                                         *)
LEMMA UpdateStateSound ==
  ASSUME NEW d, Base(d), kind \in Kinds, Sound(d)
  PROVE  Sound(UpdateState(d)) /\ Cause(UpdateState(d))
<1> DEFINE e == UpdateState(d)
           p == Pending(d)
<1>1. /\ d \in Rows /\ d.current \in Revs \cup {None} /\ None \notin Revs
      /\ \A r \in Revs : d.rev[r] \in Revision /\ d.rev[r].cr \in CRs \cup {None}
      /\ \A c \in CRs : d.cr[c].init \in Revs \cup {None}
  BY BoundsAssumption DEF Base, Rows, Revs, None, Revision, ChangeRequest
<1>2. CASE Rests(d, e)
  <2>1. Sound(e)
    BY <1>2, StateKeeps DEF Rests
  <2>2. Cause(e)
    <3> SUFFICES ASSUME e.state \in PendingStates
                 PROVE  \E r \in Revs : e.rev[r].st = "pendingapproval"
      BY DEF Cause
    <3>1. p \in Revs /\ p \in Open(d) /\ d.rev[p].cr # None
      BY <1>2, PendingIsOpen DEF Rests
    <3>2. d.rev[p].st = "pendingapproval"
      BY <3>1 DEF Sound, OpenAsked, Open
    <3> QED
      BY <1>2, <3>1, <3>2 DEF Rests
  <2> QED
    BY <2>1, <2>2
<1>3. ASSUME p \in Revs, p \in Open(d), d.rev[p].cr # None
      PROVE  /\ p # d.current /\ d.rev[p].st = "pendingapproval"
             /\ d.rev[p].desired # "bootstrap" /\ d.rev[p].cr \in CRs
             /\ d.current # None => d.rev[d.current].st \in Live
  <2>1. d.rev[p].st \in {"new", "pendingapproval"} /\ d.rev[p].st \notin Live
    BY <1>3 DEF Open, Live
  <2> HIDE DEF p
  <2> QED
    BY <1>1, <1>3, <2>1 DEF Sound, OneOfThem, OpenAsked
<1>4. ASSUME p \in Revs, p \in Open(d), d.rev[p].cr # None, Declines(d, p, e)
      PROVE  Sound(e) /\ Cause(e)
  <2> HIDE DEF e, p
  <2>1. /\ e.cr = d.cr /\ e.current = d.current
        /\ e.rev[p].st = "approvalfailed" /\ e.rev[p].cr = d.rev[p].cr
        /\ e.rev[p].desired = d.rev[p].desired
        /\ \A q \in Revs \ {p} : e.rev[q] = d.rev[q]
    BY <1>1, <1>4 DEF Declines, Rows, Revision
  <2>2. Alone(e)
    BY <1>1, <1>3, <1>4, <2>1 DEF Sound, Alone, OnceInForce, Live
  <2>3. OneOfThem(e)
    BY <1>1, <1>3, <1>4, <2>1 DEF Sound, OneOfThem, Live
  <2>4. OpenAsked(e)
    BY <1>1, <1>3, <1>4, <2>1 DEF Sound, OpenAsked
  <2>5. Replaced(e)
    <3>1. \A q \in Revs : Approved(e, q) =>
            Approved(d, q) /\ Initial(e, q) = Initial(d, q)
      BY <2>1 DEF Approved, Initial, OnceInForce, Live
    <3>2. \A q \in Revs : d.rev[q].st = "superseded" => e.rev[q].st = "superseded"
      BY <1>3, <1>4, <2>1
    <3>3. \A q \in Revs : Approved(d, q) => Initial(d, q) \in Revs \cup {None}
      BY <1>1 DEF Approved, Initial
    <3> QED
      BY <3>1, <3>2, <3>3 DEF Sound, Replaced
  <2>6. Cause(e)
    <3>1. d.current # None => e.rev[d.current].st \in Live
      BY <1>1, <1>3, <1>4, <2>1
    <3> QED
      BY <1>4, <3>1 DEF Declines, Cause, PendingStates, Live
  <2> QED
    BY <2>2, <2>3, <2>4, <2>5, <2>6 DEF Sound
<1>5. ASSUME p \in Revs, p \in Open(d), d.rev[p].cr # None, Halts(d, p, e)
      PROVE  FALSE
  BY <1>3, <1>5 DEF Halts
<1>6. ASSUME p \in Revs, p \in Open(d), d.rev[p].cr # None,
             d.cr[d.rev[p].cr].init = d.current, TakesOver(d, p, e)
      PROVE  Sound(e) /\ Cause(e)
  <2> DEFINE k == d.current
  <2> HIDE DEF e, p
  <2>1. /\ p # None /\ p # k /\ e.current = p /\ e.cr = d.cr
        /\ d.rev[p].st = "pendingapproval" /\ d.rev[p].desired \in Live
        /\ e.rev[p].st = d.rev[p].desired
        /\ k # None => d.rev[k].st \in Live /\ e.rev[k].st = "superseded"
        /\ \A q \in Revs : e.rev[q].cr = d.rev[q].cr /\ e.rev[q].desired = d.rev[q].desired
        /\ \A q \in Revs \ {p, k} : e.rev[q] = d.rev[q]
    BY <1>1, <1>3, <1>6 DEF TakesOver, TouchesOnly, Revision, Desired, Live
  <2>2. OneOfThem(e)
    BY <1>1, <1>6, <2>1 DEF Sound, OneOfThem, Live
  <2>3. Alone(e)
    BY <1>6, <2>1, <2>2 DEF Alone, OneOfThem
  <2>4. OpenAsked(e)
    BY <1>1, <1>6, <2>1 DEF Sound, OpenAsked, Live
  <2>5. Replaced(e)
    <3>1. \A q \in Revs : Approved(e, q) =>
            Initial(e, q) = Initial(d, q) /\ (q = p \/ Approved(d, q))
      BY <1>1, <2>1 DEF Approved, Initial, OnceInForce
    <3>2. Initial(d, p) = k
      BY <1>6 DEF Initial, k
    <3>3. ASSUME NEW q \in Revs, Approved(d, q)
          PROVE  Initial(d, q) \in Revs \cup {None} /\ Initial(d, q) # k
      <4>1. Initial(d, q) \in Revs \cup {None}
        BY <1>1, <3>3 DEF Approved, Initial
      <4>2. CASE k = None
        BY <3>3, <4>2 DEF Sound, Alone, Approved, k
      <4>3. CASE k # None
        BY <1>1, <2>1, <3>3, <4>1, <4>3 DEF Sound, Replaced, Live
      <4> QED
        BY <4>1, <4>2, <4>3
    <3>4. \A q \in Revs : d.rev[q].st = "superseded" => e.rev[q].st = "superseded"
      BY <1>1, <2>1
    <3>5. ASSUME NEW r \in Revs, Approved(e, r), Initial(e, r) # None
          PROVE  e.rev[Initial(e, r)].st = "superseded"
      <4>1. CASE r = p
        BY <2>1, <3>1, <3>2, <3>5, <4>1
      <4>2. CASE r # p
        BY <3>1, <3>3, <3>4, <3>5, <4>2 DEF Sound, Replaced
      <4> QED
        BY <4>1, <4>2
    <3>6. ASSUME NEW r \in Revs, NEW q \in Revs, Approved(e, r), Approved(e, q),
                 Initial(e, r) = Initial(e, q)
          PROVE  r = q
      BY <3>1, <3>2, <3>3, <3>6 DEF Sound, Replaced
    <3> QED
      BY <3>5, <3>6 DEF Replaced
  <2>6. Cause(e)
    BY <1>6 DEF TakesOver, Cause, PendingStates
  <2> QED
    BY <2>2, <2>3, <2>4, <2>5, <2>6 DEF Sound
<1> QED
  BY <1>2, <1>4, <1>5, <1>6, UpdateStateEnds

(* A CR that is advanced changes nothing of who is in force. *)
LEMMA AdvancedKeeps ==
  ASSUME NEW d, Base(d), NEW c \in CRs
  PROVE  (Alone(d) => Alone(Advanced(d, c))) /\ (Sound(d) => Sound(Advanced(d, c)))
<1>1. PICK row \in ChangeRequest :
        /\ Advanced(d, c) = [d EXCEPT !.cr[c] = row]
        /\ row.st \in Decided \cup {"pendingapproval"} /\ row.init = d.cr[c].init
  BY AdvancedRow
<1>2. d \in Rows /\ row.st # "unused"
  BY <1>1 DEF Base, Decided
<1> QED
  BY <1>1, <1>2, CRKeeps

(* A CR and its object: who is in force stays settled. *)
LEMMA CRSavesSettle ==
  ASSUME NEW d, Base(d), NEW c \in CRs, kind \in Kinds
  PROVE  LET e == After(CRSaves(d, c)) IN
           /\ Alone(d) => Alone(e)
           /\ Sound(d) /\ Cause(d) => Sound(e) /\ Cause(e)
<1> DEFINE a == Advanced(d, c)
<1>1. CASE d.cr[c].st \notin Undecided
  BY <1>1, CRSavesOnward
<1>2. CASE d.cr[c].st \in Undecided
  <2>1. After(CRSaves(d, c)) = UpdateState(a) /\ Base(a)
    BY <1>2, CRSavesOnward, AdvancedOnward DEF Onward
  <2>2. (Alone(d) => Alone(a)) /\ (Sound(d) => Sound(a))
    BY AdvancedKeeps
  <2> HIDE DEF a
  <2> QED
    BY <2>1, <2>2, UpdateStateAlone, UpdateStateSound
<1> QED
  BY <1>1, <1>2

(* So do the saves of a start, up to the CR's UpdateState and after it. *)
LEMMA StartedSettles ==
  ASSUME Base(db), kind \in Kinds, UnusedCRs # {}, NEW r \in Revs,
         NEW row \in Revision, row.desired # "bootstrap" \/ db.current # None
  PROVE  LET e == Started(r, row) IN
           /\ Alone(db) => Alone(e)
           /\ Sound(db) /\ db.rev[r].st = "new" /\ row.desired # "bootstrap" =>
                Sound(e) /\ Cause(e)
<1> DEFINE c == LowestUnused
           new == [st |-> "new", rev |-> r, init |-> db.current, signed |-> Unsigned]
           waiting == [row EXCEPT !.st = "pendingapproval", !.cr = c]
           asked == Asked(r)
           waits == Waits(r, row)
           started == Started(r, row)
<1>1. /\ c \in CRs /\ db.cr[c].st = "unused" /\ Base(started)
      /\ asked \in Rows /\ waits \in Rows
  BY StartSavesOnward DEF Onward, Kept
<1>2. (Alone(db) => Alone(asked)) /\ (Sound(db) => Sound(asked))
  <2>1. new \in ChangeRequest /\ new.st # "unused" /\ db \in Rows
    BY DEF Base, Rows, ChangeRequest
  <2>2. asked = [db EXCEPT !.cr[c] = new]
    BY DEF Asked
  <2> HIDE DEF new, c, asked
  <2> QED
    BY <1>1, <2>1, <2>2, CRKeeps
<1>3. /\ asked.cr[c].st = "new" /\ asked.rev = db.rev
  BY <1>1 DEF Asked, Base, Rows
<1>4. waiting \in Revision /\ waiting.st = "pendingapproval" /\ waiting.cr = c
      /\ waiting.desired = row.desired
  BY <1>1 DEF Revision
<1>5. waits = [asked EXCEPT !.rev[r] = waiting]
  BY DEF Waits
<1>6. c # None
  BY <1>1, BoundsAssumption DEF CRs, None
<1> HIDE DEF c, asked, waiting
<1>7. /\ Alone(db) => Alone(waits)
      /\ Sound(db) /\ db.rev[r].st = "new" /\ row.desired # "bootstrap" => Sound(waits)
  BY <1>1, <1>2, <1>3, <1>4, <1>5, <1>6, RevisionKeeps DEF Live
<1>8. /\ started.rev = waits.rev /\ started.cr = waits.cr /\ started.current = waits.current
      /\ started.rev[r].st = "pendingapproval"
  BY <1>1, <1>4, <1>5 DEF Started, Rows
<1> HIDE DEF waits, started
<1> QED
  BY <1>7, <1>8, StateKeeps DEF Cause, started

LEMMA StartSavesSettle ==
  ASSUME Base(db), kind \in Kinds, UnusedCRs # {}, NEW r \in Revs,
         NEW row \in Revision, row.desired # "bootstrap" \/ db.current # None
  PROVE  LET e == After(StartSaves(r, row)) IN
           /\ Alone(db) => Alone(e)
           /\ Sound(db) /\ db.rev[r].st = "new" /\ row.desired # "bootstrap" =>
                Sound(e) /\ Cause(e)
<1>1. /\ LowestUnused \in CRs /\ Base(Started(r, row))
      /\ After(StartSaves(r, row)) = After(CRSaves(Started(r, row), LowestUnused))
  BY StartSavesOnward
<1> QED
  BY <1>1, StartedSettles, CRSavesSettle

LEMMA CancelSavesSettle ==
  ASSUME Base(db), kind \in Kinds, NEW r \in Revs, NEW c \in CRs \cup {None}
  PROVE  LET e == After(CancelSaves(r, c)) IN
           /\ Alone(db) => Alone(e)
           /\ Sound(db) /\ r \in Open(db) => Sound(e) /\ Cause(e)
<1> DEFINE d == Cancelled(r)
           told == Told(r)
           row == [db.rev[r] EXCEPT !.st = "cancelled"]
<1>1. /\ Base(d) /\ Base(told) /\ told = UpdateState(d)
      /\ After(CancelSaves(r, c)) = IF c = None THEN told ELSE After(CRSaves(told, c))
  BY CancelSavesOnward DEF Told
<1>2. (Alone(db) => Alone(d)) /\ (Sound(db) /\ r \in Open(db) => Sound(d))
  <2>1. db \in Rows /\ db.rev[r] \in Revision
    BY DEF Base, Rows
  <2>2. row \in Revision /\ row.st = "cancelled" /\ row.cr = db.rev[r].cr
    BY <2>1 DEF Revision
  <2>3. d = [db EXCEPT !.rev[r] = row]
    BY DEF Cancelled
  <2>4. r \in Open(db) => db.rev[r].st \notin Live \cup {"superseded"}
    BY DEF Open, Live
  <2>5. Sound(db) /\ row.cr # None => db.cr[row.cr].st # "unused"
    BY <2>2 DEF Sound, OpenAsked
  <2> HIDE DEF row, d
  <2> QED
    BY <2>1, <2>2, <2>3, <2>4, <2>5, RevisionKeeps DEF Live
<1> HIDE DEF d, told
<1>3. (Alone(db) => Alone(told)) /\ (Sound(db) /\ r \in Open(db) => Sound(told) /\ Cause(told))
  BY <1>1, <1>2, UpdateStateAlone, UpdateStateSound
<1> QED
  BY <1>1, <1>3, CRSavesSettle

-----------------------------------------------------------------------------
(* Actions *)

(* What every action does to the rows. *)
Step ==
  /\ trouble \subseteq trouble' /\ trouble' \subseteq Faults
  /\ db' \in Kept(db)
  /\ trouble' \subseteq {"crash"} => db' \in Onward(db)
  /\ "crash" \notin trouble' => (Alone(db) => Alone(db'))
  /\ trouble' = {} => (Sound(db) /\ Cause(db) => Sound(db') /\ Cause(db'))

(* A request that may be cut short. *)
LEMMA DoesStep ==
  ASSUME NEW s \in Seq(Onward(db)), s # <<>>, Does(s), trouble \subseteq Faults,
         Alone(db) => Alone(After(s)),
         Sound(db) /\ Cause(db) => Sound(After(s)) /\ Cause(After(s))
  PROVE  Step
<1>1. /\ db' \in Onward(db)
      /\ trouble \subseteq trouble' /\ trouble' \subseteq trouble \cup {"crash"}
      /\ trouble' = trouble \/ "crash" \in Faults
      /\ "crash" \notin trouble' => db' = After(s)
  BY DoesSome
<1>2. db' \in Kept(db)
  BY <1>1, KeptFurther
<1> QED
  BY <1>1, <1>2 DEF Step

(* One that was overtaken, or is a restart, runs to its end. *)
LEMMA TroubledStep ==
  ASSUME NEW s \in Seq(Kept(db)), s # <<>>, db' = After(s),
         trouble \subseteq trouble', trouble' \subseteq Faults,
         ~(trouble' \subseteq {"crash"}), Alone(db) => Alone(After(s))
  PROVE  Step
<1>1. db' \in Kept(db)
  BY AfterIsASave
<1> QED
  BY <1>1 DEF Step

(* A step that leaves the rows alone. *)
LEMMA IdleStep ==
  ASSUME Base(db), db' = db, trouble \subseteq trouble', trouble' \subseteq Faults
  PROVE  Step
<1>1. db \in Onward(db) /\ db \in Kept(db)
  BY OnwardSame, KeptFurther
<1> QED
  BY <1>1 DEF Step

LEMMA CreateStep ==
  ASSUME Inv, NEW r \in Revs, NEW desired \in {"active", "inactive"}, Create(r, desired)
  PROVE  Step
<1> DEFINE row == [st |-> "new", desired |-> desired, cr |-> None]
           e == [db EXCEPT !.rev[r] = row]
<1>1. /\ row \in Revision /\ row.st = "new" /\ row.cr = None /\ row.desired # "bootstrap"
      /\ db.rev[r].st = "unused" /\ db' = e /\ trouble' = trouble
      /\ Base(db) /\ db \in Rows /\ trouble \subseteq Faults
  BY DEF Create, Revision, Desired, Inv, Base
<1> HIDE DEF row
<1>2. e \in Onward(db)
  BY <1>1, SaveRevision DEF Ended, Live
<1>3. e \in Kept(db)
  BY <1>2, KeptFurther
<1>4. (Alone(db) => Alone(e)) /\ (Sound(db) => Sound(e))
  BY <1>1, RevisionKeeps DEF Live
<1>5. Cause(db) => Cause(e)
  <2>1. e.state = db.state /\ \A q \in Revs : q # r => e.rev[q] = db.rev[q]
    BY <1>1 DEF Rows
  <2> QED
    BY <1>1, <2>1 DEF Cause
<1> HIDE DEF e
<1> QED
  BY <1>1, <1>2, <1>3, <1>4, <1>5 DEF Step

(* An edit, of a row read just now or earlier. *)
LEMMA EditSavesSettle ==
  ASSUME Base(db), NEW r \in Revs, NEW row \in Revision, row.st = "new",
         NEW desired \in {"active", "inactive"}
  PROVE  LET e == After(EditSaves(r, row, desired)) IN
           /\ Alone(db) => Alone(e)
           /\ Sound(db) /\ Cause(db) /\ row = db.rev[r] => Sound(e) /\ Cause(e)
<1> DEFINE edited == [row EXCEPT !.desired = desired]
           e == [db EXCEPT !.rev[r] = edited]
<1>1. edited \in Revision /\ edited.st = "new" /\ edited.cr = row.cr /\ db \in Rows
  BY DEF Revision, Desired, Base
<1>2. After(EditSaves(r, row, desired)) = e
  BY DEF EditSaves, After
<1> HIDE DEF edited
<1>3. Alone(db) => Alone(e)
  BY <1>1, RevisionKeeps DEF Live
<1>4. ASSUME Sound(db), Cause(db), row = db.rev[r]
      PROVE  Sound(e) /\ Cause(e)
  <2>1. row.cr = None
    BY <1>4 DEF Sound, OpenAsked
  <2>2. Sound(e)
    BY <1>1, <1>4, <2>1, RevisionKeeps DEF Live
  <2>3. e.state = db.state /\ \A q \in Revs : q # r => e.rev[q] = db.rev[q]
    BY <1>1 DEF Rows
  <2> HIDE DEF e
  <2>4. Cause(e)
    BY <1>4, <2>3 DEF Cause
  <2> QED
    BY <2>2, <2>4
<1> HIDE DEF e
<1> QED
  BY <1>2, <1>3, <1>4

LEMMA EditStep ==
  ASSUME Inv, NEW r \in Revs, NEW desired \in {"active", "inactive"}, Edit(r, desired)
  PROVE  Step
<1>1. /\ Base(db) /\ db.rev[r] \in Revision /\ db.rev[r].st = "new"
      /\ trouble \subseteq Faults /\ Does(EditSaves(r, db.rev[r], desired))
  BY DEF Edit, Inv, Base, Rows
<1>2. /\ EditSaves(r, db.rev[r], desired) \in Seq(Onward(db))
      /\ EditSaves(r, db.rev[r], desired) # <<>>
  BY <1>1, EditSavesOnward
<1> QED
  BY <1>1, <1>2, EditSavesSettle, DoesStep

LEMMA StartStep ==
  ASSUME Inv, NEW r \in Revs, db.rev[r].st = "new", Start(r)
  PROVE  Step
<1>1. /\ Base(db) /\ kind \in Kinds /\ db.rev[r] \in Revision /\ UnusedCRs # {}
      /\ db.rev[r].desired # "bootstrap" /\ trouble \subseteq Faults
      /\ Does(StartSaves(r, db.rev[r]))
  BY DEF Start, CanStart, Inv, Base, OnlyRootBootstraps, Rows
<1>2. /\ StartSaves(r, db.rev[r]) \in Seq(Onward(db))
      /\ StartSaves(r, db.rev[r]) # <<>>
  BY <1>1, StartSavesOnward DEF Ended
<1> QED
  BY <1>1, <1>2, StartSavesSettle, DoesStep

LEMMA RestartStep ==
  ASSUME Inv, NEW r \in Revs, ApproverSetRevisionRestart(r)
  PROVE  Step
<1>1. /\ Base(db) /\ kind \in Kinds /\ db.rev[r] \in Revision /\ UnusedCRs # {}
      /\ db.rev[r].desired # "bootstrap" \/ db.current # None
      /\ db' = After(StartSaves(r, db.rev[r]))
      /\ trouble' = trouble \cup {"restart"} /\ "restart" \in Faults
      /\ trouble \subseteq Faults
  BY DEF ApproverSetRevisionRestart, CanStart, Inv, Base, OnlyRootBootstraps, Rows
<1>2. /\ StartSaves(r, db.rev[r]) \in Seq(Kept(db))
      /\ StartSaves(r, db.rev[r]) # <<>>
  BY <1>1, StartSavesOnward
<1> QED
  BY <1>1, <1>2, StartSavesSettle, TroubledStep

LEMMA CancelStep ==
  ASSUME Inv, NEW r \in Revs, Cancel(r)
  PROVE  Step
<1>1. /\ Base(db) /\ kind \in Kinds /\ db.rev[r].cr \in CRs \cup {None}
      /\ r \in Open(db) /\ db.rev[r].st \notin Ended /\ trouble \subseteq Faults
      /\ Does(CancelSaves(r, db.rev[r].cr))
  BY DEF Cancel, Inv, Base, Rows, Revision, Open, Ended
<1>2. /\ CancelSaves(r, db.rev[r].cr) \in Seq(Onward(db))
      /\ CancelSaves(r, db.rev[r].cr) # <<>>
  BY <1>1, CancelSavesOnward
<1> QED
  BY <1>1, <1>2, CancelSavesSettle, DoesStep

LEMMA UpdateStep ==
  ASSUME Inv, Does(Saves(db))
  PROVE  Step
<1>1. Base(db) /\ kind \in Kinds /\ trouble \subseteq Faults
  BY DEF Inv
<1>2. Saves(db) \in Seq(Onward(db)) /\ Saves(db) # <<>>
  BY <1>1, SavesOnward
<1> QED
  BY <1>1, <1>2, UpdateStateAlone, UpdateStateSound, DoesStep DEF UpdateState

(* An upload: the signature, then the CR and the object, or back again. *)
LEMMA UploadStep ==
  ASSUME Inv, Upload
  PROVE  Step
<1> DEFINE c == paper.cr
           signed == [db EXCEPT !.cr[c].signed = paper]
           cleared == [signed EXCEPT !.cr[c].signed = Unsigned]
           tail == CRSaves(signed, c)
<1>1. /\ Base(db) /\ kind \in Kinds /\ trouble \subseteq Faults
      /\ paper \in Attestations /\ c \in CRs
  BY DEF Inv, Upload, Attestations
<1>2. CASE db.cr[c].st # "pendingapproval"
  BY <1>2, UpdateStep DEF Upload
<1>3. CASE db.cr[c].st = "pendingapproval"
  <2>1. db \in Rows /\ db.cr[c] \in ChangeRequest
    BY <1>1 DEF Base, Rows
  <2>2. signed \in Onward(db) /\ Base(signed)
    BY <1>1, <1>3, SignedOnward DEF Undecided, Onward
  <2>3. (Alone(db) => Alone(signed)) /\ (Sound(db) => Sound(signed))
    <3> DEFINE row == [db.cr[c] EXCEPT !.signed = paper]
    <3>1. row \in ChangeRequest /\ row.st # "unused" /\ row.init = db.cr[c].init
      BY <1>1, <1>3, <2>1 DEF ChangeRequest
    <3>2. signed = [db EXCEPT !.cr[c] = row]
      OBVIOUS
    <3> HIDE DEF row, signed, c
    <3> QED
      BY <1>1, <2>1, <3>1, <3>2, CRKeeps
  <2>4. /\ signed.rev = db.rev /\ signed.state = db.state /\ signed.cr[c].st = "pendingapproval"
        /\ signed.cr[c] \in ChangeRequest /\ signed.cr[c].init = db.cr[c].init
    BY <1>1, <1>3, <2>1 DEF Rows, ChangeRequest
  <2>5. /\ Does(IF VerifyCR(signed) THEN <<signed>> \o tail ELSE <<signed, cleared>>)
    BY <1>3 DEF Upload
  <2>6. Cause(db) => Cause(signed)
    BY <2>4 DEF Cause
  <2> HIDE DEF signed
  <2>7. CASE VerifyCR(signed)
    <3> DEFINE first == <<signed>>
               S == Onward(db)
    <3>1. tail \in Seq(S) /\ tail # <<>>
      BY <1>1, <2>2, CRSavesOnward, OnwardFurther
    <3>2. first \in Seq(S)
      BY <2>2
    <3>3. Does(first \o tail)
      BY <2>5, <2>7
    <3>4. /\ Alone(signed) => Alone(After(tail))
          /\ Sound(signed) /\ Cause(signed) => Sound(After(tail)) /\ Cause(After(tail))
      BY <1>1, <2>2, CRSavesSettle
    <3> HIDE DEF first, tail, S
    <3>5. first \o tail \in Seq(S) /\ first \o tail # <<>>
          /\ After(first \o tail) = After(tail)
      BY <3>1, <3>2, AfterConcat
    <3> DEFINE s == first \o tail
    <3> HIDE DEF s
    <3>6. s \in Seq(Onward(db)) /\ s # <<>> /\ Does(s) /\ After(s) = After(tail)
      BY <3>3, <3>5 DEF s, S
    <3> QED
      BY <1>1, <2>3, <2>6, <3>4, <3>6, DoesStep
  <2>8. CASE ~VerifyCR(signed)
    <3>1. cleared \in Onward(signed)
      BY <1>1, <2>2, <2>4, SignedOnward DEF Undecided
    <3>2. (Alone(signed) => Alone(cleared)) /\ (Sound(signed) => Sound(cleared))
      <4> DEFINE row == [signed.cr[c] EXCEPT !.signed = Unsigned]
      <4>1. row \in ChangeRequest /\ row.st # "unused" /\ row.init = signed.cr[c].init
        BY <2>4 DEF ChangeRequest
      <4>2. cleared = [signed EXCEPT !.cr[c] = row]
        OBVIOUS
      <4>3. signed \in Rows
        BY <2>2 DEF Base
      <4> HIDE DEF row, cleared, c
      <4> QED
        BY <1>1, <4>1, <4>2, <4>3, CRKeeps
    <3>3. cleared.rev = signed.rev /\ cleared.state = signed.state
      BY <2>2 DEF Base, Rows
    <3>4. Cause(signed) => Cause(cleared)
      BY <3>3 DEF Cause
    <3>5. cleared \in Onward(db)
      BY <2>2, <3>1, OnwardFurther
    <3> HIDE DEF cleared
    <3> DEFINE s == <<signed, cleared>>
    <3>6. s \in Seq(Onward(db)) /\ s # <<>> /\ Does(s) /\ After(s) = cleared
      BY <2>2, <2>5, <2>8, <3>5 DEF After
    <3> HIDE DEF s
    <3> QED
      BY <1>1, <2>3, <2>6, <3>2, <3>4, <3>6, DoesStep
  <2> QED
    BY <2>7, <2>8
<1> QED
  BY <1>2, <1>3

(* An overtaken request goes on with the row it read. *)
LEMMA GoOnStep ==
  ASSUME Inv, GoOn
  PROVE  Step
<1>1. /\ Base(db) /\ kind \in Kinds /\ trouble \subseteq Faults /\ "race" \in trouble
      /\ late.rev \in Revs /\ late.row \in Revision /\ late.row.cr \in CRs \cup {None}
      /\ late.op # "cancel" => late.row.st = "new" /\ late.row.desired # "bootstrap"
  BY DEF Inv, LateAsRead, LateRequests, GoOn, Revision
<1>2. ASSUME NEW s \in Seq(Kept(db)), s # <<>>, Overtaken(s), Alone(db) => Alone(After(s))
      PROVE  Step
  BY <1>1, <1>2, TroubledStep DEF Overtaken
<1>3. CASE late.op = "cancel" /\ Overtaken(CancelSaves(late.rev, late.row.cr))
  BY <1>1, <1>2, <1>3, CancelSavesOnward, CancelSavesSettle
<1>4. CASE late.op = "start" /\ CanStart /\ Overtaken(StartSaves(late.rev, late.row))
  BY <1>1, <1>2, <1>4, StartSavesOnward, StartSavesSettle DEF CanStart
<1>5. CASE late.op = "start" /\ ~CanStart /\ Overtaken(<<db>>)
  <2>1. <<db>> \in Seq(Kept(db)) /\ <<db>> # <<>> /\ After(<<db>>) = db
    BY <1>1, OnwardSame, KeptFurther DEF After
  <2> QED
    BY <1>2, <1>5, <2>1
<1>6. ASSUME late.op = "edit", NEW desired \in {"active", "inactive"},
             Overtaken(EditSaves(late.rev, late.row, desired))
      PROVE  Step
  BY <1>1, <1>2, <1>6, EditSavesOnward, EditSavesSettle
<1> QED
  BY <1>3, <1>4, <1>5, <1>6 DEF GoOn

(* The actions, whatever the kind of object. *)
LEMMA NextCases ==
  ASSUME Next
  PROVE  \/ \E r \in Revs, desired \in {"active", "inactive"} :
              Create(r, desired) \/ Edit(r, desired)
         \/ \E r \in Revs : db.rev[r].st = "new" /\ Start(r)
         \/ \E r \in Revs : ApproverSetRevisionRestart(r)
         \/ \E r \in Revs : Cancel(r)
         \/ TriggerUpdate
         \/ \E r \in Revs, op \in {"cancel", "start", "edit"} : Load(r, op)
         \/ \E c \in CRs, action \in {"approved", "declined"} : Attest(c, action)
         \/ Upload
         \/ GoOn
BY Zenon DEF Next,
   HostRevisionCreate, ContactRevisionCreate, APIUserRevisionCreate,
   ApproverRevisionCreate, ApproverSetRevisionCreate,
   HostRevisionEdit, ContactRevisionEdit, APIUserRevisionEdit,
   ApproverRevisionEdit, ApproverSetRevisionEdit,
   HostRevisionAction, ContactRevisionAction, APIUserRevisionAction,
   ApproverRevisionAction, ApproverSetRevisionAction,
   HostRevisionCancel, ContactRevisionCancel, APIUserRevisionCancel,
   ApproverRevisionCancel, ApproverSetRevisionCancel,
   HostRevisionStart, ContactRevisionStart, APIUserRevisionStart,
   ApproverRevisionStart, ApproverSetRevisionStart

(* Every step is such a Step, and keeps what is not in the rows. *)
LEMMA NextStep ==
  ASSUME Inv, Next
  PROVE  /\ Step
         /\ UNCHANGED <<kind, root>>
         /\ paper' \in Attestations \cup {Unsigned}
         /\ late' \in LateRequests \cup {Unsigned} /\ LateAsRead'
<1>1. /\ Base(db) /\ db \in Rows /\ trouble \subseteq Faults
      /\ paper \in Attestations \cup {Unsigned}
      /\ late \in LateRequests \cup {Unsigned} /\ LateAsRead
  BY DEF Inv, Base
<1> DEFINE Rest == /\ UNCHANGED <<kind, root>>
                   /\ paper' \in Attestations \cup {Unsigned}
                   /\ late' \in LateRequests \cup {Unsigned} /\ LateAsRead'
<1>2. ASSUME Step, UNCHANGED <<kind, root, late>>,
             paper' \in Attestations \cup {Unsigned}
      PROVE  Step /\ Rest
  BY <1>1, <1>2 DEF Step, LateAsRead
<1>3. ASSUME NEW r \in Revs, NEW desired \in {"active", "inactive"},
             Create(r, desired) \/ Edit(r, desired)
      PROVE  Step /\ Rest
  BY <1>1, <1>2, <1>3, CreateStep, EditStep DEF Create, Edit
<1>4. ASSUME NEW r \in Revs, db.rev[r].st = "new", Start(r)
      PROVE  Step /\ Rest
  BY <1>1, <1>2, <1>4, StartStep DEF Start
<1>5. ASSUME NEW r \in Revs, ApproverSetRevisionRestart(r)
      PROVE  Step /\ Rest
  BY <1>1, <1>2, <1>5, RestartStep DEF ApproverSetRevisionRestart
<1>6. ASSUME NEW r \in Revs, Cancel(r)
      PROVE  Step /\ Rest
  BY <1>1, <1>2, <1>6, CancelStep DEF Cancel
<1>7. CASE TriggerUpdate
  BY <1>1, <1>2, <1>7, UpdateStep DEF TriggerUpdate
<1>8. ASSUME NEW r \in Revs, NEW op \in {"cancel", "start", "edit"}, Load(r, op)
      PROVE  Step /\ Rest
  <2>1. /\ late' = [op |-> op, rev |-> r, row |-> db.rev[r]]
        /\ trouble' = trouble \cup {"race"} /\ "race" \in Faults
        /\ op # "cancel" => db.rev[r].st = "new"
        /\ UNCHANGED <<kind, root, db, paper>>
    BY <1>8 DEF Load
  <2>2. db.rev[r] \in Revision
    BY <1>1 DEF Rows
  <2>3. late' \in LateRequests
    BY <2>1, <2>2 DEF LateRequests
  <2>4. op # "cancel" => db.rev[r].desired # "bootstrap"
    BY <1>1, <2>1 DEF Base, OnlyRootBootstraps
  <2>5. LateAsRead'
    BY <2>1, <2>4 DEF LateAsRead
  <2>6. Step
    BY <1>1, <2>1, IdleStep
  <2> QED
    BY <1>1, <2>1, <2>3, <2>5, <2>6
<1>9. ASSUME NEW c \in CRs, NEW action \in {"approved", "declined"}, Attest(c, action)
      PROVE  Step /\ Rest
  <2>1. /\ UNCHANGED <<kind, root, db, late, trouble>>
        /\ paper' = [cr |-> c, rev |-> Pending(db),
                     desired |-> db.rev[Pending(db)].desired, action |-> action]
        /\ Pending(db) # None
    BY <1>9 DEF Attest
  <2>2. Pending(db) \in Revs /\ db.rev[Pending(db)] \in Revision
    BY <1>1, <2>1, PendingIsOpen DEF Rows
  <2>3. paper' \in Attestations
    BY <2>1, <2>2 DEF Attestations, Revision
  <2>4. Step
    BY <1>1, <2>1, IdleStep
  <2> QED
    BY <1>2, <2>1, <2>3, <2>4
<1>10. CASE Upload
  BY <1>1, <1>2, <1>10, UploadStep DEF Upload
<1>11. CASE GoOn
  <2>1. late' = Unsigned /\ UNCHANGED <<kind, root, paper, trouble>>
    BY <1>11 DEF GoOn, Overtaken
  <2>2. LateAsRead'
    BY <2>1 DEF LateAsRead
  <2> QED
    BY <1>1, <1>11, <2>1, <2>2, GoOnStep
<1> QED
  BY <1>3, <1>4, <1>5, <1>6, <1>7, <1>8, <1>9, <1>10, <1>11, NextCases

-----------------------------------------------------------------------------
(* The invariant *)

LEMMA InitEstablishes ==
  ASSUME Init
  PROVE  Inv
<1>1. 1 \in Revs /\ 2 \in Revs /\ None \notin Revs
  BY BoundsAssumption DEF Revs, None
<1>2. CASE ~root
  <2>1. db = NewObject
    BY <1>2 DEF Init
  <2>2. db \in Rows
    BY <2>1 DEF NewObject, Rows, Revision, ChangeRequest, Blank, NoCR, Desired
  <2>3. Base(db)
    BY <2>1, <2>2 DEF Base, Witnessed, ApprovedIsSigned, OnlyRootBootstraps,
       CurrentExists, OnceInForce, Live, NewObject, Blank, NoCR
  <2>4. Sound(db) /\ Cause(db)
    BY <1>1, <2>1 DEF Sound, Alone, OneOfThem, OpenAsked, Replaced, Approved,
       OnceInForce, Cause, PendingStates, Live, NewObject, Blank
  <2> QED
    BY <2>3, <2>4 DEF Inv, Init, LateAsRead, Sound
<1>3. CASE root
  <2>1. db = BootstrapRegistrar
    BY <1>3 DEF Init
  <2> DEFINE first == [Blank EXCEPT !.st = "bootstrap", !.desired = "bootstrap"]
             second == [Blank EXCEPT !.st = "new"]
  <2>2. /\ db.state = "active" /\ db.current = 1
        /\ db.rev[1] = first /\ db.rev[2] = second
        /\ \A r \in Revs \ {1, 2} : db.rev[r] = Blank
        /\ db.cr = [c \in CRs |-> NoCR]
        /\ db.rev = [r \in Revs |-> IF r = 1 THEN first ELSE IF r = 2 THEN second ELSE Blank]
        /\ db = [state |-> "active", current |-> 1, rev |-> db.rev, cr |-> db.cr]
    <3> DEFINE blank == [r \in Revs |-> Blank]
               nocr == [c \in CRs |-> NoCR]
    <3>1. db = [[state |-> "new", current |-> None, rev |-> blank, cr |-> nocr]
                EXCEPT !.state = "active", !.current = 1, !.rev[1] = first, !.rev[2] = second]
      BY <2>1 DEF BootstrapRegistrar, NewObject
    <3> HIDE DEF nocr, first, second
    <3>2. db = [state |-> "active", current |-> 1,
                rev |-> [[blank EXCEPT ![1] = first] EXCEPT ![2] = second], cr |-> nocr]
      <4> HIDE DEF blank
      <4> QED BY <3>1
    <3>3. [[blank EXCEPT ![1] = first] EXCEPT ![2] = second] =
            [r \in Revs |-> IF r = 1 THEN first ELSE IF r = 2 THEN second ELSE Blank]
      <4> HIDE DEF Blank
      <4> QED BY <1>1
    <3> QED
      BY <1>1, <3>2, <3>3 DEF nocr
  <2>3. first = [st |-> "bootstrap", desired |-> "bootstrap", cr |-> None]
        /\ second = [st |-> "new", desired |-> "active", cr |-> None]
    <3>1. Blank = [st |-> "unused", desired |-> "active", cr |-> None]
      BY DEF Blank
    <3>2. first = [st |-> "bootstrap", desired |-> "bootstrap", cr |-> None]
      <4>1. [Blank EXCEPT !.st = "bootstrap"] =
              [st |-> "bootstrap", desired |-> "active", cr |-> None]
        BY <3>1
      <4>2. first = [[Blank EXCEPT !.st = "bootstrap"] EXCEPT !.desired = "bootstrap"]
        OBVIOUS
      <4>3. [[st |-> "bootstrap", desired |-> "active", cr |-> None]
               EXCEPT !.desired = "bootstrap"] =
              [st |-> "bootstrap", desired |-> "bootstrap", cr |-> None]
        OBVIOUS
      <4> HIDE DEF first
      <4> QED
        BY <4>1, <4>2, <4>3
    <3>3. second = [st |-> "new", desired |-> "active", cr |-> None]
      BY <3>1
    <3> QED
      BY <3>2, <3>3
  <2> HIDE DEF first, second
  <2>4. db \in Rows
    <3>1. first \in Revision /\ second \in Revision /\ Blank \in Revision
      BY <2>3 DEF Revision, Desired, Live, Blank
    <3>2. NoCR \in ChangeRequest
      BY DEF NoCR, ChangeRequest
    <3>3. db.rev \in [Revs -> Revision] /\ db.cr \in [CRs -> ChangeRequest]
      BY <2>2, <3>1, <3>2
    <3> QED
      BY <1>1, <2>2, <3>3 DEF Rows, Live
  <2>5. Base(db)
    <3>1. Witnessed(db)
      BY <2>2, <2>3 DEF Witnessed, OnceInForce, Live, Blank
    <3>2. ApprovedIsSigned(db)
      BY <2>2 DEF ApprovedIsSigned, NoCR
    <3>3. OnlyRootBootstraps(db) /\ CurrentExists(db)
      BY <2>2, <2>3 DEF OnlyRootBootstraps, CurrentExists, Blank, None
    <3> QED
      BY <2>4, <3>1, <3>2, <3>3 DEF Base
  <2>6. Sound(db) /\ Cause(db)
    <3>1. Alone(db) /\ OneOfThem(db)
      BY <1>1, <2>2, <2>3 DEF Alone, OneOfThem, Live, Blank, None
    <3>2. OpenAsked(db) /\ Replaced(db)
      BY <2>2, <2>3 DEF OpenAsked, Replaced, Approved, Blank
    <3>3. Cause(db)
      BY <2>2 DEF Cause, PendingStates
    <3> QED
      BY <3>1, <3>2, <3>3 DEF Sound
  <2> QED
    BY <2>5, <2>6 DEF Inv, Init, LateAsRead, Sound
<1> QED
  BY <1>2, <1>3 DEF Init

(* Every step keeps the invariant. *)
LEMMA NextKeeps ==
  ASSUME Inv, [Next]_vars
  PROVE  Inv'
<1>1. CASE Next
  <2>1. Step /\ UNCHANGED <<kind, root>> /\ paper' \in Attestations \cup {Unsigned}
        /\ late' \in LateRequests \cup {Unsigned} /\ LateAsRead'
    BY <1>1, NextStep
  <2>2. Base(db') /\ trouble' \subseteq Faults
    BY <2>1 DEF Step, Kept
  <2>3. "crash" \notin trouble' => Alone(db')
    BY <2>1 DEF Step, Inv
  <2>4. trouble' = {} => Sound(db') /\ Cause(db')
    BY <2>1 DEF Step, Inv
  <2> QED
    BY <2>1, <2>2, <2>3, <2>4 DEF Inv
<1>2. CASE UNCHANGED vars
  BY <1>2 DEF vars, Inv, LateAsRead
<1> QED
  BY <1>1, <1>2

(* The inductive invariant holds in every reachable state. *)
THEOREM Invariance == Spec => []Inv
<1>1. Init => Inv
  BY InitEstablishes
<1>2. Inv /\ [Next]_vars => Inv'
  BY NextKeeps
<1> QED
  BY <1>1, <1>2, PTL DEF Spec

(* Rows, attestations and overtaken requests keep their types. *)
THEOREM TypeCorrect == Spec => []TypeOK
<1>1. Inv => TypeOK
  BY DEF Inv, Base, TypeOK
<1> QED
  BY <1>1, Invariance, PTL

(* Nothing is or was in force that an approver has not signed as it is, for *)
(* any number of revisions and change requests and through all troubles.    *)
THEOREM InForceWasSignedHolds == Spec => []InForceWasSigned
<1>1. Inv => InForceWasSigned
  BY DEF Inv, Base, Witnessed, Witness, OnceInForce, InForceWasSigned, WasInForce, InForce
<1> QED
  BY <1>1, Invariance, PTL

(* Only a crash leaves another revision in force next to the current one. *)
THEOREM CurrentIsAloneHolds == Spec => []CurrentIsAlone
<1>1. Inv => CurrentIsAlone
  BY DEF Inv, Alone, CurrentIsAlone, InForce
<1> QED
  BY <1>1, Invariance, PTL

(* Without trouble exactly the revision the object names is in force, and   *)
(* each one that came into force replaced another one.                      *)
THEOREM OneInForceHolds == Spec => []OneInForce
<1>1. Inv => OneInForce
  BY DEF Inv, Sound, OneOfThem, Replaced, Approved, Initial, OnceInForce,
         OneInForce, WasInForce, InForce
<1> QED
  BY <1>1, Invariance, PTL

(* Without trouble a pending state of the object has a waiting revision. *)
THEOREM PendingHasCauseHolds == Spec => []PendingHasCause
<1>1. Inv => PendingHasCause
  BY DEF Inv, Cause, PendingHasCause
<1> QED
  BY <1>1, Invariance, PTL

(* A decided CR keeps its decision and its signature through all troubles,  *)
(* and revisions that ended stay so unless a request is overtaken or        *)
(* restarted.                                                               *)
THEOREM DecidedIsFinalHolds == Spec => DecidedIsFinal
<1> DEFINE Final ==
      /\ trouble' \subseteq {"crash"} =>
           \A r \in Revs :
             db.rev[r].st \in {"cancelled", "approvalfailed", "superseded"} =>
               db'.rev[r].st = db.rev[r].st
      /\ \A c \in CRs : db.cr[c].st \in {"approved", "declined", "cancelled"} =>
           db'.cr[c] = db.cr[c]
<1>1. Inv /\ [Next]_vars => [Final]_vars
  <2> SUFFICES ASSUME Inv, Next
               PROVE  Final
    OBVIOUS
  <2>1. Step
    BY NextStep
  <2> QED
    BY <2>1 DEF Step, Kept, Onward, CRsKept, RevsKept, Ended, Decided
<1> QED
  BY <1>1, Invariance, PTL DEF Spec, DecidedIsFinal
-----------------------------------------------------------------------------
(* The ledger: what each save of a request does to the changes, crash or    *)
(* not.                                                                     *)

Settled(d, r) == d.rev[r].st \notin {"unused", "new", "pendingapproval"}

(* A revision gets its CR when approval is asked for, and a CR is written   *)
(* against a revision that is past that.                                    *)
Linked(d) ==
  /\ \A r \in Revs : d.rev[r].st \in {"unused", "new"} => d.rev[r].cr = None
  /\ \A r \in Revs : d.rev[r].cr # None => d.cr[d.rev[r].cr].st # "unused"
  /\ \A c \in CRs : d.cr[c].init # None => Settled(d, d.cr[c].init)
  /\ d.current # None => Settled(d, d.current)
  /\ root => Settled(d, 1)

SameLinks(d, e) == \A r \in Revs : e.rev[r].cr = d.rev[r].cr

(* The object names another revision, approved against the one before. *)
ComesAfter(d, e) ==
  LET p == e.current IN
    /\ p \in Revs /\ ~Settled(d, p)
    /\ e.rev[p].cr # None
    /\ e.cr[e.rev[p].cr].st = "approved" /\ e.cr[e.rev[p].cr].init = d.current

Follows(d, e) ==
  /\ \A r \in Revs : d.rev[r].cr # None => e.rev[r].cr = d.rev[r].cr
  /\ \A r \in Revs : d.rev[r].cr = None /\ e.rev[r].cr # None =>
       e.cr[e.rev[r].cr].init = d.current
  /\ \A c \in CRs : d.cr[c].st # "unused" =>
       e.cr[c].st # "unused" /\ e.cr[c].init = d.cr[c].init
  /\ \A r \in Revs : Settled(d, r) => Settled(e, r)
  /\ CRsKept(d, e)
  /\ e.current = d.current \/ ComesAfter(d, e)

(* Where the saves of a request may lead, and those of UpdateState. *)
Ahead(d) == {e \in Rows : Linked(e) /\ Follows(d, e)}
Updates(d) == {e \in Ahead(d) : SameLinks(d, e)}

(* Within one request only one revision takes over: what comes after it     *)
(* would have to be written against it.                                     *)
LEMMA AheadFurther ==
  ASSUME NEW d \in Rows, Linked(d), NEW e \in Ahead(d), NEW f \in Updates(e)
  PROVE  /\ f \in Ahead(d)
         /\ e \in Updates(d) => f \in Updates(d)
         /\ e.current = d.current \/ f.current = e.current
<1>1. /\ e \in Rows /\ f \in Rows /\ Linked(e) /\ Linked(f)
      /\ Follows(d, e) /\ Follows(e, f) /\ SameLinks(e, f)
      /\ d.current \in Revs \cup {None} /\ e.current \in Revs \cup {None}
      /\ None \notin Revs
  BY BoundsAssumption DEF Ahead, Updates, Rows, Revs, None
<1>2. \A x \in Rows, r \in Revs : x.rev[r].cr # None => x.rev[r].cr \in CRs
  BY DEF Rows, Revision
<1>3. ASSUME ComesAfter(d, e), ComesAfter(e, f)
      PROVE  FALSE
  <2> DEFINE p == e.current
             q == f.current
             c == e.rev[q].cr
  <2>1. /\ q \in Revs /\ c \in CRs /\ c # None /\ f.rev[q].cr = c /\ ~Settled(d, p)
        /\ f.cr[c].init = p /\ p \in Revs /\ p # None
    BY <1>1, <1>2, <1>3, SMTT(60) DEF ComesAfter, SameLinks
  <2>2. e.cr[c].st # "unused" /\ e.cr[c].init = p
    BY <1>1, <2>1 DEF Linked, Follows
  <2>3. CASE d.rev[q].cr = None
    <3>1. d.current = p
      BY <1>1, <2>1, <2>2, <2>3 DEF Follows
    <3> QED
      BY <2>1, <3>1 DEF Linked
  <2>4. CASE d.rev[q].cr # None
    <3>1. d.rev[q].cr = c /\ d.cr[c].st # "unused"
      BY <1>1, <2>1, <2>4, SMTT(60) DEF Follows, Linked
    <3>2. d.cr[c].init = p
      BY <1>1, <2>1, <2>2, <3>1, SMTT(60) DEF Follows
    <3> QED
      BY <2>1, <3>2, SMTT(60) DEF Linked
  <2> QED
    BY <2>3, <2>4
<1>4. e.current = d.current \/ f.current = e.current
  BY <1>1, <1>3 DEF Follows
<1>5. f.current = d.current \/ ComesAfter(d, f)
  <2>1. CASE f.current = e.current /\ ComesAfter(d, e)
    <3> DEFINE p == e.current
               c == e.rev[p].cr
    <3>1. p \in Revs /\ c \in CRs /\ f.rev[p].cr = c /\ e.cr[c].st = "approved"
      BY <1>1, <1>2, <2>1 DEF ComesAfter, SameLinks
    <3>2. f.cr[c] = e.cr[c]
      BY <1>1, <3>1 DEF Follows, CRsKept, Decided
    <3> QED
      BY <1>1, <2>1, <3>1, <3>2 DEF ComesAfter
  <2>2. CASE e.current = d.current /\ ComesAfter(e, f)
    BY <1>1, <2>2 DEF ComesAfter, Follows
  <2> QED
    BY <1>1, <1>4, <2>1, <2>2 DEF Follows
<1>6. /\ \A r \in Revs : d.rev[r].cr # None => f.rev[r].cr = d.rev[r].cr
      /\ \A c \in CRs : d.cr[c].st # "unused" =>
           f.cr[c].st # "unused" /\ f.cr[c].init = d.cr[c].init
      /\ \A r \in Revs : Settled(d, r) => Settled(f, r)
  BY <1>1 DEF Follows, SameLinks
<1>7. CRsKept(d, f)
  BY <1>1 DEF Follows, CRsKept, Decided
<1>8. ASSUME NEW r \in Revs, d.rev[r].cr = None, f.rev[r].cr # None
      PROVE  f.cr[f.rev[r].cr].init = d.current
  <2>1. e.rev[r].cr = f.rev[r].cr /\ f.rev[r].cr \in CRs
    BY <1>1, <1>2, <1>8 DEF SameLinks
  <2> QED
    BY <1>1, <1>8, <2>1 DEF Follows, Linked
<1>9. f \in Ahead(d)
  BY <1>1, <1>5, <1>6, <1>7, <1>8 DEF Ahead, Follows
<1> QED
  BY <1>4, <1>9 DEF Updates, SameLinks

(* The object's own state, or nothing. *)
LEMMA UpdatesState ==
  ASSUME NEW d, Linked(d), NEW e \in Rows,
         e.rev = d.rev, e.cr = d.cr, e.current = d.current
  PROVE  e \in Updates(d)
BY DEF Updates, Ahead, Linked, Follows, SameLinks, Settled, CRsKept

(* A revision that does not go back to before its approval was asked for. *)
LEMMA UpdatesRevision ==
  ASSUME NEW d \in Rows, Linked(d), NEW r \in Revs, NEW row \in Revision,
         row.cr = d.rev[r].cr, row.st # "unused", row.st = "new" => row.cr = None,
         Settled(d, r) => row.st \notin {"new", "pendingapproval"}
  PROVE  [d EXCEPT !.rev[r] = row] \in Updates(d)
<1> DEFINE e == [d EXCEPT !.rev[r] = row]
<1>1. /\ e \in Rows /\ e.cr = d.cr /\ e.current = d.current
      /\ e.rev[r] = row /\ \A q \in Revs : q # r => e.rev[q] = d.rev[q]
  BY DEF Rows
<1>2. /\ d.current \in Revs \cup {None}
      /\ \A c \in CRs : d.cr[c].init \in Revs \cup {None}
  BY DEF Rows, ChangeRequest
<1>3. 1 \in Revs
  BY BoundsAssumption DEF Revs
<1> HIDE DEF e
<1>4. \A q \in Revs : (Settled(d, q) => Settled(e, q)) /\ e.rev[q].cr = d.rev[q].cr
  BY <1>1 DEF Settled
<1>5. Linked(e)
  BY <1>1, <1>2, <1>3, <1>4 DEF Linked
<1>6. Follows(d, e) /\ SameLinks(d, e)
  BY <1>1, <1>4 DEF Follows, SameLinks, CRsKept
<1>7. e \in Updates(d)
  BY <1>1, <1>5, <1>6 DEF Updates, Ahead
<1> QED
  BY <1>7 DEF e

(* A CR that is made, against the current revision, or that is undecided    *)
(* and keeps what it was made against.                                      *)
LEMMA UpdatesCR ==
  ASSUME NEW d \in Rows, Linked(d), NEW c \in CRs, NEW row \in ChangeRequest,
         row.st # "unused", d.cr[c].st \notin Decided,
         row.init = IF d.cr[c].st = "unused" THEN d.current ELSE d.cr[c].init
  PROVE  [d EXCEPT !.cr[c] = row] \in Updates(d)
<1> DEFINE e == [d EXCEPT !.cr[c] = row]
<1>1. /\ e \in Rows /\ e.rev = d.rev /\ e.current = d.current
      /\ \A r \in Revs : d.rev[r].cr \in CRs \cup {None}
      /\ e.cr[c] = row /\ \A b \in CRs : b # c => e.cr[b] = d.cr[b]
  BY DEF Rows, Revision
<1> HIDE DEF e
<1>2. Linked(e)
  BY <1>1 DEF Linked, Settled
<1>3. Follows(d, e) /\ SameLinks(d, e)
  BY <1>1 DEF Follows, SameLinks, CRsKept, Settled
<1>4. e \in Updates(d)
  BY <1>1, <1>2, <1>3 DEF Updates, Ahead
<1> QED
  BY <1>4 DEF e

LEMMA UpdatesMean ==
  ASSUME NEW d, NEW e \in Updates(d)
  PROVE  e \in Rows /\ Linked(e) /\ Follows(d, e) /\ SameLinks(d, e)
BY DEF Updates, Ahead

(* The last save of a promotion. *)
LEMMA UpdatesCurrent ==
  ASSUME NEW d \in Rows, NEW e, e.current = d.current,
         Linked(e), Follows(d, e), SameLinks(d, e),
         NEW p \in Revs, ~Settled(d, p), Settled(e, p), e.rev[p].cr # None,
         e.cr[e.rev[p].cr].st = "approved", e.cr[e.rev[p].cr].init = d.current,
         NEW f \in Rows, f.rev = e.rev, f.cr = e.cr, f.current = p
  PROVE  f \in Updates(d)
<1>1. Linked(f)
  BY DEF Linked, Settled
<1>2. Follows(d, f) /\ SameLinks(d, f)
  BY DEF Follows, ComesAfter, SameLinks, Settled, CRsKept
<1> QED
  BY <1>1, <1>2 DEF Updates, Ahead

(* A promotion, a decline, and whatever else UpdateState finds. *)
LEMMA PromoteUpdates ==
  ASSUME NEW d, Base(d), Linked(d), VerifyCR(d), Pending(d) # None,
         d.cr[d.rev[Pending(d)].cr].st = "approved"
  PROVE  Promote(d, Pending(d)) \in Seq(Updates(d))
<1> DEFINE p == Pending(d)
           k == d.current
           c == d.rev[p].cr
           target == d.rev[p].desired
           row == [d.rev[p] EXCEPT !.st = target]
           e == [d EXCEPT !.rev[p] = row]
           old == [e.rev[k] EXCEPT !.st = "superseded"]
           f == IF k = None THEN e ELSE [e EXCEPT !.rev[k] = old]
           g == [f EXCEPT !.state = target, !.current = p]
<1>1. /\ d \in Rows /\ p \in Revs /\ p \in Open(d) /\ ~Settled(d, p)
      /\ k \in Revs \cup {None} /\ d.rev[p] \in Revision /\ target \in Live
      /\ c # None /\ c \in CRs /\ d.cr[c].init = k
  <2>1. p \in Revs /\ p \in Open(d) /\ d \in Rows
    BY PendingIsOpen DEF Base
  <2>2. d.rev[p] \in Revision /\ k \in Revs \cup {None}
    BY <2>1 DEF Rows
  <2>3. c # None /\ d.cr[c].init = k
    BY DEF VerifyCR
  <2> QED
    BY <2>1, <2>2, <2>3 DEF Open, Settled, Revision, Desired, Live
<1>2. Promote(d, p) =
        IF k # None /\ e.rev[k].st \notin Live THEN <<e>>
        ELSE IF target \notin {"active", "inactive"} THEN <<e, f>> ELSE <<e, f, g>>
  BY DEF Promote
<1>3. row \in Revision /\ row.st = target /\ row.cr = c
  BY <1>1 DEF Revision, Live
<1> HIDE DEF p, k, c, target, row
<1>4. /\ e \in Updates(d) /\ e \in Rows /\ Linked(e)
      /\ e.cr = d.cr /\ e.current = k /\ e.rev[p] = row
  <2>1. e \in Updates(d)
    BY <1>1, <1>3, UpdatesRevision DEF c, Live
  <2> QED
    BY <1>1, <2>1 DEF Updates, Ahead, Rows, k
<1> HIDE DEF e
<1>5. CASE k # None /\ e.rev[k].st \notin Live
  BY <1>2, <1>4, <1>5 DEF p
<1>6. CASE k = None \/ e.rev[k].st \in Live
  <2>1. /\ f \in Updates(d) /\ f \in Rows /\ f.cr = d.cr /\ f.current = k
        /\ f.rev[p].cr = c /\ Settled(f, p)
    <3>1. CASE k = None
      BY <1>1, <1>3, <1>4, <3>1 DEF Settled, Live
    <3>2. CASE k # None
      <4>1. k \in Revs /\ e.rev[k] \in Revision
        BY <1>1, <1>4, <3>2 DEF Rows
      <4>2. old \in Revision /\ old.st = "superseded" /\ old.cr = e.rev[k].cr
        BY <4>1 DEF Revision
      <4>3. f = [e EXCEPT !.rev[k] = old]
        BY <3>2
      <4> HIDE DEF old, f
      <4>4. f \in Updates(e)
        BY <1>4, <4>1, <4>2, <4>3, UpdatesRevision
      <4>5. f \in Updates(d)
        BY <1>1, <1>4, <4>4, AheadFurther DEF Updates
      <4>6. /\ f \in Rows /\ f.cr = d.cr /\ f.current = k
            /\ f.rev[k] = old /\ (p # k => f.rev[p] = row)
        BY <1>1, <1>4, <4>1, <4>3, <4>5 DEF Updates, Ahead, Rows
      <4>7. f.rev[p].cr = c /\ Settled(f, p)
        BY <1>1, <1>3, <1>4, <4>2, <4>6 DEF Settled, Live
      <4> QED
        BY <4>5, <4>6, <4>7
    <3> QED
      BY <3>1, <3>2
  <2> HIDE DEF f
  <2>2. Linked(f) /\ Follows(d, f) /\ SameLinks(d, f)
    BY <2>1, UpdatesMean
  <2>3. CASE target \notin {"active", "inactive"}
    BY <1>2, <1>4, <1>6, <2>1, <2>3 DEF p
  <2>4. CASE target \in {"active", "inactive"}
    <3>1. g \in Rows /\ g.rev = f.rev /\ g.cr = f.cr /\ g.current = p
      BY <1>1, <2>1, <2>4 DEF Rows
    <3>2. d.cr[c].st = "approved"
      BY DEF p, c
    <3> HIDE DEF g
    <3>3. g \in Updates(d)
      BY <1>1, <2>1, <2>2, <3>1, <3>2, UpdatesCurrent DEF k
    <3> QED
      BY <1>2, <1>4, <1>6, <2>1, <2>4, <3>3 DEF p
  <2> QED
    BY <2>3, <2>4
<1> QED
  BY <1>5, <1>6

LEMMA DeclineUpdates ==
  ASSUME NEW d, Base(d), Linked(d), NEW p \in Open(d)
  PROVE  Decline(d, p) \in Seq(Updates(d))
<1> DEFINE row == [d.rev[p] EXCEPT !.st = "approvalfailed"]
           e == [d EXCEPT !.rev[p] = row]
           st == IF d.current = None THEN "new"
                 ELSE IF e.rev[d.current].st = "bootstrap" THEN "active"
                 ELSE e.rev[d.current].st
           f == [e EXCEPT !.state = st]
<1>1. d \in Rows /\ p \in Revs /\ d.rev[p] \in Revision
  BY DEF Base, Rows, Open
<1>2. row \in Revision /\ row.st = "approvalfailed" /\ row.cr = d.rev[p].cr
  BY <1>1 DEF Revision
<1>3. Decline(d, p) = <<e, f>>
  BY DEF Decline
<1>4. Decline(d, p) \in Seq(Onward(d))
  BY DeclineSaves
<1> HIDE DEF row
<1>5. e \in Updates(d) /\ e \in Rows /\ Linked(e)
  BY <1>1, <1>2, UpdatesRevision DEF Updates, Ahead
<1> HIDE DEF e, st
<1>6. f.rev = e.rev /\ f.cr = e.cr /\ f.current = e.current
  BY <1>5 DEF Rows
<1> HIDE DEF f
<1>7. f \in Rows
  BY <1>3, <1>4 DEF Onward
<1>8. f \in Updates(e)
  BY <1>5, <1>6, <1>7, UpdatesState
<1>9. f \in Updates(d)
  BY <1>1, <1>5, <1>8, AheadFurther DEF Updates
<1> QED
  BY <1>3, <1>5, <1>9

(* UpdateState of the object. *)
LEMMA SavesUpdate ==
  ASSUME NEW d, Base(d), Linked(d), kind \in Kinds
  PROVE  Saves(d) \in Seq(Updates(d)) /\ UpdateState(d) \in Updates(d)
<1>1. d \in Rows /\ Saves(d) = ResolvePending(d) /\ Saves(d) # <<>>
  BY SavesOnward DEF Base
<1>2. <<d>> \in Seq(Updates(d))
  BY <1>1, UpdatesState
<1>3. Revert(d) \in Seq(Updates(d))
  <2> DEFINE st == IF d.state = "pendingbootstrap" THEN "bootstrap"
                   ELSE IF d.current # None THEN d.rev[d.current].desired
                   ELSE "new"
             e == [d EXCEPT !.state = st]
  <2>1. Revert(d) = <<e>> /\ Revert(d) \in Seq(Onward(d))
    BY RevertSaves DEF Revert
  <2> HIDE DEF st
  <2>2. e.rev = d.rev /\ e.cr = d.cr /\ e.current = d.current
    BY <1>1 DEF Rows
  <2> HIDE DEF e
  <2>3. e \in Rows
    BY <2>1 DEF Onward
  <2>4. e \in Updates(d)
    BY <2>2, <2>3, UpdatesState
  <2> QED
    BY <2>1, <2>4
<1>4. Pending(d) # None => Pending(d) \in Open(d)
  BY PendingIsOpen
<1>5. ResolvePending(d) \in Seq(Updates(d))
  BY <1>2, <1>3, <1>4, PromoteUpdates, DeclineUpdates DEF ResolvePending
<1> QED
  BY <1>1, <1>5, AfterIsASave DEF UpdateState

(* UpdateState of a CR, then of the object. *)
LEMMA CRSavesUpdate ==
  ASSUME NEW d, Base(d), Linked(d), NEW c \in CRs, kind \in Kinds
  PROVE  CRSaves(d, c) \in Seq(Updates(d)) /\ After(CRSaves(d, c)) \in Updates(d)
<1>1. d \in Rows /\ CRSaves(d, c) # <<>>
  BY CRSavesOnward DEF Base
<1>2. CASE d.cr[c].st \in Undecided
  <2> DEFINE a == Advanced(d, c)
             first == <<a>>
             rest == Saves(a)
  <2>1. CRSaves(d, c) = first \o rest
    BY <1>2 DEF CRSaves, Advanced, Undecided
  <2>2. a \in Updates(d) /\ Base(a) /\ Linked(a)
    <3>1. PICK row \in ChangeRequest :
            /\ a = [d EXCEPT !.cr[c] = row]
            /\ row.st \in Decided \cup {"pendingapproval"} /\ row.init = d.cr[c].init
      BY AdvancedRow
    <3>2. Base(a)
      BY <1>2, AdvancedOnward DEF Onward
    <3> HIDE DEF a
    <3> QED
      BY <1>1, <1>2, <3>1, <3>2, UpdatesCR DEF Undecided, Decided, Updates, Ahead
  <2> HIDE DEF a
  <2>3. rest \in Seq(Updates(a))
    BY <2>2, SavesUpdate
  <2>4. Updates(a) \subseteq Updates(d)
    BY <1>1, <2>2, AheadFurther DEF Updates
  <2> HIDE DEF rest
  <2> DEFINE S == Updates(d)
  <2>5. first \in Seq(S) /\ rest \in Seq(S)
    BY <2>2, <2>3, <2>4
  <2> HIDE DEF first, S
  <2>6. first \o rest \in Seq(S)
    BY <2>5, ConcatProperties
  <2> QED
    BY <1>1, <2>1, <2>6, AfterIsASave DEF S
<1>3. CASE d.cr[c].st \notin Undecided
  <2>1. CRSaves(d, c) = <<d>>
    BY <1>3 DEF CRSaves, Undecided
  <2>2. d \in Updates(d)
    BY <1>1, UpdatesState
  <2> QED
    BY <2>1, <2>2 DEF After
<1> QED
  BY <1>2, <1>3

-----------------------------------------------------------------------------
(* What a request does to the changes *)

Past(d) == {r \in Revs : d.rev[r].st = "superseded"}

(* Who was in force before, after a request that was not cut short. *)
PastKept(d, e) ==
  Past(e) = IF e.current = d.current THEN Past(d)
            ELSE Past(d) \cup ({d.current} \ {None})

(* UpdateState supersedes the current revision when it replaces it. *)
LEMMA UpdateStatePast ==
  ASSUME NEW d, Base(d), kind \in Kinds, Sound(d)
  PROVE  PastKept(d, UpdateState(d))
<1> DEFINE e == UpdateState(d)
           p == Pending(d)
<1>1. /\ d \in Rows /\ d.current \in Revs \cup {None} /\ None \notin Revs
      /\ \A r \in Revs : d.rev[r] \in Revision
  BY BoundsAssumption DEF Base, Rows, Revs, None
<1>2. CASE Rests(d, e)
  BY <1>2 DEF Rests, PastKept, Past
<1>3. ASSUME p \in Revs, p \in Open(d), Declines(d, p, e)
      PROVE  PastKept(d, e)
  <2>1. /\ e.current = d.current /\ e.rev[p].st = "approvalfailed"
        /\ \A q \in Revs \ {p} : e.rev[q] = d.rev[q]
    BY <1>1, <1>3 DEF Declines, Rows, Revision
  <2>2. d.rev[p].st # "superseded"
    BY <1>3 DEF Open
  <2> HIDE DEF e, p
  <2> QED
    BY <1>1, <2>1, <2>2 DEF PastKept, Past
<1>4. ASSUME p \in Revs, p \in Open(d), d.rev[p].cr # None
      PROVE  /\ p # d.current /\ d.rev[p].desired # "bootstrap"
             /\ d.current # None => d.rev[d.current].st \in Live
  <2> HIDE DEF p
  <2> QED
    BY <1>1, <1>4 DEF Open, Sound, OneOfThem, OpenAsked, Live
<1>5. ASSUME p \in Revs, p \in Open(d), d.rev[p].cr # None, Halts(d, p, e)
      PROVE  FALSE
  BY <1>4, <1>5 DEF Halts
<1>6. ASSUME p \in Revs, p \in Open(d), d.rev[p].cr # None, TakesOver(d, p, e)
      PROVE  PastKept(d, e)
  <2>1. p # d.current /\ d.rev[p].st # "superseded"
    BY <1>4, <1>6 DEF Open
  <2>2. d.rev[p].desired \in Desired
    BY <1>1, <1>6 DEF Revision
  <2> HIDE DEF e, p
  <2>3. e.current = p /\ e.rev[p].st # "superseded"
        /\ (d.current # None => e.rev[d.current].st = "superseded")
    BY <1>6, <2>1, <2>2 DEF TakesOver, Desired
  <2>4. \A q \in Revs \ {p, d.current} : e.rev[q] = d.rev[q]
    BY <1>6 DEF TakesOver, TouchesOnly
  <2>5. Past(e) = Past(d) \cup ({d.current} \ {None})
    BY <1>1, <2>1, <2>3, <2>4 DEF Past
  <2> QED
    BY <2>1, <2>3, <2>5 DEF PastKept
<1> QED
  BY <1>2, <1>3, <1>5, <1>6, UpdateStateEnds

(* So does a CR's UpdateState, which runs the object's. *)
LEMMA CRSavesPast ==
  ASSUME NEW d, Base(d), NEW c \in CRs, kind \in Kinds, Sound(d)
  PROVE  PastKept(d, After(CRSaves(d, c)))
<1>1. CASE d.cr[c].st \notin Undecided
  BY <1>1, CRSavesOnward DEF PastKept
<1>2. CASE d.cr[c].st \in Undecided
  <2> DEFINE a == Advanced(d, c)
  <2>1. After(CRSaves(d, c)) = UpdateState(a) /\ Base(a)
    BY <1>2, CRSavesOnward, AdvancedOnward DEF Onward
  <2>2. Sound(a)
    BY AdvancedKeeps
  <2>3. a.rev = d.rev /\ a.current = d.current
    BY DEF Advanced, Base, Rows
  <2> HIDE DEF a
  <2>4. PastKept(a, UpdateState(a))
    BY <2>1, <2>2, UpdateStatePast
  <2> QED
    BY <2>1, <2>3, <2>4 DEF PastKept, Past
<1> QED
  BY <1>1, <1>2

(* What every request does to the changes, unless it is overtaken or a      *)
(* restart.                                                                 *)
LedgerStep ==
  /\ Linked(db) => db' \in Ahead(db)
  /\ trouble' = {} /\ Linked(db) /\ Sound(db) => PastKept(db, db')

(* A request all of whose saves are ahead, and whose last one settles. *)
LEMMA DoesLedgerStep ==
  ASSUME NEW s \in Seq(Onward(db)), s # <<>>, Does(s),
         Linked(db) => s \in Seq(Ahead(db)),
         Linked(db) /\ Sound(db) => PastKept(db, After(s))
  PROVE  LedgerStep
<1>1. Linked(db) => db' \in Ahead(db)
  BY DoesSome
<1>2. "crash" \notin trouble' => db' = After(s)
  BY DoesSome
<1> QED
  BY <1>1, <1>2 DEF LedgerStep

(* A new revision, and an edit of one, are not in the ledger yet. *)
LEMMA CreateLedger ==
  ASSUME Base(db), NEW r \in Revs, NEW desired \in {"active", "inactive"},
         Create(r, desired)
  PROVE  LedgerStep
<1> DEFINE row == [st |-> "new", desired |-> desired, cr |-> None]
           e == [db EXCEPT !.rev[r] = row]
<1>1. /\ row \in Revision /\ row.st = "new" /\ row.cr = None
      /\ db.rev[r].st = "unused" /\ db' = e /\ db \in Rows
  BY DEF Create, Revision, Desired, Base
<1> HIDE DEF row
<1>2. Linked(db) => e \in Updates(db)
  <2>1. Linked(db) => db.rev[r].cr = None
    BY <1>1 DEF Linked
  <2> QED
    BY <1>1, <2>1, UpdatesRevision DEF Settled
<1>3. e.current = db.current /\ Past(e) = Past(db)
  BY <1>1 DEF Rows, Past
<1> HIDE DEF e
<1> QED
  BY <1>1, <1>2, <1>3 DEF LedgerStep, PastKept, Updates

LEMMA EditLedger ==
  ASSUME Base(db), NEW r \in Revs, NEW desired \in {"active", "inactive"},
         Edit(r, desired)
  PROVE  LedgerStep
<1> DEFINE edited == [db.rev[r] EXCEPT !.desired = desired]
           e == [db EXCEPT !.rev[r] = edited]
           s == EditSaves(r, db.rev[r], desired)
<1>1. db \in Rows /\ db.rev[r] \in Revision /\ db.rev[r].st = "new" /\ Does(s)
  BY DEF Base, Rows, Edit
<1>2. edited \in Revision /\ edited.st = "new" /\ edited.cr = db.rev[r].cr
  BY <1>1 DEF Revision, Desired
<1>3. s = <<e>>
  BY DEF EditSaves
<1>4. s \in Seq(Onward(db)) /\ s # <<>>
  BY <1>1, EditSavesOnward
<1> HIDE DEF edited, s
<1>5. Linked(db) => e \in Updates(db)
  <2>1. Linked(db) => db.rev[r].cr = None
    BY <1>1 DEF Linked
  <2> QED
    BY <1>1, <1>2, <2>1, UpdatesRevision DEF Settled
<1>6. e.current = db.current /\ Past(e) = Past(db)
  BY <1>1, <1>2 DEF Rows, Past
<1>7. After(s) = e
  BY <1>3 DEF After
<1> HIDE DEF e
<1>8. Linked(db) => s \in Seq(Ahead(db))
  BY <1>3, <1>5 DEF Updates
<1> QED
  BY <1>1, <1>4, <1>6, <1>7, <1>8, DoesLedgerStep DEF PastKept

(* A start: the CR is made against the current revision, and the revision   *)
(* gets it.                                                                 *)
LEMMA StartLinks ==
  ASSUME Base(db), Linked(db), kind \in Kinds, UnusedCRs # {}, NEW r \in Revs,
         db.rev[r].st = "new"
  PROVE  LET row == db.rev[r] IN
           /\ Asked(r) \in Ahead(db) /\ Waits(r, row) \in Ahead(db)
           /\ Started(r, row) \in Ahead(db) /\ Started(r, row).current = db.current
<1> DEFINE row == db.rev[r]
           c == LowestUnused
           new == [st |-> "new", rev |-> r, init |-> db.current, signed |-> Unsigned]
           waiting == [row EXCEPT !.st = "pendingapproval", !.cr = c]
           asked == Asked(r)
           waits == Waits(r, row)
           started == Started(r, row)
<1>1. /\ db \in Rows /\ row \in Revision /\ row.cr = None /\ row.desired # "bootstrap"
  BY DEF Base, Rows, Linked, OnlyRootBootstraps
<1>2. /\ c \in CRs /\ db.cr[c].st = "unused"
      /\ asked \in Rows /\ waits \in Rows /\ started \in Rows
  BY <1>1, StartSavesOnward DEF Onward, Kept, Base
<1>3. asked = [db EXCEPT !.cr[c] = new] /\ waits = [asked EXCEPT !.rev[r] = waiting]
      /\ started = [waits EXCEPT !.state = StartedState(waits)]
  BY DEF Asked, Waits, Started
<1>4. new \in ChangeRequest /\ new.st = "new" /\ new.init = db.current
  BY <1>1 DEF Rows, ChangeRequest
<1>5. waiting \in Revision /\ waiting.st = "pendingapproval" /\ waiting.cr = c
  BY <1>1, <1>2 DEF Revision
<1>6. c # None /\ 1 \in Revs
  BY <1>2, BoundsAssumption DEF CRs, Revs, None
<1> HIDE DEF c, new, waiting, asked, waits, started
<1>7. /\ asked \in Updates(db) /\ asked.rev = db.rev /\ asked.current = db.current
      /\ asked.cr[c] = new
  <2>1. asked \in Updates(db)
    BY <1>1, <1>2, <1>3, <1>4, UpdatesCR DEF Decided
  <2> QED
    BY <1>1, <1>2, <1>3, <2>1 DEF Rows
<1>8. Linked(asked) /\ Follows(db, asked)
  BY <1>7 DEF Updates, Ahead
<1>9. /\ waits.cr = asked.cr /\ waits.current = db.current /\ waits.rev[r] = waiting
      /\ \A q \in Revs : q # r => waits.rev[q] = db.rev[q]
      /\ ~Settled(db, r)
  BY <1>2, <1>3, <1>7 DEF Rows, Settled
<1>10. \A q \in Revs : Settled(db, q) => Settled(waits, q)
  BY <1>9 DEF Settled
<1>11. \A b \in CRs : waits.cr[b].init \in Revs \cup {None}
  BY <1>2 DEF Rows, ChangeRequest
<1>12. /\ db.current \in Revs \cup {None} /\ \A q \in Revs : Settled(asked, q) <=> Settled(db, q)
  BY <1>1, <1>7 DEF Rows, Settled
<1>13. Linked(waits)
  BY <1>4, <1>5, <1>6, <1>7, <1>8, <1>9, <1>10, <1>11, <1>12 DEF Linked
<1>14. Follows(db, waits)
  BY <1>1, <1>4, <1>5, <1>6, <1>7, <1>8, <1>9, <1>10 DEF Follows, CRsKept
<1>15. waits \in Ahead(db)
  BY <1>2, <1>13, <1>14 DEF Ahead
<1>16. started.rev = waits.rev /\ started.cr = waits.cr /\ started.current = waits.current
  BY <1>2, <1>3 DEF Rows
<1>17. started \in Updates(waits)
  BY <1>2, <1>13, <1>16, UpdatesState
<1>18. started \in Ahead(db)
  BY <1>1, <1>15, <1>17, AheadFurther
<1> QED
  BY <1>7, <1>9, <1>15, <1>16, <1>18 DEF Updates, asked, waits, started

(* Up to the CR's UpdateState a start puts nothing in force. *)
LEMMA StartedSound ==
  ASSUME Base(db), Sound(db), kind \in Kinds, UnusedCRs # {}, NEW r \in Revs,
         db.rev[r].st = "new"
  PROVE  LET e == Started(r, db.rev[r]) IN
           Sound(e) /\ e.current = db.current /\ Past(e) = Past(db)
<1> DEFINE row == db.rev[r]
           asked == Asked(r)
           waits == Waits(r, row)
           started == Started(r, row)
           waiting == [row EXCEPT !.st = "pendingapproval", !.cr = LowestUnused]
<1>1. db \in Rows /\ row \in Revision /\ row.desired # "bootstrap"
  BY DEF Base, Rows, OnlyRootBootstraps
<1>2. Sound(started) /\ asked \in Rows /\ waits \in Rows
  BY <1>1, StartSavesOnward, StartedSettles DEF Onward, Kept
<1>3. asked.rev = db.rev /\ asked.current = db.current
  BY <1>1 DEF Asked, Rows
<1>4. waits = [asked EXCEPT !.rev[r] = waiting] /\ waiting.st = "pendingapproval"
  BY <1>1 DEF Waits, Revision
<1> HIDE DEF asked, waiting
<1>5. /\ waits.current = db.current /\ waits.rev[r].st = "pendingapproval"
      /\ \A q \in Revs : q # r => waits.rev[q] = db.rev[q]
  BY <1>2, <1>3, <1>4 DEF Rows
<1>6. started.rev = waits.rev /\ started.current = waits.current
  BY <1>2 DEF Started, Rows
<1> HIDE DEF waits, started
<1>7. Past(started) = Past(db)
  BY <1>5, <1>6 DEF Past
<1> QED
  BY <1>2, <1>5, <1>6, <1>7 DEF started

(* A start submits the revision, and may have it judged at once. *)
LEMMA StartLedger ==
  ASSUME Base(db), kind \in Kinds, NEW r \in Revs, db.rev[r].st = "new", Start(r)
  PROVE  LedgerStep
<1> DEFINE row == db.rev[r]
           c == LowestUnused
           asked == Asked(r)
           waits == Waits(r, row)
           started == Started(r, row)
           first == <<asked, waits, started>>
           tail == CRSaves(started, c)
           s == StartSaves(r, row)
<1>1. /\ db \in Rows /\ row \in Revision /\ row.desired # "bootstrap" /\ UnusedCRs # {}
      /\ Does(s)
  BY DEF Base, Rows, OnlyRootBootstraps, Start, CanStart
<1>2. /\ c \in CRs /\ Base(started) /\ s \in Seq(Onward(db)) /\ s # <<>>
      /\ After(s) = After(tail)
  BY <1>1, StartSavesOnward DEF Ended
<1>3. s = first \o tail
  BY DEF StartSaves, LowestUnused, Asked, Waits, Started
<1>4. ASSUME Linked(db)
      PROVE  s \in Seq(Ahead(db))
  <2> DEFINE S == Ahead(db)
  <2>1. asked \in S /\ waits \in S /\ started \in S
    BY <1>1, <1>4, StartLinks
  <2>2. tail \in Seq(Updates(started))
    BY <1>2, <2>1, CRSavesUpdate DEF Ahead
  <2>3. Updates(started) \subseteq S
    BY <1>1, <1>4, <2>1, AheadFurther
  <2> HIDE DEF asked, waits, started, tail, s, S
  <2>4. first \in Seq(S) /\ tail \in Seq(S)
    BY <2>1, <2>2, <2>3
  <2> HIDE DEF first
  <2>5. s \in Seq(S)
    BY <1>3, <2>4, ConcatProperties
  <2> QED
    BY <2>5 DEF S
<1>5. ASSUME Sound(db)
      PROVE  PastKept(db, After(s))
  <2>1. Sound(started) /\ started.current = db.current /\ Past(started) = Past(db)
    BY <1>1, <1>5, StartedSound
  <2>2. PastKept(started, After(tail))
    BY <1>2, <2>1, CRSavesPast
  <2> QED
    BY <1>2, <2>1, <2>2 DEF PastKept
<1> HIDE DEF s
<1> QED
  BY <1>1, <1>2, <1>4, <1>5, DoesLedgerStep

(* A cancel judges the CR of the revision; the one that is next in line   *)
(* may take over on the way, but no second one.                             *)
LEMMA CancelLedger ==
  ASSUME Base(db), kind \in Kinds, NEW r \in Revs, Cancel(r)
  PROVE  LedgerStep
<1> DEFINE c == db.rev[r].cr
           row == [db.rev[r] EXCEPT !.st = "cancelled"]
           d == Cancelled(r)
           told == Told(r)
           first == <<d, told>>
           tail == CRSaves(told, c)
           s == CancelSaves(r, c)
<1>1. /\ db \in Rows /\ db.rev[r] \in Revision /\ c \in CRs \cup {None}
      /\ r \in Open(db) /\ Does(s)
      /\ db.rev[r].st \notin Live \cup {"superseded"} /\ db.rev[r].st \notin Ended
      /\ ~Settled(db, r)
  BY DEF Base, Rows, Revision, Cancel, Open, Live, Ended, Settled
<1>2. /\ Base(d) /\ Base(told) /\ told = UpdateState(d)
      /\ s \in Seq(Onward(db)) /\ s # <<>>
      /\ After(s) = IF c = None THEN told ELSE After(tail)
  BY <1>1, CancelSavesOnward DEF Told
<1>3. row \in Revision /\ row.st = "cancelled" /\ row.cr = c
  BY <1>1 DEF Revision
<1>4. d = [db EXCEPT !.rev[r] = row]
  BY DEF Cancelled
<1>5. s = first \o (IF c = None THEN <<>> ELSE tail)
  BY DEF CancelSaves, Cancelled, Told
<1> HIDE DEF c, row, s
<1>6. /\ d.current = db.current /\ Past(d) = Past(db) /\ d \in Rows
  BY <1>1, <1>2, <1>3, <1>4 DEF Rows, Past, Base
<1> HIDE DEF d, told
<1>7. ASSUME Linked(db)
      PROVE  /\ d \in Updates(db) /\ Linked(d) /\ told \in Updates(d) /\ Linked(told)
             /\ Updates(d) \subseteq Ahead(db) /\ Updates(told) \subseteq Ahead(db)
  <2>1. d \in Updates(db)
    BY <1>1, <1>3, <1>4, <1>7, UpdatesRevision DEF c
  <2>2. Linked(d)
    BY <2>1 DEF Updates, Ahead
  <2>3. told \in Updates(d) /\ Linked(told)
    BY <1>2, <2>2, SavesUpdate DEF Updates, Ahead
  <2>4. Updates(d) \subseteq Ahead(db)
    BY <1>1, <1>7, <2>1, AheadFurther DEF Updates
  <2>5. Updates(told) \subseteq Ahead(db)
    BY <1>1, <1>7, <2>3, <2>4, AheadFurther
  <2> QED
    BY <2>1, <2>2, <2>3, <2>4, <2>5
<1>8. ASSUME Linked(db), c # None
      PROVE  tail \in Seq(Updates(told)) /\ After(tail) \in Updates(told)
  BY <1>1, <1>2, <1>7, <1>8, CRSavesUpdate
<1>9. ASSUME Linked(db)
      PROVE  s \in Seq(Ahead(db))
  <2> DEFINE S == Ahead(db)
             rest == IF c = None THEN <<>> ELSE tail
  <2>1. first \in Seq(S)
    BY <1>7, <1>9 DEF Updates
  <2>2. rest \in Seq(S)
    BY <1>7, <1>8, <1>9
  <2> HIDE DEF first, rest, S
  <2>3. first \o rest \in Seq(S)
    BY <2>1, <2>2, ConcatProperties
  <2> QED
    BY <1>5, <2>3 DEF S, rest
<1>10. ASSUME Linked(db), Sound(db)
       PROVE  PastKept(db, After(s))
  <2>1. Sound(d)
    <3>1. row.cr # None => db.cr[row.cr].st # "unused"
      BY <1>1, <1>3, <1>10 DEF Sound, OpenAsked, c
    <3> QED
      BY <1>1, <1>3, <1>4, <1>10, <3>1, RevisionKeeps DEF Live
  <2>2. PastKept(d, told) /\ Sound(told)
    BY <1>2, <2>1, UpdateStatePast, UpdateStateSound
  <2>3. CASE c = None
    BY <1>2, <1>6, <2>2, <2>3 DEF PastKept
  <2>4. CASE c # None
    <3> DEFINE last == After(tail)
    <3>1. After(s) = last /\ last \in Updates(told) /\ PastKept(told, last)
      BY <1>1, <1>2, <1>8, <1>10, <2>2, <2>4, CRSavesPast
    <3>2. told.current = d.current \/ last.current = told.current
      BY <1>6, <1>7, <1>10, <3>1, AheadFurther DEF Updates
    <3> HIDE DEF last
    <3>3. PastKept(d, last)
      BY <2>2, <3>1, <3>2 DEF PastKept
    <3> QED
      BY <1>6, <3>1, <3>3 DEF PastKept
  <2> QED
    BY <2>3, <2>4
<1> QED
  BY <1>1, <1>2, <1>9, <1>10, DoesLedgerStep

(* A refresh of the object's state. *)
LEMMA UpdateLedger ==
  ASSUME Base(db), kind \in Kinds, Does(Saves(db))
  PROVE  LedgerStep
<1>1. Saves(db) \in Seq(Onward(db)) /\ Saves(db) # <<>>
  BY SavesOnward
<1>2. Linked(db) => Saves(db) \in Seq(Ahead(db))
  <2>1. Updates(db) \subseteq Ahead(db)
    BY DEF Updates
  <2> QED
    BY <2>1, SavesUpdate
<1> QED
  BY <1>1, <1>2, UpdateStatePast, DoesLedgerStep DEF UpdateState

(* An upload judges, and puts in force what it approves. *)
LEMMA UploadLedger ==
  ASSUME Inv, Upload
  PROVE  LedgerStep
<1> DEFINE c == paper.cr
           row == [db.cr[c] EXCEPT !.signed = paper]
           signed == [db EXCEPT !.cr[c] = row]
           back == [signed.cr[c] EXCEPT !.signed = Unsigned]
           cleared == [signed EXCEPT !.cr[c] = back]
           tail == CRSaves(signed, c)
<1>1. /\ Base(db) /\ db \in Rows /\ kind \in Kinds
      /\ paper \in Attestations /\ c \in CRs /\ db.cr[c] \in ChangeRequest
  BY DEF Inv, Upload, Attestations, Base, Rows
<1>2. CASE db.cr[c].st # "pendingapproval"
  BY <1>1, <1>2, UpdateLedger DEF Upload
<1>3. CASE db.cr[c].st = "pendingapproval"
  <2>1. /\ row \in ChangeRequest /\ row.st = "pendingapproval"
        /\ row.init = db.cr[c].init
    BY <1>1, <1>3 DEF ChangeRequest
  <2>2. signed = [db EXCEPT !.cr[c].signed = paper]
    OBVIOUS
  <2>3. cleared = [signed EXCEPT !.cr[c].signed = Unsigned]
    OBVIOUS
  <2>4. Does(IF VerifyCR(signed) THEN <<signed>> \o tail ELSE <<signed, cleared>>)
    BY <1>3, <2>2, <2>3 DEF Upload
  <2> HIDE DEF c, row
  <2>5. signed \in Onward(db) /\ Base(signed) /\ signed \in Rows
    BY <1>1, <1>3, <2>2, SignedOnward DEF Undecided, Onward
  <2>6. signed.rev = db.rev /\ signed.current = db.current /\ signed.cr[c] = row
    BY <1>1 DEF Rows
  <2>7. (Linked(db) => signed \in Updates(db)) /\ (Sound(db) => Sound(signed))
    BY <1>1, <1>3, <2>1, UpdatesCR, CRKeeps DEF Decided
  <2>8. back \in ChangeRequest /\ back.st = "pendingapproval" /\ back.init = row.init
    BY <2>1, <2>6 DEF ChangeRequest
  <2> HIDE DEF signed, back
  <2>9. Linked(db) => Linked(signed) /\ Updates(signed) \subseteq Updates(db)
    BY <1>1, <2>7, AheadFurther DEF Updates, Ahead
  <2>10. CASE VerifyCR(signed)
    <3> DEFINE first == <<signed>>
               s == first \o tail
               S == Onward(db)
               T == Ahead(db)
    <3>1. tail \in Seq(S) /\ tail # <<>>
      BY <1>1, <2>5, CRSavesOnward, OnwardFurther
    <3>2. first \in Seq(S) /\ Does(s)
      BY <2>4, <2>5, <2>10
    <3>3. ASSUME Linked(db)
          PROVE  first \in Seq(T) /\ tail \in Seq(T)
      <4>1. Updates(db) \subseteq T
        BY DEF Updates
      <4>2. tail \in Seq(Updates(signed))
        BY <1>1, <2>5, <2>9, <3>3, CRSavesUpdate
      <4>3. tail \in Seq(T)
        BY <2>9, <3>3, <4>1, <4>2
      <4> QED
        BY <2>7, <3>3, <4>1, <4>3
    <3>4. Sound(db) => PastKept(signed, After(tail))
      BY <1>1, <2>5, <2>7, CRSavesPast
    <3> HIDE DEF first, tail, S, T
    <3>5. s \in Seq(S) /\ s # <<>> /\ After(s) = After(tail)
      BY <3>1, <3>2, AfterConcat
    <3>6. Linked(db) => s \in Seq(T)
      BY <3>3, ConcatProperties
    <3>7. Sound(db) => PastKept(db, After(s))
      BY <2>6, <3>4, <3>5 DEF PastKept, Past
    <3> HIDE DEF s
    <3> QED
      BY <3>2, <3>5, <3>6, <3>7, DoesLedgerStep DEF S, T
  <2>11. CASE ~VerifyCR(signed)
    <3> DEFINE s == <<signed, cleared>>
    <3>1. cleared \in Onward(db)
      <4>1. cleared \in Onward(signed)
        BY <1>1, <2>1, <2>3, <2>5, <2>6, SignedOnward DEF Undecided
      <4> QED
        BY <2>5, <4>1, OnwardFurther
    <3>2. cleared.rev = signed.rev /\ cleared.current = signed.current
      BY <2>5 DEF Rows
    <3>3. Linked(db) => cleared \in Updates(signed)
      BY <1>1, <2>1, <2>5, <2>6, <2>8, <2>9, UpdatesCR DEF Decided
    <3> HIDE DEF cleared
    <3>4. s \in Seq(Onward(db)) /\ s # <<>> /\ Does(s) /\ After(s) = cleared
      BY <2>4, <2>5, <2>11, <3>1 DEF After
    <3>5. Linked(db) => s \in Seq(Ahead(db))
      BY <2>7, <2>9, <3>3 DEF Updates
    <3>6. PastKept(db, cleared)
      BY <2>6, <3>2 DEF PastKept, Past
    <3> HIDE DEF s
    <3> QED
      BY <3>4, <3>5, <3>6, DoesLedgerStep
  <2> QED
    BY <2>10, <2>11
<1> QED
  BY <1>2, <1>3

(* Every step but those of overtaken and restarted requests. *)
LEMMA NextLedger ==
  ASSUME Inv, Next, trouble' \subseteq {"crash"}
  PROVE  LedgerStep
<1>1. /\ Base(db) /\ kind \in Kinds /\ db \in Rows
      /\ late # Unsigned => "race" \in trouble
  BY DEF Inv, Base, LateAsRead
<1>2. ASSUME db' = db
      PROVE  LedgerStep
  <2>1. Linked(db) => db \in Updates(db)
    BY <1>1, UpdatesState
  <2> QED
    BY <1>2, <2>1 DEF LedgerStep, Updates, PastKept
<1>3. ASSUME NEW r \in Revs, NEW desired \in {"active", "inactive"},
             Create(r, desired) \/ Edit(r, desired)
      PROVE  LedgerStep
  BY <1>1, <1>3, CreateLedger, EditLedger
<1>4. ASSUME NEW r \in Revs, db.rev[r].st = "new", Start(r)
      PROVE  LedgerStep
  BY <1>1, <1>4, StartLedger
<1>5. ASSUME NEW r \in Revs, ApproverSetRevisionRestart(r)
      PROVE  LedgerStep
  <2>1. "restart" \in trouble'
    BY <1>5 DEF ApproverSetRevisionRestart
  <2> QED
    BY <2>1
<1>6. ASSUME NEW r \in Revs, Cancel(r)
      PROVE  LedgerStep
  BY <1>1, <1>6, CancelLedger
<1>7. CASE TriggerUpdate
  BY <1>1, <1>7, UpdateLedger DEF TriggerUpdate
<1>8. ASSUME NEW r \in Revs, NEW op \in {"cancel", "start", "edit"}, Load(r, op)
      PROVE  LedgerStep
  BY <1>2, <1>8 DEF Load
<1>9. ASSUME NEW c \in CRs, NEW action \in {"approved", "declined"}, Attest(c, action)
      PROVE  LedgerStep
  BY <1>2, <1>9 DEF Attest
<1>10. CASE Upload
  BY <1>10, UploadLedger
<1>11. CASE GoOn
  <2>1. trouble' = trouble /\ "race" \in trouble
    BY <1>1, <1>11 DEF GoOn, Overtaken
  <2> QED
    BY <2>1
<1> QED
  BY <1>3, <1>4, <1>5, <1>6, <1>7, <1>8, <1>9, <1>10, <1>11, NextCases

(* The invariant that the ledger needs besides Inv. *)
LinksKept == trouble \subseteq {"crash"} => Linked(db)

(* The ledger starts empty: what BootstrapRegistrar puts in force is none *)
(* of its changes.                                                         *)
LEMMA InitLinks ==
  ASSUME Init
  PROVE  LinksKept /\ Ledger!Init
<1>1. Inv /\ 1 \in Revs /\ 2 \in Revs
  BY InitEstablishes, BoundsAssumption DEF Revs
<1>2. /\ db \in Rows /\ db.current = IF root THEN 1 ELSE None
      /\ \A r \in Revs : db.rev[r].cr = None /\ db.rev[r].st # "superseded"
      /\ \A c \in CRs : db.cr[c].init = None
      /\ root => db.rev[1].st = "bootstrap"
  <2>1. db \in Rows
    BY <1>1 DEF Inv, Base
  <2>2. CASE ~root
    BY <2>1, <2>2 DEF Init, NewObject, Blank, NoCR
  <2>3. CASE root
    <3> DEFINE blank == [r \in Revs |-> Blank]
               nocr == [c \in CRs |-> NoCR]
               first == [Blank EXCEPT !.st = "bootstrap", !.desired = "bootstrap"]
               second == [Blank EXCEPT !.st = "new"]
    <3>1. db = [[state |-> "new", current |-> None, rev |-> blank, cr |-> nocr]
                EXCEPT !.state = "active", !.current = 1, !.rev[1] = first, !.rev[2] = second]
      BY <2>3 DEF Init, BootstrapRegistrar, NewObject
    <3>2. first.cr = None /\ first.st = "bootstrap" /\ second.cr = None
          /\ second.st = "new"
      BY DEF Blank
    <3>3. \A r \in Revs : blank[r].cr = None /\ blank[r].st = "unused"
      BY DEF Blank
    <3>4. \A c \in CRs : nocr[c].init = None
      BY DEF NoCR
    <3>5. DOMAIN blank = Revs
      OBVIOUS
    <3> HIDE DEF first, second, blank, nocr
    <3>6. /\ db.current = 1 /\ db.cr = nocr
          /\ db.rev = [[blank EXCEPT ![1] = first] EXCEPT ![2] = second]
      BY <3>1
    <3>7. /\ db.rev[1] = first /\ db.rev[2] = second
          /\ \A r \in Revs \ {1, 2} : db.rev[r] = blank[r]
      BY <1>1, <3>5, <3>6
    <3> QED
      BY <2>1, <2>3, <3>2, <3>3, <3>4, <3>6, <3>7
  <2> QED
    BY <2>2, <2>3
<1>3. Linked(db)
  BY <1>2 DEF Linked, Settled
<1>4. Ledger!Init
  BY <1>2 DEF Ledger!Init, Known
<1> QED
  BY <1>3, <1>4 DEF LinksKept

(* Every step keeps it. *)
LEMMA NextLinks ==
  ASSUME Inv, LinksKept, [Next]_vars
  PROVE  LinksKept'
<1>1. CASE Next
  <2>1. trouble' \subseteq {"crash"} =>
          LedgerStep /\ trouble \subseteq {"crash"} /\ root' = root
    BY <1>1, NextLedger, NextStep DEF Step
  <2>2. trouble' \subseteq {"crash"} => Linked(db') /\ root' = root
    BY <2>1 DEF LinksKept, LedgerStep, Ahead
  <2>3. root' = root /\ Linked(db') => Linked(db)'
    BY DEF Linked, Settled
  <2> QED
    BY <2>2, <2>3 DEF LinksKept
<1>2. CASE UNCHANGED vars
  BY <1>2 DEF vars, LinksKept, Linked, Settled
<1> QED
  BY <1>1, <1>2

(* What such a step is of the ledger, a crash or not. *)
LEMMA LedgerStepJudges ==
  ASSUME db \in Rows, Linked(db), db' \in Ahead(db), root' = root
  PROVE  Ledger!Submit /\ Ledger!Judge /\ Ledger!Succeed
<1>1. /\ db' \in Rows /\ Linked(db') /\ Follows(db, db')
      /\ None \notin Revs
  BY BoundsAssumption DEF Ahead, Revs, None
<1>2. /\ \A r \in Revs : db.rev[r].cr \in CRs \cup {None} /\ db'.rev[r].cr \in CRs \cup {None}
      /\ \A c \in CRs : db.cr[c].init \in Revs \cup {None} /\ db'.cr[c].init \in Revs \cup {None}
      /\ db.current \in Revs \cup {None} /\ db'.current \in Revs \cup {None}
  BY <1>1 DEF Rows, Revision, ChangeRequest
<1>3. \A r \in Revs \cup {None} : Known(r) \in Revs \cup {None} /\ Known(r)' = Known(r)
  BY DEF Known
<1>4. \A r \in Revs : db.rev[r].cr # None =>
        /\ db'.rev[r].cr = db.rev[r].cr
        /\ db'.cr[db.rev[r].cr].init = db.cr[db.rev[r].cr].init
        /\ db.cr[db.rev[r].cr].st \in Decided =>
             db'.cr[db.rev[r].cr].st = db.cr[db.rev[r].cr].st
  BY <1>1, <1>2 DEF Follows, Linked, CRsKept
<1>5. Ledger!Submit
  <2>1. \A r \in Revs : db.rev[r].cr = None /\ db'.rev[r].cr # None =>
          db'.cr[db'.rev[r].cr].init = db.current
    BY <1>1 DEF Follows
  <2> QED
    BY <1>2, <1>3, <1>4, <2>1, ZenonT(60) DEF Ledger!Submit, Known
<1>6. Ledger!Judge
  BY <1>4 DEF Ledger!Judge, Ledger!Verdict, Decided
<1>7. Ledger!Succeed
  <2>1. CASE db'.current = db.current
    BY <2>1 DEF Ledger!Succeed, Known
  <2>2. CASE ComesAfter(db, db')
    <3> DEFINE p == db'.current
               c == db'.rev[p].cr
    <3>1. /\ p \in Revs /\ c # None /\ db'.cr[c].st = "approved"
          /\ db'.cr[c].init = db.current
          /\ root => p # 1
      BY <1>1, <2>2 DEF ComesAfter, Linked
    <3> QED
      BY <3>1 DEF Ledger!Succeed, Known
  <2> QED
    BY <1>1, <2>1, <2>2 DEF Follows
<1> QED
  BY <1>5, <1>6, <1>7

(* Without trouble who comes into force takes the place of the one before. *)
LEMMA LedgerStepTakesOver ==
  ASSUME db \in Rows, Linked(db), Sound(db), db' \in Ahead(db), root' = root,
         PastKept(db, db')
  PROVE  Ledger!TakeOver
<1>1. /\ db' \in Rows /\ Follows(db, db') /\ None \notin Revs
      /\ db.current \in Revs \cup {None}
  BY BoundsAssumption DEF Ahead, Revs, None, Rows
<1>2. CASE db'.current = db.current
  <2>1. Past(db') = Past(db)
    BY <1>2 DEF PastKept
  <2> QED
    BY <1>2, <2>1 DEF Ledger!TakeOver, Known, Past
<1>3. CASE db'.current # db.current /\ ComesAfter(db, db')
  <2> DEFINE p == db'.current
             c == db'.rev[p].cr
  <2>1. /\ p \in Revs /\ c # None /\ db'.cr[c].st = "approved"
        /\ db'.cr[c].init = db.current /\ ~Settled(db, p)
        /\ root => p # 1
    BY <1>1, <1>3 DEF ComesAfter, Linked
  <2>2. Past(db') = Past(db) \cup ({db.current} \ {None})
    BY <1>3 DEF PastKept
  <2>3. p \notin Past(db)
    BY <2>1 DEF Past, Settled
  <2>4. {Known(r) : r \in Past(db')} \ {None} =
          ({Known(r) : r \in Past(db)} \ {None}) \cup ({Known(db.current)} \ {None})
    BY <2>2 DEF Known
  <2>5. p \notin {Known(r) : r \in Past(db)} /\ p # Known(db.current) /\ Known(p) = p
    BY <1>1, <1>3, <2>1, <2>3 DEF Known
  <2> DEFINE past == {Known(r) : r \in {q \in Revs : db.rev[q].st = "superseded"}} \ {None}
             verdict == [r \in Revs |->
               IF db.rev[r].cr # None
                  /\ db.cr[db.rev[r].cr].st \in {"approved", "declined", "cancelled"}
               THEN db.cr[db.rev[r].cr].st ELSE "open"]
             base == [r \in Revs |-> IF db.rev[r].cr = None THEN None
                                     ELSE Known(db.cr[db.rev[r].cr].init)]
  <2>6. Known(db.current)' = p
    BY <2>1 DEF Known
  <2>7. past' = past \cup ({Known(db.current)} \ {None})
    <3>1. past = {Known(r) : r \in Past(db)} \ {None}
      BY DEF Past
    <3>2. past' = {Known(r) : r \in Past(db')} \ {None}
      BY DEF Past, Known
    <3> HIDE DEF past
    <3> QED
      BY <2>4, <3>1, <3>2, Zenon
  <2>8. p \in Revs \ (past \cup {Known(db.current)})
    BY <2>1, <2>5, Zenon DEF Past
  <2>9. verdict'[p] = "approved" /\ base'[p] = Known(db.current)
    BY <2>1, ZenonT(30) DEF Known
  <2> HIDE DEF past, verdict, base, p
  <2>10. \E q \in Revs \ (past \cup {Known(db.current)}) :
           /\ verdict'[q] = "approved" /\ base'[q] = Known(db.current)
           /\ Known(db.current)' = q
           /\ past' = past \cup ({Known(db.current)} \ {None})
    BY <2>6, <2>7, <2>8, <2>9
  <2> QED
    BY <2>10 DEF Ledger!TakeOver, past, verdict, base
<1> QED
  BY <1>1, <1>2, <1>3 DEF Follows

(* Hosts, contacts, API users, approvers and approver sets keep the ledger: *)
(* a revision takes over only approved and only from the one it was written *)
(* against, and what was submitted and judged stays so.  Without a crash    *)
(* the one before is superseded in the same request.                        *)
THEOREM KeepsLedgerHolds == Spec => KeepsLedger
<1> DEFINE Keeps ==
      /\ trouble' \subseteq {"crash"} =>
           Ledger!Submit /\ Ledger!Judge /\ Ledger!Succeed
      /\ trouble' = {} => Ledger!Next
<1>1. Init => LinksKept /\ Ledger!Init
  BY InitLinks
<1>2. Inv /\ LinksKept /\ [Next]_vars => LinksKept'
  BY NextLinks
<1>3. Inv /\ LinksKept /\ [Next]_vars => [Keeps]_vars
  <2> SUFFICES ASSUME Inv, LinksKept, Next
               PROVE  Keeps
    OBVIOUS
  <2>1. db \in Rows /\ root' = root /\ trouble \subseteq trouble'
    BY NextStep DEF Inv, Base, Step
  <2>2. trouble' \subseteq {"crash"} => Linked(db) /\ LedgerStep
    BY <2>1, NextLedger DEF LinksKept
  <2>3. trouble' \subseteq {"crash"} =>
          Ledger!Submit /\ Ledger!Judge /\ Ledger!Succeed
    BY <2>1, <2>2, LedgerStepJudges DEF LedgerStep
  <2>4. trouble' = {} => Ledger!TakeOver
    <3>1. trouble' = {} => Sound(db)
      BY <2>1 DEF Inv
    <3> QED
      BY <2>1, <2>2, <3>1, LedgerStepTakesOver DEF LedgerStep
  <2> QED
    BY <2>3, <2>4 DEF Ledger!Next
<1> QED
  BY <1>1, <1>2, <1>3, Invariance, PTL DEF Spec, KeepsLedger
=============================================================================
