---------------------------- MODULE ObjectLedger ----------------------------
(***************************************************************************)
(* The other copies of the approval workflow keep the change ledger that   *)
(* DomainLedger shows the domains' copy to implement, for as long as no    *)
(* request is overtaken and no approval restarted: the changes are the     *)
(* revisions, submitted when they get their CR.  The revision that         *)
(* BootstrapRegistrar puts in force is not a change.                       *)
(***************************************************************************)
EXTENDS ObjectChange

Known(r) == IF root /\ r = 1 THEN None ELSE r

Ledger == INSTANCE ChangeLedger WITH
  Changes <- Revs,
  NoChange <- None,
  submitted <- {r \in Revs : db.rev[r].cr # None},
  base <- [r \in Revs |-> IF db.rev[r].cr = None THEN None
                          ELSE Known(db.cr[db.rev[r].cr].init)],
  verdict <- [r \in Revs |->
    IF db.rev[r].cr # None
       /\ db.cr[db.rev[r].cr].st \in {"approved", "declined", "cancelled"}
    THEN db.cr[db.rev[r].cr].st ELSE "open"],
  inForce <- Known(db.current),
  past <- {Known(r) : r \in {q \in Revs : db.rev[q].st = "superseded"}} \ {None}

(* Every request is a step of the ledger or none: a revision takes over     *)
(* only approved and only from the one it was written against.  A crash may *)
(* leave the row of the old revision behind, but what was submitted and     *)
(* judged, against what, and who comes after whom, no crash changes         *)
(* (StartApprovalProcess, VerifyCR, Promote, Supersed and the saves between *)
(* them).                                                                   *)
KeepsLedger ==
  /\ Ledger!Init
  /\ [][/\ trouble' \subseteq {"crash"} =>
           Ledger!Submit /\ Ledger!Judge /\ Ledger!Succeed
        /\ trouble' = {} => Ledger!Next]_vars
=============================================================================
