--------------------------- MODULE MCObjectChange ---------------------------
(* The bounds ObjectChange is checked with: one trouble in a behaviour; the  *)
(* last revision only for hosts, approver sets and the bootstrapped objects, *)
(* because the copies of the workflow for contacts, API users and other      *)
(* approvers take the same steps as the hosts' copy; and the last CR only    *)
(* for hosts without trouble, where it puts the host into a pending state    *)
(* again while a revision still waits that was written against the old one.  *)
EXTENDS ObjectLedger, FiniteSets

OneTrouble == Cardinality(trouble) <= 1
SmallCopies ==
  kind \in {"contact", "apiuser", "approver"} /\ ~root =>
    db.rev[NumRevs].st = "unused"
LastCR ==
  db.cr[NumCRs].st # "unused" => trouble = {} /\ kind = "host"
=============================================================================
