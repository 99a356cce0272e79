---------------------------- MODULE DomainLedger ----------------------------
(***************************************************************************)
(* The approval workflow of a domain implements the change ledger: the     *)
(* changes are the revisions, submitted when they get a change request and *)
(* judged when that request leaves pendingapproval.                        *)
(***************************************************************************)
EXTENDS DomainChange

Ledger == INSTANCE ChangeLedger WITH
  Changes <- Revs,
  NoChange <- None,
  submitted <- {r \in Revs : db.cr[r].st # "none"},
  base <- [r \in Revs |-> db.cr[r].init],
  verdict <- [r \in Revs |-> IF db.cr[r].st \in Final THEN db.cr[r].st ELSE "open"],
  inForce <- db.current,
  past <- {r \in Revs : db.rev[r].st = "superseded"}

(* Every request of the workflow is a step of the ledger or none: whatever  *)
(* the order of requests and the state of the approver sets, a revision     *)
(* takes over only approved and from the revision it was written against.   *)
ImplementsLedger == Ledger!Spec
=============================================================================
