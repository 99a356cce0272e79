---------------------------- MODULE ChangeLedger ----------------------------
(***************************************************************************)
(* What the approval workflow promises about the changes of one object,    *)
(* without approvals, signatures, states of the object or cascades:        *)
(* changes are submitted against the change in force, judged once, and an  *)
(* approved change may take the place of exactly the one it was written    *)
(* against.  One step may do all three, as one request of the program can. *)
(***************************************************************************)
CONSTANTS
  Changes,   \* the changes of the object
  NoChange   \* no change is in force yet: not one of Changes

VARIABLES
  submitted,  \* changes that were ever put up for approval
  base,       \* the change that was in force when a change was submitted
  verdict,    \* "open" until the change is judged
  inForce,    \* the change in force
  past        \* changes that were in force

vars == <<submitted, base, verdict, inForce, past>>

Verdict == {"open", "approved", "declined", "cancelled"}

Init ==
  /\ submitted = {}
  /\ base = [c \in Changes |-> NoChange]
  /\ verdict = [c \in Changes |-> "open"]
  /\ inForce = NoChange
  /\ past = {}

(* What was submitted stays submitted, against the change then in force. *)
Submit ==
  /\ submitted \subseteq submitted' /\ submitted' \subseteq Changes
  /\ base' \in [Changes -> Changes \cup {NoChange}]
  /\ \A c \in submitted : base'[c] = base[c]
  /\ \A c \in submitted' \ submitted : base'[c] = inForce

(* Only what was submitted is judged, and only once. *)
Judge ==
  /\ verdict' \in [Changes -> Verdict]
  /\ \A c \in Changes :
       /\ verdict[c] # "open" => verdict'[c] = verdict[c]
       /\ verdict'[c] # "open" => c \in submitted'

(* At most one change takes over, from the change it was written against. *)
TakeOver ==
  \/ UNCHANGED <<inForce, past>>
  \/ \E c \in Changes \ (past \cup {inForce}) :
       /\ verdict'[c] = "approved"
       /\ base'[c] = inForce
       /\ inForce' = c
       /\ past' = past \cup ({inForce} \ {NoChange})

Next == Submit /\ Judge /\ TakeOver

(* What is left of TakeOver when a step may be cut short: the change that   *)
(* comes into force is approved and was written against the one before.     *)
Succeed ==
  \/ UNCHANGED inForce
  \/ \E c \in Changes :
       verdict'[c] = "approved" /\ base'[c] = inForce /\ inForce' = c

Spec == Init /\ [][Next]_vars
=============================================================================
