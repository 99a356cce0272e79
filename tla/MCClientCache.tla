---------------------------- MODULE MCClientCache ----------------------------
(* The default approver set and its one approver, approved after the        *)
(* bootstrap by a trust anchor, the approver first; then a domain and a     *)
(* second revision of the set, both signed by the approver.                 *)
EXTENDS ClientCache

CONSTANTS domain, approverset, approver

MCHinted == {domain}
Was(o, created, promoted, anchored) ==
  [object |-> o, created |-> created, promoted |-> promoted, anchored |-> anchored]
MCHistory == << Was(approver, 1, 2, TRUE), Was(approverset, 3, 4, TRUE),
                Was(domain, 5, 6, FALSE), Was(approverset, 5, 6, FALSE) >>
=============================================================================
