----------------------------- MODULE MCProvision ----------------------------
(***************************************************************************)
(* A small instance of Provision: one domain, a host under it whose        *)
(* revisions change, and one of another top level domain.                  *)
(***************************************************************************)
EXTENDS Provision, TLC

CONSTANTS d1, h1, h2, k1, a1, a2

MCParent == (h1 :> d1) @@ (h2 :> NoParent)
MCClientStatuses == {"clientUpdate", "clientTransfer"}
MCStatuses == MCClientStatuses \cup {"serverUpdate"}

Held(hosts, statuses) ==
  [exists |-> TRUE, sponsor |-> "us", hosts |-> hosts, statuses |-> statuses, ds |-> {k1},
   expires |-> 0, transfer |-> "none"]
Absent == [Held({}, {}) EXCEPT !.exists = FALSE, !.ds = {}]
MCDomainStarts ==
  {Held({h2}, {"clientUpdate"}), [Held({h2}, {}) EXCEPT !.sponsor = "them"], Absent}
MCHostStarts ==
  {[exists |-> TRUE, addresses |-> {a1}, statuses |-> {"clientUpdate"}],
   [exists |-> FALSE, addresses |-> {}, statuses |-> {}]}
MCPollStarts ==
  {<<>>, <<[kind |-> "transferApproved", domain |-> d1]>>,
   <<[kind |-> "unusedObjects", domain |-> d1], [kind |-> "other", domain |-> d1]>>}

Domain(desired, hosts, statuses) ==
  [desired |-> desired, hosts |-> hosts, statuses |-> statuses, ds |-> {}]
Host(desired, addresses, statuses) ==
  [desired |-> desired, addresses |-> addresses, statuses |-> statuses]
MCRevisions ==
  (d1 :> {Domain("active", {h1}, {"clientUpdate", "clientTransfer"}),
          Domain("inactive", {}, {}), Domain("external", {h1}, {})})
  @@ (h1 :> {Host("active", {a2}, {"clientUpdate"}), Host("inactive", {}, {})})
  @@ (h2 :> {Host("active", {a1}, {"clientUpdate"})})
=============================================================================
