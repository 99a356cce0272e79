---------------------------- MODULE MCEppConnection ---------------------------
(***************************************************************************)
(* A small instance of EppConnection: three calls, the first of which the  *)
(* server answers, leaves unanswered or breaks down on, and channels that  *)
(* the answers of calls that have timed out can fill.                      *)
(***************************************************************************)
EXTENDS EppConnection

CONSTANTS n1, n2

MCTld == [n \in Names |-> "COM"]
MCExists == {<<"domain", n1>>}
MCSponsored == {}
MCWork ==
  <<{GetEPPDomainCheck(n1, 1), GetEPPDomainUpdate(n2, NoChange, NoChange, 1)},
    {GetEPPDomainInfo(n1, 2), GetEPPHostUpdate(n1, NoChange, NoChange, 2)},
    {GetEPPPollRequest(3)},
    {}>>
=============================================================================
