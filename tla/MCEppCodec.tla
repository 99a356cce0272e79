------------------------------- MODULE MCEppCodec ------------------------------
(***************************************************************************)
(* A small instance of EppCodec: one name under .COM and one under another *)
(* zone, and every message the constructors can build of them, those about *)
(* contacts, which belong to no zone, for one.                             *)
(***************************************************************************)
EXTENDS EppCodec

MCTld == [n \in Names |-> IF n = CHOOSE x \in Names : TRUE THEN "COM" ELSE "ORG"]

Tx == "tx"
Com == CHOOSE n \in Names : Tld[n] = "COM"
HostLists == {<<>>, <<"ns1">>, <<"ns1", "ns2">>}
Lists == {AddRemove(h, <<>>) : h \in HostLists}

MCMessages ==
  {GetEPPHello, GetEPPGreeting, GetEPPLogin(Tx), GetEPPLoginPasswordChange(Tx),
   GetEPPLogout(Tx), GetEPPPollRequest(Tx), GetEPPPollAcknowledge("1", Tx)}
  \cup UNION {
    {GetEPPDomainCheck(n, Tx), GetEPPHostCheck(n, Tx),
     GetEPPHostCreate(n, <<"addr">>, Tx), GetEPPDomainInfo(n, Tx), GetEPPHostInfo(n, Tx),
     GetEPPDomainDelete(n, Tx), GetEPPHostDelete(n, Tx), GetEPPDomainRenew(n, Tx),
     GetEPPHostUpdate(n, NoChange, AddRemove(<<>>, <<"ok">>), Tx)} : n \in Names}
  \cup {GetEPPContactCheck(Com, Tx), GetEPPContactCreate(Com, Tx),
        GetEPPContactInfo(Com, Tx), GetEPPContactDelete(Com, Tx)}
  \cup {GetEPPContactUpdate(Com, NoChange, NoChange, chg, Tx) :
          chg \in {{}, {"postal"}, ContactChange}}
  \cup {GetEPPDomainCreate(Com, h, Tx) : h \in HostLists}
  \cup {GetEPPDomainUpdate(Com, a, r, Tx) : a \in Lists, r \in Lists}
  \cup {GetEPPDomainTransfer(Com, op, Tx) : op \in {"request", "query", "cancel"}}
  \cup {GetEPPContactTransfer(Com, op, Tx) : op \in {"request", "query"}}
  \cup {GetEPPDomainSyncUpdate(Com, Tx), GetEPPDomainSecDNSUpdate(Com, Tx),
        GetEPPDomainRestore(Com, "request", Tx)}
  \cup {WithData(GetEPPResponse(Tx, 1000), e, f, Com) :
          e \in {"chkData", "creData", "infData"}, f \in Objects}
  \cup {GetEPPResponse(Tx, 2303),
        WithData(GetEPPResponse(Tx, 1000), "renData", "domain", Com),
        WithData(GetEPPResponse(Tx, 1000), "trnData", "contact", Com)}
=============================================================================
