---------------------------- MODULE EppCodecProofs ----------------------------
(***************************************************************************)
(* What one direction of an EPP connection does with messages, proved for    *)
(* every size of the header and of the Scanner's buffer, every number of     *)
(* messages and every set of messages that the constructors make.            *)
(*                                                                           *)
(* First the messages: what UnmarshalMessage and TypedMessage leave of a     *)
(* well-formed one, that MessageType takes it for the same, and that the     *)
(* constructors make no other.  Then the bytes: the invariant CodecInv       *)
(* says that the buffer and the network together are the messages to come,   *)
(* from which the properties of EppCodec follow.                             *)
(***************************************************************************)
EXTENDS EppCodec, TLAPS, FiniteSetTheorems, SequenceTheorems

-----------------------------------------------------------------------------
(* What is received of a message: UnmarshalMessage and TypedMessage.         *)

(* A received message has the plain elements of the one sent, but for the    *)
(* extensions that are lost, and a generic object where that has a typed one. *)
LEMMA UnmarshalledDomain ==
  ASSUME NEW m, WellFormed(m), NEW e, NEW f
  PROVE  /\ Has(UnmarshalMessage(m), e, "plain") <=> Has(m, e, "plain") /\ e \notin Lost
         /\ Has(UnmarshalMessage(m), e, "generic")
              <=> e \notin Lost /\ \E g \in Objects : Has(m, e, g)
<1>. DEFINE parts == {p \in DOMAIN m : p[1] \notin Lost}
            form(p) == IF p[2] = "plain" THEN p ELSE <<p[1], "generic">>
<1>1. DOMAIN UnmarshalMessage(m) = {form(p) : p \in parts}
  BY DEF UnmarshalMessage
<1>2. \A p \in DOMAIN m : p = <<p[1], p[2]>> /\ p[2] \in Objects \cup {"plain"}
  BY DEF WellFormed, FormsOf, Objects
<1>3. Has(UnmarshalMessage(m), e, "plain") <=> Has(m, e, "plain") /\ e \notin Lost
  <2>1. ASSUME Has(UnmarshalMessage(m), e, "plain")
        PROVE  Has(m, e, "plain") /\ e \notin Lost
    <3>1. PICK p \in parts : <<e, "plain">> = form(p)
      BY <2>1, <1>1 DEF Has
    <3>2. p[2] = "plain"
      BY <3>1
    <3>. QED
      BY <3>1, <3>2 DEF Has
  <2>2. ASSUME Has(m, e, "plain"), e \notin Lost
        PROVE  Has(UnmarshalMessage(m), e, "plain")
    <3>1. <<e, "plain">> \in parts /\ form(<<e, "plain">>) = <<e, "plain">>
      BY <2>2 DEF Has
    <3>. QED
      BY <3>1, <1>1 DEF Has
  <2>. QED
    BY <2>1, <2>2
<1>4. Has(UnmarshalMessage(m), e, "generic")
        <=> e \notin Lost /\ \E g \in Objects : Has(m, e, g)
  <2>1. ASSUME Has(UnmarshalMessage(m), e, "generic")
        PROVE  e \notin Lost /\ \E g \in Objects : Has(m, e, g)
    <3>1. PICK p \in parts : <<e, "generic">> = form(p)
      BY <2>1, <1>1 DEF Has
    <3>2. p[2] # "plain" /\ p[1] = e
      BY <3>1, <1>2 DEF Objects
    <3>. QED
      BY <3>1, <3>2, <1>2 DEF Has
  <2>2. ASSUME e \notin Lost, NEW g \in Objects, Has(m, e, g)
        PROVE  Has(UnmarshalMessage(m), e, "generic")
    <3>1. <<e, g>> \in parts /\ form(<<e, g>>) = <<e, "generic">>
      BY <2>2 DEF Has, Objects
    <3>. QED
      BY <3>1, <1>1 DEF Has
  <2>. QED
    BY <2>1, <2>2
<1>. QED
  BY <1>3, <1>4

(* The parts of a received message are pairs.                                *)
LEMMA UnmarshalledPairs ==
  ASSUME NEW m, WellFormed(m), NEW p \in DOMAIN UnmarshalMessage(m)
  PROVE  p = <<p[1], p[2]>>
<1>. DEFINE parts == {q \in DOMAIN m : q[1] \notin Lost}
            form(q) == IF q[2] = "plain" THEN q ELSE <<q[1], "generic">>
<1>1. DOMAIN UnmarshalMessage(m) = {form(q) : q \in parts}
  BY DEF UnmarshalMessage
<1>2. PICK q \in parts : p = form(q)
  BY <1>1
<1>3. q = <<q[1], q[2]>>
  BY DEF WellFormed
<1>. QED
  BY <1>2, <1>3

(* A plain element keeps its data.                                           *)
LEMMA UnmarshalledPlain ==
  ASSUME NEW m, WellFormed(m), NEW e, Has(m, e, "plain"), e \notin Lost
  PROVE  UnmarshalMessage(m)[<<e, "plain">>] = m[<<e, "plain">>]
<1>1. <<e, "plain">> \in DOMAIN UnmarshalMessage(m)
  BY UnmarshalledDomain DEF Has
<1>. QED
  BY <1>1 DEF UnmarshalMessage

(* The generic object of an element has the data and the namespace of the    *)
(* typed one, the only one that the element has.                             *)
LEMMA UnmarshalledObject ==
  ASSUME NEW m, WellFormed(m), NEW e, NEW f \in Objects, Has(m, e, f), e \notin Lost
  PROVE  UnmarshalMessage(m)[<<e, "generic">>] = [ns |-> f, data |-> m[<<e, f>>]]
<1>. DEFINE parts == {p \in DOMAIN m : p[1] \notin Lost}
            p0 == CHOOSE p \in parts : p[1] = e /\ p[2] # "plain"
<1>. HIDE DEF p0
<1>1. <<e, "generic">> \in DOMAIN UnmarshalMessage(m)
  BY UnmarshalledDomain DEF Has
<1>2. UnmarshalMessage(m)[<<e, "generic">>] = [ns |-> p0[2], data |-> m[p0]]
  BY <1>1 DEF UnmarshalMessage, p0
<1>3. <<e, f>> \in parts /\ <<e, f>>[1] = e /\ <<e, f>>[2] # "plain"
  BY DEF Has, Objects
<1>4. p0 \in parts /\ p0[1] = e /\ p0[2] # "plain"
  BY <1>3 DEF p0
<1>5. p0 = <<e, f>>
  <2>1. p0 \in DOMAIN m /\ <<e, f>> \in DOMAIN m /\ p0[1] = <<e, f>>[1]
    BY <1>3, <1>4
  <2>2. \A p, q \in DOMAIN m :
          p[1] = q[1] /\ p[2] # "plain" /\ q[2] # "plain" => p = q
    BY DEF WellFormed
  <2>. QED
    BY <1>3, <1>4, <2>1, <2>2
<1>. QED
  BY <1>2, <1>5

(* The parts of m that have a typed object of these forms in element e.      *)
Typed(m, e, forms) == {<<e, f>> : f \in {f \in forms : Has(m, e, f)}}

(* Retype for the elements whose data is copied as it is.                    *)
Retyped(m, e, forms) == Retype(m, e, forms, Same)

(* What Retype makes, by the case that the generic object is in.             *)
LEMMA RetypedShape ==
  ASSUME NEW u, NEW e, NEW forms
  PROVE  /\ ~Has(u, e, "generic") => Retyped(u, e, forms) = <<>>
         /\ Has(u, e, "generic") /\ u[<<e, "generic">>].ns \notin forms
              => Retyped(u, e, forms) = <<>>
         /\ Has(u, e, "generic") /\ u[<<e, "generic">>].ns \in forms
              => Retyped(u, e, forms) =
                   Part(e, u[<<e, "generic">>].ns, u[<<e, "generic">>].data)
BY DEF Retyped, Retype, Same

(* A well-formed message has an element's object in one form only.           *)
LEMMA OneForm ==
  ASSUME NEW m, WellFormed(m), NEW e, NEW f \in Objects, Has(m, e, f),
         NEW g \in Objects, Has(m, e, g)
  PROVE  f = g
<1>1. /\ <<e, g>> \in DOMAIN m /\ <<e, f>> \in DOMAIN m
      /\ <<e, g>>[1] = <<e, f>>[1]
      /\ <<e, g>>[2] # "plain" /\ <<e, f>>[2] # "plain"
  BY DEF Has, Objects
<1>2. \A p, q \in DOMAIN m :
        p[1] = q[1] /\ p[2] # "plain" /\ q[2] # "plain" => p = q
  BY DEF WellFormed
<1>3. <<e, g>> = <<e, f>>
  BY <1>1, <1>2
<1>. QED
  BY <1>3

(* Typing the received message gives the objects of the forms asked for, as  *)
(* they were sent.                                                           *)
LEMMA RetypedDomain ==
  ASSUME NEW m, WellFormed(m), NEW e, e \notin Lost, NEW forms \in SUBSET Objects
  PROVE  /\ DOMAIN Retyped(UnmarshalMessage(m), e, forms) = Typed(m, e, forms)
         /\ \A f \in forms : Has(m, e, f) =>
              Retyped(UnmarshalMessage(m), e, forms)[<<e, f>>] = m[<<e, f>>]
<1>. DEFINE u == UnmarshalMessage(m)
<1>1. DOMAIN <<>> = {}
  OBVIOUS
<1>2. ASSUME NEW f \in Objects, Has(m, e, f)
      PROVE  Has(u, e, "generic") /\ u[<<e, "generic">>] = [ns |-> f, data |-> m[<<e, f>>]]
  BY <1>2, UnmarshalledDomain, UnmarshalledObject
<1>3. ASSUME NEW f \in forms, Has(m, e, f)
      PROVE  /\ DOMAIN Retyped(u, e, forms) = {<<e, f>>}
             /\ Retyped(u, e, forms)[<<e, f>>] = m[<<e, f>>]
             /\ Typed(m, e, forms) = {<<e, f>>}
  <2>1. Has(u, e, "generic") /\ u[<<e, "generic">>] = [ns |-> f, data |-> m[<<e, f>>]]
    BY <1>2, <1>3
  <2>2. Retyped(u, e, forms) = Part(e, f, m[<<e, f>>])
    BY <2>1, RetypedShape
  <2>3. {g \in forms : Has(m, e, g)} = {f}
    BY <1>3, OneForm
  <2>. QED
    BY <2>2, <2>3 DEF Part, Typed
<1>4. ASSUME NEW f \in Objects \ forms, Has(m, e, f)
      PROVE  DOMAIN Retyped(u, e, forms) = {} /\ \A g \in forms : ~Has(m, e, g)
  <2>1. Has(u, e, "generic") /\ u[<<e, "generic">>] = [ns |-> f, data |-> m[<<e, f>>]]
    BY <1>2, <1>4
  <2>2. Retyped(u, e, forms) = <<>>
    BY <2>1, RetypedShape
  <2>3. \A g \in forms : ~Has(m, e, g)
    BY <1>4, OneForm
  <2>. QED
    BY <1>1, <2>2, <2>3
<1>5. ASSUME \A f \in Objects : ~Has(m, e, f)
      PROVE  DOMAIN Retyped(u, e, forms) = {}
  <2>1. ~Has(u, e, "generic")
    BY <1>5, UnmarshalledDomain
  <2>2. Retyped(u, e, forms) = <<>>
    BY <2>1, RetypedShape
  <2>. QED
    BY <1>1, <2>2
<1>6. CASE \E f \in forms : Has(m, e, f)
  <2>1. PICK f \in forms : Has(m, e, f)
    BY <1>6
  <2>2. \A g \in forms : Has(m, e, g) => g = f
    BY <2>1, OneForm
  <2>. QED
    BY <2>1, <2>2, <1>3
<1>7. CASE ~ \E f \in forms : Has(m, e, f)
  <2>1. Typed(m, e, forms) = {}
    BY <1>7 DEF Typed
  <2>2. DOMAIN Retyped(u, e, forms) = {}
    BY <1>4, <1>5, <1>7
  <2>. QED
    BY <2>1, <2>2, <1>7
<1>. QED
  BY <1>6, <1>7

(* The typed functions but TypedUpdate and Plain, in terms of Retyped.       *)
LEMMA TypedSame ==
  ASSUME NEW u
  PROVE  /\ TypedCheck(u) = Retyped(u, "check", Objects)
         /\ TypedCreate(u) = Retyped(u, "create", Objects)
         /\ TypedInfo(u) = Retyped(u, "info", Objects)
         /\ TypedDelete(u) = Retyped(u, "delete", Objects)
         /\ TypedTransfer(u) = Retyped(u, "transfer", {"domain", "contact"})
         /\ TypedRenew(u) = Retyped(u, "renew", {"domain"})
         /\ TypedExtension(u) = Retyped(u, "namestore", {"domain"})
         /\ TypedResultData(u) =
              Join({Retyped(u, "chkData", Objects), Retyped(u, "creData", Objects),
                    Retyped(u, "infData", Objects), Retyped(u, "renData", {"domain"}),
                    Retyped(u, "trnData", {"domain", "contact"})})
BY DEF TypedCheck, TypedCreate, TypedInfo, TypedDelete, TypedTransfer, TypedRenew,
       TypedExtension, TypedResultData, Retyped

(* What a domain's update keeps of a list of hosts.                          *)
Last(s) == IF s = <<>> THEN <<>> ELSE <<s[Len(s)]>>

(* Nothing is lost of a list of at most one host.                            *)
LEMMA LastOfShort ==
  ASSUME NEW S, NEW s \in Seq(S), Len(s) <= 1
  PROVE  Last(s) = s
<1>1. CASE s = <<>>
  BY <1>1 DEF Last
<1>2. CASE s # <<>>
  <2>1. Len(s) \in Nat
    OBVIOUS
  <2>2. Len(s) # 0
    BY <1>2
  <2>3. Len(s) = 1
    <3>1. \A n \in Nat : n <= 1 /\ n # 0 => n = 1
      OBVIOUS
    <3>. QED
      BY <2>1, <2>2, <3>1, Zenon
  <2>4. s = <<s[1]>>
    <3>1. 1 \in 1 .. Len(s)
      BY <2>3
    <3>4. s[1] \in S
      BY <3>1, ElementOfSeq
    <3>2. <<s[1]>> \in Seq(S) /\ Len(<<s[1]>>) = 1 /\ <<s[1]>>[1] = s[1]
      BY <3>4
    <3>3. \A i \in 1 .. Len(s) : s[i] = <<s[1]>>[i]
      BY <2>3, <3>2
    <3>. QED
      BY <2>3, <3>2, <3>3, SeqEqual
  <2>. QED
    BY <1>2, <2>3, <2>4 DEF Last
<1>. QED
  BY <1>1, <1>2

(* What TypedUpdate makes, by the case that the generic object is in.        *)
LEMMA UpdateShape ==
  ASSUME NEW u
  PROVE  /\ ~Has(u, "update", "generic") => TypedUpdate(u) = <<>>
         /\ Has(u, "update", "generic") /\ u[<<"update", "generic">>].ns \notin Objects
              => TypedUpdate(u) = <<>>
         /\ Has(u, "update", "generic") /\ u[<<"update", "generic">>].ns \in Objects
              => TypedUpdate(u) =
                   Part("update", u[<<"update", "generic">>].ns,
                        IF u[<<"update", "generic">>].ns # "domain"
                        THEN u[<<"update", "generic">>].data
                        ELSE [u[<<"update", "generic">>].data EXCEPT
                                !.add.hosts = Last(@), !.rem.hosts = Last(@)])
BY DEF TypedUpdate, Retype, Last

(* TypedUpdate gives the update's object, and of a domain's the lists cut    *)
(* to their last host.                                                       *)
LEMMA UpdateDomain ==
  ASSUME NEW m, WellFormed(m)
  PROVE  /\ DOMAIN TypedUpdate(UnmarshalMessage(m)) = Typed(m, "update", Objects)
         /\ Has(m, "update", "domain") =>
              TypedUpdate(UnmarshalMessage(m))[<<"update", "domain">>]
                = [m[<<"update", "domain">>] EXCEPT
                     !.add.hosts = Last(@), !.rem.hosts = Last(@)]
<1>. DEFINE u == UnmarshalMessage(m)
<1>0. "update" \notin Lost
  BY DEF Lost
<1>1. ASSUME NEW f \in Objects, Has(m, "update", f)
      PROVE  Has(u, "update", "generic")
             /\ u[<<"update", "generic">>] = [ns |-> f, data |-> m[<<"update", f>>]]
  BY <1>0, <1>1, UnmarshalledDomain, UnmarshalledObject
<1>. HIDE DEF u
<1>2. ASSUME NEW f \in Objects, Has(m, "update", f)
      PROVE  DOMAIN TypedUpdate(u) = Typed(m, "update", Objects)
  <2>9. /\ Has(u, "update", "generic")
        /\ u[<<"update", "generic">>] = [ns |-> f, data |-> m[<<"update", f>>]]
    BY <1>1, <1>2
  <2>0. Has(u, "update", "generic") /\ u[<<"update", "generic">>].ns = f
    BY <2>9
  <2>1. PICK d : TypedUpdate(u) = Part("update", f, d)
    <3>1. TypedUpdate(u) =
                   Part("update", u[<<"update", "generic">>].ns,
                        IF u[<<"update", "generic">>].ns # "domain"
                        THEN u[<<"update", "generic">>].data
                        ELSE [u[<<"update", "generic">>].data EXCEPT
                                !.add.hosts = Last(@), !.rem.hosts = Last(@)])
      BY <2>0, UpdateShape
    <3>. QED
      BY <2>0, <3>1
  <2>2. {g \in Objects : Has(m, "update", g)} = {f}
    BY <1>2, OneForm
  <2>. QED
    BY <2>1, <2>2 DEF Part, Typed
<1>3. ASSUME \A f \in Objects : ~Has(m, "update", f)
      PROVE  DOMAIN TypedUpdate(u) = Typed(m, "update", Objects)
  <2>1. ~Has(u, "update", "generic")
    BY <1>3, UnmarshalledDomain DEF u
  <2>2. TypedUpdate(u) = <<>>
    BY <2>1, UpdateShape
  <2>3. DOMAIN TypedUpdate(u) = {}
    BY <2>2
  <2>. QED
    BY <2>3, <1>3 DEF Typed
<1>4. ASSUME Has(m, "update", "domain")
      PROVE  TypedUpdate(u)[<<"update", "domain">>]
                = [m[<<"update", "domain">>] EXCEPT
                     !.add.hosts = Last(@), !.rem.hosts = Last(@)]
  <2>1. /\ Has(u, "update", "generic")
        /\ u[<<"update", "generic">>].ns = "domain"
        /\ u[<<"update", "generic">>].data = m[<<"update", "domain">>]
    BY <1>1, <1>4 DEF Objects
  <2>2. TypedUpdate(u) =
                   Part("update", "domain",
                        [m[<<"update", "domain">>] EXCEPT
                                !.add.hosts = Last(@), !.rem.hosts = Last(@)])
    BY <2>1, UpdateShape DEF Objects
  <2>. QED
    BY <2>2 DEF Part
<1>. QED
  BY <1>2, <1>3, <1>4 DEF u

(* The parts of a join are those of the messages joined.                     *)
LEMMA JoinDomain ==
  ASSUME NEW S
  PROVE  DOMAIN Join(S) = UNION {DOMAIN n : n \in S}
BY DEF Join

(* A part that only one of them has keeps its data.                          *)
LEMMA JoinValue ==
  ASSUME NEW S, NEW n \in S, NEW p \in DOMAIN n,
         \A k \in S : p \in DOMAIN k => k = n
  PROVE  Join(S)[p] = n[p]
<1>1. p \in DOMAIN Join(S)
  BY JoinDomain
<1>2. (CHOOSE k \in S : p \in DOMAIN k) = n
  OBVIOUS
<1>. QED
  BY <1>1, <1>2 DEF Join

(* The elements that are copied without a namespace, and those whose object  *)
(* is typed again.                                                           *)
Kept == {"greeting", "hello", "command", "response"} \cup (CommandElements \ {"poll"})
Copied == (CommandElements \ {"login", "logout", "poll"}) \cup {"namestore"} \cup DataElements

(* The result data typed again: of renewals a domain's, of transfers not a   *)
(* host's.                                                                   *)
LEMMA ResultDataDomain ==
  ASSUME NEW m, WellFormed(m)
  PROVE  DOMAIN TypedResultData(UnmarshalMessage(m)) =
           UNION {Typed(m, "chkData", Objects), Typed(m, "creData", Objects),
                  Typed(m, "infData", Objects), Typed(m, "renData", {"domain"}),
                  Typed(m, "trnData", {"domain", "contact"})}
<1>. DEFINE u == UnmarshalMessage(m)
<1>1. /\ "chkData" \notin Lost /\ "creData" \notin Lost /\ "infData" \notin Lost
      /\ "renData" \notin Lost /\ "trnData" \notin Lost
      /\ {"domain"} \in SUBSET Objects /\ {"domain", "contact"} \in SUBSET Objects
  BY DEF Lost, Objects
<1>2. /\ DOMAIN Retyped(u, "chkData", Objects) = Typed(m, "chkData", Objects)
      /\ DOMAIN Retyped(u, "creData", Objects) = Typed(m, "creData", Objects)
      /\ DOMAIN Retyped(u, "infData", Objects) = Typed(m, "infData", Objects)
      /\ DOMAIN Retyped(u, "renData", {"domain"}) = Typed(m, "renData", {"domain"})
      /\ DOMAIN Retyped(u, "trnData", {"domain", "contact"})
           = Typed(m, "trnData", {"domain", "contact"})
  BY <1>1, RetypedDomain
<1>3. TypedResultData(u) =
        Join({Retyped(u, "chkData", Objects), Retyped(u, "creData", Objects),
              Retyped(u, "infData", Objects), Retyped(u, "renData", {"domain"}),
              Retyped(u, "trnData", {"domain", "contact"})})
  BY TypedSame
<1>. HIDE DEF u
<1>4. DOMAIN TypedResultData(u) =
        UNION {DOMAIN n : n \in
             {Retyped(u, "chkData", Objects), Retyped(u, "creData", Objects),
              Retyped(u, "infData", Objects), Retyped(u, "renData", {"domain"}),
              Retyped(u, "trnData", {"domain", "contact"})}}
  BY <1>3, JoinDomain
<1>. QED
  BY <1>2, <1>4 DEF u

(* The parts that Plain copies.                                              *)
PlainParts(m) == {p \in DOMAIN m : p[1] \in Kept /\ p[2] = "plain"}

(* Plain gives what was sent of those.                                       *)
LEMMA PlainDomain ==
  ASSUME NEW m, WellFormed(m)
  PROVE  /\ DOMAIN Plain(UnmarshalMessage(m)) = PlainParts(m)
         /\ \A p \in PlainParts(m) : Plain(UnmarshalMessage(m))[p] = m[p]
<1>. DEFINE u == UnmarshalMessage(m)
            plain == {p \in DOMAIN u : p[1] \in Kept /\ p[2] = "plain"}
<1>1. Plain(u) = [p \in plain |-> u[p]]
  BY DEF Plain, Kept
<1>2. Kept \cap Lost = {}
  BY DEF Kept, Lost, CommandElements
<1>3. \A p \in DOMAIN u : p = <<p[1], p[2]>>
  BY UnmarshalledPairs
<1>4. \A p \in DOMAIN m : p = <<p[1], p[2]>>
  BY DEF WellFormed
<1>. HIDE DEF u
<1>5. \A e : Has(u, e, "plain") <=> Has(m, e, "plain") /\ e \notin Lost
  BY UnmarshalledDomain DEF u
<1>6. ASSUME NEW p \in plain PROVE p \in PlainParts(m)
  <2>1. p = <<p[1], "plain">> /\ Has(u, p[1], "plain")
    BY <1>3 DEF Has
  <2>2. Has(m, p[1], "plain")
    BY <2>1, <1>5
  <2>. QED
    BY <2>1, <2>2 DEF Has, PlainParts
<1>7. ASSUME NEW p \in PlainParts(m) PROVE p \in plain /\ u[p] = m[p]
  <2>1. p = <<p[1], "plain">> /\ Has(m, p[1], "plain") /\ p[1] \in Kept /\ p[1] \notin Lost
    BY <1>2, <1>4 DEF Has, PlainParts
  <2>2. Has(u, p[1], "plain") /\ u[<<p[1], "plain">>] = m[<<p[1], "plain">>]
    BY <2>1, UnmarshalledDomain, UnmarshalledPlain DEF u
  <2>. QED
    BY <2>1, <2>2 DEF Has
<1>8. plain = PlainParts(m)
  BY <1>6, <1>7
<1>. HIDE DEF plain
<1>. QED
  BY <1>1, <1>7, <1>8 DEF u

(* Membership in Typed.                                                      *)
LEMMA TypedPart ==
  ASSUME NEW m, NEW e, NEW f, NEW d, NEW forms
  PROVE  <<e, f>> \in Typed(m, d, forms) <=> e = d /\ f \in forms /\ Has(m, e, f)
BY DEF Typed

(* What TypedMessage puts together.                                          *)
Pieces(u) ==
  {Plain(u), TypedCheck(u), TypedCreate(u), TypedInfo(u), TypedDelete(u),
   TypedUpdate(u), TypedTransfer(u), TypedRenew(u), TypedExtension(u),
   TypedResultData(u)}

(* The parts of each piece, in terms of the message that was sent.           *)
LEMMA PiecesDomain ==
  ASSUME NEW m, WellFormed(m)
  PROVE  LET u == UnmarshalMessage(m) IN
         /\ DOMAIN Plain(u) = PlainParts(m)
         /\ DOMAIN TypedCheck(u) = Typed(m, "check", Objects)
         /\ DOMAIN TypedCreate(u) = Typed(m, "create", Objects)
         /\ DOMAIN TypedInfo(u) = Typed(m, "info", Objects)
         /\ DOMAIN TypedDelete(u) = Typed(m, "delete", Objects)
         /\ DOMAIN TypedUpdate(u) = Typed(m, "update", Objects)
         /\ DOMAIN TypedTransfer(u) = Typed(m, "transfer", {"domain", "contact"})
         /\ DOMAIN TypedRenew(u) = Typed(m, "renew", {"domain"})
         /\ DOMAIN TypedExtension(u) = Typed(m, "namestore", {"domain"})
         /\ DOMAIN TypedResultData(u) =
              UNION {Typed(m, "chkData", Objects), Typed(m, "creData", Objects),
                     Typed(m, "infData", Objects), Typed(m, "renData", {"domain"}),
                     Typed(m, "trnData", {"domain", "contact"})}
<1>. DEFINE u == UnmarshalMessage(m)
<1>1. /\ "check" \notin Lost /\ "create" \notin Lost /\ "info" \notin Lost
      /\ "delete" \notin Lost /\ "transfer" \notin Lost /\ "renew" \notin Lost
      /\ "namestore" \notin Lost
      /\ {"domain"} \in SUBSET Objects /\ {"domain", "contact"} \in SUBSET Objects
  BY DEF Lost, Objects
<1>2. /\ DOMAIN Retyped(u, "check", Objects) = Typed(m, "check", Objects)
      /\ DOMAIN Retyped(u, "create", Objects) = Typed(m, "create", Objects)
      /\ DOMAIN Retyped(u, "info", Objects) = Typed(m, "info", Objects)
      /\ DOMAIN Retyped(u, "delete", Objects) = Typed(m, "delete", Objects)
  BY <1>1, RetypedDomain
<1>3. /\ DOMAIN Retyped(u, "transfer", {"domain", "contact"})
           = Typed(m, "transfer", {"domain", "contact"})
      /\ DOMAIN Retyped(u, "renew", {"domain"}) = Typed(m, "renew", {"domain"})
      /\ DOMAIN Retyped(u, "namestore", {"domain"}) = Typed(m, "namestore", {"domain"})
  BY <1>1, RetypedDomain
<1>4. DOMAIN Plain(u) = PlainParts(m) /\ DOMAIN TypedUpdate(u) = Typed(m, "update", Objects)
  BY PlainDomain, UpdateDomain
<1>. QED
  BY <1>2, <1>3, <1>4, TypedSame, ResultDataDomain

(* All parts of what the listener makes of a message.                        *)
LEMMA ParsedDomain ==
  ASSUME NEW m, WellFormed(m), NEW p
  PROVE  p \in DOMAIN TypedMessage(UnmarshalMessage(m)) <=>
           \/ p \in PlainParts(m)
           \/ p \in Typed(m, "check", Objects) \/ p \in Typed(m, "create", Objects)
           \/ p \in Typed(m, "info", Objects) \/ p \in Typed(m, "delete", Objects)
           \/ p \in Typed(m, "update", Objects)
           \/ p \in Typed(m, "transfer", {"domain", "contact"})
           \/ p \in Typed(m, "renew", {"domain"})
           \/ p \in Typed(m, "namestore", {"domain"})
           \/ p \in Typed(m, "chkData", Objects) \/ p \in Typed(m, "creData", Objects)
           \/ p \in Typed(m, "infData", Objects) \/ p \in Typed(m, "renData", {"domain"})
           \/ p \in Typed(m, "trnData", {"domain", "contact"})
<1>. DEFINE u == UnmarshalMessage(m)
<1>. HIDE DEF u
<1>1. DOMAIN TypedMessage(u) = UNION {DOMAIN n : n \in Pieces(u)}
  BY JoinDomain DEF TypedMessage, Pieces
<1>2. p \in DOMAIN TypedMessage(u) <=>
        \/ p \in DOMAIN Plain(u)
        \/ p \in DOMAIN TypedCheck(u) \/ p \in DOMAIN TypedCreate(u)
        \/ p \in DOMAIN TypedInfo(u) \/ p \in DOMAIN TypedDelete(u)
        \/ p \in DOMAIN TypedUpdate(u) \/ p \in DOMAIN TypedTransfer(u)
        \/ p \in DOMAIN TypedRenew(u) \/ p \in DOMAIN TypedExtension(u)
        \/ p \in DOMAIN TypedResultData(u)
  BY <1>1 DEF Pieces
<1>3. p \in DOMAIN TypedResultData(u) <=>
           \/ p \in Typed(m, "chkData", Objects) \/ p \in Typed(m, "creData", Objects)
           \/ p \in Typed(m, "infData", Objects) \/ p \in Typed(m, "renData", {"domain"})
           \/ p \in Typed(m, "trnData", {"domain", "contact"})
  <2>1. DOMAIN TypedResultData(u) =
           UNION {Typed(m, "chkData", Objects), Typed(m, "creData", Objects),
                  Typed(m, "infData", Objects), Typed(m, "renData", {"domain"}),
                  Typed(m, "trnData", {"domain", "contact"})}
    BY ResultDataDomain DEF u
  <2>. QED
    BY <2>1
<1>. QED
  BY <1>2, <1>3, PiecesDomain DEF u

(* A parsed message has the plain elements that are copied: not poll.        *)
LEMMA ParsedPlain ==
  ASSUME NEW m, WellFormed(m), NEW e
  PROVE  /\ Has(TypedMessage(UnmarshalMessage(m)), e, "plain")
              <=> Has(m, e, "plain") /\ e \in Kept
<1>1. "plain" \notin Objects /\ {"domain"} \in SUBSET Objects
      /\ {"domain", "contact"} \in SUBSET Objects
  BY DEF Objects
<1>2. \A d : \A forms \in SUBSET Objects : <<e, "plain">> \notin Typed(m, d, forms)
  BY <1>1, TypedPart
<1>3. <<e, "plain">> \in PlainParts(m) <=> Has(m, e, "plain") /\ e \in Kept
  BY DEF PlainParts, Has
<1>. QED
  BY <1>1, <1>2, <1>3, ParsedDomain DEF Has

(* A parsed message has the objects that were sent, in the form they were    *)
(* sent in; only login, logout and poll have none, and the extensions other  *)
(* than NameStore are lost.  No field is missing: where a form is not typed  *)
(* again, as a host's transfer, no constructor makes it.                     *)
LEMMA ParsedObject ==
  ASSUME NEW m, WellFormed(m), NEW e, NEW f \in Objects
  PROVE  Has(TypedMessage(UnmarshalMessage(m)), e, f) <=> Has(m, e, f) /\ e \in Copied
<1>1. <<e, f>> \notin PlainParts(m)
  BY DEF PlainParts, Objects
<1>2. Has(m, e, f) => f \in FormsOf(e)
  <2>1. \A p \in DOMAIN m : p[2] \in FormsOf(p[1]) \cup {"plain"}
    BY DEF WellFormed
  <2>. QED
    BY <2>1 DEF Has, Objects
<1>3. /\ e \in {"renew", "renData", "namestore"} => FormsOf(e) = {"domain"}
      /\ e \in {"transfer", "trnData"} => FormsOf(e) = {"domain", "contact"}
  BY DEF FormsOf
<1>4. e \in Copied <=>
        e \in {"check", "create", "info", "delete", "update", "transfer", "renew",
               "namestore", "chkData", "creData", "infData", "renData", "trnData"}
  BY DEF Copied, CommandElements, DataElements
<1>. QED
  BY <1>1, <1>2, <1>3, <1>4, TypedPart, ParsedDomain DEF Has

(* A plain element that is copied keeps its data.                            *)
LEMMA ParsedPlainData ==
  ASSUME NEW m, WellFormed(m), NEW e \in Kept, Has(m, e, "plain")
  PROVE  TypedMessage(UnmarshalMessage(m))[<<e, "plain">>] = m[<<e, "plain">>]
<1>. DEFINE u == UnmarshalMessage(m)
            p == <<e, "plain">>
<1>1. p \in PlainParts(m)
  BY DEF PlainParts, Has
<1>2. p \in DOMAIN Plain(u) /\ Plain(u)[p] = m[p]
  BY <1>1, PlainDomain
<1>3. \A d : \A forms \in SUBSET Objects : p \notin Typed(m, d, forms)
  <2>1. "plain" \notin Objects
    BY DEF Objects
  <2>. QED
    BY <2>1, TypedPart
<1>4. {"domain"} \in SUBSET Objects /\ {"domain", "contact"} \in SUBSET Objects
      /\ Objects \in SUBSET Objects
  BY DEF Objects
<1>. HIDE DEF u, p
<1>5. /\ p \notin DOMAIN TypedCheck(u) /\ p \notin DOMAIN TypedCreate(u)
      /\ p \notin DOMAIN TypedInfo(u) /\ p \notin DOMAIN TypedDelete(u)
      /\ p \notin DOMAIN TypedUpdate(u) /\ p \notin DOMAIN TypedTransfer(u)
      /\ p \notin DOMAIN TypedRenew(u) /\ p \notin DOMAIN TypedExtension(u)
  BY <1>3, <1>4, PiecesDomain, ZenonT(30) DEF u
<1>6. p \notin DOMAIN TypedResultData(u)
  <2>1. DOMAIN TypedResultData(u) =
              UNION {Typed(m, "chkData", Objects), Typed(m, "creData", Objects),
                     Typed(m, "infData", Objects), Typed(m, "renData", {"domain"}),
                     Typed(m, "trnData", {"domain", "contact"})}
    BY PiecesDomain DEF u
  <2>. QED
    BY <1>3, <1>4, <2>1
<1>7. \A k \in Pieces(u) : p \in DOMAIN k => k = Plain(u)
  BY <1>5, <1>6 DEF Pieces
<1>8. Join(Pieces(u))[p] = Plain(u)[p]
  <2>1. Plain(u) \in Pieces(u)
    BY DEF Pieces
  <2>. QED
    BY <1>2, <1>7, <2>1, JoinValue
<1>9. TypedMessage(u) = Join(Pieces(u))
  BY DEF TypedMessage, Pieces
<1>. QED
  BY <1>2, <1>8, <1>9 DEF u, p

(* A domain's update arrives with the last host of each list.                *)
LEMMA ParsedUpdateData ==
  ASSUME NEW m, WellFormed(m), Has(m, "update", "domain")
  PROVE  TypedMessage(UnmarshalMessage(m))[<<"update", "domain">>]
           = [m[<<"update", "domain">>] EXCEPT
                !.add.hosts = Last(@), !.rem.hosts = Last(@)]
<1>. DEFINE u == UnmarshalMessage(m)
            p == <<"update", "domain">>
<1>1. p \in DOMAIN TypedUpdate(u)
  <2>1. p \in Typed(m, "update", Objects)
    BY TypedPart DEF Objects
  <2>. QED
    BY <2>1, PiecesDomain
<1>2. p \notin PlainParts(m)
  BY DEF PlainParts
<1>3. \A d : d # "update" => \A forms \in SUBSET Objects : p \notin Typed(m, d, forms)
  BY TypedPart
<1>4. {"domain"} \in SUBSET Objects /\ {"domain", "contact"} \in SUBSET Objects
      /\ Objects \in SUBSET Objects
  BY DEF Objects
<1>. HIDE DEF u, p
<1>5. /\ p \notin DOMAIN TypedCheck(u) /\ p \notin DOMAIN TypedCreate(u)
      /\ p \notin DOMAIN TypedInfo(u) /\ p \notin DOMAIN TypedDelete(u)
      /\ p \notin DOMAIN Plain(u) /\ p \notin DOMAIN TypedTransfer(u)
      /\ p \notin DOMAIN TypedRenew(u) /\ p \notin DOMAIN TypedExtension(u)
  BY <1>2, <1>3, <1>4, PiecesDomain, ZenonT(30) DEF u
<1>6. p \notin DOMAIN TypedResultData(u)
  <2>1. DOMAIN TypedResultData(u) =
              UNION {Typed(m, "chkData", Objects), Typed(m, "creData", Objects),
                     Typed(m, "infData", Objects), Typed(m, "renData", {"domain"}),
                     Typed(m, "trnData", {"domain", "contact"})}
    BY PiecesDomain DEF u
  <2>. QED
    BY <1>3, <1>4, <2>1
<1>7. \A k \in Pieces(u) : p \in DOMAIN k => k = TypedUpdate(u)
  BY <1>5, <1>6 DEF Pieces
<1>8. Join(Pieces(u))[p] = TypedUpdate(u)[p]
  <2>1. TypedUpdate(u) \in Pieces(u)
    BY DEF Pieces
  <2>. QED
    BY <1>1, <1>7, <2>1, JoinValue
<1>9. TypedMessage(u) = Join(Pieces(u))
  BY DEF TypedMessage, Pieces
<1>10. TypedUpdate(u)[p]
         = [m[p] EXCEPT !.add.hosts = Last(@), !.rem.hosts = Last(@)]
  BY UpdateDomain DEF u, p
<1>. QED
  BY <1>8, <1>9, <1>10 DEF u, p

(* With at most one host in each, that is the update that was sent.          *)
LEMMA ShortListsArrive ==
  ASSUME NEW m, WellFormed(m), Has(m, "update", "domain"),
         Len(m[<<"update", "domain">>].add.hosts) <= 1,
         Len(m[<<"update", "domain">>].rem.hosts) <= 1
  PROVE  TypedMessage(UnmarshalMessage(m))[<<"update", "domain">>]
           = m[<<"update", "domain">>]
<1>1. PICK d : d = m[<<"update", "domain">>]
  OBVIOUS
<1>2. d \in DomainUpdates
  BY <1>1 DEF WellFormed
<1>3. d.add.hosts \in Seq(STRING) /\ d.rem.hosts \in Seq(STRING)
  BY <1>2 DEF DomainUpdates, AddRemoves
<1>4. Last(d.add.hosts) = d.add.hosts /\ Last(d.rem.hosts) = d.rem.hosts
  BY <1>1, <1>3, LastOfShort
<1>5. [d EXCEPT !.add.hosts = Last(@), !.rem.hosts = Last(@)] = d
  BY <1>2, <1>4 DEF DomainUpdates, AddRemoves
<1>. QED
  BY <1>1, <1>5, ParsedUpdateData

-----------------------------------------------------------------------------
(* MessageType gives the same for what was sent and for what is received.    *)

(* An element's object is in the same forms.                                 *)
LEMMA SameForms ==
  ASSUME NEW m, WellFormed(m), NEW e \in Copied
  PROVE  Forms(TypedMessage(UnmarshalMessage(m)), e) = Forms(m, e)
BY ParsedObject DEF Forms

(* When an element's object is in one form, that is the one chosen.          *)
LEMMA FormChosen ==
  ASSUME NEW m, NEW e, Cardinality(Forms(m, e)) = 1
  PROVE  \E f \in Objects : Forms(m, e) = {f} /\ (CHOOSE g \in Objects : Has(m, e, g)) = f
<1>1. Forms(m, e) \in SUBSET Objects
  BY DEF Forms
<1>2. IsFiniteSet(Objects)
  <2>1. IsFiniteSet({"domain"} \cup {"host"})
    BY FS_Singleton, FS_AddElement
  <2>2. IsFiniteSet(({"domain"} \cup {"host"}) \cup {"contact"})
    BY <2>1, FS_AddElement
  <2>3. Objects = ({"domain"} \cup {"host"}) \cup {"contact"}
    BY DEF Objects
  <2>. QED
    BY <2>2, <2>3
<1>3. IsFiniteSet(Forms(m, e))
  BY <1>1, <1>2, FS_Subset
<1>4. PICK f : Forms(m, e) = {f}
  BY <1>3, FS_Singleton
<1>5. \A g \in Objects : Has(m, e, g) <=> g = f
  BY <1>4 DEF Forms
<1>6. f \in Objects
  BY <1>1, <1>4
<1>7. (CHOOSE g \in Objects : Has(m, e, g)) = f
  BY <1>5, <1>6
<1>. QED
  BY <1>4, <1>6, <1>7

(* The type of a command with an object of its own is the same.              *)
LEMMA SameObjectType ==
  ASSUME NEW m, WellFormed(m), NEW e \in Copied
  PROVE  ObjectType(TypedMessage(UnmarshalMessage(m)), e) = ObjectType(m, e)
<1>. DEFINE t == TypedMessage(UnmarshalMessage(m))
<1>1. Forms(t, e) = Forms(m, e)
  BY SameForms
<1>. HIDE DEF t
<1>2. CASE Cardinality(Forms(m, e)) # 1
  BY <1>1, <1>2 DEF ObjectType, t
<1>3. CASE Cardinality(Forms(m, e)) = 1
  <2>1. (CHOOSE g \in Objects : Has(m, e, g)) = (CHOOSE g \in Objects : Has(t, e, g))
    <3>1. PICK f : Forms(m, e) = {f} /\ (CHOOSE g \in Objects : Has(m, e, g)) = f
      BY <1>3, FormChosen
    <3>2. PICK h : Forms(t, e) = {h} /\ (CHOOSE g \in Objects : Has(t, e, g)) = h
      BY <1>1, <1>3, FormChosen
    <3>3. f = h
      BY <1>1, <3>1, <3>2
    <3>. QED
      BY <3>1, <3>2, <3>3
  <2>2. ObjectType(m, e) = <<"command", e, CHOOSE g \in Objects : Has(m, e, g)>>
    BY <1>3 DEF ObjectType
  <2>3. ObjectType(t, e) = <<"command", e, CHOOSE g \in Objects : Has(t, e, g)>>
    BY <1>1, <1>3 DEF ObjectType
  <2>. QED
    BY <2>1, <2>2, <2>3 DEF t
<1>. QED
  BY <1>2, <1>3

(* So is that of a transfer, with the operation.                             *)
LEMMA SameTransferType ==
  ASSUME NEW m, WellFormed(m), Has(m, "transfer", "plain")
  PROVE  TransferType(TypedMessage(UnmarshalMessage(m))) = TransferType(m)
<1>. DEFINE t == TypedMessage(UnmarshalMessage(m))
            e == "transfer"
<1>0. e \in Copied /\ e \in Kept
  BY DEF Copied, Kept, CommandElements
<1>1. Forms(t, e) = Forms(m, e) /\ t[<<e, "plain">>] = m[<<e, "plain">>]
  BY <1>0, SameForms, ParsedPlainData
<1>. HIDE DEF t
<1>2. CASE Cardinality(Forms(m, e)) # 1
  BY <1>1, <1>2 DEF TransferType, t
<1>3. CASE Cardinality(Forms(m, e)) = 1
  <2>1. (CHOOSE g \in Objects : Has(m, e, g)) = (CHOOSE g \in Objects : Has(t, e, g))
    <3>1. PICK f : Forms(m, e) = {f} /\ (CHOOSE g \in Objects : Has(m, e, g)) = f
      BY <1>3, FormChosen
    <3>2. PICK h : Forms(t, e) = {h} /\ (CHOOSE g \in Objects : Has(t, e, g)) = h
      BY <1>1, <1>3, FormChosen
    <3>3. f = h
      BY <1>1, <3>1, <3>2
    <3>. QED
      BY <3>1, <3>2, <3>3
  <2>2. TransferType(m) =
          <<"command", e, CHOOSE g \in Objects : Has(m, e, g), m[<<e, "plain">>]>>
    BY <1>3 DEF TransferType
  <2>3. TransferType(t) =
          <<"command", e, CHOOSE g \in Objects : Has(t, e, g), t[<<e, "plain">>]>>
    BY <1>1, <1>3 DEF TransferType
  <2>. QED
    BY <1>1, <2>1, <2>2, <2>3 DEF t
<1>. QED
  BY <1>2, <1>3

(* The elements of a command.                                                *)
Present(m) == {e \in CommandElements : Has(m, e, "plain")}

(* So is that of any command but a poll.                                     *)
LEMMA SameCommandType ==
  ASSUME NEW m, WellFormed(m), ~Has(m, "poll", "plain")
  PROVE  CommandType(TypedMessage(UnmarshalMessage(m))) = CommandType(m)
<1>. DEFINE t == TypedMessage(UnmarshalMessage(m))
<1>1. Present(t) = Present(m)
  <2>1. \A e \in CommandElements : Has(t, e, "plain") <=> Has(m, e, "plain")
    BY ParsedPlain DEF Kept, CommandElements
  <2>. HIDE DEF t
  <2>. QED
    BY <2>1 DEF Present
<1>2. \A e \in CommandElements \ {"login", "logout", "poll", "transfer"} :
        ObjectType(t, e) = ObjectType(m, e)
  <2>1. \A e \in CommandElements \ {"login", "logout", "poll", "transfer"} : e \in Copied
    BY DEF Copied
  <2>. QED
    BY <2>1, SameObjectType
<1>3. Has(m, "transfer", "plain") => TransferType(t) = TransferType(m)
  BY SameTransferType
<1>. HIDE DEF t
<1>4. CASE Cardinality(Present(m)) # 1
  BY <1>1, <1>4 DEF CommandType, Present, t
<1>5. CASE Cardinality(Present(m)) = 1
  <2>1. Present(m) # {}
    BY <1>5, FS_EmptySet
  <2>2. PICK e : e = CHOOSE x \in Present(m) : TRUE
    OBVIOUS
  <2>3. e \in CommandElements /\ Has(m, e, "plain")
    BY <2>1, <2>2 DEF Present
  <2>4. CommandType(m) =
          CASE e \in {"login", "logout", "poll"} -> <<"command", e>>
            [] e = "transfer" -> TransferType(m)
            [] OTHER -> ObjectType(m, e)
    BY <1>5, <2>2 DEF CommandType, Present
  <2>5. CommandType(t) =
          CASE e \in {"login", "logout", "poll"} -> <<"command", e>>
            [] e = "transfer" -> TransferType(t)
            [] OTHER -> ObjectType(t, e)
    BY <1>1, <1>5, <2>2 DEF CommandType, Present
  <2>6. CASE e \in {"login", "logout", "poll"}
    BY <2>4, <2>5, <2>6 DEF t
  <2>7. CASE e = "transfer"
    BY <2>3, <2>4, <2>5, <2>7, <1>3 DEF t
  <2>8. CASE e \notin {"login", "logout", "poll", "transfer"}
    BY <2>3, <2>4, <2>5, <2>8, <1>2 DEF t
  <2>. QED
    BY <2>6, <2>7, <2>8
<1>. QED
  BY <1>4, <1>5

(* So is that of a response.                                                 *)
LEMMA SameResponseType ==
  ASSUME NEW m, WellFormed(m)
  PROVE  ResponseType(TypedMessage(UnmarshalMessage(m))) = ResponseType(m)
<1>. DEFINE t == TypedMessage(UnmarshalMessage(m))
<1>1. \A e \in DataElements, f \in Objects : Has(t, e, f) <=> Has(m, e, f)
  BY ParsedObject DEF Copied
<1>. HIDE DEF t
<1>2. {p \in DataElements \X Objects : p \in DOMAIN t}
        = {p \in DataElements \X Objects : p \in DOMAIN m}
  <2>1. ASSUME NEW p \in DataElements \X Objects
        PROVE  p \in DOMAIN t <=> p \in DOMAIN m
    <3>1. PICK e \in DataElements, f \in Objects : p = <<e, f>>
      OBVIOUS
    <3>. QED
      BY <1>1, <3>1 DEF Has
  <2>. QED
    BY <2>1
<1>3. PICK d : d = {p \in DataElements \X Objects : p \in DOMAIN m}
  OBVIOUS
<1>9. d = {p \in DataElements \X Objects : p \in DOMAIN t}
  BY <1>2, <1>3
<1>4. ResponseType(m) =
        IF Cardinality(d) # 1 THEN <<"response">>
        ELSE LET p == CHOOSE p \in d : TRUE IN <<"response", p[2], p[1]>>
  BY <1>3 DEF ResponseType
<1>5. ResponseType(t) =
        IF Cardinality(d) # 1 THEN <<"response">>
        ELSE LET p == CHOOSE p \in d : TRUE IN <<"response", p[2], p[1]>>
  BY <1>9 DEF ResponseType
<1>. QED
  BY <1>4, <1>5 DEF t

(* The top elements of a message.                                            *)
Top(m) == {t \in {"greeting", "hello", "command", "response"} : Has(m, t, "plain")}

(* Every message but a poll is recognised as what it was sent as             *)
(* (MessageType after EPPListener's unmarshalling and TypedMessage).         *)
LEMMA SameMessageType ==
  ASSUME NEW m, WellFormed(m), ~Has(m, "poll", "plain")
  PROVE  MessageType(TypedMessage(UnmarshalMessage(m))) = MessageType(m)
<1>. DEFINE t == TypedMessage(UnmarshalMessage(m))
<1>1. Top(t) = Top(m)
  <2>1. \A e \in {"greeting", "hello", "command", "response"} :
          Has(t, e, "plain") <=> Has(m, e, "plain")
    BY ParsedPlain DEF Kept
  <2>. HIDE DEF t
  <2>. QED
    BY <2>1 DEF Top
<1>2. CommandType(t) = CommandType(m) /\ ResponseType(t) = ResponseType(m)
  BY SameCommandType, SameResponseType
<1>. HIDE DEF t
<1>3. \A x : MessageType(x) =
        CASE Top(x) = {"command"} -> CommandType(x)
          [] Top(x) = {"response"} -> ResponseType(x)
          [] Top(x) = {"greeting"} -> <<"greeting">>
          [] Top(x) = {"hello"} -> <<"hello">>
          [] OTHER -> <<"generic">>
  BY DEF MessageType, Top
<1>. QED
  BY <1>1, <1>2, <1>3 DEF t

(* A poll is recognised as a command, and no more: TypedMessage does not     *)
(* copy its element.                                                         *)
LEMMA PollType ==
  ASSUME NEW m, WellFormed(m), Has(m, "poll", "plain")
  PROVE  MessageType(TypedMessage(UnmarshalMessage(m))) = <<"command">>
<1>. DEFINE t == TypedMessage(UnmarshalMessage(m))
<1>1. \A e : Has(m, e, "plain") <=> e \in {"command", "poll"}
  <2>1. DOMAIN m = {<<"command", "plain">>, <<"poll", "plain">>}
    BY DEF WellFormed
  <2>. QED
    BY <2>1 DEF Has
<1>2. \A e : Has(t, e, "plain") <=> Has(m, e, "plain") /\ e \in Kept
  BY ParsedPlain
<1>3. "poll" \notin Kept /\ "command" \in Kept /\ "command" \notin CommandElements
  BY DEF Kept, CommandElements
<1>. HIDE DEF t
<1>4. Top(t) = {"command"}
  BY <1>1, <1>2, <1>3 DEF Top
<1>5. Present(t) = {}
  BY <1>1, <1>2, <1>3 DEF Present
<1>6. CommandType(t) = <<"command">>
  <2>1. Cardinality(Present(t)) # 1
    BY <1>5, FS_EmptySet
  <2>. QED
    BY <2>1 DEF CommandType, Present
<1>. QED
  BY <1>4, <1>6 DEF MessageType, Top, t

-----------------------------------------------------------------------------
(* What the constructors build is well formed: the assumption that the       *)
(* module makes of the messages that are sent.                               *)

(* An update of a domain has data with both its lists, one of a contact also *)
(* its change block.                                                         *)
Apt(e, f, d) ==
  /\ <<e, f>> = <<"update", "domain">> => d \in DomainUpdates
  /\ <<e, f>> = <<"update", "contact">> => d \in ContactUpdates

(* The data of the updates in a message.                                     *)
AptUpdates(m) ==
  /\ Has(m, "update", "domain") => m[<<"update", "domain">>] \in DomainUpdates
  /\ Has(m, "update", "contact") => m[<<"update", "contact">>] \in ContactUpdates

(* The parts of a message that is being built, with no poll in it.           *)
Fitting(m) ==
  /\ IsFiniteSet(DOMAIN m)
  /\ \A p \in DOMAIN m : p = <<p[1], p[2]>> /\ p[2] \in FormsOf(p[1]) \cup {"plain"}
  /\ \A p, q \in DOMAIN m :
       p[1] = q[1] /\ p[2] # "plain" /\ q[2] # "plain" => p = q
  /\ ~Has(m, "poll", "plain")
  /\ AptUpdates(m)

(* A message is well formed when its parts fit and it has one.               *)
LEMMA FittingIsWellFormed ==
  ASSUME NEW m, Fitting(m), DOMAIN m # {}
  PROVE  WellFormed(m)
BY DEF Fitting, AptUpdates, WellFormed

(* One part of a form that its element has a field for fits.                 *)
LEMMA FittingPart ==
  ASSUME NEW e, NEW f \in FormsOf(e) \cup {"plain"}, NEW d,
         <<e, f>> # <<"poll", "plain">>,
         Apt(e, f, d)
  PROVE  Fitting(Part(e, f, d)) /\ DOMAIN Part(e, f, d) = {<<e, f>>}
<1>. DEFINE m == Part(e, f, d)
<1>1. DOMAIN m = {<<e, f>>} /\ m[<<e, f>>] = d
  BY DEF Part
<1>. HIDE DEF m
<1>3. IsFiniteSet(DOMAIN m)
  BY <1>1, FS_Singleton
<1>5. \A p \in DOMAIN m : p = <<p[1], p[2]>> /\ p[2] \in FormsOf(p[1]) \cup {"plain"}
  BY <1>1
<1>6. ~Has(m, "poll", "plain")
  BY <1>1 DEF Has
<1>7. AptUpdates(m)
  BY <1>1 DEF AptUpdates, Apt, Has
<1>8. \A p, q \in DOMAIN m : p = q
  BY <1>1
<1>. QED
  BY <1>1, <1>3, <1>5, <1>6, <1>7, <1>8 DEF Fitting, m

(* No part at all does, as NameStore gives in other zones.                   *)
LEMMA FittingEmpty == Fitting(<<>>) /\ DOMAIN <<>> = {}
<1>1. DOMAIN <<>> = {}
  OBVIOUS
<1>. QED
  BY <1>1, FS_EmptySet DEF Fitting, AptUpdates, Has

(* Two messages without a common part are joined as they are.                *)
LEMMA Joined ==
  ASSUME NEW m, NEW n, DOMAIN m \cap DOMAIN n = {}
  PROVE  /\ DOMAIN (m ++ n) = DOMAIN m \cup DOMAIN n
         /\ \A p \in DOMAIN m : (m ++ n)[p] = m[p]
         /\ \A p \in DOMAIN n : (m ++ n)[p] = n[p]
<1>1. DOMAIN Join({m, n}) = DOMAIN m \cup DOMAIN n
  <2>1. DOMAIN Join({m, n}) = UNION {DOMAIN k : k \in {m, n}}
    BY JoinDomain
  <2>. QED
    BY <2>1
<1>2. \A p \in DOMAIN m : Join({m, n})[p] = m[p]
  <2>. SUFFICES ASSUME NEW p \in DOMAIN m PROVE Join({m, n})[p] = m[p]
    OBVIOUS
  <2>1. \A k \in {m, n} : p \in DOMAIN k => k = m
    OBVIOUS
  <2>. QED
    BY <2>1, JoinValue
<1>3. \A p \in DOMAIN n : Join({m, n})[p] = n[p]
  <2>. SUFFICES ASSUME NEW p \in DOMAIN n PROVE Join({m, n})[p] = n[p]
    OBVIOUS
  <2>1. \A k \in {m, n} : p \in DOMAIN k => k = n
    OBVIOUS
  <2>. QED
    BY <2>1, JoinValue
<1>. QED
  BY <1>1, <1>2, <1>3 DEF ++

(* No part is in both, nor an object of the same element.                    *)
Separate(m, n) ==
  \A p \in DOMAIN m, q \in DOMAIN n :
    p # q /\ (p[1] = q[1] => p[2] = "plain" \/ q[2] = "plain")

(* Two such messages that fit are one that fits.                             *)
LEMMA FittingJoin ==
  ASSUME NEW m, NEW n, Fitting(m), Fitting(n), Separate(m, n)
  PROVE  Fitting(m ++ n) /\ DOMAIN (m ++ n) = DOMAIN m \cup DOMAIN n
<1>0. DOMAIN m \cap DOMAIN n = {}
  BY DEF Separate
<1>1. PICK j : j = m ++ n
  OBVIOUS
<1>2. /\ DOMAIN j = DOMAIN m \cup DOMAIN n
      /\ \A p \in DOMAIN m : j[p] = m[p]
      /\ \A p \in DOMAIN n : j[p] = n[p]
  <2>1. /\ DOMAIN (m ++ n) = DOMAIN m \cup DOMAIN n
        /\ \A p \in DOMAIN m : (m ++ n)[p] = m[p]
        /\ \A p \in DOMAIN n : (m ++ n)[p] = n[p]
    BY <1>0, Joined
  <2>. QED
    BY <1>1, <2>1
<1>3. IsFiniteSet(DOMAIN j)
  <2>1. IsFiniteSet(DOMAIN m) /\ IsFiniteSet(DOMAIN n)
    BY DEF Fitting
  <2>2. IsFiniteSet(DOMAIN m \cup DOMAIN n)
    BY <2>1, FS_Union
  <2>. QED
    BY <1>2, <2>2
<1>4. \A p \in DOMAIN j : p = <<p[1], p[2]>> /\ p[2] \in FormsOf(p[1]) \cup {"plain"}
  BY <1>2 DEF Fitting
<1>5. ASSUME NEW p \in DOMAIN j, NEW q \in DOMAIN j,
             p[1] = q[1], p[2] # "plain", q[2] # "plain"
      PROVE  p = q
  <2>1. CASE p \in DOMAIN m /\ q \in DOMAIN m
    BY <1>5, <2>1 DEF Fitting
  <2>2. CASE p \in DOMAIN n /\ q \in DOMAIN n
    BY <1>5, <2>2 DEF Fitting
  <2>3. CASE p \in DOMAIN m /\ q \in DOMAIN n
    BY <1>5, <2>3 DEF Separate
  <2>4. CASE p \in DOMAIN n /\ q \in DOMAIN m
    BY <1>5, <2>4 DEF Separate
  <2>. QED
    BY <1>2, <2>1, <2>2, <2>3, <2>4
<1>6. ~Has(j, "poll", "plain")
  BY <1>2 DEF Fitting, Has
<1>7. AptUpdates(j)
  BY <1>2 DEF Fitting, AptUpdates, Has
<1>. QED
  BY <1>1, <1>2, <1>3, <1>4, <1>5, <1>6, <1>7 DEF Fitting

(* The three shapes of a command: with no object, with one, and with the     *)
(* extension that goes with a name.                                          *)
Bare(e, data, tx) == GetEPPCommand(tx) ++ Part(e, "plain", data)
About(e, data, f, d, tx) == Bare(e, data, tx) ++ Part(e, f, d)
Stored(e, data, f, d, n, tx) == About(e, data, f, d, tx) ++ NameStore(n)

(* A command with no object.                                                 *)
LEMMA BareFits ==
  ASSUME NEW e \in CommandElements \ {"poll"}, NEW tx, NEW data
  PROVE  /\ Fitting(Bare(e, data, tx))
         /\ DOMAIN Bare(e, data, tx) = {<<"command", "plain">>, <<e, "plain">>}
<1>1. e # "poll" /\ e # "command"
  BY DEF CommandElements
<1>2. Fitting(Part(e, "plain", data)) /\ DOMAIN Part(e, "plain", data) = {<<e, "plain">>}
  BY <1>1, FittingPart DEF Apt
<1>3. Fitting(GetEPPCommand(tx)) /\ DOMAIN GetEPPCommand(tx) = {<<"command", "plain">>}
  BY FittingPart DEF GetEPPCommand, Apt
<1>4. Separate(GetEPPCommand(tx), Part(e, "plain", data))
  BY <1>1, <1>2, <1>3 DEF Separate
<1>. QED
  BY <1>2, <1>3, <1>4, FittingJoin DEF Bare

(* The parts of a command with one object.                                   *)
PartsAbout(e, f) == {<<"command", "plain">>, <<e, "plain">>, <<e, f>>}

(* A command with one object.                                                *)
LEMMA AboutFits ==
  ASSUME NEW e \in CommandElements \ {"poll"}, NEW data,
         NEW f \in FormsOf(e), NEW d, NEW tx,
         Apt(e, f, d)
  PROVE  /\ Fitting(About(e, data, f, d, tx))
         /\ DOMAIN About(e, data, f, d, tx) = PartsAbout(e, f)
<1>1. e # "command"
  BY DEF CommandElements
<1>2. f \in Objects /\ f # "plain"
  BY DEF FormsOf, Objects
<1>3. Fitting(Part(e, f, d)) /\ DOMAIN Part(e, f, d) = {<<e, f>>}
  BY <1>1, <1>2, FittingPart DEF Apt
<1>4. /\ Fitting(Bare(e, data, tx))
      /\ DOMAIN Bare(e, data, tx) = {<<"command", "plain">>, <<e, "plain">>}
  BY BareFits
<1>5. Separate(Bare(e, data, tx), Part(e, f, d))
  BY <1>1, <1>2, <1>3, <1>4 DEF Separate
<1>6. /\ Fitting(About(e, data, f, d, tx))
      /\ DOMAIN About(e, data, f, d, tx)
           = DOMAIN Bare(e, data, tx) \cup DOMAIN Part(e, f, d)
  BY <1>3, <1>4, <1>5, FittingJoin DEF About
<1>. QED
  BY <1>3, <1>4, <1>6 DEF PartsAbout

(* The NameStore extension, where there is one.                              *)
LEMMA FittingNameStore ==
  ASSUME NEW n
  PROVE  Fitting(NameStore(n)) /\ DOMAIN NameStore(n) \subseteq {<<"namestore", "domain">>}
<1>1. "domain" \in FormsOf("namestore") \cup {"plain"}
  BY DEF FormsOf
<1>2. \A d : Fitting(Part("namestore", "domain", d))
             /\ DOMAIN Part("namestore", "domain", d) = {<<"namestore", "domain">>}
  BY <1>1, FittingPart DEF Apt
<1>3. CASE Tld[n] \in {"COM", "NET"}
  BY <1>2, <1>3 DEF NameStore
<1>4. CASE Tld[n] \notin {"COM", "NET"}
  BY <1>4, FittingEmpty DEF NameStore
<1>. QED
  BY <1>3, <1>4

(* A command with the NameStore extension; no element of a command is one.   *)
LEMMA StoredFits ==
  ASSUME NEW e \in CommandElements \ {"poll"}, NEW data,
         NEW f \in FormsOf(e), NEW d, NEW n, NEW tx,
         Apt(e, f, d)
  PROVE  /\ Fitting(Stored(e, data, f, d, n, tx))
         /\ <<"command", "plain">> \in DOMAIN Stored(e, data, f, d, n, tx)
         /\ DOMAIN Stored(e, data, f, d, n, tx)
              \subseteq {<<"command", "plain">>, <<e, "plain">>, <<e, f>>,
                         <<"namestore", "domain">>}
<1>1. e # "namestore"
  BY DEF CommandElements
<1>2. /\ Fitting(About(e, data, f, d, tx))
      /\ DOMAIN About(e, data, f, d, tx)
           = {<<"command", "plain">>, <<e, "plain">>, <<e, f>>}
  <2>1. /\ Fitting(About(e, data, f, d, tx))
        /\ DOMAIN About(e, data, f, d, tx) = PartsAbout(e, f)
    BY AboutFits
  <2>. QED
    BY <2>1 DEF PartsAbout
<1>3. /\ Fitting(NameStore(n))
      /\ DOMAIN NameStore(n) \subseteq {<<"namestore", "domain">>}
  BY FittingNameStore
<1>4. Separate(About(e, data, f, d, tx), NameStore(n))
  BY <1>1, <1>2, <1>3 DEF Separate
<1>5. /\ Fitting(Stored(e, data, f, d, n, tx))
      /\ DOMAIN Stored(e, data, f, d, n, tx)
           = DOMAIN About(e, data, f, d, tx) \cup DOMAIN NameStore(n)
  BY <1>2, <1>3, <1>4, FittingJoin DEF Stored
<1>. QED
  BY <1>2, <1>3, <1>5

(* The three shapes are well formed.                                         *)
LEMMA CommandsFit ==
  ASSUME NEW e \in CommandElements \ {"poll"}, NEW data,
         NEW f \in FormsOf(e), NEW d, NEW n, NEW tx,
         Apt(e, f, d)
  PROVE  /\ WellFormed(Bare(e, data, tx))
         /\ WellFormed(About(e, data, f, d, tx))
         /\ WellFormed(Stored(e, data, f, d, n, tx))
<1>1. WellFormed(Bare(e, data, tx))
  BY BareFits, FittingIsWellFormed
<1>2. WellFormed(About(e, data, f, d, tx))
  <2>1. /\ Fitting(About(e, data, f, d, tx))
        /\ DOMAIN About(e, data, f, d, tx) = PartsAbout(e, f)
    BY AboutFits
  <2>. QED
    BY <2>1, FittingIsWellFormed DEF PartsAbout
<1>3. WellFormed(Stored(e, data, f, d, n, tx))
  <2>1. /\ Fitting(Stored(e, data, f, d, n, tx))
        /\ <<"command", "plain">> \in DOMAIN Stored(e, data, f, d, n, tx)
    BY StoredFits
  <2>. QED
    BY <2>1, FittingIsWellFormed
<1>. QED
  BY <1>1, <1>2, <1>3

(* An update with a further extension is, as none of the three is NameStore. *)
LEMMA ExtendedUpdate ==
  ASSUME NEW n \in Names, NEW x \in {"sync", "secDNS", "rgp"}, NEW d, NEW tx
  PROVE  WellFormed(GetEPPDomainUpdate(n, NoChange, NoChange, tx) ++ Part(x, "domain", d))
<1>. DEFINE u == GetEPPDomainUpdate(n, NoChange, NoChange, tx)
            k == [name |-> n, add |-> NoChange, rem |-> NoChange]
            s == Stored("update", <<>>, "domain", k, n, tx)
<1>1. u = s
  BY DEF GetEPPDomainUpdate, Envelope, Stored, About, Bare
<1>2. k \in DomainUpdates
  BY DEF DomainUpdates, AddRemoves, NoChange, AddRemove
<1>3. "update" \in CommandElements \ {"poll"} /\ "domain" \in FormsOf("update")
  BY DEF CommandElements, FormsOf, Objects
<1>4. /\ Fitting(s) /\ <<"command", "plain">> \in DOMAIN s
      /\ DOMAIN s \subseteq {<<"command", "plain">>, <<"update", "plain">>,
                             <<"update", "domain">>, <<"namestore", "domain">>}
  BY <1>2, <1>3, StoredFits DEF Apt
<1>5. Fitting(Part(x, "domain", d)) /\ DOMAIN Part(x, "domain", d) = {<<x, "domain">>}
  <2>1. "domain" \in FormsOf(x) \cup {"plain"}
    BY DEF FormsOf, Objects
  <2>. QED
    BY <2>1, FittingPart DEF Apt
<1>. HIDE DEF s, u
<1>6. Separate(s, Part(x, "domain", d))
  BY <1>4, <1>5 DEF Separate
<1>7. /\ Fitting(s ++ Part(x, "domain", d))
      /\ DOMAIN (s ++ Part(x, "domain", d)) = DOMAIN s \cup DOMAIN Part(x, "domain", d)
  BY <1>4, <1>5, <1>6, FittingJoin
<1>8. WellFormed(s ++ Part(x, "domain", d))
  BY <1>4, <1>7, FittingIsWellFormed
<1>. QED
  BY <1>1, <1>8 DEF u

(* A message of one element, hello, a greeting or a response without data.   *)
LEMMA LoneMessage ==
  ASSUME NEW e, NEW d, e # "poll"
  PROVE  WellFormed(Part(e, "plain", d))
<1>. PICK m : m = Part(e, "plain", d)
  OBVIOUS
<1>1. DOMAIN m = {<<e, "plain">>}
  BY DEF Part
<1>2. IsFiniteSet(DOMAIN m)
  BY <1>1, FS_Singleton
<1>3. /\ ~Has(m, "poll", "plain") /\ ~Has(m, "update", "domain")
      /\ ~Has(m, "update", "contact")
  BY <1>1 DEF Has
<1>4. \A p \in DOMAIN m : p = <<p[1], p[2]>> /\ p[2] = "plain"
  BY <1>1
<1>5. WellFormed(m)
  BY <1>1, <1>2, <1>3, <1>4 DEF WellFormed
<1>. QED
  BY <1>5

(* A poll is a command and the poll.                                         *)
LEMMA PollFits ==
  ASSUME NEW d, NEW tx
  PROVE  WellFormed(GetEPPCommand(tx) ++ Part("poll", "plain", d))
<1>. PICK m : m = GetEPPCommand(tx) ++ Part("poll", "plain", d)
  OBVIOUS
<1>1. /\ DOMAIN GetEPPCommand(tx) = {<<"command", "plain">>}
      /\ DOMAIN Part("poll", "plain", d) = {<<"poll", "plain">>}
  BY DEF GetEPPCommand, Part
<1>2. DOMAIN m = {<<"command", "plain">>, <<"poll", "plain">>}
  <2>1. DOMAIN (GetEPPCommand(tx) ++ Part("poll", "plain", d))
          = DOMAIN GetEPPCommand(tx) \cup DOMAIN Part("poll", "plain", d)
    <3>1. DOMAIN GetEPPCommand(tx) \cap DOMAIN Part("poll", "plain", d) = {}
      BY <1>1
    <3>. QED
      BY <3>1, Joined
  <2>. QED
    BY <1>1, <2>1
<1>3. IsFiniteSet(DOMAIN m)
  <2>1. IsFiniteSet({<<"command", "plain">>}) /\ IsFiniteSet({<<"poll", "plain">>})
    BY FS_Singleton
  <2>2. IsFiniteSet({<<"command", "plain">>} \cup {<<"poll", "plain">>})
    BY <2>1, FS_Union
  <2>. QED
    BY <1>2, <2>2
<1>4. ~Has(m, "update", "domain") /\ ~Has(m, "update", "contact")
  BY <1>2 DEF Has
<1>5. \A p \in DOMAIN m : p = <<p[1], p[2]>> /\ p[2] = "plain"
  BY <1>2
<1>6. WellFormed(m)
  BY <1>2, <1>3, <1>4, <1>5 DEF WellFormed
<1>. QED
  BY <1>6

(* A response with data about one object.                                    *)
LEMMA ResponseFits ==
  ASSUME NEW code, NEW tx, NEW e \in DataElements, NEW f \in FormsOf(e), NEW d
  PROVE  WellFormed(WithData(GetEPPResponse(tx, code), e, f, d))
<1>. DEFINE r == GetEPPResponse(tx, code)
<1>1. e # "poll" /\ e # "response" /\ e # "update"
  BY DEF DataElements
<1>2. Fitting(Part(e, f, d)) /\ DOMAIN Part(e, f, d) = {<<e, f>>}
  BY <1>1, FittingPart DEF Apt
<1>3. Fitting(r) /\ DOMAIN r = {<<"response", "plain">>}
  BY FittingPart DEF GetEPPResponse, Apt
<1>. HIDE DEF r
<1>4. Separate(r, Part(e, f, d))
  BY <1>1, <1>2, <1>3 DEF Separate
<1>5. /\ Fitting(r ++ Part(e, f, d))
      /\ DOMAIN (r ++ Part(e, f, d)) = DOMAIN r \cup DOMAIN Part(e, f, d)
  BY <1>2, <1>3, <1>4, FittingJoin
<1>6. DOMAIN (r ++ Part(e, f, d)) # {}
  BY <1>3, <1>5
<1>. QED
  BY <1>5, <1>6, FittingIsWellFormed DEF WithData, r

(* These five commands have a field for each kind of object.                 *)
LEMMA ObjectCommand ==
  ASSUME NEW e \in {"check", "create", "info", "delete", "update"},
         NEW f \in Objects, NEW d, NEW n, NEW tx, Apt(e, f, d)
  PROVE  /\ WellFormed(About(e, <<>>, f, d, tx))
         /\ WellFormed(Stored(e, <<>>, f, d, n, tx))
<1>1. e \in CommandElements \ {"poll"} /\ f \in FormsOf(e)
  BY DEF CommandElements, FormsOf
<1>. QED
  BY <1>1, CommandsFit

(* The checks.                                                               *)
LEMMA ChecksFit ==
  ASSUME NEW n, NEW tx
  PROVE  /\ WellFormed(GetEPPDomainCheck(n, tx))
         /\ WellFormed(GetEPPHostCheck(n, tx))
         /\ WellFormed(GetEPPContactCheck(n, tx))
<1>1. \A f \in Objects : Apt("check", f, n)
  BY DEF Apt
<1>2. \A f \in Objects :
        /\ WellFormed(About("check", <<>>, f, n, tx))
        /\ WellFormed(Stored("check", <<>>, f, n, n, tx))
  BY <1>1, ObjectCommand
<1>. QED
  BY <1>2
  DEF Objects, GetEPPDomainCheck, GetEPPHostCheck, GetEPPContactCheck,
      Envelope, Stored, About, Bare

(* The creates.                                                              *)
LEMMA CreatesFit ==
  ASSUME NEW n, NEW hosts, NEW addrs, NEW tx
  PROVE  /\ WellFormed(GetEPPDomainCreate(n, hosts, tx))
         /\ WellFormed(GetEPPHostCreate(n, addrs, tx))
         /\ WellFormed(GetEPPContactCreate(n, tx))
<1>1. \A f \in Objects : \A d : Apt("create", f, d)
  BY DEF Apt
<1>2. \A f \in Objects : \A d :
        /\ WellFormed(About("create", <<>>, f, d, tx))
        /\ WellFormed(Stored("create", <<>>, f, d, n, tx))
  BY <1>1, ObjectCommand
<1>. QED
  BY <1>2
  DEF Objects, GetEPPDomainCreate, GetEPPHostCreate, GetEPPContactCreate,
      Envelope, Stored, About, Bare

(* The infos.                                                                *)
LEMMA InfosFit ==
  ASSUME NEW n, NEW tx
  PROVE  /\ WellFormed(GetEPPDomainInfo(n, tx))
         /\ WellFormed(GetEPPHostInfo(n, tx))
         /\ WellFormed(GetEPPContactInfo(n, tx))
<1>1. \A f \in Objects : Apt("info", f, n)
  BY DEF Apt
<1>2. \A f \in Objects :
        /\ WellFormed(About("info", <<>>, f, n, tx))
        /\ WellFormed(Stored("info", <<>>, f, n, n, tx))
  BY <1>1, ObjectCommand
<1>. QED
  BY <1>2
  DEF Objects, GetEPPDomainInfo, GetEPPHostInfo, GetEPPContactInfo,
      Envelope, Stored, About, Bare

(* The deletes.                                                              *)
LEMMA DeletesFit ==
  ASSUME NEW n, NEW tx
  PROVE  /\ WellFormed(GetEPPDomainDelete(n, tx))
         /\ WellFormed(GetEPPHostDelete(n, tx))
         /\ WellFormed(GetEPPContactDelete(n, tx))
<1>1. \A f \in Objects : Apt("delete", f, n)
  BY DEF Apt
<1>2. \A f \in Objects :
        /\ WellFormed(About("delete", <<>>, f, n, tx))
        /\ WellFormed(Stored("delete", <<>>, f, n, n, tx))
  BY <1>1, ObjectCommand
<1>. QED
  BY <1>2
  DEF Objects, GetEPPDomainDelete, GetEPPHostDelete, GetEPPContactDelete,
      Envelope, Stored, About, Bare

(* The updates without a further extension.                                  *)
LEMMA UpdatesFit ==
  ASSUME NEW n \in Names, NEW add \in AddRemoves, NEW rem \in AddRemoves,
         NEW chg \in SUBSET ContactChange, NEW tx
  PROVE  /\ WellFormed(GetEPPDomainUpdate(n, add, rem, tx))
         /\ WellFormed(GetEPPHostUpdate(n, add, rem, tx))
         /\ WellFormed(GetEPPContactUpdate(n, add, rem, chg, tx))
<1>. DEFINE k == [name |-> n, add |-> add, rem |-> rem]
            c == [name |-> n, add |-> add, rem |-> rem, chg |-> chg]
<1>1. k \in DomainUpdates /\ c \in ContactUpdates
  BY DEF DomainUpdates, ContactUpdates
<1>2. \A f \in {"domain", "host"} : Apt("update", f, k)
  BY <1>1 DEF Apt
<1>3. Apt("update", "contact", c)
  BY <1>1 DEF Apt
<1>4. \A f \in {"domain", "host"} : WellFormed(Stored("update", <<>>, f, k, n, tx))
  BY <1>2, ObjectCommand DEF Objects
<1>5. WellFormed(About("update", <<>>, "contact", c, tx))
  BY <1>3, ObjectCommand DEF Objects
<1>. QED
  BY <1>4, <1>5
  DEF GetEPPDomainUpdate, GetEPPHostUpdate, GetEPPContactUpdate,
      Envelope, Stored, About, Bare

(* Transfers and renewals.                                                   *)
LEMMA TransfersAndRenewalsFit ==
  ASSUME NEW n, NEW op, NEW tx
  PROVE  /\ WellFormed(GetEPPDomainTransfer(n, op, tx))
         /\ WellFormed(GetEPPContactTransfer(n, op, tx))
         /\ WellFormed(GetEPPDomainRenew(n, tx))
<1>1. /\ "transfer" \in CommandElements \ {"poll"} /\ "renew" \in CommandElements \ {"poll"}
      /\ "domain" \in FormsOf("transfer") /\ "contact" \in FormsOf("transfer")
      /\ "domain" \in FormsOf("renew")
  BY DEF CommandElements, FormsOf
<1>2. /\ Apt("transfer", "domain", n) /\ Apt("transfer", "contact", n)
      /\ Apt("renew", "domain", n)
  BY DEF Apt
<1>3. WellFormed(Stored("transfer", op, "domain", n, n, tx))
  BY <1>1, <1>2, CommandsFit
<1>4. WellFormed(About("transfer", op, "contact", n, tx))
  BY <1>1, <1>2, CommandsFit
<1>5. WellFormed(Stored("renew", <<>>, "domain", n, n, tx))
  BY <1>1, <1>2, CommandsFit
<1>. QED
  BY <1>3, <1>4, <1>5
  DEF GetEPPDomainTransfer, GetEPPContactTransfer, GetEPPDomainRenew,
      Envelope, Stored, About, Bare

(* The messages about no object.                                             *)
LEMMA SessionFits ==
  ASSUME NEW id, NEW tx
  PROVE  /\ WellFormed(GetEPPHello) /\ WellFormed(GetEPPGreeting)
         /\ WellFormed(GetEPPLogin(tx)) /\ WellFormed(GetEPPLoginPasswordChange(tx))
         /\ WellFormed(GetEPPLogout(tx))
         /\ WellFormed(GetEPPPollRequest(tx)) /\ WellFormed(GetEPPPollAcknowledge(id, tx))
<1>1. WellFormed(GetEPPHello) /\ WellFormed(GetEPPGreeting)
  BY LoneMessage DEF GetEPPHello, GetEPPGreeting
<1>2. WellFormed(GetEPPPollRequest(tx)) /\ WellFormed(GetEPPPollAcknowledge(id, tx))
  BY PollFits DEF GetEPPPollRequest, GetEPPPollAcknowledge
<1>3. ASSUME NEW e \in {"login", "logout"}, NEW d
      PROVE  WellFormed(GetEPPCommand(tx) ++ Part(e, "plain", d))
  <2>1. e \in CommandElements \ {"poll"}
    BY DEF CommandElements
  <2>2. Fitting(Bare(e, d, tx)) /\ DOMAIN Bare(e, d, tx) # {}
    BY <2>1, BareFits
  <2>. QED
    BY <2>2, FittingIsWellFormed DEF Bare
<1>. QED
  BY <1>1, <1>2, <1>3
  DEF GetEPPLogin, GetEPPLogout, GetEPPLoginPasswordChange, Envelope

(* The updates with a further extension.                                     *)
LEMMA ExtendedUpdatesFit ==
  ASSUME NEW n \in Names, NEW op, NEW tx
  PROVE  /\ WellFormed(GetEPPDomainSyncUpdate(n, tx))
         /\ WellFormed(GetEPPDomainSecDNSUpdate(n, tx))
         /\ WellFormed(GetEPPDomainRestore(n, op, tx))
BY ExtendedUpdate DEF GetEPPDomainSyncUpdate, GetEPPDomainSecDNSUpdate, GetEPPDomainRestore

(* Whatever names, lists, data and transaction IDs it is given, each         *)
(* constructor of package epp builds a well-formed message: what             *)
(* MessagesAssumption asks of the messages that are sent.                    *)
THEOREM ConstructorsWellFormed ==
  ASSUME NEW n \in Names, NEW add \in AddRemoves, NEW rem \in AddRemoves,
         NEW hosts, NEW addrs, NEW op, NEW id, NEW tx, NEW code,
         NEW chg \in SUBSET ContactChange,
         NEW e \in DataElements, NEW f \in FormsOf(e), NEW d,
         NEW m \in
           {GetEPPHello, GetEPPGreeting, GetEPPLogin(tx), GetEPPLogout(tx),
            GetEPPLoginPasswordChange(tx), GetEPPPollRequest(tx),
            GetEPPPollAcknowledge(id, tx)}
           \cup {GetEPPDomainCheck(n, tx), GetEPPHostCheck(n, tx),
                 GetEPPContactCheck(n, tx)}
           \cup {GetEPPDomainCreate(n, hosts, tx), GetEPPHostCreate(n, addrs, tx),
                 GetEPPContactCreate(n, tx)}
           \cup {GetEPPDomainInfo(n, tx), GetEPPHostInfo(n, tx),
                 GetEPPContactInfo(n, tx)}
           \cup {GetEPPDomainDelete(n, tx), GetEPPHostDelete(n, tx),
                 GetEPPContactDelete(n, tx)}
           \cup {GetEPPDomainUpdate(n, add, rem, tx), GetEPPHostUpdate(n, add, rem, tx),
                 GetEPPContactUpdate(n, add, rem, chg, tx)}
           \cup {GetEPPDomainSyncUpdate(n, tx), GetEPPDomainSecDNSUpdate(n, tx),
                 GetEPPDomainRestore(n, op, tx)}
           \cup {GetEPPDomainTransfer(n, op, tx), GetEPPContactTransfer(n, op, tx),
                 GetEPPDomainRenew(n, tx)}
           \cup {GetEPPResponse(tx, code),
                 WithData(GetEPPResponse(tx, code), e, f, d)}
  PROVE  WellFormed(m)
<1>1. WellFormed(GetEPPResponse(tx, code))
  BY LoneMessage DEF GetEPPResponse
<1>2. WellFormed(WithData(GetEPPResponse(tx, code), e, f, d))
  BY ResponseFits
<1>. QED
  BY <1>1, <1>2, SessionFits, ChecksFit, CreatesFit, InfosFit, DeletesFit, UpdatesFit,
     ExtendedUpdatesFit, TransfersAndRenewalsFit

-----------------------------------------------------------------------------
(* The bytes on a connection, and what was sent and received.                *)

(* A byte on its way; the bytes of a message with its header.                *)
Bytes == [size : Nat, msg : Messages, at : Nat]
Length(m) == HeaderSize + Size(m)

(* The stream is these messages, each encoded right after the one before     *)
(* it: there is a place where each starts, and the last ends the stream.  So *)
(* no induction over the stream is needed to find its first message.         *)
Framed(stream, messages) ==
  \E start \in [1 .. Len(messages) + 1 -> 0 .. Len(stream)] :
    /\ start[1] = 0 /\ start[Len(messages) + 1] = Len(stream)
    /\ \A i, j \in 1 .. Len(messages) + 1 : i <= j => start[i] <= start[j]
    /\ \A k \in 1 .. Len(messages) :
         /\ start[k + 1] = start[k] + Length(messages[k])
         /\ \A i \in 1 .. Length(messages[k]) :
              stream[start[k] + i] = EncodeEPP(messages[k])[i]

(* The messages that were sent and not yet received.                         *)
Outstanding == SubSeq(sent, Len(received) + 1, Len(sent))

(* Type of the variables.                                                    *)
TypeOK ==
  /\ sent \in Seq(Messages)
  /\ network \in Seq(Bytes)
  /\ buffer \in Seq(Bytes)
  /\ received \in Seq({Parsed(m) : m \in Messages})
  /\ listening \in BOOLEAN

(* What was received so far is what was sent first.                          *)
InOrder ==
  /\ Len(received) <= Len(sent)
  /\ \A i \in 1 .. Len(received) : received[i] = Parsed(sent[i])

(* The invariant: while the listener runs, the bytes that it holds and those *)
(* on their way are the messages that are still to come, cut nowhere.        *)
CodecInv ==
  /\ TypeOK
  /\ InOrder
  /\ listening => Framed(buffer \o network, Outstanding)

-----------------------------------------------------------------------------
(* Streams of messages                                                       *)

(* A message has a part, and takes its header's bytes besides.               *)
LEMMA LengthOfMessage ==
  ASSUME NEW m \in Messages
  PROVE  Size(m) \in Nat /\ Size(m) >= 1 /\ Length(m) \in Nat /\ Length(m) > HeaderSize
<1>1. IsFiniteSet(DOMAIN m) /\ DOMAIN m # {}
  BY MessagesAssumption DEF WellFormed
<1>2. Size(m) \in Nat /\ Size(m) # 0
  BY <1>1, FS_CardinalityType, FS_EmptySet DEF Size
<1>. QED
  BY <1>2, HeaderSizeAssumption DEF Length

(* The bytes that EncodeEPP writes.                                          *)
LEMMA EncodedMessage ==
  ASSUME NEW m \in Messages
  PROVE  /\ EncodeEPP(m) \in Seq(Bytes)
         /\ Len(EncodeEPP(m)) = Length(m)
         /\ \A i \in 1 .. Length(m) :
              EncodeEPP(m)[i] = [size |-> Length(m), msg |-> m, at |-> i]
<1>1. EncodeEPP(m) = [i \in 1 .. Length(m) |-> [size |-> Length(m), msg |-> m, at |-> i]]
  BY DEF EncodeEPP, Length
<1>2. \A i \in 1 .. Length(m) : [size |-> Length(m), msg |-> m, at |-> i] \in Bytes
  BY LengthOfMessage DEF Bytes
<1>. QED
  BY <1>1, <1>2, LengthOfMessage

(* An empty stream has no messages.                                          *)
LEMMA FramedEmpty == Framed(<<>>, <<>>)
<1>. DEFINE start == [i \in 1 .. 1 |-> 0]
<1>1. Len(<<>>) = 0 /\ start \in [1 .. 0 + 1 -> 0 .. 0]
  OBVIOUS
<1>2. start[1] = 0
  OBVIOUS
<1>3. \A i, j \in 1 .. 0 + 1 : i <= j => start[i] <= start[j]
  OBVIOUS
<1>. HIDE DEF start
<1>. QED
  BY <1>1, <1>2, <1>3 DEF Framed

(* Writing a message puts it at the end of the stream.                       *)
LEMMA FramedAppend ==
  ASSUME NEW s \in Seq(Bytes), NEW q \in Seq(Messages), NEW m \in Messages,
         Framed(s, q)
  PROVE  Framed(s \o EncodeEPP(m), Append(q, m))
<1>. DEFINE t == s \o EncodeEPP(m)
            r == Append(q, m)
<1>1. PICK start \in [1 .. Len(q) + 1 -> 0 .. Len(s)] :
        /\ start[1] = 0 /\ start[Len(q) + 1] = Len(s)
        /\ \A i, j \in 1 .. Len(q) + 1 : i <= j => start[i] <= start[j]
        /\ \A k \in 1 .. Len(q) :
             /\ start[k + 1] = start[k] + Length(q[k])
             /\ \A i \in 1 .. Length(q[k]) :
                  s[start[k] + i] = EncodeEPP(q[k])[i]
  BY DEF Framed
<1>2. /\ Len(q) \in Nat /\ Len(r) = Len(q) + 1 /\ r[Len(q) + 1] = m
      /\ \A k \in 1 .. Len(q) : r[k] = q[k] /\ q[k] \in Messages
  OBVIOUS
<1>3. /\ Len(s) \in Nat /\ Len(t) = Len(s) + Length(m)
      /\ \A i \in 1 .. Len(s) : t[i] = s[i]
      /\ \A i \in 1 .. Length(m) : t[Len(s) + i] = EncodeEPP(m)[i]
  <2>1. EncodeEPP(m) \in Seq(Bytes) /\ Len(EncodeEPP(m)) = Length(m) /\ Length(m) \in Nat
    BY EncodedMessage, LengthOfMessage
  <2>9. Len(s \o EncodeEPP(m)) = Len(s) + Len(EncodeEPP(m))
    BY <2>1, ConcatProperties
  <2>2. Len(s) \in Nat /\ Len(t) = Len(s) + Length(m)
    BY <2>1, <2>9
  <2>3. \A i \in 1 .. Len(s) : t[i] = s[i]
    BY <2>1
  <2>4. \A i \in 1 .. Length(m) : t[Len(s) + i] = EncodeEPP(m)[i]
    <3>. SUFFICES ASSUME NEW i \in 1 .. Length(m) PROVE t[Len(s) + i] = EncodeEPP(m)[i]
      OBVIOUS
    <3>1. Len(s) + i \in 1 .. (Len(s) + Len(EncodeEPP(m))) /\ ~(Len(s) + i <= Len(s))
          /\ (Len(s) + i) - Len(s) = i
      BY <2>1
    <3>. QED
      BY <2>1, <3>1, ConcatProperties
  <2>. QED
    BY <2>2, <2>3, <2>4
<1>. DEFINE next == [i \in 1 .. Len(r) + 1 |->
                       IF i <= Len(q) + 1 THEN start[i] ELSE Len(t)]
<1>. HIDE DEF t, r
<1>4. \A i \in 1 .. Len(q) + 1 : next[i] = start[i] /\ start[i] \in 0 .. Len(s)
  <2>. SUFFICES ASSUME NEW i \in 1 .. Len(q) + 1
                PROVE  next[i] = start[i] /\ start[i] \in 0 .. Len(s)
    OBVIOUS
  <2>1. i \in 1 .. Len(r) + 1 /\ i <= Len(q) + 1
    BY <1>2
  <2>. QED
    BY <2>1, <1>1
<1>5. next[Len(q) + 2] = Len(t)
  BY <1>2
<1>6. next \in [1 .. Len(r) + 1 -> 0 .. Len(t)]
  BY <1>2, <1>3, <1>4, LengthOfMessage
<1>. HIDE DEF next
<1>7. next[1] = 0 /\ next[Len(r) + 1] = Len(t)
  BY <1>1, <1>2, <1>4, <1>5
<1>8. \A i, j \in 1 .. Len(r) + 1 : i <= j => next[i] <= next[j]
  <2>. SUFFICES ASSUME NEW i \in 1 .. Len(r) + 1, NEW j \in 1 .. Len(r) + 1, i <= j
                PROVE  next[i] <= next[j]
    OBVIOUS
  <2>1. CASE j <= Len(q) + 1
    <3>1. i \in 1 .. Len(q) + 1 /\ j \in 1 .. Len(q) + 1
      BY <2>1, <1>2
    <3>. QED
      BY <3>1, <1>1, <1>4
  <2>2. CASE j > Len(q) + 1
    <3>1. j = Len(q) + 2
      BY <2>2, <1>2
    <3>2. next[i] \in 0 .. Len(t) /\ next[j] = Len(t)
      BY <3>1, <1>5, <1>6
    <3>. QED
      BY <3>2
  <2>. QED
    BY <2>1, <2>2, <1>2
<1>9. ASSUME NEW k \in 1 .. Len(r)
      PROVE  /\ next[k + 1] = next[k] + Length(r[k])
             /\ \A i \in 1 .. Length(r[k]) : t[next[k] + i] = EncodeEPP(r[k])[i]
  <2>1. CASE k <= Len(q)
    <3>1. k \in 1 .. Len(q) /\ k \in 1 .. Len(q) + 1 /\ k + 1 \in 1 .. Len(q) + 1
      BY <2>1, <1>2
    <3>2. next[k + 1] = start[k + 1] /\ next[k] = start[k] /\ r[k] = q[k] /\ q[k] \in Messages
      BY <3>1, <1>2, <1>4
    <3>3. ASSUME NEW i \in 1 .. Length(q[k])
          PROVE  t[start[k] + i] = s[start[k] + i]
      <4>1. start[k] + i \in 1 .. Len(s)
        <5>1. start[k] \in 0 .. Len(s) /\ start[k + 1] \in 0 .. Len(s)
          BY <3>1, <1>4
        <5>2. start[k + 1] = start[k] + Length(q[k]) /\ Length(q[k]) \in Nat
          BY <3>1, <3>2, <1>1, LengthOfMessage
        <5>3. Len(s) \in Nat /\ i \in 1 .. Length(q[k])
          BY <1>3
        <5>. QED
          BY <5>1, <5>2, <5>3
      <4>. QED
        BY <4>1, <1>3
    <3>. QED
      BY <3>1, <3>2, <3>3, <1>1
  <2>2. CASE k = Len(q) + 1
    <3>1. r[k] = m /\ k \in 1 .. Len(q) + 1 /\ k + 1 = Len(q) + 2
      BY <2>2, <1>2
    <3>2. next[k] = Len(s) /\ next[k + 1] = Len(t)
      BY <2>2, <3>1, <1>1, <1>4, <1>5
    <3>. QED
      BY <3>1, <3>2, <1>3
  <2>. QED
    BY <2>1, <2>2, <1>2
<1>. QED
  BY <1>6, <1>7, <1>8, <1>9 DEF Framed, t, r

(* A stream that is not empty starts with its first message.                 *)
LEMMA FramedHead ==
  ASSUME NEW s \in Seq(Bytes), NEW q \in Seq(Messages), Framed(s, q), Len(s) > 0
  PROVE  /\ Len(q) > 0 /\ q[1] \in Messages
         /\ Length(q[1]) <= Len(s)
         /\ \A i \in 1 .. Length(q[1]) : s[i] = EncodeEPP(q[1])[i]
<1>1. PICK start \in [1 .. Len(q) + 1 -> 0 .. Len(s)] :
        /\ start[1] = 0 /\ start[Len(q) + 1] = Len(s)
        /\ \A k \in 1 .. Len(q) :
             /\ start[k + 1] = start[k] + Length(q[k])
             /\ \A i \in 1 .. Length(q[k]) :
                  s[start[k] + i] = EncodeEPP(q[k])[i]
  BY DEF Framed
<1>2. Len(q) \in Nat /\ Len(q) # 0
  BY <1>1
<1>3. 1 \in 1 .. Len(q) /\ 2 \in 1 .. Len(q) + 1 /\ q[1] \in Messages
  BY <1>2
<1>4. start[2] = Length(q[1]) /\ start[2] \in 0 .. Len(s)
  <2>1. start[1 + 1] = start[1] + Length(q[1]) /\ 1 + 1 = 2
    BY <1>1, <1>3
  <2>2. start[2] \in 0 .. Len(s)
    BY <1>3
  <2>. QED
    BY <1>1, <1>3, <2>1, <2>2, LengthOfMessage
<1>5. \A i \in 1 .. Length(q[1]) : s[i] = EncodeEPP(q[1])[i]
  <2>. SUFFICES ASSUME NEW i \in 1 .. Length(q[1]) PROVE s[i] = EncodeEPP(q[1])[i]
    OBVIOUS
  <2>1. s[start[1] + i] = EncodeEPP(q[1])[i]
    BY <1>1, <1>3
  <2>2. start[1] + i = i
    BY <1>1, <1>3, LengthOfMessage
  <2>. QED
    BY <2>1, <2>2
<1>. QED
  BY <1>2, <1>3, <1>4, <1>5

(* Without the bytes of that, it is a stream of the others.                  *)
LEMMA FramedTail ==
  ASSUME NEW s \in Seq(Bytes), NEW q \in Seq(Messages), Framed(s, q), Len(s) > 0
  PROVE  Framed(SubSeq(s, Length(q[1]) + 1, Len(s)), Tail(q))
<1>. DEFINE n == Length(q[1])
            t == SubSeq(s, n + 1, Len(s))
            r == Tail(q)
<1>1. PICK start \in [1 .. Len(q) + 1 -> 0 .. Len(s)] :
        /\ start[1] = 0 /\ start[Len(q) + 1] = Len(s)
        /\ \A i, j \in 1 .. Len(q) + 1 : i <= j => start[i] <= start[j]
        /\ \A k \in 1 .. Len(q) :
             /\ start[k + 1] = start[k] + Length(q[k])
             /\ \A i \in 1 .. Length(q[k]) :
                  s[start[k] + i] = EncodeEPP(q[k])[i]
  BY DEF Framed
<1>2. Len(q) \in Nat /\ Len(q) > 0 /\ q[1] \in Messages /\ n <= Len(s)
  BY FramedHead
<1>3. n \in Nat /\ n > 0 /\ Len(s) \in Nat
  BY <1>2, LengthOfMessage, HeaderSizeAssumption
<1>4. start[2] = n
  BY <1>1, <1>2, LengthOfMessage
<1>5. /\ Len(t) = Len(s) - n
      /\ \A i \in 1 .. Len(s) - n : t[i] = s[n + i]
  BY <1>2, <1>3
<1>6. /\ Len(r) = Len(q) - 1
      /\ \A k \in 1 .. Len(q) - 1 : r[k] = q[k + 1] /\ q[k + 1] \in Messages
  BY <1>2
<1>. DEFINE next == [i \in 1 .. Len(r) + 1 |-> start[i + 1] - n]
<1>. HIDE DEF t, r, n
<1>7. \A i \in 1 .. Len(q) : /\ start[i + 1] \in n .. Len(s)
                              /\ next[i] = start[i + 1] - n
                              /\ next[i] + n = start[i + 1]
  <2>. SUFFICES ASSUME NEW i \in 1 .. Len(q)
                PROVE  /\ start[i + 1] \in n .. Len(s)
                       /\ next[i] = start[i + 1] - n
                       /\ next[i] + n = start[i + 1]
    OBVIOUS
  <2>1. i + 1 \in 1 .. Len(q) + 1 /\ 2 \in 1 .. Len(q) + 1 /\ 2 <= i + 1
    BY <1>2
  <2>2. start[2] <= start[i + 1] /\ start[i + 1] \in 0 .. Len(s)
    BY <2>1, <1>1
  <2>3. next[i] = start[i + 1] - n
    BY <1>6, <1>2
  <2>. QED
    BY <2>2, <2>3, <1>3, <1>4
<1>8. next \in [1 .. Len(r) + 1 -> 0 .. Len(t)]
  BY <1>2, <1>3, <1>5, <1>6, <1>7
<1>. HIDE DEF next
<1>9. next[1] = 0 /\ next[Len(r) + 1] = Len(t)
  BY <1>1, <1>2, <1>3, <1>4, <1>5, <1>6, <1>7
<1>10. \A i, j \in 1 .. Len(r) + 1 : i <= j => next[i] <= next[j]
  <2>. SUFFICES ASSUME NEW i \in 1 .. Len(r) + 1, NEW j \in 1 .. Len(r) + 1, i <= j
                PROVE  next[i] <= next[j]
    OBVIOUS
  <2>1. i \in 1 .. Len(q) /\ j \in 1 .. Len(q)
    BY <1>2, <1>6
  <2>2. i + 1 \in 1 .. Len(q) + 1 /\ j + 1 \in 1 .. Len(q) + 1 /\ i + 1 <= j + 1
    BY <2>1, <1>2
  <2>3. start[i + 1] <= start[j + 1]
    BY <2>2, <1>1
  <2>. QED
    BY <2>1, <2>3, <1>3, <1>7
<1>11. ASSUME NEW k \in 1 .. Len(r)
       PROVE  /\ next[k + 1] = next[k] + Length(r[k])
              /\ \A i \in 1 .. Length(r[k]) : t[next[k] + i] = EncodeEPP(r[k])[i]
  <2>1. k \in 1 .. Len(q) - 1 /\ k \in 1 .. Len(q) /\ k + 1 \in 1 .. Len(q)
    BY <1>2, <1>6
  <2>2. r[k] = q[k + 1] /\ q[k + 1] \in Messages /\ Length(r[k]) \in Nat
    BY <2>1, <1>6, LengthOfMessage
  <2>3. start[k + 2] = start[k + 1] + Length(r[k])
    BY <2>1, <2>2, <1>1
  <2>4. next[k + 1] = start[k + 2] - n /\ start[k + 2] \in n .. Len(s)
    BY <2>1, <1>7
  <2>5. next[k] = start[k + 1] - n /\ start[k + 1] \in n .. Len(s)
    BY <2>1, <1>7
  <2>6. ASSUME NEW i \in 1 .. Length(r[k])
        PROVE  t[next[k] + i] = EncodeEPP(r[k])[i]
    <3>1. next[k] + i \in 1 .. Len(s) - n /\ n + (next[k] + i) = start[k + 1] + i
      <4>1. ASSUME NEW a \in n .. Len(s), NEW b \in n .. Len(s), NEW l \in Nat,
                   b = a + l, i \in 1 .. l
            PROVE  (a - n) + i \in 1 .. Len(s) - n /\ n + ((a - n) + i) = a + i
        BY <4>1, <1>3
      <4>. QED
        BY <4>1, <2>2, <2>3, <2>4, <2>5
    <3>2. s[start[k + 1] + i] = EncodeEPP(q[k + 1])[i]
      BY <2>1, <2>2, <1>1
    <3>. QED
      BY <3>1, <3>2, <2>2, <1>5
  <2>. QED
    BY <2>2, <2>3, <2>4, <2>5, <2>6, <1>3
<1>. QED
  BY <1>8, <1>9, <1>10, <1>11 DEF Framed, t, r, n

(* Bytes after bytes are bytes.                                              *)
LEMMA ConcatBytes ==
  ASSUME NEW b \in Seq(Bytes), NEW w \in Seq(Bytes)
  PROVE  b \o w \in Seq(Bytes)
BY ConcatProperties

(* It does not matter in which pieces they come.                             *)
LEMMA ConcatBytesAssociative ==
  ASSUME NEW b \in Seq(Bytes), NEW w \in Seq(Bytes), NEW v \in Seq(Bytes)
  PROVE  (b \o w) \o v = b \o (w \o v)
BY ConcatAssociative, SMTT(60)

(* Reading some bytes from the network leaves the stream as it is.           *)
LEMMA ReadKeepsStream ==
  ASSUME NEW b \in Seq(Bytes), NEW w \in Seq(Bytes), NEW n \in 1 .. Len(w)
  PROVE  /\ b \o SubSeq(w, 1, n) \in Seq(Bytes)
         /\ SubSeq(w, n + 1, Len(w)) \in Seq(Bytes)
         /\ (b \o SubSeq(w, 1, n)) \o SubSeq(w, n + 1, Len(w)) = b \o w
<1>1. /\ 1 \in 1 .. Len(w) + 1 /\ n \in 0 .. Len(w) /\ Len(w) \in n .. Len(w)
      /\ n \in 1 - 1 .. Len(w)
  OBVIOUS
<1>2. SubSeq(w, 1, n) \o SubSeq(w, n + 1, Len(w)) = SubSeq(w, 1, Len(w))
  BY <1>1, ConcatAdjacentSubSeq
<1>3. SubSeq(w, 1, Len(w)) = w
  BY SubSeqFull
<1>4. SubSeq(w, 1, n) \in Seq(Bytes) /\ SubSeq(w, n + 1, Len(w)) \in Seq(Bytes)
  OBVIOUS
<1>5. (b \o SubSeq(w, 1, n)) \o SubSeq(w, n + 1, Len(w))
        = b \o (SubSeq(w, 1, n) \o SubSeq(w, n + 1, Len(w)))
  BY <1>4, ConcatBytesAssociative
<1>6. b \o SubSeq(w, 1, n) \in Seq(Bytes)
  BY <1>4, ConcatBytes
<1>. QED
  BY <1>2, <1>3, <1>4, <1>5, <1>6, Zenon

(* What is dropped at the head of the buffer is dropped from the stream.     *)
LEMMA ScanDropsToken ==
  ASSUME NEW b \in Seq(Bytes), NEW w \in Seq(Bytes), NEW n \in 1 .. Len(b)
  PROVE  /\ SubSeq(b, n + 1, Len(b)) \in Seq(Bytes)
         /\ SubSeq(b, n + 1, Len(b)) \o w = SubSeq(b \o w, n + 1, Len(b \o w))
<1>. DEFINE c == SubSeq(b, n + 1, Len(b))
            s == b \o w
            t == SubSeq(s, n + 1, Len(s))
<1>1. /\ c \in Seq(Bytes) /\ Len(c) = Len(b) - n
      /\ \A i \in 1 .. Len(b) - n : c[i] = b[n + i]
  OBVIOUS
<1>2. /\ s \in Seq(Bytes) /\ Len(s) = Len(b) + Len(w)
      /\ \A i \in 1 .. Len(b) + Len(w) :
           s[i] = IF i <= Len(b) THEN b[i] ELSE w[i - Len(b)]
  BY ConcatProperties
<1>3. /\ c \o w \in Seq(Bytes) /\ Len(c \o w) = Len(b) - n + Len(w)
      /\ \A i \in 1 .. Len(c) + Len(w) :
           (c \o w)[i] = IF i <= Len(c) THEN c[i] ELSE w[i - Len(c)]
  <2>1. c \o w \in Seq(Bytes) /\ Len(c \o w) = Len(c) + Len(w)
    BY <1>1, ConcatProperties
  <2>2. \A i \in 1 .. Len(c) + Len(w) :
           (c \o w)[i] = IF i <= Len(c) THEN c[i] ELSE w[i - Len(c)]
    BY <1>1, ConcatProperties
  <2>. QED
    BY <1>1, <2>1, <2>2
<1>. HIDE DEF c, s
<1>4. /\ t \in Seq(Bytes) /\ Len(t) = Len(s) - n
      /\ \A i \in 1 .. Len(s) - n : t[i] = s[n + i]
  BY <1>2
<1>. HIDE DEF t
<1>5. \A i \in 1 .. Len(c \o w) : (c \o w)[i] = t[i]
  <2>. SUFFICES ASSUME NEW i \in 1 .. Len(c \o w) PROVE (c \o w)[i] = t[i]
    OBVIOUS
  <2>0. Len(b) \in Nat /\ Len(w) \in Nat /\ n \in Nat /\ n <= Len(b)
    OBVIOUS
  <2>1. i \in 1 .. Len(c) + Len(w) /\ i \in 1 .. Len(s) - n /\ n + i \in 1 .. Len(b) + Len(w)
    BY <2>0, <1>1, <1>2, <1>3
  <2>2. t[i] = s[n + i]
    BY <2>1, <1>4
  <2>3. CASE i <= Len(c)
    BY <2>0, <2>1, <2>2, <2>3, <1>1, <1>2, <1>3
  <2>4. CASE ~(i <= Len(c))
    <3>1. ~(n + i <= Len(b)) /\ i - Len(c) = (n + i) - Len(b)
      BY <2>0, <2>1, <2>4, <1>1
    <3>2. (c \o w)[i] = w[i - Len(c)]
      BY <2>1, <2>4, <1>3
    <3>3. s[n + i] = w[(n + i) - Len(b)]
      BY <2>1, <3>1, <1>2
    <3>. QED
      BY <2>2, <3>1, <3>2, <3>3
  <2>. QED
    BY <2>3, <2>4
<1>6. Len(c \o w) = Len(t)
  BY <1>1, <1>2, <1>3, <1>4
<1>7. c \o w = t
  BY <1>3, <1>4, <1>5, <1>6, SeqEqual
<1>. QED
  BY <1>1, <1>7 DEF c, s, t

(* The messages to come, when one more is sent.                              *)
LEMMA OutstandingGrows ==
  ASSUME NEW s \in Seq(Messages), NEW m \in Messages, NEW k \in 0 .. Len(s)
  PROVE  SubSeq(Append(s, m), k + 1, Len(Append(s, m)))
           = Append(SubSeq(s, k + 1, Len(s)), m)
<1>. DEFINE u == Append(s, m)
            q == SubSeq(s, k + 1, Len(s))
            t == SubSeq(u, k + 1, Len(u))
            r == Append(q, m)
<1>1. /\ u \in Seq(Messages) /\ Len(u) = Len(s) + 1 /\ u[Len(s) + 1] = m
      /\ \A i \in 1 .. Len(s) : u[i] = s[i]
  BY AppendProperties
<1>2. /\ q \in Seq(Messages) /\ Len(q) = Len(s) - k
      /\ \A i \in 1 .. Len(s) - k : q[i] = s[k + i]
  OBVIOUS
<1>. HIDE DEF u, q
<1>3. /\ r \in Seq(Messages) /\ Len(r) = Len(q) + 1 /\ r[Len(q) + 1] = m
      /\ \A i \in 1 .. Len(q) : r[i] = q[i]
  BY <1>2, AppendProperties
<1>. HIDE DEF r
<1>4. /\ t \in Seq(Messages) /\ Len(t) = Len(u) - k
      /\ \A i \in 1 .. Len(u) - k : t[i] = u[k + i]
  BY <1>1
<1>. HIDE DEF t
<1>5. Len(t) = Len(r)
  BY <1>1, <1>2, <1>3, <1>4
<1>6. \A i \in 1 .. Len(t) : t[i] = r[i]
  <2>. SUFFICES ASSUME NEW i \in 1 .. Len(t) PROVE t[i] = r[i]
    OBVIOUS
  <2>1. Len(s) \in Nat /\ k \in Nat /\ k <= Len(s)
    OBVIOUS
  <2>2. CASE i <= Len(s) - k
    BY <2>1, <2>2, <1>1, <1>2, <1>3, <1>4
  <2>3. CASE i = Len(s) - k + 1
    BY <2>1, <2>3, <1>1, <1>2, <1>3, <1>4
  <2>. QED
    BY <2>1, <2>2, <2>3, <1>1, <1>4
<1>7. t = r
  BY <1>3, <1>4, <1>5, <1>6, SeqEqual
<1>. QED
  BY <1>7 DEF t, r, q, u

(* The messages to come, when one is received.                               *)
LEMMA OutstandingShrinks ==
  ASSUME NEW s \in Seq(Messages), NEW k \in 0 .. Len(s) - 1
  PROVE  /\ SubSeq(s, k + 1, Len(s)) \in Seq(Messages)
         /\ SubSeq(s, k + 1, Len(s))[1] = s[k + 1]
         /\ SubSeq(s, (k + 1) + 1, Len(s)) = Tail(SubSeq(s, k + 1, Len(s)))
<1>1. k + 1 \in 1 .. Len(s) /\ Len(s) \in k + 1 .. Len(s)
  OBVIOUS
<1>2. Tail(SubSeq(s, k + 1, Len(s))) = SubSeq(s, (k + 1) + 1, Len(s))
  BY <1>1, HeadTailOfSubSeq
<1>3. SubSeq(s, k + 1, Len(s)) \in Seq(Messages) /\ SubSeq(s, k + 1, Len(s))[1] = s[k + 1]
  BY <1>1
<1>. QED
  BY <1>2, <1>3

(* What WireSplit finds in the buffer is the first message of the stream,    *)
(* whole, wherever the network cut the bytes.                                *)
LEMMA TokenIsMessage ==
  ASSUME NEW b \in Seq(Bytes), NEW w \in Seq(Bytes), NEW q \in Seq(Messages),
         Framed(b \o w, q), WireSplit(b).advance > 0
  PROVE  /\ Len(q) > 0 /\ q[1] \in Messages
         /\ WireSplit(b).advance = Length(q[1])
         /\ Length(q[1]) \in 1 .. Len(b) /\ Len(b \o w) > 0
         /\ Whole(WireSplit(b).token)
         /\ WireSplit(b).token[1].msg = q[1]
<1>1. /\ Len(b) >= HeaderSize /\ Len(b) >= b[1].size
      /\ WireSplit(b) = [advance |-> b[1].size,
                         token |-> SubSeq(b, HeaderSize + 1, b[1].size)]
  <2>1. CASE Len(b) < HeaderSize \/ Len(b) < b[1].size
    <3>1. WireSplit(b).advance = 0
      BY <2>1 DEF WireSplit
    <3>. QED
      BY <3>1
  <2>2. CASE ~(Len(b) < HeaderSize \/ Len(b) < b[1].size)
    <3>1. Len(b) \in Nat /\ 1 \in 1 .. Len(b)
      BY <2>2, HeaderSizeAssumption
    <3>2. b[1] \in Bytes
      BY <3>1
    <3>3. b[1].size \in Nat
      BY <3>2 DEF Bytes
    <3>. QED
      BY <2>2, <3>1, <3>3, HeaderSizeAssumption DEF WireSplit
  <2>. QED
    BY <2>1, <2>2
<1>2. /\ Len(b) \in Nat /\ Len(b) > 0 /\ Len(w) \in Nat /\ b \o w \in Seq(Bytes)
      /\ Len(b \o w) = Len(b) + Len(w)
      /\ \A i \in 1 .. Len(b) : (b \o w)[i] = b[i]
  <2>1. b \o w \in Seq(Bytes) /\ Len(b \o w) = Len(b) + Len(w)
    BY ConcatProperties
  <2>2. Len(b) \in Nat /\ Len(w) \in Nat
    OBVIOUS
  <2>3. \A i \in 1 .. Len(b) : (b \o w)[i] = b[i]
    BY <2>2, ConcatProperties
  <2>. QED
    BY <1>1, <2>1, <2>2, <2>3, HeaderSizeAssumption
<1>3. /\ Len(q) > 0 /\ q[1] \in Messages
      /\ \A i \in 1 .. Length(q[1]) : (b \o w)[i] = EncodeEPP(q[1])[i]
  <2>. DEFINE s == b \o w
  <2>1. s \in Seq(Bytes) /\ Framed(s, q) /\ Len(s) > 0
    BY <1>2
  <2>. HIDE DEF s
  <2>2. /\ Len(q) > 0 /\ q[1] \in Messages
        /\ \A i \in 1 .. Length(q[1]) : s[i] = EncodeEPP(q[1])[i]
    BY <2>1, FramedHead
  <2>. QED
    BY <2>2 DEF s
<1>. DEFINE m == q[1]
<1>4. Length(m) \in Nat /\ Length(m) > HeaderSize /\ Size(m) \in Nat /\ Size(m) >= 1
  BY <1>3, LengthOfMessage
<1>5. \A i \in 1 .. Length(m) :
        EncodeEPP(m)[i] = [size |-> Length(m), msg |-> m, at |-> i]
  BY <1>3, EncodedMessage
<1>6. b[1].size = Length(m)
  <2>1. 1 \in 1 .. Len(b) /\ 1 \in 1 .. Length(m)
    BY <1>2, <1>4, HeaderSizeAssumption
  <2>2. b[1] = [size |-> Length(m), msg |-> m, at |-> 1]
    BY <2>1, <1>2, <1>3, <1>5
  <2>. QED
    BY <2>2
<1>. DEFINE token == SubSeq(b, HeaderSize + 1, Length(m))
<1>7. /\ Len(token) = Size(m)
      /\ \A i \in 1 .. Size(m) : token[i] = b[HeaderSize + i]
  <2>1. Length(m) = HeaderSize + Size(m) /\ HeaderSize \in Nat
    BY HeaderSizeAssumption DEF Length
  <2>2. \A i \in HeaderSize + 1 .. Length(m) : b[i] \in Bytes
    BY <1>1, <1>4, <1>6, HeaderSizeAssumption
  <2>3. /\ Len(token) = IF HeaderSize + 1 <= Length(m)
                        THEN Length(m) - (HeaderSize + 1) + 1 ELSE 0
        /\ \A i \in 1 .. Length(m) - (HeaderSize + 1) + 1 :
             token[i] = b[(HeaderSize + 1) + i - 1]
    <3>1. HeaderSize + 1 \in Int /\ Length(m) \in Int
      BY <1>4, HeaderSizeAssumption
    <3>. QED
      BY <2>2, <3>1, SubSeqProperties
  <2>. HIDE DEF token, m
  <2>. QED
    BY <2>1, <2>3, <1>4
<1>8. \A i \in 1 .. Size(m) :
        token[i] = [size |-> Length(m), msg |-> m, at |-> HeaderSize + i]
  <2>. SUFFICES ASSUME NEW i \in 1 .. Size(m)
                PROVE  token[i] = [size |-> Length(m), msg |-> m, at |-> HeaderSize + i]
    OBVIOUS
  <2>9. Length(m) = HeaderSize + Size(m) /\ Length(m) <= Len(b)
    BY <1>1, <1>6 DEF Length
  <2>1. HeaderSize + i \in 1 .. Length(m) /\ HeaderSize + i \in 1 .. Len(b)
    <3>. HIDE DEF m
    <3>. QED
      BY <2>9, <1>2, <1>4, HeaderSizeAssumption
  <2>. QED
    BY <2>1, <1>2, <1>3, <1>5, <1>7
<1>. HIDE DEF token, m
<1>9. token[1].msg = m
  <2>1. 1 \in 1 .. Size(m)
    BY <1>4
  <2>2. token[1] = [size |-> Length(m), msg |-> m, at |-> HeaderSize + 1]
    BY <2>1, <1>8
  <2>. QED
    BY <2>2
<1>10. Whole(token)
  BY <1>4, <1>7, <1>8, <1>9 DEF Whole
<1>11. WireSplit(b) = [advance |-> Length(m), token |-> token]
  BY <1>1, <1>6 DEF token
<1>12. Length(m) \in 1 .. Len(b)
  BY <1>1, <1>2, <1>4, <1>6, HeaderSizeAssumption
<1>. QED
  BY <1>2, <1>3, <1>9, <1>10, <1>11, <1>12 DEF m

-----------------------------------------------------------------------------
(* The invariant                                                             *)

(* It holds when nothing was sent.                                           *)
LEMMA CodecInitial == Init => CodecInv
<1>. SUFFICES ASSUME Init PROVE CodecInv
  OBVIOUS
<1>1. sent = <<>> /\ network = <<>> /\ buffer = <<>> /\ received = <<>> /\ listening = TRUE
  BY DEF Init
<1>2. TypeOK /\ InOrder
  BY <1>1 DEF TypeOK, InOrder
<1>3. buffer \o network = <<>> /\ Outstanding = <<>>
  <2>1. Len(<<>>) = 0 /\ <<>> \in Seq(Bytes)
    OBVIOUS
  <2>2. SubSeq(<<>>, 0 + 1, 0) = <<>>
    BY SubSeqEmpty
  <2>3. <<>> \o <<>> = <<>>
    BY <2>1, ConcatEmptySeq
  <2>. QED
    BY <1>1, <2>1, <2>2, <2>3 DEF Outstanding
<1>. QED
  BY <1>2, <1>3, FramedEmpty DEF CodecInv

(* A message that is sent goes to the end of the stream.                     *)
LEMMA SendStep ==
  ASSUME CodecInv, NEW m \in Messages, Send(m)
  PROVE  CodecInv'
<1>1. /\ sent' = Append(sent, m) /\ network' = network \o EncodeEPP(m)
      /\ UNCHANGED <<buffer, received, listening>>
  BY DEF Send
<1>2. /\ sent \in Seq(Messages) /\ network \in Seq(Bytes) /\ buffer \in Seq(Bytes)
      /\ Len(received) \in 0 .. Len(sent) /\ EncodeEPP(m) \in Seq(Bytes)
  BY EncodedMessage DEF CodecInv, TypeOK, InOrder
<1>3. TypeOK'
  <2>1. sent' \in Seq(Messages)
    BY <1>1, <1>2, AppendProperties
  <2>2. network' \in Seq(Bytes)
    BY <1>1, <1>2, ConcatBytes
  <2>. QED
    BY <1>1, <2>1, <2>2 DEF CodecInv, TypeOK
<1>4. InOrder'
  <2>1. /\ Len(sent') = Len(sent) + 1
        /\ \A i \in 1 .. Len(sent) : sent'[i] = sent[i]
    BY <1>1, <1>2
  <2>. QED
    BY <2>1, <1>1, <1>2 DEF CodecInv, InOrder
<1>5. ASSUME listening' PROVE Framed((buffer \o network)', Outstanding')
  <2>1. Framed(buffer \o network, Outstanding)
    BY <1>1, <1>5 DEF CodecInv
  <2>2. Outstanding' = Append(Outstanding, m)
    BY <1>1, <1>2, OutstandingGrows DEF Outstanding
  <2>3. (buffer \o network)' = (buffer \o network) \o EncodeEPP(m)
    <3>1. (buffer \o network) \o EncodeEPP(m) = buffer \o (network \o EncodeEPP(m))
      BY <1>2, ConcatBytesAssociative
    <3>. QED
      BY <1>1, <3>1
  <2>4. buffer \o network \in Seq(Bytes) /\ Outstanding \in Seq(Messages)
    BY <1>2, ConcatBytes DEF Outstanding
  <2>. QED
    BY <2>1, <2>2, <2>3, <2>4, FramedAppend
<1>. QED
  BY <1>3, <1>4, <1>5 DEF CodecInv

(* Reading does not change the stream.                                       *)
LEMMA ReadStep ==
  ASSUME CodecInv, NEW n \in 1 .. MaxToken, Read(n)
  PROVE  CodecInv'
<1>1. /\ n \in 1 .. Len(network)
      /\ buffer' = buffer \o SubSeq(network, 1, n)
      /\ network' = SubSeq(network, n + 1, Len(network))
      /\ UNCHANGED <<sent, received, listening>>
  BY DEF Read
<1>2. network \in Seq(Bytes) /\ buffer \in Seq(Bytes)
  BY DEF CodecInv, TypeOK
<1>3. /\ buffer' \in Seq(Bytes) /\ network' \in Seq(Bytes)
      /\ (buffer \o network)' = buffer \o network
  BY <1>1, <1>2, ReadKeepsStream
<1>4. TypeOK' /\ InOrder'
  BY <1>1, <1>3 DEF CodecInv, TypeOK, InOrder
<1>5. Outstanding' = Outstanding
  BY <1>1 DEF Outstanding
<1>. QED
  BY <1>1, <1>3, <1>4, <1>5 DEF CodecInv

(* A scan takes the oldest message that was not received from the stream: it *)
(* puts it out, or ends the listener with it.                                *)
LEMMA ScanEffect ==
  ASSUME CodecInv, Scan
  PROVE  /\ Len(received) < Len(sent)
         /\ buffer' \in Seq(Bytes)
         /\ listening /\ UNCHANGED <<sent, network>>
         /\ IF Panics(sent[Len(received) + 1])
            THEN listening' = FALSE /\ UNCHANGED received
            ELSE /\ received' = Append(received, Parsed(sent[Len(received) + 1]))
                 /\ Framed((buffer \o network)', Outstanding')
                 /\ listening' = listening
<1>1. /\ listening /\ WireSplit(buffer).advance > 0
      /\ buffer' = SubSeq(buffer, WireSplit(buffer).advance + 1, Len(buffer))
      /\ UNCHANGED <<sent, network>>
      /\ IF Whole(WireSplit(buffer).token) /\ ~Panics(WireSplit(buffer).token[1].msg)
         THEN /\ received' = Append(received, Parsed(WireSplit(buffer).token[1].msg))
              /\ UNCHANGED listening
         ELSE listening' = FALSE /\ UNCHANGED received
  BY DEF Scan
<1>2. /\ sent \in Seq(Messages) /\ network \in Seq(Bytes) /\ buffer \in Seq(Bytes)
      /\ Len(received) \in 0 .. Len(sent)
      /\ Framed(buffer \o network, Outstanding)
  BY <1>1 DEF CodecInv, TypeOK, InOrder
<1>3. Outstanding \in Seq(Messages) /\ Len(Outstanding) = Len(sent) - Len(received)
  BY <1>2 DEF Outstanding
<1>4. /\ Len(Outstanding) > 0
      /\ WireSplit(buffer).advance = Length(Outstanding[1])
      /\ Length(Outstanding[1]) \in 1 .. Len(buffer) /\ Len(buffer \o network) > 0
      /\ Whole(WireSplit(buffer).token)
      /\ WireSplit(buffer).token[1].msg = Outstanding[1]
  BY <1>1, <1>2, <1>3, TokenIsMessage
<1>5. Len(received) \in 0 .. Len(sent) - 1
  BY <1>2, <1>3, <1>4
<1>6. /\ Outstanding[1] = sent[Len(received) + 1]
      /\ SubSeq(sent, (Len(received) + 1) + 1, Len(sent)) = Tail(Outstanding)
  BY <1>2, <1>5, OutstandingShrinks DEF Outstanding
<1>7. CASE Panics(sent[Len(received) + 1])
  <2>1. listening' = FALSE /\ UNCHANGED received
    BY <1>1, <1>4, <1>6, <1>7, Zenon
  <2>2. buffer' \in Seq(Bytes)
    BY <1>1, <1>2, <1>4, ScanDropsToken, ZenonT(30)
  <2>. QED
    BY <1>1, <1>5, <1>7, <2>1, <2>2
<1>8. CASE ~Panics(sent[Len(received) + 1])
  <2>1. /\ received' = Append(received, Parsed(sent[Len(received) + 1]))
        /\ listening' = listening
    BY <1>1, <1>4, <1>6, <1>8, Zenon
  <2>2. Outstanding' = Tail(Outstanding)
    <3>1. Len(received') = Len(received) + 1
      BY <2>1 DEF CodecInv, TypeOK
    <3>. QED
      BY <3>1, <1>1, <1>6 DEF Outstanding
  <2>3. /\ buffer' \in Seq(Bytes)
        /\ (buffer \o network)'
             = SubSeq(buffer \o network, Length(Outstanding[1]) + 1, Len(buffer \o network))
    BY <1>1, <1>2, <1>4, ScanDropsToken, ZenonT(30)
  <2>4. Framed((buffer \o network)', Outstanding')
    <3>1. buffer \o network \in Seq(Bytes)
      BY <1>2, ConcatBytes
    <3>. QED
      BY <3>1, <1>2, <1>3, <1>4, <2>2, <2>3, FramedTail
  <2>. QED
    BY <1>1, <1>5, <1>8, <2>1, <2>3, <2>4
<1>. QED
  BY <1>7, <1>8

(* The message a scan puts out is the next in order.                         *)
LEMMA ScanPutsOut ==
  ASSUME CodecInv, Scan, ~Panics(sent[Len(received) + 1])
  PROVE  CodecInv'
<1>1. /\ Len(received) < Len(sent) /\ buffer' \in Seq(Bytes)
      /\ received' = Append(received, Parsed(sent[Len(received) + 1]))
      /\ Framed((buffer \o network)', Outstanding')
      /\ listening' = listening /\ UNCHANGED <<sent, network>>
  BY ScanEffect
<1>2. received \in Seq({Parsed(m) : m \in Messages}) /\ sent \in Seq(Messages)
  BY DEF CodecInv, TypeOK
<1>3. Parsed(sent[Len(received) + 1]) \in {Parsed(m) : m \in Messages}
  <2>1. Len(received) + 1 \in 1 .. Len(sent)
    BY <1>1, <1>2
  <2>. QED
    BY <2>1, <1>2
<1>4. TypeOK'
  <2>1. received' \in Seq({Parsed(m) : m \in Messages})
    BY <1>1, <1>2, <1>3, AppendProperties
  <2>. QED
    BY <1>1, <2>1 DEF CodecInv, TypeOK
<1>5. InOrder'
  <2>1. /\ Len(received') = Len(received) + 1 /\ Len(received) \in Nat /\ Len(sent) \in Nat
        /\ \A i \in 1 .. Len(received) : received'[i] = received[i]
        /\ received'[Len(received) + 1] = Parsed(sent[Len(received) + 1])
    BY <1>1, <1>2, <1>3, AppendProperties
  <2>. QED
    BY <2>1, <1>1 DEF CodecInv, InOrder
<1>. QED
  BY <1>1, <1>4, <1>5 DEF CodecInv

(* The listener that returned promises only what it put out.                 *)
LEMMA EndStep ==
  ASSUME CodecInv, listening' = FALSE, UNCHANGED <<sent, received>>,
         network' \in Seq(Bytes), buffer' \in Seq(Bytes)
  PROVE  CodecInv'
BY DEF CodecInv, TypeOK, InOrder

(* A scan keeps the invariant.                                               *)
LEMMA ScanStep ==
  ASSUME CodecInv, Scan
  PROVE  CodecInv'
<1>1. CASE Panics(sent[Len(received) + 1])
  <2>1. /\ listening' = FALSE /\ UNCHANGED <<sent, received, network>>
        /\ buffer' \in Seq(Bytes)
    BY <1>1, ScanEffect
  <2>2. network' \in Seq(Bytes)
    BY <2>1 DEF CodecInv, TypeOK
  <2>. QED
    BY <2>1, <2>2, EndStep
<1>. QED
  BY <1>1, ScanPutsOut

(* So do the listener's ends that are no scan.                               *)
LEMMA CloseStep ==
  ASSUME CodecInv, TooLong \/ Close
  PROVE  CodecInv'
<1>1. /\ listening' = FALSE /\ UNCHANGED <<sent, received>>
      /\ network' \in {network, <<>>} /\ buffer' \in {buffer, <<>>}
  BY DEF TooLong, Close
<1>2. network \in Seq(Bytes) /\ buffer \in Seq(Bytes) /\ <<>> \in Seq(Bytes)
  BY DEF CodecInv, TypeOK
<1>3. network' \in Seq(Bytes) /\ buffer' \in Seq(Bytes)
  BY <1>1, <1>2
<1>. QED
  BY <1>1, <1>3, EndStep

(* Every step keeps the invariant.                                           *)
LEMMA CodecStep == CodecInv /\ [Next]_vars => CodecInv'
<1>. SUFFICES ASSUME CodecInv, [Next]_vars PROVE CodecInv'
  OBVIOUS
<1>1. CASE UNCHANGED vars
  BY <1>1 DEF vars, CodecInv, TypeOK, InOrder, Outstanding
<1>2. CASE \E m \in Messages : Send(m)
  BY <1>2, SendStep
<1>3. CASE \E n \in 1 .. MaxToken : Read(n)
  BY <1>3, ReadStep
<1>4. CASE Scan
  BY <1>4, ScanStep
<1>5. CASE TooLong \/ Close
  BY <1>5, CloseStep
<1>. QED
  BY <1>1, <1>2, <1>3, <1>4, <1>5 DEF Next

(* For every size of the header and of the Scanner's buffer, and every set   *)
(* of messages that constructors make: the bytes in the buffer and on the    *)
(* network are always the messages to come, and what was received is what    *)
(* was sent, in order.                                                       *)
THEOREM CodecInvariant == Spec => []CodecInv
BY CodecInitial, CodecStep, PTL DEF Spec

(* A buffer that holds bytes of a stream and no message of it is shorter     *)
(* than the first message.                                                   *)
LEMMA NoTokenYet ==
  ASSUME NEW b \in Seq(Bytes), NEW w \in Seq(Bytes), NEW q \in Seq(Messages),
         Framed(b \o w, q), Len(b) > 0, WireSplit(b).advance = 0
  PROVE  Len(q) > 0 /\ q[1] \in Messages /\ Len(b) < Length(q[1])
<1>1. /\ Len(b) \in Nat /\ Len(w) \in Nat /\ b \o w \in Seq(Bytes)
      /\ Len(b \o w) = Len(b) + Len(w) /\ (b \o w)[1] = b[1]
  BY ConcatProperties
<1>2. /\ Len(q) > 0 /\ q[1] \in Messages
      /\ \A i \in 1 .. Length(q[1]) : (b \o w)[i] = EncodeEPP(q[1])[i]
  <2>. DEFINE s == b \o w
  <2>1. s \in Seq(Bytes) /\ Framed(s, q) /\ Len(s) > 0
    BY <1>1
  <2>. HIDE DEF s
  <2>2. /\ Len(q) > 0 /\ q[1] \in Messages
        /\ \A i \in 1 .. Length(q[1]) : s[i] = EncodeEPP(q[1])[i]
    BY <2>1, FramedHead
  <2>. QED
    BY <2>2 DEF s
<1>3. Length(q[1]) \in Nat /\ Length(q[1]) > HeaderSize
  BY <1>2, LengthOfMessage
<1>4. b[1].size = Length(q[1])
  <2>1. 1 \in 1 .. Length(q[1])
    BY <1>3, HeaderSizeAssumption
  <2>2. b[1] = [size |-> Length(q[1]), msg |-> q[1], at |-> 1]
    BY <2>1, <1>1, <1>2, EncodedMessage
  <2>. QED
    BY <2>2
<1>5. Len(b) < HeaderSize \/ Len(b) < b[1].size
  <2>1. SUFFICES ASSUME ~(Len(b) < HeaderSize \/ Len(b) < b[1].size) PROVE FALSE
    OBVIOUS
  <2>2. WireSplit(b).advance = b[1].size
    BY <2>1 DEF WireSplit
  <2>. QED
    BY <2>2, <1>3, <1>4, HeaderSizeAssumption
<1>. QED
  BY <1>1, <1>2, <1>3, <1>4, <1>5, HeaderSizeAssumption

(* A full buffer without a message is that of one that does not fit.         *)
LEMMA TooLongEffect ==
  ASSUME CodecInv, TooLong
  PROVE  Len(received) < Len(sent) /\ ~Fits(sent[Len(received) + 1])
<1>1. listening /\ Len(buffer) = MaxToken /\ WireSplit(buffer).advance = 0
  BY DEF TooLong
<1>2. /\ sent \in Seq(Messages) /\ network \in Seq(Bytes) /\ buffer \in Seq(Bytes)
      /\ Len(received) \in 0 .. Len(sent)
      /\ Framed(buffer \o network, Outstanding)
  BY <1>1 DEF CodecInv, TypeOK, InOrder
<1>3. Outstanding \in Seq(Messages) /\ Len(Outstanding) = Len(sent) - Len(received)
  BY <1>2 DEF Outstanding
<1>4. Len(buffer) > 0
  BY <1>1, MaxTokenAssumption
<1>5. Len(Outstanding) > 0 /\ Outstanding[1] \in Messages /\ MaxToken < Length(Outstanding[1])
  BY <1>1, <1>2, <1>3, <1>4, NoTokenYet
<1>6. Len(received) \in 0 .. Len(sent) - 1
  BY <1>2, <1>3, <1>5
<1>7. Outstanding[1] = sent[Len(received) + 1]
  BY <1>2, <1>6, OutstandingShrinks DEF Outstanding
<1>8. Length(Outstanding[1]) \in Nat
  BY <1>5, LengthOfMessage
<1>. QED
  BY <1>5, <1>6, <1>7, <1>8, MaxTokenAssumption DEF Fits, Length

(* The listener gives up only at a message that its buffer does not hold or  *)
(* that TypedMessage panics at: WireSplit hands over one whole message,      *)
(* wherever the network cut the bytes.                                       *)
THEOREM NeverTornHolds == Spec => NeverTorn
<1>. DEFINE N == GivesUp => /\ Len(received) < Len(sent)
                            /\ ~Fits(NextToCome) \/ Panics(NextToCome)
<1>1. CodecInv /\ [Next]_vars => [N]_vars
  <2>. SUFFICES ASSUME CodecInv, GivesUp
                PROVE  /\ Len(received) < Len(sent)
                       /\ ~Fits(NextToCome) \/ Panics(NextToCome)
    OBVIOUS
  <2>1. CASE Scan
    BY <2>1, ScanEffect DEF GivesUp, NextToCome
  <2>2. CASE TooLong
    BY <2>2, TooLongEffect DEF NextToCome
  <2>. QED
    BY <2>1, <2>2 DEF GivesUp
<1>. QED
  BY <1>1, CodecInvariant, PTL DEF Spec, NeverTorn

(* Every step is one of the abstract channel, or none.                       *)
LEMMA ChannelStep ==
  ASSUME CodecInv, [Next]_vars
  PROVE  [Channel!Next]_(Channel!vars)
<1>1. CASE UNCHANGED vars
  BY <1>1 DEF vars, Channel!vars
<1>2. ASSUME NEW m \in Messages, Send(m) PROVE Channel!Send(m)
  BY <1>2 DEF Send, Channel!Send
<1>3. ASSUME NEW n \in 1 .. MaxToken, Read(n) PROVE UNCHANGED Channel!vars
  BY <1>3 DEF Read, Channel!vars
<1>4. CASE Scan
  <2>1. /\ Len(received) < Len(sent) /\ listening /\ sent' = sent
        /\ IF Panics(sent[Len(received) + 1])
           THEN listening' = FALSE /\ UNCHANGED received
           ELSE /\ received' = Append(received, Parsed(sent[Len(received) + 1]))
                /\ listening' = listening
    BY <1>4, ScanEffect
  <2>2. sent[Len(received) + 1] \in Messages
    <3>1. sent \in Seq(Messages) /\ Len(received) \in Nat
      BY DEF CodecInv, TypeOK
    <3>2. Len(received) + 1 \in 1 .. Len(sent)
      BY <2>1, <3>1
    <3>. QED
      BY <3>1, <3>2
  <2>3. CASE Panics(sent[Len(received) + 1])
    <3>1. listening /\ listening' = FALSE /\ UNCHANGED <<sent, received>>
      BY <2>1, <2>3, Zenon
    <3>2. Channel!Close
      BY <3>1 DEF Channel!Close
    <3>. QED
      BY <3>2 DEF Channel!Next
  <2>4. CASE ~Panics(sent[Len(received) + 1])
    <3>1. /\ received' = Append(received, Parsed(sent[Len(received) + 1]))
          /\ listening' = listening
      BY <2>1, <2>4, Zenon
    <3>2. sent[Len(received) + 1] \in Typable
      BY <2>2, <2>4, Zenon DEF Typable
    <3>3. Readings[sent[Len(received) + 1]] = Parsed(sent[Len(received) + 1])
      BY <2>2, Zenon DEF Readings
    <3>4. Channel!Deliver
      BY <2>1, <3>1, <3>2, <3>3 DEF Channel!Deliver
    <3>. QED
      BY <3>4 DEF Channel!Next
  <2>. QED
    BY <2>3, <2>4
<1>5. CASE TooLong \/ Close
  <2>1. Channel!Close
    BY <1>5 DEF TooLong, Close, Channel!Close
  <2>. QED
    BY <2>1 DEF Channel!Next
<1>. QED
  BY <1>1, <1>2, <1>3, <1>4, <1>5 DEF Next, Channel!Next

(* EncodeEPP, the Scanner with WireSplit and EPPListener implement a channel *)
(* that delivers in order, once each, until it closes.                       *)
THEOREM CodecImplementsChannel == Spec => ImplementsChannel
<1>1. Init => Channel!Init
  BY DEF Init, Channel!Init
<1>2. CodecInv /\ [Next]_vars => [Channel!Next]_(Channel!vars)
  BY ChannelStep
<1>. QED
  BY <1>1, <1>2, CodecInvariant, PTL DEF Spec, ImplementsChannel, Channel!Spec

(* Each message that was received is what the listener makes of a well-      *)
(* formed one that was sent.                                                 *)
LEMMA MessageReceived ==
  ASSUME CodecInv, NEW i \in 1 .. Len(received)
  PROVE  WellFormed(sent[i]) /\ received[i] = TypedMessage(UnmarshalMessage(sent[i]))
<1>1. sent \in Seq(Messages) /\ received \in Seq({Parsed(m) : m \in Messages})
  BY DEF CodecInv, TypeOK
<1>2. i \in 1 .. Len(sent)
  BY <1>1 DEF CodecInv, InOrder
<1>3. sent[i] \in Messages
  BY <1>1, <1>2
<1>4. received[i] = Parsed(sent[i])
  BY DEF CodecInv, InOrder
<1>. QED
  BY <1>3, <1>4, MessagesAssumption DEF Parsed

(* However the bytes are cut up, what the listener puts out are the sent     *)
(* messages, in order, none twice and none left out, each recognised by      *)
(* MessageType as what it was sent as, a poll as a command.                  *)
THEOREM ReceivedAsSentHolds == Spec => []ReceivedAsSent
<1>1. CodecInv => ReceivedAsSent
  <2>. SUFFICES ASSUME CodecInv PROVE ReceivedAsSent
    OBVIOUS
  <2>1. Len(received) <= Len(sent)
    BY DEF CodecInv, InOrder
  <2>2. ASSUME NEW i \in 1 .. Len(received)
        PROVE  IF Has(sent[i], "poll", "plain")
               THEN MessageType(received[i]) = <<"command">>
               ELSE MessageType(received[i]) = MessageType(sent[i])
    <3>1. WellFormed(sent[i]) /\ received[i] = TypedMessage(UnmarshalMessage(sent[i]))
      BY <2>2, MessageReceived
    <3>2. CASE Has(sent[i], "poll", "plain")
      BY <3>1, <3>2, PollType
    <3>3. CASE ~Has(sent[i], "poll", "plain")
      BY <3>1, <3>3, SameMessageType
    <3>. QED
      BY <3>2, <3>3
  <2>. QED
    BY <2>1, <2>2 DEF ReceivedAsSent
<1>. QED
  BY <1>1, CodecInvariant, PTL

(* A domain's update with at most one host to add and one to remove is       *)
(* received with the lists it was sent with, wherever the bytes were cut and *)
(* whatever travels before and after it.                                     *)
THEOREM ListsArriveHolds == Spec => []ListsArrive
<1>1. CodecInv => ListsArrive
  <2>. SUFFICES ASSUME CodecInv, NEW i \in 1 .. Len(received),
                       Has(sent[i], "update", "domain"),
                       Len(sent[i][<<"update", "domain">>].add.hosts) <= 1,
                       Len(sent[i][<<"update", "domain">>].rem.hosts) <= 1
                PROVE  /\ Has(received[i], "update", "domain")
                       /\ received[i][<<"update", "domain">>]
                            = sent[i][<<"update", "domain">>]
    BY DEF ListsArrive, Has
  <2>1. WellFormed(sent[i]) /\ received[i] = TypedMessage(UnmarshalMessage(sent[i]))
    BY MessageReceived
  <2>2. Has(received[i], "update", "domain")
    <3>1. "update" \in Copied /\ "domain" \in Objects
      BY DEF Copied, CommandElements, Objects
    <3>. QED
      BY <2>1, <3>1, ParsedObject
  <2>. QED
    BY <2>1, <2>2, ShortListsArrive
<1>. QED
  BY <1>1, CodecInvariant, PTL
=============================================================================
