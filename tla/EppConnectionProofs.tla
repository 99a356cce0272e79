-------------------------- MODULE EppConnectionProofs ------------------------
(***************************************************************************)
(* Proofs about EppConnection, for channels of any size, any messages and  *)
(* any number of calls.  The client and its peer take turns: at most one   *)
(* message is between them, and what the calls still wait for is never     *)
(* more than what they asked for and did not give up.                      *)
(***************************************************************************)
EXTENDS EppConnection, FiniteSetTheorems, SequenceTheorems, TLAPS

(* A sequence, whatever its elements. *)
IsSeq(s) == s \in Seq(ToSet(s))

-----------------------------------------------------------------------------
(* Sequences *)

LEMMA NoneIsSeq ==
  /\ IsSeq(<<>>) /\ ToSet(<<>>) = {} /\ Len(<<>>) = 0
<1>1. Len(<<>>) = 0 /\ DOMAIN <<>> = {}
  OBVIOUS
<1>2. ToSet(<<>>) = {}
  BY <1>1 DEF ToSet
<1>3. <<>> \in Seq({})
  OBVIOUS
<1>4. IsSeq(<<>>)
  BY <1>2, <1>3 DEF IsSeq
<1> QED BY <1>1, <1>2, <1>4

LEMMA LenOfSeq ==
  ASSUME NEW s, IsSeq(s)
  PROVE  Len(s) \in Nat /\ (Len(s) = 0 <=> s = <<>>) /\ (Len(s) = 0 => ToSet(s) = {})
  BY DEF IsSeq, ToSet

LEMMA AppendSeq ==
  ASSUME NEW s, IsSeq(s), NEW e
  PROVE  /\ IsSeq(Append(s, e)) /\ Len(Append(s, e)) = Len(s) + 1
         /\ ToSet(Append(s, e)) = ToSet(s) \cup {e}
<1> DEFINE T == ToSet(s) \cup {e}
<1>1. s \in Seq(T) /\ e \in T /\ ToSet(s) = {s[i] : i \in 1 .. Len(s)}
  BY DEF IsSeq, ToSet
<1>2. Append(s, e) \in Seq(T) /\ Len(Append(s, e)) = Len(s) + 1
  BY <1>1
<1>3. \A i \in 1 .. Len(s) : Append(s, e)[i] = s[i]
  BY <1>1
<1>4. Append(s, e)[Len(s) + 1] = e
  BY <1>1
<1>5. ToSet(Append(s, e)) = {Append(s, e)[i] : i \in 1 .. Len(s) + 1}
  BY <1>2 DEF ToSet
<1>6. ToSet(Append(s, e)) = T
  <2>1. Len(s) \in Nat
    BY <1>1
  <2>2. \A x \in T : \E i \in 1 .. Len(s) + 1 : x = Append(s, e)[i]
    BY <1>1, <1>3, <1>4, <2>1
  <2>3. \A i \in 1 .. Len(s) + 1 : Append(s, e)[i] \in T
    BY <1>1, <1>3, <1>4, <2>1
  <2> QED BY <1>5, <2>2, <2>3
<1> QED BY <1>2, <1>6 DEF IsSeq

LEMMA TailSeq ==
  ASSUME NEW s, IsSeq(s), s # <<>>
  PROVE  /\ IsSeq(Tail(s)) /\ Len(Tail(s)) = Len(s) - 1 /\ Len(s) >= 1
         /\ ToSet(Tail(s)) \subseteq ToSet(s) /\ Head(s) \in ToSet(s)
<1>1. Tail(s) \in Seq(ToSet(s)) /\ Len(Tail(s)) = Len(s) - 1 /\ Len(s) >= 1
  BY DEF IsSeq
<1>2. \A i \in 1 .. Len(s) - 1 : Tail(s)[i] = s[i + 1] /\ i + 1 \in 1 .. Len(s)
  BY DEF IsSeq
<1>3. Head(s) = s[1] /\ 1 \in DOMAIN s
  BY <1>1 DEF IsSeq
<1>4. ToSet(Tail(s)) = {Tail(s)[i] : i \in 1 .. Len(s) - 1}
  <2>1. DOMAIN Tail(s) = 1 .. Len(s) - 1
    BY <1>1
  <2> QED BY <2>1 DEF ToSet
<1>5. ToSet(s) = {s[i] : i \in 1 .. Len(s)}
  BY DEF ToSet, IsSeq
<1>6. ToSet(Tail(s)) \subseteq ToSet(s)
  BY <1>2, <1>4, <1>5
<1>7. Head(s) \in ToSet(s)
  BY <1>3 DEF ToSet
<1>8. Tail(s) \in Seq(ToSet(Tail(s)))
  <2>1. \A i \in 2 .. Len(s) : s[i] = Tail(s)[i - 1] /\ i - 1 \in 1 .. Len(s) - 1
    BY DEF IsSeq
  <2>2. \A i \in 2 .. Len(s) : s[i] \in ToSet(Tail(s))
    BY <1>4, <2>1
  <2>3. Len(s) \in Int /\ 2 \in Int
    BY DEF IsSeq
  <2>4. SubSeq(s, 2, Len(s)) \in Seq(ToSet(Tail(s)))
    BY <2>2, <2>3, SubSeqProperties
  <2>5. Tail(s) = SubSeq(s, 2, Len(s))
    BY TailIsSubSeq DEF IsSeq
  <2> QED BY <2>4, <2>5
<1> QED BY <1>1, <1>6, <1>7, <1>8 DEF IsSeq

LEMMA ConcatOne ==
  ASSUME NEW s, IsSeq(s), NEW e
  PROVE  s \o <<e>> = Append(s, e)
  BY DEF IsSeq

LEMMA ConcatSeq ==
  ASSUME NEW s, IsSeq(s), NEW t, IsSeq(t)
  PROVE  /\ IsSeq(s \o t) /\ Len(s \o t) = Len(s) + Len(t)
         /\ ToSet(s \o t) = ToSet(s) \cup ToSet(t)
<1> DEFINE T == ToSet(s) \cup ToSet(t)
<1>1. /\ s \in Seq(T) /\ t \in Seq(T)
      /\ ToSet(s) = {s[i] : i \in 1 .. Len(s)} /\ ToSet(t) = {t[i] : i \in 1 .. Len(t)}
      /\ Len(s) \in Nat /\ Len(t) \in Nat
  BY DEF IsSeq, ToSet
<1>2. s \o t \in Seq(T) /\ Len(s \o t) = Len(s) + Len(t)
  BY <1>1
<1>3. \A i \in 1 .. Len(s) : (s \o t)[i] = s[i]
  BY <1>1
<1>4. \A i \in 1 .. Len(t) : (s \o t)[i + Len(s)] = t[i]
  BY <1>1
<1>5. ToSet(s \o t) = {(s \o t)[i] : i \in 1 .. Len(s) + Len(t)}
  BY <1>2 DEF ToSet
<1>6. \A x \in T : \E i \in 1 .. Len(s) + Len(t) : x = (s \o t)[i]
  <2>1. \A i \in 1 .. Len(t) : i + Len(s) \in 1 .. Len(s) + Len(t)
    BY <1>1
  <2>2. \A i \in 1 .. Len(s) : i \in 1 .. Len(s) + Len(t)
    BY <1>1
  <2> QED BY <1>1, <1>3, <1>4, <2>1, <2>2
<1>7. \A i \in 1 .. Len(s) + Len(t) : (s \o t)[i] \in T
  BY <1>1, <1>2
<1> QED BY <1>2, <1>5, <1>6, <1>7 DEF IsSeq

(* At most one answer, as a sequence. *)
LEMMA OneAsSeq == ASSUME NEW x PROVE SetToSeq({x}) = <<x>>
<1>1. Cardinality({x}) = 1
  BY FS_Singleton
<1> DEFINE one == [i \in 1 .. 1 |-> x]
<1>2. one \in [1 .. Cardinality({x}) -> {x}] /\ IsInjective(one)
  BY <1>1 DEF IsInjective
<1>3. SetToSeq({x}) \in [1 .. 1 -> {x}]
  BY <1>1, <1>2 DEF SetToSeq
<1>4. SetToSeq({x})[1] = x
  BY <1>3
<1>5. SetToSeq({x}) = [i \in 1 .. 1 |-> x]
  BY <1>3, <1>4
<1>6. <<x>> = [i \in 1 .. 1 |-> x]
  OBVIOUS
<1> QED BY <1>5, <1>6

LEMMA NoneAsSeq == SetToSeq({}) = <<>>
<1>1. Cardinality({}) = 0
  BY FS_EmptySet
<1>2. <<>> \in [1 .. Cardinality({}) -> {}] /\ IsInjective(<<>>)
  BY <1>1 DEF IsInjective
<1>3. SetToSeq({}) \in [1 .. 0 -> {}]
  BY <1>1, <1>2 DEF SetToSeq
<1>4. SetToSeq({}) = [i \in 1 .. 0 |-> {}]
  BY <1>3
<1>5. <<>> = [i \in 1 .. 0 |-> {}]
  OBVIOUS
<1> QED BY <1>4, <1>5

-----------------------------------------------------------------------------
(* Messages: what becomes of their plain parts on the way *)

Tops == {"greeting", "hello", "command", "response"}

NoTop(m) == \A e \in Tops : ~Has(m, e, "plain")

SameTops(m, n) ==
  \A e \in Tops :
    /\ Has(m, e, "plain") <=> Has(n, e, "plain")
    /\ Has(n, e, "plain") => m[<<e, "plain">>] = n[<<e, "plain">>]

LEMMA JoinTops ==
  ASSUME NEW P, NEW n \in P, \A m \in P : m = n \/ NoTop(m)
  PROVE  SameTops(Join(P), n)
<1> SUFFICES ASSUME NEW e \in Tops
             PROVE  /\ Has(Join(P), e, "plain") <=> Has(n, e, "plain")
                    /\ Has(n, e, "plain") => Join(P)[<<e, "plain">>] = n[<<e, "plain">>]
  BY DEF SameTops
<1> DEFINE q == <<e, "plain">>
           all == UNION {DOMAIN m : m \in P}
<1>1. \A m \in P : q \in DOMAIN m => m = n
  BY DEF NoTop, Has
<1>2. DOMAIN Join(P) = all
  BY DEF Join
<1>3. q \in all <=> q \in DOMAIN n
  BY <1>1
<1>4. ASSUME q \in DOMAIN n
      PROVE  Join(P)[q] = n[q]
  <2>1. (CHOOSE m \in P : q \in DOMAIN m) = n
    BY <1>1, <1>4
  <2>2. Join(P)[q] = (CHOOSE m \in P : q \in DOMAIN m)[q]
    BY <1>3, <1>4 DEF Join
  <2> QED BY <2>1, <2>2
<1> QED BY <1>2, <1>3, <1>4 DEF Has

LEMMA UnmarshalTops == ASSUME NEW m PROVE SameTops(UnmarshalMessage(m), m)
<1> SUFFICES ASSUME NEW e \in Tops
             PROVE  /\ Has(UnmarshalMessage(m), e, "plain") <=> Has(m, e, "plain")
                    /\ Has(m, e, "plain") => UnmarshalMessage(m)[<<e, "plain">>] = m[<<e, "plain">>]
  BY DEF SameTops
<1> DEFINE q == <<e, "plain">>
           parts == {p \in DOMAIN m : p[1] \notin Lost}
           form(p) == IF p[2] = "plain" THEN p ELSE <<p[1], "generic">>
<1>1. DOMAIN UnmarshalMessage(m) = {form(p) : p \in parts}
  BY DEF UnmarshalMessage
<1>2. form(q) = q /\ q[1] \notin Lost /\ q[2] = "plain"
  BY DEF Tops, Lost
<1>3. \A p \in parts : form(p) = q => p = q
  <2> SUFFICES ASSUME NEW p \in parts, p[2] # "plain", <<p[1], "generic">> = <<e, "plain">>
               PROVE  FALSE
    OBVIOUS
  <2> QED OBVIOUS
<1>4. q \in DOMAIN UnmarshalMessage(m) <=> q \in DOMAIN m
  BY <1>1, <1>2, <1>3
<1>5. q \in DOMAIN m => UnmarshalMessage(m)[q] = m[q]
  BY <1>1, <1>2, <1>4 DEF UnmarshalMessage
<1> QED BY <1>4, <1>5 DEF Has

LEMMA PartNoTop ==
  ASSUME NEW e, NEW form, form # "plain" \/ e \notin Tops, NEW data
  PROVE  NoTop(Part(e, form, data))
<1> SUFFICES ASSUME NEW top \in Tops PROVE <<top, "plain">> # <<e, form>>
  BY DEF NoTop, Has, Part
<1> QED OBVIOUS

LEMMA NothingNoTop == NoTop(<<>>)
<1>1. DOMAIN <<>> = {}
  OBVIOUS
<1> QED BY <1>1 DEF NoTop, Has

LEMMA TypedPartsNoTop ==
  ASSUME NEW m
  PROVE  \A n \in {TypedCheck(m), TypedCreate(m), TypedInfo(m), TypedDelete(m), TypedUpdate(m),
                    TypedTransfer(m), TypedRenew(m), TypedExtension(m), TypedResultData(m)} :
           NoTop(n)
<1> DEFINE Typed(n) == n = <<>> \/ \E e, data : \E form \in Objects : n = Part(e, form, data)
<1>1. \A n : Typed(n) => NoTop(n)
  BY PartNoTop, NothingNoTop DEF Objects
<1>2. Typed(TypedCheck(m)) /\ Typed(TypedCreate(m))
  BY DEF TypedCheck, TypedCreate, Retype
<1>3. Typed(TypedInfo(m)) /\ Typed(TypedDelete(m)) /\ Typed(TypedUpdate(m))
  BY DEF TypedInfo, TypedDelete, TypedUpdate, Retype
<1>4. Typed(TypedTransfer(m)) /\ Typed(TypedRenew(m)) /\ Typed(TypedExtension(m))
  BY DEF TypedTransfer, TypedRenew, TypedExtension, Retype, Objects
<1>5. NoTop(TypedResultData(m))
  <2> DEFINE P == {Retype(m, "chkData", Objects, Same), Retype(m, "creData", Objects, Same),
                   Retype(m, "infData", Objects, Same), Retype(m, "renData", {"domain"}, Same),
                   Retype(m, "trnData", {"domain", "contact"}, Same)}
  <2>1. \A n \in P : Typed(n)
    BY DEF Retype, Objects
  <2>2. \A n \in P : NoTop(n)
    BY <1>1, <2>1
  <2>3. TypedResultData(m) = Join(P)
    BY DEF TypedResultData
  <2> HIDE DEF P
  <2>4. DOMAIN Join(P) = UNION {DOMAIN n : n \in P}
    BY DEF Join
  <2>5. ASSUME NEW e \in Tops, <<e, "plain">> \in DOMAIN Join(P)
        PROVE  FALSE
    <3>1. PICK n \in P : <<e, "plain">> \in DOMAIN n
      BY <2>4, <2>5
    <3> QED BY <2>2, <3>1 DEF NoTop, Has
  <2> QED BY <2>3, <2>5 DEF NoTop, Has
<1> HIDE DEF Typed
<1> QED BY <1>1, <1>2, <1>3, <1>4, <1>5

LEMMA TypedTops == ASSUME NEW m PROVE SameTops(TypedMessage(m), m)
<1> DEFINE P == {Plain(m), TypedCheck(m), TypedCreate(m), TypedInfo(m), TypedDelete(m),
                 TypedUpdate(m), TypedTransfer(m), TypedRenew(m), TypedExtension(m),
                 TypedResultData(m)}
<1>1. \A n \in P : n = Plain(m) \/ NoTop(n)
  BY TypedPartsNoTop
<1>2. Plain(m) \in P
  OBVIOUS
<1> HIDE DEF P
<1>3. SameTops(Join(P), Plain(m))
  BY <1>1, <1>2, JoinTops
<1>4. SameTops(Plain(m), m)
  BY DEF SameTops, Plain, Tops, Has
<1>5. TypedMessage(m) = Join(P)
  BY DEF TypedMessage, P
<1> QED BY <1>3, <1>4, <1>5 DEF SameTops

(* What the listener makes of a message. *)
Received(m) == TypedMessage(UnmarshalMessage(m))

LEMMA ReceivedTops == ASSUME NEW m PROVE SameTops(Received(m), m)
  BY UnmarshalTops, TypedTops DEF Received, SameTops

(* A command with transaction ID c, and an answer to one. *)
Asks(m, c) == Has(m, "command", "plain") /\ m[<<"command", "plain">>] = c /\ ~Has(m, "hello", "plain")
AnswerTo(m, c) == Has(m, "response", "plain") /\ m[<<"response", "plain">>].clTRID = c

(* What a peer sends before it has accepted a log-in. *)
Refuses(response) == response.code = 2200
Early(m) ==
  \/ Has(m, "greeting", "plain") /\ ~Has(m, "response", "plain")
  \/ Has(m, "response", "plain") /\ Refuses(m[<<"response", "plain">>])

LEMMA ReceivedAlike ==
  ASSUME NEW m, NEW c
  PROVE  /\ Asks(m, c) => Asks(Received(m), c) /\ Asks(UnmarshalMessage(m), c)
         /\ AnswerTo(m, c) => AnswerTo(Received(m), c)
         /\ Early(m) => Early(Received(m))
<1>1. ASSUME NEW n, SameTops(n, m)
      PROVE  /\ Asks(m, c) => Asks(n, c)
             /\ AnswerTo(m, c) => AnswerTo(n, c)
             /\ Early(m) => Early(n)
  <2>1. /\ Has(n, "command", "plain") <=> Has(m, "command", "plain")
        /\ Has(m, "command", "plain") => n[<<"command", "plain">>] = m[<<"command", "plain">>]
    BY <1>1 DEF SameTops, Tops
  <2>2. /\ Has(n, "response", "plain") <=> Has(m, "response", "plain")
        /\ Has(m, "response", "plain") => n[<<"response", "plain">>] = m[<<"response", "plain">>]
    BY <1>1 DEF SameTops, Tops
  <2>3. /\ Has(n, "hello", "plain") <=> Has(m, "hello", "plain")
        /\ Has(n, "greeting", "plain") <=> Has(m, "greeting", "plain")
    BY <1>1 DEF SameTops, Tops
  <2>4. Asks(m, c) => Asks(n, c)
    BY <2>1, <2>3 DEF Asks
  <2>5. AnswerTo(m, c) => AnswerTo(n, c)
    BY <2>2 DEF AnswerTo
  <2>6. Early(m) => Early(n)
    <3>1. CASE Has(m, "response", "plain")
      BY <2>2, <3>1 DEF Early
    <3>2. CASE ~Has(m, "response", "plain")
      BY <2>2, <2>3, <3>2 DEF Early
    <3> QED BY <3>1, <3>2
  <2> QED BY <2>4, <2>5, <2>6
<1> QED BY <1>1, ReceivedTops, UnmarshalTops

LEMMA ReplyAnswers ==
  ASSUME NEW m, NEW c, Asks(m, c), NEW code
  PROVE  AnswerTo(Reply(m, code), c) /\ AnswerTo(GetEPPResponse(Tx(m), code), c)
  BY DEF Asks, AnswerTo, Reply, Tx, GetEPPResponse, Part, Has

LEMMA WithDataAnswers ==
  ASSUME NEW r, NEW c, AnswerTo(r, c), NEW e, e \notin Tops, NEW form, NEW data
  PROVE  AnswerTo(WithData(r, e, form, data), c)
<1>1. NoTop(Part(e, form, data))
  BY PartNoTop
<1> DEFINE P == {r, Part(e, form, data)}
<1>2. SameTops(Join(P), r)
  <2>1. r \in P /\ \A n \in P : n = r \/ NoTop(n)
    BY <1>1
  <2> HIDE DEF P
  <2> QED BY <2>1, JoinTops
<1>3. WithData(r, e, form, data) = Join(P)
  BY DEF WithData, ++
<1> QED BY <1>2, <1>3 DEF SameTops, Tops, AnswerTo

LEMMA AnsweredAtMostOnce ==
  ASSUME NEW m
  PROVE  \/ Answered(m) = {}
         \/ \E r : Answered(m) = {r} /\ \A c : Asks(m, c) => AnswerTo(r, c)
<1>1. \A code, c : Asks(m, c) => AnswerTo(Reply(m, code), c)
  BY ReplyAnswers
<1>2. \A c : Asks(m, c) => AnswerTo(generateCheckResponseObject(m), c)
  BY <1>1, WithDataAnswers DEF generateCheckResponseObject, Tops
<1>3. ASSUME NEW form
      PROVE  \A c : Asks(m, c) => AnswerTo(Information(m, form), c)
  <2> SUFFICES ASSUME NEW c, Asks(m, c) PROVE AnswerTo(Information(m, form), c)
    OBVIOUS
  <2>1. AnswerTo(Reply(m, 1000), c) /\ AnswerTo(Reply(m, 2303), c)
    BY <1>1
  <2>2. ASSUME NEW data
        PROVE  AnswerTo(WithData(Reply(m, 1000), "infData", form, data), c)
    BY <2>1, WithDataAnswers DEF Tops
  <2> QED BY <2>1, <2>2 DEF Information
<1>4. /\ \A c : Asks(m, c) => AnswerTo(handleContactInfo(m), c)
      /\ \A c : Asks(m, c) => AnswerTo(handleHostInfo(m), c)
      /\ \A c : Asks(m, c) => AnswerTo(handleDomainInfo(m), c)
  BY <1>3 DEF handleContactInfo, handleHostInfo, handleDomainInfo
<1>5. \/ Answered(m) = {}
      \/ \E r \in {Reply(m, 1500), generateCheckResponseObject(m), handleContactInfo(m),
                  handleHostInfo(m), handleDomainInfo(m)} : Answered(m) = {r}
  BY DEF Answered
<1> QED BY <1>1, <1>2, <1>4, <1>5

-----------------------------------------------------------------------------
(* The invariant *)

Sequences ==
  /\ IsSeq(SendChannel) /\ IsSeq(toServer) /\ IsSeq(toClient) /\ IsSeq(RecvChannel)
  /\ IsSeq(NewWork) /\ IsSeq(WorkResponse) /\ IsSeq(results)

Runs(states) == fsm \in {"top", "select"} /\ currentState \in states
Puts(to) == fsm = "sending" /\ pending.to = to

Sending ==
  /\ fsm \in {"top", "select", "sending", "ended"}
  /\ fsm = "sending" =>
       \/ /\ pending.to = "SendChannel"
          /\ pending.next \in {"waitForLoginResponse", "waitingForWorkHelloResp",
                              "waitForCommandResponse", "waitLogout"}
       \/ pending.to = "WorkResponse" /\ pending.next = "waitingForWork"

(* The messages between the state machine and its peer, with the greeting  *)
(* the peer has still to send.                                             *)
InFlight ==
  Len(SendChannel) + Len(toServer) + Len(toClient) + Len(RecvChannel)
  + (IF serverState = "PrepareGreeting" THEN 1 ELSE 0)

(* Client and peer take turns: the state machine is in these states, or    *)
(* puts a message on a channel, only when there is none on its way.        *)
Turn == {"prepareLogin", "waitingForWork", "waitingForWorkHello", "preparelogout"}
Lockstep ==
  /\ InFlight <= 1
  /\ fsm = "sending" \/ Runs(Turn) => InFlight = 0

(* A command was taken from NewWork and its answer is not there yet.       *)
AtWork ==
  \/ Runs({"waitForCommandResponse"})
  \/ fsm = "sending" /\ pending.next = "waitForCommandResponse"

Outstanding ==
  Len(NewWork) + Len(WorkResponse) + (IF AtWork \/ Puts("WorkResponse") THEN 1 ELSE 0)

Waiting == IF caller = "waiting" THEN 1 ELSE 0
GivenUp == Outstanding <= Cardinality(TimedOut) + Waiting

(* Until a call times out, all that is outstanding is the present call's.  *)
Present == Len(results) + 1
Labelled ==
  /\ caller \in {"submitting", "waiting"} => Asks(call, Present)
  /\ TimedOut = {} =>
       /\ \A m \in ToSet(NewWork) : Asks(m, Present)
       /\ \A m \in ToSet(WorkResponse) : AnswerTo(m, Present)
       /\ AtWork /\ fsm = "sending" => Asks(pending.msg, Present)
       /\ Puts("WorkResponse") => AnswerTo(pending.msg, Present)
       /\ AtWork => /\ \A m \in ToSet(SendChannel) \cup ToSet(toServer) : Asks(m, Present)
                    /\ \A m \in ToSet(toClient) \cup ToSet(RecvChannel) : AnswerTo(m, Present)

(* While the peer waits for a log-in the state machine is before its own.  *)
Unready ==
  {"closedConnection", "newConnection", "openedConnection", "prepareLogin",
   "waitForLoginResponse", "shutdownRequested"}
NotLoggedIn ==
  \/ serverState = "PrepareGreeting"
  \/ peer = "server" /\ serverState = "WaitingForClient"
BeforeLogin ==
  NotLoggedIn =>
    /\ \A m \in ToSet(SendChannel) \cup ToSet(toServer) : ~IsWork(m)
    /\ \A m \in ToSet(toClient) \cup ToSet(RecvChannel) : Early(m)
    /\ fsm = "sending" => /\ pending.to = "SendChannel"
                          /\ pending.next = "waitForLoginResponse"
                          /\ ~IsWork(pending.msg)
    /\ fsm \in {"top", "select"} => currentState \in Unready

Inv ==
  /\ Sequences /\ Sending /\ Lockstep /\ GivenUp /\ Labelled /\ BeforeLogin
  /\ AnswersMatchCalls

-----------------------------------------------------------------------------
(* Steps of the state machine *)

LEMMA Lengths ==
  ASSUME Sequences
  PROVE  /\ Len(SendChannel) \in Nat /\ Len(toServer) \in Nat /\ Len(toClient) \in Nat
         /\ Len(RecvChannel) \in Nat /\ Len(NewWork) \in Nat /\ Len(WorkResponse) \in Nat
         /\ Len(results) \in Nat
         /\ Len(SendChannel) = 0 => ToSet(SendChannel) = {}
         /\ Len(toServer) = 0 => ToSet(toServer) = {}
         /\ Len(toClient) = 0 => ToSet(toClient) = {}
         /\ Len(RecvChannel) = 0 => RecvChannel = <<>> /\ ToSet(RecvChannel) = {}
  BY LenOfSeq DEF Sequences

LEMMA TimedOutFinite ==
  ASSUME Sequences
  PROVE  /\ Cardinality(TimedOut) \in Nat
         /\ Cardinality(TimedOut) = 0 <=> TimedOut = {}
<1>1. Len(results) \in Nat
  BY Lengths
<1>2. IsFiniteSet(1 .. Len(results))
  BY <1>1, FS_Interval
<1>3. IsFiniteSet(TimedOut)
  BY <1>2, FS_Subset DEF TimedOut
<1> QED BY <1>3, FS_CardinalityType, FS_EmptySet

(* What the super client and its history make of it stays. *)
Others ==
  UNCHANGED <<SendChannel, toServer, toClient, WorkResponse, peer, serverState, superVars>>

(* The state machine goes from one state to another, and may have taken a  *)
(* message.                                                                *)
LEMMA Moves ==
  ASSUME Inv, Others, UNCHANGED NewWork, fsm \in {"top", "select"},
         \/ UNCHANGED RecvChannel
         \/ RecvChannel # <<>> /\ RecvChannel' = Tail(RecvChannel),
         fsm' \in {"top", "select", "ended"},
         currentState' \in Turn /\ fsm' # "ended" =>
           currentState \in Turn \/ (RecvChannel # <<>> /\ RecvChannel' = Tail(RecvChannel)),
         currentState' = "waitForCommandResponse" /\ fsm' # "ended" =>
           currentState = "waitForCommandResponse",
         NotLoggedIn /\ fsm' # "ended" => currentState' \in Unready
  PROVE  Inv'
<1> USE DEF Others, superVars
<1>1. Sequences'
  BY TailSeq DEF Inv, Sequences
<1>2. Sending'
  BY DEF Sending
<1>3. /\ ToSet(RecvChannel') \subseteq ToSet(RecvChannel)
      /\ Len(RecvChannel') \in Nat /\ Len(RecvChannel') <= Len(RecvChannel)
      /\ RecvChannel # <<>> /\ RecvChannel' = Tail(RecvChannel) =>
           Len(RecvChannel') = Len(RecvChannel) - 1
  <2>1. IsSeq(RecvChannel) /\ Len(RecvChannel) \in Nat
    BY Lengths DEF Inv, Sequences
  <2>2. CASE UNCHANGED RecvChannel
    BY <2>1, <2>2, TailSeq
  <2>3. CASE RecvChannel # <<>> /\ RecvChannel' = Tail(RecvChannel)
    BY <2>1, <2>3, TailSeq
  <2> QED BY <2>2, <2>3
<1>4. Lockstep'
  BY <1>3, Lengths DEF Inv, Lockstep, InFlight, Runs, Turn
<1>5. AtWork' => AtWork
  BY DEF AtWork, Runs
<1>6. UNCHANGED <<TimedOut, Waiting, Present>> /\ ~Puts("WorkResponse")'
  BY DEF TimedOut, Waiting, Present, Puts
<1>7. GivenUp'
  BY <1>5, <1>6, Lengths, TimedOutFinite DEF Inv, GivenUp, Outstanding, Waiting
<1>8. Labelled'
  BY <1>3, <1>5, <1>6 DEF Inv, Labelled
<1>9. BeforeLogin'
  BY <1>3 DEF Inv, BeforeLogin, NotLoggedIn
<1>10. AnswersMatchCalls'
  BY DEF Inv, AnswersMatchCalls
<1> QED BY <1>1, <1>2, <1>4, <1>7, <1>8, <1>9, <1>10 DEF Inv

(* It has something to send that no call asked for. *)
LEMMA Sends ==
  ASSUME Inv, Others, UNCHANGED <<NewWork, RecvChannel>>, Runs(Turn),
         fsm' = "sending", pending'.to = "SendChannel",
         pending'.next \in {"waitForLoginResponse", "waitingForWorkHelloResp", "waitLogout"},
         NotLoggedIn => pending'.next = "waitForLoginResponse" /\ ~IsWork(pending'.msg)
  PROVE  Inv'
<1> USE DEF Others, superVars
<1>1. Sequences'
  BY DEF Inv, Sequences
<1>2. Sending'
  BY DEF Sending
<1>3. Lockstep'
  BY Lengths DEF Inv, Lockstep, InFlight, Runs
<1>4. UNCHANGED <<TimedOut, Waiting, Present>> /\ ~Puts("WorkResponse")' /\ ~AtWork'
  BY DEF TimedOut, Waiting, Present, Puts, AtWork, Runs
<1>5. GivenUp'
  BY <1>4, Lengths, TimedOutFinite DEF Inv, GivenUp, Outstanding, Waiting
<1>6. Labelled'
  BY <1>4 DEF Inv, Labelled
<1>7. BeforeLogin'
  BY DEF Inv, BeforeLogin, NotLoggedIn
<1>8. AnswersMatchCalls'
  BY DEF Inv, AnswersMatchCalls
<1> QED BY <1>1, <1>2, <1>3, <1>5, <1>6, <1>7, <1>8 DEF Inv

(* It takes a command from NewWork. *)
LEMMA TakesWork ==
  ASSUME Inv, Others, UNCHANGED RecvChannel, In("waitingForWork"),
         NewWork # <<>>, NewWork' = Tail(NewWork),
         fsm' = "sending", pending'.to = "SendChannel", pending'.msg = Head(NewWork),
         pending'.next = "waitForCommandResponse"
  PROVE  Inv'
<1> USE DEF Others, superVars
<1>1. /\ IsSeq(NewWork') /\ Len(NewWork') = Len(NewWork) - 1
      /\ ToSet(NewWork') \subseteq ToSet(NewWork) /\ Head(NewWork) \in ToSet(NewWork)
  BY TailSeq DEF Inv, Sequences
<1>2. Sequences'
  BY <1>1 DEF Inv, Sequences
<1>3. Sending'
  BY DEF Sending
<1>4. Runs(Turn) /\ ~NotLoggedIn
  BY DEF In, Runs, Turn, Inv, BeforeLogin, Unready
<1>5. Lockstep' /\ InFlight = 0
  BY <1>4, Lengths DEF Inv, Lockstep, InFlight, Runs
<1>6. /\ UNCHANGED <<TimedOut, Waiting, Present>> /\ ~Puts("WorkResponse")' /\ AtWork'
      /\ ~AtWork /\ ~Puts("WorkResponse")
  BY DEF TimedOut, Waiting, Present, Puts, AtWork, Runs, In
<1>7. GivenUp'
  BY <1>1, <1>6, Lengths, TimedOutFinite DEF Inv, GivenUp, Outstanding, Waiting
<1>8. /\ ToSet(SendChannel) = {} /\ ToSet(toServer) = {}
      /\ ToSet(toClient) = {} /\ ToSet(RecvChannel) = {}
  BY <1>5, Lengths DEF InFlight, Inv
<1>9. Labelled'
  BY <1>1, <1>6, <1>8 DEF Inv, Labelled
<1>10. BeforeLogin'
  BY <1>4 DEF BeforeLogin, NotLoggedIn
<1>11. AnswersMatchCalls'
  BY DEF Inv, AnswersMatchCalls
<1> QED BY <1>2, <1>3, <1>5, <1>7, <1>9, <1>10, <1>11 DEF Inv

(* It takes the answer to the command it has sent. *)
LEMMA PassesOn ==
  ASSUME Inv, Others, UNCHANGED NewWork, In("waitForCommandResponse"),
         RecvChannel # <<>>, RecvChannel' = Tail(RecvChannel),
         fsm' = "sending", pending'.to = "WorkResponse", pending'.msg = Head(RecvChannel),
         pending'.next = "waitingForWork"
  PROVE  Inv'
<1> USE DEF Others, superVars
<1>1. /\ IsSeq(RecvChannel') /\ Len(RecvChannel') = Len(RecvChannel) - 1
      /\ ToSet(RecvChannel') \subseteq ToSet(RecvChannel) /\ Head(RecvChannel) \in ToSet(RecvChannel)
  BY TailSeq DEF Inv, Sequences
<1>2. Sequences'
  BY <1>1 DEF Inv, Sequences
<1>3. Sending'
  BY DEF Sending
<1>4. ~NotLoggedIn
  BY DEF In, Inv, BeforeLogin, Unready
<1>5. Lockstep'
  BY <1>1, Lengths DEF Inv, Lockstep, InFlight
<1>6. /\ UNCHANGED <<TimedOut, Waiting, Present>> /\ Puts("WorkResponse")' /\ ~AtWork'
      /\ AtWork /\ ~Puts("WorkResponse")
  BY DEF TimedOut, Waiting, Present, Puts, AtWork, Runs, In
<1>7. GivenUp'
  BY <1>6, Lengths, TimedOutFinite DEF Inv, GivenUp, Outstanding, Waiting
<1>8. Labelled'
  BY <1>1, <1>6 DEF Inv, Labelled
<1>9. BeforeLogin'
  BY <1>4 DEF BeforeLogin, NotLoggedIn
<1>10. AnswersMatchCalls'
  BY DEF Inv, AnswersMatchCalls
<1> QED BY <1>2, <1>3, <1>5, <1>7, <1>8, <1>9, <1>10 DEF Inv

(* The message a handler waited to put on a channel has its place. *)
LEMMA DeliverKeeps ==
  ASSUME Inv, Deliver, UNCHANGED <<serverVars, superVars>>
  PROVE  Inv'
<1> USE DEF serverVars, superVars
<1>1. fsm = "sending" /\ fsm' = "top" /\ currentState' = pending.next
  BY DEF Deliver, Return, Inv, Sending
<1>2. /\ UNCHANGED <<toServer, toClient, RecvChannel, NewWork>>
      /\ UNCHANGED <<TimedOut, Waiting, Present>>
      /\ ~Puts("WorkResponse")'
  BY <1>1 DEF Deliver, wire, TimedOut, Waiting, Present, Puts
<1>3. Sending'
  BY <1>1 DEF Sending
<1>4. AnswersMatchCalls'
  BY DEF Inv, AnswersMatchCalls
<1>5. CASE pending.to = "SendChannel"
  <2>1. SendChannel' = Append(SendChannel, pending.msg) /\ UNCHANGED WorkResponse
    BY <1>5 DEF Deliver
  <2>2. /\ IsSeq(SendChannel') /\ Len(SendChannel') = Len(SendChannel) + 1
        /\ ToSet(SendChannel') = ToSet(SendChannel) \cup {pending.msg}
    BY <2>1, AppendSeq DEF Inv, Sequences
  <2>3. Sequences'
    BY <1>2, <2>1, <2>2 DEF Inv, Sequences
  <2>4. pending.next \notin Turn
    BY <1>1, <1>5 DEF Inv, Sending, Turn
  <2>5. Lockstep'
    BY <1>1, <1>2, <2>2, <2>4, Lengths DEF Inv, Lockstep, InFlight, Runs
  <2>6. AtWork' <=> AtWork
    BY <1>1 DEF AtWork, Runs
  <2>7. ~Puts("WorkResponse")
    BY <1>5 DEF Puts
  <2>8. GivenUp'
    BY <1>2, <2>1, <2>6, <2>7, Lengths, TimedOutFinite DEF Inv, GivenUp, Outstanding, Waiting
  <2>9. Labelled'
    BY <1>1, <1>2, <2>1, <2>2, <2>6 DEF Inv, Labelled
  <2>10. BeforeLogin'
    BY <1>1, <1>2, <2>2 DEF Inv, BeforeLogin, NotLoggedIn, Unready
  <2> QED BY <1>3, <1>4, <2>3, <2>5, <2>8, <2>9, <2>10 DEF Inv
<1>6. CASE pending.to = "WorkResponse"
  <2>1. WorkResponse' = Append(WorkResponse, pending.msg) /\ UNCHANGED SendChannel
    BY <1>6 DEF Deliver
  <2>2. /\ IsSeq(WorkResponse') /\ Len(WorkResponse') = Len(WorkResponse) + 1
        /\ ToSet(WorkResponse') = ToSet(WorkResponse) \cup {pending.msg}
    BY <2>1, AppendSeq DEF Inv, Sequences
  <2>3. Sequences'
    BY <1>2, <2>1, <2>2 DEF Inv, Sequences
  <2>4. pending.next = "waitingForWork" /\ ~NotLoggedIn
    BY <1>1, <1>6 DEF Inv, Sending, BeforeLogin
  <2>5. Lockstep'
    BY <1>1, <1>2, <2>1, Lengths DEF Inv, Lockstep, InFlight
  <2>6. ~AtWork' /\ Puts("WorkResponse")
    BY <1>1, <1>6, <2>4 DEF AtWork, Runs, Puts
  <2>7. GivenUp'
    BY <1>2, <2>2, <2>6, Lengths, TimedOutFinite DEF Inv, GivenUp, Outstanding, Waiting
  <2>8. Labelled'
    BY <1>2, <2>2, <2>6 DEF Inv, Labelled
  <2>9. BeforeLogin'
    BY <2>4 DEF BeforeLogin, NotLoggedIn
  <2> QED BY <1>3, <1>4, <2>3, <2>5, <2>7, <2>8, <2>9 DEF Inv
<1> QED BY <1>1, <1>5, <1>6 DEF Inv, Sending

LEMMA LoginIsNoWork == ~IsWork(GetEPPLogin(OwnTx))
<1> DEFINE P == {GetEPPCommand(OwnTx), Part("login", "plain", <<>>)}
           login == GetEPPLogin(OwnTx)
<1>1. DOMAIN GetEPPCommand(OwnTx) = {<<"command", "plain">>} /\ GetEPPCommand(OwnTx)[<<"command", "plain">>] = 0
  BY DEF GetEPPCommand, Part, OwnTx
<1>2. NoTop(Part("login", "plain", <<>>))
  BY PartNoTop DEF Tops
<1>3. SameTops(Join(P), GetEPPCommand(OwnTx))
  <2>1. GetEPPCommand(OwnTx) \in P /\ \A m \in P : m = GetEPPCommand(OwnTx) \/ NoTop(m)
    BY <1>2
  <2> HIDE DEF P
  <2> QED BY <2>1, JoinTops
<1>4. login = Join(P)
  BY DEF GetEPPLogin, Envelope, ++
<1>5. ~Has(login, "response", "plain") /\ login[<<"command", "plain">>] = 0
  BY <1>1, <1>3, <1>4 DEF SameTops, Tops, Has
<1>6. 0 \notin 1 .. MaxCalls
  BY MaxCallsAssumption
<1> QED BY <1>5, <1>6 DEF IsWork

(* A refused log-in, or a greeting, does not bring the client to work. *)
LEMMA EarlyOutcome ==
  ASSUME NEW m, Early(m), LoginOutcome(m)
  PROVE  fsm' = "ended" \/ currentState' = "waitForLoginResponse"
<1>1. CASE LoginCallbackFails
  BY <1>1 DEF LoginOutcome, Return
<1>2. CASE ~LoginCallbackFails /\ MessageType(m) = <<"response">>
  <2>1. Has(m, "response", "plain")
    <3>1. ASSUME ~Has(m, "response", "plain") PROVE FALSE
      <4>1. MessageType(m) # <<"response">>
        <5> DEFINE top == {t \in {"greeting", "hello", "command", "response"} : Has(m, t, "plain")}
        <5>1. "greeting" \in top
          BY <3>1 DEF Early
        <5>2. top # {"command"} /\ top # {"response"}
          <6> HIDE DEF top
          <6> QED BY <5>1
        <5>3. MessageType(m) \in {<<"greeting">>, <<"hello">>, <<"generic">>}
          BY <5>2 DEF MessageType
        <5> QED BY <5>3
      <4> QED BY <1>2, <4>1
    <3> QED BY <3>1
  <2>2. IsError(m)
    <3>1. ASSUME NEW r, Refuses(r) PROVE r.code \in 2000 .. 2999
      BY <3>1 DEF Refuses
    <3>2. Refuses(m[<<"response", "plain">>])
      BY <2>1 DEF Early
    <3> QED BY <3>1, <3>2 DEF IsError
  <2> QED BY <1>2, <2>2 DEF LoginOutcome, Return
<1>3. CASE ~LoginCallbackFails /\ MessageType(m) # <<"response">>
  BY <1>3 DEF LoginOutcome, Return
<1> QED BY <1>1, <1>2, <1>3

LEMMA StartFSMKeeps ==
  ASSUME Inv, StartFSM, UNCHANGED <<serverVars, superVars>>
  PROVE  Inv'
<1>1. /\ Others /\ UNCHANGED <<NewWork, RecvChannel>> /\ fsm = "top" /\ fsm' = "select"
      /\ currentState' = currentState \/ currentState' = "shutdownRequested"
  BY DEF StartFSM, Others, wire, serverVars
<1>2. NotLoggedIn => currentState' \in Unready
  BY <1>1 DEF Inv, BeforeLogin, Unready
<1>3. currentState' \in Turn => currentState \in Turn
  BY <1>1 DEF Turn
<1>4. currentState' = "waitForCommandResponse" => currentState = "waitForCommandResponse"
  BY <1>1
<1>5. fsm \in {"top", "select"} /\ fsm' \in {"top", "select", "ended"}
  BY <1>1
<1> QED BY <1>1, <1>2, <1>3, <1>4, <1>5, Moves

(* Handlers that send what no call asked for. *)
LEMMA SendersKeep ==
  ASSUME Inv, UNCHANGED <<serverVars, superVars>>,
         prepareLoginState \/ waitForWorkHelloState \/ prepareLogoutState
  PROVE  Inv'
<1>1. /\ Others /\ UNCHANGED <<NewWork, RecvChannel>> /\ fsm' = "sending"
      /\ pending'.to = "SendChannel"
  BY DEF prepareLoginState, waitForWorkHelloState, prepareLogoutState, Put, KeepChannels,
         KeepLink, wire, Others, serverVars
<1>2. CASE prepareLoginState
  <2>1. /\ Runs(Turn) /\ pending'.next = "waitForLoginResponse"
        /\ pending'.msg = GetEPPLogin(OwnTx)
    BY <1>2 DEF prepareLoginState, Put, In, Runs, Turn
  <2> QED BY <1>1, <2>1, Sends, LoginIsNoWork
<1>3. CASE waitForWorkHelloState
  <2>1. /\ Runs(Turn) /\ pending'.next = "waitingForWorkHelloResp"
        /\ fsm = "select" /\ currentState = "waitingForWorkHello"
    BY <1>3 DEF waitForWorkHelloState, Put, In, Runs, Turn
  <2> QED BY <1>1, <2>1, Sends DEF Inv, BeforeLogin, Unready
<1>4. CASE prepareLogoutState
  <2>1. /\ Runs(Turn) /\ pending'.next = "waitLogout"
        /\ fsm = "select" /\ currentState = "preparelogout"
    BY <1>4 DEF prepareLogoutState, Put, In, Runs, Turn
  <2> QED BY <1>1, <2>1, Sends DEF Inv, BeforeLogin, Unready
<1> QED BY <1>2, <1>3, <1>4

(* Handlers that wait for no message. *)
LEMMA GoersKeep ==
  ASSUME Inv, UNCHANGED <<serverVars, superVars>>,
         closedConnectionState \/ newConnectionState \/ shutdownState
  PROVE  Inv'
<1>1. /\ Others /\ UNCHANGED <<NewWork, RecvChannel>> /\ fsm = "select"
      /\ fsm' \in {"top", "ended"}
      /\ fsm' # "ended" => currentState' \in {"newConnection", "openedConnection"}
  BY DEF closedConnectionState, newConnectionState, shutdownState, In, Return, KeepChannels,
         KeepLink, wire, Others, serverVars
<1> QED BY <1>1, Moves DEF Turn, Unready

(* Handlers that wait for a message and put nothing on a channel. *)
TookOne == RecvChannel # <<>> /\ RecvChannel' = Tail(RecvChannel)

LEMMA WaitersKeep ==
  ASSUME Inv, UNCHANGED <<serverVars, superVars>>,
         openedConnectionState \/ waitLoginState \/ waitForWorkHelloRespState \/ waitLogoutState
  PROVE  Inv'
<1>1. /\ Others /\ UNCHANGED NewWork /\ fsm = "select"
      /\ UNCHANGED RecvChannel \/ TookOne
      /\ fsm' \in {"top", "ended"}
  <2>1. CASE openedConnectionState
    BY <2>1 DEF openedConnectionState, In, OnStop, OnTimeout, Take, Return, KeepChannels,
                KeepLink, wire, Others, serverVars, TookOne
  <2>2. CASE waitLoginState
    BY <2>2 DEF waitLoginState, LoginOutcome, In, OnStop, OnTimeout, Take, Return, KeepChannels,
                KeepLink, wire, Others, serverVars, TookOne
  <2>3. CASE waitForWorkHelloRespState
    BY <2>3 DEF waitForWorkHelloRespState, In, OnStop, OnTimeout, Take, Return, KeepChannels,
                KeepLink, wire, Others, serverVars, TookOne
  <2>4. CASE waitLogoutState
    BY <2>4 DEF waitLogoutState, In, OnStop, OnTimeout, Take, Return, KeepChannels,
                KeepLink, wire, Others, serverVars, TookOne
  <2> QED BY <2>1, <2>2, <2>3, <2>4
<1>2. CASE openedConnectionState
  <2>1. ASSUME fsm' # "ended"
        PROVE  \/ currentState' = "shutdownRequested"
               \/ currentState' = "prepareLogin" /\ TookOne
    BY <1>2, <2>1 DEF openedConnectionState, OnStop, OnTimeout, Take, Return, TookOne
  <2> QED BY <1>1, <2>1, Moves DEF Turn, Unready, TookOne
<1>3. CASE waitLoginState
  <2>1. ASSUME fsm' # "ended"
        PROVE  \/ currentState' = "shutdownRequested"
               \/ \E m \in ToSet(RecvChannel) : LoginOutcome(m) /\ TookOne
    BY <1>3, <2>1 DEF waitLoginState, OnStop, OnTimeout, Take, Return, TookOne
  <2>2. ASSUME fsm' # "ended", NEW m \in ToSet(RecvChannel), LoginOutcome(m), TookOne
        PROVE  /\ currentState' \in {"waitingForWork", "waitForLoginResponse"}
               /\ NotLoggedIn => currentState' \in Unready
    <3>1. currentState' \in {"waitingForWork", "waitForLoginResponse"}
      BY <2>2, LoginCallbackAssumption DEF LoginOutcome, Return
    <3>2. NotLoggedIn => Early(m)
      BY <2>2 DEF Inv, BeforeLogin
    <3> QED BY <2>2, <3>1, <3>2, EarlyOutcome DEF Unready
  <2>3. ASSUME fsm' # "ended"
        PROVE  \/ currentState' = "shutdownRequested"
               \/ /\ currentState' \in {"waitingForWork", "waitForLoginResponse"}
                  /\ NotLoggedIn => currentState' \in Unready
                  /\ TookOne
    BY <2>1, <2>2, <2>3
  <2> QED BY <1>1, <2>3, Moves DEF Turn, Unready, TookOne
<1>4. CASE waitForWorkHelloRespState
  <2>1. ASSUME fsm' # "ended"
        PROVE  \/ currentState' = "shutdownRequested"
               \/ currentState' \in {"waitingForWork", "waitingForWorkHelloResp"} /\ TookOne
    BY <1>4, <2>1 DEF waitForWorkHelloRespState, OnStop, OnTimeout, Take, Return, TookOne
  <2>2. ~NotLoggedIn
    BY <1>4 DEF waitForWorkHelloRespState, In, Inv, BeforeLogin, Unready
  <2> QED BY <1>1, <2>1, <2>2, Moves DEF Turn, TookOne
<1>5. CASE waitLogoutState
  <2>1. fsm' # "ended" => currentState' = "shutdownRequested"
    BY <1>5 DEF waitLogoutState, OnStop, OnTimeout, Take, Return
  <2> QED BY <1>1, <2>1, Moves DEF Turn, Unready, TookOne
<1> QED BY <1>2, <1>3, <1>4, <1>5

LEMMA waitForWorkKeeps ==
  ASSUME Inv, UNCHANGED <<serverVars, superVars>>, waitForWorkState
  PROVE  Inv'
<1>1. Others /\ In("waitingForWork") /\ Runs(Turn) /\ fsm = "select"
  BY DEF waitForWorkState, KeepLink, wire, Others, serverVars, In, Runs, Turn
<1>2. RecvChannel = <<>> /\ ~NotLoggedIn
  <2>1. InFlight = 0
    BY <1>1 DEF Inv, Lockstep
  <2>2. ~NotLoggedIn
    BY <1>1 DEF Inv, BeforeLogin, Unready, In
  <2> QED BY <2>1, <2>2, Lengths DEF InFlight, Inv
<1>3. \/ /\ NewWork # <<>> /\ NewWork' = Tail(NewWork)
         /\ Put("SendChannel", Head(NewWork), "waitForCommandResponse")
         /\ UNCHANGED RecvChannel
      \/ /\ UNCHANGED <<NewWork, RecvChannel>> /\ fsm' \in {"top", "ended"}
         /\ fsm' # "ended" =>
              currentState' \in {"shutdownRequested", "waitingForWorkHello", "preparelogout"}
  BY <1>2 DEF waitForWorkState, OnStop, OnTimeout, Take, Return
<1>4. CASE /\ NewWork # <<>> /\ NewWork' = Tail(NewWork)
           /\ Put("SendChannel", Head(NewWork), "waitForCommandResponse")
           /\ UNCHANGED RecvChannel
  BY <1>1, <1>4, TakesWork DEF Put
<1>5. CASE /\ UNCHANGED <<NewWork, RecvChannel>> /\ fsm' \in {"top", "ended"}
           /\ fsm' # "ended" =>
                currentState' \in {"shutdownRequested", "waitingForWorkHello", "preparelogout"}
  <2>1. currentState \in Turn
    BY <1>1 DEF Runs
  <2> QED BY <1>1, <1>2, <1>5, <2>1, Moves
<1> QED BY <1>3, <1>4, <1>5

LEMMA waitForCommandResponseKeeps ==
  ASSUME Inv, UNCHANGED <<serverVars, superVars>>, waitForCommandResponseState
  PROVE  Inv'
<1>1. /\ Others /\ UNCHANGED NewWork /\ In("waitForCommandResponse") /\ fsm = "select"
      /\ currentState = "waitForCommandResponse"
  BY DEF waitForCommandResponseState, KeepLink, KeepChannels, wire, Others, serverVars, In
<1>2. \/ \E m \in ToSet(RecvChannel) : Take(m) /\ Put("WorkResponse", m, "waitingForWork")
      \/ /\ UNCHANGED RecvChannel /\ fsm' \in {"top", "ended"}
         /\ fsm' # "ended" => currentState' = "shutdownRequested"
  BY DEF waitForCommandResponseState, OnStop, OnTimeout, Return
<1>3. CASE \E m \in ToSet(RecvChannel) : Take(m) /\ Put("WorkResponse", m, "waitingForWork")
  BY <1>1, <1>3, PassesOn DEF Take, Put
<1>4. CASE /\ UNCHANGED RecvChannel /\ fsm' \in {"top", "ended"}
           /\ fsm' # "ended" => currentState' = "shutdownRequested"
  BY <1>1, <1>4, Moves DEF Turn, Unready
<1> QED BY <1>2, <1>3, <1>4

LEMMA ClientKeeps ==
  ASSUME Inv, Client, UNCHANGED <<serverVars, superVars>>
  PROVE  Inv'
  BY StartFSMKeeps, DeliverKeeps, SendersKeep, GoersKeep, WaitersKeep, waitForWorkKeeps,
     waitForCommandResponseKeeps DEF Client, Handler

-----------------------------------------------------------------------------
(* Steps of the other goroutines, of the network and of the peer *)

(* Messages on their way move on, are answered or get lost. *)
Silent ==
  UNCHANGED <<currentState, fsm, pending, NewWork, WorkResponse, superVars>>

LEMMA Carries ==
  ASSUME Inv, Silent,
         (IsSeq(SendChannel) /\ IsSeq(toServer) /\ IsSeq(toClient) /\ IsSeq(RecvChannel))',
         InFlight' <= InFlight, InFlight' \in Nat,
         AtWork /\ TimedOut = {} =>
           /\ \A m \in (ToSet(SendChannel) \cup ToSet(toServer))' : Asks(m, Present)
           /\ \A m \in (ToSet(toClient) \cup ToSet(RecvChannel))' : AnswerTo(m, Present),
         NotLoggedIn' =>
           /\ NotLoggedIn
           /\ \A m \in (ToSet(SendChannel) \cup ToSet(toServer))' : ~IsWork(m)
           /\ \A m \in (ToSet(toClient) \cup ToSet(RecvChannel))' : Early(m)
  PROVE  Inv'
<1> USE DEF Silent, superVars
<1>1. Sequences'
  BY DEF Inv, Sequences
<1>2. Sending'
  BY DEF Inv, Sending
<1>3. InFlight \in Nat
  BY Lengths DEF InFlight, Inv
<1>4. Runs(Turn)' <=> Runs(Turn)
  BY DEF Runs
<1>5. Lockstep'
  BY <1>3, <1>4 DEF Inv, Lockstep
<1>6. /\ UNCHANGED <<TimedOut, Waiting, Present>>
      /\ AtWork' <=> AtWork
      /\ Puts("WorkResponse")' <=> Puts("WorkResponse")
  BY DEF TimedOut, Waiting, Present, AtWork, Puts, Runs
<1>7. GivenUp'
  BY <1>6 DEF Inv, GivenUp, Outstanding
<1>8. Labelled'
  BY <1>6 DEF Inv, Labelled
<1>9. BeforeLogin'
  BY DEF Inv, BeforeLogin
<1>10. AnswersMatchCalls'
  BY DEF Inv, AnswersMatchCalls
<1> QED BY <1>1, <1>2, <1>5, <1>7, <1>8, <1>9, <1>10 DEF Inv

LEMMA EPPSenderKeeps ==
  ASSUME Inv, EPPSender, UNCHANGED <<serverVars, superVars>>
  PROVE  Inv'
<1>1. /\ Silent /\ UNCHANGED <<toClient, RecvChannel, peer, serverState>>
      /\ SendChannel # <<>> /\ SendChannel' = Tail(SendChannel)
      /\ \/ toServer' = toServer
         \/ toServer' = Append(toServer, Head(SendChannel))
  BY DEF EPPSender, Silent, serverVars
<1>2. /\ IsSeq(SendChannel') /\ Len(SendChannel') = Len(SendChannel) - 1
      /\ ToSet(SendChannel') \subseteq ToSet(SendChannel)
      /\ Head(SendChannel) \in ToSet(SendChannel)
  BY <1>1, TailSeq DEF Inv, Sequences
<1>3. /\ IsSeq(toServer') /\ Len(toServer') \in Nat /\ Len(toServer') <= Len(toServer) + 1
      /\ ToSet(toServer') \subseteq ToSet(toServer) \cup ToSet(SendChannel)
  <2>1. IsSeq(toServer) /\ Len(toServer) \in Nat
    BY Lengths DEF Inv, Sequences
  <2>2. CASE toServer' = toServer
    BY <2>1, <2>2
  <2>3. CASE toServer' = Append(toServer, Head(SendChannel))
    BY <1>2, <2>1, <2>3, AppendSeq
  <2> QED BY <1>1, <2>2, <2>3
<1>4. /\ InFlight' <= InFlight /\ InFlight' \in Nat
      /\ (IsSeq(SendChannel) /\ IsSeq(toServer) /\ IsSeq(toClient) /\ IsSeq(RecvChannel))'
  BY <1>1, <1>2, <1>3, Lengths, LenOfSeq DEF InFlight, Inv, Sequences
<1> QED BY <1>1, <1>2, <1>3, <1>4, Carries DEF Inv, Labelled, BeforeLogin, NotLoggedIn

LEMMA EPPListenerKeeps ==
  ASSUME Inv, EPPListener, UNCHANGED <<serverVars, superVars>>
  PROVE  Inv'
<1>1. CASE toClient # <<>> /\ toClient' = Tail(toClient)
  <2>1. /\ Silent /\ UNCHANGED <<SendChannel, toServer, peer, serverState>>
        /\ \/ RecvChannel' = RecvChannel
           \/ RecvChannel' = Append(RecvChannel, Received(Head(toClient)))
    BY DEF EPPListener, Silent, serverVars, Received
  <2>2. /\ IsSeq(toClient') /\ Len(toClient') = Len(toClient) - 1
        /\ ToSet(toClient') \subseteq ToSet(toClient) /\ Head(toClient) \in ToSet(toClient)
    BY <1>1, TailSeq DEF Inv, Sequences
  <2>3. /\ IsSeq(RecvChannel') /\ Len(RecvChannel') \in Nat
        /\ Len(RecvChannel') <= Len(RecvChannel) + 1
        /\ ToSet(RecvChannel') \subseteq ToSet(RecvChannel) \cup {Received(Head(toClient))}
    <3>1. IsSeq(RecvChannel) /\ Len(RecvChannel) \in Nat
      BY Lengths DEF Inv, Sequences
    <3>2. CASE RecvChannel' = RecvChannel
      BY <3>1, <3>2
    <3>3. CASE RecvChannel' = Append(RecvChannel, Received(Head(toClient)))
      BY <3>1, <3>3, AppendSeq
    <3> QED BY <2>1, <3>2, <3>3
  <2>4. /\ InFlight' <= InFlight /\ InFlight' \in Nat
        /\ (IsSeq(SendChannel) /\ IsSeq(toServer) /\ IsSeq(toClient) /\ IsSeq(RecvChannel))'
    BY <2>1, <2>2, <2>3, Lengths, LenOfSeq DEF InFlight, Inv, Sequences
  <2>5. AtWork /\ TimedOut = {} => AnswerTo(Received(Head(toClient)), Present)
    BY <2>2, ReceivedAlike DEF Inv, Labelled
  <2>6. NotLoggedIn => Early(Received(Head(toClient)))
    BY <2>2, ReceivedAlike DEF Inv, BeforeLogin
  <2> QED BY <2>1, <2>2, <2>3, <2>4, <2>5, <2>6, Carries DEF Inv, Labelled, BeforeLogin, NotLoggedIn
<1>2. CASE UNCHANGED <<toClient, RecvChannel>>
  <2>1. Silent /\ UNCHANGED <<SendChannel, toServer, toClient, RecvChannel, peer, serverState>>
    BY <1>2 DEF EPPListener, Silent, serverVars
  <2>2. UNCHANGED InFlight /\ InFlight \in Nat
    BY <2>1, Lengths DEF InFlight, Inv
  <2> QED BY <2>1, <2>2, Carries DEF Inv, Labelled, BeforeLogin, NotLoggedIn, Sequences
<1> QED BY <1>1, <1>2 DEF EPPListener

LEMMA StopKeeps ==
  ASSUME Inv, Stop, UNCHANGED <<serverVars, superVars>>
  PROVE  Inv'
<1>1. Silent /\ UNCHANGED <<SendChannel, toServer, toClient, RecvChannel, peer, serverState>>
  BY DEF Stop, wire, Silent, serverVars
<1>2. UNCHANGED InFlight /\ InFlight \in Nat
  BY <1>1, Lengths DEF InFlight, Inv
<1> QED BY <1>1, <1>2, Carries DEF Inv, Labelled, BeforeLogin, NotLoggedIn, Sequences

LEMMA CutKeeps ==
  ASSUME Inv, Cut, UNCHANGED <<clientVars, serverVars, superVars>>
  PROVE  Inv'
<1>1. /\ Silent /\ UNCHANGED <<SendChannel, RecvChannel, peer, serverState>>
      /\ toServer' = <<>> /\ toClient' = <<>>
  BY DEF Cut, clientVars, channels, serverVars, Silent
<1>2. InFlight' <= InFlight /\ InFlight' \in Nat
  BY <1>1, Lengths, NoneIsSeq DEF InFlight, Inv
<1>3. /\ IsSeq(toServer') /\ IsSeq(toClient')
      /\ ToSet(toServer') = {} /\ ToSet(toClient') = {}
  BY <1>1, NoneIsSeq
<1> QED BY <1>1, <1>2, <1>3, Carries DEF Inv, Labelled, BeforeLogin, NotLoggedIn, Sequences

(* The peer takes a message and sends at most one for it. *)
LEMMA Replies ==
  ASSUME Inv, Silent, UNCHANGED <<SendChannel, RecvChannel>>,
         serverState # "PrepareGreeting", serverState' # "PrepareGreeting",
         toServer # <<>>, toServer' = Tail(toServer),
         NotLoggedIn' => NotLoggedIn,
         \/ toClient' = toClient
         \/ \E r : /\ toClient' = Append(toClient, r)
                   /\ \A c : Asks(Head(toServer), c) => AnswerTo(r, c)
                   /\ NotLoggedIn' => Early(r)
  PROVE  Inv'
<1>1. /\ IsSeq(toServer') /\ Len(toServer') = Len(toServer) - 1 /\ Len(toServer) >= 1
      /\ ToSet(toServer') \subseteq ToSet(toServer) /\ Head(toServer) \in ToSet(toServer)
  BY TailSeq DEF Inv, Sequences
<1>2. /\ IsSeq(toClient') /\ Len(toClient') \in Nat /\ Len(toClient') <= Len(toClient) + 1
      /\ \A m \in ToSet(toClient') :
           \/ m \in ToSet(toClient)
           \/ /\ \A c : Asks(Head(toServer), c) => AnswerTo(m, c)
              /\ NotLoggedIn' => Early(m)
  <2>1. IsSeq(toClient) /\ Len(toClient) \in Nat
    BY Lengths DEF Inv, Sequences
  <2>2. CASE toClient' = toClient
    BY <2>1, <2>2
  <2>3. CASE toClient' # toClient
    <3>1. PICK r : /\ toClient' = Append(toClient, r)
                   /\ \A c : Asks(Head(toServer), c) => AnswerTo(r, c)
                   /\ NotLoggedIn' => Early(r)
      BY <2>3
    <3>2. /\ IsSeq(toClient') /\ Len(toClient') = Len(toClient) + 1
          /\ \A m \in ToSet(toClient') : m \in ToSet(toClient) \/ m = r
      BY <2>1, <3>1, AppendSeq
    <3>3. Len(toClient') \in Nat /\ Len(toClient') <= Len(toClient) + 1
      BY <2>1, <3>2
    <3> QED BY <3>1, <3>2, <3>3
  <2> QED BY <2>2, <2>3
<1>3. /\ InFlight' <= InFlight /\ InFlight' \in Nat
      /\ (IsSeq(SendChannel) /\ IsSeq(toServer) /\ IsSeq(toClient) /\ IsSeq(RecvChannel))'
  BY <1>1, <1>2, Lengths DEF InFlight, Inv, Sequences
<1>4. ASSUME AtWork, TimedOut = {}
      PROVE  /\ \A m \in (ToSet(SendChannel) \cup ToSet(toServer))' : Asks(m, Present)
             /\ \A m \in (ToSet(toClient) \cup ToSet(RecvChannel))' : AnswerTo(m, Present)
  BY <1>1, <1>2, <1>4 DEF Inv, Labelled
<1>5. ASSUME NotLoggedIn'
      PROVE  /\ NotLoggedIn
             /\ \A m \in (ToSet(SendChannel) \cup ToSet(toServer))' : ~IsWork(m)
             /\ \A m \in (ToSet(toClient) \cup ToSet(RecvChannel))' : Early(m)
  BY <1>1, <1>2, <1>5 DEF Inv, BeforeLogin
<1> QED BY <1>3, <1>4, <1>5, Carries

(* The peer greets. *)
LEMMA Greets ==
  ASSUME Inv, Silent, UNCHANGED <<SendChannel, toServer, RecvChannel, peer>>,
         serverState = "PrepareGreeting", serverState' # "PrepareGreeting",
         WriteEPP(GetEPPGreeting)
  PROVE  Inv'
<1>1. /\ IsSeq(toClient') /\ Len(toClient') = Len(toClient) + 1
      /\ ToSet(toClient') = ToSet(toClient) \cup {GetEPPGreeting}
  BY AppendSeq DEF WriteEPP, Inv, Sequences
<1>2. /\ InFlight' <= InFlight /\ InFlight' \in Nat
      /\ (IsSeq(SendChannel) /\ IsSeq(toServer) /\ IsSeq(toClient) /\ IsSeq(RecvChannel))'
  BY <1>1, Lengths DEF InFlight, Inv, Sequences
<1>3. Early(GetEPPGreeting)
  BY DEF Early, GetEPPGreeting, Part, Has
<1>4. ~AtWork
  <2>1. InFlight > 0
    BY Lengths DEF InFlight, Inv
  <2>2. fsm # "sending"
    BY <2>1 DEF Inv, Lockstep
  <2> QED BY <2>2 DEF AtWork, Inv, BeforeLogin, NotLoggedIn, Runs, Unready
<1> QED BY <1>1, <1>2, <1>3, <1>4, Carries DEF Inv, BeforeLogin, NotLoggedIn

LEMMA HandleWaitingForClientKeeps ==
  ASSUME Inv, HandleWaitingForClient, UNCHANGED <<clientVars, superVars>>
  PROVE  Inv'
<1> DEFINE m == UnmarshalMessage(Head(toServer))
<1>1. /\ Silent /\ UNCHANGED <<SendChannel, RecvChannel, peer>> /\ peer = "server"
      /\ serverState = "WaitingForClient"
      /\ toServer # <<>> /\ toServer' = Tail(toServer)
  BY DEF HandleWaitingForClient, Silent, clientVars, channels, KeepPeer
<1>2. \E code : /\ toClient' = Append(toClient, Reply(m, code))
                /\ serverState' \in {"WaitingForCommand", "CloseConnection", "WaitingForClient"}
                /\ serverState' = "WaitingForClient" => code = 2200
  BY DEF HandleWaitingForClient, WriteEPP
<1>3. PICK code : /\ toClient' = Append(toClient, Reply(m, code))
                  /\ serverState' \in {"WaitingForCommand", "CloseConnection", "WaitingForClient"}
                  /\ serverState' = "WaitingForClient" => code = 2200
  BY <1>2
<1>4. \A c : Asks(Head(toServer), c) => AnswerTo(Reply(m, code), c)
  BY ReceivedAlike, ReplyAnswers
<1>5. Early(Reply(m, 2200))
  BY DEF Early, Reply, GetEPPResponse, Part, Has, Refuses
<1>6. NotLoggedIn' => NotLoggedIn /\ Early(Reply(m, code))
  BY <1>1, <1>3, <1>5 DEF NotLoggedIn
<1> HIDE DEF m
<1>7. \E r : /\ toClient' = Append(toClient, r)
             /\ \A c : Asks(Head(toServer), c) => AnswerTo(r, c)
             /\ NotLoggedIn' => Early(r)
  BY <1>3, <1>4, <1>6
<1> QED BY <1>1, <1>3, <1>6, <1>7, Replies

LEMMA handleDomainUpdateAnswers ==
  ASSUME NEW m, handleDomainUpdate(m), serverState = "WaitingForCommand"
  PROVE  /\ toClient' = toClient \/ \E code : toClient' = Append(toClient, Reply(m, code))
         /\ serverState' \in {"WaitingForCommand", "ended"}
  BY DEF handleDomainUpdate, WriteEPP

LEMMA HandleWaitingForCommandKeeps ==
  ASSUME Inv, HandleWaitingForCommand, UNCHANGED <<clientVars, superVars>>
  PROVE  Inv'
<1> DEFINE m == Received(Head(toServer))
<1>1. /\ Silent /\ UNCHANGED <<SendChannel, RecvChannel, peer>>
      /\ serverState = "WaitingForCommand"
      /\ toServer # <<>> /\ toServer' = Tail(toServer)
  BY DEF HandleWaitingForCommand, Silent, clientVars, channels, KeepPeer
<1>2. \/ /\ TypedMessagePanics(UnmarshalMessage(Head(toServer)))
         /\ toClient' = toClient /\ serverState' = "ended"
      \/ handleDomainUpdate(m)
      \/ /\ toClient' = toClient \o SetToSeq(Answered(m))
         /\ serverState' \in {"CloseConnection", "ended", "WaitingForCommand"}
  <2> DEFINE u == UnmarshalMessage(Head(toServer))
             panics == TypedMessagePanics(u)
  <2>1. CASE panics
    BY <2>1 DEF HandleWaitingForCommand
  <2>2. CASE ~panics /\ MessageType(TypedMessage(u)) = <<"command", "update", "domain">>
    BY <2>2 DEF HandleWaitingForCommand, Received
  <2>3. CASE ~panics /\ MessageType(TypedMessage(u)) # <<"command", "update", "domain">>
    BY <2>3, <1>1 DEF HandleWaitingForCommand, Received
  <2> QED BY <2>1, <2>2, <2>3
<1>3. \A c : Asks(Head(toServer), c) => Asks(m, c)
  BY ReceivedAlike
<1> HIDE DEF m
<1>4. \A code, c : Asks(Head(toServer), c) => AnswerTo(Reply(m, code), c)
  BY <1>3, ReplyAnswers
<1>5. serverState' \in {"CloseConnection", "ended", "WaitingForCommand"}
  BY <1>1, <1>2, handleDomainUpdateAnswers
<1>6. ~NotLoggedIn'
  BY <1>1, <1>5 DEF NotLoggedIn
<1>7. CASE handleDomainUpdate(m)
  <2>1. toClient' = toClient \/ \E code : toClient' = Append(toClient, Reply(m, code))
    BY <1>1, <1>7, handleDomainUpdateAnswers
  <2> QED BY <1>1, <1>4, <1>5, <1>6, <2>1, Replies
<1>8. CASE toClient' = toClient \o SetToSeq(Answered(m))
  <2>1. IsSeq(toClient)
    BY DEF Inv, Sequences
  <2>2. CASE Answered(m) = {}
    <3>1. toClient' = toClient
      BY <1>8, <2>1, <2>2, NoneAsSeq DEF IsSeq
    <3> QED BY <1>1, <1>5, <1>6, <3>1, Replies
  <2>3. CASE Answered(m) # {}
    <3>1. PICK r : Answered(m) = {r} /\ \A c : Asks(m, c) => AnswerTo(r, c)
      BY <2>3, AnsweredAtMostOnce
    <3>2. toClient' = Append(toClient, r)
      BY <1>8, <2>1, <3>1, OneAsSeq, ConcatOne
    <3>3. \A c : Asks(Head(toServer), c) => AnswerTo(r, c)
      BY <1>3, <3>1
    <3> QED BY <1>1, <1>5, <1>6, <3>2, <3>3, Replies
  <2> QED BY <2>2, <2>3
<1>9. CASE toClient' = toClient /\ serverState' = "ended"
  BY <1>1, <1>6, <1>9, Replies
<1> QED BY <1>2, <1>7, <1>8, <1>9

LEMMA RegistryAnswersKeeps ==
  ASSUME Inv, NEW code, RegistryAnswers(code), UNCHANGED <<clientVars, superVars>>
  PROVE  Inv'
<1> DEFINE m == Head(toServer)
           hello == Has(m, "hello", "plain")
           answer == Reply(m, IF Has(m, "logout", "plain") THEN 1500 ELSE code)
           r == IF hello THEN GetEPPGreeting ELSE answer
<1>1. /\ Silent /\ UNCHANGED <<SendChannel, RecvChannel, peer>> /\ peer = "registry"
      /\ serverState = "WaitingForCommand"
      /\ toServer # <<>> /\ toServer' = Tail(toServer)
  BY DEF RegistryAnswers, Silent, clientVars, channels, KeepPeer
<1>2. /\ toClient' = Append(toClient, r)
      /\ serverState' \in {"ended", "WaitingForCommand"}
  BY <1>1 DEF RegistryAnswers, WriteEPP
<1>3. \A c : Asks(m, c) => AnswerTo(r, c)
  BY ReplyAnswers DEF Asks
<1>4. ~NotLoggedIn'
  BY <1>1, <1>2 DEF NotLoggedIn
<1> HIDE DEF r
<1> QED BY <1>1, <1>2, <1>3, <1>4, Replies

LEMMA CloseKeeps ==
  ASSUME Inv, Close, UNCHANGED <<clientVars, superVars>>
  PROVE  Inv'
<1>1. /\ Silent /\ UNCHANGED <<SendChannel, toServer, toClient, RecvChannel, peer>>
      /\ serverState # "PrepareGreeting" /\ serverState' = "ended"
  BY DEF Close, Silent, clientVars, channels, KeepPeer
<1>2. UNCHANGED InFlight /\ InFlight \in Nat
  BY <1>1, Lengths DEF InFlight, Inv
<1>3. ~NotLoggedIn'
  BY <1>1 DEF NotLoggedIn
<1> QED BY <1>1, <1>2, <1>3, Carries DEF Inv, Labelled, Sequences

LEMMA GreetingKeeps ==
  ASSUME Inv, PrepareGreeting \/ RegistryGreets, UNCHANGED <<clientVars, superVars>>
  PROVE  Inv'
<1>1. /\ Silent /\ UNCHANGED <<SendChannel, toServer, RecvChannel, peer>>
      /\ serverState = "PrepareGreeting" /\ serverState' # "PrepareGreeting"
      /\ WriteEPP(GetEPPGreeting)
  BY DEF PrepareGreeting, RegistryGreets, Silent, clientVars, channels, KeepPeer
<1> QED BY <1>1, Greets

LEMMA PeerKeeps ==
  ASSUME Inv, Peer
  PROVE  Inv'
  BY GreetingKeeps, HandleWaitingForClientKeeps, HandleWaitingForCommandKeeps, CloseKeeps,
     RegistryAnswersKeeps DEF Peer, Handle, Registry

-----------------------------------------------------------------------------
(* Steps of the super client *)

LEMMA Steady ==
  ASSUME Inv, KeepClient
  PROVE  /\ Sending' /\ Lockstep' /\ BeforeLogin'
         /\ (IsSeq(SendChannel) /\ IsSeq(toServer) /\ IsSeq(toClient) /\ IsSeq(RecvChannel))'
         /\ AtWork' <=> AtWork
         /\ Puts("WorkResponse")' <=> Puts("WorkResponse")
         /\ UNCHANGED <<fsm, pending, SendChannel, toServer, toClient, RecvChannel>>
<1> USE DEF KeepClient, wire, serverVars
<1>1. Sending'
  BY DEF Inv, Sending
<1>2. Lockstep'
  BY DEF Inv, Lockstep, InFlight, Runs
<1>3. BeforeLogin'
  BY DEF Inv, BeforeLogin, NotLoggedIn
<1>4. (IsSeq(SendChannel) /\ IsSeq(toServer) /\ IsSeq(toClient) /\ IsSeq(RecvChannel))'
  BY DEF Inv, Sequences
<1>5. (AtWork' <=> AtWork) /\ (Puts("WorkResponse")' <=> Puts("WorkResponse"))
  BY DEF AtWork, Puts, Runs
<1> QED BY <1>1, <1>2, <1>3, <1>4, <1>5

(* A call returns, and the earlier results stay. *)
LEMMA Returns ==
  ASSUME Sequences, NEW result, results' = Append(results, result)
  PROVE  /\ IsSeq(results') /\ Len(results') = Len(results) + 1 /\ Len(results) \in Nat
         /\ results'[Len(results) + 1] = result
         /\ \A i \in 1 .. Len(results) : results'[i] = results[i]
         /\ TimedOut' = TimedOut \cup (IF result.outcome = "timeout" THEN {Len(results) + 1} ELSE {})
         /\ Cardinality(TimedOut) \in Nat
         /\ Cardinality(TimedOut') =
              Cardinality(TimedOut) + (IF result.outcome = "timeout" THEN 1 ELSE 0)
<1>1. IsSeq(results) /\ Len(results) \in Nat /\ results \in Seq(ToSet(results) \cup {result})
  BY Lengths DEF Sequences, IsSeq
<1>2. IsSeq(results') /\ Len(results') = Len(results) + 1
  BY <1>1, AppendSeq
<1>3. \A i \in 1 .. Len(results) : results'[i] = results[i]
  BY <1>1
<1>4. results'[Len(results) + 1] = result
  BY <1>1
<1> DEFINE more == IF result.outcome = "timeout" THEN {Len(results) + 1} ELSE {}
<1>5. 1 .. Len(results) + 1 = (1 .. Len(results)) \cup {Len(results) + 1}
  BY <1>1
<1>6. TimedOut' = TimedOut \cup more
  <2>1. TimedOut' = {i \in 1 .. Len(results) + 1 : results'[i].outcome = "timeout"}
    BY <1>2 DEF TimedOut
  <2>2. \A i \in 1 .. Len(results) : results'[i].outcome = "timeout" <=> i \in TimedOut
    BY <1>3 DEF TimedOut
  <2>3. results'[Len(results) + 1].outcome = "timeout" <=> Len(results) + 1 \in more
    BY <1>4
  <2>4. TimedOut \subseteq 1 .. Len(results) /\ more \subseteq {Len(results) + 1}
    BY DEF TimedOut
  <2> QED BY <1>1, <1>5, <2>1, <2>2, <2>3, <2>4
<1>7. IsFiniteSet(TimedOut) /\ Len(results) + 1 \notin TimedOut
  <2>1. IsFiniteSet(1 .. Len(results))
    BY <1>1, FS_Interval
  <2> QED BY <1>1, <2>1, FS_Subset DEF TimedOut
<1>8. Cardinality(TimedOut) \in Nat
  BY <1>7, FS_CardinalityType
<1>9. Cardinality(TimedOut') = Cardinality(TimedOut) + (IF result.outcome = "timeout" THEN 1 ELSE 0)
  <2>1. CASE result.outcome = "timeout"
    BY <1>6, <1>7, <2>1, FS_AddElement
  <2>2. CASE result.outcome # "timeout"
    <3>1. TimedOut' = TimedOut
      BY <1>6, <2>2
    <3> QED BY <1>8, <2>2, <3>1
  <2> QED BY <2>1, <2>2
<1> QED BY <1>1, <1>2, <1>3, <1>4, <1>6, <1>8, <1>9

(* Steps that leave NewWork, WorkResponse and the results alone. *)
LEMMA CallerKeeps ==
  ASSUME Inv, KeepClient, UNCHANGED <<NewWork, WorkResponse, results>>,
         caller # "waiting", caller' # "waiting",
         caller' = "submitting" => Asks(call', Present)
  PROVE  Inv'
<1>1. Sequences'
  BY Steady DEF Inv, Sequences
<1>2. UNCHANGED <<TimedOut, Waiting, Present>>
  BY DEF TimedOut, Waiting, Present
<1>3. GivenUp'
  BY <1>2, Steady DEF Inv, GivenUp, Outstanding
<1>4. Labelled'
  BY <1>2, Steady DEF Inv, Labelled
<1>5. AnswersMatchCalls'
  BY DEF Inv, AnswersMatchCalls
<1> QED BY <1>1, <1>3, <1>4, <1>5, Steady DEF Inv

LEMMA CallKeeps ==
  ASSUME Inv, NEW msg \in Work[Len(results) + 1], Call(msg)
  PROVE  Inv'
<1>1. Present \in 1 .. MaxCalls
  BY MaxCallsAssumption, Lengths DEF Call, Present, Inv
<1>2. Asks(msg, Present)
  BY <1>1, WorkAssumption DEF Present, Asks
<1> QED BY <1>2, CallerKeeps DEF Call

LEMMA SubmitKeeps ==
  ASSUME Inv, Submit
  PROVE  Inv'
<1>1. /\ IsSeq(NewWork') /\ Len(NewWork') = Len(NewWork) + 1
      /\ ToSet(NewWork') = ToSet(NewWork) \cup {call}
  BY AppendSeq DEF Submit, Inv, Sequences
<1>2. KeepClient /\ UNCHANGED <<WorkResponse, results, call>>
      /\ caller = "submitting" /\ caller' = "waiting"
  BY DEF Submit
<1>3. Sequences'
  BY <1>1, <1>2, Steady DEF Inv, Sequences
<1>4. UNCHANGED <<TimedOut, Present>> /\ Waiting = 0 /\ Waiting' = 1
  BY <1>2 DEF TimedOut, Waiting, Present
<1>5. GivenUp'
  BY <1>1, <1>2, <1>4, Steady, Lengths, TimedOutFinite DEF Inv, GivenUp, Outstanding
<1>6. Labelled'
  BY <1>1, <1>2, <1>4, Steady DEF Inv, Labelled
<1>7. AnswersMatchCalls'
  BY <1>2 DEF Inv, AnswersMatchCalls
<1> QED BY <1>2, <1>3, <1>5, <1>6, <1>7, Steady DEF Inv

(* A result that is right, unless a call has timed out, keeps the history. *)
LEMMA HistoryKeeps ==
  ASSUME Inv, NEW result, results' = Append(results, result),
         result.outcome # "timeout" /\ TimedOut = {} => result.to = Present
  PROVE  AnswersMatchCalls'
<1>1. /\ Len(results') = Len(results) + 1 /\ Len(results) \in Nat
      /\ results'[Len(results) + 1] = result
      /\ \A i \in 1 .. Len(results) : results'[i] = results[i]
  BY Returns DEF Inv
<1> SUFFICES ASSUME NEW i \in 1 .. Len(results) + 1,
                    \A j \in 1 .. i : results'[j].outcome # "timeout"
             PROVE  results'[i].to = i
  BY <1>1 DEF AnswersMatchCalls
<1>2. CASE i \in 1 .. Len(results)
  <2>1. \A j \in 1 .. i : results[j].outcome # "timeout"
    BY <1>1, <1>2
  <2> QED BY <1>1, <1>2, <2>1 DEF Inv, AnswersMatchCalls
<1>3. CASE i = Len(results) + 1
  <2>1. TimedOut = {}
    BY <1>1, <1>3 DEF TimedOut
  <2>2. result.outcome # "timeout"
    BY <1>1, <1>3
  <2> QED BY <1>1, <1>3, <2>1, <2>2 DEF Present
<1> QED BY <1>1, <1>2, <1>3

LEMMA AnswerKeeps ==
  ASSUME Inv, Answer
  PROVE  Inv'
<1> DEFINE m == Head(WorkResponse)
           result == [to |-> IF Has(m, "response", "plain")
                             THEN m[<<"response", "plain">>].clTRID ELSE -1,
                      outcome |-> Outcome(m)]
<1>1. /\ KeepClient /\ UNCHANGED <<NewWork, call>> /\ caller = "waiting" /\ caller' = "idle"
      /\ WorkResponse # <<>> /\ WorkResponse' = Tail(WorkResponse)
      /\ results' = Append(results, result)
  BY DEF Answer
<1>2. /\ IsSeq(WorkResponse') /\ Len(WorkResponse') = Len(WorkResponse) - 1
      /\ ToSet(WorkResponse') \subseteq ToSet(WorkResponse)
      /\ Head(WorkResponse) \in ToSet(WorkResponse) /\ Len(WorkResponse) >= 1
  BY <1>1, TailSeq DEF Inv, Sequences
<1>3. TimedOut = {} => result.to = Present
  BY <1>2 DEF Inv, Labelled, AnswerTo
<1> HIDE DEF result
<1>4. AnswersMatchCalls'
  BY <1>1, <1>3, HistoryKeeps
<1>5. /\ IsSeq(results') /\ TimedOut \subseteq TimedOut'
      /\ Cardinality(TimedOut) \in Nat /\ Cardinality(TimedOut') \in Nat
      /\ Cardinality(TimedOut) <= Cardinality(TimedOut')
  BY <1>1, Returns DEF Inv
<1>6. Sequences'
  BY <1>1, <1>2, <1>5, Steady DEF Inv, Sequences
<1>7. Waiting = 1 /\ Waiting' = 0
  BY <1>1 DEF Waiting
<1>8. Outstanding' = Outstanding - 1 /\ Outstanding \in Nat
  BY <1>1, <1>2, Steady, Lengths DEF Inv, Outstanding
<1>9. GivenUp'
  BY <1>5, <1>7, <1>8 DEF Inv, GivenUp
<1>10. TimedOut' = {} =>
         /\ ToSet(NewWork') = {} /\ ToSet(WorkResponse') = {}
         /\ ~AtWork' /\ ~Puts("WorkResponse")'
  <2> SUFFICES ASSUME TimedOut' = {}
               PROVE  /\ ToSet(NewWork') = {} /\ ToSet(WorkResponse') = {}
                      /\ ~AtWork' /\ ~Puts("WorkResponse")'
    OBVIOUS
  <2>1. Outstanding' <= 0
    BY <1>5, <1>7, <1>8, TimedOutFinite DEF Inv, GivenUp
  <2>2. /\ Len(NewWork') = 0 /\ Len(WorkResponse') = 0 /\ ~(AtWork' \/ Puts("WorkResponse")')
    BY <1>1, <1>2, <2>1, Lengths DEF Inv, Outstanding
  <2> QED BY <1>6, <2>2, LenOfSeq DEF Sequences
<1>11. Labelled'
  BY <1>1, <1>10 DEF Labelled
<1> QED BY <1>1, <1>4, <1>6, <1>9, <1>11, Steady DEF Inv

LEMMA ResponseTimeoutKeeps ==
  ASSUME Inv, ResponseTimeout
  PROVE  Inv'
<1> DEFINE result == [to |-> -1, outcome |-> "timeout"]
<1>1. /\ KeepClient /\ UNCHANGED <<NewWork, WorkResponse, call>>
      /\ caller = "waiting" /\ caller' = "idle"
      /\ results' = Append(results, result) /\ result.outcome = "timeout"
  BY DEF ResponseTimeout
<1> HIDE DEF result
<1>2. AnswersMatchCalls'
  BY <1>1, HistoryKeeps
<1>3. /\ IsSeq(results') /\ TimedOut' # {} /\ Cardinality(TimedOut) \in Nat
      /\ Cardinality(TimedOut') = Cardinality(TimedOut) + 1
  BY <1>1, Returns DEF Inv
<1>4. Sequences'
  BY <1>1, <1>3, Steady DEF Inv, Sequences
<1>5. Waiting = 1 /\ Waiting' = 0
  BY <1>1 DEF Waiting
<1>6. GivenUp'
  <2>1. UNCHANGED Outstanding /\ Outstanding \in Nat
    BY <1>1, Steady, Lengths DEF Inv, Outstanding
  <2> QED BY <1>3, <1>5, <2>1 DEF Inv, GivenUp
<1>7. Labelled'
  BY <1>1, <1>3 DEF Labelled
<1> QED BY <1>1, <1>2, <1>4, <1>6, <1>7, Steady DEF Inv

LEMMA SuperClientKeeps ==
  ASSUME Inv, SuperClient
  PROVE  Inv'
<1>1. CASE NewSuperClient \/ Logout \/ waitForShutdown
  BY <1>1, CallerKeeps DEF NewSuperClient, Logout, waitForShutdown
<1> QED BY <1>1, CallKeeps, SubmitKeeps, AnswerKeeps, ResponseTimeoutKeeps DEF SuperClient

-----------------------------------------------------------------------------
(* The theorems *)

LEMMA InvInit == Init => Inv
<1> SUFFICES ASSUME Init PROVE Inv
  OBVIOUS
<1> USE DEF Init, WireInit, NewEPPClient, ServerInit
<1>1. Sequences
  BY NoneIsSeq DEF Sequences
<1>2. Sending /\ Lockstep
  BY NoneIsSeq DEF Sending, Lockstep, InFlight, Runs, Turn
<1>3. ~AtWork /\ ~Puts("WorkResponse")
  BY DEF AtWork, Puts, Runs
<1>4. GivenUp
  BY <1>1, <1>3, NoneIsSeq, TimedOutFinite DEF GivenUp, Outstanding, Waiting
<1>5. Labelled
  BY <1>3, NoneIsSeq DEF Labelled
<1>6. BeforeLogin
  BY NoneIsSeq DEF BeforeLogin, NotLoggedIn, Unready
<1>7. AnswersMatchCalls
  BY NoneIsSeq DEF AnswersMatchCalls
<1> QED BY <1>1, <1>2, <1>4, <1>5, <1>6, <1>7 DEF Inv

LEMMA InvNext == Inv /\ [Next]_vars => Inv'
<1> SUFFICES ASSUME Inv, [Next]_vars PROVE Inv'
  OBVIOUS
<1>1. CASE Stop /\ UNCHANGED <<serverVars, superVars>>
  BY <1>1, StopKeeps
<1>2. CASE Goroutines /\ UNCHANGED <<serverVars, superVars>>
  BY <1>2, EPPSenderKeeps, EPPListenerKeeps DEF Goroutines
<1>3. CASE UNCHANGED vars
  <2>1. KeepClient /\ UNCHANGED <<NewWork, WorkResponse, call, caller, results>>
    BY <1>3 DEF vars, clientVars, channels, superVars, KeepClient
  <2>2. UNCHANGED <<TimedOut, Waiting, Present>>
    BY <2>1 DEF TimedOut, Waiting, Present
  <2>3. Sequences'
    BY <2>1, Steady DEF Inv, Sequences
  <2>4. GivenUp'
    BY <2>1, <2>2, Steady DEF Inv, GivenUp, Outstanding
  <2>5. Labelled'
    BY <2>1, <2>2, Steady DEF Inv, Labelled
  <2>6. AnswersMatchCalls'
    BY <2>1 DEF Inv, AnswersMatchCalls
  <2> QED BY <2>1, <2>3, <2>4, <2>5, <2>6, Steady DEF Inv
<1> QED BY <1>1, <1>2, <1>3, ClientKeeps, SuperClientKeeps, PeerKeeps, CutKeeps DEF Next

(* Client and peer take turns, and what is outstanding is what the calls   *)
(* asked for: the inductive invariant of the state machine, its sender and *)
(* listener, the super client and the peer.                                *)
THEOREM Invariance == Spec => []Inv
  BY InvInit, InvNext, PTL DEF Spec

(* There is never more than one command, or answer to one, between the     *)
(* state machine and its peer (client/client.go, StartFSM).                *)
THEOREM OneCommandOnTheWireHolds == Spec => []OneCommandOnTheWire
<1>1. Inv => OneCommandOnTheWire
  <2> SUFFICES ASSUME Inv PROVE OneCommandOnTheWire
    OBVIOUS
  <2> DEFINE wired == SendChannel \o toServer \o toClient \o RecvChannel
  <2>1. Len(wired) = Len(SendChannel) + Len(toServer) + Len(toClient) + Len(RecvChannel)
    <3>1. /\ IsSeq(SendChannel \o toServer)
          /\ Len(SendChannel \o toServer) = Len(SendChannel) + Len(toServer)
      BY ConcatSeq DEF Inv, Sequences
    <3>2. /\ IsSeq(SendChannel \o toServer \o toClient)
          /\ Len(SendChannel \o toServer \o toClient)
               = Len(SendChannel) + Len(toServer) + Len(toClient)
      BY <3>1, ConcatSeq DEF Inv, Sequences
    <3> QED BY <3>2, ConcatSeq DEF Inv, Sequences
  <2> HIDE DEF wired
  <2>2. Len(wired) \in Nat /\ Len(wired) <= 1
    BY <2>1, Lengths DEF Inv, Lockstep, InFlight
  <2>3. \A i, j \in 1 .. Len(wired) : i = j
    BY <2>2
  <2> QED BY <2>3 DEF OneCommandOnTheWire, wired
<1> QED BY <1>1, Invariance, PTL

(* Package server never gets a command before it has accepted the login,   *)
(* whatever it answered to the login before (server/server.go,             *)
(* HandleWaitingForClient).                                                *)
THEOREM LoggedInBeforeWorkHolds == Spec => []LoggedInBeforeWork
<1>1. Inv => LoggedInBeforeWork
  BY ConcatSeq DEF Inv, Sequences, BeforeLogin, NotLoggedIn, LoggedInBeforeWork
<1> QED BY <1>1, Invariance, PTL

(* WorkResponse holds no more answers, with the one that is being put into  *)
(* it, than calls have timed out, and the one of the call that waits        *)
(* (superClient/superClient.go, the 90 s of every call).                    *)
THEOREM LateAnswersBoundedHolds == Spec => []LateAnswersBounded
<1>1. Inv => LateAnswersBounded
  <2> SUFFICES ASSUME Inv PROVE LateAnswersBounded
    OBVIOUS
  <2>1. /\ Outstanding \in Nat /\ Len(WorkResponse) \in Nat
        /\ Len(WorkResponse) + (IF PuttingAnswer THEN 1 ELSE 0) <= Outstanding
    BY Lengths DEF Inv, Outstanding, Puts, PuttingAnswer
  <2>2. Outstanding <= Cardinality(TimedOut) + Waiting /\ Cardinality(TimedOut) \in Nat
    BY Lengths, TimedOutFinite DEF Inv, GivenUp
  <2>3. Waiting = IF caller = "waiting" THEN 1 ELSE 0
    BY DEF Waiting
  <2> QED BY <2>1, <2>2, <2>3, TimedOutFinite DEF LateAnswersBounded
<1> QED BY <1>1, Invariance, PTL

(* Until a call has timed out, what a call takes from WorkResponse answers *)
(* its own command.                                                        *)
THEOREM AnswersMatchCallsHolds == Spec => []AnswersMatchCalls
<1>1. Inv => AnswersMatchCalls
  BY DEF Inv
<1> QED BY <1>1, Invariance, PTL
=============================================================================
