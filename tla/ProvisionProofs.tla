---------------------------- MODULE ProvisionProofs ----------------------------
(***************************************************************************)
(* Proofs about Provision, for any domains, hosts, statuses and revisions, *)
(* any number of runs, and any commands refused, lost or cut off: what the *)
(* commands still to be sent for an object make of what the registry holds *)
(* of it is what was verified.                                             *)
(***************************************************************************)
EXTENDS Provision, SequencesExt, SequenceTheorems, TLAPS

(* A sequence, whatever its elements. *)
IsSeq(s) == s \in Seq(ToSet(s))

-----------------------------------------------------------------------------
(* The commands still to be sent *)

StatusOps == {"unlock", "addStatuses", "remStatuses", "hostStatuses"}
NameServerOps == {"addHosts", "remHosts"}
DSOps == {"addDS", "remDS"}
AddressOps == {"hostAddresses"}
Fields == {StatusOps, NameServerOps, DSOps, AddressOps}

PlanFor(o) == {c \in ToSet(plan) : c.on = o}
Sends(op, o) == \E c \in PlanFor(o) : c.op = op

(* What commands of one kind add, and what they remove.                    *)
Adds(cmds, ops) == UNION {c.arg.add : c \in {e \in cmds : e.op \in ops}}
Rems(cmds, ops) == UNION {c.arg.rem : c \in {e \in cmds : e.op \in ops}}
Becomes(set, cmds, ops) == (set \ Rems(cmds, ops)) \cup Adds(cmds, ops)

(* Of two commands the later one is for the same object and does not undo  *)
(* the first.  Nothing follows an info command.                            *)
Follows(c, e) ==
  /\ e.on = c.on
  /\ \A ops \in Fields : c.op \in ops /\ e.op \in ops => c.arg.add \cap e.arg.rem = {}
  /\ ~ (c.op = "remHosts" /\ e.op = "addHosts")
  /\ c.op # "info"
InOrder(p) == \A i, j \in 1 .. Len(p) : i < j => Follows(p[i], p[j])

Ops ==
  [polls |-> {"approve", "reject", "ack"}, domainExists |-> {"create"},
   domainInfo |-> {"info"}, hostInfo |-> {"info"}, transferIn |-> {"transfer"},
   hostUpdate |-> {"hostCreate", "hostDelete", "hostStatuses", "hostAddresses", "info"},
   domainUpdate |-> {"unlock", "addHosts", "remHosts", "addDS", "remDS", "addStatuses",
                     "remStatuses", "renew", "delete", "refresh"}]
HostPhases == {"hostInfo", "hostUpdate"}

Wants(o, desired) == verified[o].rev.desired = desired

(* A command with what it is called with, and how its error is taken.      *)
Wellformed(c) ==
  /\ c.op \in StatusOps => c.arg.add \subseteq Statuses
  /\ c.op \in NameServerOps => c.arg.add \subseteq Hosts
  /\ c.op \in DSOps => c.arg.add \subseteq DSRecords
  /\ c.op \in AddressOps \cup {"hostCreate"} => c.arg.add \subseteq Addresses
  /\ c.op = "renew" => c.arg = 0
  /\ c.op \in {"unlock", "remStatuses", "remHosts"} => c.arg.add = {}
  /\ c.op = "addHosts" => c.arg.rem = {}
  /\ c.op \in {"create", "delete", "hostCreate", "hostDelete"} => c.onError = "stop"
  /\ c.op = "info" /\ c.on \in Domains => c.onError = "stop"
  /\ c.onError = "skip" => c.op = "hostStatuses"

(* ... and which object it is for.                                         *)
Suits(c) ==
  /\ c.on \notin todo
  /\ c.on \in (IF pc \in HostPhases THEN VerifiedHosts ELSE VerifiedDomains)
  /\ c.op = "create" => avail[c.on] = "no"
  /\ c.op \in {"delete", "hostDelete"} => Wants(c.on, "inactive")
  /\ c.op = "hostCreate" => Wants(c.on, "active") /\ avail[c.on] = "yes"

PlanFits ==
  /\ IsSeq(plan) /\ InOrder(plan)
  /\ plan # <<>> => pc \in DOMAIN Ops
  /\ \A c \in ToSet(plan) :
       /\ c.op \in Ops[pc] /\ Wellformed(c)
       /\ IF pc = "polls" THEN c.on \in Domains ELSE Suits(c)
  /\ pc = "hostUpdate" /\ plan # <<>> => \E c \in ToSet(plan) : c.op = "info"

-----------------------------------------------------------------------------
(* Where the run is *)

StageOf ==
  [verifyHosts |-> 1, verifyDomains |-> 2, polls |-> 3, domainExists |-> 4, hostExists |-> 5,
   domainInfo |-> 6, hostInfo |-> 7, transferIn |-> 8, hostUpdate |-> 9, domainUpdate |-> 10,
   pushDomains |-> 11, pushHosts |-> 12]
Stage == IF pc \in DOMAIN StageOf THEN StageOf[pc]
         ELSE IF pc = "cleanup" /\ completed THEN 13 ELSE 0

(* The phase is over, or over for this object.                             *)
Past(k, o) == Stage > k \/ (Stage = k /\ o \notin todo)

RegistryTypes ==
  /\ DOMAIN registry = Objects
  /\ \A d \in Domains : registry[d] \in DomainObject
  /\ \A h \in Hosts : registry[h] \in HostObject
  /\ polls \in Seq(PollMessage)
RowTypes ==
  DOMAIN row = Objects /\ \A o \in Objects : row[o] \in Row /\ row[o].rev \in Revisions[o]
RunTypes ==
  /\ DOMAIN verified = Objects /\ DOMAIN info = Objects
  /\ \A o \in Objects : verified[o] # Nothing => verified[o].rev \in Revisions[o]
  /\ avail \in [Objects -> {"unknown", "yes", "no"}]
  /\ pc \in DOMAIN StageOf \cup {"idle", "cleanup"}
  /\ todo \subseteq Objects /\ work \subseteq Objects
  /\ Stage > 3 => todo \subseteq Looks(pc)
  /\ completed \in BOOLEAN /\ (completed => pc \in {"cleanup", "idle"})
Types == RegistryTypes /\ RowTypes /\ RunTypes

-----------------------------------------------------------------------------
(* What a run knows of a domain, in the order of its phases *)

AsApproved ==
  \A o \in Objects :
    verified[o] # Nothing /\ <<"approved", o>> \notin mishaps => row[o].rev = verified[o].rev

DomainKnown(d) ==
  Past(4, d) =>
    /\ avail[d] \in {"yes", "no"}
    /\ avail[d] = "yes" => ~ registry[d].exists /\ ~ Wants(d, "active")
    /\ avail[d] = "no" /\ ~ Past(10, d) => registry[d].exists \/ Sends("create", d)

(* The information is the registry's, but for the sponsor and transfers.   *)
DomainInformed(d) ==
  Past(6, d) /\ ~ Past(10, d) /\ avail[d] = "no" /\ ~ Sends("info", d) =>
    /\ info[d] # Nothing
    /\ info[d].hosts = registry[d].hosts /\ info[d].ds = registry[d].ds
    /\ info[d].statuses = registry[d].statuses
    /\ info[d].sponsor = registry[d].sponsor \/ <<"registry", d>> \in mishaps

(* The lock is on, or goes on.                                             *)
Relocks(d) ==
  /\ Wants(d, "active") /\ "clientUpdate" \in verified[d].rev.statuses
  /\ {<<"addStatuses", d>>, <<"registry", d>>} \cap mishaps = {}
  => \/ "clientUpdate" \in Adds(PlanFor(d), StatusOps)
     \/ /\ "clientUpdate" \in registry[d].statuses
        /\ "clientUpdate" \notin Rems(PlanFor(d), StatusOps)

(* Name servers are only removed once the others are there.                *)
Delegates(d) ==
  Sends("remHosts", d) /\ <<"addHosts", d>> \notin mishaps =>
    /\ verified[d].rev.hosts \subseteq registry[d].hosts \cup Adds(PlanFor(d), NameServerOps)
    /\ verified[d].rev.hosts \cap Rems(PlanFor(d), NameServerOps) = {}

ActiveDomainBecomes(d) ==
  LET rev == verified[d].rev
      r == registry[d]
  IN /\ r.exists
     /\ Becomes(r.hosts, PlanFor(d), NameServerOps) = rev.hosts
     /\ Becomes(r.ds, PlanFor(d), DSOps) = rev.ds
     /\ Client(Becomes(r.statuses, PlanFor(d), StatusOps)) = Client(rev.statuses)
DomainBecomes(d) ==
  /\ Wants(d, "active") => ActiveDomainBecomes(d)
  /\ Wants(d, "inactive") => ~ registry[d].exists \/ Sends("delete", d)
  /\ Wants(d, "external") =>
       \/ ~ Ours(d)
       \/ "clientTransfer" \notin Becomes(registry[d].statuses, PlanFor(d), StatusOps)

DomainRun(d) ==
  /\ DomainKnown(d) /\ DomainInformed(d)
  /\ Past(10, d) => Relocks(d) /\ Delegates(d) /\ (Calm(d) => DomainBecomes(d))

-----------------------------------------------------------------------------
(* What a run knows of a host *)

ParentVerified(h) ==
  Parent[h] # NoParent /\ Past(2, Parent[h]) =>
    verified[Parent[h]] # Nothing \/ <<"verify", Parent[h]>> \in mishaps

HostKnown(h) ==
  Past(5, h) =>
    /\ avail[h] \in {"yes", "no"}
    /\ ~ Past(9, h) => (avail[h] = "no" <=> registry[h].exists)

Uninformed == Stage # 0 => \A h \in Hosts : Past(7, h) \/ info[h] = Nothing

(* The information is the registry's, or will be asked for.                *)
HostInformed(h) ==
  Past(7, h) =>
    /\ Parent[h] # NoParent
    /\ Calm(h) =>
         \/ Sends("info", h)
         \/ info[h] = IF registry[h].exists THEN registry[h] ELSE Nothing

ActiveHostBecomes(h) ==
  LET rev == verified[h].rev
      r == registry[h]
  IN /\ Becomes(r.addresses, PlanFor(h), AddressOps) = rev.addresses
     /\ Client(Becomes(r.statuses, PlanFor(h), StatusOps)) = Client(rev.statuses)
HostBecomes(h) ==
  /\ Wants(h, "active") =>
       /\ registry[h].exists \/ (avail[h] = "yes" /\ Sends("hostCreate", h))
       /\ avail[h] = "no" /\ "serverUpdate" \notin registry[h].statuses => ActiveHostBecomes(h)
  /\ Wants(h, "inactive") => ~ registry[h].exists \/ Sends("hostDelete", h)

HostRun(h) ==
  /\ ParentVerified(h) /\ HostKnown(h) /\ HostInformed(h)
  /\ Past(9, h) /\ Calm(h) /\ ~ LeftAlone(h) => HostBecomes(h)

DomainRuns == \A d \in VerifiedDomains : DomainRun(d)
HostRuns == \A h \in VerifiedHosts : HostRun(h)
Inv ==
  Types /\ PlanFits /\ RenewedOnce /\ AsApproved /\ Uninformed /\ DomainRuns /\ HostRuns

-----------------------------------------------------------------------------
(* Sequences *)

LEMMA NoneIsSeq == IsSeq(<<>>) /\ ToSet(<<>>) = {} /\ Len(<<>>) = 0
<1>1. Len(<<>>) = 0 /\ DOMAIN <<>> = {}
  OBVIOUS
<1>2. ToSet(<<>>) = {}
  BY <1>1 DEF ToSet
<1>3. <<>> \in Seq({})
  OBVIOUS
<1> QED BY <1>1, <1>2, <1>3 DEF IsSeq

LEMMA OneIsSeq == ASSUME NEW c PROVE IsSeq(<<c>>) /\ ToSet(<<c>>) = {c} /\ Len(<<c>>) = 1
<1>1. DOMAIN <<c>> = {1} /\ <<c>>[1] = c /\ Len(<<c>>) = 1
  OBVIOUS
<1>2. ToSet(<<c>>) = {c}
  BY <1>1 DEF ToSet
<1>3. <<c>> \in Seq({c})
  OBVIOUS
<1> QED BY <1>1, <1>2, <1>3 DEF IsSeq

LEMMA ElementsOfSeq ==
  ASSUME NEW s, IsSeq(s)
  PROVE  /\ Len(s) \in Nat /\ (Len(s) = 0 <=> s = <<>>)
         /\ ToSet(s) = {s[i] : i \in 1 .. Len(s)}
  BY DEF IsSeq, ToSet

LEMMA TailSeq ==
  ASSUME NEW s, IsSeq(s), s # <<>>
  PROVE  /\ IsSeq(Tail(s)) /\ Len(Tail(s)) = Len(s) - 1 /\ Len(s) >= 1
         /\ \A i \in 1 .. Len(s) - 1 : Tail(s)[i] = s[i + 1] /\ i + 1 \in 1 .. Len(s)
         /\ ToSet(s) = ToSet(Tail(s)) \cup {Head(s)} /\ Head(s) = s[1]
<1>1. Tail(s) \in Seq(ToSet(s)) /\ Len(Tail(s)) = Len(s) - 1 /\ Len(s) >= 1
  BY DEF IsSeq
<1>2. \A i \in 1 .. Len(s) - 1 : Tail(s)[i] = s[i + 1] /\ i + 1 \in 1 .. Len(s)
  BY DEF IsSeq
<1>3. Head(s) = s[1] /\ 1 \in 1 .. Len(s)
  BY <1>1 DEF IsSeq
<1>4. ToSet(Tail(s)) = {Tail(s)[i] : i \in 1 .. Len(s) - 1}
  <2>1. DOMAIN Tail(s) = 1 .. Len(s) - 1
    BY <1>1
  <2> QED BY <2>1 DEF ToSet
<1>5. ToSet(s) = {s[i] : i \in 1 .. Len(s)}
  BY ElementsOfSeq
<1>6. \A i \in 2 .. Len(s) : s[i] = Tail(s)[i - 1] /\ i - 1 \in 1 .. Len(s) - 1
  BY DEF IsSeq
<1>7. \A i \in 2 .. Len(s) : s[i] \in ToSet(Tail(s))
  BY <1>4, <1>6
<1>8. Tail(s) \in Seq(ToSet(Tail(s)))
  <2>1. Len(s) \in Int /\ 2 \in Int
    BY DEF IsSeq
  <2>2. SubSeq(s, 2, Len(s)) \in Seq(ToSet(Tail(s)))
    BY <1>7, <2>1, SubSeqProperties
  <2>3. Tail(s) = SubSeq(s, 2, Len(s))
    BY TailIsSubSeq DEF IsSeq
  <2> QED BY <2>2, <2>3
<1>9. ToSet(s) = ToSet(Tail(s)) \cup {Head(s)}
  <2>1. ToSet(Tail(s)) \subseteq ToSet(s)
    BY <1>2, <1>4, <1>5
  <2>2. \A i \in 1 .. Len(s) : i = 1 \/ i \in 2 .. Len(s)
    BY <1>1
  <2>3. ToSet(s) \subseteq ToSet(Tail(s)) \cup {Head(s)}
    BY <1>3, <1>5, <1>7, <2>2
  <2> QED BY <1>3, <1>5, <2>1, <2>3
<1> QED BY <1>1, <1>2, <1>3, <1>8, <1>9 DEF IsSeq

LEMMA ConcatSeq ==
  ASSUME NEW s, IsSeq(s), NEW t, IsSeq(t)
  PROVE  /\ IsSeq(s \o t) /\ Len(s \o t) = Len(s) + Len(t)
         /\ ToSet(s \o t) = ToSet(s) \cup ToSet(t)
         /\ \A i \in 1 .. Len(s) : (s \o t)[i] = s[i]
         /\ \A i \in Len(s) + 1 .. Len(s) + Len(t) :
              i - Len(s) \in 1 .. Len(t) /\ (s \o t)[i] = t[i - Len(s)]
<1> DEFINE T == ToSet(s) \cup ToSet(t)
<1>1. /\ s \in Seq(T) /\ t \in Seq(T)
      /\ ToSet(s) = {s[i] : i \in 1 .. Len(s)} /\ ToSet(t) = {t[i] : i \in 1 .. Len(t)}
      /\ Len(s) \in Nat /\ Len(t) \in Nat
  BY DEF IsSeq, ToSet
<1>2. s \o t \in Seq(T) /\ Len(s \o t) = Len(s) + Len(t)
  BY <1>1
<1>3. \A i \in 1 .. Len(s) : (s \o t)[i] = s[i]
  BY <1>1
<1>4. \A i \in 1 .. Len(t) : (s \o t)[i + Len(s)] = t[i]
  BY <1>1
<1>5. ToSet(s \o t) = {(s \o t)[i] : i \in 1 .. Len(s) + Len(t)}
  BY <1>2 DEF ToSet
<1>6. \A x \in T : \E i \in 1 .. Len(s) + Len(t) : x = (s \o t)[i]
  <2>1. \A i \in 1 .. Len(t) : i + Len(s) \in 1 .. Len(s) + Len(t)
    BY <1>1
  <2>2. \A i \in 1 .. Len(s) : i \in 1 .. Len(s) + Len(t)
    BY <1>1
  <2> QED BY <1>1, <1>3, <1>4, <2>1, <2>2
<1>7. \A i \in 1 .. Len(s) + Len(t) : (s \o t)[i] \in T
  BY <1>1, <1>2
<1>8. ToSet(s \o t) = T
  BY <1>5, <1>6, <1>7
<1>9. \A i \in Len(s) + 1 .. Len(s) + Len(t) :
        i - Len(s) \in 1 .. Len(t) /\ (s \o t)[i] = t[i - Len(s)]
  BY <1>1
<1> QED BY <1>2, <1>3, <1>8, <1>9 DEF IsSeq

LEMMA InOrderTail ==
  ASSUME NEW p, IsSeq(p), p # <<>>, InOrder(p)
  PROVE  InOrder(Tail(p)) /\ \A e \in ToSet(Tail(p)) : Follows(Head(p), e)
<1>1. Len(p) \in Nat /\ IsSeq(Tail(p)) /\ Len(Tail(p)) \in Nat
  BY TailSeq, ElementsOfSeq
<1>2. InOrder(Tail(p))
  <2> SUFFICES ASSUME NEW i \in 1 .. Len(p) - 1, NEW j \in 1 .. Len(p) - 1, i < j
               PROVE  Follows(Tail(p)[i], Tail(p)[j])
    BY TailSeq DEF InOrder
  <2>1. i + 1 < j + 1 /\ i + 1 \in 1 .. Len(p) /\ j + 1 \in 1 .. Len(p)
    BY <1>1
  <2>2. Follows(p[i + 1], p[j + 1])
    BY <2>1 DEF InOrder
  <2> QED BY <2>2, TailSeq
<1>3. ASSUME NEW e \in ToSet(Tail(p)) PROVE Follows(Head(p), e)
  <2> DEFINE q == Tail(p)
  <2>0. IsSeq(q) /\ Len(q) = Len(p) - 1 /\ e \in ToSet(q)
    BY TailSeq
  <2>1. PICK i \in 1 .. Len(p) - 1 : e = q[i]
    <3> HIDE DEF q
    <3> QED BY <2>0, ElementsOfSeq
  <2>2. 1 < i + 1 /\ 1 \in 1 .. Len(p) /\ i + 1 \in 1 .. Len(p)
    BY <1>1
  <2>3. Follows(p[1], p[i + 1])
    BY <2>2 DEF InOrder
  <2> QED BY <2>1, <2>3, TailSeq
<1> QED BY <1>2, <1>3

LEMMA InOrderConcat ==
  ASSUME NEW p, IsSeq(p), InOrder(p), NEW q, IsSeq(q), InOrder(q),
         \A c \in ToSet(p) : \A e \in ToSet(q) : Follows(c, e)
  PROVE  InOrder(p \o q)
<1>1. Len(p) \in Nat /\ Len(q) \in Nat
  BY ElementsOfSeq
<1> SUFFICES ASSUME NEW i \in 1 .. Len(p) + Len(q), NEW j \in 1 .. Len(p) + Len(q), i < j
             PROVE  Follows((p \o q)[i], (p \o q)[j])
  BY ConcatSeq DEF InOrder
<1>2. CASE j <= Len(p)
  <2>1. i \in 1 .. Len(p) /\ j \in 1 .. Len(p)
    BY <1>1, <1>2
  <2>2. Follows(p[i], p[j])
    BY <2>1 DEF InOrder
  <2> QED BY <2>1, <2>2, ConcatSeq
<1>3. CASE i > Len(p)
  <2>1. i \in Len(p) + 1 .. Len(p) + Len(q) /\ j \in Len(p) + 1 .. Len(p) + Len(q)
    BY <1>1, <1>3
  <2>2. i - Len(p) \in 1 .. Len(q) /\ j - Len(p) \in 1 .. Len(q) /\ i - Len(p) < j - Len(p)
    BY <1>1, <2>1
  <2>3. Follows(q[i - Len(p)], q[j - Len(p)])
    BY <2>2 DEF InOrder
  <2> QED BY <2>1, <2>3, ConcatSeq
<1>4. CASE i <= Len(p) /\ j > Len(p)
  <2>1. i \in 1 .. Len(p) /\ j \in Len(p) + 1 .. Len(p) + Len(q)
    BY <1>1, <1>4
  <2>2. p[i] \in ToSet(p)
    BY <2>1, ElementsOfSeq
  <2>3. j - Len(p) \in 1 .. Len(q) /\ q[j - Len(p)] \in ToSet(q)
    BY <1>1, <2>1, ElementsOfSeq
  <2> QED BY <2>1, <2>2, <2>3, ConcatSeq
<1> QED BY <1>1, <1>2, <1>3, <1>4

(* A plan of one command, and one with a command that may be left out.     *)
LEMMA OneInOrder == ASSUME NEW c PROVE InOrder(<<c>>) /\ InOrder(<<>>)
<1>1. \A i, j \in 1 .. 1 : ~ (i < j)
  OBVIOUS
<1>2. 1 .. 0 = {}
  OBVIOUS
<1> QED BY <1>1, <1>2, OneIsSeq, NoneIsSeq DEF InOrder

LEMMA UnlessPlan ==
  ASSUME NEW none, NEW c
  PROVE  /\ IsSeq(Unless(none, c)) /\ InOrder(Unless(none, c))
         /\ none => ToSet(Unless(none, c)) = {}
         /\ ~ none => ToSet(Unless(none, c)) = {c}
         /\ ToSet(Unless(none, c)) \subseteq {c}
<1>1. CASE none
  BY <1>1, NoneIsSeq, OneInOrder DEF Unless
<1>2. CASE ~ none
  BY <1>2, OneIsSeq, OneInOrder DEF Unless
<1> QED BY <1>1, <1>2

-----------------------------------------------------------------------------
(* What commands add and remove *)

LEMMA AddsOfMore ==
  ASSUME NEW S, NEW T, NEW U, U = S \cup T, NEW ops
  PROVE  Adds(U, ops) = Adds(S, ops) \cup Adds(T, ops)
  BY DEF Adds

LEMMA RemsOfMore ==
  ASSUME NEW S, NEW T, NEW U, U = S \cup T, NEW ops
  PROVE  Rems(U, ops) = Rems(S, ops) \cup Rems(T, ops)
  BY DEF Rems

LEMMA AddsOfNone == ASSUME NEW S, S = {}, NEW ops PROVE Adds(S, ops) = {}
  BY DEF Adds

LEMMA RemsOfNone == ASSUME NEW S, S = {}, NEW ops PROVE Rems(S, ops) = {}
  BY DEF Rems

LEMMA AddsOfOne ==
  ASSUME NEW c, NEW S, S = {c}, NEW ops
  PROVE  /\ c.op \in ops => Adds(S, ops) = c.arg.add
         /\ c.op \notin ops => Adds(S, ops) = {}
  BY DEF Adds

LEMMA RemsOfOne ==
  ASSUME NEW c, NEW S, S = {c}, NEW ops
  PROVE  /\ c.op \in ops => Rems(S, ops) = c.arg.rem
         /\ c.op \notin ops => Rems(S, ops) = {}
  BY DEF Rems

LEMMA NotRemoved ==
  ASSUME NEW S, NEW ops, NEW set, \A c \in S : c.op \in ops => set \cap c.arg.rem = {}
  PROVE  set \cap Rems(S, ops) = {}
  BY DEF Rems

LEMMA PlanThen ==
  ASSUME NEW p, IsSeq(p), InOrder(p), NEW q, IsSeq(q), InOrder(q),
         \A c \in ToSet(p) : \A e \in ToSet(q) : Follows(c, e)
  PROVE  /\ IsSeq(p \o q) /\ InOrder(p \o q) /\ ToSet(p \o q) = ToSet(p) \cup ToSet(q)
         /\ \A ops : /\ Adds(ToSet(p \o q), ops) = Adds(ToSet(p), ops) \cup Adds(ToSet(q), ops)
                     /\ Rems(ToSet(p \o q), ops) = Rems(ToSet(p), ops) \cup Rems(ToSet(q), ops)
<1>1. IsSeq(p \o q) /\ InOrder(p \o q) /\ ToSet(p \o q) = ToSet(p) \cup ToSet(q)
  BY ConcatSeq, InOrderConcat
<1>2. ASSUME NEW ops
      PROVE  Adds(ToSet(p \o q), ops) = Adds(ToSet(p), ops) \cup Adds(ToSet(q), ops)
  BY <1>1, AddsOfMore, SMT
<1>3. ASSUME NEW ops
      PROVE  Rems(ToSet(p \o q), ops) = Rems(ToSet(p), ops) \cup Rems(ToSet(q), ops)
  BY <1>1, RemsOfMore, SMT
<1> QED BY <1>1, <1>2, <1>3

(* What is still to become of a set is the same after the first command.   *)
LEMMA BecomesStill ==
  ASSUME NEW set, NEW c, NEW S, NEW U, U = S \cup {c}, NEW ops \in Fields,
         \A e \in S : Follows(c, e)
  PROVE  /\ c.op \in ops => Becomes(Edit(set, c.arg), S, ops) = Becomes(set, U, ops)
         /\ c.op \notin ops => Becomes(set, S, ops) = Becomes(set, U, ops)
<1> DEFINE One == {c}
<1>1. One = {c} /\ U = S \cup One
  OBVIOUS
<1> HIDE DEF One
<1>2. Adds(U, ops) = Adds(S, ops) \cup Adds(One, ops)
  BY <1>1, AddsOfMore, SMT
<1>3. Rems(U, ops) = Rems(S, ops) \cup Rems(One, ops)
  BY <1>1, RemsOfMore, SMT
<1>4. /\ c.op \in ops => Adds(One, ops) = c.arg.add
      /\ c.op \notin ops => Adds(One, ops) = {}
  BY <1>1 DEF Adds
<1>5. /\ c.op \in ops => Rems(One, ops) = c.arg.rem
      /\ c.op \notin ops => Rems(One, ops) = {}
  BY <1>1 DEF Rems
<1>6. CASE c.op \in ops
  <2>1. c.arg.add \cap Rems(S, ops) = {}
    BY <1>6, NotRemoved DEF Follows
  <2> QED BY <1>2, <1>3, <1>4, <1>5, <1>6, <2>1 DEF Becomes, Edit
<1>7. CASE c.op \notin ops
  BY <1>2, <1>3, <1>4, <1>5, <1>7 DEF Becomes
<1> QED BY <1>6, <1>7

-----------------------------------------------------------------------------
(* Where the run is *)

LEMMA Stages ==
  /\ pc = "verifyHosts" => Stage = 1
  /\ pc = "verifyDomains" => Stage = 2
  /\ pc = "polls" => Stage = 3
  /\ pc = "domainExists" => Stage = 4
  /\ pc = "hostExists" => Stage = 5
  /\ pc = "domainInfo" => Stage = 6
  /\ pc = "hostInfo" => Stage = 7
  /\ pc = "transferIn" => Stage = 8
  /\ pc = "hostUpdate" => Stage = 9
  /\ pc = "domainUpdate" => Stage = 10
  /\ pc = "pushDomains" => Stage = 11
  /\ pc = "pushHosts" => Stage = 12
  /\ pc = "cleanup" /\ completed => Stage = 13
  /\ pc = "cleanup" /\ ~ completed => Stage = 0
  /\ pc = "idle" => Stage = 0
  BY DEF Stage, StageOf

LEMMA StagesNext ==
  /\ pc' = "verifyHosts" => Stage' = 1
  /\ pc' = "verifyDomains" => Stage' = 2
  /\ pc' = "polls" => Stage' = 3
  /\ pc' = "domainExists" => Stage' = 4
  /\ pc' = "hostExists" => Stage' = 5
  /\ pc' = "domainInfo" => Stage' = 6
  /\ pc' = "hostInfo" => Stage' = 7
  /\ pc' = "transferIn" => Stage' = 8
  /\ pc' = "hostUpdate" => Stage' = 9
  /\ pc' = "domainUpdate" => Stage' = 10
  /\ pc' = "pushDomains" => Stage' = 11
  /\ pc' = "pushHosts" => Stage' = 12
  /\ pc' = "cleanup" /\ completed' => Stage' = 13
  /\ pc' = "cleanup" /\ ~ completed' => Stage' = 0
  /\ pc' = "idle" => Stage' = 0
  BY DEF Stage, StageOf

LEMMA StageRange == Stage \in 0 .. 13
  BY DEF Stage, StageOf

LEMMA SamePast ==
  ASSUME UNCHANGED <<pc, todo, completed>>
  PROVE  Stage' = Stage /\ \A k, o : Past(k, o)' <=> Past(k, o)
  BY DEF Stage, Past

(* Taking an object of the phase only makes the phase over for that one.   *)
LEMMA TakenPast ==
  ASSUME UNCHANGED <<pc, completed>>, NEW o, todo' = todo \ {o}
  PROVE  /\ Stage' = Stage
         /\ \A k, x : x # o => (Past(k, x)' <=> Past(k, x))
         /\ \A k : k # Stage => (Past(k, o)' <=> Past(k, o))
         /\ Past(Stage, o)'
<1>1. Stage' = Stage
  BY DEF Stage
<1> QED BY <1>1 DEF Past

LEMMA NotPastEnd ==
  ASSUME Stage' = 0, NEW k \in Nat, k # 0, NEW o
  PROVE  ~ Past(k, o)'
  BY DEF Past

-----------------------------------------------------------------------------
(* What a run knows stays true *)

LEMMA DomainRunEnds ==
  ASSUME Stage' \in 0 .. 3, NEW d
  PROVE  DomainRun(d)'
<1>1. ~ Past(4, d)' /\ ~ Past(6, d)' /\ ~ Past(10, d)'
  BY DEF Past
<1> QED BY <1>1 DEF DomainRun, DomainKnown, DomainInformed

LEMMA HostRunEnds ==
  ASSUME Stage' = 0, NEW h
  PROVE  HostRun(h)'
<1>1. ~ Past(5, h)' /\ ~ Past(7, h)' /\ ~ Past(9, h)' /\ \A o : ~ Past(2, o)'
  BY DEF Past
<1> QED BY <1>1 DEF HostRun, HostKnown, HostInformed, ParentVerified

LEMMA CalmBefore ==
  ASSUME mishaps \subseteq mishaps', NEW o, Calm(o)'
  PROVE  Calm(o)
  BY DEF Calm

LEMMA DomainRunKept ==
  ASSUME NEW d, DomainRun(d),
         verified'[d] = verified[d], avail'[d] = avail[d], info'[d] = info[d],
         registry'[d].exists = registry[d].exists, registry'[d].hosts = registry[d].hosts,
         registry'[d].ds = registry[d].ds, registry'[d].statuses = registry[d].statuses,
         registry'[d].sponsor = registry[d].sponsor \/ <<"registry", d>> \in mishaps',
         PlanFor(d)' = PlanFor(d), mishaps \subseteq mishaps',
         \A k \in {4, 6, 10} : Past(k, d)' <=> Past(k, d)
  PROVE  DomainRun(d)'
<1>1. \A op : Sends(op, d)' <=> Sends(op, d)
  BY DEF Sends
<1>2. \A desired : Wants(d, desired)' <=> Wants(d, desired)
  BY DEF Wants
<1>3. DomainKnown(d)'
  BY <1>1, <1>2 DEF DomainRun, DomainKnown
<1>4. DomainInformed(d)'
  BY <1>1 DEF DomainRun, DomainInformed
<1>5. ASSUME Past(10, d)' PROVE Relocks(d)' /\ Delegates(d)' /\ (Calm(d)' => DomainBecomes(d)')
  <2>1. Relocks(d) /\ Delegates(d) /\ (Calm(d) => DomainBecomes(d))
    BY <1>5 DEF DomainRun
  <2>2. Relocks(d)'
    BY <1>2, <2>1 DEF Relocks
  <2>3. Delegates(d)'
    BY <1>1, <2>1 DEF Delegates
  <2>4. ASSUME Calm(d)' PROVE DomainBecomes(d)'
    <3>1. DomainBecomes(d)
      BY <2>1, <2>4, CalmBefore
    <3>2. <<"registry", d>> \notin mishaps'
      BY <2>4 DEF Calm
    <3>3. Ours(d)' <=> Ours(d)
      BY <3>2 DEF Ours
    <3>4. ActiveDomainBecomes(d)' <=> ActiveDomainBecomes(d)
      BY DEF ActiveDomainBecomes
    <3> QED BY <1>1, <1>2, <3>1, <3>3, <3>4 DEF DomainBecomes
  <2> QED BY <2>2, <2>3, <2>4
<1> QED BY <1>3, <1>4, <1>5 DEF DomainRun

LEMMA HostRunKept ==
  ASSUME NEW h, HostRun(h), UNCHANGED verified,
         avail'[h] = avail[h], info'[h] = info[h], registry'[h] = registry[h],
         PlanFor(h)' = PlanFor(h), mishaps \subseteq mishaps',
         \A k \in {5, 7, 9} : Past(k, h)' <=> Past(k, h),
         Parent[h] # NoParent => (Past(2, Parent[h])' <=> Past(2, Parent[h]))
  PROVE  HostRun(h)'
<1>1. \A op : Sends(op, h)' <=> Sends(op, h)
  BY DEF Sends
<1>2. \A desired : Wants(h, desired)' <=> Wants(h, desired)
  BY DEF Wants
<1>3. ParentVerified(h)'
  BY DEF HostRun, ParentVerified
<1>4. HostKnown(h)'
  BY DEF HostRun, HostKnown
<1>5. HostInformed(h)'
  BY <1>1, CalmBefore DEF HostRun, HostInformed
<1>6. ASSUME Past(9, h)', Calm(h)', ~ LeftAlone(h)' PROVE HostBecomes(h)'
  <2>1. HostBecomes(h)
    BY <1>6, CalmBefore DEF HostRun, LeftAlone
  <2>2. ActiveHostBecomes(h)' <=> ActiveHostBecomes(h)
    BY DEF ActiveHostBecomes
  <2> QED BY <1>1, <1>2, <2>1, <2>2 DEF HostBecomes
<1> QED BY <1>3, <1>4, <1>5, <1>6 DEF HostRun

(* A run without a command to send.                                        *)
LEMMA NoPlan ==
  ASSUME plan' = <<>>
  PROVE  PlanFits' /\ \A o : PlanFor(o)' = {} /\ \A op : ~ Sends(op, o)'
<1>1. PlanFits'
  BY NoneIsSeq, OneInOrder DEF PlanFits
<1>2. \A o : PlanFor(o)' = {}
  BY NoneIsSeq DEF PlanFor
<1> QED BY <1>1, <1>2 DEF Sends

LEMMA NoPlanNow ==
  ASSUME plan = <<>>
  PROVE  \A o : PlanFor(o) = {} /\ \A op : ~ Sends(op, o)
<1>1. \A o : PlanFor(o) = {}
  BY NoneIsSeq DEF PlanFor
<1> QED BY <1>1 DEF Sends

-----------------------------------------------------------------------------
(* The beginning and the end of a run *)

LEMMA InitInv == Init => Inv
<1> SUFFICES ASSUME Init PROVE Inv
  OBVIOUS
<1>1. Stage = 0
  BY Stages DEF Init
<1>2. RegistryTypes
  <2>1. DOMAIN registry = Objects
    BY DEF Init, RegistryInit
  <2>2. \A d \in Domains : registry[d] \in DomainObject
    BY StartsAssumption DEF Init, RegistryInit, Objects
  <2>3. \A h \in Hosts : registry[h] \in HostObject
    BY StartsAssumption DEF Init, RegistryInit, Objects
  <2>4. polls \in Seq(PollMessage)
    BY StartsAssumption DEF Init, RegistryInit
  <2> QED BY <2>1, <2>2, <2>3, <2>4 DEF RegistryTypes
<1>3. RowTypes
  <2> DEFINE All == UNION {Revisions[x] : x \in Objects}
             Rows == [rev : All, check : BOOLEAN, hold : {FALSE}, expires : {0}]
  <2>1. DOMAIN row = Objects /\ \A o \in Objects : row[o].rev \in Revisions[o] /\ row[o] \in Rows
    BY DEF Init
  <2>2. Rows \subseteq Row
    <3>1. \A o \in Objects : Revisions[o] \subseteq DomainRevision \cup HostRevision
      BY RevisionsAssumption DEF Objects
    <3>2. All \subseteq DomainRevision \cup HostRevision
      BY <3>1
    <3> HIDE DEF All
    <3>3. {FALSE} \subseteq BOOLEAN /\ {0} \subseteq Nat
      OBVIOUS
    <3> DEFINE Never == {FALSE}
               Zero == {0}
    <3> HIDE DEF Never, Zero
    <3>4. [rev : All, check : BOOLEAN, hold : Never, expires : Zero] \subseteq Row
      BY <3>2, <3>3 DEF Row, Never, Zero
    <3> QED BY <3>4 DEF Never, Zero
  <2> HIDE DEF Rows
  <2> QED BY <2>1, <2>2 DEF RowTypes
<1>4. RunTypes
  BY <1>1 DEF Init, Empty, RunTypes
<1>5. PlanFits
  BY NoneIsSeq, OneInOrder DEF Init, PlanFits
<1>6. RenewedOnce
  BY StartsAssumption DEF Init, RegistryInit, RenewedOnce, Objects
<1>7. VerifiedDomains = {} /\ VerifiedHosts = {}
  BY DEF Init, Empty, VerifiedDomains, VerifiedHosts, Objects
<1>8. AsApproved /\ Uninformed
  BY <1>1 DEF Init, Empty, AsApproved, Uninformed
<1> QED BY <1>2, <1>3, <1>4, <1>5, <1>6, <1>7, <1>8 DEF Inv, Types, DomainRuns, HostRuns

(* A run without a phase: nothing is said of what it knows.                *)
LEMMA EndInv ==
  ASSUME Inv, UNCHANGED <<row, verified, work>>, RegistryTypes', RenewedOnce',
         DOMAIN info' = Objects,
         avail' \in [Objects -> {"unknown", "yes", "no"}],
         pc' \in {"cleanup", "idle"}, completed' = completed, Stage' = 0,
         todo' = {}, plan' = <<>>, mishaps \subseteq mishaps'
  PROVE  Inv'
<1>1. Types'
  BY DEF Inv, Types, RowTypes, RunTypes
<1>2. PlanFits'
  BY NoPlan
<1>3. AsApproved' /\ Uninformed'
  BY DEF Inv, AsApproved, Uninformed
<1>4. DomainRuns'
  BY DomainRunEnds DEF DomainRuns
<1>5. HostRuns'
  BY HostRunEnds DEF HostRuns
<1> QED BY <1>1, <1>2, <1>3, <1>4, <1>5 DEF Inv

LEMMA InvStuttering ==
  ASSUME Inv, UNCHANGED vars
  PROVE  Inv'
<1>1. /\ UNCHANGED <<registry, polls, row, pc, mishaps>>
      /\ UNCHANGED <<todo, work, verified, avail, info, plan, changed, completed>>
  BY DEF vars, registryVars, run
<1>2. Types'
  BY <1>1, SamePast DEF Inv, Types, RegistryTypes, RowTypes, RunTypes, Looks, VerifiedDomains,
     VerifiedHosts, hostDomains
<1>3. PlanFits' /\ RenewedOnce' /\ AsApproved'
  BY <1>1 DEF Inv, PlanFits, Suits, Wants, VerifiedDomains, VerifiedHosts, RenewedOnce, AsApproved
<1>4. Uninformed' /\ PlanFits'
  BY <1>1, <1>3, SamePast DEF Inv, Uninformed
<1>5. DomainRuns'
  <2> SUFFICES ASSUME NEW d \in VerifiedDomains PROVE DomainRun(d)'
    BY <1>1 DEF DomainRuns, VerifiedDomains
  <2>1. DomainRun(d) /\ PlanFor(d)' = PlanFor(d)
    BY <1>1 DEF Inv, DomainRuns, PlanFor
  <2> QED BY <1>1, <2>1, SamePast, DomainRunKept
<1>6. HostRuns'
  <2> SUFFICES ASSUME NEW h \in VerifiedHosts PROVE HostRun(h)'
    BY <1>1 DEF HostRuns, VerifiedHosts
  <2>1. HostRun(h) /\ PlanFor(h)' = PlanFor(h)
    BY <1>1 DEF Inv, HostRuns, PlanFor
  <2> QED BY <1>1, <2>1, SamePast, HostRunKept
<1> QED BY <1>2, <1>3, <1>4, <1>5, <1>6 DEF Inv

LEMMA InvStartRun ==
  ASSUME Inv, StartRun
  PROVE  Inv'
<1>1. Stage' = 1
  BY StagesNext DEF StartRun
<1>2. Types'
  <2>1. RegistryTypes' /\ RowTypes'
    BY DEF StartRun, registryVars, Inv, Types, RegistryTypes, RowTypes
  <2>2. /\ DOMAIN verified' = Objects /\ DOMAIN info' = Objects
        /\ \A o \in Objects : verified'[o] = Nothing
        /\ avail' \in [Objects -> {"unknown", "yes", "no"}]
    BY DEF StartRun, Empty
  <2>3. work' \subseteq Objects /\ todo' \subseteq Objects
    BY DEF StartRun, Objects
  <2>4. pc' \in DOMAIN StageOf /\ completed' = FALSE
    BY DEF StartRun, StageOf
  <2>5. completed' \in BOOLEAN /\ ~ completed'
    BY <2>4, Zenon
  <2>6. ~ (Stage' > 3)
    BY <1>1
  <2>7. RunTypes'
    BY <2>2, <2>3, <2>4, <2>5, <2>6 DEF RunTypes
  <2> QED BY <2>1, <2>7 DEF Types
<1>3. PlanFits'
  BY NoPlan DEF StartRun
<1>4. RenewedOnce' /\ AsApproved' /\ Uninformed'
  BY DEF StartRun, registryVars, Inv, RenewedOnce, AsApproved, Uninformed, Empty, Objects
<1>5. VerifiedDomains' = {} /\ VerifiedHosts' = {}
  BY DEF StartRun, Empty, VerifiedDomains, VerifiedHosts, Objects
<1> QED BY <1>2, <1>3, <1>4, <1>5 DEF Inv, DomainRuns, HostRuns

LEMMA InvCleanup ==
  ASSUME Inv, Cleanup
  PROVE  Inv'
<1>1. /\ UNCHANGED <<registry, polls, row, verified, avail, work, info, completed, mishaps>>
      /\ pc = "cleanup" /\ pc' = "idle" /\ UNCHANGED <<todo, plan>>
  BY DEF Cleanup, registryVars, run
<1>2. Stage' = 0
  BY <1>1, StagesNext
<1>3. plan' = <<>>
  BY <1>1 DEF Inv, PlanFits, Ops
<1>4. Types'
  BY <1>1, <1>2 DEF Inv, Types, RegistryTypes, RowTypes, RunTypes
<1>5. RenewedOnce' /\ AsApproved' /\ Uninformed'
  BY <1>1, <1>2 DEF Inv, RenewedOnce, AsApproved, Uninformed
<1>6. DomainRuns'
  BY <1>2, DomainRunEnds DEF DomainRuns
<1>7. HostRuns'
  BY <1>2, HostRunEnds DEF HostRuns
<1> QED BY <1>3, <1>4, <1>5, <1>6, <1>7, NoPlan DEF Inv

LEMMA InvDie ==
  ASSUME Inv, Die
  PROVE  Inv'
<1>1. /\ UNCHANGED <<registry, polls, row, verified, avail, work, info, completed, mishaps>>
      /\ pc' = "idle" /\ todo' = {} /\ plan' = <<>>
  BY DEF Die, registryVars
<1>2. /\ Stage' = 0 /\ DOMAIN info' = Objects
      /\ avail' \in [Objects -> {"unknown", "yes", "no"}]
  BY <1>1, StagesNext DEF Inv, Types, RunTypes
<1>3. RegistryTypes' /\ RenewedOnce'
  BY <1>1 DEF Inv, Types, RegistryTypes, RenewedOnce
<1> QED BY <1>1, <1>2, <1>3, EndInv

(* Leaving the run in one of its phases.                                   *)
LEMMA QuitInv ==
  ASSUME Inv, pc \in DOMAIN StageOf, Quit, mishaps \subseteq mishaps', DOMAIN info' = Objects,
         avail' \in [Objects -> {"unknown", "yes", "no"}], RegistryTypes', RenewedOnce',
         UNCHANGED <<row, verified, work, completed>>
  PROVE  Inv'
<1>1. ~ completed'
  BY DEF Inv, Types, RunTypes, StageOf
<1>2. Stage' = 0
  BY <1>1, StagesNext DEF Quit
<1> QED BY <1>2, EndInv DEF Quit

LEMMA InvQuit ==
  ASSUME Inv, pc \in DOMAIN StageOf, Quit, mishaps \subseteq mishaps', DOMAIN info' = Objects,
         avail' \in [Objects -> {"unknown", "yes", "no"}],
         UNCHANGED <<registry, polls, row, verified, work, completed>>
  PROVE  Inv'
<1>1. RegistryTypes' /\ RenewedOnce'
  BY DEF Inv, Types, RegistryTypes, RenewedOnce
<1> QED BY <1>1, QuitInv

LEMMA InvNextPhase ==
  ASSUME Inv, NextPhase
  PROVE  Inv'
<1>1. /\ UNCHANGED <<registry, polls, row, verified, avail, work, info, plan, mishaps>>
      /\ pc \in DOMAIN Following /\ todo = {} /\ plan = <<>> /\ pc' = Following[pc]
      /\ todo' = Looks(Following[pc])
  BY DEF NextPhase, registryVars
<1>0. completed' = (pc = "pushHosts")
  BY DEF NextPhase
<1>2. VerifiedDomains' = VerifiedDomains /\ VerifiedHosts' = VerifiedHosts
  BY <1>1 DEF VerifiedDomains, VerifiedHosts
<1>3. Stage \in 1 .. 12 /\ Stage # 3 /\ Stage' = Stage + 1
  <2>1. /\ pc \in DOMAIN Following
        /\ pc = "verifyHosts" => pc' = "verifyDomains"
        /\ pc = "verifyDomains" => pc' = "polls"
        /\ pc = "domainExists" => pc' = "hostExists"
        /\ pc = "hostExists" => pc' = "domainInfo"
        /\ pc = "domainInfo" => pc' = "hostInfo"
        /\ pc = "hostInfo" => pc' = "transferIn"
        /\ pc = "transferIn" => pc' = "hostUpdate"
        /\ pc = "hostUpdate" => pc' = "domainUpdate"
        /\ pc = "domainUpdate" => pc' = "pushDomains"
        /\ pc = "pushDomains" => pc' = "pushHosts"
        /\ pc = "pushHosts" => pc' = "cleanup"
    BY <1>1 DEF Following
  <2>2. pc \in {"verifyHosts", "verifyDomains", "domainExists", "hostExists", "domainInfo",
                "hostInfo", "transferIn", "hostUpdate", "domainUpdate", "pushDomains",
                "pushHosts"}
    BY <2>1 DEF Following
  <2>3. pc = "pushHosts" => completed' = TRUE
    BY <1>0, Zenon
  <2> QED BY <2>1, <2>2, <2>3, Stages, StagesNext
<1>4. /\ Stage' \in {4, 6, 8, 10, 11} => todo' = VerifiedDomains
      /\ Stage' \in {5, 7, 9, 12} => todo' = VerifiedHosts
      /\ Stage' = 2 => todo' = (work \cap Domains) \cup hostDomains
      /\ Stage' \in {3, 13} => todo' = {}
  BY <1>1, <1>3, Stages DEF Following, Looks
<1>5. Types'
  <2>1. RegistryTypes' /\ RowTypes'
    BY <1>1 DEF Inv, Types, RegistryTypes, RowTypes
  <2>2. pc' \in DOMAIN StageOf \cup {"idle", "cleanup"}
    BY <1>1 DEF Following, StageOf
  <2>5. completed' = TRUE \/ completed' = FALSE
    BY <1>0, Zenon
  <2>6. completed' => pc' \in {"cleanup", "idle"}
    <3>1. completed' => pc = "pushHosts"
      BY <1>0, Zenon
    <3> QED BY <1>1, <3>1 DEF Following
  <2>3. todo' \subseteq Objects
    <3>1. hostDomains \subseteq Domains
      BY ParentAssumption DEF hostDomains, VerifiedHosts
    <3> QED BY <1>3, <1>4, <3>1 DEF Objects, VerifiedDomains, VerifiedHosts
  <2>4. todo' \subseteq Looks(pc)'
    BY <1>1, <1>2 DEF Looks, hostDomains
  <2> QED BY <1>1, <2>1, <2>2, <2>3, <2>4, <2>5, <2>6 DEF Inv, Types, RunTypes
<1>6. PlanFits'
  BY <1>1, NoPlan
<1>7. RenewedOnce' /\ AsApproved'
  BY <1>1 DEF Inv, RenewedOnce, AsApproved
<1>8. Uninformed'
  <2> SUFFICES ASSUME NEW h \in Hosts PROVE Past(7, h)' \/ info[h] = Nothing
    BY <1>1 DEF Uninformed
  <2>1. Past(7, h) \/ info[h] = Nothing
    BY <1>3 DEF Inv, Uninformed
  <2> QED BY <1>1, <1>3, <2>1 DEF Past
<1>9. DomainRuns'
  <2> SUFFICES ASSUME NEW d \in VerifiedDomains PROVE DomainRun(d)'
    BY <1>2 DEF DomainRuns
  <2>1. DomainRun(d) /\ PlanFor(d)' = PlanFor(d)
    BY <1>1 DEF Inv, DomainRuns, PlanFor
  <2>2. \A k \in {4, 6, 10} : Past(k, d)' <=> Past(k, d)
    BY <1>1, <1>3, <1>4 DEF Past
  <2> QED BY <1>1, <2>1, <2>2, DomainRunKept
<1>10. HostRuns'
  <2> SUFFICES ASSUME NEW h \in VerifiedHosts PROVE HostRun(h)'
    BY <1>2 DEF HostRuns
  <2>1. HostRun(h) /\ PlanFor(h)' = PlanFor(h)
    BY <1>1 DEF Inv, HostRuns, PlanFor
  <2>2. \A k \in {5, 7, 9} : Past(k, h)' <=> Past(k, h)
    BY <1>1, <1>3, <1>4 DEF Past
  <2>3. ASSUME Parent[h] # NoParent PROVE Past(2, Parent[h])' <=> Past(2, Parent[h])
    <3>1. Parent[h] \in hostDomains
      BY <2>3 DEF hostDomains
    <3> QED BY <1>1, <1>3, <1>4, <3>1 DEF Past
  <2> QED BY <1>1, <2>1, <2>2, <2>3, HostRunKept
<1> QED BY <1>5, <1>6, <1>7, <1>8, <1>9, <1>10 DEF Inv

-----------------------------------------------------------------------------
(* What users and other registrars do *)

LEMMA SameRun ==
  ASSUME Inv, UNCHANGED <<pc, run>>, mishaps \subseteq mishaps', DOMAIN registry' = Objects,
         \A h \in Hosts : registry'[h] = registry[h],
         \A d \in Domains :
           /\ registry'[d].exists = registry[d].exists /\ registry'[d].hosts = registry[d].hosts
           /\ registry'[d].ds = registry[d].ds /\ registry'[d].statuses = registry[d].statuses
           /\ registry'[d].sponsor = registry[d].sponsor \/ <<"registry", d>> \in mishaps'
  PROVE  RunTypes' /\ PlanFits' /\ Uninformed' /\ DomainRuns' /\ HostRuns'
<1>1. UNCHANGED <<pc, todo, work, verified, avail, info, plan, changed, completed>>
  BY DEF run
<1>2. RunTypes'
  BY <1>1, SamePast DEF Inv, Types, RunTypes, Looks, VerifiedDomains, VerifiedHosts, hostDomains
<1>3. PlanFits'
  BY <1>1 DEF Inv, PlanFits, Suits, Wants, VerifiedDomains, VerifiedHosts
<1>4. Uninformed'
  BY <1>1, SamePast DEF Inv, Uninformed
<1>5. DomainRuns'
  <2> SUFFICES ASSUME NEW d \in VerifiedDomains PROVE DomainRun(d)'
    BY <1>1 DEF DomainRuns, VerifiedDomains
  <2>1. DomainRun(d) /\ PlanFor(d)' = PlanFor(d) /\ d \in Domains
    BY <1>1 DEF Inv, DomainRuns, PlanFor, VerifiedDomains
  <2> QED BY <1>1, <2>1, SamePast, DomainRunKept
<1>6. HostRuns'
  <2> SUFFICES ASSUME NEW h \in VerifiedHosts PROVE HostRun(h)'
    BY <1>1 DEF HostRuns, VerifiedHosts
  <2>1. HostRun(h) /\ PlanFor(h)' = PlanFor(h) /\ h \in Hosts
    BY <1>1 DEF Inv, HostRuns, PlanFor, VerifiedHosts
  <2> QED BY <1>1, <2>1, SamePast, HostRunKept
<1> QED BY <1>2, <1>3, <1>4, <1>5, <1>6

LEMMA SameRegistry ==
  ASSUME Inv, UNCHANGED <<registryVars, pc, run>>, mishaps \subseteq mishaps', RowTypes',
         AsApproved'
  PROVE  Inv'
<1>1. UNCHANGED <<registry, polls>>
  BY DEF registryVars
<1>2. RunTypes' /\ PlanFits' /\ Uninformed' /\ DomainRuns' /\ HostRuns'
  BY <1>1, SameRun DEF Inv, Types, RegistryTypes
<1>3. RegistryTypes' /\ RenewedOnce'
  BY <1>1 DEF Inv, Types, RegistryTypes, RenewedOnce
<1> QED BY <1>2, <1>3 DEF Inv, Types

LEMMA RowChecked ==
  ASSUME NEW r \in Row, NEW check \in BOOLEAN
  PROVE  [r EXCEPT !.check = check] \in Row /\ [r EXCEPT !.check = check].rev = r.rev
  BY DEF Row

LEMMA InvApproved ==
  ASSUME Inv, NEW o \in Objects, Approved(o)
  PROVE  Inv'
<1>1. UNCHANGED <<registryVars, pc, run>> /\ mishaps' = mishaps \cup {<<"approved", o>>}
  BY DEF Approved, Event, Troubled
<1>2. PICK rev \in Revisions[o] : row' = [row EXCEPT ![o].rev = rev, ![o].check = TRUE]
  BY DEF Approved
<1>3. RowTypes /\ rev \in DomainRevision \cup HostRevision
  BY RevisionsAssumption DEF Inv, Types, Objects
<1>4. row'[o] \in Row /\ row'[o].rev = rev /\ \A x \in Objects \ {o} : row'[x] = row[x]
  BY <1>2, <1>3 DEF RowTypes, Row
<1>5. RowTypes'
  BY <1>2, <1>3, <1>4 DEF RowTypes
<1>6. AsApproved'
  BY <1>1, <1>4 DEF Inv, AsApproved, run
<1> QED BY <1>1, <1>5, <1>6, SameRegistry

LEMMA InvUpdateHoldStatus ==
  ASSUME Inv, NEW o \in Objects, UpdateHoldStatus(o)
  PROVE  Inv'
<1>1. UNCHANGED <<registryVars, pc, run, mishaps>> /\ row' = [row EXCEPT ![o].hold = ~ @]
  BY DEF UpdateHoldStatus, Event, Untroubled
<1>2. row'[o] \in Row /\ row'[o].rev = row[o].rev /\ \A x \in Objects \ {o} : row'[x] = row[x]
  BY <1>1 DEF Inv, Types, RowTypes, Row
<1>3. RowTypes'
  BY <1>1, <1>2 DEF Inv, Types, RowTypes
<1>4. AsApproved'
  BY <1>1, <1>2 DEF Inv, AsApproved, run
<1> QED BY <1>1, <1>3, <1>4, SameRegistry

LEMMA InvCheckUpdate ==
  ASSUME Inv, NEW o \in Objects, CheckUpdate(o)
  PROVE  Inv'
<1>1. UNCHANGED <<registryVars, pc, run, mishaps>> /\ row' = [row EXCEPT ![o].check = TRUE]
  BY DEF CheckUpdate, Event, Untroubled
<1>2. row'[o] \in Row /\ row'[o].rev = row[o].rev /\ \A x \in Objects \ {o} : row'[x] = row[x]
  BY <1>1 DEF Inv, Types, RowTypes, Row
<1>3. RowTypes'
  BY <1>1, <1>2 DEF Inv, Types, RowTypes
<1>4. AsApproved'
  BY <1>1, <1>2 DEF Inv, AsApproved, run
<1> QED BY <1>1, <1>3, <1>4, SameRegistry

LEMMA InvFlagDomainsRequiringRenewal ==
  ASSUME Inv, FlagDomainsRequiringRenewal
  PROVE  Inv'
<1>1. UNCHANGED <<registryVars, pc, run, mishaps>>
  BY DEF FlagDomainsRequiringRenewal, Event, Untroubled
<1>2. /\ DOMAIN row' = Objects
      /\ \A o \in Objects : row'[o] = row[o] \/ row'[o] = [row[o] EXCEPT !.check = TRUE]
  BY DEF FlagDomainsRequiringRenewal
<1>3. \A o \in Objects : row'[o] \in Row /\ row'[o].rev = row[o].rev
  BY <1>2, RowChecked DEF Inv, Types, RowTypes
<1>4. RowTypes'
  BY <1>2, <1>3 DEF Inv, Types, RowTypes
<1>5. AsApproved'
  BY <1>1, <1>3 DEF Inv, AsApproved, run
<1> QED BY <1>1, <1>4, <1>5, SameRegistry

LEMMA InvOtherRegistrar ==
  ASSUME Inv, NEW d \in Domains, OtherRegistrar(d)
  PROVE  Inv'
<1>1. /\ UNCHANGED <<row, pc, run>> /\ mishaps' = mishaps \cup {<<"registry", d>>}
      /\ TransferRequested(d) \/ TransferredIn(d)
  BY DEF OtherRegistrar, Event, Troubled
<1>2. DOMAIN registry = Objects /\ d \in Objects /\ d \notin Hosts /\ registry[d] \in DomainObject
  BY DisjointAssumption DEF Inv, Types, RegistryTypes, Objects
<1>3. /\ DOMAIN registry' = Objects /\ \A o \in Objects \ {d} : registry'[o] = registry[o]
      /\ registry'[d] \in DomainObject
      /\ registry'[d].exists = registry[d].exists /\ registry'[d].hosts = registry[d].hosts
      /\ registry'[d].ds = registry[d].ds /\ registry'[d].statuses = registry[d].statuses
      /\ registry'[d].expires = registry[d].expires
  BY <1>1, <1>2 DEF TransferRequested, TransferredIn, DomainObject
<1>4. polls' \in Seq(PollMessage)
  <2>1. CASE TransferRequested(d)
    <3> DEFINE m == [kind |-> "transferRequested", domain |-> d]
    <3>1. m \in PollMessage
      BY DEF PollMessage
    <3>2. polls \in Seq(PollMessage) /\ polls' = Append(polls, m)
      BY <2>1 DEF TransferRequested, Inv, Types, RegistryTypes
    <3> HIDE DEF m
    <3> QED BY <3>1, <3>2
  <2>2. CASE TransferredIn(d)
    BY <2>2 DEF TransferredIn, Inv, Types, RegistryTypes
  <2> QED BY <1>1, <2>1, <2>2
<1>5. RegistryTypes'
  BY <1>2, <1>3, <1>4 DEF Inv, Types, RegistryTypes, Objects
<1>6. RunTypes' /\ PlanFits' /\ Uninformed' /\ DomainRuns' /\ HostRuns'
  <2>1. \A h \in Hosts : registry'[h] = registry[h]
    BY <1>2, <1>3 DEF Objects
  <2>2. \A x \in Domains :
          /\ registry'[x].exists = registry[x].exists /\ registry'[x].hosts = registry[x].hosts
          /\ registry'[x].ds = registry[x].ds /\ registry'[x].statuses = registry[x].statuses
          /\ registry'[x].sponsor = registry[x].sponsor \/ <<"registry", x>> \in mishaps'
    BY <1>1, <1>3 DEF Objects
  <2>3. mishaps \subseteq mishaps'
    BY <1>1
  <2> QED BY <1>1, <1>3, <2>1, <2>2, <2>3, SameRun
<1>7. RowTypes' /\ RenewedOnce' /\ AsApproved'
  BY <1>1, <1>3 DEF Inv, Types, RowTypes, RenewedOnce, AsApproved, run, Objects
<1> QED BY <1>5, <1>6, <1>7 DEF Inv, Types

-----------------------------------------------------------------------------
(* Verifying what is to be checked *)

LEMMA HostRunEarly ==
  ASSUME Stage' \in 1 .. 3, NEW h, ParentVerified(h)'
  PROVE  HostRun(h)'
<1>1. ~ Past(5, h)' /\ ~ Past(7, h)' /\ ~ Past(9, h)'
  BY DEF Past
<1> QED BY <1>1 DEF HostRun, HostKnown, HostInformed

LEMMA Verified ==
  ASSUME Inv, NEW phase, NEW o \in Objects, Verify(phase, o), phase \in {"verifyHosts", "verifyDomains"},
         RowTypes', \A x \in Objects : row'[x].rev = row[x].rev
  PROVE  /\ Types' /\ PlanFits' /\ RenewedOnce' /\ AsApproved' /\ Uninformed' /\ DomainRuns'
         /\ Stage' = Stage /\ Stage \in {1, 2}
         /\ \A x \in Objects \ {o} : verified'[x] = verified[x]
         /\ mishaps \subseteq mishaps'
         /\ verified'[o] # Nothing \/ <<"verify", o>> \in mishaps'
<1>1. /\ UNCHANGED <<registry, polls, pc, work, avail, info, plan, completed>>
      /\ pc = phase /\ plan = <<>> /\ o \in todo /\ todo' = todo \ {o}
  BY DEF Verify, Take, registryVars
<1>2. /\ mishaps \subseteq mishaps'
      /\ \/ verified' = [verified EXCEPT ![o] = row[o]] /\ mishaps' = mishaps
         \/ verified' = verified /\ <<"verify", o>> \in mishaps'
  BY DEF Verify, Untroubled, Troubled
<1>3. Stage' = Stage /\ Stage \in {1, 2}
  BY <1>1, Stages, StagesNext
<1>4. RowTypes /\ RunTypes
  BY DEF Inv, Types
<1>5. row[o] # Nothing
  BY <1>4, NothingAssumption DEF RowTypes
<1>6. /\ DOMAIN verified' = Objects /\ \A x \in Objects \ {o} : verified'[x] = verified[x]
      /\ verified'[o] = row[o] \/ (verified'[o] = verified[o] /\ <<"verify", o>> \in mishaps')
  BY <1>2, <1>4 DEF RunTypes
<1>7. Types'
  <2>1. RegistryTypes'
    BY <1>1 DEF Inv, Types, RegistryTypes
  <2>2. ~ (Stage' > 3)
    BY <1>3
  <2>3. \A x \in Objects : verified'[x] # Nothing => verified'[x].rev \in Revisions[x]
    BY <1>4, <1>6 DEF RowTypes, RunTypes
  <2>4. RunTypes'
    BY <1>1, <1>4, <1>6, <2>2, <2>3 DEF RunTypes
  <2> QED BY <2>1, <2>4 DEF Types
<1>8. PlanFits'
  BY <1>1, NoPlan
<1>9. RenewedOnce' /\ AsApproved'
  BY <1>1, <1>2, <1>6 DEF Inv, RenewedOnce, AsApproved
<1>10. Uninformed'
  <2>1. \A h \in Hosts : ~ Past(7, h)
    BY <1>3 DEF Past
  <2> QED BY <1>1, <1>3, <2>1 DEF Inv, Uninformed
<1>11. DomainRuns'
  BY <1>3, DomainRunEnds DEF DomainRuns
<1> QED BY <1>2, <1>3, <1>5, <1>6, <1>7, <1>8, <1>9, <1>10, <1>11

LEMMA InvVerifyHost ==
  ASSUME Inv, NEW h \in Hosts, VerifyHost(h)
  PROVE  Inv'
<1>1. /\ h \in Objects /\ Verify("verifyHosts", h)
      /\ row' = row \/ row' = [row EXCEPT ![h] = UnsetCheck(h)]
  BY DEF VerifyHost, Objects
<1>2. UnsetCheck(h) \in Row /\ UnsetCheck(h).rev = row[h].rev
  BY <1>1, RowChecked DEF UnsetCheck, Inv, Types, RowTypes
<1>3. /\ DOMAIN row' = Objects
      /\ \A x \in Objects : row'[x] \in Row /\ row'[x].rev = row[x].rev
  BY <1>1, <1>2 DEF Inv, Types, RowTypes
<1>4. RowTypes'
  BY <1>3 DEF Inv, Types, RowTypes
<1>5. /\ Types' /\ PlanFits' /\ RenewedOnce' /\ AsApproved' /\ Uninformed' /\ DomainRuns'
      /\ Stage' = Stage
  BY <1>1, <1>3, <1>4, Verified
<1>6. Stage' = 1
  BY <1>1, <1>5, Stages DEF Verify, Take
<1>7. HostRuns'
  <2>1. \A o : ~ Past(2, o)'
    BY <1>6 DEF Past
  <2>2. \A x : ParentVerified(x)'
    BY <2>1 DEF ParentVerified
  <2> QED BY <1>6, <2>2, HostRunEarly DEF HostRuns
<1> QED BY <1>5, <1>7 DEF Inv

LEMMA InvVerifyDomain ==
  ASSUME Inv, NEW d \in Domains, VerifyDomain(d)
  PROVE  Inv'
<1>1. /\ d \in Objects /\ d \notin Hosts /\ Verify("verifyDomains", d) /\ row' = row
  BY DisjointAssumption DEF VerifyDomain, Objects
<1>2. RowTypes'
  BY <1>1 DEF Inv, Types, RowTypes
<1>3. /\ Types' /\ PlanFits' /\ RenewedOnce' /\ AsApproved' /\ Uninformed' /\ DomainRuns'
      /\ Stage' = Stage
      /\ \A x \in Objects \ {d} : verified'[x] = verified[x]
      /\ mishaps \subseteq mishaps'
      /\ verified'[d] # Nothing \/ <<"verify", d>> \in mishaps'
  BY <1>1, <1>2, Verified
<1>4. Stage = 2 /\ Stage' = 2 /\ todo' = todo \ {d}
  BY <1>1, <1>3, Stages DEF Verify, Take
<1>5. HostRuns'
  <2> SUFFICES ASSUME NEW h \in VerifiedHosts' PROVE HostRun(h)'
    BY DEF HostRuns
  <2>1. h \in Hosts /\ h \in Objects \ {d} /\ verified'[h] = verified[h]
    BY <1>1, <1>3 DEF VerifiedHosts, Objects
  <2>2. h \in VerifiedHosts
    BY <2>1 DEF VerifiedHosts
  <2>3. ParentVerified(h)
    BY <2>2 DEF Inv, HostRuns, HostRun
  <2>4. ParentVerified(h)'
    <3> SUFFICES ASSUME Parent[h] # NoParent, Past(2, Parent[h])', Parent[h] # d
                 PROVE  verified'[Parent[h]] # Nothing \/ <<"verify", Parent[h]>> \in mishaps'
      BY <1>3 DEF ParentVerified
    <3>1. Parent[h] \in Objects \ {d}
      BY <2>1, ParentAssumption DEF Objects
    <3>2. Past(2, Parent[h])
      BY <1>4, <3>1 DEF Past
    <3> QED BY <1>3, <2>3, <3>1, <3>2 DEF ParentVerified
  <2> QED BY <1>4, <2>4, HostRunEarly
<1> QED BY <1>3, <1>5 DEF Inv

-----------------------------------------------------------------------------
(* The poll messages *)

LEMMA TwoPlan ==
  ASSUME NEW c, NEW e, Follows(c, e)
  PROVE  IsSeq(<<c, e>>) /\ InOrder(<<c, e>>) /\ ToSet(<<c, e>>) = {c, e}
<1>1. DOMAIN <<c, e>> = {1, 2} /\ Len(<<c, e>>) = 2 /\ <<c, e>>[1] = c /\ <<c, e>>[2] = e
  OBVIOUS
<1>2. ToSet(<<c, e>>) = {c, e}
  BY <1>1 DEF ToSet
<1>3. <<c, e>> \in Seq({c, e})
  OBVIOUS
<1>4. InOrder(<<c, e>>)
  <2>1. \A i, j \in 1 .. 2 : i < j => i = 1 /\ j = 2
    OBVIOUS
  <2> QED BY <1>1, <2>1 DEF InOrder
<1> QED BY <1>2, <1>3, <1>4 DEF IsSeq

LEMMA PollPlanIs ==
  ASSUME NEW m, NEW answer
  PROVE  /\ IsSeq(PollPlan(m, answer)) /\ InOrder(PollPlan(m, answer))
         /\ \A c \in ToSet(PollPlan(m, answer)) :
              c.op \in {"approve", "reject", "ack"} /\ c.on = m.domain /\ Wellformed(c)
<1> DEFINE ack == Command("ack", m.domain, Add({}), "log", FALSE)
           approve == Command("approve", m.domain, Add({}), "stop", FALSE)
           reject == Command("reject", m.domain, Add({}), "stop", FALSE)
           Good(p) == /\ IsSeq(p) /\ InOrder(p)
                      /\ \A c \in ToSet(p) : c.op \in {"approve", "reject", "ack"}
                                             /\ c.on = m.domain /\ Wellformed(c)
<1>1. /\ Wellformed(ack) /\ ack.op = "ack" /\ ack.on = m.domain
      /\ Wellformed(approve) /\ approve.op = "approve" /\ approve.on = m.domain
      /\ Wellformed(reject) /\ reject.op = "reject" /\ reject.on = m.domain
  BY DEF Command, Wellformed, StatusOps, NameServerOps, DSOps, AddressOps
<1>2. Follows(approve, ack) /\ Follows(reject, ack)
  BY DEF Command, Follows, Fields, StatusOps, NameServerOps, DSOps, AddressOps
<1>3. PollPlan(m, answer) \in {<<approve, ack>>, <<reject, ack>>, <<ack>>, <<>>}
  BY DEF PollPlan
<1> HIDE DEF ack, approve, reject
<1>4. Good(<<approve, ack>>) /\ Good(<<reject, ack>>)
  BY <1>1, <1>2, TwoPlan
<1>5. Good(<<ack>>) /\ Good(<<>>)
  BY <1>1, OneIsSeq, NoneIsSeq, OneInOrder
<1> QED BY <1>3, <1>4, <1>5

LEMMA InvHandlePolls ==
  ASSUME Inv, HandlePolls
  PROVE  Inv'
<1>1. /\ pc = "polls" /\ plan = <<>> /\ mishaps' = mishaps
      /\ UNCHANGED <<registry, polls, row, work, verified, avail, info, completed>>
  BY DEF HandlePolls, registryVars, Untroubled
<1>2. Stage = 3 /\ pc \in DOMAIN StageOf
  BY <1>1, Stages DEF StageOf
<1>3. CASE Quit
  BY <1>1, <1>2, <1>3, InvQuit DEF Inv, Types, RunTypes
<1>4. VerifiedDomains' = VerifiedDomains /\ VerifiedHosts' = VerifiedHosts
  BY <1>1 DEF VerifiedDomains, VerifiedHosts
<1>5. RegistryTypes' /\ RowTypes' /\ RenewedOnce' /\ AsApproved'
  BY <1>1 DEF Inv, Types, RegistryTypes, RowTypes, RenewedOnce, AsApproved
<1>6. \A h \in Hosts : ~ Past(7, h) /\ info[h] = Nothing
  BY <1>2 DEF Inv, Uninformed, Past
<1>7. CASE pc' = "domainExists" /\ todo' = Looks("domainExists") /\ plan' = plan
  <2>1. Stage' = 4 /\ todo' = VerifiedDomains
    BY <1>7, StagesNext DEF Looks
  <2>2. RunTypes'
    BY <1>1, <1>4, <1>7, <2>1
       DEF Inv, Types, RunTypes, Looks, VerifiedDomains, Objects, StageOf
  <2>3. PlanFits' /\ Uninformed'
    BY <1>1, <1>6, <1>7, NoPlan DEF Uninformed
  <2>4. DomainRuns'
    <3> SUFFICES ASSUME NEW d \in VerifiedDomains PROVE DomainRun(d)'
      BY <1>4 DEF DomainRuns
    <3>1. ~ Past(4, d)' /\ ~ Past(6, d)' /\ ~ Past(10, d)'
      BY <2>1 DEF Past
    <3> QED BY <3>1 DEF DomainRun, DomainKnown, DomainInformed
  <2>5. HostRuns'
    <3> SUFFICES ASSUME NEW h \in VerifiedHosts PROVE HostRun(h)'
      BY <1>4 DEF HostRuns
    <3>1. HostRun(h) /\ PlanFor(h)' = PlanFor(h)
      BY <1>7 DEF Inv, HostRuns, PlanFor
    <3>2. /\ \A k \in {5, 7, 9} : Past(k, h)' <=> Past(k, h)
          /\ Past(2, Parent[h])' <=> Past(2, Parent[h])
      BY <1>2, <2>1 DEF Past
    <3> QED BY <1>1, <3>1, <3>2, HostRunKept
  <2> QED BY <1>5, <2>2, <2>3, <2>4, <2>5 DEF Inv, Types
<1>8. ASSUME NEW answer, polls # <<>>, plan' = PollPlan(Head(polls), answer), UNCHANGED <<pc, todo>>
      PROVE  Inv'
  <2>1. Head(polls).domain \in Domains
    <3>1. Head(polls) \in PollMessage
      BY <1>8 DEF Inv, Types, RegistryTypes
    <3> QED BY <3>1 DEF PollMessage
  <2>2. /\ IsSeq(plan') /\ InOrder(plan')
        /\ \A c \in ToSet(plan') :
             c.op \in {"approve", "reject", "ack"} /\ c.on \in Domains /\ Wellformed(c)
    BY <1>8, <2>1, PollPlanIs
  <2>3. PlanFits'
    BY <1>1, <1>8, <2>2 DEF PlanFits, Ops
  <2>4. RunTypes' /\ Uninformed'
    BY <1>1, <1>2, <1>4, <1>8, SamePast DEF Inv, Types, RunTypes, Uninformed
  <2>5. DomainRuns'
    BY <1>1, <1>2, <1>8, SamePast, DomainRunEnds DEF DomainRuns
  <2>6. HostRuns'
    <3> SUFFICES ASSUME NEW h \in VerifiedHosts PROVE HostRun(h)'
      BY <1>4 DEF HostRuns
    <3>1. HostRun(h) /\ h \in Hosts /\ h \notin Domains
      BY DisjointAssumption DEF Inv, HostRuns, VerifiedHosts
    <3>2. PlanFor(h) = {} /\ PlanFor(h)' = {}
      BY <1>1, <2>2, <3>1, NoPlanNow DEF PlanFor
    <3> QED BY <1>1, <1>8, <3>1, <3>2, SamePast, HostRunKept
  <2> QED BY <1>5, <2>3, <2>4, <2>5, <2>6 DEF Inv, Types
<1>9. \/ Quit
      \/ pc' = "domainExists" /\ todo' = Looks("domainExists") /\ plan' = plan
      \/ \E answer : /\ polls # <<>> /\ plan' = PollPlan(Head(polls), answer)
                     /\ UNCHANGED <<pc, todo>>
  BY DEF HandlePolls, NotDequeued
<1> QED BY <1>3, <1>7, <1>8, <1>9

-----------------------------------------------------------------------------
(* The phases that take an object and choose what is sent for it *)

LEMMA PhaseInv ==
  ASSUME Inv, NEW phase, NEW o, Take(phase, o), Stage > 3,
         UNCHANGED <<registry, polls, pc, verified, work, info, completed>>,
         todo' = todo \ {o}, mishaps \subseteq mishaps',
         avail' \in [Objects -> {"unknown", "yes", "no"}],
         \A x \in Objects \ {o} : avail'[x] = avail[x],
         RowTypes', AsApproved', PlanFits', \A c \in ToSet(plan') : c.on = o,
         o \in VerifiedDomains => DomainRun(o)', o \in VerifiedHosts => HostRun(o)'
  PROVE  Inv'
<1>1. pc = phase /\ plan = <<>> /\ o \in todo
  BY DEF Take
<1>2. /\ VerifiedDomains' = VerifiedDomains /\ VerifiedHosts' = VerifiedHosts
      /\ hostDomains' = hostDomains
  BY DEF VerifiedDomains, VerifiedHosts, hostDomains
<1>3. /\ Stage' = Stage
      /\ \A k, x : x # o => (Past(k, x)' <=> Past(k, x))
      /\ \A k : k # Stage => (Past(k, o)' <=> Past(k, o))
      /\ Past(Stage, o)'
  BY TakenPast
<1>4. Types'
  <2>1. RegistryTypes'
    BY DEF Inv, Types, RegistryTypes
  <2>2. todo' \subseteq Objects /\ (Stage' > 3 => todo' \subseteq Looks(pc)')
    BY <1>2, <1>3 DEF Inv, Types, RunTypes, Looks
  <2>3. RunTypes'
    BY <2>2 DEF Inv, Types, RunTypes
  <2> QED BY <2>1, <2>3 DEF Types
<1>5. RenewedOnce'
  BY DEF Inv, RenewedOnce
<1>6. Uninformed'
  <2> SUFFICES ASSUME NEW h \in Hosts PROVE Past(7, h)' \/ info[h] = Nothing
    BY DEF Uninformed
  <2>1. Past(7, h) => Past(7, h)'
    BY <1>3 DEF Past
  <2> QED BY <2>1 DEF Inv, Uninformed
<1>7. \A x : PlanFor(x) = {} /\ (x # o => PlanFor(x)' = {})
  BY <1>1, NoPlanNow DEF PlanFor
<1>8. DomainRuns'
  <2> SUFFICES ASSUME NEW d \in VerifiedDomains, d # o PROVE DomainRun(d)'
    BY <1>2 DEF DomainRuns
  <2>1. DomainRun(d) /\ d \in Objects
    BY DEF Inv, DomainRuns, VerifiedDomains, Objects
  <2> QED BY <1>3, <1>7, <2>1, DomainRunKept
<1>9. HostRuns'
  <2> SUFFICES ASSUME NEW h \in VerifiedHosts, h # o PROVE HostRun(h)'
    BY <1>2 DEF HostRuns
  <2>1. HostRun(h) /\ h \in Objects
    BY DEF Inv, HostRuns, VerifiedHosts, Objects
  <2>2. Past(2, Parent[h])' <=> Past(2, Parent[h])
    BY <1>3 DEF Past
  <2> QED BY <1>3, <1>7, <2>1, <2>2, HostRunKept
<1> QED BY <1>4, <1>5, <1>6, <1>8, <1>9 DEF Inv

(* Of its own phase, an object knows what it did before of the others.     *)
LEMMA PhaseFacts ==
  ASSUME Inv, NEW phase, NEW o, Take(phase, o), Stage > 3
  PROVE  /\ o \in todo /\ plan = <<>> /\ pc = phase /\ o \in Objects
         /\ phase \in {"domainExists", "domainInfo", "transferIn", "domainUpdate", "pushDomains"}
              => o \in VerifiedDomains /\ o \notin VerifiedHosts /\ o \in Domains
         /\ phase \in {"hostExists", "hostInfo", "hostUpdate", "pushHosts"}
              => o \in VerifiedHosts /\ o \notin VerifiedDomains /\ o \in Hosts
<1>1. o \in todo /\ plan = <<>> /\ pc = phase /\ todo \subseteq Looks(pc) /\ o \in Objects
  BY DEF Take, Inv, Types, RunTypes
<1>2. /\ phase \in {"domainExists", "domainInfo", "transferIn", "domainUpdate", "pushDomains"}
           => Looks(phase) = VerifiedDomains
      /\ phase \in {"hostExists", "hostInfo", "hostUpdate", "pushHosts"}
           => Looks(phase) = VerifiedHosts
  BY DEF Looks
<1> QED BY <1>1, <1>2, DisjointAssumption DEF VerifiedDomains, VerifiedHosts

(* What was chosen fits.                                                   *)
LEMMA ChosenFits ==
  ASSUME IsSeq(plan'), InOrder(plan'), NEW o, o \notin todo',
         pc' \in DOMAIN Ops, pc' # "polls",
         \A c \in ToSet(plan') : c.op \in Ops[pc'] /\ Wellformed(c) /\ c.on = o,
         o \in IF pc' \in HostPhases THEN VerifiedHosts' ELSE VerifiedDomains',
         \A c \in ToSet(plan') :
           /\ c.op = "create" => avail'[o] = "no"
           /\ c.op \in {"delete", "hostDelete"} => Wants(o, "inactive")'
           /\ c.op = "hostCreate" => Wants(o, "active")' /\ avail'[o] = "yes",
         pc' = "hostUpdate" /\ plan' # <<>> => \E c \in ToSet(plan') : c.op = "info"
  PROVE  PlanFits'
<1>1. \A c \in ToSet(plan') : Suits(c)'
  BY DEF Suits
<1> QED BY <1>1 DEF PlanFits

LEMMA CommandIs ==
  ASSUME NEW op, NEW on, NEW arg, NEW onError, NEW marks
  PROVE  /\ Command(op, on, arg, onError, marks).op = op
         /\ Command(op, on, arg, onError, marks).on = on
         /\ Command(op, on, arg, onError, marks).arg = arg
         /\ Command(op, on, arg, onError, marks).onError = onError
  BY DEF Command

LEMMA NoChange == \A set : Add(set).add = set /\ Add(set).rem = {}
  BY DEF Add

LEMMA InvGetDomainExistance ==
  ASSUME Inv, NEW d \in Domains, GetDomainExistance(d)
  PROVE  Inv'
<1> DEFINE missing == ~ registry[d].exists
           register == missing /\ verified[d].rev.desired = "active"
           c == DomainCreate(d)
<1>1. /\ Take("domainExists", d) /\ Asked(d)
      /\ avail' = [avail EXCEPT ![d] = IF missing /\ ~ register THEN "yes" ELSE "no"]
      /\ plan' = Unless(~ register \/ pc' # pc, c)
      /\ UNCHANGED <<registry, polls, row, work, verified, info, completed>>
  BY DEF GetDomainExistance, registryVars
<1>2. pc = "domainExists" /\ Stage = 4 /\ Stage > 3
  BY <1>1, Stages DEF Take
<1>3. d \in todo /\ plan = <<>> /\ d \in VerifiedDomains /\ d \notin VerifiedHosts /\ d \in Objects
  BY <1>1, <1>2, PhaseFacts
<1>4. mishaps \subseteq mishaps' /\ (Quit \/ (todo' = todo \ {d} /\ pc' = pc))
  BY <1>1 DEF Asked, Untroubled, Troubled
<1>5. avail' \in [Objects -> {"unknown", "yes", "no"}] /\ avail'[d] \in {"yes", "no"}
      /\ \A x \in Objects \ {d} : avail'[x] = avail[x]
  BY <1>1, <1>3 DEF Inv, Types, RunTypes
<1>6. CASE Quit
  BY <1>1, <1>2, <1>4, <1>5, <1>6, InvQuit DEF StageOf, Inv, Types, RunTypes
<1>7. CASE todo' = todo \ {d} /\ pc' = pc
  <2>1. /\ IsSeq(plan') /\ InOrder(plan') /\ ToSet(plan') \subseteq {c}
        /\ register => ToSet(plan') = {c}
    BY <1>1, <1>7, UnlessPlan
  <2>2. c.op = "create" /\ c.on = d /\ Wellformed(c)
    BY DEF DomainCreate, Command, Wellformed, StatusOps, NameServerOps, DSOps, AddressOps
  <2>3. \A x \in ToSet(plan') : avail'[d] = "no"
    <3>1. CASE register
      BY <1>1, <1>3, <3>1 DEF Inv, Types, RunTypes
    <3>2. CASE ~ register
      BY <1>1, <3>2, UnlessPlan
    <3> QED BY <3>1, <3>2
  <2> HIDE DEF c
  <2>4. VerifiedDomains' = VerifiedDomains
    BY <1>1 DEF VerifiedDomains
  <2>5. PlanFits'
    <3>1. pc' \in DOMAIN Ops /\ pc' \notin HostPhases /\ Ops[pc'] = {"create"}
      BY <1>2, <1>7 DEF Ops, HostPhases
    <3> QED BY <1>2, <1>3, <1>7, <2>1, <2>2, <2>3, <2>4, <3>1, ChosenFits
  <2>6. RowTypes' /\ AsApproved'
    BY <1>1, <1>4 DEF Inv, Types, RowTypes, AsApproved
  <2>7. DomainRun(d)'
    <3>1. ~ Past(6, d)' /\ ~ Past(10, d)'
      BY <1>1, <1>2, <1>7, TakenPast DEF Past
    <3>2. register => Sends("create", d)'
      BY <2>1, <2>2 DEF Sends, PlanFor
    <3>3. avail'[d] = IF missing /\ ~ register THEN "yes" ELSE "no"
      BY <1>1, <1>3 DEF Inv, Types, RunTypes
    <3>4. DomainKnown(d)'
      BY <1>1, <1>5, <3>2, <3>3 DEF DomainKnown, Wants
    <3> QED BY <3>1, <3>4 DEF DomainRun, DomainInformed
  <2> QED BY <1>1, <1>2, <1>3, <1>4, <1>5, <1>7, <2>1, <2>2, <2>5, <2>6, <2>7, PhaseInv
<1> QED BY <1>4, <1>6, <1>7

LEMMA InvGetHostExistance ==
  ASSUME Inv, NEW h \in Hosts, GetHostExistance(h)
  PROVE  Inv'
<1>1. /\ Take("hostExists", h) /\ Asked(h) /\ plan' = <<>>
      /\ avail' = [avail EXCEPT ![h] = IF registry[h].exists THEN "no" ELSE "yes"]
      /\ UNCHANGED <<registry, polls, row, work, verified, info, completed>>
  BY DEF GetHostExistance, registryVars
<1>2. pc = "hostExists" /\ Stage = 5 /\ Stage > 3
  BY <1>1, Stages DEF Take
<1>3. h \in todo /\ plan = <<>> /\ h \in VerifiedHosts /\ h \notin VerifiedDomains /\ h \in Objects
  BY <1>1, <1>2, PhaseFacts
<1>4. mishaps \subseteq mishaps' /\ (Quit \/ (todo' = todo \ {h} /\ pc' = pc))
  BY <1>1 DEF Asked, Untroubled, Troubled
<1>5. /\ avail' \in [Objects -> {"unknown", "yes", "no"}]
      /\ \A x \in Objects \ {h} : avail'[x] = avail[x]
      /\ avail'[h] \in {"yes", "no"} /\ (avail'[h] = "no" <=> registry[h].exists)
  BY <1>1, <1>3 DEF Inv, Types, RunTypes
<1>6. CASE Quit
  BY <1>1, <1>2, <1>4, <1>5, <1>6, InvQuit DEF StageOf, Inv, Types, RunTypes
<1>7. CASE todo' = todo \ {h} /\ pc' = pc
  <2>1. ToSet(plan') = {} /\ PlanFits'
    BY <1>1, NoPlan, NoneIsSeq
  <2>2. RowTypes' /\ AsApproved'
    BY <1>1, <1>4 DEF Inv, Types, RowTypes, AsApproved
  <2>3. HostRun(h)'
    <3>1. /\ ~ Past(7, h)' /\ ~ Past(9, h)'
          /\ Past(2, Parent[h]) /\ Past(2, Parent[h])'
      BY <1>1, <1>2, <1>7, TakenPast DEF Past
    <3>2. ParentVerified(h)'
      BY <1>1, <1>3, <1>4, <3>1 DEF Inv, HostRuns, HostRun, ParentVerified
    <3> QED BY <1>1, <1>5, <3>1, <3>2 DEF HostRun, HostKnown, HostInformed
  <2> QED BY <1>1, <1>2, <1>3, <1>4, <1>5, <1>7, <2>1, <2>2, <2>3, PhaseInv
<1> QED BY <1>4, <1>6, <1>7

(* The phases that only choose what is sent.                               *)
LEMMA Sent ==
  ASSUME Inv, NEW phase, NEW o, NEW commands, Send(phase, o, commands), Untroubled, Stage > 3
  PROVE  /\ Take(phase, o) /\ todo' = todo \ {o} /\ plan' = commands /\ mishaps' = mishaps
         /\ UNCHANGED <<registry, polls, row, pc, work, verified, avail, info, completed>>
         /\ RowTypes' /\ AsApproved' /\ avail' \in [Objects -> {"unknown", "yes", "no"}]
         /\ VerifiedDomains' = VerifiedDomains /\ VerifiedHosts' = VerifiedHosts
<1>1. /\ Take(phase, o) /\ todo' = todo \ {o} /\ plan' = commands /\ mishaps' = mishaps
      /\ UNCHANGED <<registry, polls, row, pc, work, verified, avail, info, completed>>
  BY DEF Send, Untroubled, registryVars
<1>2. RowTypes' /\ AsApproved' /\ avail' \in [Objects -> {"unknown", "yes", "no"}]
  BY <1>1 DEF Inv, Types, RowTypes, RunTypes, AsApproved
<1>3. VerifiedDomains' = VerifiedDomains /\ VerifiedHosts' = VerifiedHosts
  BY <1>1 DEF VerifiedDomains, VerifiedHosts
<1> QED BY <1>1, <1>2, <1>3

LEMMA InvGetDomainInfo ==
  ASSUME Inv, NEW d \in Domains, GetDomainInfo(d)
  PROVE  Inv'
<1> DEFINE c == UpdateDomainInfo(d, "stop")
           commands == Unless(avail[d] # "no", c)
<1>1. Send("domainInfo", d, commands) /\ Untroubled
  BY DEF GetDomainInfo
<1>2. pc = "domainInfo" /\ Stage = 6 /\ Stage > 3
  BY <1>1, Stages DEF Send, Take
<1>3. /\ IsSeq(commands) /\ InOrder(commands) /\ ToSet(commands) \subseteq {c}
      /\ avail[d] = "no" => ToSet(commands) = {c}
  BY UnlessPlan
<1>4. c.op = "info" /\ c.on = d /\ Wellformed(c)
  BY DEF UpdateDomainInfo, Command, Wellformed, StatusOps, NameServerOps, DSOps, AddressOps
<1> HIDE DEF c, commands
<1>5. /\ Take("domainInfo", d) /\ todo' = todo \ {d} /\ plan' = commands /\ mishaps' = mishaps
      /\ UNCHANGED <<registry, polls, row, pc, work, verified, avail, info, completed>>
      /\ RowTypes' /\ AsApproved' /\ avail' \in [Objects -> {"unknown", "yes", "no"}]
      /\ VerifiedDomains' = VerifiedDomains
  BY <1>1, <1>2, Sent
<1>6. d \in todo /\ plan = <<>> /\ d \in VerifiedDomains /\ d \notin VerifiedHosts /\ d \in Objects
  BY <1>2, <1>5, PhaseFacts
<1>7. PlanFits'
  <2>1. pc' \in DOMAIN Ops /\ pc' \notin HostPhases /\ Ops[pc'] = {"info"}
    BY <1>2, <1>5 DEF Ops, HostPhases
  <2> QED BY <1>2, <1>3, <1>4, <1>5, <1>6, <2>1, ChosenFits
<1>8. DomainRun(d)'
  <2>1. Past(4, d) /\ Past(4, d)' /\ ~ Past(10, d) /\ ~ Past(10, d)'
    BY <1>2, <1>5, TakenPast DEF Past
  <2>2. ~ Sends("create", d)
    BY <1>6, NoPlanNow
  <2>3. DomainKnown(d)'
    BY <1>5, <1>6, <2>1, <2>2 DEF Inv, DomainRuns, DomainRun, DomainKnown, Wants
  <2>4. avail[d] = "no" => Sends("info", d)'
    BY <1>3, <1>4, <1>5 DEF Sends, PlanFor
  <2>5. DomainInformed(d)'
    BY <1>5, <2>4 DEF DomainInformed
  <2> QED BY <2>1, <2>3, <2>5 DEF DomainRun
<1> QED BY <1>2, <1>3, <1>4, <1>5, <1>6, <1>7, <1>8, PhaseInv

LEMMA InvGetHostInfo ==
  ASSUME Inv, NEW h \in Hosts, GetHostInfo(h)
  PROVE  Inv'
<1>1. CASE Parent[h] = NoParent
  <2>1. /\ pc = "hostInfo" /\ Quit /\ mishaps' = mishaps
        /\ UNCHANGED <<registry, polls, row, work, verified, avail, info, completed>>
    BY <1>1 DEF GetHostInfo, Take, Untroubled, registryVars
  <2>2. pc \in DOMAIN StageOf
    BY <2>1 DEF StageOf
  <2> QED BY <2>1, <2>2, InvQuit DEF Inv, Types, RunTypes
<1>2. CASE Parent[h] # NoParent
  <2> DEFINE c == UpdateHostInfo(h)
             commands == Unless(verified[Parent[h]] = Nothing \/ avail[h] # "no", c)
  <2>1. Send("hostInfo", h, commands) /\ Untroubled
    BY <1>2 DEF GetHostInfo
  <2>2. pc = "hostInfo" /\ Stage = 7 /\ Stage > 3
    BY <2>1, Stages DEF Send, Take
  <2>3. /\ IsSeq(commands) /\ InOrder(commands) /\ ToSet(commands) \subseteq {c}
        /\ verified[Parent[h]] # Nothing /\ avail[h] = "no" => ToSet(commands) = {c}
    BY UnlessPlan
  <2>4. c.op = "info" /\ c.on = h /\ Wellformed(c)
    BY DisjointAssumption
       DEF UpdateHostInfo, Command, Wellformed, StatusOps, NameServerOps, DSOps, AddressOps
  <2> HIDE DEF c, commands
  <2>5. /\ Take("hostInfo", h) /\ todo' = todo \ {h} /\ plan' = commands /\ mishaps' = mishaps
        /\ UNCHANGED <<registry, polls, row, pc, work, verified, avail, info, completed>>
        /\ RowTypes' /\ AsApproved' /\ avail' \in [Objects -> {"unknown", "yes", "no"}]
        /\ VerifiedHosts' = VerifiedHosts
    BY <2>1, <2>2, Sent
  <2>6. /\ h \in todo /\ plan = <<>> /\ h \in VerifiedHosts /\ h \notin VerifiedDomains
        /\ h \in Objects
    BY <2>2, <2>5, PhaseFacts
  <2>7. PlanFits'
    <3>1. pc' \in DOMAIN Ops /\ pc' \in HostPhases /\ Ops[pc'] = {"info"}
      BY <2>2, <2>5 DEF Ops, HostPhases
    <3> QED BY <2>2, <2>3, <2>4, <2>5, <2>6, <3>1, ChosenFits
  <2>8. HostRun(h)'
    <3>1. /\ Past(5, h) /\ Past(5, h)' /\ ~ Past(7, h) /\ ~ Past(9, h) /\ ~ Past(9, h)'
          /\ Past(2, Parent[h]) /\ Past(2, Parent[h])' /\ Stage # 0
      BY <2>2, <2>5, <2>6, TakenPast DEF Past
    <3>2. ParentVerified(h)' /\ HostKnown(h)'
      BY <2>5, <2>6, <3>1 DEF Inv, HostRuns, HostRun, ParentVerified, HostKnown
    <3>3. info'[h] = Nothing
      BY <2>5, <3>1 DEF Inv, Uninformed
    <3>4. ASSUME Calm(h)', ~ Sends("info", h)' PROVE ~ registry'[h].exists
      <4>1. <<"verify", Parent[h]>> \notin mishaps
        BY <2>5, <3>4 DEF Calm
      <4>2. verified[Parent[h]] # Nothing
        BY <1>2, <2>6, <3>1, <4>1 DEF Inv, HostRuns, HostRun, ParentVerified
      <4>3. avail[h] # "no"
        BY <2>3, <2>4, <2>5, <3>4, <4>2 DEF Sends, PlanFor
      <4> QED BY <2>5, <2>6, <3>1, <4>3 DEF Inv, HostRuns, HostRun, HostKnown
    <3>5. HostInformed(h)'
      BY <1>2, <3>3, <3>4 DEF HostInformed
    <3> QED BY <3>1, <3>2, <3>5 DEF HostRun
  <2> QED BY <2>2, <2>3, <2>4, <2>5, <2>6, <2>7, <2>8, PhaseInv
<1> QED BY <1>1, <1>2

LEMMA InvDomainTransferInRequests ==
  ASSUME Inv, NEW d \in Domains, DomainTransferInRequests(d)
  PROVE  Inv'
<1> DEFINE c == RequestDomainTransfer(d)
<1>1. PICK none : Send("transferIn", d, Unless(none, c)) /\ Untroubled
  BY DEF DomainTransferInRequests
<1> DEFINE commands == Unless(none, c)
<1>2. pc = "transferIn" /\ Stage = 8 /\ Stage > 3
  BY <1>1, Stages DEF Send, Take
<1>3. IsSeq(commands) /\ InOrder(commands) /\ ToSet(commands) \subseteq {c}
  BY UnlessPlan
<1>4. c.op = "transfer" /\ c.on = d /\ Wellformed(c)
  BY DEF RequestDomainTransfer, Command, Wellformed, StatusOps, NameServerOps, DSOps, AddressOps
<1> HIDE DEF c, commands
<1>5. /\ Take("transferIn", d) /\ todo' = todo \ {d} /\ plan' = commands /\ mishaps' = mishaps
      /\ UNCHANGED <<registry, polls, row, pc, work, verified, avail, info, completed>>
      /\ RowTypes' /\ AsApproved' /\ avail' \in [Objects -> {"unknown", "yes", "no"}]
      /\ VerifiedDomains' = VerifiedDomains
  BY <1>1, <1>2, Sent DEF commands
<1>6. d \in todo /\ plan = <<>> /\ d \in VerifiedDomains /\ d \notin VerifiedHosts /\ d \in Objects
  BY <1>2, <1>5, PhaseFacts
<1>7. PlanFits'
  <2>1. pc' \in DOMAIN Ops /\ pc' \notin HostPhases /\ Ops[pc'] = {"transfer"}
    BY <1>2, <1>5 DEF Ops, HostPhases
  <2> QED BY <1>2, <1>3, <1>4, <1>5, <1>6, <2>1, ChosenFits
<1>8. DomainRun(d)'
  <2>1. /\ Past(4, d) /\ Past(4, d)' /\ Past(6, d) /\ Past(6, d)'
        /\ ~ Past(10, d) /\ ~ Past(10, d)'
    BY <1>2, <1>5, TakenPast DEF Past
  <2>2. ~ Sends("create", d) /\ ~ Sends("info", d)
    BY <1>6, NoPlanNow
  <2>3. DomainKnown(d)'
    BY <1>5, <1>6, <2>1, <2>2 DEF Inv, DomainRuns, DomainRun, DomainKnown, Wants
  <2>4. DomainInformed(d)'
    BY <1>5, <1>6, <2>1, <2>2 DEF Inv, DomainRuns, DomainRun, DomainInformed
  <2> QED BY <2>1, <2>3, <2>4 DEF DomainRun
<1> QED BY <1>2, <1>3, <1>4, <1>5, <1>6, <1>7, <1>8, PhaseInv

(* The pushes leave what the run knows as it is.                           *)
LEMMA Pushed ==
  ASSUME Inv, NEW phase \in {"pushDomains", "pushHosts"}, NEW o, NEW new, Push(phase, o, new),
         new \in Row, new.rev = row[o].rev
  PROVE  Inv'
<1>1. /\ Take(phase, o) /\ todo' = todo \ {o} /\ mishaps' = mishaps
      /\ UNCHANGED <<registry, polls, pc, work, verified, avail, info, plan, completed>>
      /\ row' = [row EXCEPT ![o] = new] \/ row' = row
  BY DEF Push, registryVars
<1>2. Stage \in {11, 12} /\ Stage > 3
  BY <1>1, Stages DEF Take
<1>3. /\ plan = <<>> /\ o \in Objects
      /\ o \in VerifiedDomains => o \in Domains
      /\ o \in VerifiedHosts => o \in Hosts
  BY <1>1, <1>2, PhaseFacts DEF VerifiedDomains, VerifiedHosts
<1>4. /\ DOMAIN row' = Objects
      /\ \A x \in Objects : row'[x] \in Row /\ row'[x].rev = row[x].rev
  BY <1>1, <1>3 DEF Inv, Types, RowTypes
<1>5. RowTypes' /\ AsApproved' /\ avail' \in [Objects -> {"unknown", "yes", "no"}]
  BY <1>1, <1>4 DEF Inv, Types, RowTypes, RunTypes, AsApproved
<1>6. PlanFits' /\ ToSet(plan') = {} /\ \A x : PlanFor(x)' = {} /\ PlanFor(x) = {}
  BY <1>1, <1>3, NoPlan, NoPlanNow, NoneIsSeq
<1>7. \A k \in {2, 4, 5, 6, 7, 9, 10} : \A x : Past(k, x)' <=> Past(k, x)
  BY <1>1, <1>2, TakenPast DEF Past
<1>8. ASSUME o \in VerifiedDomains PROVE DomainRun(o)'
  BY <1>1, <1>6, <1>7, <1>8, DomainRunKept DEF Inv, DomainRuns
<1>9. ASSUME o \in VerifiedHosts PROVE HostRun(o)'
  BY <1>1, <1>6, <1>7, <1>9, HostRunKept DEF Inv, HostRuns
<1> QED BY <1>1, <1>2, <1>5, <1>6, <1>8, <1>9, PhaseInv

LEMMA InvPushDomains ==
  ASSUME Inv, NEW d \in Domains, PushDomains(d)
  PROVE  Inv'
<1> DEFINE new == IF info[d] = Nothing THEN UnsetCheck(d) ELSE DomainLoadEPPInfo(d, d, info[d])
<1>1. row[d] \in Row
  BY DEF Inv, Types, RowTypes, Objects
<1>2. UnsetCheck(d) \in Row /\ UnsetCheck(d).rev = row[d].rev
  BY <1>1, RowChecked DEF UnsetCheck
<1>3. DomainLoadEPPInfo(d, d, info[d]) = row[d]
  BY DEF DomainLoadEPPInfo
<1>4. new \in Row /\ new.rev = row[d].rev
  BY <1>1, <1>2, <1>3
<1>5. Push("pushDomains", d, new)
  BY DEF PushDomains
<1> HIDE DEF new
<1> QED BY <1>4, <1>5, Pushed

LEMMA InvPushHosts ==
  ASSUME Inv, NEW h \in Hosts, PushHosts(h)
  PROVE  Inv'
<1> DEFINE new == IF info[h] = Nothing THEN UnsetCheck(h) ELSE HostLoadEPPInfo(h, info[h])
<1>1. row[h] \in Row
  BY DEF Inv, Types, RowTypes, Objects
<1>2. UnsetCheck(h) \in Row /\ UnsetCheck(h).rev = row[h].rev
  BY <1>1, RowChecked DEF UnsetCheck
<1>3. HostLoadEPPInfo(h, info[h]) \in Row /\ HostLoadEPPInfo(h, info[h]).rev = row[h].rev
  BY <1>1 DEF HostLoadEPPInfo, Row
<1>4. new \in Row /\ new.rev = row[h].rev
  BY <1>2, <1>3
<1>5. Push("pushHosts", h, new)
  BY DEF PushHosts
<1> HIDE DEF new
<1> QED BY <1>4, <1>5, Pushed

-----------------------------------------------------------------------------
(* The commands for a domain *)

LEMMA PartAdds ==
  ASSUME NEW op, NEW d, NEW set
  PROVE  LET p == Part(op, d, Add(set)) IN
         /\ IsSeq(p) /\ InOrder(p) /\ ToSet(p) \subseteq {Command(op, d, Add(set), "log", TRUE)}
         /\ \A ops : /\ op \in ops => Adds(ToSet(p), ops) = set
                     /\ op \notin ops => Adds(ToSet(p), ops) = {}
                     /\ Rems(ToSet(p), ops) = {}
<1> DEFINE none == Same(Add(set))
           c == Command(op, d, Add(set), "log", TRUE)
           p == Part(op, d, Add(set))
<1>1. p = Unless(none, c)
  BY DEF Part
<1>2. c.op = op /\ c.arg.add = set /\ c.arg.rem = {}
  BY DEF Command, Add
<1>3. none <=> set = {}
  BY DEF Same, Add
<1> HIDE DEF none, c, p
<1>4. /\ IsSeq(p) /\ InOrder(p) /\ ToSet(p) \subseteq {c}
      /\ none => ToSet(p) = {}
      /\ ~ none => ToSet(p) = {c}
  BY <1>1, UnlessPlan
<1>5. ASSUME NEW ops, op \in ops PROVE Adds(ToSet(p), ops) = set
  BY <1>2, <1>3, <1>4, <1>5 DEF Adds
<1>6. ASSUME NEW ops, op \notin ops PROVE Adds(ToSet(p), ops) = {}
  BY <1>2, <1>3, <1>4, <1>6 DEF Adds
<1>7. ASSUME NEW ops PROVE Rems(ToSet(p), ops) = {}
  BY <1>2, <1>3, <1>4 DEF Rems
<1> QED BY <1>4, <1>5, <1>6, <1>7 DEF c, p

LEMMA PartRems ==
  ASSUME NEW op, NEW d, NEW set
  PROVE  LET p == Part(op, d, Rem(set)) IN
         /\ IsSeq(p) /\ InOrder(p) /\ ToSet(p) \subseteq {Command(op, d, Rem(set), "log", TRUE)}
         /\ \A ops : /\ op \in ops => Rems(ToSet(p), ops) = set
                     /\ op \notin ops => Rems(ToSet(p), ops) = {}
                     /\ Adds(ToSet(p), ops) = {}
<1> DEFINE none == Same(Rem(set))
           c == Command(op, d, Rem(set), "log", TRUE)
           p == Part(op, d, Rem(set))
<1>1. p = Unless(none, c)
  BY DEF Part
<1>2. c.op = op /\ c.arg.rem = set /\ c.arg.add = {}
  BY DEF Command, Rem
<1>3. none <=> set = {}
  BY DEF Same, Add, Rem
<1> HIDE DEF none, c, p
<1>4. /\ IsSeq(p) /\ InOrder(p) /\ ToSet(p) \subseteq {c}
      /\ none => ToSet(p) = {}
      /\ ~ none => ToSet(p) = {c}
  BY <1>1, UnlessPlan
<1>5. ASSUME NEW ops, op \in ops PROVE Rems(ToSet(p), ops) = set
  BY <1>2, <1>3, <1>4, <1>5 DEF Rems
<1>6. ASSUME NEW ops, op \notin ops PROVE Rems(ToSet(p), ops) = {}
  BY <1>2, <1>3, <1>4, <1>6 DEF Rems
<1>7. ASSUME NEW ops PROVE Adds(ToSet(p), ops) = {}
  BY <1>2, <1>3, <1>4 DEF Adds
<1> QED BY <1>4, <1>5, <1>6, <1>7 DEF c, p

(* The changes of a domain, in the order they are sent.                    *)
LEMMA ChangesAre ==
  ASSUME NEW d \in Domains, NEW inf, NEW hosts, NEW ds, NEW statuses,
         hosts.add \subseteq Hosts, hosts.add \cap hosts.rem = {},
         ds.add \subseteq DSRecords, ds.add \cap ds.rem = {}, statuses.add \subseteq Statuses
  PROVE  LET p == DomainUnlockForChange(d, inf) \o ChangeHosts(d, hosts)
                  \o DomainAddDSRecords(d, ds) \o DomainRemoveDSRecords(d, ds)
                  \o DomainRemoveStatuses(d, statuses) \o DomainAddStatuses(d, statuses)
         IN  /\ IsSeq(p) /\ InOrder(p)
             /\ \A c \in ToSet(p) :
                  c.on = d /\ c.op \in Ops.domainUpdate \ {"delete"} /\ Wellformed(c)
             /\ Adds(ToSet(p), NameServerOps) = hosts.add
             /\ Rems(ToSet(p), NameServerOps) = hosts.rem
             /\ Adds(ToSet(p), DSOps) = ds.add /\ Rems(ToSet(p), DSOps) = ds.rem
             /\ Adds(ToSet(p), StatusOps) = statuses.add
             /\ Rems(ToSet(p), StatusOps) =
                  statuses.rem \cup IF Unlocks(inf) THEN {"clientUpdate"} ELSE {}
<1> DEFINE cU == Command("unlock", d, Rem({"clientUpdate"}), "log", FALSE)
           cAH == Command("addHosts", d, Add(hosts.add), "log", TRUE)
           cRH == Command("remHosts", d, Rem(hosts.rem), "log", TRUE)
           cAD == Command("addDS", d, Add(ds.add), "log", TRUE)
           cRD == Command("remDS", d, Rem(ds.rem), "log", TRUE)
           cRS == Command("remStatuses", d, Rem(statuses.rem), "log", TRUE)
           cAS == Command("addStatuses", d, Add(statuses.add), "log", TRUE)
           pU == DomainUnlockForChange(d, inf)
           pAH == DomainAddHosts(d, hosts)
           pRH == DomainRemoveHosts(d, hosts)
           pAD == DomainAddDSRecords(d, ds)
           pRD == DomainRemoveDSRecords(d, ds)
           pRS == DomainRemoveStatuses(d, statuses)
           pAS == DomainAddStatuses(d, statuses)
<1>1. /\ cU.on = d /\ cU.op = "unlock" /\ cU.arg.add = {} /\ cU.arg.rem = {"clientUpdate"}
      /\ cAH.on = d /\ cAH.op = "addHosts" /\ cAH.arg.add = hosts.add /\ cAH.arg.rem = {}
      /\ cRH.on = d /\ cRH.op = "remHosts" /\ cRH.arg.add = {} /\ cRH.arg.rem = hosts.rem
      /\ cAD.on = d /\ cAD.op = "addDS" /\ cAD.arg.add = ds.add /\ cAD.arg.rem = {}
      /\ cRD.on = d /\ cRD.op = "remDS" /\ cRD.arg.add = {} /\ cRD.arg.rem = ds.rem
      /\ cRS.on = d /\ cRS.op = "remStatuses" /\ cRS.arg.add = {} /\ cRS.arg.rem = statuses.rem
      /\ cAS.on = d /\ cAS.op = "addStatuses" /\ cAS.arg.add = statuses.add /\ cAS.arg.rem = {}
      /\ "skip" \notin {cU.onError, cAH.onError, cRH.onError, cAD.onError, cRD.onError,
                        cRS.onError, cAS.onError}
  BY DEF Command, Add, Rem
<1>2. /\ IsSeq(pU) /\ InOrder(pU) /\ ToSet(pU) \subseteq {cU}
      /\ \A ops : /\ Adds(ToSet(pU), ops) = {}
                  /\ "unlock" \in ops =>
                       Rems(ToSet(pU), ops) = IF Unlocks(inf) THEN {"clientUpdate"} ELSE {}
                  /\ "unlock" \notin ops => Rems(ToSet(pU), ops) = {}
  <2>1. /\ IsSeq(pU) /\ InOrder(pU) /\ ToSet(pU) \subseteq {cU}
        /\ ~ Unlocks(inf) => ToSet(pU) = {}
        /\ Unlocks(inf) => ToSet(pU) = {cU}
    BY UnlessPlan, ZenonT(60) DEF DomainUnlockForChange
  <2> HIDE DEF cU, pU
  <2>2. ASSUME NEW ops PROVE Adds(ToSet(pU), ops) = {}
    BY <1>1, <2>1 DEF Adds
  <2>3. ASSUME NEW ops, "unlock" \in ops
        PROVE  Rems(ToSet(pU), ops) = IF Unlocks(inf) THEN {"clientUpdate"} ELSE {}
    BY <1>1, <2>1, <2>3 DEF Rems
  <2>4. ASSUME NEW ops, "unlock" \notin ops PROVE Rems(ToSet(pU), ops) = {}
    BY <1>1, <2>1, <2>4 DEF Rems
  <2> QED BY <2>1, <2>2, <2>3, <2>4
<1>3. /\ IsSeq(pAH) /\ InOrder(pAH) /\ ToSet(pAH) \subseteq {cAH}
      /\ \A ops : /\ "addHosts" \in ops => Adds(ToSet(pAH), ops) = hosts.add
                  /\ "addHosts" \notin ops => Adds(ToSet(pAH), ops) = {}
                  /\ Rems(ToSet(pAH), ops) = {}
  BY PartAdds DEF DomainAddHosts
<1>4. /\ IsSeq(pRH) /\ InOrder(pRH) /\ ToSet(pRH) \subseteq {cRH}
      /\ \A ops : /\ "remHosts" \in ops => Rems(ToSet(pRH), ops) = hosts.rem
                  /\ "remHosts" \notin ops => Rems(ToSet(pRH), ops) = {}
                  /\ Adds(ToSet(pRH), ops) = {}
  BY PartRems DEF DomainRemoveHosts
<1>5. /\ IsSeq(pAD) /\ InOrder(pAD) /\ ToSet(pAD) \subseteq {cAD}
      /\ \A ops : /\ "addDS" \in ops => Adds(ToSet(pAD), ops) = ds.add
                  /\ "addDS" \notin ops => Adds(ToSet(pAD), ops) = {}
                  /\ Rems(ToSet(pAD), ops) = {}
  BY PartAdds DEF DomainAddDSRecords
<1>6. /\ IsSeq(pRD) /\ InOrder(pRD) /\ ToSet(pRD) \subseteq {cRD}
      /\ \A ops : /\ "remDS" \in ops => Rems(ToSet(pRD), ops) = ds.rem
                  /\ "remDS" \notin ops => Rems(ToSet(pRD), ops) = {}
                  /\ Adds(ToSet(pRD), ops) = {}
  BY PartRems DEF DomainRemoveDSRecords
<1>7. /\ IsSeq(pRS) /\ InOrder(pRS) /\ ToSet(pRS) \subseteq {cRS}
      /\ \A ops : /\ "remStatuses" \in ops => Rems(ToSet(pRS), ops) = statuses.rem
                  /\ "remStatuses" \notin ops => Rems(ToSet(pRS), ops) = {}
                  /\ Adds(ToSet(pRS), ops) = {}
  BY PartRems DEF DomainRemoveStatuses
<1>8. /\ IsSeq(pAS) /\ InOrder(pAS) /\ ToSet(pAS) \subseteq {cAS}
      /\ \A ops : /\ "addStatuses" \in ops => Adds(ToSet(pAS), ops) = statuses.add
                  /\ "addStatuses" \notin ops => Adds(ToSet(pAS), ops) = {}
                  /\ Rems(ToSet(pAS), ops) = {}
  BY PartAdds DEF DomainAddStatuses
<1> HIDE DEF cU, cAH, cRH, cAD, cRD, cRS, cAS, pU, pAH, pRH, pAD, pRD, pRS, pAS
<1>9. Follows(cAH, cRH)
  BY <1>1 DEF Follows, Fields, StatusOps, NameServerOps, DSOps, AddressOps
<1>10. \A c \in {cU} : \A e \in {cAH, cRH} : Follows(c, e)
  BY <1>1 DEF Follows, Fields, StatusOps, NameServerOps, DSOps, AddressOps
<1>11. \A c \in {cU, cAH, cRH} : Follows(c, cAD)
  BY <1>1 DEF Follows, Fields, StatusOps, NameServerOps, DSOps, AddressOps
<1>12. \A c \in {cU, cAH, cRH, cAD} : Follows(c, cRD)
  BY <1>1 DEF Follows, Fields, StatusOps, NameServerOps, DSOps, AddressOps
<1>13. \A c \in {cU, cAH, cRH, cAD, cRD} : Follows(c, cRS)
  BY <1>1 DEF Follows, Fields, StatusOps, NameServerOps, DSOps, AddressOps
<1>14. \A c \in {cU, cAH, cRH, cAD, cRD, cRS} : Follows(c, cAS)
  BY <1>1 DEF Follows, Fields, StatusOps, NameServerOps, DSOps, AddressOps
<1> DEFINE p1 == pAH \o pRH
           p2 == pU \o p1
           p3 == p2 \o pAD
           p4 == p3 \o pRD
           p5 == p4 \o pRS
           p6 == p5 \o pAS
<1>15. /\ IsSeq(p1) /\ InOrder(p1) /\ ToSet(p1) \subseteq {cAH, cRH}
       /\ \A ops : /\ Adds(ToSet(p1), ops) = Adds(ToSet(pAH), ops) \cup Adds(ToSet(pRH), ops)
                   /\ Rems(ToSet(p1), ops) = Rems(ToSet(pAH), ops) \cup Rems(ToSet(pRH), ops)
  BY <1>3, <1>4, <1>9, PlanThen
<1>16. /\ IsSeq(p2) /\ InOrder(p2) /\ ToSet(p2) \subseteq {cU, cAH, cRH}
       /\ \A ops : /\ Adds(ToSet(p2), ops) = Adds(ToSet(pU), ops) \cup Adds(ToSet(p1), ops)
                   /\ Rems(ToSet(p2), ops) = Rems(ToSet(pU), ops) \cup Rems(ToSet(p1), ops)
  <2> HIDE DEF p1
  <2> QED BY <1>2, <1>10, <1>15, PlanThen
<1>17. /\ IsSeq(p3) /\ InOrder(p3) /\ ToSet(p3) \subseteq {cU, cAH, cRH, cAD}
       /\ \A ops : /\ Adds(ToSet(p3), ops) = Adds(ToSet(p2), ops) \cup Adds(ToSet(pAD), ops)
                   /\ Rems(ToSet(p3), ops) = Rems(ToSet(p2), ops) \cup Rems(ToSet(pAD), ops)
  <2> HIDE DEF p2
  <2> QED BY <1>5, <1>11, <1>16, PlanThen
<1>18. /\ IsSeq(p4) /\ InOrder(p4) /\ ToSet(p4) \subseteq {cU, cAH, cRH, cAD, cRD}
       /\ \A ops : /\ Adds(ToSet(p4), ops) = Adds(ToSet(p3), ops) \cup Adds(ToSet(pRD), ops)
                   /\ Rems(ToSet(p4), ops) = Rems(ToSet(p3), ops) \cup Rems(ToSet(pRD), ops)
  <2> HIDE DEF p3
  <2> QED BY <1>6, <1>12, <1>17, PlanThen
<1>19. /\ IsSeq(p5) /\ InOrder(p5) /\ ToSet(p5) \subseteq {cU, cAH, cRH, cAD, cRD, cRS}
       /\ \A ops : /\ Adds(ToSet(p5), ops) = Adds(ToSet(p4), ops) \cup Adds(ToSet(pRS), ops)
                   /\ Rems(ToSet(p5), ops) = Rems(ToSet(p4), ops) \cup Rems(ToSet(pRS), ops)
  <2> HIDE DEF p4
  <2> QED BY <1>7, <1>13, <1>18, PlanThen
<1>20. /\ IsSeq(p6) /\ InOrder(p6) /\ ToSet(p6) \subseteq {cU, cAH, cRH, cAD, cRD, cRS, cAS}
       /\ \A ops : /\ Adds(ToSet(p6), ops) = Adds(ToSet(p5), ops) \cup Adds(ToSet(pAS), ops)
                   /\ Rems(ToSet(p6), ops) = Rems(ToSet(p5), ops) \cup Rems(ToSet(pAS), ops)
  <2> HIDE DEF p5
  <2> QED BY <1>8, <1>14, <1>19, PlanThen
<1>21. /\ Wellformed(cU) /\ Wellformed(cAH) /\ Wellformed(cRH) /\ Wellformed(cAD)
       /\ Wellformed(cRD) /\ Wellformed(cRS) /\ Wellformed(cAS)
  BY <1>1 DEF Wellformed, StatusOps, NameServerOps, DSOps, AddressOps
<1>22. \A c \in ToSet(p6) : c.on = d /\ c.op \in Ops.domainUpdate \ {"delete"} /\ Wellformed(c)
  <2> HIDE DEF p6
  <2> QED BY <1>1, <1>20, <1>21 DEF Ops
<1> DEFINE lock == IF Unlocks(inf) THEN {"clientUpdate"} ELSE {}
<1> HIDE DEF p1, p2, p3, p4, p5, p6
<1>23. /\ Adds(ToSet(p6), NameServerOps) = hosts.add
       /\ Rems(ToSet(p6), NameServerOps) = hosts.rem
  <2>0. /\ "addHosts" \in NameServerOps /\ "remHosts" \in NameServerOps
        /\ "unlock" \notin NameServerOps /\ "addDS" \notin NameServerOps
        /\ "remDS" \notin NameServerOps /\ "remStatuses" \notin NameServerOps
        /\ "addStatuses" \notin NameServerOps
    BY DEF NameServerOps
  <2>1. Adds(ToSet(p1), NameServerOps) = hosts.add /\ Rems(ToSet(p1), NameServerOps) = hosts.rem
    <3>1. /\ Adds(ToSet(pAH), NameServerOps) = hosts.add
          /\ Adds(ToSet(pRH), NameServerOps) = {}
          /\ Rems(ToSet(pAH), NameServerOps) = {}
          /\ Rems(ToSet(pRH), NameServerOps) = hosts.rem
      BY <1>3, <1>4, <2>0
    <3>2. /\ Adds(ToSet(p1), NameServerOps) = hosts.add \cup {}
          /\ Rems(ToSet(p1), NameServerOps) = {} \cup hosts.rem
      BY <1>15, <3>1
    <3> QED BY <3>2
  <2>2. Adds(ToSet(p2), NameServerOps) = hosts.add /\ Rems(ToSet(p2), NameServerOps) = hosts.rem
    <3>1. Adds(ToSet(p2), NameServerOps) = hosts.add
      BY <1>2, <1>16, <2>0, <2>1
    <3>2. Rems(ToSet(p2), NameServerOps) = hosts.rem
      BY <1>2, <1>16, <2>0, <2>1
    <3> QED BY <3>1, <3>2
  <2>3. Adds(ToSet(p3), NameServerOps) = hosts.add /\ Rems(ToSet(p3), NameServerOps) = hosts.rem
    <3>1. Adds(ToSet(p3), NameServerOps) = hosts.add
      BY <1>5, <1>17, <2>0, <2>2
    <3>2. Rems(ToSet(p3), NameServerOps) = hosts.rem
      BY <1>5, <1>17, <2>0, <2>2
    <3> QED BY <3>1, <3>2
  <2>4. Adds(ToSet(p4), NameServerOps) = hosts.add /\ Rems(ToSet(p4), NameServerOps) = hosts.rem
    <3>1. Adds(ToSet(p4), NameServerOps) = hosts.add
      BY <1>6, <1>18, <2>0, <2>3
    <3>2. Rems(ToSet(p4), NameServerOps) = hosts.rem
      BY <1>6, <1>18, <2>0, <2>3
    <3> QED BY <3>1, <3>2
  <2>5. Adds(ToSet(p5), NameServerOps) = hosts.add /\ Rems(ToSet(p5), NameServerOps) = hosts.rem
    <3>1. Adds(ToSet(p5), NameServerOps) = hosts.add
      BY <1>7, <1>19, <2>0, <2>4
    <3>2. Rems(ToSet(p5), NameServerOps) = hosts.rem
      BY <1>7, <1>19, <2>0, <2>4
    <3> QED BY <3>1, <3>2
  <2>6. Adds(ToSet(p6), NameServerOps) = hosts.add /\ Rems(ToSet(p6), NameServerOps) = hosts.rem
    <3>1. Adds(ToSet(p6), NameServerOps) = hosts.add
      BY <1>8, <1>20, <2>0, <2>5
    <3>2. Rems(ToSet(p6), NameServerOps) = hosts.rem
      BY <1>8, <1>20, <2>0, <2>5
    <3> QED BY <3>1, <3>2
  <2> QED BY <2>6
<1>24. /\ Adds(ToSet(p6), DSOps) = ds.add
       /\ Rems(ToSet(p6), DSOps) = ds.rem
  <2>0. /\ "addDS" \in DSOps /\ "remDS" \in DSOps
        /\ "unlock" \notin DSOps /\ "addHosts" \notin DSOps /\ "remHosts" \notin DSOps
        /\ "remStatuses" \notin DSOps /\ "addStatuses" \notin DSOps
    BY DEF DSOps
  <2>1. Adds(ToSet(p1), DSOps) = {} /\ Rems(ToSet(p1), DSOps) = {}
    <3>1. Adds(ToSet(p1), DSOps) = {}
      BY <1>3, <1>4, <1>15, <2>0
    <3>2. Rems(ToSet(p1), DSOps) = {}
      BY <1>3, <1>4, <1>15, <2>0
    <3> QED BY <3>1, <3>2
  <2>2. Adds(ToSet(p2), DSOps) = {} /\ Rems(ToSet(p2), DSOps) = {}
    <3>1. Adds(ToSet(p2), DSOps) = {}
      BY <1>2, <1>16, <2>0, <2>1
    <3>2. Rems(ToSet(p2), DSOps) = {}
      BY <1>2, <1>16, <2>0, <2>1
    <3> QED BY <3>1, <3>2
  <2>3. Adds(ToSet(p3), DSOps) = ds.add /\ Rems(ToSet(p3), DSOps) = {}
    <3>1. Adds(ToSet(p3), DSOps) = ds.add
      BY <1>5, <1>17, <2>0, <2>2
    <3>2. Rems(ToSet(p3), DSOps) = {}
      BY <1>5, <1>17, <2>0, <2>2
    <3> QED BY <3>1, <3>2
  <2>4. Adds(ToSet(p4), DSOps) = ds.add /\ Rems(ToSet(p4), DSOps) = ds.rem
    <3>1. Adds(ToSet(p4), DSOps) = ds.add
      BY <1>6, <1>18, <2>0, <2>3
    <3>2. Rems(ToSet(pRD), DSOps) = ds.rem
      BY <1>6, <2>0
    <3>3. Rems(ToSet(p4), DSOps) = {} \cup ds.rem
      BY <1>18, <2>3, <3>2
    <3> QED BY <3>1, <3>3
  <2>5. Adds(ToSet(p5), DSOps) = ds.add /\ Rems(ToSet(p5), DSOps) = ds.rem
    <3>1. Adds(ToSet(p5), DSOps) = ds.add
      BY <1>7, <1>19, <2>0, <2>4
    <3>2. Rems(ToSet(p5), DSOps) = ds.rem
      BY <1>7, <1>19, <2>0, <2>4
    <3> QED BY <3>1, <3>2
  <2>6. Adds(ToSet(p6), DSOps) = ds.add /\ Rems(ToSet(p6), DSOps) = ds.rem
    <3>1. Adds(ToSet(p6), DSOps) = ds.add
      BY <1>8, <1>20, <2>0, <2>5
    <3>2. Rems(ToSet(p6), DSOps) = ds.rem
      BY <1>8, <1>20, <2>0, <2>5
    <3> QED BY <3>1, <3>2
  <2> QED BY <2>6
<1>25. /\ Adds(ToSet(p6), StatusOps) = statuses.add
       /\ Rems(ToSet(p6), StatusOps) = statuses.rem \cup lock
  <2>0. /\ "unlock" \in StatusOps /\ "remStatuses" \in StatusOps /\ "addStatuses" \in StatusOps
        /\ "addHosts" \notin StatusOps /\ "remHosts" \notin StatusOps
        /\ "addDS" \notin StatusOps /\ "remDS" \notin StatusOps
    BY DEF StatusOps
  <2>1. Adds(ToSet(p1), StatusOps) = {} /\ Rems(ToSet(p1), StatusOps) = {}
    <3>1. Adds(ToSet(p1), StatusOps) = {}
      BY <1>3, <1>4, <1>15, <2>0
    <3>2. Rems(ToSet(p1), StatusOps) = {}
      BY <1>3, <1>4, <1>15, <2>0
    <3> QED BY <3>1, <3>2
  <2>2. Adds(ToSet(p2), StatusOps) = {} /\ Rems(ToSet(p2), StatusOps) = lock
    <3>1. Adds(ToSet(p2), StatusOps) = {}
      BY <1>2, <1>16, <2>0, <2>1
    <3>2. Rems(ToSet(p2), StatusOps) = lock
      BY <1>2, <1>16, <2>0, <2>1
    <3> QED BY <3>1, <3>2
  <2>3. Adds(ToSet(p3), StatusOps) = {} /\ Rems(ToSet(p3), StatusOps) = lock
    <3>1. Adds(ToSet(p3), StatusOps) = {}
      BY <1>5, <1>17, <2>0, <2>2
    <3>2. Rems(ToSet(p3), StatusOps) = lock
      BY <1>5, <1>17, <2>0, <2>2
    <3> QED BY <3>1, <3>2
  <2>4. Adds(ToSet(p4), StatusOps) = {} /\ Rems(ToSet(p4), StatusOps) = lock
    <3>1. Adds(ToSet(p4), StatusOps) = {}
      BY <1>6, <1>18, <2>0, <2>3
    <3>2. Rems(ToSet(p4), StatusOps) = lock
      BY <1>6, <1>18, <2>0, <2>3
    <3> QED BY <3>1, <3>2
  <2>5. Adds(ToSet(p5), StatusOps) = {} /\ Rems(ToSet(p5), StatusOps) = statuses.rem \cup lock
    <3>1. Adds(ToSet(p5), StatusOps) = {}
      BY <1>7, <1>19, <2>0, <2>4
    <3>2. Rems(ToSet(p5), StatusOps) = statuses.rem \cup lock
      BY <1>7, <1>19, <2>0, <2>4
    <3> QED BY <3>1, <3>2
  <2>6. Adds(ToSet(p6), StatusOps) = statuses.add /\ Rems(ToSet(p6), StatusOps) = statuses.rem \cup lock
    <3>1. Adds(ToSet(p6), StatusOps) = statuses.add
      BY <1>8, <1>20, <2>0, <2>5
    <3>2. Rems(ToSet(p6), StatusOps) = statuses.rem \cup lock
      BY <1>8, <1>20, <2>0, <2>5
    <3> QED BY <3>1, <3>2
  <2> QED BY <2>6
<1>26. p6 = DomainUnlockForChange(d, inf) \o ChangeHosts(d, hosts)
            \o DomainAddDSRecords(d, ds) \o DomainRemoveDSRecords(d, ds)
            \o DomainRemoveStatuses(d, statuses) \o DomainAddStatuses(d, statuses)
  BY DEF p1, p2, p3, p4, p5, p6, pU, pAH, pRH, pAD, pRD, pRS, pAS, ChangeHosts
<1> QED BY <1>20, <1>22, <1>23, <1>24, <1>25, <1>26

LEMMA RenewalPlan ==
  ASSUME NEW d, NEW inf
  PROVE  LET p == Renewal(d, inf) IN
         /\ IsSeq(p) /\ InOrder(p)
         /\ \A c \in ToSet(p) : c.op = "renew" /\ c.on = d /\ Wellformed(c)
<1> DEFINE none == {"clientRenew", "serverRenew"} \cap inf.statuses # {} \/ verified[d].expires # 0
           c == Command("renew", d, verified[d].expires, "log", TRUE)
           p == Renewal(d, inf)
<1>1. p = Unless(none, c)
  BY DEF Renewal
<1>2. c.op = "renew" /\ c.on = d /\ c.arg = verified[d].expires /\ c.onError = "log"
  BY DEF Command
<1>3. ~ none => c.arg = 0
  BY <1>2
<1> HIDE DEF none, c, p
<1>4. /\ IsSeq(p) /\ InOrder(p) /\ ToSet(p) \subseteq {c}
      /\ none => ToSet(p) = {}
  BY <1>1, UnlessPlan
<1>5. ~ none => Wellformed(c)
  BY <1>2, <1>3 DEF Wellformed, StatusOps, NameServerOps, DSOps, AddressOps
<1> QED BY <1>2, <1>4, <1>5 DEF p

(* What is sent makes of an active domain what its revision says.          *)
LEMMA ActiveDomainPlan ==
  ASSUME NEW d \in Domains, NEW inf, inf = info[d], NEW rev \in DomainRevision,
         rev = verified[d].rev,
         inf.hosts \subseteq Hosts, inf.ds \subseteq DSRecords, inf.statuses \subseteq Statuses
  PROVE  LET p == ActiveDomain(d) IN
         /\ IsSeq(p) /\ InOrder(p)
         /\ \A c \in ToSet(p) :
              c.on = d /\ c.op \in Ops.domainUpdate \ {"delete"} /\ Wellformed(c)
         /\ Becomes(inf.hosts, ToSet(p), NameServerOps) = rev.hosts
         /\ Becomes(inf.ds, ToSet(p), DSOps) = rev.ds
         /\ Client(Becomes(inf.statuses, ToSet(p), StatusOps)) = Client(rev.statuses)
         /\ "clientUpdate" \in rev.statuses =>
              \/ "clientUpdate" \in Adds(ToSet(p), StatusOps)
              \/ /\ "clientUpdate" \in inf.statuses
                 /\ "clientUpdate" \notin Rems(ToSet(p), StatusOps)
         /\ rev.hosts \subseteq inf.hosts \cup Adds(ToSet(p), NameServerOps)
         /\ rev.hosts \cap Rems(ToSet(p), NameServerOps) = {}
<1> DEFINE hosts == DiffHostList(inf, rev)
           ds == DiffDomainDSData(inf, rev)
           diff == DiffStatuses(inf, rev)
           statuses == Relock(inf, diff)
           changes == DomainUnlockForChange(d, inf) \o ChangeHosts(d, hosts)
                      \o DomainAddDSRecords(d, ds) \o DomainRemoveDSRecords(d, ds)
                      \o DomainRemoveStatuses(d, statuses) \o DomainAddStatuses(d, statuses)
           same == Same(hosts) /\ Same(ds) /\ Same(diff)
           first == IF same THEN <<>> ELSE changes
           second == Renewal(d, inf)
           p == ActiveDomain(d)
           lock == IF Unlocks(inf) THEN {"clientUpdate"} ELSE {}
<1>1. p = first \o second
  BY DEF ActiveDomain
<1>2. hosts.add = rev.hosts \ inf.hosts /\ hosts.rem = inf.hosts \ rev.hosts
  BY DEF DiffHostList
<1>3. ds.add = rev.ds \ inf.ds /\ ds.rem = inf.ds \ rev.ds
  BY DEF DiffDomainDSData
<1>4. /\ diff.add = Client(rev.statuses) \ inf.statuses
      /\ diff.rem = Client(inf.statuses) \ rev.statuses
  BY DEF DiffStatuses
<1>5. /\ statuses.rem = diff.rem
      /\ statuses.add =
           IF Unlocks(inf) /\ "clientUpdate" \notin diff.rem
           THEN diff.add \cup {"clientUpdate"} ELSE diff.add
  BY DEF Relock, DiffStatuses
<1>6. same => /\ hosts.add = {} /\ hosts.rem = {} /\ ds.add = {} /\ ds.rem = {}
              /\ diff.add = {} /\ diff.rem = {}
  BY NoChange DEF Same
<1>7. rev.hosts \subseteq Hosts /\ rev.ds \subseteq DSRecords /\ rev.statuses \subseteq Statuses
  BY DEF DomainRevision
<1> HIDE DEF hosts, ds, diff, statuses
<1>8. statuses.add \subseteq Statuses
  BY <1>4, <1>5, <1>7, StatusesAssumption DEF Client
<1>9. /\ IsSeq(changes) /\ InOrder(changes)
      /\ \A c \in ToSet(changes) :
           c.on = d /\ c.op \in Ops.domainUpdate \ {"delete"} /\ Wellformed(c)
      /\ Adds(ToSet(changes), NameServerOps) = hosts.add
      /\ Rems(ToSet(changes), NameServerOps) = hosts.rem
      /\ Adds(ToSet(changes), DSOps) = ds.add /\ Rems(ToSet(changes), DSOps) = ds.rem
      /\ Adds(ToSet(changes), StatusOps) = statuses.add
      /\ Rems(ToSet(changes), StatusOps) = statuses.rem \cup lock
  <2>1. hosts.add \subseteq Hosts /\ hosts.add \cap hosts.rem = {}
    BY <1>2, <1>7
  <2>2. ds.add \subseteq DSRecords /\ ds.add \cap ds.rem = {}
    BY <1>3, <1>7
  <2> QED BY <1>8, <2>1, <2>2, ChangesAre
<1> HIDE DEF changes, same, second, p
<1>10. /\ IsSeq(first) /\ InOrder(first)
       /\ \A c \in ToSet(first) :
            c.on = d /\ c.op \in Ops.domainUpdate \ {"delete"} /\ Wellformed(c)
       /\ same => ToSet(first) = {}
       /\ ~ same => first = changes
  BY <1>9, NoneIsSeq, OneInOrder
<1>11. /\ IsSeq(second) /\ InOrder(second)
       /\ \A c \in ToSet(second) : c.op = "renew" /\ c.on = d /\ Wellformed(c)
  BY RenewalPlan DEF second
<1> HIDE DEF first, lock
<1>12. \A c \in ToSet(first) : \A e \in ToSet(second) : Follows(c, e)
  BY <1>10, <1>11 DEF Follows, Fields, StatusOps, NameServerOps, DSOps, AddressOps, Ops
<1>13. /\ IsSeq(p) /\ InOrder(p) /\ ToSet(p) = ToSet(first) \cup ToSet(second)
       /\ \A ops : /\ Adds(ToSet(p), ops) = Adds(ToSet(first), ops) \cup Adds(ToSet(second), ops)
                   /\ Rems(ToSet(p), ops) = Rems(ToSet(first), ops) \cup Rems(ToSet(second), ops)
  BY <1>1, <1>10, <1>11, <1>12, PlanThen
<1>14. ASSUME NEW ops, "renew" \notin ops
       PROVE  Adds(ToSet(second), ops) = {} /\ Rems(ToSet(second), ops) = {}
  <2>1. Adds(ToSet(second), ops) = {}
    BY <1>11, <1>14 DEF Adds
  <2>2. Rems(ToSet(second), ops) = {}
    BY <1>11, <1>14 DEF Rems
  <2> QED BY <2>1, <2>2
<1>15. /\ "renew" \notin NameServerOps /\ "renew" \notin DSOps /\ "renew" \notin StatusOps
  BY DEF NameServerOps, DSOps, StatusOps
<1>16. ASSUME NEW ops, "renew" \notin ops
       PROVE  Adds(ToSet(p), ops) = Adds(ToSet(first), ops)
              /\ Rems(ToSet(p), ops) = Rems(ToSet(first), ops)
  <2>1. Adds(ToSet(p), ops) = Adds(ToSet(first), ops) \cup {}
    BY <1>13, <1>14, <1>16
  <2>2. Rems(ToSet(p), ops) = Rems(ToSet(first), ops) \cup {}
    BY <1>13, <1>14, <1>16
  <2> QED BY <2>1, <2>2
<1>17. \A ops : same => Adds(ToSet(first), ops) = {}
  BY <1>10, AddsOfNone, SMT
<1>18. \A ops : same => Rems(ToSet(first), ops) = {}
  BY <1>10, RemsOfNone, SMT
<1>19. \A c \in ToSet(p) : c.on = d /\ c.op \in Ops.domainUpdate \ {"delete"} /\ Wellformed(c)
  BY <1>10, <1>11, <1>13 DEF Ops
<1>20. /\ Adds(ToSet(p), NameServerOps) = hosts.add
       /\ Rems(ToSet(p), NameServerOps) = hosts.rem
  <2>1. CASE same
    BY <1>6, <1>15, <1>16, <1>17, <1>18, <2>1
  <2>2. CASE ~ same
    BY <1>9, <1>10, <1>15, <1>16, <2>2
  <2> QED BY <2>1, <2>2
<1>21. Adds(ToSet(p), DSOps) = ds.add /\ Rems(ToSet(p), DSOps) = ds.rem
  <2>1. CASE same
    BY <1>6, <1>15, <1>16, <1>17, <1>18, <2>1
  <2>2. CASE ~ same
    BY <1>9, <1>10, <1>15, <1>16, <2>2
  <2> QED BY <2>1, <2>2
<1>22. /\ same => /\ Adds(ToSet(p), StatusOps) = diff.add
                  /\ Rems(ToSet(p), StatusOps) = diff.rem
       /\ ~ same => /\ Adds(ToSet(p), StatusOps) = statuses.add
                    /\ Rems(ToSet(p), StatusOps) = statuses.rem \cup lock
  <2>1. CASE same
    BY <1>6, <1>15, <1>16, <1>17, <1>18, <2>1
  <2>2. CASE ~ same
    BY <1>9, <1>10, <1>15, <1>16, <2>2
  <2> QED BY <2>1, <2>2
<1>23. Becomes(inf.hosts, ToSet(p), NameServerOps) = rev.hosts
  BY <1>2, <1>20 DEF Becomes
<1>24. Becomes(inf.ds, ToSet(p), DSOps) = rev.ds
  BY <1>3, <1>21 DEF Becomes
<1>25. Unlocks(inf) => "clientUpdate" \in inf.statuses
  BY DEF Unlocks
<1>26. Client(Becomes(inf.statuses, ToSet(p), StatusOps)) = Client(rev.statuses)
  <2>1. CASE same
    BY <1>4, <1>22, <2>1 DEF Becomes, Client
  <2>2. CASE ~ same /\ Unlocks(inf)
    <3>1. lock = {"clientUpdate"}
      BY <2>2 DEF lock
    <3> QED BY <1>4, <1>5, <1>22, <1>25, <2>2, <3>1, StatusesAssumption DEF Becomes, Client
  <2>3. CASE ~ same /\ ~ Unlocks(inf)
    <3>1. lock = {}
      BY <2>3 DEF lock
    <3> QED BY <1>4, <1>5, <1>22, <2>3, <3>1 DEF Becomes, Client
  <2> QED BY <2>1, <2>2, <2>3
<1>27. ASSUME "clientUpdate" \in rev.statuses
       PROVE  \/ "clientUpdate" \in Adds(ToSet(p), StatusOps)
              \/ /\ "clientUpdate" \in inf.statuses
                 /\ "clientUpdate" \notin Rems(ToSet(p), StatusOps)
  <2>1. "clientUpdate" \notin diff.rem
    BY <1>4, <1>27
  <2>2. "clientUpdate" \in inf.statuses \/ "clientUpdate" \in diff.add
    BY <1>4, <1>27, StatusesAssumption DEF Client
  <2>3. CASE same
    BY <1>22, <2>1, <2>2, <2>3
  <2>4. CASE ~ same
    BY <1>5, <1>22, <2>1, <2>2, <2>4 DEF lock
  <2> QED BY <2>3, <2>4
<1>28. /\ rev.hosts \subseteq inf.hosts \cup Adds(ToSet(p), NameServerOps)
       /\ rev.hosts \cap Rems(ToSet(p), NameServerOps) = {}
  BY <1>2, <1>20
<1> QED BY <1>13, <1>19, <1>23, <1>24, <1>26, <1>27, <1>28 DEF p

LEMMA RefreshPlan ==
  ASSUME NEW d \in Domains, NEW q, IsSeq(q), InOrder(q),
         \A c \in ToSet(q) : c.on = d /\ c.op \in Ops.domainUpdate /\ Wellformed(c)
  PROVE  LET p == q \o <<Refresh(d)>> IN
         /\ IsSeq(p) /\ InOrder(p) /\ ToSet(q) \subseteq ToSet(p)
         /\ \A c \in ToSet(p) : c.on = d /\ c.op \in Ops.domainUpdate /\ Wellformed(c)
         /\ \A c \in ToSet(p) : c \in ToSet(q) \/ c.op = "refresh"
         /\ \A ops \in Fields : /\ Adds(ToSet(p), ops) = Adds(ToSet(q), ops)
                                /\ Rems(ToSet(p), ops) = Rems(ToSet(q), ops)
<1> DEFINE c0 == Refresh(d)
           r == <<c0>>
           p == q \o r
<1>1. c0.op = "refresh" /\ c0.on = d /\ c0.onError = "log"
  BY DEF Refresh, Command
<1>2. Wellformed(c0)
  BY <1>1 DEF Wellformed, StatusOps, NameServerOps, DSOps, AddressOps
<1> HIDE DEF c0
<1>3. IsSeq(r) /\ InOrder(r) /\ ToSet(r) = {c0}
  BY OneIsSeq, OneInOrder
<1>0. p = q \o r
  OBVIOUS
<1> HIDE DEF r, p
<1>4. \A c \in ToSet(q) : \A e \in ToSet(r) : Follows(c, e)
  BY <1>1, <1>3 DEF Follows, Fields, StatusOps, NameServerOps, DSOps, AddressOps, Ops
<1>5. /\ IsSeq(p) /\ InOrder(p) /\ ToSet(p) = ToSet(q) \cup ToSet(r)
      /\ \A ops : /\ Adds(ToSet(p), ops) = Adds(ToSet(q), ops) \cup Adds(ToSet(r), ops)
                  /\ Rems(ToSet(p), ops) = Rems(ToSet(q), ops) \cup Rems(ToSet(r), ops)
  <2>1. IsSeq(q) /\ InOrder(q)
    OBVIOUS
  <2>2. \A c \in ToSet(q) : \A e \in ToSet(r) : Follows(c, e)
    BY <1>4
  <2>3. /\ IsSeq(q \o r) /\ InOrder(q \o r) /\ ToSet(q \o r) = ToSet(q) \cup ToSet(r)
    BY <1>3, <2>1, <2>2, PlanThen, SMT
  <2>4. \A ops : Adds(ToSet(q \o r), ops) = Adds(ToSet(q), ops) \cup Adds(ToSet(r), ops)
    BY <2>3, AddsOfMore, SMT
  <2>5. \A ops : Rems(ToSet(q \o r), ops) = Rems(ToSet(q), ops) \cup Rems(ToSet(r), ops)
    BY <2>3, RemsOfMore, SMT
  <2> QED BY <1>0, <2>3, <2>4, <2>5
<1>6. \A ops \in Fields : "refresh" \notin ops
  BY DEF Fields, StatusOps, NameServerOps, DSOps, AddressOps
<1>7. ASSUME NEW ops \in Fields
      PROVE  Adds(ToSet(p), ops) = Adds(ToSet(q), ops) /\ Rems(ToSet(p), ops) = Rems(ToSet(q), ops)
  <2>1. Adds(ToSet(r), ops) = {}
    BY <1>1, <1>3, <1>6 DEF Adds
  <2>2. Rems(ToSet(r), ops) = {}
    BY <1>1, <1>3, <1>6 DEF Rems
  <2>3. Adds(ToSet(p), ops) = Adds(ToSet(q), ops) \cup {}
    BY <1>5, <2>1
  <2>4. Rems(ToSet(p), ops) = Rems(ToSet(q), ops) \cup {}
    BY <1>5, <2>2
  <2> QED BY <2>3, <2>4
<1>8. /\ ToSet(q) \subseteq ToSet(p)
      /\ \A c \in ToSet(p) : c \in ToSet(q) \/ c = c0
  BY <1>3, <1>5
<1>9. \A c \in ToSet(p) : c.on = d /\ c.op \in Ops.domainUpdate /\ Wellformed(c)
  BY <1>1, <1>2, <1>8 DEF Ops
<1>10. \A c \in ToSet(p) : c \in ToSet(q) \/ c.op = "refresh"
  BY <1>1, <1>8
<1> QED BY <1>5, <1>7, <1>8, <1>9, <1>10 DEF p, r, c0

(* What an operator who was asked agreed to, and what needs no answer.     *)
Declined(d, answer) == AsksDomain(d) /\ answer # "yes"

LEMMA InactiveDomainPlan ==
  ASSUME NEW d, NEW answer
  PROVE  LET p == InactiveDomain(d, answer) IN
         /\ IsSeq(p) /\ InOrder(p)
         /\ \A c \in ToSet(p) : c.op = "delete" /\ c.on = d /\ Wellformed(c)
         /\ answer = "yes" => \E c \in ToSet(p) : c.op = "delete"
<1> DEFINE none == answer # "yes"
           c0 == DomainDelete(d)
           p == InactiveDomain(d, answer)
<1>1. p = Unless(none, c0)
  BY DEF InactiveDomain
<1>2. c0.op = "delete" /\ c0.on = d /\ Wellformed(c0)
  BY DEF DomainDelete, Command, Wellformed, StatusOps, NameServerOps, DSOps, AddressOps
<1> HIDE DEF c0, p
<1>3. /\ IsSeq(p) /\ InOrder(p) /\ ToSet(p) \subseteq {c0}
      /\ ~ none => ToSet(p) = {c0}
  BY <1>1, UnlessPlan
<1> QED BY <1>2, <1>3 DEF p

LEMMA ExternalDomainPlan ==
  ASSUME NEW d, NEW answer
  PROVE  LET p == ExternalDomain(d, answer) IN
         /\ IsSeq(p) /\ InOrder(p)
         /\ \A c \in ToSet(p) : c.op = "remStatuses" /\ c.on = d /\ Wellformed(c)
         /\ answer = "yes" =>
              "clientTransfer" \notin Becomes(info[d].statuses, ToSet(p), StatusOps)
<1> DEFINE none == answer # "yes" \/ "clientTransfer" \notin info[d].statuses
           c0 == Command("remStatuses", d, Rem({"clientTransfer"}), "log", TRUE)
           p == ExternalDomain(d, answer)
<1>1. p = Unless(none, c0)
  BY DEF ExternalDomain
<1>2. /\ c0.op = "remStatuses" /\ c0.on = d /\ c0.arg.rem = {"clientTransfer"}
      /\ c0.arg.add = {} /\ c0.onError = "log"
  BY DEF Command, Rem
<1>3. Wellformed(c0)
  BY <1>2 DEF Wellformed, StatusOps, NameServerOps, DSOps, AddressOps
<1>4. none <=> (answer # "yes" \/ "clientTransfer" \notin info[d].statuses)
  OBVIOUS
<1> HIDE DEF none, c0, p
<1>5. /\ IsSeq(p) /\ InOrder(p) /\ ToSet(p) \subseteq {c0}
      /\ none => ToSet(p) = {}
      /\ ~ none => ToSet(p) = {c0}
  BY <1>1, UnlessPlan
<1>6. ASSUME answer = "yes"
      PROVE  "clientTransfer" \notin Becomes(info[d].statuses, ToSet(p), StatusOps)
  <2>1. Adds(ToSet(p), StatusOps) = {}
    BY <1>2, <1>5 DEF Adds
  <2>2. CASE none
    BY <1>4, <1>6, <2>1, <2>2 DEF Becomes
  <2>3. CASE ~ none
    <3>1. "remStatuses" \in StatusOps
      BY DEF StatusOps
    <3>2. Rems(ToSet(p), StatusOps) = {"clientTransfer"}
      BY <1>2, <1>5, <2>3, <3>1 DEF Rems
    <3> QED BY <2>1, <3>2 DEF Becomes
  <2> QED BY <2>2, <2>3
<1>7. \A c \in ToSet(p) : c.op = "remStatuses" /\ c.on = d /\ Wellformed(c)
  BY <1>2, <1>3, <1>5
<1> QED BY <1>5, <1>6, <1>7 DEF p

(* The plan for a domain makes of what the run knows what was verified.    *)
LEMMA DomainPlanIs ==
  ASSUME NEW d \in Domains, NEW answer, NEW rev \in DomainRevision, rev = verified[d].rev,
         avail[d] \in {"yes", "no"}, avail[d] = "yes" => ~ Wants(d, "active"),
         avail[d] = "no" => /\ info[d] # Nothing /\ info[d].hosts \subseteq Hosts
                            /\ info[d].ds \subseteq DSRecords
                            /\ info[d].statuses \subseteq Statuses
  PROVE  LET p == DomainPlan(d, answer)
             inf == info[d]
         IN
         /\ IsSeq(p) /\ InOrder(p)
         /\ \A c \in ToSet(p) : c.on = d /\ c.op \in Ops.domainUpdate /\ Wellformed(c)
         /\ \A c \in ToSet(p) : c.op = "delete" => Wants(d, "inactive")
         /\ \A c \in ToSet(p) : c.op = "remHosts" => Wants(d, "active")
         /\ Wants(d, "active") =>
              /\ Becomes(inf.hosts, ToSet(p), NameServerOps) = rev.hosts
              /\ Becomes(inf.ds, ToSet(p), DSOps) = rev.ds
              /\ Client(Becomes(inf.statuses, ToSet(p), StatusOps)) = Client(rev.statuses)
              /\ "clientUpdate" \in rev.statuses =>
                   \/ "clientUpdate" \in Adds(ToSet(p), StatusOps)
                   \/ /\ "clientUpdate" \in inf.statuses
                      /\ "clientUpdate" \notin Rems(ToSet(p), StatusOps)
              /\ rev.hosts \subseteq inf.hosts \cup Adds(ToSet(p), NameServerOps)
              /\ rev.hosts \cap Rems(ToSet(p), NameServerOps) = {}
         /\ Wants(d, "inactive") /\ avail[d] = "no" /\ ~ Declined(d, answer) =>
              \E c \in ToSet(p) : c.op = "delete"
         /\ Wants(d, "external") /\ avail[d] = "no" /\ ~ Declined(d, answer) =>
              \/ inf.sponsor # "us"
              \/ "clientTransfer" \notin Becomes(inf.statuses, ToSet(p), StatusOps)
<1> DEFINE inf == info[d]
           p == DomainPlan(d, answer)
<1>1. rev.desired \in {"active", "inactive", "external"}
  BY DEF DomainRevision
<1>2. \A desired : Wants(d, desired) <=> rev.desired = desired
  BY DEF Wants
<1>3. CASE avail[d] = "yes"
  <2>1. p = <<>> /\ rev.desired # "active"
    BY <1>2, <1>3 DEF DomainPlan
  <2>2. IsSeq(p) /\ InOrder(p) /\ ToSet(p) = {}
    BY <2>1, NoneIsSeq, OneInOrder
  <2> QED BY <1>2, <1>3, <2>1, <2>2
<1>4. CASE avail[d] = "no" /\ rev.desired = "inactive"
  <2> DEFINE q == InactiveDomain(d, answer)
  <2>1. p = q \o <<Refresh(d)>>
    BY <1>4 DEF DomainPlan
  <2>2. /\ IsSeq(q) /\ InOrder(q)
        /\ \A c \in ToSet(q) : c.op = "delete" /\ c.on = d /\ Wellformed(c)
        /\ answer = "yes" => \E c \in ToSet(q) : c.op = "delete"
    BY InactiveDomainPlan
  <2>3. \A c \in ToSet(q) : c.op \in Ops.domainUpdate
    BY <2>2 DEF Ops
  <2> HIDE DEF q, p
  <2>4. /\ IsSeq(p) /\ InOrder(p) /\ ToSet(q) \subseteq ToSet(p)
        /\ \A c \in ToSet(p) : c.on = d /\ c.op \in Ops.domainUpdate /\ Wellformed(c)
        /\ \A c \in ToSet(p) : c \in ToSet(q) \/ c.op = "refresh"
    <3> DEFINE t == q \o <<Refresh(d)>>
    <3>1. /\ IsSeq(t) /\ InOrder(t) /\ ToSet(q) \subseteq ToSet(t)
          /\ \A c \in ToSet(t) : c.on = d /\ c.op \in Ops.domainUpdate /\ Wellformed(c)
          /\ \A c \in ToSet(t) : c \in ToSet(q) \/ c.op = "refresh"
      BY <2>2, <2>3, RefreshPlan
    <3>2. p = t
      BY <2>1
    <3> HIDE DEF t
    <3> QED BY <3>1, <3>2
  <2>5. AsksDomain(d)
    BY <1>4 DEF AsksDomain
  <2>6. \A c \in ToSet(p) : c.op # "remHosts"
    BY <2>2, <2>4
  <2> QED BY <1>2, <1>4, <2>2, <2>4, <2>5, <2>6 DEF p, Declined
<1>5. CASE avail[d] = "no" /\ rev.desired = "active"
  <2> DEFINE q == ActiveDomain(d)
  <2>1. p = q \o <<Refresh(d)>>
    BY <1>5 DEF DomainPlan
  <2>2. /\ IsSeq(q) /\ InOrder(q)
        /\ \A c \in ToSet(q) : c.on = d /\ c.op \in Ops.domainUpdate \ {"delete"} /\ Wellformed(c)
        /\ Becomes(inf.hosts, ToSet(q), NameServerOps) = rev.hosts
        /\ Becomes(inf.ds, ToSet(q), DSOps) = rev.ds
        /\ Client(Becomes(inf.statuses, ToSet(q), StatusOps)) = Client(rev.statuses)
        /\ "clientUpdate" \in rev.statuses =>
             \/ "clientUpdate" \in Adds(ToSet(q), StatusOps)
             \/ /\ "clientUpdate" \in inf.statuses
                /\ "clientUpdate" \notin Rems(ToSet(q), StatusOps)
        /\ rev.hosts \subseteq inf.hosts \cup Adds(ToSet(q), NameServerOps)
        /\ rev.hosts \cap Rems(ToSet(q), NameServerOps) = {}
    BY <1>5, ActiveDomainPlan
  <2> HIDE DEF q, p, inf
  <2>0. /\ IsSeq(q) /\ InOrder(q)
        /\ \A c \in ToSet(q) : c.on = d /\ c.op \in Ops.domainUpdate /\ Wellformed(c)
    BY <2>2
  <2>3. /\ IsSeq(p) /\ InOrder(p)
        /\ \A c \in ToSet(p) : c.on = d /\ c.op \in Ops.domainUpdate /\ Wellformed(c)
        /\ \A c \in ToSet(p) : c \in ToSet(q) \/ c.op = "refresh"
        /\ \A ops \in Fields : /\ Adds(ToSet(p), ops) = Adds(ToSet(q), ops)
                               /\ Rems(ToSet(p), ops) = Rems(ToSet(q), ops)
    <3> DEFINE t == q \o <<Refresh(d)>>
    <3>1. /\ IsSeq(t) /\ InOrder(t)
          /\ \A c \in ToSet(t) : c.on = d /\ c.op \in Ops.domainUpdate /\ Wellformed(c)
          /\ \A c \in ToSet(t) : c \in ToSet(q) \/ c.op = "refresh"
          /\ \A ops \in Fields : /\ Adds(ToSet(t), ops) = Adds(ToSet(q), ops)
                                 /\ Rems(ToSet(t), ops) = Rems(ToSet(q), ops)
      BY <2>0, RefreshPlan
    <3>2. p = t
      BY <2>1
    <3> HIDE DEF t
    <3> QED BY <3>1, <3>2
  <2>4. NameServerOps \in Fields /\ DSOps \in Fields /\ StatusOps \in Fields
    BY DEF Fields
  <2>5. \A set : /\ Becomes(set, ToSet(p), NameServerOps) = Becomes(set, ToSet(q), NameServerOps)
                 /\ Becomes(set, ToSet(p), DSOps) = Becomes(set, ToSet(q), DSOps)
                 /\ Becomes(set, ToSet(p), StatusOps) = Becomes(set, ToSet(q), StatusOps)
    BY <2>3, <2>4 DEF Becomes
  <2>6. \A c \in ToSet(p) : c.op # "delete"
    BY <2>2, <2>3
  <2>7. /\ Becomes(inf.hosts, ToSet(p), NameServerOps) = rev.hosts
        /\ Becomes(inf.ds, ToSet(p), DSOps) = rev.ds
        /\ Client(Becomes(inf.statuses, ToSet(p), StatusOps)) = Client(rev.statuses)
    BY <2>2, <2>5
  <2>8. /\ Adds(ToSet(p), NameServerOps) = Adds(ToSet(q), NameServerOps)
        /\ Rems(ToSet(p), NameServerOps) = Rems(ToSet(q), NameServerOps)
        /\ Adds(ToSet(p), StatusOps) = Adds(ToSet(q), StatusOps)
        /\ Rems(ToSet(p), StatusOps) = Rems(ToSet(q), StatusOps)
    BY <2>3, <2>4
  <2> QED BY <1>2, <1>5, <2>2, <2>3, <2>6, <2>7, <2>8 DEF p, inf
<1>6. CASE avail[d] = "no" /\ rev.desired = "external" /\ AsksDomain(d)
  <2> DEFINE q == ExternalDomain(d, answer)
  <2>1. p = q \o <<Refresh(d)>>
    BY <1>6 DEF DomainPlan
  <2>2. /\ IsSeq(q) /\ InOrder(q)
        /\ \A c \in ToSet(q) : c.op = "remStatuses" /\ c.on = d /\ Wellformed(c)
        /\ answer = "yes" =>
             "clientTransfer" \notin Becomes(info[d].statuses, ToSet(q), StatusOps)
    BY ExternalDomainPlan
  <2>3. \A c \in ToSet(q) : c.op \in Ops.domainUpdate
    BY <2>2 DEF Ops
  <2> HIDE DEF q, p, inf
  <2>0. /\ IsSeq(q) /\ InOrder(q)
        /\ \A c \in ToSet(q) : c.on = d /\ c.op \in Ops.domainUpdate /\ Wellformed(c)
    BY <2>2, <2>3
  <2>4. /\ IsSeq(p) /\ InOrder(p)
        /\ \A c \in ToSet(p) : c.on = d /\ c.op \in Ops.domainUpdate /\ Wellformed(c)
        /\ \A c \in ToSet(p) : c \in ToSet(q) \/ c.op = "refresh"
        /\ \A ops \in Fields : /\ Adds(ToSet(p), ops) = Adds(ToSet(q), ops)
                               /\ Rems(ToSet(p), ops) = Rems(ToSet(q), ops)
    <3> DEFINE t == q \o <<Refresh(d)>>
    <3>1. /\ IsSeq(t) /\ InOrder(t)
          /\ \A c \in ToSet(t) : c.on = d /\ c.op \in Ops.domainUpdate /\ Wellformed(c)
          /\ \A c \in ToSet(t) : c \in ToSet(q) \/ c.op = "refresh"
          /\ \A ops \in Fields : /\ Adds(ToSet(t), ops) = Adds(ToSet(q), ops)
                                 /\ Rems(ToSet(t), ops) = Rems(ToSet(q), ops)
      BY <2>0, RefreshPlan
    <3>2. p = t
      BY <2>1
    <3> HIDE DEF t
    <3> QED BY <3>1, <3>2
  <2>5. StatusOps \in Fields
    BY DEF Fields
  <2>6. \A set : Becomes(set, ToSet(p), StatusOps) = Becomes(set, ToSet(q), StatusOps)
    BY <2>4, <2>5 DEF Becomes
  <2>7. \A c \in ToSet(p) : c.op # "delete" /\ c.op # "remHosts"
    BY <2>2, <2>4
  <2>8. ~ Declined(d, answer) =>
          "clientTransfer" \notin Becomes(inf.statuses, ToSet(p), StatusOps)
    BY <1>6, <2>2, <2>6 DEF Declined, inf
  <2> QED BY <1>2, <1>6, <2>4, <2>7, <2>8 DEF p, inf
<1>7. CASE avail[d] = "no" /\ rev.desired = "external" /\ ~ AsksDomain(d)
  <2>1. p = <<>> \o <<Refresh(d)>>
    BY <1>7 DEF DomainPlan
  <2>2. inf.sponsor # "us"
    BY <1>7 DEF AsksDomain
  <2> HIDE DEF p, inf
  <2>3. IsSeq(<<>>) /\ InOrder(<<>>) /\ ToSet(<<>>) = {}
    BY NoneIsSeq, OneInOrder
  <2>4. /\ IsSeq(p) /\ InOrder(p)
        /\ \A c \in ToSet(p) : c.on = d /\ c.op \in Ops.domainUpdate /\ Wellformed(c)
        /\ \A c \in ToSet(p) : c.op = "refresh"
    BY <2>1, <2>3, RefreshPlan
  <2> QED BY <1>2, <1>7, <2>2, <2>4 DEF p, inf
<1> QED BY <1>1, <1>3, <1>4, <1>5, <1>6, <1>7

LEMMA InvDomainUpdate ==
  ASSUME Inv, NEW d \in Domains, DomainUpdate(d)
  PROVE  Inv'
<1>1. PICK answer :
        /\ Send("domainUpdate", d, DomainPlan(d, answer))
        /\ IF answer = "yes" \/ ~ AsksDomain(d) THEN Untroubled ELSE Troubled("prompt", d)
  BY DEF DomainUpdate
<1> DEFINE commands == DomainPlan(d, answer)
           rev == verified[d].rev
           inf == info[d]
           r == registry[d]
<1>2. /\ Take("domainUpdate", d) /\ todo' = todo \ {d} /\ plan' = commands
      /\ UNCHANGED <<registry, polls, row, pc, work, verified, avail, info, completed>>
  BY <1>1 DEF Send, registryVars
<1>3. /\ mishaps' = mishaps \/ mishaps' = mishaps \cup {<<"prompt", d>>}
      /\ Declined(d, answer) => <<"prompt", d>> \in mishaps'
  BY <1>1 DEF Declined, Untroubled, Troubled
<1>4. pc = "domainUpdate" /\ Stage = 10 /\ Stage > 3
  BY <1>2, Stages DEF Take
<1>5. d \in todo /\ plan = <<>> /\ d \in VerifiedDomains /\ d \notin VerifiedHosts /\ d \in Objects
  BY <1>2, <1>4, PhaseFacts
<1>6. /\ Past(4, d) /\ Past(4, d)' /\ Past(6, d) /\ ~ Past(10, d) /\ Past(10, d)'
  BY <1>2, <1>4, <1>5, TakenPast DEF Past
<1>7. \A op : ~ Sends(op, d)
  BY <1>5, NoPlanNow
<1>8. /\ avail[d] \in {"yes", "no"}
      /\ avail[d] = "yes" => ~ r.exists /\ ~ Wants(d, "active")
      /\ avail[d] = "no" => /\ r.exists /\ inf # Nothing
                            /\ inf.hosts = r.hosts /\ inf.ds = r.ds /\ inf.statuses = r.statuses
                            /\ inf.sponsor = r.sponsor \/ <<"registry", d>> \in mishaps
  BY <1>5, <1>6, <1>7 DEF Inv, DomainRuns, DomainRun, DomainKnown, DomainInformed
<1>9. r.hosts \subseteq Hosts /\ r.ds \subseteq DSRecords /\ r.statuses \subseteq Statuses
  BY DEF Inv, Types, RegistryTypes, DomainObject
<1>10. rev \in DomainRevision
  BY <1>5, RevisionsAssumption DEF Inv, Types, RunTypes, VerifiedDomains
<1>11. /\ IsSeq(commands) /\ InOrder(commands)
       /\ \A c \in ToSet(commands) : c.on = d /\ c.op \in Ops.domainUpdate /\ Wellformed(c)
       /\ \A c \in ToSet(commands) : c.op = "delete" => Wants(d, "inactive")
       /\ \A c \in ToSet(commands) : c.op = "remHosts" => Wants(d, "active")
       /\ Wants(d, "active") =>
            /\ Becomes(inf.hosts, ToSet(commands), NameServerOps) = rev.hosts
            /\ Becomes(inf.ds, ToSet(commands), DSOps) = rev.ds
            /\ Client(Becomes(inf.statuses, ToSet(commands), StatusOps)) = Client(rev.statuses)
            /\ "clientUpdate" \in rev.statuses =>
                 \/ "clientUpdate" \in Adds(ToSet(commands), StatusOps)
                 \/ /\ "clientUpdate" \in inf.statuses
                    /\ "clientUpdate" \notin Rems(ToSet(commands), StatusOps)
            /\ rev.hosts \subseteq inf.hosts \cup Adds(ToSet(commands), NameServerOps)
            /\ rev.hosts \cap Rems(ToSet(commands), NameServerOps) = {}
       /\ Wants(d, "inactive") /\ avail[d] = "no" /\ ~ Declined(d, answer) =>
            \E c \in ToSet(commands) : c.op = "delete"
       /\ Wants(d, "external") /\ avail[d] = "no" /\ ~ Declined(d, answer) =>
            \/ inf.sponsor # "us"
            \/ "clientTransfer" \notin Becomes(inf.statuses, ToSet(commands), StatusOps)
  BY <1>8, <1>9, <1>10, DomainPlanIs
<1> HIDE DEF commands
<1>12. /\ PlanFor(d)' = ToSet(commands)
       /\ \A op : Sends(op, d)' <=> \E c \in ToSet(commands) : c.op = op
  <2>1. PlanFor(d)' = ToSet(commands)
    BY <1>2, <1>11 DEF PlanFor
  <2> QED BY <2>1 DEF Sends
<1>13. \A desired : Wants(d, desired)' <=> Wants(d, desired)
  BY <1>2 DEF Wants
<1>14. PlanFits'
  <2>1. pc' \in DOMAIN Ops /\ pc' \notin HostPhases /\ Ops[pc'] = Ops.domainUpdate
    BY <1>2, <1>4 DEF Ops, HostPhases
  <2>2. VerifiedDomains' = VerifiedDomains
    BY <1>2 DEF VerifiedDomains
  <2>3. \A c \in ToSet(plan') :
          c.op \notin {"create", "hostDelete", "hostCreate"} /\ c.op \in Ops[pc']
    BY <1>2, <1>11, <2>1 DEF Ops
  <2> QED BY <1>2, <1>4, <1>5, <1>11, <1>13, <2>1, <2>2, <2>3, ChosenFits
<1>15. RowTypes' /\ AsApproved' /\ avail' \in [Objects -> {"unknown", "yes", "no"}]
  BY <1>2, <1>3 DEF Inv, Types, RowTypes, RunTypes, AsApproved
<1>16. DomainKnown(d)' /\ DomainInformed(d)'
  BY <1>2, <1>6, <1>8, <1>13 DEF DomainKnown, DomainInformed
<1>17. Wants(d, "active") =>
         avail[d] = "no" /\ inf.hosts = r.hosts /\ inf.ds = r.ds /\ inf.statuses = r.statuses
  BY <1>8
<1>18. Relocks(d)'
  BY <1>2, <1>11, <1>12, <1>13, <1>17 DEF Relocks
<1>19. Delegates(d)'
  BY <1>2, <1>11, <1>12, <1>13, <1>17 DEF Delegates
<1>20. ASSUME Calm(d)' PROVE DomainBecomes(d)'
  <2>1. ~ Declined(d, answer) /\ <<"registry", d>> \notin mishaps
    BY <1>3, <1>20 DEF Calm
  <2>2. Wants(d, "active") => ActiveDomainBecomes(d)'
    BY <1>2, <1>8, <1>11, <1>12, <1>17 DEF ActiveDomainBecomes
  <2>3. Wants(d, "inactive") => ~ r.exists \/ Sends("delete", d)'
    BY <1>8, <1>11, <1>12, <2>1
  <2>4. Wants(d, "external") =>
          \/ ~ Ours(d)'
          \/ "clientTransfer" \notin Becomes(r.statuses, PlanFor(d)', StatusOps)
    BY <1>2, <1>8, <1>11, <1>12, <2>1 DEF Ours
  <2> QED BY <1>2, <1>13, <2>2, <2>3, <2>4 DEF DomainBecomes
<1>21. DomainRun(d)'
  BY <1>16, <1>18, <1>19, <1>20 DEF DomainRun
<1>22. mishaps \subseteq mishaps' /\ \A c \in ToSet(plan') : c.on = d
  BY <1>2, <1>3, <1>11
<1> QED BY <1>2, <1>4, <1>5, <1>14, <1>15, <1>21, <1>22, PhaseInv

-----------------------------------------------------------------------------
(* The commands for a host *)

LEMMA ActiveHostPlan ==
  ASSUME NEW h \in Hosts, NEW inf, inf = info[h], NEW rev \in HostRevision,
         rev = verified[h].rev
  PROVE  LET p == ActiveHost(h) IN
         /\ IsSeq(p) /\ InOrder(p)
         /\ \A c \in ToSet(p) :
              /\ c.on = h /\ c.op \in {"hostStatuses", "hostAddresses", "info"}
              /\ Wellformed(c)
         /\ p # <<>> => \E c \in ToSet(p) : c.op = "info"
         /\ "serverUpdate" \notin inf.statuses =>
              /\ Becomes(inf.addresses, ToSet(p), AddressOps) = rev.addresses
              /\ Client(Becomes(inf.statuses, ToSet(p), StatusOps)) = Client(rev.statuses)
<1> DEFINE ips == DiffIPs(inf, rev)
           diff == DiffStatuses(inf, rev)
           relock == IF "clientUpdate" \in rev.statuses
                     THEN [diff EXCEPT !.add = @ \cup {"clientUpdate"}]
                     ELSE [diff EXCEPT !.rem = @ \ {"clientUpdate"}]
           locked == "clientUpdate" \in inf.statuses
           lock == IF locked THEN {"clientUpdate"} ELSE {}
           same == Same(ips) /\ Same(diff)
           cU == Command("hostStatuses", h, Rem({"clientUpdate"}), "skip", FALSE)
           cA == Command("hostAddresses", h, ips, "log", TRUE)
           cS == Command("hostStatuses", h, relock, "stop", TRUE)
           cI == UpdateHostInfo(h)
           pU == HostUnlockForChange(h, inf)
           pA == HostChangeIPAddresses(h, ips)
           pS == HostStatusUpdate(h, diff, rev)
           pI == <<cI>>
           p == ActiveHost(h)
           noA == Same(ips)
           noS == relock = Add({})
<1>1. p = IF same \/ "serverUpdate" \in inf.statuses THEN <<>> ELSE pU \o pA \o pS \o pI
  BY DEF ActiveHost
<1>2. ips.add = rev.addresses \ inf.addresses /\ ips.rem = inf.addresses \ rev.addresses
  BY DEF DiffIPs
<1>3. /\ diff.add = Client(rev.statuses) \ inf.statuses
      /\ diff.rem = Client(inf.statuses) \ rev.statuses
      /\ diff = [add |-> diff.add, rem |-> diff.rem]
  BY DEF DiffStatuses
<1>4. same => ips.add = {} /\ ips.rem = {} /\ diff.add = {} /\ diff.rem = {}
  BY NoChange DEF Same
<1>5. noA => ips.add = {} /\ ips.rem = {}
  BY NoChange DEF Same
<1>6. pU = Unless(~ locked, cU) /\ pA = Unless(noA, cA) /\ pS = Unless(noS, cS)
  <2>1. pU = Unless(~ locked, cU)
    BY DEF HostUnlockForChange
  <2>2. pA = Unless(noA, cA)
    BY DEF HostChangeIPAddresses
  <2>3. pS = Unless(noS, cS)
    BY DEF HostStatusUpdate
  <2> QED BY <2>1, <2>2, <2>3
<1>7. /\ cU.op = "hostStatuses" /\ cU.on = h /\ cU.onError = "skip"
      /\ cU.arg.add = {} /\ cU.arg.rem = {"clientUpdate"}
      /\ cA.op = "hostAddresses" /\ cA.on = h /\ cA.onError = "log" /\ cA.arg = ips
      /\ cS.op = "hostStatuses" /\ cS.on = h /\ cS.onError = "stop" /\ cS.arg = relock
      /\ cI.op = "info" /\ cI.on = h /\ cI.onError = "log"
  BY DEF Command, Rem, UpdateHostInfo
<1> HIDE DEF ips, diff
<1>8. /\ relock.add =
           IF "clientUpdate" \in rev.statuses THEN diff.add \cup {"clientUpdate"} ELSE diff.add
      /\ relock.rem =
           IF "clientUpdate" \in rev.statuses THEN diff.rem ELSE diff.rem \ {"clientUpdate"}
  BY <1>3
<1>9. noS => relock.add = {} /\ relock.rem = {}
  BY NoChange
<1>10. rev.addresses \subseteq Addresses /\ rev.statuses \subseteq Statuses
  BY DEF HostRevision
<1> HIDE DEF relock, cU, cA, cS, cI, noA, noS, pU, pA, pS, p, same
<1>11. Wellformed(cU) /\ Wellformed(cA) /\ Wellformed(cS) /\ Wellformed(cI)
  <2>1. ips.add \subseteq Addresses
    BY <1>2, <1>10
  <2>2. relock.add \subseteq Statuses
    BY <1>3, <1>8, <1>10, StatusesAssumption DEF Client
  <2>3. h \notin Domains
    BY DisjointAssumption
  <2> QED BY <1>7, <2>1, <2>2, <2>3 DEF Wellformed, StatusOps, NameServerOps, DSOps, AddressOps
<1>12. /\ Follows(cU, cA) /\ Follows(cU, cS) /\ Follows(cU, cI) /\ Follows(cA, cS)
       /\ Follows(cA, cI) /\ Follows(cS, cI)
  BY <1>7 DEF Follows, Fields, StatusOps, NameServerOps, DSOps, AddressOps
<1>13. /\ IsSeq(pU) /\ InOrder(pU) /\ ToSet(pU) \subseteq {cU}
       /\ locked => ToSet(pU) = {cU}
       /\ ~ locked => ToSet(pU) = {}
  BY <1>6, UnlessPlan
<1>14. /\ IsSeq(pA) /\ InOrder(pA) /\ ToSet(pA) \subseteq {cA}
       /\ noA => ToSet(pA) = {}
       /\ ~ noA => ToSet(pA) = {cA}
  BY <1>6, UnlessPlan
<1>15. /\ IsSeq(pS) /\ InOrder(pS) /\ ToSet(pS) \subseteq {cS}
       /\ noS => ToSet(pS) = {}
       /\ ~ noS => ToSet(pS) = {cS}
  BY <1>6, UnlessPlan
<1>16. IsSeq(pI) /\ InOrder(pI) /\ ToSet(pI) = {cI}
  BY OneIsSeq, OneInOrder
<1> DEFINE p1 == pU \o pA
           p2 == p1 \o pS
           p3 == p2 \o pI
<1> HIDE DEF pI
<1>17. IsSeq(p1) /\ InOrder(p1) /\ ToSet(p1) = ToSet(pU) \cup ToSet(pA)
  BY <1>12, <1>13, <1>14, PlanThen
<1>18. IsSeq(p2) /\ InOrder(p2) /\ ToSet(p2) = ToSet(p1) \cup ToSet(pS)
  <2>1. \A c \in ToSet(p1) : \A e \in ToSet(pS) : Follows(c, e)
    BY <1>12, <1>13, <1>14, <1>15, <1>17
  <2> HIDE DEF p1
  <2> QED BY <1>15, <1>17, <2>1, PlanThen
<1>19. IsSeq(p3) /\ InOrder(p3) /\ ToSet(p3) = ToSet(p2) \cup ToSet(pI)
  <2>1. \A c \in ToSet(p2) : \A e \in ToSet(pI) : Follows(c, e)
    BY <1>12, <1>13, <1>14, <1>15, <1>16, <1>17, <1>18
  <2> HIDE DEF p2
  <2> QED BY <1>16, <1>18, <2>1, PlanThen
<1>20. \/ p = <<>> /\ (same \/ "serverUpdate" \in inf.statuses)
       \/ p = p3
  BY <1>1
<1> HIDE DEF p1, p2, p3
<1>21. CASE p = <<>> /\ (same \/ "serverUpdate" \in inf.statuses)
  <2>1. IsSeq(p) /\ InOrder(p) /\ ToSet(p) = {}
    BY <1>21, NoneIsSeq, OneInOrder
  <2>2. ASSUME "serverUpdate" \notin inf.statuses
        PROVE  /\ Becomes(inf.addresses, ToSet(p), AddressOps) = rev.addresses
               /\ Client(Becomes(inf.statuses, ToSet(p), StatusOps)) = Client(rev.statuses)
    <3>1. ips.add = {} /\ ips.rem = {} /\ diff.add = {} /\ diff.rem = {}
      BY <1>4, <1>21, <2>2
    <3>2. Adds(ToSet(p), AddressOps) = {} /\ Adds(ToSet(p), StatusOps) = {}
      BY <2>1, AddsOfNone, SMT
    <3>3. Rems(ToSet(p), AddressOps) = {} /\ Rems(ToSet(p), StatusOps) = {}
      BY <2>1, RemsOfNone, SMT
    <3>4. Becomes(inf.addresses, ToSet(p), AddressOps) = rev.addresses
      BY <1>2, <3>1, <3>2, <3>3 DEF Becomes
    <3>5. Client(Becomes(inf.statuses, ToSet(p), StatusOps)) = Client(rev.statuses)
      BY <1>3, <3>1, <3>2, <3>3 DEF Becomes, Client
    <3> QED BY <3>4, <3>5
  <2> QED BY <1>21, <2>1, <2>2 DEF p
<1>22. CASE p = p3
  <2>1. ToSet(p) = ToSet(pU) \cup ToSet(pA) \cup ToSet(pS) \cup {cI}
    BY <1>16, <1>17, <1>18, <1>19, <1>22
  <2>2. \A c \in ToSet(p) : c \in {cU, cA, cS, cI}
    BY <1>13, <1>14, <1>15, <2>1
  <2>3. \A c \in ToSet(p) :
          c.on = h /\ c.op \in {"hostStatuses", "hostAddresses", "info"} /\ Wellformed(c)
    BY <1>7, <1>11, <2>2
  <2>4. \E c \in ToSet(p) : c.op = "info"
    BY <1>7, <2>1
  <2>5. "hostAddresses" \in AddressOps /\ "hostStatuses" \notin AddressOps /\ "info" \notin AddressOps
    BY DEF AddressOps
  <2>6. "hostStatuses" \in StatusOps /\ "hostAddresses" \notin StatusOps /\ "info" \notin StatusOps
    BY DEF StatusOps
  <2>7. Adds(ToSet(p), AddressOps) = ips.add
    BY <1>5, <1>7, <1>13, <1>14, <1>15, <2>1, <2>5 DEF Adds
  <2>8. Rems(ToSet(p), AddressOps) = ips.rem
    BY <1>5, <1>7, <1>13, <1>14, <1>15, <2>1, <2>5 DEF Rems
  <2>9. Adds(ToSet(p), StatusOps) = relock.add
    BY <1>7, <1>9, <1>13, <1>14, <1>15, <2>1, <2>6 DEF Adds
  <2>10. Rems(ToSet(p), StatusOps) = lock \cup relock.rem
    BY <1>7, <1>9, <1>13, <1>14, <1>15, <2>1, <2>6 DEF Rems
  <2>11. Becomes(inf.addresses, ToSet(p), AddressOps) = rev.addresses
    BY <1>2, <2>7, <2>8 DEF Becomes
  <2>12. Client(Becomes(inf.statuses, ToSet(p), StatusOps)) = Client(rev.statuses)
    BY <1>3, <1>8, <2>9, <2>10, StatusesAssumption DEF Becomes, Client
  <2> QED BY <1>19, <1>22, <2>3, <2>4, <2>11, <2>12 DEF p
<1> QED BY <1>20, <1>21, <1>22

LEMMA HostPlanIs ==
  ASSUME NEW h \in Hosts, NEW rev \in HostRevision, rev = verified[h].rev,
         avail[h] \in {"yes", "no"}
  PROVE  LET p == HostPlan(h)
             inf == info[h]
             parent == verified[Parent[h]] # Nothing /\ ~ LeftAlone(h)
         IN
         /\ IsSeq(p) /\ InOrder(p)
         /\ \A c \in ToSet(p) : c.on = h /\ c.op \in Ops.hostUpdate /\ Wellformed(c)
         /\ \A c \in ToSet(p) : c.op = "hostDelete" => Wants(h, "inactive")
         /\ \A c \in ToSet(p) : c.op = "hostCreate" => Wants(h, "active") /\ avail[h] = "yes"
         /\ p # <<>> => \E c \in ToSet(p) : c.op = "info"
         /\ parent /\ avail[h] = "yes" /\ Wants(h, "active") =>
              \E c \in ToSet(p) : c.op = "hostCreate"
         /\ parent /\ avail[h] = "no" /\ Wants(h, "inactive") =>
              \E c \in ToSet(p) : c.op = "hostDelete"
         /\ /\ parent /\ avail[h] = "no" /\ Wants(h, "active") /\ inf # Nothing
            /\ "serverUpdate" \notin inf.statuses
            => /\ Becomes(inf.addresses, ToSet(p), AddressOps) = rev.addresses
               /\ Client(Becomes(inf.statuses, ToSet(p), StatusOps)) = Client(rev.statuses)
<1> DEFINE inf == info[h]
           p == HostPlan(h)
           parent == verified[Parent[h]] # Nothing /\ ~ LeftAlone(h)
           cI == UpdateHostInfo(h)
           cC == HostCreate(h, rev)
           cD == HostDelete(h)
<1>1. rev.desired \in {"active", "inactive"} /\ rev.addresses \subseteq Addresses
  BY DEF HostRevision
<1>2. \A desired : Wants(h, desired) <=> rev.desired = desired
  BY DEF Wants
<1>3. /\ cI.op = "info" /\ cI.on = h /\ cI.onError = "log"
      /\ cC.op = "hostCreate" /\ cC.on = h /\ cC.arg.add = rev.addresses /\ cC.onError = "stop"
      /\ cD.op = "hostDelete" /\ cD.on = h /\ cD.onError = "stop"
  BY DEF Command, Add, UpdateHostInfo, HostCreate, HostDelete
<1>4. Wellformed(cI) /\ Wellformed(cC) /\ Wellformed(cD)
  BY <1>1, <1>3, DisjointAssumption
     DEF Wellformed, StatusOps, NameServerOps, DSOps, AddressOps
<1>5. Follows(cC, cI) /\ Follows(cD, cI)
  BY <1>3 DEF Follows, Fields, StatusOps, NameServerOps, DSOps, AddressOps
<1>6. CASE parent /\ avail[h] = "yes" /\ rev.desired = "active"
  <2>1. p = <<cC, cI>>
    BY <1>6 DEF HostPlan
  <2> HIDE DEF p, cC, cI
  <2>2. IsSeq(p) /\ InOrder(p) /\ ToSet(p) = {cC, cI}
    BY <1>5, <2>1, TwoPlan
  <2> QED BY <1>2, <1>3, <1>4, <1>6, <2>2 DEF p, Ops
<1>7. CASE parent /\ avail[h] = "no" /\ rev.desired = "inactive"
  <2>1. p = <<cD, cI>>
    BY <1>7 DEF HostPlan
  <2> HIDE DEF p, cD, cI
  <2>2. IsSeq(p) /\ InOrder(p) /\ ToSet(p) = {cD, cI}
    BY <1>5, <2>1, TwoPlan
  <2> QED BY <1>2, <1>3, <1>4, <1>7, <2>2 DEF p, Ops
<1>8. CASE parent /\ avail[h] = "no" /\ rev.desired = "active" /\ inf # Nothing
  <2>1. p = ActiveHost(h)
    BY <1>8 DEF HostPlan
  <2> HIDE DEF p
  <2>2. /\ IsSeq(p) /\ InOrder(p)
        /\ \A c \in ToSet(p) :
             /\ c.on = h /\ c.op \in {"hostStatuses", "hostAddresses", "info"}
             /\ Wellformed(c)
        /\ p # <<>> => \E c \in ToSet(p) : c.op = "info"
        /\ "serverUpdate" \notin inf.statuses =>
             /\ Becomes(inf.addresses, ToSet(p), AddressOps) = rev.addresses
             /\ Client(Becomes(inf.statuses, ToSet(p), StatusOps)) = Client(rev.statuses)
    BY <2>1, ActiveHostPlan
  <2>3. \A c \in ToSet(p) : c.on = h /\ c.op \in Ops.hostUpdate /\ Wellformed(c)
    BY <2>2 DEF Ops
  <2>4. \A c \in ToSet(p) : c.op # "hostDelete" /\ c.op # "hostCreate"
    BY <2>2
  <2> QED BY <1>2, <1>8, <2>2, <2>3, <2>4 DEF p
<1>9. CASE \/ ~ parent
           \/ avail[h] = "yes" /\ rev.desired = "inactive"
           \/ avail[h] = "no" /\ rev.desired = "active" /\ inf = Nothing
  <2>1. p = <<>>
    BY <1>9 DEF HostPlan
  <2>2. IsSeq(p) /\ InOrder(p) /\ ToSet(p) = {}
    BY <2>1, NoneIsSeq, OneInOrder
  <2> HIDE DEF p
  <2> QED BY <1>2, <1>9, <2>1, <2>2 DEF p
<1> QED BY <1>1, <1>6, <1>7, <1>8, <1>9

LEMMA InvHostUpdate ==
  ASSUME Inv, NEW h \in Hosts, HostUpdate(h)
  PROVE  Inv'
<1> DEFINE commands == HostPlan(h)
           parent == verified[Parent[h]] # Nothing /\ ~ LeftAlone(h)
           rev == verified[h].rev
           inf == info[h]
           r == registry[h]
<1>1. Send("hostUpdate", h, commands) /\ Untroubled
  BY DEF HostUpdate
<1>2. pc = "hostUpdate" /\ Stage = 9 /\ Stage > 3
  BY <1>1, Stages DEF Send, Take
<1>3. /\ Take("hostUpdate", h) /\ todo' = todo \ {h} /\ plan' = commands /\ mishaps' = mishaps
      /\ UNCHANGED <<registry, polls, row, pc, work, verified, avail, info, completed>>
      /\ RowTypes' /\ AsApproved' /\ avail' \in [Objects -> {"unknown", "yes", "no"}]
      /\ VerifiedHosts' = VerifiedHosts
  BY <1>1, <1>2, Sent
<1>4. h \in todo /\ plan = <<>> /\ h \in VerifiedHosts /\ h \notin VerifiedDomains /\ h \in Objects
  BY <1>2, <1>3, PhaseFacts
<1>5. /\ Past(5, h) /\ Past(5, h)' /\ Past(7, h) /\ Past(7, h)' /\ ~ Past(9, h) /\ Past(9, h)'
      /\ Past(2, Parent[h]) /\ Past(2, Parent[h])'
  BY <1>2, <1>3, <1>4, TakenPast DEF Past
<1>6. \A op : ~ Sends(op, h)
  BY <1>4, NoPlanNow
<1>7. ParentVerified(h) /\ HostKnown(h) /\ HostInformed(h)
  BY <1>4 DEF Inv, HostRuns, HostRun
<1>8. /\ avail[h] \in {"yes", "no"} /\ (avail[h] = "no" <=> r.exists)
      /\ Parent[h] # NoParent
      /\ Calm(h) => inf = IF r.exists THEN r ELSE Nothing
  BY <1>5, <1>6, <1>7 DEF HostKnown, HostInformed
<1>9. rev \in HostRevision
  BY <1>4, RevisionsAssumption DEF Inv, Types, RunTypes, VerifiedHosts
<1>10. /\ IsSeq(commands) /\ InOrder(commands)
       /\ \A c \in ToSet(commands) : c.on = h /\ c.op \in Ops.hostUpdate /\ Wellformed(c)
       /\ \A c \in ToSet(commands) : c.op = "hostDelete" => Wants(h, "inactive")
       /\ \A c \in ToSet(commands) :
            c.op = "hostCreate" => Wants(h, "active") /\ avail[h] = "yes"
       /\ commands # <<>> => \E c \in ToSet(commands) : c.op = "info"
       /\ parent /\ avail[h] = "yes" /\ Wants(h, "active") =>
            \E c \in ToSet(commands) : c.op = "hostCreate"
       /\ parent /\ avail[h] = "no" /\ Wants(h, "inactive") =>
            \E c \in ToSet(commands) : c.op = "hostDelete"
       /\ /\ parent /\ avail[h] = "no" /\ Wants(h, "active") /\ inf # Nothing
          /\ "serverUpdate" \notin inf.statuses
          => /\ Becomes(inf.addresses, ToSet(commands), AddressOps) = rev.addresses
             /\ Client(Becomes(inf.statuses, ToSet(commands), StatusOps)) = Client(rev.statuses)
  BY <1>8, <1>9, HostPlanIs
<1> HIDE DEF commands
<1>11. /\ PlanFor(h)' = ToSet(commands)
       /\ \A op : Sends(op, h)' <=> \E c \in ToSet(commands) : c.op = op
  <2>1. PlanFor(h)' = ToSet(commands)
    BY <1>3, <1>10 DEF PlanFor
  <2> QED BY <2>1 DEF Sends
<1>12. \A desired : Wants(h, desired)' <=> Wants(h, desired)
  BY <1>3 DEF Wants
<1>13. PlanFits'
  <2>1. pc' \in DOMAIN Ops /\ pc' \in HostPhases /\ Ops[pc'] = Ops.hostUpdate
    BY <1>2, <1>3 DEF Ops, HostPhases
  <2>2. \A c \in ToSet(plan') : c.op \notin {"create", "delete"} /\ c.op \in Ops[pc']
    BY <1>3, <1>10, <2>1 DEF Ops
  <2> QED BY <1>2, <1>3, <1>4, <1>10, <1>12, <2>1, <2>2, ChosenFits
<1>14. ParentVerified(h)' /\ HostKnown(h)'
  BY <1>3, <1>5, <1>7 DEF ParentVerified, HostKnown
<1>15. HostInformed(h)'
  BY <1>3, <1>8 DEF HostInformed, Calm
<1>16. ASSUME Calm(h)', ~ LeftAlone(h)' PROVE HostBecomes(h)'
  <2>1. Calm(h)
    BY <1>3, <1>16 DEF Calm
  <2>2. parent
    <3>1. <<"verify", Parent[h]>> \notin mishaps
      BY <2>1 DEF Calm
    <3>2. ~ LeftAlone(h)
      BY <1>3, <1>16 DEF LeftAlone
    <3> QED BY <1>5, <1>7, <1>8, <3>1, <3>2 DEF ParentVerified
  <2>3. r \in HostObject /\ r # Nothing
    BY NothingAssumption DEF Inv, Types, RegistryTypes
  <2>4. ASSUME avail[h] = "no", "serverUpdate" \notin r.statuses, Wants(h, "active")
        PROVE  ActiveHostBecomes(h)'
    <3>1. inf = r
      BY <1>8, <2>1, <2>4
    <3> QED BY <1>3, <1>10, <1>11, <2>2, <2>3, <2>4, <3>1 DEF ActiveHostBecomes
  <2>5. Wants(h, "active") => r.exists \/ (avail[h] = "yes" /\ Sends("hostCreate", h)')
    BY <1>8, <1>10, <1>11, <2>2
  <2>6. Wants(h, "inactive") => ~ r.exists \/ Sends("hostDelete", h)'
    BY <1>8, <1>10, <1>11, <2>2
  <2> QED BY <1>3, <1>12, <2>4, <2>5, <2>6 DEF HostBecomes
<1>17. HostRun(h)'
  BY <1>14, <1>15, <1>16 DEF HostRun
<1>18. \A c \in ToSet(plan') : c.on = h
  BY <1>3, <1>10
<1> QED BY <1>2, <1>3, <1>4, <1>13, <1>17, <1>18, PhaseInv

-----------------------------------------------------------------------------
(* What a command does at the registry *)

DomainOps == UNION {Ops[phase] : phase \in DOMAIN Ops \ HostPhases}
HostOps == Ops.hostInfo \cup Ops.hostUpdate

(* A domain that was r is s after c.                                       *)
ChangesDomain(c, r, s) ==
  /\ s.exists = CASE c.op = "create" -> TRUE [] c.op = "delete" -> FALSE [] OTHER -> r.exists
  /\ c.op # "create" =>
       /\ s.hosts = IF c.op \in NameServerOps THEN Edit(r.hosts, c.arg) ELSE r.hosts
       /\ s.ds = IF c.op \in DSOps THEN Edit(r.ds, c.arg) ELSE r.ds
       /\ s.statuses = IF c.op \in StatusOps THEN Edit(r.statuses, c.arg) ELSE r.statuses
       /\ c.op # "approve" => s.sponsor = r.sponsor

LEMMA DomainChanges ==
  ASSUME NEW c, c.on \in Domains, c.op \in DomainOps, Wellformed(c), Accepts(c),
         registry[c.on] \in DomainObject, registry[c.on].expires <= 1
  PROVE  /\ Changed(c) \in DomainObject /\ Changed(c).expires <= 1
         /\ ChangesDomain(c, registry[c.on], Changed(c))
<1> DEFINE r == registry[c.on]
           s == Changed(c)
<1>0. /\ r \in DomainObject /\ r.expires <= 1 /\ r.expires \in Nat
      /\ r.hosts \subseteq Hosts /\ r.ds \subseteq DSRecords /\ r.statuses \subseteq Statuses
  BY DEF DomainObject
<1>1. c.op \in {"approve", "reject", "ack", "create", "info", "transfer", "unlock", "addHosts",
                "remHosts", "addDS", "remDS", "addStatuses", "remStatuses", "renew", "delete",
                "refresh"}
  BY DEF DomainOps, Ops, HostPhases
<1>2. CASE c.op = "create"
  <2>1. s = [exists |-> TRUE, sponsor |-> "us", hosts |-> {}, statuses |-> {}, ds |-> {},
             expires |-> 1, transfer |-> "none"]
    BY <1>2 DEF Changed
  <2> QED BY <1>2, <2>1 DEF DomainObject, ChangesDomain
<1>3. CASE c.op = "delete"
  <2>1. s = [r EXCEPT !.exists = FALSE]
    BY <1>3 DEF Changed
  <2> HIDE DEF s, r
  <2> QED BY <1>0, <1>3, <2>1
          DEF DomainObject, ChangesDomain, NameServerOps, DSOps, StatusOps, s, r
<1>4. CASE c.op \in NameServerOps
  <2>1. s = [r EXCEPT !.hosts = Edit(r.hosts, c.arg)]
    BY <1>4 DEF Changed, NameServerOps
  <2>2. Edit(r.hosts, c.arg) \subseteq Hosts
    BY <1>0, <1>4 DEF Edit, Wellformed
  <2>3. c.op \notin DSOps /\ c.op \notin StatusOps /\ c.op # "create" /\ c.op # "delete"
    BY <1>4 DEF NameServerOps, DSOps, StatusOps
  <2> QED BY <1>0, <1>4, <2>1, <2>2, <2>3 DEF DomainObject, ChangesDomain
<1>5. CASE c.op \in DSOps
  <2>1. s = [r EXCEPT !.ds = Edit(r.ds, c.arg)]
    BY <1>5 DEF Changed, DSOps
  <2>2. Edit(r.ds, c.arg) \subseteq DSRecords
    BY <1>0, <1>5 DEF Edit, Wellformed
  <2>3. c.op \notin NameServerOps /\ c.op \notin StatusOps /\ c.op # "create" /\ c.op # "delete"
    BY <1>5 DEF NameServerOps, DSOps, StatusOps
  <2> QED BY <1>0, <1>5, <2>1, <2>2, <2>3 DEF DomainObject, ChangesDomain
<1>6. CASE c.op \in StatusOps
  <2>1. s = [r EXCEPT !.statuses = Edit(r.statuses, c.arg)]
    BY <1>6 DEF Changed, StatusOps
  <2>2. Edit(r.statuses, c.arg) \subseteq Statuses
    BY <1>0, <1>6 DEF Edit, Wellformed
  <2>3. c.op \notin NameServerOps /\ c.op \notin DSOps /\ c.op # "create" /\ c.op # "delete"
    BY <1>6 DEF NameServerOps, DSOps, StatusOps
  <2> QED BY <1>0, <1>6, <2>1, <2>2, <2>3 DEF DomainObject, ChangesDomain
<1>7. CASE c.op \in {"approve", "reject", "ack", "info", "transfer", "renew", "refresh"}
  <2>1. /\ c.op \notin NameServerOps /\ c.op \notin DSOps /\ c.op \notin StatusOps
        /\ c.op # "create" /\ c.op # "delete"
    BY <1>7 DEF NameServerOps, DSOps, StatusOps
  <2>2. CASE c.op = "renew"
    <3>1. s = [r EXCEPT !.expires = r.expires + 1]
      BY <2>2 DEF Changed
    <3>2. r.expires = 0
      BY <1>0, <2>2 DEF Accepts, Wellformed
    <3> QED BY <1>0, <2>1, <2>2, <3>1, <3>2 DEF DomainObject, ChangesDomain
  <2>3. CASE c.op = "transfer"
    <3>1. s = [r EXCEPT !.transfer = "in"]
      BY <2>3 DEF Changed
    <3> QED BY <1>0, <2>1, <2>3, <3>1 DEF DomainObject, ChangesDomain
  <2>4. CASE c.op = "approve"
    <3>1. s = [r EXCEPT !.transfer = "none", !.sponsor = "them"]
      BY <2>4 DEF Changed
    <3> QED BY <1>0, <2>1, <2>4, <3>1 DEF DomainObject, ChangesDomain
  <2>5. CASE c.op = "reject"
    <3>1. s = [r EXCEPT !.transfer = "none"]
      BY <2>5 DEF Changed
    <3> QED BY <1>0, <2>1, <2>5, <3>1 DEF DomainObject, ChangesDomain
  <2>6. CASE c.op \in {"ack", "info", "refresh"}
    <3>1. s = r
      BY <2>6 DEF Changed
    <3> QED BY <1>0, <2>1, <2>6, <3>1 DEF DomainObject, ChangesDomain
  <2> QED BY <1>7, <2>2, <2>3, <2>4, <2>5, <2>6
<1> QED BY <1>1, <1>2, <1>3, <1>4, <1>5, <1>6, <1>7 DEF NameServerOps, DSOps, StatusOps

(* A host that was r is s after c.                                         *)
ChangesHost(c, r, s) ==
  /\ s.exists =
       CASE c.op = "hostCreate" -> TRUE [] c.op = "hostDelete" -> FALSE [] OTHER -> r.exists
  /\ c.op # "hostCreate" =>
       /\ s.addresses = IF c.op \in AddressOps THEN Edit(r.addresses, c.arg) ELSE r.addresses
       /\ s.statuses = IF c.op \in StatusOps THEN Edit(r.statuses, c.arg) ELSE r.statuses
  /\ c.op \in StatusOps => "serverUpdate" \notin r.statuses

LEMMA HostChanges ==
  ASSUME NEW c, c.on \in Hosts, c.op \in HostOps, Wellformed(c), Accepts(c),
         registry[c.on] \in HostObject
  PROVE  Changed(c) \in HostObject /\ ChangesHost(c, registry[c.on], Changed(c))
<1> DEFINE r == registry[c.on]
           s == Changed(c)
<1>0. r \in HostObject /\ r.addresses \subseteq Addresses /\ r.statuses \subseteq Statuses
  BY DEF HostObject
<1>1. c.op \in {"info", "hostCreate", "hostDelete", "hostStatuses", "hostAddresses"}
  BY DEF HostOps, Ops
<1>2. CASE c.op = "hostCreate"
  <2>1. s = [exists |-> TRUE, addresses |-> c.arg.add, statuses |-> {}]
    BY <1>2 DEF Changed
  <2>2. c.arg.add \subseteq Addresses
    BY <1>2 DEF Wellformed
  <2> QED BY <1>2, <2>1, <2>2 DEF HostObject, ChangesHost, StatusOps
<1>3. CASE c.op = "hostDelete"
  <2>1. s = [r EXCEPT !.exists = FALSE]
    BY <1>3 DEF Changed
  <2> QED BY <1>0, <1>3, <2>1 DEF HostObject, ChangesHost, StatusOps, AddressOps
<1>4. CASE c.op = "hostStatuses"
  <2>1. s = [r EXCEPT !.statuses = Edit(r.statuses, c.arg)]
    BY <1>4 DEF Changed
  <2>2. c.op \in StatusOps /\ c.op \notin AddressOps
    BY <1>4 DEF StatusOps, AddressOps
  <2>3. Edit(r.statuses, c.arg) \subseteq Statuses
    BY <1>0, <2>2 DEF Edit, Wellformed
  <2>4. "serverUpdate" \notin r.statuses
    BY <1>4 DEF Accepts, Unlocked
  <2> QED BY <1>0, <1>4, <2>1, <2>2, <2>3, <2>4 DEF HostObject, ChangesHost
<1>5. CASE c.op = "hostAddresses"
  <2>1. s = [r EXCEPT !.addresses = Edit(r.addresses, c.arg)]
    BY <1>5 DEF Changed
  <2>2. c.op \notin StatusOps /\ c.op \in AddressOps
    BY <1>5 DEF StatusOps, AddressOps
  <2>3. Edit(r.addresses, c.arg) \subseteq Addresses
    BY <1>0, <2>2 DEF Edit, Wellformed
  <2> QED BY <1>0, <1>5, <2>1, <2>2, <2>3 DEF HostObject, ChangesHost
<1>6. CASE c.op = "info"
  <2>1. s = r
    BY <1>6 DEF Changed
  <2> QED BY <1>0, <1>6, <2>1 DEF HostObject, ChangesHost, StatusOps, AddressOps
<1> QED BY <1>1, <1>2, <1>3, <1>4, <1>5, <1>6

-----------------------------------------------------------------------------
(* Sending a command *)

CarriedOut(c) == Accepts(c) /\ Carry(c)
Heard(c) == IF registry[c.on].exists THEN registry[c.on] ELSE Nothing

(* The command went well, or was not needed, or failed.                    *)
Succeeds(c) ==
  /\ CarriedOut(c) \/ (c.op = "refresh" /\ UNCHANGED registryVars)
  /\ mishaps' = mishaps /\ plan' = Tail(plan) /\ UNCHANGED <<pc, todo>>
  /\ c.op = "info" => info' = [info EXCEPT ![c.on] = Heard(c)]
FailsOf(c) ==
  /\ CarriedOut(c) \/ UNCHANGED registryVars
  /\ mishaps' = mishaps \cup {<<c.op, c.on>>}
  /\ \/ Quit /\ c.onError = "stop"
     \/ /\ UNCHANGED <<pc, todo>> /\ c.onError # "stop"
        /\ plan' = Tail(plan) \/ (plan' = <<>> /\ c.onError = "skip")

LEMMA SendFacts ==
  ASSUME SendCommand, NEW c, c = Head(plan)
  PROVE  /\ plan # <<>> /\ UNCHANGED <<row, work, verified, avail, completed>>
         /\ Succeeds(c) \/ FailsOf(c)
         /\ \/ info' = info
            \/ c.op \in {"info", "refresh"} /\ \E new : info' = [info EXCEPT ![c.on] = new]
<1>1. plan # <<>> /\ UNCHANGED <<row, work, verified, avail, completed>>
  BY DEF SendCommand
<1>2. \/ Unneeded(c) /\ plan' = Tail(plan) /\ UNCHANGED <<registryVars, pc, todo, info, mishaps>>
      \/ ~ Unneeded(c) /\ CarriedOut(c) /\ Answered(c)
      \/ Failed(c) /\ (CarriedOut(c) \/ UNCHANGED registryVars)
  BY DEF SendCommand, CarriedOut
<1>3. CASE Unneeded(c) /\ plan' = Tail(plan) /\ UNCHANGED <<registryVars, pc, todo, info, mishaps>>
  <2>1. c.op = "refresh" /\ c.op # "info"
    BY <1>3 DEF Unneeded
  <2> QED BY <1>1, <1>3, <2>1 DEF Succeeds
<1>4. CASE CarriedOut(c) /\ Answered(c)
  <2>1. Succeeds(c)
    BY <1>4 DEF Succeeds, Answered, Untroubled, Heard
  <2>2. \/ info' = info
        \/ c.op \in {"info", "refresh"} /\ \E new : info' = [info EXCEPT ![c.on] = new]
    BY <1>4 DEF Answered
  <2> QED BY <1>1, <2>1, <2>2
<1>5. CASE Failed(c) /\ (CarriedOut(c) \/ UNCHANGED registryVars)
  <2>1. FailsOf(c)
    BY <1>5 DEF FailsOf, Failed, Troubled
  <2>2. \/ info' = info
        \/ c.op \in {"info", "refresh"} /\ \E new : info' = [info EXCEPT ![c.on] = new]
    BY <1>5 DEF Failed
  <2> QED BY <1>1, <2>1, <2>2
<1> QED BY <1>2, <1>3, <1>4, <1>5

(* The first command of a plan and the rest of it.                         *)
LEMMA FirstCommand ==
  ASSUME PlanFits, plan # <<>>, NEW c, c = Head(plan)
  PROVE  /\ IsSeq(Tail(plan)) /\ InOrder(Tail(plan))
         /\ ToSet(plan) = ToSet(Tail(plan)) \cup {c}
         /\ \A e \in ToSet(Tail(plan)) : Follows(c, e)
         /\ \A e \in ToSet(plan) : e.on = c.on
         /\ PlanFor(c.on) = ToSet(plan) /\ \A y : y # c.on => PlanFor(y) = {}
         /\ pc \in DOMAIN Ops /\ c.op \in Ops[pc] /\ Wellformed(c)
         /\ IF pc = "polls" THEN c.on \in Domains ELSE Suits(c)
<1>1. IsSeq(plan) /\ InOrder(plan)
  BY DEF PlanFits
<1>2. /\ IsSeq(Tail(plan)) /\ ToSet(plan) = ToSet(Tail(plan)) \cup {c}
  BY <1>1, TailSeq
<1>3. InOrder(Tail(plan)) /\ \A e \in ToSet(Tail(plan)) : Follows(c, e)
  BY <1>1, InOrderTail
<1>4. \A e \in ToSet(plan) : e.on = c.on
  BY <1>2, <1>3 DEF Follows
<1>5. PlanFor(c.on) = ToSet(plan) /\ \A y : y # c.on => PlanFor(y) = {}
  BY <1>4 DEF PlanFor
<1>6. /\ pc \in DOMAIN Ops /\ c.op \in Ops[pc] /\ Wellformed(c)
      /\ IF pc = "polls" THEN c.on \in Domains ELSE Suits(c)
  BY <1>2 DEF PlanFits
<1> QED BY <1>1, <1>2, <1>3, <1>4, <1>5, <1>6

LEMMA WhoseCommand ==
  ASSUME NEW c, pc \in DOMAIN Ops, c.op \in Ops[pc],
         IF pc = "polls" THEN c.on \in Domains ELSE Suits(c)
  PROVE  /\ pc \in HostPhases => c.on \in Hosts /\ c.on \in VerifiedHosts /\ c.op \in HostOps
         /\ pc \notin HostPhases => c.on \in Domains /\ c.op \in DomainOps
         /\ pc \notin HostPhases /\ pc # "polls" => c.on \in VerifiedDomains
         /\ pc # "polls" => c.on \notin todo
<1>1. CASE pc \in HostPhases
  BY <1>1 DEF Suits, VerifiedHosts, HostOps, HostPhases
<1>2. CASE pc \notin HostPhases
  <2>1. c.op \in DomainOps
    BY <1>2 DEF DomainOps
  <2> QED BY <1>2, <2>1 DEF Suits, VerifiedDomains
<1> QED BY <1>1, <1>2

LEMMA SentRegistry ==
  ASSUME Inv, NEW c, CarriedOut(c) \/ UNCHANGED registryVars,
         (c.on \in Domains /\ c.op \in DomainOps) \/ (c.on \in Hosts /\ c.op \in HostOps),
         Wellformed(c)
  PROVE  /\ RegistryTypes' /\ RenewedOnce'
         /\ \A o \in Objects : o # c.on => registry'[o] = registry[o]
         /\ registry' = registry \/ CarriedOut(c)
         /\ CarriedOut(c) =>
              /\ c.on \in Domains => ChangesDomain(c, registry[c.on], registry'[c.on])
              /\ c.on \in Hosts => ChangesHost(c, registry[c.on], registry'[c.on])
<1>1. RegistryTypes /\ RenewedOnce
  BY DEF Inv, Types
<1>2. CASE UNCHANGED registryVars /\ ~ CarriedOut(c)
  BY <1>1, <1>2 DEF registryVars, RegistryTypes, RenewedOnce
<1>3. CASE CarriedOut(c)
  <2>1. /\ Accepts(c) /\ registry' = [registry EXCEPT ![c.on] = Changed(c)]
        /\ (polls' = Tail(polls) /\ polls # <<>>) \/ polls' = polls
    BY <1>3 DEF CarriedOut, Carry
  <2>2. polls' \in Seq(PollMessage)
    BY <1>1, <2>1 DEF RegistryTypes
  <2>3. /\ DOMAIN registry' = Objects /\ registry'[c.on] = Changed(c) /\ c.on \in Objects
        /\ \A o \in Objects : o # c.on => registry'[o] = registry[o]
    BY <1>1, <2>1 DEF RegistryTypes, Objects
  <2>4. CASE c.on \in Domains /\ c.op \in DomainOps
    <3>1. registry[c.on] \in DomainObject /\ registry[c.on].expires <= 1
      BY <1>1, <2>4 DEF RegistryTypes, RenewedOnce
    <3>2. /\ Changed(c) \in DomainObject /\ Changed(c).expires <= 1
          /\ ChangesDomain(c, registry[c.on], Changed(c))
      BY <2>1, <2>4, <3>1, DomainChanges
    <3>3. c.on \notin Hosts
      BY <2>4, DisjointAssumption
    <3> QED BY <1>1, <1>3, <2>2, <2>3, <3>2, <3>3 DEF RegistryTypes, RenewedOnce, Objects
  <2>5. CASE c.on \in Hosts /\ c.op \in HostOps
    <3>1. registry[c.on] \in HostObject
      BY <1>1, <2>5 DEF RegistryTypes
    <3>2. Changed(c) \in HostObject /\ ChangesHost(c, registry[c.on], Changed(c))
      BY <2>1, <2>5, <3>1, HostChanges
    <3>3. c.on \notin Domains
      BY <2>5, DisjointAssumption
    <3> QED BY <1>1, <1>3, <2>2, <2>3, <3>2, <3>3 DEF RegistryTypes, RenewedOnce, Objects
  <2> QED BY <2>4, <2>5
<1> QED BY <1>2, <1>3

(* What is to become of a domain is the same after a command of its plan   *)
(* that went well.                                                         *)
LEMMA DomainBecomesStill ==
  ASSUME NEW c, NEW S, NEW U, U = S \cup {c}, \A e \in S : Follows(c, e), c.op # "create",
         NEW r, NEW s, ChangesDomain(c, r, s)
  PROVE  /\ Becomes(s.hosts, S, NameServerOps) = Becomes(r.hosts, U, NameServerOps)
         /\ Becomes(s.ds, S, DSOps) = Becomes(r.ds, U, DSOps)
         /\ Becomes(s.statuses, S, StatusOps) = Becomes(r.statuses, U, StatusOps)
<1>1. NameServerOps \in Fields /\ DSOps \in Fields /\ StatusOps \in Fields
  BY DEF Fields
<1>2. /\ s.hosts = IF c.op \in NameServerOps THEN Edit(r.hosts, c.arg) ELSE r.hosts
      /\ s.ds = IF c.op \in DSOps THEN Edit(r.ds, c.arg) ELSE r.ds
      /\ s.statuses = IF c.op \in StatusOps THEN Edit(r.statuses, c.arg) ELSE r.statuses
  BY DEF ChangesDomain
<1>3. Becomes(s.hosts, S, NameServerOps) = Becomes(r.hosts, U, NameServerOps)
  BY <1>1, <1>2, BecomesStill
<1>4. Becomes(s.ds, S, DSOps) = Becomes(r.ds, U, DSOps)
  BY <1>1, <1>2, BecomesStill
<1>5. Becomes(s.statuses, S, StatusOps) = Becomes(r.statuses, U, StatusOps)
  BY <1>1, <1>2, BecomesStill
<1> QED BY <1>3, <1>4, <1>5

(* A name server that is to be there is there, or still to be added.       *)
LEMMA HostsStill ==
  ASSUME NEW c, NEW S, NEW U, U = S \cup {c}, NEW r, NEW s, NEW hosts,
         hosts \subseteq r.hosts \cup Adds(U, NameServerOps),
         hosts \cap Rems(U, NameServerOps) = {},
         s.hosts = r.hosts \/ s.hosts = IF c.op \in NameServerOps THEN Edit(r.hosts, c.arg) ELSE r.hosts,
         c.op \in NameServerOps /\ c.arg.add # {} => s.hosts = Edit(r.hosts, c.arg)
  PROVE  /\ hosts \subseteq s.hosts \cup Adds(S, NameServerOps)
         /\ hosts \cap Rems(S, NameServerOps) = {}
<1>1. hosts \cap Rems(S, NameServerOps) = {}
  BY DEF Rems
<1>2. ASSUME NEW h \in hosts, h \in Adds(U, NameServerOps) PROVE h \in s.hosts \cup Adds(S, NameServerOps)
  <2>1. PICK e \in U : e.op \in NameServerOps /\ h \in e.arg.add
    BY <1>2 DEF Adds
  <2>2. CASE e \in S
    BY <2>1, <2>2 DEF Adds
  <2>3. CASE e = c
    BY <2>1, <2>3 DEF Edit
  <2> QED BY <2>2, <2>3
<1>3. ASSUME NEW h \in hosts, h \in r.hosts PROVE h \in s.hosts
  <2>1. c.op \in NameServerOps => h \notin c.arg.rem
    <3>1. h \notin Rems(U, NameServerOps)
      BY <1>3
    <3> QED BY <3>1 DEF Rems
  <2> QED BY <1>3, <2>1 DEF Edit
<1> QED BY <1>1, <1>2, <1>3

(* A lock that is on, or goes on, is on or goes on after the command.      *)
LEMMA LockStill ==
  ASSUME NEW c, NEW S, NEW U, U = S \cup {c}, \A e \in S : Follows(c, e), NEW r, NEW s, NEW lock,
         \/ lock \in Adds(U, StatusOps)
         \/ lock \in r.statuses /\ lock \notin Rems(U, StatusOps),
         \/ s.statuses = r.statuses
         \/ s.statuses = IF c.op \in StatusOps THEN Edit(r.statuses, c.arg) ELSE r.statuses,
         c.op \in StatusOps /\ c.arg.add # {} => s.statuses = Edit(r.statuses, c.arg)
  PROVE  \/ lock \in Adds(S, StatusOps)
         \/ lock \in s.statuses /\ lock \notin Rems(S, StatusOps)
<1>1. CASE lock \in Adds(U, StatusOps)
  <2>1. PICK e \in U : e.op \in StatusOps /\ lock \in e.arg.add
    BY <1>1 DEF Adds
  <2>2. CASE e \in S
    BY <2>1, <2>2 DEF Adds
  <2>3. CASE e = c
    <3>1. lock \in s.statuses
      BY <2>1, <2>3 DEF Edit
    <3>2. lock \notin Rems(S, StatusOps)
      BY <2>1, <2>3 DEF Rems, Follows, Fields
    <3> QED BY <3>1, <3>2
  <2> QED BY <2>2, <2>3
<1>2. CASE lock \in r.statuses /\ lock \notin Rems(U, StatusOps)
  <2>1. lock \notin Rems(S, StatusOps) /\ (c.op \in StatusOps => lock \notin c.arg.rem)
    BY <1>2 DEF Rems
  <2> QED BY <1>2, <2>1 DEF Edit
<1> QED BY <1>1, <1>2

(* The commands U are those of S and, before them, c.                      *)
Leaves(c, S, U) == U = S \cup {c} /\ \A e \in S : Follows(c, e)

LEMMA DomainStill ==
  ASSUME NEW c, NEW S, NEW U, Leaves(c, S, U), c.op # "create",
         NEW r, NEW s, ChangesDomain(c, r, s)
  PROVE  /\ Becomes(s.hosts, S, NameServerOps) = Becomes(r.hosts, U, NameServerOps)
         /\ Becomes(s.ds, S, DSOps) = Becomes(r.ds, U, DSOps)
         /\ Becomes(s.statuses, S, StatusOps) = Becomes(r.statuses, U, StatusOps)
<1>1. U = S \cup {c} /\ \A e \in S : Follows(c, e)
  BY DEF Leaves
<1> QED BY <1>1, DomainBecomesStill

(* Of a domain, after the first command of its changes.                    *)
LEMMA ChangingDomain ==
  ASSUME Inv, plan # <<>>, NEW c, c = Head(plan), pc = "domainUpdate",
         UNCHANGED <<pc, todo, completed, verified, avail>>,
         PlanFor(c.on)' = ToSet(Tail(plan)), Succeeds(c) \/ FailsOf(c)
  PROVE  DomainRun(c.on)'
<1> DEFINE d == c.on
           S == ToSet(Tail(plan))
           U == ToSet(plan)
           r == registry[d]
           s == registry'[d]
           rev == verified[d].rev
<1>1. /\ U = S \cup {c} /\ (\A e \in S : Follows(c, e)) /\ PlanFor(d) = U
      /\ c.op \in Ops.domainUpdate /\ Wellformed(c) /\ Suits(c)
  <2>1. PlanFits
    BY DEF Inv
  <2> QED BY <2>1, FirstCommand
<1>2. d \in Domains /\ d \in VerifiedDomains /\ c.op \in DomainOps /\ d \notin todo
  BY <1>1, WhoseCommand DEF Ops, HostPhases
<1>3. /\ CarriedOut(c) \/ UNCHANGED registryVars
      /\ mishaps \subseteq mishaps'
      /\ \/ mishaps' = mishaps /\ (CarriedOut(c) \/ c.op = "refresh")
         \/ <<c.op, d>> \in mishaps'
  BY DEF Succeeds, FailsOf
<1>4. s = r \/ (CarriedOut(c) /\ ChangesDomain(c, r, s))
  BY <1>1, <1>2, <1>3, SentRegistry
<1>5. CarriedOut(c) => ChangesDomain(c, r, s)
  BY <1>1, <1>2, <1>3, SentRegistry
<1>6. /\ c.op # "create" /\ c.op # "approve" /\ c.op # "hostStatuses"
      /\ c.op \notin {"ack", "approved"}
      /\ "refresh" \notin NameServerOps /\ "refresh" \notin StatusOps
  BY <1>1 DEF Ops, NameServerOps, StatusOps
<1>7. /\ Past(4, d) /\ Past(4, d)' /\ Past(10, d) /\ Past(10, d)'
  BY <1>2, Stages, SamePast DEF Past
<1>8. DomainKnown(d) /\ Relocks(d) /\ Delegates(d) /\ (Calm(d) => DomainBecomes(d))
  BY <1>2, <1>7 DEF Inv, DomainRuns, DomainRun
<1>9. \A desired : Wants(d, desired)' <=> Wants(d, desired)
  BY DEF Wants
<1>10. /\ \A op : Sends(op, d) <=> \E e \in U : e.op = op
       /\ \A op : Sends(op, d)' <=> \E e \in S : e.op = op
  BY <1>1 DEF Sends
<1>11. /\ s.exists = r.exists \/ (c.op = "delete" /\ ~ s.exists /\ Wants(d, "inactive"))
       /\ s.sponsor = r.sponsor
       /\ s.hosts = r.hosts \/ s.hosts = IF c.op \in NameServerOps THEN Edit(r.hosts, c.arg) ELSE r.hosts
       /\ \/ s.statuses = r.statuses
          \/ s.statuses = IF c.op \in StatusOps THEN Edit(r.statuses, c.arg) ELSE r.statuses
  <2>1. c.op = "delete" => Wants(d, "inactive")
    BY <1>1 DEF Suits
  <2> QED BY <1>4, <1>6, <2>1 DEF ChangesDomain
<1> HIDE DEF d, S, U, r, s, rev
<1>12. DomainKnown(d)' /\ DomainInformed(d)'
  <2>1. registry'[d] = s /\ registry[d] = r
    BY DEF s, r
  <2>2. ~ s.exists \/ s.exists = r.exists
    BY <1>11
  <2> QED BY <1>7, <1>8, <1>9, <2>1, <2>2 DEF DomainKnown, DomainInformed
<1>13. Relocks(d)'
  <2> SUFFICES ASSUME Wants(d, "active"), "clientUpdate" \in rev.statuses,
                      <<"addStatuses", d>> \notin mishaps', <<"registry", d>> \notin mishaps'
               PROVE  \/ "clientUpdate" \in Adds(S, StatusOps)
                      \/ "clientUpdate" \in s.statuses /\ "clientUpdate" \notin Rems(S, StatusOps)
    BY <1>9 DEF Relocks, rev, s, S, d
  <2>1. \/ "clientUpdate" \in Adds(U, StatusOps)
        \/ "clientUpdate" \in r.statuses /\ "clientUpdate" \notin Rems(U, StatusOps)
    BY <1>1, <1>3, <1>8 DEF Relocks, rev, r
  <2>2. ASSUME c.op \in StatusOps, c.arg.add # {} PROVE s.statuses = Edit(r.statuses, c.arg)
    <3>1. c.op = "addStatuses"
      BY <1>1, <1>6, <2>2 DEF Wellformed, StatusOps
    <3>2. CarriedOut(c)
      BY <1>3, <3>1
    <3> QED BY <1>5, <1>6, <2>2, <3>2 DEF ChangesDomain
  <2> QED BY <1>1, <1>11, <2>1, <2>2, LockStill
<1>14. Delegates(d)'
  <2> SUFFICES ASSUME Sends("remHosts", d)', <<"addHosts", d>> \notin mishaps'
               PROVE  /\ rev.hosts \subseteq s.hosts \cup Adds(S, NameServerOps)
                      /\ rev.hosts \cap Rems(S, NameServerOps) = {}
    BY DEF Delegates, rev, s, S, d
  <2>1. /\ rev.hosts \subseteq r.hosts \cup Adds(U, NameServerOps)
        /\ rev.hosts \cap Rems(U, NameServerOps) = {}
    <3>1. Sends("remHosts", d)
      BY <1>1, <1>10
    <3> QED BY <1>1, <1>3, <1>8, <3>1 DEF Delegates, rev, r
  <2>2. ASSUME c.op \in NameServerOps, c.arg.add # {} PROVE s.hosts = Edit(r.hosts, c.arg)
    <3>1. c.op = "addHosts"
      BY <1>1, <2>2 DEF Wellformed, NameServerOps
    <3>2. CarriedOut(c)
      BY <1>3, <3>1
    <3> QED BY <1>5, <1>6, <2>2, <3>2 DEF ChangesDomain
  <2> QED BY <1>1, <1>11, <2>1, <2>2, HostsStill, ZenonT(60)
<1>15. ASSUME Calm(d)' PROVE DomainBecomes(d)'
  <2>1. DomainBecomes(d)
    BY <1>3, <1>8, <1>15, CalmBefore
  <2>2. CarriedOut(c) \/ c.op = "refresh" \/ c.op = "renew"
    BY <1>3, <1>6, <1>15 DEF Calm
  <2>3. ChangesDomain(c, r, s)
    <3>1. CASE CarriedOut(c)
      BY <1>5, <3>1
    <3>2. CASE c.op \in {"refresh", "renew"} /\ s = r
      BY <3>2 DEF ChangesDomain, NameServerOps, DSOps, StatusOps
    <3> QED BY <1>4, <2>2, <3>1, <3>2
  <2>4. /\ Becomes(s.hosts, S, NameServerOps) = Becomes(r.hosts, U, NameServerOps)
        /\ Becomes(s.ds, S, DSOps) = Becomes(r.ds, U, DSOps)
        /\ Becomes(s.statuses, S, StatusOps) = Becomes(r.statuses, U, StatusOps)
    <3>1. Leaves(c, S, U)
      BY <1>1 DEF Leaves
    <3> QED BY <1>6, <2>3, <3>1, DomainStill
  <2>5. PlanFor(d)' = S /\ registry'[d] = s /\ registry[d] = r
    BY DEF d, S, r, s
  <2>6. Wants(d, "active") => ActiveDomainBecomes(d)'
    <3> SUFFICES ASSUME Wants(d, "active") PROVE ActiveDomainBecomes(d)'
      OBVIOUS
    <3>1. ActiveDomainBecomes(d) /\ s.exists = r.exists
      BY <1>11, <2>1 DEF DomainBecomes, Wants
    <3>2. /\ r.exists /\ Becomes(r.hosts, U, NameServerOps) = rev.hosts
          /\ Becomes(r.ds, U, DSOps) = rev.ds
          /\ Client(Becomes(r.statuses, U, StatusOps)) = Client(rev.statuses)
      BY <1>1, <2>5, <3>1 DEF ActiveDomainBecomes, rev
    <3>3. verified'[d].rev = rev
      BY DEF rev
    <3> QED BY <2>4, <2>5, <3>1, <3>2, <3>3 DEF ActiveDomainBecomes
  <2>7. Wants(d, "inactive") => ~ s.exists \/ Sends("delete", d)'
    <3> SUFFICES ASSUME Wants(d, "inactive"), s.exists PROVE Sends("delete", d)'
      OBVIOUS
    <3>1. r.exists /\ Sends("delete", d)
      BY <1>11, <2>1, <2>5 DEF DomainBecomes
    <3>2. c.op # "delete"
      BY <2>3 DEF ChangesDomain
    <3> QED BY <1>1, <1>10, <3>1, <3>2
  <2>8. Wants(d, "external") =>
          ~ Ours(d)' \/ "clientTransfer" \notin Becomes(s.statuses, S, StatusOps)
    <3> SUFFICES ASSUME Wants(d, "external"), Ours(d)'
                 PROVE  "clientTransfer" \notin Becomes(s.statuses, S, StatusOps)
      OBVIOUS
    <3>1. Ours(d)
      BY <1>11, <2>5 DEF Ours
    <3>2. "clientTransfer" \notin Becomes(r.statuses, U, StatusOps)
      BY <1>1, <2>1, <2>5, <3>1 DEF DomainBecomes
    <3> QED BY <2>4, <3>2
  <2> QED BY <1>9, <2>5, <2>6, <2>7, <2>8 DEF DomainBecomes
<1> QED BY <1>12, <1>13, <1>14, <1>15 DEF DomainRun, d

(* Of a domain, after any command of its plan.                             *)
LEMMA DomainRunSent ==
  ASSUME Inv, plan # <<>>, NEW c, c = Head(plan), pc \notin HostPhases, pc # "polls",
         UNCHANGED <<pc, todo, completed, verified, avail>>,
         PlanFor(c.on)' = ToSet(Tail(plan)),
         Succeeds(c) \/ (FailsOf(c) /\ c.onError # "stop"),
         info' = info \/ c.op \in {"info", "refresh"}
  PROVE  DomainRun(c.on)'
<1> DEFINE d == c.on
           S == ToSet(Tail(plan))
           U == ToSet(plan)
<1>1. /\ U = S \cup {c} /\ PlanFor(d) = U /\ pc \in DOMAIN Ops /\ c.op \in Ops[pc]
      /\ Wellformed(c) /\ Suits(c)
  <2>1. PlanFits
    BY DEF Inv
  <2> QED BY <2>1, FirstCommand
<1>2. d \in Domains /\ d \in VerifiedDomains /\ c.op \in DomainOps /\ d \notin todo /\ d \in Objects
  BY <1>1, WhoseCommand DEF Objects
<1>3. /\ CarriedOut(c) => ChangesDomain(c, registry[d], registry'[d])
      /\ registry' = registry \/ CarriedOut(c)
  <2>1. CarriedOut(c) \/ UNCHANGED registryVars
    BY DEF Succeeds, FailsOf
  <2> QED BY <1>1, <1>2, <2>1, SentRegistry
<1>4. DomainRun(d)
  BY <1>2 DEF Inv, DomainRuns
<1>5. \A desired : Wants(d, desired)' <=> Wants(d, desired)
  BY DEF Wants
<1>6. \A op : (Sends(op, d) \/ Sends(op, d)') => op \in Ops[pc]
  <2>1. \A e \in U : e.op \in Ops[pc]
    BY DEF Inv, PlanFits
  <2> QED BY <1>1, <2>1 DEF Sends
<1>7. CASE pc = "domainExists"
  <2>1. c.op = "create" /\ avail[d] = "no" /\ c.onError = "stop"
    BY <1>1, <1>7 DEF Ops, Suits, Wellformed
  <2>2. registry'[d].exists
    BY <1>3, <2>1 DEF Succeeds, ChangesDomain
  <2>3. ~ Past(6, d)' /\ ~ Past(10, d)'
    BY <1>7, Stages, SamePast DEF Past
  <2> QED BY <2>1, <2>2, <2>3 DEF DomainRun, DomainKnown, DomainInformed
<1>8. CASE pc \in {"domainInfo", "transferIn"}
  <2>1. c.op \in {"info", "transfer"} /\ (c.op = "info" => pc = "domainInfo" /\ c.onError = "stop")
    BY <1>1, <1>2, <1>8 DEF Ops, Wellformed
  <2>2. /\ registry'[d].exists = registry[d].exists /\ registry'[d].hosts = registry[d].hosts
        /\ registry'[d].ds = registry[d].ds /\ registry'[d].statuses = registry[d].statuses
        /\ registry'[d].sponsor = registry[d].sponsor
    BY <1>3, <2>1 DEF ChangesDomain, NameServerOps, DSOps, StatusOps
  <2>3. /\ Past(4, d) /\ Past(4, d)' /\ Past(6, d) /\ Past(6, d)' /\ ~ Past(10, d) /\ ~ Past(10, d)'
    BY <1>2, <1>8, Stages, SamePast DEF Past
  <2>4. ~ Sends("create", d) /\ ~ Sends("create", d)'
    BY <1>6, <1>8 DEF Ops
  <2>5. /\ avail[d] \in {"yes", "no"}
        /\ avail[d] = "yes" => ~ registry[d].exists /\ ~ Wants(d, "active")
        /\ avail[d] = "no" => registry[d].exists
    BY <1>4, <2>3, <2>4 DEF DomainRun, DomainKnown
  <2>6. DomainKnown(d)'
    BY <1>5, <2>2, <2>5 DEF DomainKnown
  <2>7. DomainInformed(d)'
    <3> SUFFICES ASSUME avail[d] = "no"
                 PROVE  /\ info'[d] # Nothing
                        /\ info'[d].hosts = registry'[d].hosts /\ info'[d].ds = registry'[d].ds
                        /\ info'[d].statuses = registry'[d].statuses
                        /\ \/ info'[d].sponsor = registry'[d].sponsor
                           \/ <<"registry", d>> \in mishaps'
      BY DEF DomainInformed
    <3>1. CASE c.op = "info"
      <4>1. info'[d] = registry[d]
        BY <1>2, <2>1, <2>5, <3>1 DEF Succeeds, Heard, Inv, Types, RunTypes
      <4>2. registry[d] # Nothing
        BY <1>2, NothingAssumption DEF Inv, Types, RegistryTypes
      <4> QED BY <2>2, <4>1, <4>2
    <3>2. CASE c.op = "transfer"
      <4>1. info' = info /\ mishaps \subseteq mishaps' /\ pc = "transferIn"
        BY <1>1, <1>8, <3>2 DEF Succeeds, FailsOf, Ops
      <4>2. ~ Sends("info", d)
        BY <1>6, <4>1 DEF Ops
      <4> QED BY <1>4, <2>2, <2>3, <4>1, <4>2 DEF DomainRun, DomainInformed
    <3> QED BY <2>1, <3>1, <3>2
  <2> QED BY <2>3, <2>6, <2>7 DEF DomainRun
<1>9. CASE pc = "domainUpdate"
  BY <1>9, ChangingDomain
<1>10. pc \in {"domainExists", "domainInfo", "transferIn", "domainUpdate"}
  BY <1>1 DEF Ops, HostPhases
<1> QED BY <1>7, <1>8, <1>9, <1>10

(* The same of a host.                                                     *)
LEMMA HostStill ==
  ASSUME NEW c, NEW S, NEW U, Leaves(c, S, U), c.op # "hostCreate",
         NEW r, NEW s, ChangesHost(c, r, s)
  PROVE  /\ Becomes(s.addresses, S, AddressOps) = Becomes(r.addresses, U, AddressOps)
         /\ Becomes(s.statuses, S, StatusOps) = Becomes(r.statuses, U, StatusOps)
<1>1. AddressOps \in Fields /\ StatusOps \in Fields
  BY DEF Fields
<1>2. U = S \cup {c} /\ \A e \in S : Follows(c, e)
  BY DEF Leaves
<1>3. /\ s.addresses = IF c.op \in AddressOps THEN Edit(r.addresses, c.arg) ELSE r.addresses
      /\ s.statuses = IF c.op \in StatusOps THEN Edit(r.statuses, c.arg) ELSE r.statuses
  BY DEF ChangesHost
<1>4. Becomes(s.addresses, S, AddressOps) = Becomes(r.addresses, U, AddressOps)
  BY <1>1, <1>2, <1>3, BecomesStill
<1>5. Becomes(s.statuses, S, StatusOps) = Becomes(r.statuses, U, StatusOps)
  BY <1>1, <1>2, <1>3, BecomesStill
<1> QED BY <1>4, <1>5

(* Of a host, after any command of its plan.                               *)
LEMMA HostRunSent ==
  ASSUME Inv, plan # <<>>, NEW c, c = Head(plan), pc \in HostPhases,
         UNCHANGED <<pc, todo, completed, verified, avail>>,
         Succeeds(c) => PlanFor(c.on)' = ToSet(Tail(plan)),
         Succeeds(c) \/ FailsOf(c)
  PROVE  HostRun(c.on)'
<1> DEFINE h == c.on
           S == ToSet(Tail(plan))
           U == ToSet(plan)
           r == registry[h]
           s == registry'[h]
           rev == verified[h].rev
<1>1. /\ U = S \cup {c} /\ (\A e \in S : Follows(c, e)) /\ PlanFor(h) = U
      /\ pc \in DOMAIN Ops /\ c.op \in Ops[pc] /\ Wellformed(c) /\ Suits(c) /\ c \in U
  <2>1. PlanFits
    BY DEF Inv
  <2>2. pc # "polls"
    BY DEF HostPhases
  <2> QED BY <2>1, <2>2, FirstCommand
<1>2. h \in Hosts /\ h \in VerifiedHosts /\ c.op \in HostOps /\ h \notin todo
  <2>1. pc # "polls"
    BY DEF HostPhases
  <2> QED BY <1>1, <2>1, WhoseCommand
<1>3. c.op \in {"info", "hostCreate", "hostDelete", "hostStatuses", "hostAddresses"}
  BY <1>2 DEF HostOps, Ops
<1>4. /\ CarriedOut(c) \/ UNCHANGED registryVars
      /\ mishaps \subseteq mishaps'
      /\ (Succeeds(c) /\ CarriedOut(c)) \/ <<c.op, h>> \in mishaps'
  BY <1>3 DEF Succeeds, FailsOf
<1>5. /\ CarriedOut(c) => ChangesHost(c, r, s)
      /\ registry' = registry \/ CarriedOut(c)
  BY <1>1, <1>2, <1>4, SentRegistry
<1>6. c.op = "info" => registry'[h] = registry[h]
  <2> SUFFICES ASSUME c.op = "info", CarriedOut(c) PROVE registry'[h] = registry[h]
    BY <1>5, SMTT(30)
  <2>1. Changed(c) = registry[h]
    BY DEF Changed
  <2> QED BY <2>1 DEF CarriedOut, Carry
<1>7. ASSUME Calm(h)' PROVE Calm(h) /\ Succeeds(c) /\ CarriedOut(c) /\ PlanFor(h)' = S
  <2>1. <<c.op, h>> \notin mishaps'
    BY <1>3, <1>7 DEF Calm
  <2> QED BY <1>4, <1>7, <2>1, CalmBefore
<1>8. /\ Past(5, h) /\ Past(5, h)' /\ Past(7, h) /\ Past(7, h)'
      /\ Past(2, Parent[h]) /\ Past(2, Parent[h])'
      /\ pc = "hostInfo" => ~ Past(9, h) /\ ~ Past(9, h)'
      /\ pc = "hostUpdate" => Past(9, h) /\ Past(9, h)'
  BY <1>2, Stages, SamePast DEF Past, HostPhases
<1>9. /\ ParentVerified(h) /\ HostKnown(h) /\ HostInformed(h)
      /\ Past(9, h) /\ Calm(h) /\ ~ LeftAlone(h) => HostBecomes(h)
  BY <1>2 DEF Inv, HostRuns, HostRun
<1>10. \A desired : Wants(h, desired)' <=> Wants(h, desired)
  BY DEF Wants
<1>11. ParentVerified(h)'
  <2>1. Parent[h] # NoParent => verified'[Parent[h]] # Nothing \/ <<"verify", Parent[h]>> \in mishaps'
    BY <1>4, <1>8, <1>9 DEF ParentVerified
  <2> QED BY <2>1 DEF ParentVerified
<1>12. HostKnown(h)'
  <2>1. CASE pc = "hostInfo"
    <3>1. c.op = "info"
      BY <1>1, <2>1 DEF Ops
    <3> QED BY <1>6, <1>8, <1>9, <2>1, <3>1 DEF HostKnown
  <2>2. CASE pc = "hostUpdate"
    BY <1>8, <1>9, <2>2 DEF HostKnown
  <2> QED BY <2>1, <2>2 DEF HostPhases
<1>13. HostInformed(h)'
  <2>1. Parent[h] # NoParent
    BY <1>8, <1>9 DEF HostInformed
  <2>2. ASSUME Calm(h)'
        PROVE  Sends("info", h)' \/ info'[h] = IF s.exists THEN s ELSE Nothing
    <3>1. Succeeds(c) /\ PlanFor(h)' = S
      BY <1>7, <2>2
    <3>2. CASE c.op = "info"
      <4>1. info'[h] = Heard(c)
        BY <1>2, <3>1, <3>2 DEF Succeeds, Inv, Types, RunTypes, Objects
      <4> QED BY <1>6, <3>2, <4>1 DEF Heard
    <3>3. CASE c.op # "info"
      <4>1. pc = "hostUpdate"
        BY <1>1, <3>3 DEF HostPhases, Ops
      <4>2. \E e \in U : e.op = "info"
        BY <4>1 DEF Inv, PlanFits
      <4> QED BY <1>1, <3>1, <3>3, <4>2 DEF Sends
    <3> QED BY <3>2, <3>3
  <2> QED BY <2>1, <2>2 DEF HostInformed
<1>14. ASSUME Past(9, h)', Calm(h)', ~ LeftAlone(h)' PROVE HostBecomes(h)'
  <2>1. Calm(h) /\ Succeeds(c) /\ CarriedOut(c) /\ PlanFor(h)' = S /\ HostBecomes(h)
    <3>1. pc = "hostUpdate"
      BY <1>8, <1>14 DEF HostPhases
    <3>2. ~ LeftAlone(h)
      BY <1>14 DEF LeftAlone
    <3> QED BY <1>7, <1>8, <1>9, <1>14, <3>1, <3>2
  <2>2. ChangesHost(c, r, s) /\ Leaves(c, S, U)
    BY <1>1, <1>5, <2>1 DEF Leaves
  <2>3. /\ \A op : Sends(op, h) <=> \E e \in U : e.op = op
        /\ \A op : Sends(op, h)' <=> \E e \in S : e.op = op
    BY <1>1, <2>1 DEF Sends
  <2>4. /\ c.op = "hostDelete" => Wants(h, "inactive") /\ ~ Wants(h, "active")
        /\ c.op = "hostCreate" => Wants(h, "active") /\ ~ Wants(h, "inactive") /\ avail[h] = "yes"
    BY <1>1 DEF Suits, Wants
  <2>5. s.exists =
          CASE c.op = "hostCreate" -> TRUE [] c.op = "hostDelete" -> FALSE [] OTHER -> r.exists
    BY <2>2 DEF ChangesHost
  <2>6. registry'[h] = s /\ registry[h] = r /\ verified'[h].rev = rev /\ verified[h].rev = rev
    OBVIOUS
  <2> HIDE DEF S, U, r, s, rev, h
  <2>7. Wants(h, "active") => s.exists \/ (avail'[h] = "yes" /\ Sends("hostCreate", h)')
    <3> SUFFICES ASSUME Wants(h, "active"), ~ s.exists
                 PROVE  avail'[h] = "yes" /\ Sends("hostCreate", h)'
      OBVIOUS
    <3>1. ~ r.exists /\ c.op # "hostCreate"
      BY <2>4, <2>5
    <3>2. avail[h] = "yes" /\ Sends("hostCreate", h)
      BY <2>1, <2>6, <3>1 DEF HostBecomes
    <3> QED BY <1>1, <2>3, <3>1, <3>2
  <2>8. ASSUME Wants(h, "active"), avail[h] = "no", "serverUpdate" \notin s.statuses
        PROVE  ActiveHostBecomes(h)'
    <3>1. c.op # "hostCreate"
      BY <2>4, <2>8
    <3>2. "serverUpdate" \notin r.statuses
      BY <2>2, <2>8, <3>1 DEF ChangesHost
    <3>3. ActiveHostBecomes(h)
      BY <2>1, <2>6, <2>8, <3>2 DEF HostBecomes
    <3>4. /\ Becomes(r.addresses, U, AddressOps) = rev.addresses
          /\ Client(Becomes(r.statuses, U, StatusOps)) = Client(rev.statuses)
      BY <1>1, <2>6, <3>3 DEF ActiveHostBecomes
    <3>5. /\ Becomes(s.addresses, S, AddressOps) = Becomes(r.addresses, U, AddressOps)
          /\ Becomes(s.statuses, S, StatusOps) = Becomes(r.statuses, U, StatusOps)
      BY <2>2, <3>1, HostStill
    <3> QED BY <2>1, <2>6, <3>4, <3>5 DEF ActiveHostBecomes
  <2>9. Wants(h, "inactive") => ~ s.exists \/ Sends("hostDelete", h)'
    <3> SUFFICES ASSUME Wants(h, "inactive"), s.exists PROVE Sends("hostDelete", h)'
      OBVIOUS
    <3>1. r.exists /\ c.op # "hostDelete"
      BY <2>4, <2>5
    <3>2. Sends("hostDelete", h)
      BY <2>1, <2>6, <3>1 DEF HostBecomes
    <3> QED BY <1>1, <2>3, <3>1, <3>2
  <2> QED BY <1>10, <2>6, <2>7, <2>8, <2>9 DEF HostBecomes
<1> QED BY <1>11, <1>12, <1>13, <1>14 DEF HostRun

(* A command that does not end the run leaves the rest of the plan, or,    *)
(* when the object is left, nothing of it.                                 *)
LEMMA RestFits ==
  ASSUME PlanFits, plan # <<>>, plan' = Tail(plan), UNCHANGED <<pc, todo, verified, avail>>
  PROVE  PlanFits'
<1>1. PICK c : c = Head(plan)
  OBVIOUS
<1>2. /\ IsSeq(plan') /\ InOrder(plan') /\ pc' \in DOMAIN Ops
      /\ ToSet(plan) = ToSet(plan') \cup {c} /\ \A e \in ToSet(plan') : Follows(c, e)
  BY <1>1, FirstCommand
<1>3. \A e : Suits(e)' <=> Suits(e)
  BY DEF Suits, VerifiedHosts, VerifiedDomains, Wants
<1>4. \A e \in ToSet(plan') :
        /\ e.op \in Ops[pc'] /\ Wellformed(e)
        /\ IF pc' = "polls" THEN e.on \in Domains ELSE Suits(e)'
  BY <1>2, <1>3 DEF PlanFits
<1>5. ASSUME pc' = "hostUpdate", plan' # <<>> PROVE \E e \in ToSet(plan') : e.op = "info"
  <2>1. PICK e \in ToSet(plan) : e.op = "info"
    BY <1>5 DEF PlanFits
  <2>2. CASE e \in ToSet(plan')
    BY <2>1, <2>2
  <2>3. CASE e = c
    <3>1. \E x : x \in ToSet(plan')
      BY <1>2, <1>5, TailSeq
    <3> QED BY <1>2, <2>1, <2>3, <3>1 DEF Follows
  <2> QED BY <1>2, <2>2, <2>3
<1> QED BY <1>2, <1>4, <1>5 DEF PlanFits

LEMMA InvSendCommand ==
  ASSUME Inv, SendCommand
  PROVE  Inv'
<1>1. PICK c : c = Head(plan)
  OBVIOUS
<1>2. /\ plan # <<>> /\ UNCHANGED <<row, work, verified, avail, completed>>
      /\ Succeeds(c) \/ FailsOf(c)
      /\ \/ info' = info
         \/ c.op \in {"info", "refresh"} /\ \E new : info' = [info EXCEPT ![c.on] = new]
  BY <1>1, SendFacts
<1>3. PlanFits /\ Types
  BY DEF Inv
<1>4. /\ IsSeq(Tail(plan)) /\ ToSet(plan) = ToSet(Tail(plan)) \cup {c}
      /\ \A e \in ToSet(plan) : e.on = c.on
      /\ PlanFor(c.on) = ToSet(plan) /\ \A y : y # c.on => PlanFor(y) = {}
      /\ pc \in DOMAIN Ops /\ c.op \in Ops[pc] /\ Wellformed(c)
      /\ IF pc = "polls" THEN c.on \in Domains ELSE Suits(c)
  BY <1>1, <1>2, <1>3, FirstCommand
<1>5. /\ pc \in HostPhases => c.on \in Hosts /\ c.on \in VerifiedHosts /\ c.op \in HostOps
      /\ pc \notin HostPhases => c.on \in Domains /\ c.op \in DomainOps
      /\ pc \notin HostPhases /\ pc # "polls" => c.on \in VerifiedDomains
      /\ pc # "polls" => c.on \notin todo
      /\ c.on \in Objects
  BY <1>4, WhoseCommand DEF Objects
<1>6. CarriedOut(c) \/ UNCHANGED registryVars
  BY <1>2 DEF Succeeds, FailsOf
<1>7. /\ RegistryTypes' /\ RenewedOnce'
      /\ \A o \in Objects : o # c.on => registry'[o] = registry[o]
  BY <1>4, <1>5, <1>6, SentRegistry
<1>8. DOMAIN info' = Objects /\ \A o \in Objects : o # c.on => info'[o] = info[o]
  BY <1>2, <1>3 DEF Types, RunTypes
<1>9. mishaps \subseteq mishaps'
  BY <1>2 DEF Succeeds, FailsOf
<1>10. pc \in DOMAIN StageOf /\ avail' \in [Objects -> {"unknown", "yes", "no"}]
  BY <1>2, <1>3, <1>4 DEF Ops, StageOf, Types, RunTypes
<1>11. CASE Quit
  BY <1>2, <1>7, <1>8, <1>9, <1>10, <1>11, QuitInv
<1>12. CASE UNCHANGED <<pc, todo>> /\ (plan' = Tail(plan) \/ (plan' = <<>> /\ c.onError = "skip"))
            /\ (Succeeds(c) => plan' = Tail(plan)) /\ (FailsOf(c) => c.onError # "stop")
  <2>1. Stage' = Stage /\ \A k, o : Past(k, o)' <=> Past(k, o)
    BY <1>2, <1>12, SamePast
  <2>2. PlanFits' /\ ToSet(plan') \subseteq ToSet(plan)
    <3>1. CASE plan' = Tail(plan)
      BY <1>2, <1>3, <1>4, <1>12, <3>1, RestFits
    <3>2. CASE plan' = <<>>
      BY <3>2, NoPlan, NoneIsSeq
    <3> QED BY <1>12, <3>1, <3>2
  <2>3. PlanFor(c.on)' = ToSet(plan') /\ \A y : y # c.on => PlanFor(y)' = {}
    BY <1>4, <2>2 DEF PlanFor
  <2>4. VerifiedDomains' = VerifiedDomains /\ VerifiedHosts' = VerifiedHosts
    BY <1>2 DEF VerifiedDomains, VerifiedHosts
  <2>5. Types'
    <3>1. Looks(pc)' = Looks(pc)
      BY <1>2, <1>12, <2>4 DEF Looks, hostDomains
    <3>2. RunTypes'
      BY <1>2, <1>3, <1>8, <1>10, <1>12, <2>1, <3>1 DEF Types, RunTypes
    <3> QED BY <1>2, <1>3, <1>7, <3>2 DEF Types, RowTypes
  <2>6. AsApproved'
    BY <1>2, <1>9 DEF Inv, AsApproved
  <2>7. Uninformed'
    <3> SUFFICES ASSUME Stage' # 0, NEW h \in Hosts, ~ Past(7, h) PROVE info'[h] = Nothing
      BY <2>1 DEF Uninformed
    <3>1. info[h] = Nothing
      BY <2>1 DEF Inv, Uninformed
    <3>2. h # c.on
      <4>1. CASE pc \in HostPhases
        <5>1. Past(7, c.on)
          BY <1>5, <4>1, Stages DEF Past, HostPhases
        <5> QED BY <5>1
      <4>2. CASE pc \notin HostPhases
        BY <1>5, <4>2, DisjointAssumption
      <4> QED BY <4>1, <4>2
    <3> QED BY <1>8, <3>1, <3>2 DEF Objects
  <2>8. ASSUME NEW d \in VerifiedDomains PROVE DomainRun(d)'
    <3>1. DomainRun(d) /\ d \in Objects
      BY DEF Inv, DomainRuns, VerifiedDomains, Objects
    <3>2. CASE d # c.on
      BY <1>2, <1>4, <1>7, <1>8, <1>9, <2>1, <2>3, <3>1, <3>2, DomainRunKept
    <3>3. CASE d = c.on /\ pc = "polls"
      <4>1. Stage' = 3
        BY <2>1, <3>3, Stages
      <4> QED BY <4>1, DomainRunEnds
    <3>4. CASE d = c.on /\ pc # "polls"
      <4>1. pc \notin HostPhases
        BY <1>5, <3>4, DisjointAssumption DEF VerifiedDomains
      <4>2. c.onError # "skip"
        BY <1>4, <4>1 DEF Wellformed, Ops, HostPhases
      <4>3. PlanFor(c.on)' = ToSet(Tail(plan))
        BY <1>12, <2>3, <4>2
      <4>4. info' = info \/ c.op \in {"info", "refresh"}
        BY <1>2
      <4> QED BY <1>1, <1>2, <1>12, <3>4, <4>1, <4>3, <4>4, DomainRunSent
    <3> QED BY <3>2, <3>3, <3>4
  <2>9. ASSUME NEW h \in VerifiedHosts PROVE HostRun(h)'
    <3>1. HostRun(h) /\ h \in Objects /\ h \in Hosts
      BY DEF Inv, HostRuns, VerifiedHosts, Objects
    <3>2. CASE h # c.on
      BY <1>2, <1>4, <1>7, <1>8, <1>9, <2>1, <2>3, <3>1, <3>2, HostRunKept
    <3>3. CASE h = c.on
      <4>1. pc \in HostPhases
        BY <1>5, <3>1, <3>3, DisjointAssumption
      <4>2. Succeeds(c) => PlanFor(c.on)' = ToSet(Tail(plan))
        BY <1>12, <2>3
      <4> QED BY <1>1, <1>2, <1>12, <3>3, <4>1, <4>2, HostRunSent
    <3> QED BY <3>2, <3>3
  <2> QED BY <1>7, <2>2, <2>4, <2>5, <2>6, <2>7, <2>8, <2>9 DEF Inv, DomainRuns, HostRuns
<1>13. \/ Quit
       \/ /\ UNCHANGED <<pc, todo>> /\ (plan' = Tail(plan) \/ (plan' = <<>> /\ c.onError = "skip"))
          /\ (Succeeds(c) => plan' = Tail(plan)) /\ (FailsOf(c) => c.onError # "stop")
  <2>1. CASE Succeeds(c) /\ ~ FailsOf(c)
    BY <2>1 DEF Succeeds
  <2>2. CASE FailsOf(c)
    BY <2>2 DEF FailsOf, Succeeds
  <2> QED BY <1>2, <2>1, <2>2
<1> QED BY <1>11, <1>12, <1>13

-----------------------------------------------------------------------------
(* Every step *)

LEMMA InvNext ==
  ASSUME Inv, [Next]_vars
  PROVE  Inv'
<1>1. CASE UNCHANGED vars
  BY <1>1, InvStuttering
<1>2. CASE StartRun \/ NextPhase \/ SendCommand \/ Cleanup \/ Die \/ HandlePolls
  BY <1>2, InvStartRun, InvNextPhase, InvSendCommand, InvCleanup, InvDie, InvHandlePolls
<1>3. ASSUME NEW h \in Hosts,
             \/ VerifyHost(h) \/ GetHostExistance(h) \/ GetHostInfo(h)
             \/ HostUpdate(h) \/ PushHosts(h)
      PROVE  Inv'
  BY <1>3, InvVerifyHost, InvGetHostExistance, InvGetHostInfo, InvHostUpdate, InvPushHosts
<1>4. ASSUME NEW d \in Domains,
             \/ VerifyDomain(d) \/ GetDomainExistance(d) \/ GetDomainInfo(d)
             \/ DomainTransferInRequests(d) \/ DomainUpdate(d) \/ PushDomains(d)
      PROVE  Inv'
  BY <1>4, InvVerifyDomain, InvGetDomainExistance, InvGetDomainInfo, InvDomainTransferInRequests,
     InvDomainUpdate, InvPushDomains
<1>5. CASE Others
  BY <1>5, InvApproved, InvUpdateHoldStatus, InvCheckUpdate, InvOtherRegistrar,
     InvFlagDomainsRequiringRenewal DEF Others
<1> QED BY <1>1, <1>2, <1>3, <1>4, <1>5 DEF Next, Provisioner, Phases

(* What the commands still to be sent for an object make of what the       *)
(* registry holds of it is what was verified: the inductive invariant of a *)
(* run, phase by phase (main.go, phases 1 to 8).                           *)
THEOREM Invariance == Spec => []Inv
  BY InitInv, InvNext, PTL DEF Spec

-----------------------------------------------------------------------------
(* What a run has done once it is past an object *)

LEMMA BecomesWithout ==
  ASSUME NEW S, S = {}, NEW set, NEW ops
  PROVE  Becomes(set, S, ops) = set
  BY AddsOfNone, RemsOfNone DEF Becomes

LEMMA DomainAsVerified ==
  ASSUME Inv, plan = <<>>, NEW d \in VerifiedDomains, Past(10, d), Calm(d)
  PROVE  DomainMatches(d, verified[d].rev)
<1>1. DomainBecomes(d)
  BY DEF Inv, DomainRuns, DomainRun
<1>2. verified[d].rev.desired \in {"active", "inactive", "external"}
  <2>1. verified[d].rev \in DomainRevision
    BY RevisionsAssumption DEF VerifiedDomains, Inv, Types, RunTypes, Objects
  <2> QED BY <2>1 DEF DomainRevision
<1>3. /\ \A op : ~ Sends(op, d)
      /\ \A set, ops : Becomes(set, PlanFor(d), ops) = set
  BY NoPlanNow, BecomesWithout
<1>4. CASE Wants(d, "active")
  BY <1>1, <1>3, <1>4 DEF DomainBecomes, ActiveDomainBecomes, DomainMatches, Wants
<1>5. CASE Wants(d, "inactive")
  BY <1>1, <1>3, <1>5 DEF DomainBecomes, DomainMatches, Wants
<1>6. CASE Wants(d, "external")
  BY <1>1, <1>3, <1>6 DEF DomainBecomes, DomainMatches, Wants
<1> QED BY <1>2, <1>4, <1>5, <1>6 DEF Wants

LEMMA HostAsVerified ==
  ASSUME Inv, plan = <<>>, NEW h \in VerifiedHosts, Past(9, h), Calm(h), ~ LeftAlone(h)
  PROVE  /\ Wants(h, "active") => registry[h].exists
         /\ Wants(h, "inactive") => ~ registry[h].exists
         /\ Wants(h, "active") \/ Wants(h, "inactive")
         /\ avail[h] = "no" /\ "serverUpdate" \notin registry[h].statuses =>
              HostMatches(h, verified[h].rev)
<1>1. HostBecomes(h)
  BY DEF Inv, HostRuns, HostRun
<1>2. verified[h].rev.desired \in {"active", "inactive"}
  <2>1. verified[h].rev \in HostRevision
    BY RevisionsAssumption DEF VerifiedHosts, Inv, Types, RunTypes, Objects
  <2> QED BY <2>1 DEF HostRevision
<1>3. /\ \A op : ~ Sends(op, h)
      /\ \A set, ops : Becomes(set, PlanFor(h), ops) = set
  BY NoPlanNow, BecomesWithout
<1>4. /\ Wants(h, "active") => registry[h].exists
      /\ Wants(h, "inactive") => ~ registry[h].exists
  BY <1>1, <1>3 DEF HostBecomes
<1>5. ASSUME avail[h] = "no", "serverUpdate" \notin registry[h].statuses, Wants(h, "active")
      PROVE  HostMatches(h, verified[h].rev)
  BY <1>1, <1>3, <1>4, <1>5 DEF HostBecomes, ActiveHostBecomes, HostMatches, Wants
<1>6. ASSUME Wants(h, "inactive") PROVE HostMatches(h, verified[h].rev)
  BY <1>4, <1>6 DEF HostMatches, Wants
<1> QED BY <1>2, <1>4, <1>5, <1>6 DEF Wants

LEMMA AtTheEnd ==
  ASSUME Inv, pc = "cleanup", completed
  PROVE  /\ plan = <<>> /\ \A k \in 1 .. 12 : \A o : Past(k, o)
<1>1. plan = <<>>
  BY DEF Inv, PlanFits, Ops
<1> QED BY <1>1, Stages DEF Past

(* A completed run leaves the registry with what was verified, for every   *)
(* object nothing went wrong with but the hosts of a domain that is to be  *)
(* external, whatever is approved meanwhile and whatever the runs before it *)
(* did (main.go, phases 1 to 8).                                           *)
THEOREM CompletedMatchesHolds == Spec => []CompletedMatches
<1>1. ASSUME Inv, pc = "cleanup", completed
      PROVE  /\ \A d \in VerifiedDomains : Calm(d) => DomainMatches(d, verified[d].rev)
             /\ \A h \in VerifiedHosts :
                  /\ Calm(h) /\ avail[h] # "yes" /\ ~ LeftAlone(h)
                  /\ "serverUpdate" \notin registry[h].statuses
                  => HostMatches(h, verified[h].rev)
  <2>1. plan = <<>> /\ \A o : Past(5, o) /\ Past(9, o) /\ Past(10, o)
    BY <1>1, AtTheEnd
  <2>2. \A h \in VerifiedHosts : avail[h] \in {"yes", "no"}
    BY <1>1, <2>1 DEF Inv, HostRuns, HostRun, HostKnown
  <2> QED BY <1>1, <2>1, <2>2, DomainAsVerified, HostAsVerified
<1>2. Inv => CompletedMatches
  BY <1>1 DEF CompletedMatches
<1> QED BY <1>2, Invariance, PTL

(* The update lock of a domain is back when the run has completed, however *)
(* many of its other changes failed (DomainUpdate, DomainUnlockForChange). *)
THEOREM RelockedAfterChangeHolds == Spec => []RelockedAfterChange
<1>1. ASSUME Inv, pc = "cleanup", completed, NEW d \in VerifiedDomains,
             verified[d].rev.desired = "active", "clientUpdate" \in verified[d].rev.statuses,
             {<<"addStatuses", d>>, <<"registry", d>>} \cap mishaps = {}
      PROVE  "clientUpdate" \in registry[d].statuses
  <2>1. plan = <<>> /\ Past(10, d)
    BY <1>1, AtTheEnd
  <2>2. Relocks(d)
    BY <1>1, <2>1 DEF Inv, DomainRuns, DomainRun
  <2>3. PlanFor(d) = {}
    BY <2>1, NoPlanNow
  <2>4. "clientUpdate" \notin Adds(PlanFor(d), StatusOps)
    BY <2>3, AddsOfNone
  <2> QED BY <1>1, <2>2, <2>4 DEF Relocks, Wants
<1>2. Inv => RelockedAfterChange
  BY <1>1 DEF RelockedAfterChange
<1> QED BY <1>2, Invariance, PTL

(* However often runs are repeated, cut off or left without an answer, no  *)
(* second year is bought for a domain (DomainRenew).                       *)
THEOREM RenewedOnceHolds == Spec => []RenewedOnce
<1>1. Inv => RenewedOnce
  BY DEF Inv
<1> QED BY <1>1, Invariance, PTL

-----------------------------------------------------------------------------
(* What no step does *)

LEMMA RegistryKept ==
  ASSUME [Next]_vars, ~ SendCommand, \A d \in Domains : ~ OtherRegistrar(d)
  PROVE  registry' = registry
<1>1. CASE UNCHANGED vars
  BY <1>1 DEF vars, registryVars
<1>2. CASE StartRun \/ NextPhase \/ Cleanup \/ Die \/ HandlePolls
  BY <1>2 DEF StartRun, NextPhase, Cleanup, Die, HandlePolls, registryVars
<1>3. ASSUME NEW h \in Hosts,
             \/ VerifyHost(h) \/ GetHostExistance(h) \/ GetHostInfo(h)
             \/ HostUpdate(h) \/ PushHosts(h)
      PROVE  registry' = registry
  BY <1>3 DEF VerifyHost, Verify, GetHostExistance, GetHostInfo, HostUpdate, PushHosts, Push, Send,
     registryVars
<1>4. ASSUME NEW d \in Domains,
             \/ VerifyDomain(d) \/ GetDomainExistance(d) \/ GetDomainInfo(d)
             \/ DomainTransferInRequests(d) \/ DomainUpdate(d) \/ PushDomains(d)
      PROVE  registry' = registry
  BY <1>4 DEF VerifyDomain, Verify, GetDomainExistance, GetDomainInfo, DomainTransferInRequests,
     DomainUpdate, PushDomains, Push, Send, registryVars
<1>5. CASE Others
  BY <1>5 DEF Others, Approved, UpdateHoldStatus, CheckUpdate, FlagDomainsRequiringRenewal,
     registryVars
<1> QED BY <1>1, <1>2, <1>3, <1>4, <1>5 DEF Next, Provisioner, Phases

(* A command that takes the last name servers off a domain is the removal  *)
(* of the old ones, when the new ones were there already.                  *)
LEMMA LastNameServers ==
  ASSUME Inv, SendCommand, NEW d \in Domains,
         registry[d].exists, registry[d].hosts # {}, registry'[d].hosts = {}
  PROVE  verified[d].rev.hosts = {} \/ <<"addHosts", d>> \in mishaps
<1>1. PICK c : c = Head(plan)
  OBVIOUS
<1>2. plan # <<>> /\ (Succeeds(c) \/ FailsOf(c))
  BY <1>1, SendFacts
<1> DEFINE S == ToSet(Tail(plan))
<1>3. /\ ToSet(plan) = S \cup {c} /\ \A e \in S : Follows(c, e)
      /\ PlanFor(c.on) = ToSet(plan)
      /\ pc \in DOMAIN Ops /\ c.op \in Ops[pc] /\ Wellformed(c)
      /\ IF pc = "polls" THEN c.on \in Domains ELSE Suits(c)
  BY <1>1, <1>2, FirstCommand DEF Inv
<1>4. /\ pc \in HostPhases => c.on \in Hosts /\ c.op \in HostOps
      /\ pc \notin HostPhases => c.on \in Domains /\ c.op \in DomainOps
  BY <1>3, WhoseCommand
<1>5. CarriedOut(c) \/ UNCHANGED registryVars
  BY <1>2 DEF Succeeds, FailsOf
<1>6. /\ \A o \in Objects : o # c.on => registry'[o] = registry[o]
      /\ registry' = registry \/ CarriedOut(c)
      /\ CarriedOut(c) /\ c.on \in Domains => ChangesDomain(c, registry[c.on], registry'[c.on])
  BY <1>3, <1>4, <1>5, SentRegistry
<1>7. c.on = d /\ CarriedOut(c) /\ ChangesDomain(c, registry[d], registry'[d])
  <2>1. d \in Objects
    BY DEF Objects
  <2> QED BY <1>6, <2>1
<1>8. c.op # "create"
  BY <1>7 DEF CarriedOut, Accepts
<1>9. c.op \in NameServerOps /\ registry'[d].hosts = Edit(registry[d].hosts, c.arg)
  BY <1>7, <1>8 DEF ChangesDomain
<1>10. c.op = "remHosts" /\ pc = "domainUpdate" /\ c.arg.add = {}
  <2>1. c.op # "addHosts"
    BY <1>3, <1>9 DEF Wellformed, Edit
  <2> QED BY <1>3, <1>9, <2>1 DEF NameServerOps, Ops, Wellformed
<1>11. d \in VerifiedDomains /\ d \notin todo
  BY <1>3, <1>7, <1>10 DEF Suits, HostPhases
<1>12. Delegates(d)
  <2>1. Past(10, d)
    BY <1>10, <1>11, Stages DEF Past
  <2> QED BY <1>11, <2>1 DEF Inv, DomainRuns, DomainRun
<1>13. c \in PlanFor(d) /\ \A e \in PlanFor(d) : e.op \in NameServerOps => e.arg.add = {}
  <2>1. \A e \in ToSet(plan) : Wellformed(e)
    BY DEF Inv, PlanFits
  <2>2. \A e \in S : e.op # "addHosts"
    BY <1>3, <1>10 DEF Follows
  <2>3. \A e \in S : e.op \in NameServerOps => e.arg.add = {}
    BY <1>3, <2>1, <2>2 DEF Wellformed, NameServerOps
  <2> QED BY <1>3, <1>7, <1>10, <2>3
<1>14. Adds(PlanFor(d), NameServerOps) = {}
  BY <1>13 DEF Adds
<1>15. c.arg.rem \subseteq Rems(PlanFor(d), NameServerOps)
  BY <1>9, <1>13 DEF Rems
<1>16. CASE <<"addHosts", d>> \notin mishaps
  <2>1. Sends("remHosts", d)
    BY <1>10, <1>13 DEF Sends
  <2>2. /\ verified[d].rev.hosts \subseteq registry[d].hosts
        /\ verified[d].rev.hosts \cap c.arg.rem = {}
    BY <1>12, <1>14, <1>15, <1>16, <2>1 DEF Delegates
  <2>3. verified[d].rev.hosts \subseteq registry'[d].hosts
    BY <1>9, <2>2 DEF Edit
  <2> QED BY <2>3
<1> QED BY <1>16

(* The new name servers are added before the old ones go: no step leaves a *)
(* registered domain that is to have name servers without any, unless the  *)
(* command that adds them failed (DomainUpdate).                           *)
THEOREM NeverUndelegatedHolds == Spec => NeverUndelegated
<1>1. ASSUME Inv, [Next]_vars, NEW d \in Domains,
             registry[d].exists, registry[d].hosts # {},
             registry'[d].exists, registry'[d].hosts = {}
      PROVE  verified[d].rev.hosts = {} \/ <<"addHosts", d>> \in mishaps
  <2>1. CASE SendCommand
    BY <1>1, <2>1, LastNameServers
  <2>2. ASSUME NEW x \in Domains, OtherRegistrar(x) PROVE registry'[d].hosts = registry[d].hosts
    <3>1. /\ \A o \in Objects : registry[o] = registry[o]
          /\ DOMAIN registry = Objects /\ d \in Objects
          /\ registry[d] \in DomainObject
      BY <1>1 DEF Inv, Types, RegistryTypes, Objects
    <3>2. \/ registry' = [registry EXCEPT ![x].transfer = "out"]
          \/ registry' = [registry EXCEPT ![x].transfer = "none", ![x].sponsor = "us"]
      BY <2>2 DEF OtherRegistrar, TransferRequested, TransferredIn
    <3> QED BY <3>1, <3>2 DEF DomainObject
  <2> QED BY <1>1, <2>1, <2>2, RegistryKept
<1>2. Inv /\ [Next]_vars =>
        [\A d \in Domains :
           /\ registry[d].exists /\ registry[d].hosts # {}
           /\ registry'[d].exists /\ registry'[d].hosts = {}
           => \/ verified[d].rev.hosts = {}
              \/ <<"addHosts", d>> \in mishaps]_vars
  BY <1>1
<1> QED BY <1>2, Invariance, PTL DEF Spec, NeverUndelegated

LEMMA ChecksKept ==
  ASSUME Inv, [Next]_vars, \A h \in Hosts : ~ VerifyHost(h) /\ ~ PushHosts(h),
         \A d \in Domains : ~ PushDomains(d), NEW o \in Objects, row[o].check
  PROVE  row'[o].check
<1>1. DOMAIN row = Objects /\ row[o] \in Row
  BY DEF Inv, Types, RowTypes
<1>2. CASE UNCHANGED vars
  BY <1>2 DEF vars
<1>3. CASE StartRun \/ NextPhase \/ SendCommand \/ Cleanup \/ Die \/ HandlePolls
  BY <1>3 DEF StartRun, NextPhase, SendCommand, Cleanup, Die, HandlePolls
<1>4. ASSUME NEW h \in Hosts, GetHostExistance(h) \/ GetHostInfo(h) \/ HostUpdate(h)
      PROVE  row' = row
  BY <1>4 DEF GetHostExistance, GetHostInfo, HostUpdate, Send
<1>5. ASSUME NEW d \in Domains,
             \/ VerifyDomain(d) \/ GetDomainExistance(d) \/ GetDomainInfo(d)
             \/ DomainTransferInRequests(d) \/ DomainUpdate(d)
      PROVE  row' = row
  BY <1>5 DEF VerifyDomain, GetDomainExistance, GetDomainInfo, DomainTransferInRequests,
     DomainUpdate, Send
<1>6. ASSUME NEW x \in Objects, Approved(x) \/ UpdateHoldStatus(x) \/ CheckUpdate(x)
      PROVE  row'[o].check
  <2>1. row[x] \in Row
    BY DEF Inv, Types, RowTypes
  <2>2. CASE Approved(x)
    <3>1. PICK rev : row' = [row EXCEPT ![x].rev = rev, ![x].check = TRUE]
      BY <2>2 DEF Approved
    <3>2. row' = [row EXCEPT ![x] = [row[x] EXCEPT !.rev = rev, !.check = TRUE]]
      BY <1>1, <3>1
    <3>3. [row[x] EXCEPT !.rev = rev, !.check = TRUE].check
      BY <2>1 DEF Row
    <3> QED BY <1>1, <3>2, <3>3
  <2>3. CASE UpdateHoldStatus(x)
    <3>1. row' = [row EXCEPT ![x] = [row[x] EXCEPT !.hold = ~ @]]
      BY <1>1, <2>3 DEF UpdateHoldStatus
    <3>2. [row[x] EXCEPT !.hold = ~ @].check = row[x].check
      BY <2>1 DEF Row
    <3> QED BY <1>1, <3>1, <3>2
  <2>4. CASE CheckUpdate(x)
    <3>1. row' = [row EXCEPT ![x] = [row[x] EXCEPT !.check = TRUE]]
      BY <1>1, <2>4 DEF CheckUpdate
    <3>2. [row[x] EXCEPT !.check = TRUE].check
      BY <2>1 DEF Row
    <3> QED BY <1>1, <3>1, <3>2
  <2> QED BY <1>6, <2>2, <2>3, <2>4
<1>7. CASE FlagDomainsRequiringRenewal
  BY <1>1, <1>7 DEF FlagDomainsRequiringRenewal, Row
<1>8. ASSUME NEW d \in Domains, OtherRegistrar(d) PROVE row' = row
  BY <1>8 DEF OtherRegistrar
<1> QED BY <1>2, <1>3, <1>4, <1>5, <1>6, <1>7, <1>8 DEF Next, Provisioner, Phases, Others

(* What a push may take a check off.                                       *)
LEMMA PushedRow ==
  ASSUME Inv, NEW phase, NEW x \in Objects, NEW new, Push(phase, x, new),
         NEW o \in Objects, row[o].check, ~ row'[o].check
  PROVE  /\ o = x /\ ~ new.check /\ Take(phase, x)
<1>1. DOMAIN row = Objects /\ (row' = row \/ row' = [row EXCEPT ![x] = new]) /\ Take(phase, x)
  BY DEF Inv, Types, RowTypes, Push
<1> QED BY <1>1

LEMMA ClearedDomain ==
  ASSUME Inv, NEW x \in Domains, PushDomains(x),
         NEW o \in Objects, row[o].check, ~ row'[o].check, Calm(o)
  PROVE  Provisioned(o) \/ ClearedUnseen(o)
<1> DEFINE new == IF info[x] = Nothing THEN UnsetCheck(x) ELSE DomainLoadEPPInfo(x, x, info[x])
<1>1. o = x /\ ~ new.check /\ Take("pushDomains", x) /\ x \in Objects
  <2>1. x \in Objects /\ Push("pushDomains", x, new)
    BY DEF PushDomains, Objects
  <2> HIDE DEF new
  <2> QED BY <2>1, PushedRow
<1>2. x \in VerifiedDomains /\ plan = <<>> /\ Past(10, x)
  <2>1. pc = "pushDomains" /\ Stage = 11
    BY <1>1, Stages DEF Take
  <2>2. x \in VerifiedDomains /\ plan = <<>>
    BY <1>1, <2>1, PhaseFacts
  <2> QED BY <2>1, <2>2 DEF Past
<1>3. info[x] = Nothing
  BY <1>1 DEF DomainLoadEPPInfo
<1>4. CASE <<"approved", x>> \in mishaps
  BY <1>1, <1>3, <1>4 DEF ClearedUnseen
<1>5. CASE <<"approved", x>> \notin mishaps
  <2>1. row[x].rev = verified[x].rev
    BY <1>1, <1>2, <1>5 DEF Inv, AsApproved, VerifiedDomains
  <2> QED BY <1>1, <1>2, <2>1, DomainAsVerified DEF Provisioned
<1> QED BY <1>4, <1>5

LEMMA ClearedHost ==
  ASSUME Inv, NEW x \in Hosts, PushHosts(x),
         NEW o \in Objects, row[o].check, ~ row'[o].check, Calm(o)
  PROVE  Provisioned(o) \/ ClearedUnseen(o)
<1> DEFINE new == IF info[x] = Nothing THEN UnsetCheck(x) ELSE HostLoadEPPInfo(x, info[x])
           rev == row[x].rev
           r == registry[x]
<1>1. o = x /\ ~ new.check /\ Take("pushHosts", x) /\ x \in Objects /\ x \notin Domains
  <2>1. x \in Objects /\ Push("pushHosts", x, new)
    BY DEF PushHosts, Objects
  <2> HIDE DEF new
  <2> QED BY <2>1, PushedRow, DisjointAssumption
<1>2. x \in VerifiedHosts /\ plan = <<>> /\ Past(9, x) /\ Past(7, x)
  <2>1. pc = "pushHosts" /\ Stage = 12
    BY <1>1, Stages DEF Take
  <2>2. x \in VerifiedHosts /\ plan = <<>>
    BY <1>1, <2>1, PhaseFacts
  <2> QED BY <2>1, <2>2 DEF Past
<1>3. /\ row[x] \in Row /\ rev.desired \in {"active", "inactive"} /\ r # Nothing
      /\ Calm(x) /\ row[x].check
  <2>1. row[x] \in Row /\ rev \in HostRevision /\ r # Nothing
    BY <1>1, NothingAssumption, RevisionsAssumption DEF Inv, Types, RegistryTypes, RowTypes
  <2> QED BY <1>1, <2>1 DEF HostRevision
<1>4. info[x] = IF r.exists THEN r ELSE Nothing
  BY <1>1, <1>2, NoPlanNow DEF Inv, HostRuns, HostRun, HostInformed
<1>5. CASE info[x] # Nothing /\ rev.desired = "active"
  <2>1. info[x] = r /\ r.exists
    BY <1>3, <1>4, <1>5
  <2>2. HostEPPMatchesExpected(r, rev)
    BY <1>1, <1>3, <1>5, <2>1 DEF HostLoadEPPInfo, Row
  <2> QED BY <1>1, <1>5, <2>1, <2>2 DEF HostEPPMatchesExpected, HostMatches, Provisioned
<1>6. CASE <<"approved", x>> \notin mishaps /\ ~ LeftAlone(x)
  <2>1. rev = verified[x].rev
    BY <1>1, <1>2, <1>6 DEF Inv, AsApproved, VerifiedHosts
  <2>2. /\ rev.desired = "active" => r.exists
        /\ rev.desired # "active" => ~ r.exists
    BY <1>2, <1>3, <1>6, <2>1, HostAsVerified DEF Wants
  <2> QED BY <1>1, <1>3, <1>4, <1>5, <2>2 DEF HostMatches, Provisioned
<1>7. CASE /\ <<"approved", x>> \in mishaps \/ LeftAlone(x)
           /\ info[x] = Nothing \/ rev.desired = "inactive"
  BY <1>1, <1>7 DEF ClearedUnseen
<1> QED BY <1>3, <1>5, <1>6, <1>7

(* A check is only taken off an object the registry holds as its current   *)
(* revision says, one approved in the middle of the run included, unless   *)
(* something went wrong with it in that run or it was cleared unseen       *)
(* (PushDomains, PushHosts, LoadEPPInfo).                                  *)
THEOREM ClearedWhenProvisionedHolds == Spec => ClearedWhenProvisioned
<1>1. ASSUME Inv, [Next]_vars, NEW o \in Objects, row[o].check, ~ row'[o].check
      PROVE  \/ ~ Calm(o) \/ Provisioned(o)
             \/ o \in Hosts /\ Parent[o] = NoParent
             \/ ClearedUnseen(o)
  <2>1. ASSUME NEW h \in Hosts, VerifyHost(h) PROVE o \in Hosts /\ Parent[o] = NoParent
    <3>1. DOMAIN row = Objects /\ h \in Objects
      BY <1>1 DEF Inv, Types, RowTypes, Objects
    <3> QED BY <1>1, <2>1, <3>1 DEF VerifyHost
  <2> QED BY <1>1, <2>1, ChecksKept, ClearedDomain, ClearedHost
<1>2. Inv /\ [Next]_vars =>
        [\A o \in Objects :
           row[o].check /\ ~ row'[o].check =>
             \/ ~ Calm(o) \/ Provisioned(o)
             \/ o \in Hosts /\ Parent[o] = NoParent
             \/ ClearedUnseen(o)]_vars
  BY <1>1
<1> QED BY <1>2, Invariance, PTL DEF Spec, ClearedWhenProvisioned
=============================================================================
