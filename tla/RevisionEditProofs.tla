-------------------------- MODULE RevisionEditProofs --------------------------
(***************************************************************************)
(* Proofs about RevisionEdit, for any kinds and forms, any number of       *)
(* requests at a time, and any mix of crashes, refused statements and      *)
(* requests that overtake each other.                                      *)
(***************************************************************************)
EXTENDS RevisionEdit, FiniteSetTheorems, FunctionTheorems, TLAPS

(* What a row can be worth: that it names an object, or what a form says. *)
Worth == {"object"} \cup UNION {form.addresses \cup form.ds : form \in Forms}

(* A list of objects names them; a list that a revision owns may hold items *)
(* that have no row yet.                                                    *)
Named == [id : Nat \ {0}, value : {"object"}]
ItemsOf(list) == IF list \in Owned THEN [id : Nat, value : Worth] ELSE Named

Revisions ==
  {r \in [st : {"new", "pendingapproval", "active"},
          text : {form.text : form \in Forms},
          class : {form.class : form \in Forms},
          lists : [Lists -> SUBSET (Named \cup [id : Nat, value : Worth])]] :
     \A l \in Lists : r.lists[l] \subseteq ItemsOf(l)}

EditJobs ==
  [does : {"edit"}, form : Forms, mem : Revisions, at : 1 .. Len(Updates) + 1,
   cleared : BOOLEAN, items : SUBSET Named]
StartJobs == [does : {"start"}, mem : Revisions]

(* An edit has items left to add only while it is at a list of objects. *)
InOrder(job) ==
  /\ job.cleared =>
       /\ job.at \in DOMAIN Updates
       /\ Updates[job.at] \notin Owned
  /\ ~job.cleared => job.items = {}

TypeOK ==
  /\ kind \in Kinds
  /\ row \in Revisions
  /\ nextRow \in Nat \ {0}
  /\ jobs \in [Requests -> {Idle} \cup EditJobs \cup StartJobs]
  /\ \A q \in Edits : InOrder(jobs[q])
  /\ seen \subseteq Revisions
  /\ told \subseteq Forms

-----------------------------------------------------------------------------
(* The rows that a revision owns *)

(* The revisions that somebody holds. *)
Held == {row} \cup seen \cup {jobs[q].mem : q \in Busy}

(* Two items with the ID of one row are that row, and the row is made. *)
Rows(l) == UNION {r.lists[l] : r \in Held}
Known(rows, next) ==
  \A x, y \in rows :
    x.id < next /\ (x.id # 0 /\ x.id = y.id => x.value = y.value)
RowsKnown == \A l \in Owned \cap Lists : Known(Rows(l), nextRow)

(* What is in the database or was shown to an approver has its rows. *)
RowsMade ==
  \A l \in Owned \cap Lists : \A r \in {row} \cup seen :
    \A x \in r.lists[l] : x.id # 0

(* There are finitely many rows to make. *)
FewNew(r) == \A l \in Owned \cap Lists : IsFiniteSet(New(r.lists[l]))
NewFinite == \A q \in Busy : FewNew(jobs[q].mem)

-----------------------------------------------------------------------------
(* The approver sets that must approve *)

HasOne(items) == \E x \in items : x.id = 1
OneKept(r) == r.lists.required = {} \/ HasOne(r.lists.required)

(* An edit that fills the list has added set 1, or has yet to. *)
OneComes(job, r) ==
  job.cleared /\ Updates[job.at] = "required" =>
    HasOne(job.items) \/ HasOne(r.lists.required)

OneInForce ==
  "edits" \notin trouble =>
    /\ \A p, q \in Edits : p = q
    /\ OneKept(row)
    /\ \A q \in Busy : OneKept(jobs[q].mem)
    /\ \A q \in Edits : OneComes(jobs[q], row) /\ OneComes(jobs[q], jobs[q].mem)

-----------------------------------------------------------------------------
(* An edit that nothing disturbs *)

(* What an edit has done of its form: the lists it is through with, and the *)
(* one it is at.                                                            *)
Through(job, l) ==
  /\ job.mem.lists[l] = Parsed(job.form, l)
  /\ row.lists[l] = IF l \in Owned THEN {} ELSE Parsed(job.form, l)
Within(job, l) ==
  /\ row.lists[l] = job.mem.lists[l]
  /\ job.mem.lists[l] \cup job.items = Parsed(job.form, l)
Follows(job) ==
  /\ job.mem.text = job.form.text /\ job.mem.class = job.form.class
  /\ \A i \in DOMAIN Updates :
       /\ i < job.at => Through(job, Updates[i])
       /\ job.cleared /\ i = job.at => Within(job, Updates[i])

Undisturbed ==
  trouble = {} =>
    /\ \A p, q \in Busy : p = q
    /\ Edits = {} => \E form \in told : Carries(row, form)
    /\ \A q \in Busy \ Edits :
         jobs[q].mem = [row EXCEPT !.st = "pendingapproval"]
    /\ \A q \in Edits : Follows(jobs[q])

Inv ==
  /\ TypeOK /\ RowsKnown /\ RowsMade /\ NewFinite
  /\ OneInForce /\ Undisturbed

-----------------------------------------------------------------------------
(* Kinds and their lists *)

LEMMA KindsHaveLists ==
  ASSUME kind \in Kinds
  PROVE  /\ "required" \in Lists /\ Updates \in Seq(Lists)
         /\ "required" \notin Owned /\ "approvers" \notin Owned
         /\ \A l \in Lists : \E i \in DOMAIN Updates : Updates[i] = l
         /\ \A i, j \in DOMAIN Updates : Updates[i] = Updates[j] => i = j
         /\ \A k, l \in Owned \cap Lists : k = l
<1>1. kind \in AllKinds
  BY RevisionKinds
<1>2. CASE kind = "domain"
  <2>1. Lists = {"ds", "required", "informed", "hostnames"} /\ Updates = <<"ds", "required", "informed", "hostnames">>
    BY <1>2 DEF Lists, Updates, DomainRevisionLists, DomainRevisionUpdate
  <2>2. QED
    BY <2>1 DEF Owned
<1>3. CASE kind = "host"
  <2>1. Lists = {"required", "informed", "addresses"} /\ Updates = <<"required", "informed", "addresses">>
    BY <1>3 DEF Lists, Updates, HostRevisionLists, HostRevisionUpdate
  <2>2. QED
    BY <2>1 DEF Owned
<1>4. CASE kind = "contact"
  <2>1. Lists = {"required", "informed"} /\ Updates = <<"required", "informed">>
    BY <1>4 DEF Lists, Updates, ContactRevisionLists, ContactRevisionUpdate
  <2>2. QED
    BY <2>1 DEF Owned
<1>5. CASE kind = "apiuser"
  <2>1. Lists = {"required", "informed"} /\ Updates = <<"required", "informed">>
    BY <1>5 DEF Lists, Updates, APIUserRevisionLists, APIUserRevisionUpdate
  <2>2. QED
    BY <2>1 DEF Owned
<1>6. CASE kind = "approver"
  <2>1. Lists = {"required", "informed"} /\ Updates = <<"required", "informed">>
    BY <1>6 DEF Lists, Updates, ApproverRevisionLists, ApproverRevisionUpdate
  <2>2. QED
    BY <2>1 DEF Owned
<1>7. CASE kind = "approverset"
  <2>1. Lists = {"approvers", "required", "informed"} /\ Updates = <<"approvers", "required", "informed">>
    BY <1>7 DEF Lists, Updates, ApproverSetRevisionLists, ApproverSetRevisionUpdate
  <2>2. QED
    BY <2>1 DEF Owned
<1>8. QED
  BY <1>1, <1>2, <1>3, <1>4, <1>5, <1>6, <1>7 DEF AllKinds

LEMMA UpdatesAreLists ==
  ASSUME kind \in Kinds
  PROVE  /\ DOMAIN Updates = 1 .. Len(Updates) /\ Len(Updates) \in Nat \ {0}
         /\ \A i \in DOMAIN Updates : Updates[i] \in Lists
BY KindsHaveLists

LEMMA ListsStay ==
  ASSUME kind' = kind
  PROVE  /\ Lists' = Lists /\ Updates' = Updates
         /\ Revisions' = Revisions /\ EditJobs' = EditJobs /\ StartJobs' = StartJobs
<1>1. Lists' = Lists /\ Updates' = Updates
  BY DEF Lists, Updates
<1>2. Revisions' = Revisions
  BY <1>1 DEF Revisions
<1>3. QED
  BY <1>1, <1>2 DEF EditJobs, StartJobs

(* What a form says of a list can be in it. *)
LEMMA FormsSay ==
  ASSUME kind \in Kinds, NEW form \in Forms, NEW l \in Lists
  PROVE  /\ Parsed(form, l) \subseteq ItemsOf(l)
         /\ l \in Owned => IsFiniteSet(New(Parsed(form, l)))
         /\ l \in Owned => \A x \in Parsed(form, l) : x.id = 0
<1>0. kind \in AllKinds
  BY RevisionKinds
<1>1. l \in {"required", "informed", "hostnames", "approvers", "addresses", "ds"}
  BY <1>0 DEF AllKinds, Lists, DomainRevisionLists, HostRevisionLists,
     ContactRevisionLists, APIUserRevisionLists, ApproverRevisionLists,
     ApproverSetRevisionLists
<1>2. CASE l \notin Owned
  <2>1. \A ids \in SUBSET (Nat \ {0}) : Objects(ids) \subseteq Named
    BY DEF Objects, Named
  <2>2. form.required \cup {1} \in SUBSET (Nat \ {0})
    BY FormsNameObjects
  <2>3. Parsed(form, l) \subseteq Named
    BY <1>1, <1>2, <2>1, <2>2, FormsNameObjects DEF Parsed, ParseApproverSets, Owned
  <2>4. QED
    BY <2>3, <1>2 DEF ItemsOf
<1>3. CASE l \in Owned
  <2>1. PICK values : /\ values \in {form.addresses, form.ds}
                      /\ Parsed(form, l) = {[id |-> 0, value |-> v] : v \in values}
    BY <1>3 DEF Owned, Parsed
  <2>2. values \subseteq Worth /\ IsFiniteSet(values)
    BY <2>1, FormsNameObjects DEF Worth
  <2>3. Parsed(form, l) \subseteq ItemsOf(l) /\ \A x \in Parsed(form, l) : x.id = 0
    BY <1>3, <2>1, <2>2 DEF ItemsOf
  <2>4. New(Parsed(form, l)) = {[id |-> 0, value |-> v] : v \in values}
    BY <2>1 DEF New
  <2>5. IsFiniteSet({[id |-> 0, value |-> v] : v \in values})
    <3> DEFINE f == [v \in values |-> [id |-> 0, value |-> v]]
    <3>1. Range(f) = {[id |-> 0, value |-> v] : v \in values}
      BY DEF Range
    <3>2. f \in Surjection(values, Range(f))
      BY DEF Surjection, Range
    <3> HIDE DEF f
    <3>3. QED
      BY <3>1, <3>2, <2>2, FS_Surjection DEF ExistsSurjection
  <2>6. QED
    BY <2>3, <2>4, <2>5
<1>4. QED
  BY <1>2, <1>3

-----------------------------------------------------------------------------
(* New rows *)

(* New items get different numbers, all of those from "next" on. *)
LEMMA Numbered ==
  ASSUME NEW S, IsFiniteSet(S), NEW next \in Nat
  PROVE  /\ Cardinality(S) \in Nat
         /\ Numbers(S, next) \in [S -> next .. (next + Cardinality(S) - 1)]
         /\ \A x, y \in S : Numbers(S, next)[x] = Numbers(S, next)[y] => x = y
<1> DEFINE n == Cardinality(S)
<1>1. n \in Nat /\ ExistsBijection(1 .. n, S)
  BY FS_CardinalityType
<1>2. PICK g : g \in Bijection(1 .. n, S)
  BY <1>1 DEF ExistsBijection
<1> DEFINE h == Inverse(g, 1 .. n, S)
<1>3. h \in Bijection(S, 1 .. n)
  BY <1>2, Fun_BijInverse
<1> HIDE DEF n, h
<1> DEFINE f == [x \in S |-> next + h[x] - 1]
<1>4. /\ h \in [S -> 1 .. n] /\ \A a, b \in S : h[a] = h[b] => a = b
      /\ \A t \in 1 .. n : \E s \in S : h[s] = t
  BY <1>3 DEF Bijection, Injection, Surjection, IsInjective
<1>5. f \in [S -> next .. (next + n - 1)]
  BY <1>1, <1>4
<1>6. IsInjective(f)
  BY <1>1, <1>4 DEF IsInjective
<1>7. ASSUME NEW t \in next .. (next + n - 1) PROVE \E s \in S : f[s] = t
  <2>1. t - next + 1 \in 1 .. n
    BY <1>1
  <2>2. PICK s \in S : h[s] = t - next + 1
    BY <2>1, <1>4
  <2>3. f[s] = t
    BY <2>2, <1>1
  <2> QED
    BY <2>3
<1>8. f \in Bijection(S, next .. (next + n - 1))
  BY <1>5, <1>6, <1>7 DEF Bijection, Injection, Surjection
<1>9. Numbers(S, next) \in Bijection(S, next .. (next + n - 1))
  BY <1>8 DEF Numbers, n
<1>10. QED
  BY <1>1, <1>9 DEF Bijection, Injection, Surjection, IsInjective, n

(* What is saved of a list: the items it has rows for stay, and a new item  *)
(* gets a row of its own.                                                   *)
LEMMA RowsMadeAnew ==
  ASSUME NEW l, NEW S, S \subseteq [id : Nat, value : Worth], IsFiniteSet(New(S)),
         NEW next \in Nat \ {0}, NEW n \in Nat, Cardinality(New(S)) <= n
  PROVE  /\ Inserted(S, next) \subseteq [id : Nat \ {0}, value : Worth]
         /\ \A x \in Inserted(S, next) :
              x \in S \/ (x.id >= next /\ x.id < next + n)
         /\ \A x, y \in Inserted(S, next) :
              x \notin S /\ y \notin S /\ x.id = y.id => x = y
         /\ {x.value : x \in Inserted(S, next)} = {x.value : x \in S}
<1> DEFINE f == Numbers(New(S), next)
           fresh == {[id |-> f[x], value |-> x.value] : x \in New(S)}
<1>1. /\ Cardinality(New(S)) \in Nat
      /\ f \in [New(S) -> next .. (next + Cardinality(New(S)) - 1)]
      /\ \A x, y \in New(S) : f[x] = f[y] => x = y
  BY Numbered
<1>2. Inserted(S, next) = (S \ New(S)) \cup fresh
  BY DEF Inserted
<1> HIDE DEF f
<1>3. \A x \in New(S) : x \in S /\ f[x] \in Nat \ {0} /\ f[x] >= next /\ f[x] < next + n
  BY <1>1 DEF New
<1>4. \A x \in S \ New(S) : x \in [id : Nat \ {0}, value : Worth]
  BY DEF New
<1>5. \A x \in fresh : /\ x \in [id : Nat \ {0}, value : Worth]
                       /\ x.id >= next /\ x.id < next + n
  BY <1>3
<1>6. \A x, y \in fresh : x.id = y.id => x = y
  BY <1>1
<1>7. {x.value : x \in (S \ New(S)) \cup fresh} = {x.value : x \in S}
  <2>1. \A x \in fresh : \E y \in S : y.value = x.value
    BY <1>3
  <2>2. \A x \in S : \E y \in (S \ New(S)) \cup fresh : y.value = x.value
    <3> SUFFICES ASSUME NEW x \in S, x \in New(S)
                 PROVE  \E y \in fresh : y.value = x.value
      OBVIOUS
    <3> WITNESS [id |-> f[x], value |-> x.value] \in fresh
    <3> QED
      OBVIOUS
  <2> HIDE DEF fresh
  <2>3. QED
    BY <2>1, <2>2
<1> HIDE DEF fresh
<1>8. QED
  BY <1>2, <1>4, <1>5, <1>6, <1>7

(* A list of objects is saved as it is. *)
LEMMA ObjectsKept ==
  ASSUME NEW S, S \subseteq Named, NEW next
  PROVE  Inserted(S, next) = S
<1>1. New(S) = {}
  BY DEF New, Named
<1>2. QED
  BY <1>1 DEF Inserted

-----------------------------------------------------------------------------
(* What the operators make of revisions and jobs *)

LEMMA PutRight ==
  ASSUME NEW r \in Revisions, NEW l \in Lists, NEW S, S \subseteq ItemsOf(l)
  PROVE  /\ Put(r, l, S) \in Revisions
         /\ Put(r, l, S).lists[l] = S
         /\ \A k \in Lists : k # l => Put(r, l, S).lists[k] = r.lists[k]
         /\ Put(r, l, S).st = r.st /\ Put(r, l, S).text = r.text
         /\ Put(r, l, S).class = r.class
<1>1. S \subseteq Named \cup [id : Nat, value : Worth]
  BY DEF ItemsOf
<1>2. QED
  BY <1>1 DEF Put, Revisions

LEMMA AddedRight ==
  ASSUME NEW r \in Revisions, NEW l \in Lists, NEW x \in ItemsOf(l)
  PROVE  /\ Added(r, l, x) = Put(r, l, r.lists[l] \cup {x})
         /\ Added(r, l, x) \in Revisions
         /\ Added(r, l, x).lists[l] = r.lists[l] \cup {x}
         /\ \A k \in Lists : k # l => Added(r, l, x).lists[k] = r.lists[k]
         /\ Added(r, l, x).text = r.text /\ Added(r, l, x).class = r.class
<1>1. r.lists[l] \cup {x} \subseteq ItemsOf(l)
  BY DEF Revisions
<1>2. QED
  BY <1>1, PutRight DEF Added

(* One conjunct at a time. *)
LEMMA AddedToList ==
  ASSUME NEW r, r \in Revisions, NEW l, l \in Lists, NEW x, x \in ItemsOf(l)
  PROVE  Added(r, l, x).lists[l] = r.lists[l] \cup {x}
<1> DEFINE S == r.lists[l] \cup {x}
<1>1. S \subseteq ItemsOf(l)
  BY DEF Revisions
<1> HIDE DEF S
<1>2. Put(r, l, S).lists[l] = S
  BY <1>1, PutRight
<1>3. QED
  BY <1>2 DEF Added, S

LEMMA AddedElsewhere ==
  ASSUME NEW r, r \in Revisions, NEW l, l \in Lists, NEW x, x \in ItemsOf(l)
  PROVE  \A k \in Lists : k # l => Added(r, l, x).lists[k] = r.lists[k]
<1> DEFINE S == r.lists[l] \cup {x}
<1>1. S \subseteq ItemsOf(l)
  BY DEF Revisions
<1> HIDE DEF S
<1>2. \A k \in Lists : k # l => Put(r, l, S).lists[k] = r.lists[k]
  BY <1>1, PutRight
<1>3. QED
  BY <1>2 DEF Added, S

LEMMA AddedText ==
  ASSUME NEW r, r \in Revisions, NEW l, l \in Lists, NEW x, x \in ItemsOf(l)
  PROVE  Added(r, l, x).text = r.text /\ Added(r, l, x).class = r.class
<1> DEFINE S == r.lists[l] \cup {x}
<1>1. S \subseteq ItemsOf(l)
  BY DEF Revisions
<1> HIDE DEF S
<1>2. Put(r, l, S).text = r.text /\ Put(r, l, S).class = r.class
  BY <1>1, PutRight
<1>3. QED
  BY <1>2 DEF Added, S

LEMMA GoOnRight ==
  ASSUME kind \in Kinds, NEW job \in EditJobs, job.at \in DOMAIN Updates,
         NEW items, items \subseteq Named, items # {} => Updates[job.at] \notin Owned
  PROVE  /\ GoOn(job, items) \in EditJobs /\ InOrder(GoOn(job, items))
         /\ GoOn(job, items).form = job.form /\ GoOn(job, items).mem = job.mem
         /\ GoOn(job, items).items = items
         /\ items = {} => /\ GoOn(job, items).at = job.at + 1
                          /\ ~GoOn(job, items).cleared
         /\ items # {} => /\ GoOn(job, items).at = job.at
                          /\ GoOn(job, items).cleared
<1>1. /\ DOMAIN Updates = 1 .. Len(Updates) /\ Len(Updates) \in Nat
      /\ job.at \in 1 .. Len(Updates)
  BY UpdatesAreLists
<1>2. CASE items = {}
  <2>1. GoOn(job, items) = [job EXCEPT !.at = @ + 1, !.cleared = FALSE, !.items = {}]
    BY <1>2 DEF GoOn
  <2>2. job.at + 1 \in 1 .. Len(Updates) + 1
    BY <1>1
  <2>3. QED
    BY <2>1, <2>2, <1>2 DEF EditJobs, InOrder
<1>3. CASE items # {}
  <2>1. GoOn(job, items) = [job EXCEPT !.cleared = TRUE, !.items = items]
    BY <1>3 DEF GoOn
  <2>2. QED
    BY <2>1, <1>3 DEF EditJobs, InOrder
<1>4. QED
  BY <1>2, <1>3

LEMMA GiveUpRight ==
  ASSUME kind \in Kinds, NEW job \in EditJobs
  PROVE  /\ GiveUp(job) \in EditJobs /\ InOrder(GiveUp(job))
         /\ GiveUp(job).form = job.form /\ GiveUp(job).mem = job.mem
         /\ ~GiveUp(job).cleared /\ GiveUp(job).items = {}
         /\ GiveUp(job).at = Len(Updates) + 1
<1>1. Len(Updates) + 1 \in 1 .. Len(Updates) + 1
  BY UpdatesAreLists
<1>2. QED
  BY <1>1 DEF GiveUp, EditJobs, InOrder

LEMMA MemoryRight ==
  ASSUME NEW job \in EditJobs, InOrder(job), NEW mem \in Revisions
  PROVE  LET J == [job EXCEPT !.mem = mem] IN
         /\ J \in EditJobs /\ InOrder(J) /\ J.mem = mem
         /\ J.form = job.form /\ J.at = job.at
         /\ J.cleared = job.cleared /\ J.items = job.items
BY DEF EditJobs, InOrder

LEMMA SavedRight ==
  ASSUME kind \in Kinds, NEW r \in Revisions, NEW mem \in Revisions, FewNew(mem),
         NEW next \in Nat \ {0}
  PROVE  /\ NewRows(mem) \in Nat
         /\ Saved(r, mem, next) \in Revisions
         /\ Saved(r, mem, next).st = mem.st /\ Saved(r, mem, next).text = mem.text
         /\ Saved(r, mem, next).class = mem.class
         /\ \A l \in Lists \ Owned :
              Saved(r, mem, next).lists[l] = r.lists[l] \cup mem.lists[l]
         /\ \A l \in Owned \cap Lists :
              /\ Saved(r, mem, next).lists[l] =
                   r.lists[l] \cup Inserted(mem.lists[l], next)
              /\ Inserted(mem.lists[l], next) \subseteq [id : Nat \ {0}, value : Worth]
              /\ \A x \in Inserted(mem.lists[l], next) :
                   \/ x \in mem.lists[l]
                   \/ x.id >= next /\ x.id < next + NewRows(mem)
              /\ \A x, y \in Inserted(mem.lists[l], next) :
                   x \notin mem.lists[l] /\ y \notin mem.lists[l] /\ x.id = y.id => x = y
              /\ {x.value : x \in Inserted(mem.lists[l], next)} =
                   {x.value : x \in mem.lists[l]}
<1> DEFINE all == UNION {mem.lists[l] : l \in Owned \cap Lists}
<1>1. \A l \in Owned \cap Lists : all = mem.lists[l]
  BY KindsHaveLists
<1>2. IsFiniteSet(New(all))
  <2>1. CASE Owned \cap Lists = {}
    <3>1. New(all) = {}
      BY <2>1 DEF New
    <3>2. QED
      BY <3>1, FS_EmptySet
  <2>2. CASE Owned \cap Lists # {}
    <3>1. PICK l \in Owned \cap Lists : TRUE
      BY <2>2
    <3>2. QED
      BY <3>1, <1>1 DEF FewNew
  <2>3. QED
    BY <2>1, <2>2
<1>3. NewRows(mem) = Cardinality(New(all))
  BY DEF NewRows
<1>4. NewRows(mem) \in Nat
  BY <1>2, <1>3, FS_CardinalityType
<1>5. \A l \in Owned \cap Lists :
        /\ IsFiniteSet(New(mem.lists[l])) /\ Cardinality(New(mem.lists[l])) <= NewRows(mem)
        /\ mem.lists[l] \subseteq [id : Nat, value : Worth]
  <2> SUFFICES ASSUME NEW l \in Owned \cap Lists
               PROVE  /\ IsFiniteSet(New(mem.lists[l]))
                      /\ Cardinality(New(mem.lists[l])) <= NewRows(mem)
                      /\ mem.lists[l] \subseteq [id : Nat, value : Worth]
    OBVIOUS
  <2>1. all = mem.lists[l]
    BY <1>1
  <2>2. Cardinality(New(mem.lists[l])) = NewRows(mem)
    BY <2>1, <1>3
  <2>3. mem.lists[l] \subseteq [id : Nat, value : Worth]
    BY DEF Revisions, ItemsOf
  <2>4. IsFiniteSet(New(mem.lists[l]))
    BY DEF FewNew
  <2>5. QED
    BY <2>2, <2>3, <2>4, <1>4
<1> HIDE DEF all
<1>6. \A l \in Owned \cap Lists :
        /\ Inserted(mem.lists[l], next) \subseteq [id : Nat \ {0}, value : Worth]
        /\ \A x \in Inserted(mem.lists[l], next) :
             \/ x \in mem.lists[l]
             \/ x.id >= next /\ x.id < next + NewRows(mem)
        /\ \A x, y \in Inserted(mem.lists[l], next) :
             x \notin mem.lists[l] /\ y \notin mem.lists[l] /\ x.id = y.id => x = y
        /\ {x.value : x \in Inserted(mem.lists[l], next)} =
             {x.value : x \in mem.lists[l]}
  BY <1>4, <1>5, RowsMadeAnew
<1>7. \A l \in Lists \ Owned : Inserted(mem.lists[l], next) = mem.lists[l]
  BY ObjectsKept DEF Revisions, ItemsOf
<1> DEFINE new == [l \in Lists |-> r.lists[l] \cup Inserted(mem.lists[l], next)]
<1>8. \A l \in Lists : /\ new[l] \subseteq ItemsOf(l)
                       /\ new[l] \subseteq Named \cup [id : Nat, value : Worth]
  <2>1. \A l \in Lists : r.lists[l] \subseteq ItemsOf(l) /\ mem.lists[l] \subseteq ItemsOf(l)
    BY DEF Revisions
  <2>2. \A l \in Lists : Inserted(mem.lists[l], next) \subseteq ItemsOf(l)
    BY <1>6, <1>7, <2>1 DEF ItemsOf
  <2>3. QED
    BY <2>1, <2>2 DEF ItemsOf
<1>9. new \in [Lists -> SUBSET (Named \cup [id : Nat, value : Worth])]
  BY <1>8
<1>10. Saved(r, mem, next) = [mem EXCEPT !.lists = new]
  BY DEF Saved
<1>11. \A l \in Lists : new[l] = r.lists[l] \cup Inserted(mem.lists[l], next)
  OBVIOUS
<1> HIDE DEF new
<1>12. /\ Saved(r, mem, next) \in Revisions /\ Saved(r, mem, next).lists = new
       /\ Saved(r, mem, next).st = mem.st /\ Saved(r, mem, next).text = mem.text
       /\ Saved(r, mem, next).class = mem.class
  BY <1>8, <1>9, <1>10 DEF Revisions
<1>13. QED
  BY <1>4, <1>6, <1>7, <1>11, <1>12

-----------------------------------------------------------------------------
(* What the statements of an edit do *)

LEMMA JobsKnown ==
  ASSUME TypeOK
  PROVE  /\ Edits \subseteq Busy /\ Busy \subseteq Requests
         /\ \A q \in Edits :
              /\ jobs[q] \in EditJobs /\ InOrder(jobs[q]) /\ jobs[q].form \in Forms
              /\ jobs[q].at \in 1 .. Len(Updates) + 1 /\ jobs[q].items \subseteq Named
         /\ \A q \in Busy \ Edits : jobs[q] \in StartJobs
         /\ \A q \in Busy : jobs[q].mem \in Revisions
         /\ \A q \in Requests \ Busy : jobs[q] = Idle
         /\ \A q \in Requests : AtList(q) =>
              /\ q \in Edits /\ jobs[q].at \in DOMAIN Updates /\ Current(q) \in Lists
              /\ jobs[q].cleared => Current(q) \notin Owned
         /\ \A q \in Requests : AtSave(q) => q \in Busy
<1>1. \A q \in Requests : jobs[q] \in {Idle} \cup EditJobs \cup StartJobs
  BY DEF TypeOK
<1>2. /\ Idle.does = "nothing" /\ \A j \in EditJobs : j.does = "edit"
      /\ \A j \in StartJobs : j.does = "start"
  BY DEF Idle, EditJobs, StartJobs
<1>3. \A q \in Requests : /\ q \in Edits <=> jobs[q] \in EditJobs
                          /\ q \in Busy <=> jobs[q] # Idle
  BY <1>1, <1>2 DEF Edits, Busy
<1>4. Edits \subseteq Busy /\ Busy \subseteq Requests
  BY <1>2, <1>3 DEF Edits, Busy
<1>5. \A q \in Edits :
        /\ jobs[q] \in EditJobs /\ InOrder(jobs[q]) /\ jobs[q].form \in Forms
        /\ jobs[q].at \in 1 .. Len(Updates) + 1 /\ jobs[q].items \subseteq Named
        /\ jobs[q].mem \in Revisions
  BY <1>3, <1>4 DEF TypeOK, EditJobs
<1>6. \A q \in Busy \ Edits : jobs[q] \in StartJobs /\ jobs[q].mem \in Revisions
  BY <1>1, <1>3, <1>4 DEF StartJobs
<1>7. kind \in Kinds
  BY DEF TypeOK
<1>8. \A q \in Requests : AtList(q) =>
        /\ q \in Edits /\ jobs[q].at \in DOMAIN Updates /\ Current(q) \in Lists
        /\ jobs[q].cleared => Current(q) \notin Owned
  BY <1>5, <1>7, UpdatesAreLists DEF AtList, Current, InOrder
<1>9. \A q \in Requests : AtSave(q) => q \in Busy
  BY <1>2, <1>3, <1>4 DEF AtSave
<1>10. QED
  BY <1>3, <1>4, <1>5, <1>6, <1>8, <1>9

(* A step of an edit takes it to job J and leaves the row at r. *)
StepTo(q, J, r) ==
  /\ q \in Edits
  /\ J \in EditJobs /\ InOrder(J) /\ J.form = jobs[q].form /\ r \in Revisions
  /\ jobs' = [jobs EXCEPT ![q] = J] /\ row' = r
  /\ UNCHANGED <<kind, nextRow, seen, told>>

LEMMA StepToKeeps ==
  ASSUME TypeOK, NEW q \in Requests, NEW J, NEW r, StepTo(q, J, r)
  PROVE  /\ TypeOK' /\ Edits' = Edits /\ Busy' = Busy
         /\ jobs'[q] = J /\ \A p \in Requests : p # q => jobs'[p] = jobs[p]
         /\ Lists' = Lists /\ Updates' = Updates /\ row' = r
         /\ UNCHANGED <<kind, nextRow, seen, told>>
<1>1. /\ Lists' = Lists /\ Updates' = Updates
      /\ Revisions' = Revisions /\ EditJobs' = EditJobs /\ StartJobs' = StartJobs
  BY ListsStay DEF StepTo
<1>2. /\ jobs'[q] = J /\ \A p \in Requests : p # q => jobs'[p] = jobs[p]
      /\ jobs' \in [Requests -> {Idle} \cup EditJobs \cup StartJobs]
  BY DEF StepTo, TypeOK
<1>3. J.does = "edit" /\ jobs[q].does = "edit" /\ Idle.does = "nothing"
  BY DEF StepTo, EditJobs, Edits, Idle
<1>4. Edits' = Edits
  BY <1>2, <1>3 DEF Edits
<1>5. Busy' = Busy
  BY <1>2, <1>3 DEF Busy
<1>6. \A p \in Edits' : InOrder(jobs[p])'
  <2> SUFFICES ASSUME NEW p \in Edits PROVE InOrder(jobs[p])'
    BY <1>4
  <2>1. p \in Requests /\ InOrder(jobs[p])
    BY DEF Edits, TypeOK
  <2>2. CASE p = q
    <3>1. InOrder(J)
      BY DEF StepTo
    <3>2. QED
      BY <3>1, <2>2, <1>1, <1>2 DEF InOrder
  <2>3. CASE p # q
    BY <2>1, <2>3, <1>1, <1>2 DEF InOrder
  <2>4. QED
    BY <2>2, <2>3
<1>7. TypeOK'
  BY <1>1, <1>2, <1>6 DEF TypeOK, StepTo
<1>8. QED
  BY <1>1, <1>2, <1>4, <1>5, <1>7 DEF StepTo

LEMMA DeleteDoes ==
  ASSUME TypeOK, NEW q \in Requests, Delete(q)
  PROVE  LET l == Current(q)
             J == [Skip(jobs[q]) EXCEPT !.mem = Put(@, l, Parsed(jobs[q].form, l))]
             r == Put(row, l, {})
         IN  /\ StepTo(q, J, r) /\ l \in Owned \cap Lists
             /\ J.mem = Put(jobs[q].mem, l, Parsed(jobs[q].form, l))
             /\ J.at = jobs[q].at + 1 /\ ~J.cleared /\ J.items = {}
<1> DEFINE l == Current(q)
           mem == Put(jobs[q].mem, l, Parsed(jobs[q].form, l))
           J == [Skip(jobs[q]) EXCEPT !.mem = mem]
<1>1. /\ q \in Edits /\ l \in Lists /\ l \in Owned /\ jobs[q].at \in DOMAIN Updates
      /\ kind \in Kinds /\ jobs[q] \in EditJobs /\ jobs[q].form \in Forms
      /\ jobs[q].mem \in Revisions /\ row \in Revisions
  BY JobsKnown DEF Delete, TypeOK
<1>2. mem \in Revisions /\ Put(row, l, {}) \in Revisions
  BY <1>1, FormsSay, PutRight
<1>3. LET K == Skip(jobs[q]) IN
      /\ K \in EditJobs /\ InOrder(K) /\ K.form = jobs[q].form /\ K.mem = jobs[q].mem
      /\ K.at = jobs[q].at + 1 /\ ~K.cleared /\ K.items = {}
  BY <1>1, GoOnRight DEF Skip
<1> DEFINE K == Skip(jobs[q])
<1>4. jobs' = [jobs EXCEPT ![q] = J] /\ row' = Put(row, l, {})
  BY <1>3 DEF Delete
<1>5. [Skip(jobs[q]) EXCEPT !.mem = Put(@, l, Parsed(jobs[q].form, l))] = J
  BY <1>3
<1> HIDE DEF mem
<1>6. /\ J \in EditJobs /\ InOrder(J) /\ J.mem = mem /\ J.form = jobs[q].form
      /\ J.at = jobs[q].at + 1 /\ J.cleared = K.cleared /\ J.items = {}
  <2> HIDE DEF K
  <2> SUFFICES LET JJ == [K EXCEPT !.mem = mem] IN
      /\ JJ \in EditJobs /\ InOrder(JJ) /\ JJ.mem = mem /\ JJ.form = jobs[q].form
      /\ JJ.at = jobs[q].at + 1 /\ JJ.cleared = K.cleared /\ JJ.items = {}
    BY DEF K
  <2>1. QED
    BY <1>2, <1>3, MemoryRight DEF K
<1> HIDE DEF J, l
<1>7. StepTo(q, J, Put(row, l, {}))
  BY <1>1, <1>2, <1>4, <1>6 DEF StepTo, Delete
<1>8. QED
  BY <1>1, <1>3, <1>5, <1>6, <1>7 DEF l, mem, K

(* An edit goes on with the items it has left. *)
LEMMA EditMoves ==
  ASSUME TypeOK, NEW q \in Requests, AtList(q), NEW items, items \subseteq Named,
         items # {} => Current(q) \notin Owned, NEW m \in Revisions
  PROVE  LET J == [GoOn(jobs[q], items) EXCEPT !.mem = m] IN
         /\ J \in EditJobs /\ InOrder(J) /\ J.form = jobs[q].form /\ J.mem = m
         /\ J.items = items
         /\ items = {} => J.at = jobs[q].at + 1 /\ ~J.cleared
         /\ items # {} => J.at = jobs[q].at /\ J.cleared
<1>1. /\ q \in Edits /\ jobs[q].at \in DOMAIN Updates /\ kind \in Kinds
      /\ jobs[q] \in EditJobs
  BY JobsKnown DEF TypeOK
<1> DEFINE K == GoOn(jobs[q], items)
<1>2. /\ K \in EditJobs /\ InOrder(K) /\ K.form = jobs[q].form /\ K.items = items
      /\ items = {} => K.at = jobs[q].at + 1 /\ ~K.cleared
      /\ items # {} => K.at = jobs[q].at /\ K.cleared
  BY <1>1, GoOnRight DEF Current
<1> SUFFICES LET J == [K EXCEPT !.mem = m] IN
         /\ J \in EditJobs /\ InOrder(J) /\ J.form = jobs[q].form /\ J.mem = m
         /\ J.items = items
         /\ items = {} => J.at = jobs[q].at + 1 /\ ~J.cleared
         /\ items # {} => J.at = jobs[q].at /\ J.cleared
  BY DEF K
<1> HIDE DEF K
<1>3. QED
  BY <1>2, MemoryRight

LEMMA ClearDoes ==
  ASSUME TypeOK, NEW q \in Requests, Clear(q)
  PROVE  \E J : /\ StepTo(q, J, Put(row, Current(q), {}))
                /\ AtList(q) /\ Current(q) \in Lists \ Owned /\ ~jobs[q].cleared
                /\ J.mem = Put(jobs[q].mem, Current(q), {})
                /\ J.items = Parsed(jobs[q].form, Current(q))
                /\ J.items = {} => J.at = jobs[q].at + 1 /\ ~J.cleared
                /\ J.items # {} => J.at = jobs[q].at /\ J.cleared
                /\ UNCHANGED trouble
<1> DEFINE l == Current(q)
           m == Put(jobs[q].mem, l, {})
           items == Parsed(jobs[q].form, l)
           J == [GoOn(jobs[q], items) EXCEPT !.mem = m]
<1>1. /\ AtList(q) /\ q \in Edits /\ l \in Lists /\ l \notin Owned /\ ~jobs[q].cleared
      /\ kind \in Kinds /\ jobs[q] \in EditJobs /\ jobs[q].form \in Forms
      /\ jobs[q].mem \in Revisions /\ row \in Revisions /\ jobs[q].at \in DOMAIN Updates
  BY JobsKnown DEF Clear, TypeOK
<1>2. m \in Revisions /\ Put(row, l, {}) \in Revisions
  BY <1>1, PutRight
<1>3. items \subseteq Named
  BY <1>1, FormsSay DEF ItemsOf
<1>4. GoOn(jobs[q], items) \in EditJobs /\ GoOn(jobs[q], items).mem = jobs[q].mem
  BY <1>1, <1>3, GoOnRight DEF Current
<1>5. jobs' = [jobs EXCEPT ![q] = J] /\ row' = Put(row, l, {})
  BY <1>4 DEF Clear, Cleared
<1> HIDE DEF l, m, items
<1>6. /\ J \in EditJobs /\ InOrder(J) /\ J.form = jobs[q].form /\ J.mem = m
      /\ J.items = items
      /\ items = {} => J.at = jobs[q].at + 1 /\ ~J.cleared
      /\ items # {} => J.at = jobs[q].at /\ J.cleared
  BY <1>1, <1>2, <1>3, EditMoves DEF l
<1> HIDE DEF J
<1>7. StepTo(q, J, Put(row, l, {}))
  BY <1>1, <1>2, <1>5, <1>6 DEF StepTo, Clear
<1>8. UNCHANGED trouble
  BY DEF Clear
<1>9. QED
  BY <1>1, <1>6, <1>7, <1>8 DEF l, m, items

LEMMA AddDoes ==
  ASSUME TypeOK, NEW q \in Requests, Add(q)
  PROVE  \E x, J :
           /\ StepTo(q, J, Added(row, Current(q), x))
           /\ AtList(q) /\ Current(q) \in Lists \ Owned /\ jobs[q].cleared
           /\ x \in FirstByID(jobs[q].items) /\ x \in ItemsOf(Current(q))
           /\ J.mem = Added(jobs[q].mem, Current(q), x)
           /\ J.items = jobs[q].items \ {x}
           /\ J.items = {} => J.at = jobs[q].at + 1 /\ ~J.cleared
           /\ J.items # {} => J.at = jobs[q].at /\ J.cleared
           /\ UNCHANGED trouble
<1> DEFINE l == Current(q)
<1>1. /\ AtList(q) /\ q \in Edits /\ l \in Lists /\ l \notin Owned /\ jobs[q].cleared
      /\ kind \in Kinds /\ jobs[q] \in EditJobs /\ jobs[q].items \subseteq Named
      /\ jobs[q].mem \in Revisions /\ row \in Revisions /\ jobs[q].at \in DOMAIN Updates
  BY JobsKnown DEF Add, TypeOK
<1>2. PICK x \in FirstByID(jobs[q].items) :
        /\ row' = Added(row, l, x)
        /\ jobs' = [jobs EXCEPT ![q] =
             [GoOn(jobs[q], jobs[q].items \ {x}) EXCEPT !.mem = Added(@, l, x)]]
  BY DEF Add
<1>3. x \in jobs[q].items /\ x \in ItemsOf(l)
  BY <1>1, <1>2 DEF FirstByID, ItemsOf
<1> DEFINE m == Added(jobs[q].mem, l, x)
           items == jobs[q].items \ {x}
           J == [GoOn(jobs[q], items) EXCEPT !.mem = m]
<1>4. m \in Revisions /\ Added(row, l, x) \in Revisions
  BY <1>1, <1>3, AddedRight
<1>5. items \subseteq Named
  BY <1>1
<1>6. GoOn(jobs[q], items) \in EditJobs /\ GoOn(jobs[q], items).mem = jobs[q].mem
  BY <1>1, <1>5, GoOnRight DEF Current
<1>7. jobs' = [jobs EXCEPT ![q] = J]
  BY <1>2, <1>6
<1> HIDE DEF l, m, items
<1>8. /\ J \in EditJobs /\ InOrder(J) /\ J.form = jobs[q].form /\ J.mem = m
      /\ J.items = items
      /\ items = {} => J.at = jobs[q].at + 1 /\ ~J.cleared
      /\ items # {} => J.at = jobs[q].at /\ J.cleared
  BY <1>1, <1>4, <1>5, EditMoves DEF l
<1> HIDE DEF J
<1>9. StepTo(q, J, Added(row, l, x))
  BY <1>1, <1>2, <1>4, <1>7, <1>8 DEF StepTo, Add
<1>10. UNCHANGED trouble
  BY DEF Add
<1>11. QED
  BY <1>1, <1>2, <1>3, <1>8, <1>9, <1>10 DEF l, m, items

(* A statement that failed is as if it had been made, in memory. *)
LEMMA SwallowedDoes ==
  ASSUME TypeOK, NEW q \in Requests, Swallowed(q)
  PROVE  \E J :
           /\ StepTo(q, J, row)
           /\ AtList(q) /\ Current(q) \in Lists \ Owned
           /\ ~J.cleared /\ J.items = {}
           /\ \/ J.mem = Put(jobs[q].mem, Current(q), Parsed(jobs[q].form, Current(q)))
              \/ J.mem = Put(jobs[q].mem, Current(q), {})
              \/ \E x \in FirstByID(jobs[q].items) :
                   /\ jobs[q].cleared /\ x \in ItemsOf(Current(q))
                   /\ J.mem = Added(jobs[q].mem, Current(q), x)
           /\ trouble' = trouble \cup {"dberror"}
<1> DEFINE l == Current(q)
<1>1. /\ AtList(q) /\ q \in Edits /\ l \in Lists /\ l \notin Owned
      /\ kind \in Kinds /\ jobs[q] \in EditJobs /\ jobs[q].items \subseteq Named
      /\ jobs[q].form \in Forms
      /\ jobs[q].mem \in Revisions /\ row \in Revisions /\ jobs[q].at \in DOMAIN Updates
  BY JobsKnown DEF Swallowed, TypeOK
<1>2. trouble' = trouble \cup {"dberror"} /\ UNCHANGED <<kind, row, nextRow, seen, told>>
  BY DEF Swallowed
<1>3. PICK m : /\ m \in Revisions
               /\ jobs' = [jobs EXCEPT ![q] = AfterError(@, m, l)]
               /\ \/ m = Put(jobs[q].mem, l, {})
                  \/ \E x \in FirstByID(jobs[q].items) :
                       /\ jobs[q].cleared /\ x \in ItemsOf(l)
                       /\ m = Added(jobs[q].mem, l, x)
  <2>1. CASE jobs' = [jobs EXCEPT ![q] = AfterError(@, Cleared(@.mem, l), l)]
    BY <2>1, <1>1, PutRight DEF Cleared
  <2>2. ASSUME jobs[q].cleared,
               NEW x \in FirstByID(jobs[q].items),
               jobs' = [jobs EXCEPT ![q] = AfterError(@, Added(@.mem, l, x), l)]
        PROVE  \E m : /\ m \in Revisions
               /\ jobs' = [jobs EXCEPT ![q] = AfterError(@, m, l)]
               /\ \E y \in FirstByID(jobs[q].items) :
                       /\ jobs[q].cleared /\ y \in ItemsOf(l)
                       /\ m = Added(jobs[q].mem, l, y)
    <3>1. x \in ItemsOf(l)
      BY <1>1 DEF FirstByID, ItemsOf
    <3>2. Added(jobs[q].mem, l, x) \in Revisions
      BY <1>1, <3>1, AddedRight
    <3>3. QED
      BY <2>2, <3>1, <3>2
  <2>3. QED
    BY <2>1, <2>2 DEF Swallowed
<1> DEFINE p == Put(jobs[q].mem, l, Parsed(jobs[q].form, l))
           J == AfterError(jobs[q], m, l)
<1>4. p \in Revisions
  BY <1>1, FormsSay, PutRight
<1>5. jobs' = [jobs EXCEPT ![q] = J]
  BY <1>3
<1>6. /\ J \in EditJobs /\ InOrder(J) /\ J.form = jobs[q].form
      /\ ~J.cleared /\ J.items = {} /\ J.mem \in {p, m}
  <2>1. CASE kind = "apiuser"
    <3> DEFINE K == GoOn(jobs[q], {})
    <3>1. /\ K \in EditJobs /\ InOrder(K) /\ K.mem = jobs[q].mem
          /\ K.form = jobs[q].form /\ ~K.cleared /\ K.items = {}
      BY <1>1, GoOnRight
    <3>2. J = [K EXCEPT !.mem = p]
      BY <2>1, <3>1 DEF AfterError, Skip
    <3> HIDE DEF p, J, K
    <3>3. /\ J \in EditJobs /\ InOrder(J) /\ J.form = K.form /\ J.mem = p
          /\ J.cleared = K.cleared /\ J.items = K.items
      BY <3>1, <3>2, <1>4, MemoryRight
    <3>4. QED
      BY <3>1, <3>3
  <2>2. CASE kind # "apiuser"
    <3>1. J = [GiveUp(jobs[q]) EXCEPT !.mem = m]
      BY <2>2 DEF AfterError
    <3> HIDE DEF p, J
    <3> DEFINE K == GiveUp(jobs[q])
    <3>2. /\ K \in EditJobs /\ InOrder(K) /\ K.form = jobs[q].form
          /\ ~K.cleared /\ K.items = {}
      BY <1>1, GiveUpRight
    <3>3. J = [K EXCEPT !.mem = m]
      BY <3>1
    <3> HIDE DEF K
    <3>4. m \in Revisions
      BY <1>3
    <3>5. /\ J \in EditJobs /\ InOrder(J) /\ J.form = K.form /\ J.mem = m
          /\ J.cleared = K.cleared /\ J.items = K.items
      BY <3>2, <3>3, <3>4, MemoryRight
    <3>6. QED
      BY <3>2, <3>5
  <2>3. QED
    BY <2>1, <2>2
<1> HIDE DEF J
<1>7. StepTo(q, J, row)
  BY <1>1, <1>2, <1>5, <1>6 DEF StepTo
<1>8. QED
  BY <1>1, <1>2, <1>3, <1>6, <1>7

-----------------------------------------------------------------------------
(* Requests begin and end *)

LEMMA Begins ==
  ASSUME TypeOK, NEW q \in Requests, jobs[q] = Idle, NEW J \in EditJobs \cup StartJobs,
         J \in EditJobs => InOrder(J),
         jobs' = [jobs EXCEPT ![q] = J], UNCHANGED <<kind, row, nextRow, seen, told>>
  PROVE  /\ TypeOK' /\ Busy' = Busy \cup {q} /\ q \notin Busy
         /\ Edits' = IF J \in EditJobs THEN Edits \cup {q} ELSE Edits
         /\ jobs'[q] = J /\ \A p \in Requests : p # q => jobs'[p] = jobs[p]
         /\ Lists' = Lists /\ Updates' = Updates
<1>1. /\ Lists' = Lists /\ Updates' = Updates
      /\ Revisions' = Revisions /\ EditJobs' = EditJobs /\ StartJobs' = StartJobs
  BY ListsStay
<1>2. /\ jobs'[q] = J /\ \A p \in Requests : p # q => jobs'[p] = jobs[p]
      /\ jobs' \in [Requests -> {Idle} \cup EditJobs \cup StartJobs]
  BY DEF TypeOK
<1>3. /\ J.does \in {"edit", "start"} /\ Idle.does = "nothing"
      /\ J.does = "edit" <=> J \in EditJobs
  BY DEF EditJobs, StartJobs, Idle
<1>4. Edits' = IF J \in EditJobs THEN Edits \cup {q} ELSE Edits
  BY <1>2, <1>3 DEF Edits
<1>5. Busy' = Busy \cup {q} /\ q \notin Busy
  BY <1>2, <1>3 DEF Busy
<1>6. \A p \in Edits' : InOrder(jobs[p])'
  <2> SUFFICES ASSUME NEW p \in Edits' PROVE InOrder(jobs[p])'
    OBVIOUS
  <2>1. p \in Requests
    BY DEF Edits
  <2>2. CASE p = q
    <3>1. InOrder(J)
      BY <1>2, <1>3, <2>2 DEF Edits
    <3>2. QED
      BY <3>1, <2>2, <1>1, <1>2 DEF InOrder
  <2>3. CASE p # q
    <3>1. p \in Edits /\ InOrder(jobs[p])
      BY <1>4, <2>3 DEF TypeOK
    <3>2. QED
      BY <3>1, <2>1, <2>3, <1>1, <1>2 DEF InOrder
  <2>4. QED
    BY <2>2, <2>3
<1>7. TypeOK'
  BY <1>1, <1>2, <1>6 DEF TypeOK
<1>8. QED
  BY <1>1, <1>2, <1>4, <1>5, <1>7

LEMMA Ends ==
  ASSUME TypeOK, NEW q \in Requests, jobs' = [jobs EXCEPT ![q] = Idle], kind' = kind,
         row' \in Revisions, nextRow' \in Nat \ {0}, seen' \subseteq Revisions,
         told' \subseteq Forms
  PROVE  /\ TypeOK' /\ Busy' = Busy \ {q} /\ Edits' = Edits \ {q}
         /\ \A p \in Requests : p # q => jobs'[p] = jobs[p]
         /\ Lists' = Lists /\ Updates' = Updates
<1>1. /\ Lists' = Lists /\ Updates' = Updates
      /\ Revisions' = Revisions /\ EditJobs' = EditJobs /\ StartJobs' = StartJobs
  BY ListsStay
<1>2. /\ jobs'[q] = Idle /\ \A p \in Requests : p # q => jobs'[p] = jobs[p]
      /\ jobs' \in [Requests -> {Idle} \cup EditJobs \cup StartJobs]
  BY DEF TypeOK
<1>3. Idle.does = "nothing"
  BY DEF Idle
<1>4. Edits' = Edits \ {q} /\ Busy' = Busy \ {q}
  BY <1>2, <1>3 DEF Edits, Busy
<1>5. \A p \in Edits' : InOrder(jobs[p])'
  <2> SUFFICES ASSUME NEW p \in Edits' PROVE InOrder(jobs[p])'
    OBVIOUS
  <2>1. p \in Requests /\ p # q /\ p \in Edits /\ InOrder(jobs[p])
    BY <1>4 DEF Edits, TypeOK
  <2>2. QED
    BY <2>1, <1>1, <1>2 DEF InOrder
<1>6. TypeOK'
  BY <1>1, <1>2, <1>5 DEF TypeOK
<1>7. QED
  BY <1>1, <1>2, <1>4, <1>6

LEMMA BeginEditDoes ==
  ASSUME TypeOK, NEW q \in Requests, NEW form \in Forms, BeginEdit(q, form)
  PROVE  LET J == EditJob(form) IN
         /\ J \in EditJobs /\ InOrder(J) /\ J.mem.lists = row.lists
         /\ J.mem.text = form.text /\ J.mem.class = form.class /\ J.form = form
         /\ J.at = 1 /\ ~J.cleared
         /\ TypeOK' /\ Busy' = Busy \cup {q} /\ q \notin Busy /\ Edits' = Edits \cup {q}
         /\ jobs'[q] = J /\ \A p \in Requests : p # q => jobs'[p] = jobs[p]
         /\ Lists' = Lists /\ Updates' = Updates
         /\ UNCHANGED <<kind, row, nextRow, seen, told>>
         /\ "edits" \notin trouble' => Edits = {} /\ "edits" \notin trouble
         /\ trouble' = {} => Busy = {} /\ trouble = {}
<1> DEFINE J == EditJob(form)
<1>1. row \in Revisions /\ 1 \in 1 .. Len(Updates) + 1
  BY UpdatesAreLists DEF TypeOK
<1> DEFINE m == [row EXCEPT !.text = form.text, !.class = form.class]
<1>2. /\ m \in Revisions /\ m.lists = row.lists
      /\ m.text = form.text /\ m.class = form.class
  BY <1>1 DEF Revisions
<1>10. J = [does |-> "edit", form |-> form, mem |-> m, at |-> 1, cleared |-> FALSE,
           items |-> {}]
  BY DEF EditJob
<1> HIDE DEF m, J
<1>3. /\ J \in EditJobs /\ InOrder(J) /\ J.mem.lists = row.lists
      /\ J.mem.text = form.text /\ J.mem.class = form.class /\ J.form = form
      /\ J.at = 1 /\ ~J.cleared
  BY <1>1, <1>2, <1>10 DEF EditJobs, InOrder
<1>4. /\ jobs[q] = Idle /\ jobs' = [jobs EXCEPT ![q] = J]
      /\ UNCHANGED <<kind, row, nextRow, seen, told>>
  BY DEF BeginEdit, J
<1>5. /\ TypeOK' /\ Busy' = Busy \cup {q} /\ q \notin Busy /\ Edits' = Edits \cup {q}
      /\ jobs'[q] = J /\ \A p \in Requests : p # q => jobs'[p] = jobs[p]
      /\ Lists' = Lists /\ Updates' = Updates
  BY <1>3, <1>4, Begins
<1>6. Overtaking(IF Edits = {} THEN "race" ELSE "edits")
  BY DEF BeginEdit
<1>7. Busy = {} => Edits = {}
  BY JobsKnown
<1>8. /\ trouble' = {} => Busy = {} /\ trouble = {}
      /\ "edits" \notin trouble' => Edits = {} /\ "edits" \notin trouble
  BY <1>6, <1>7 DEF Overtaking
<1>9. QED
  BY <1>3, <1>4, <1>5, <1>8 DEF J

LEMMA BeginStartDoes ==
  ASSUME TypeOK, NEW q \in Requests, BeginStart(q)
  PROVE  LET J == StartJob IN
         /\ J \in StartJobs /\ J.mem = [row EXCEPT !.st = "pendingapproval"]
         /\ J.mem.lists = row.lists
         /\ TypeOK' /\ Busy' = Busy \cup {q} /\ q \notin Busy /\ Edits' = Edits
         /\ jobs'[q] = J /\ \A p \in Requests : p # q => jobs'[p] = jobs[p]
         /\ Lists' = Lists /\ Updates' = Updates
         /\ UNCHANGED <<kind, row, nextRow, seen, told>>
         /\ "edits" \notin trouble' => "edits" \notin trouble
         /\ trouble' = {} => Busy = {} /\ trouble = {}
<1> DEFINE J == StartJob
           m == [row EXCEPT !.st = "pendingapproval"]
<1>1. m \in Revisions /\ m.lists = row.lists
  BY DEF TypeOK, Revisions
<1>2. J = [does |-> "start", mem |-> m]
  BY DEF StartJob
<1> HIDE DEF m, J
<1>3. J \in StartJobs /\ J.mem = m /\ J \notin EditJobs
  BY <1>1, <1>2 DEF StartJobs, EditJobs
<1>4. /\ jobs[q] = Idle /\ jobs' = [jobs EXCEPT ![q] = J]
      /\ UNCHANGED <<kind, row, nextRow, seen, told>>
  BY DEF BeginStart, J
<1>5. /\ TypeOK' /\ Busy' = Busy \cup {q} /\ q \notin Busy /\ Edits' = Edits
      /\ jobs'[q] = J /\ \A p \in Requests : p # q => jobs'[p] = jobs[p]
      /\ Lists' = Lists /\ Updates' = Updates
  BY <1>3, <1>4, Begins
<1>6. /\ "edits" \notin trouble' => "edits" \notin trouble
      /\ trouble' = {} => Busy = {} /\ trouble = {}
  BY DEF BeginStart, Overtaking
<1>7. QED
  BY <1>1, <1>3, <1>4, <1>5, <1>6 DEF J, m

LEMMA SaveDoes ==
  ASSUME TypeOK, NewFinite, NEW q \in Requests, Save(q)
  PROVE  LET mem == jobs[q].mem IN
         /\ q \in Busy /\ mem \in Revisions /\ FewNew(mem)
         /\ q \in Edits => jobs[q].form \in Forms /\ jobs[q].at \notin DOMAIN Updates
         /\ row' = Saved(row, mem, nextRow) /\ nextRow' = nextRow + NewRows(mem)
         /\ TypeOK' /\ Busy' = Busy \ {q} /\ Edits' = Edits \ {q}
         /\ \A p \in Requests : p # q => jobs'[p] = jobs[p]
         /\ Lists' = Lists /\ Updates' = Updates
         /\ told' = IF q \in Edits THEN {jobs[q].form} ELSE told
         /\ seen' \subseteq seen /\ UNCHANGED <<kind, trouble>>
<1> DEFINE mem == jobs[q].mem
<1>1. /\ q \in Busy /\ mem \in Revisions /\ FewNew(mem)
      /\ q \in Edits => jobs[q].form \in Forms
  BY JobsKnown DEF Save, NewFinite
<1>2. q \in Edits => jobs[q].at \notin DOMAIN Updates
  BY DEF Save, AtSave, Edits
<1>3. /\ row' = Saved(row, mem, nextRow) /\ nextRow' = nextRow + NewRows(mem)
      /\ jobs' = [jobs EXCEPT ![q] = Idle]
      /\ told' = IF q \in Edits THEN {jobs[q].form} ELSE told
      /\ seen' \subseteq seen /\ UNCHANGED <<kind, trouble>>
  BY DEF Save
<1> HIDE DEF mem
<1>4. NewRows(mem) \in Nat /\ Saved(row, mem, nextRow) \in Revisions
  BY <1>1, SavedRight DEF TypeOK
<1>5. /\ row' \in Revisions /\ nextRow' \in Nat \ {0} /\ seen' \subseteq Revisions
      /\ told' \subseteq Forms
  BY <1>1, <1>3, <1>4 DEF TypeOK
<1>6. /\ TypeOK' /\ Busy' = Busy \ {q} /\ Edits' = Edits \ {q}
      /\ \A p \in Requests : p # q => jobs'[p] = jobs[p]
      /\ Lists' = Lists /\ Updates' = Updates
  BY <1>3, <1>5, Ends
<1>7. QED
  BY <1>1, <1>2, <1>3, <1>6 DEF mem

LEMMA RefusedDoes ==
  ASSUME TypeOK, NEW q \in Requests, Refused(q)
  PROVE  /\ TypeOK' /\ Busy' = Busy \ {q} /\ Edits' = Edits \ {q}
         /\ \A p \in Requests : p # q => jobs'[p] = jobs[p]
         /\ Lists' = Lists /\ Updates' = Updates
         /\ UNCHANGED <<kind, row, nextRow, seen>>
         /\ trouble' = trouble \cup {"dberror"}
<1>1. /\ jobs' = [jobs EXCEPT ![q] = Idle]
      /\ UNCHANGED <<kind, row, nextRow, seen>> /\ told' \subseteq told
      /\ trouble' = trouble \cup {"dberror"}
  BY DEF Refused
<1>2. QED
  BY <1>1, Ends DEF TypeOK

LEMMA CrashDoes ==
  ASSUME TypeOK, Crash
  PROVE  /\ TypeOK' /\ Busy' = {} /\ Edits' = {}
         /\ Lists' = Lists /\ Updates' = Updates
         /\ UNCHANGED <<kind, row, nextRow, seen>>
         /\ trouble' = trouble \cup {"crash"}
<1>1. /\ jobs' = [q \in Requests |-> Idle]
      /\ UNCHANGED <<kind, row, nextRow, seen>> /\ told' \subseteq told
      /\ trouble' = trouble \cup {"crash"}
  BY DEF Crash
<1>2. \A q \in Requests : jobs'[q] = Idle /\ Idle.does = "nothing"
  BY <1>1 DEF Idle
<1>3. Busy' = {} /\ Edits' = {}
  BY <1>2 DEF Busy, Edits
<1>4. jobs' \in [Requests -> {Idle} \cup EditJobs' \cup StartJobs']
  BY <1>1
<1>5. QED
  BY <1>1, <1>3, <1>4, ListsStay DEF TypeOK

(* An approver's signature and its upload leave the lists alone. *)
LEMMA ApproversDo ==
  ASSUME TypeOK, Attest \/ Upload
  PROVE  /\ TypeOK' /\ Busy' = Busy /\ Edits' = Edits
         /\ Lists' = Lists /\ Updates' = Updates
         /\ UNCHANGED <<kind, nextRow, jobs, told>>
         /\ row' \in {row, [row EXCEPT !.st = "active"]}
         /\ row'.lists = row.lists /\ row'.text = row.text /\ row'.class = row.class
         /\ seen' \subseteq seen \cup {row}
         /\ "edits" \notin trouble' => "edits" \notin trouble
         /\ trouble' = {} => Busy = {} /\ trouble = {}
<1>1. /\ UNCHANGED <<kind, nextRow, jobs, told>>
      /\ row' \in {row, [row EXCEPT !.st = "active"]}
      /\ seen' \subseteq seen \cup {row}
      /\ Overtaking("race")
  BY DEF Attest, Upload
<1>2. /\ row' \in Revisions
      /\ row'.lists = row.lists /\ row'.text = row.text /\ row'.class = row.class
  BY <1>1 DEF TypeOK, Revisions
<1>3. Busy' = Busy /\ Edits' = Edits
  BY <1>1 DEF Busy, Edits
<1>4. /\ Lists' = Lists /\ Updates' = Updates
      /\ Revisions' = Revisions /\ EditJobs' = EditJobs /\ StartJobs' = StartJobs
  BY <1>1, ListsStay
<1>5. \A q \in Edits : InOrder(jobs[q])'
  BY <1>1, <1>4 DEF TypeOK, InOrder
<1>6. TypeOK'
  BY <1>1, <1>2, <1>3, <1>4, <1>5 DEF TypeOK
<1>7. QED
  BY <1>1, <1>2, <1>3, <1>4, <1>6 DEF Overtaking

-----------------------------------------------------------------------------
(* The rows that a revision owns are known by their IDs *)

LEMMA NothingNewKnown ==
  ASSUME TypeOK, RowsKnown, Lists' = Lists, nextRow' = nextRow,
         \A l \in Owned \cap Lists : \A x \in Rows(l)' : x.id = 0 \/ x \in Rows(l)
  PROVE  RowsKnown'
<1>1. nextRow \in Nat \ {0}
  BY DEF TypeOK
<1>2. \A l \in Owned \cap Lists : Known(Rows(l)', nextRow)
  BY <1>1 DEF RowsKnown, Known
<1>3. QED
  BY <1>2 DEF RowsKnown, Known

LEMMA StepRows ==
  ASSUME TypeOK, RowsKnown, RowsMade, NewFinite, NEW q \in Requests, NEW J, NEW r,
         StepTo(q, J, r), FewNew(J.mem),
         \A l \in Owned \cap Lists :
           /\ r.lists[l] \subseteq row.lists[l]
           /\ \A x \in J.mem.lists[l] : x.id = 0 \/ x \in jobs[q].mem.lists[l]
  PROVE  RowsKnown' /\ RowsMade' /\ NewFinite'
<1>1. /\ Busy' = Busy /\ jobs'[q] = J
      /\ \A p \in Requests : p # q => jobs'[p] = jobs[p]
      /\ Lists' = Lists /\ row' = r /\ UNCHANGED <<nextRow, seen>>
  BY StepToKeeps
<1>2. q \in Busy /\ Busy \subseteq Requests
  BY JobsKnown DEF StepTo
<1>3. \A h \in Held' : h \in Held \cup {r, J.mem}
  BY <1>1, <1>2 DEF Held
<1>4. \A l \in Owned \cap Lists : \A x \in Rows(l)' : x.id = 0 \/ x \in Rows(l)
  <2> SUFFICES ASSUME NEW l \in Owned \cap Lists, NEW h \in Held',
                      NEW x \in h.lists[l], x.id # 0
               PROVE  x \in Rows(l)
    BY DEF Rows
  <2>1. row \in Held /\ jobs[q].mem \in Held
    BY <1>2 DEF Held
  <2>2. \E g \in Held : x \in g.lists[l]
    BY <1>3, <2>1
  <2>3. QED
    BY <2>2 DEF Rows
<1>5. RowsKnown'
  BY <1>1, <1>4, NothingNewKnown
<1>6. RowsMade'
  BY <1>1 DEF RowsMade
<1>7. \A p \in Busy : FewNew(jobs'[p].mem)
  BY <1>1, <1>2 DEF NewFinite
<1>8. NewFinite'
  BY <1>1, <1>7 DEF NewFinite, FewNew
<1>9. QED
  BY <1>5, <1>6, <1>8

LEMMA FewerHeld ==
  ASSUME TypeOK, RowsKnown, RowsMade, Lists' = Lists, nextRow' = nextRow,
         \A h \in Held' : \E g \in Held : h.lists = g.lists,
         \A h \in {row'} \cup seen' : \E g \in {row} \cup seen : h.lists = g.lists
  PROVE  RowsKnown' /\ RowsMade'
<1>1. \A l \in Owned \cap Lists : \A x \in Rows(l)' : x \in Rows(l)
  BY DEF Rows
<1>2. RowsKnown'
  BY <1>1, NothingNewKnown
<1>3. RowsMade'
  <2>1. \A l \in Owned \cap Lists : \A h \in {row'} \cup seen' :
          \A x \in h.lists[l] : x.id # 0
    BY DEF RowsMade
  <2>2. QED
    BY <2>1 DEF RowsMade
<1>4. QED
  BY <1>2, <1>3

LEMMA SaveRows ==
  ASSUME TypeOK, RowsKnown, RowsMade, NewFinite, NEW q \in Requests, Save(q)
  PROVE  RowsKnown' /\ RowsMade' /\ NewFinite'
<1> DEFINE mem == jobs[q].mem
           n == NewRows(mem)
<1>1. /\ q \in Busy /\ mem \in Revisions /\ FewNew(mem)
      /\ row' = Saved(row, mem, nextRow) /\ nextRow' = nextRow + n
      /\ Busy' = Busy \ {q}
      /\ \A p \in Requests : p # q => jobs'[p] = jobs[p]
      /\ Lists' = Lists /\ seen' \subseteq seen
  BY SaveDoes
<1>2. Busy \subseteq Requests /\ kind \in Kinds /\ row \in Revisions /\ nextRow \in Nat \ {0}
  BY JobsKnown DEF TypeOK
<1>3. mem \in Held /\ row \in Held
  BY <1>1 DEF Held
<1> HIDE DEF mem
<1>4. n \in Nat
  BY <1>1, <1>2, SavedRight
<1>5. \A h \in Held' : h = row' \/ h \in Held
  BY <1>1, <1>2 DEF Held
<1> HIDE DEF n
<1>6. \A l \in Owned \cap Lists :
        LET made == Inserted(mem.lists[l], nextRow) IN
        /\ row'.lists[l] = row.lists[l] \cup made
        /\ \A x \in made : x.id \in Nat \ {0}
        /\ \A x \in made : x \in mem.lists[l] \/ (x.id >= nextRow /\ x.id < nextRow + n)
        /\ \A x, y \in made :
             x \notin mem.lists[l] /\ y \notin mem.lists[l] /\ x.id = y.id => x = y
  BY <1>1, <1>2, SavedRight DEF n
<1>7. ASSUME NEW l \in Owned \cap Lists PROVE Known(Rows(l)', nextRow')
  <2> DEFINE made == Inserted(mem.lists[l], nextRow)
  <2>1. /\ row'.lists[l] = row.lists[l] \cup made
        /\ \A x \in made : x \in mem.lists[l] \/ (x.id >= nextRow /\ x.id < nextRow + n)
        /\ \A x, y \in made :
             x \notin mem.lists[l] /\ y \notin mem.lists[l] /\ x.id = y.id => x = y
    BY <1>6
  <2> HIDE DEF made
  <2>2. mem.lists[l] \subseteq Rows(l) /\ row.lists[l] \subseteq Rows(l)
    BY <1>3 DEF Rows
  <2>3. \A x \in Rows(l)' : x \in Rows(l) \/ x \in made
    BY <1>5, <2>1, <2>2 DEF Rows
  <2>4. \A x \in Rows(l)' :
          \/ x \in Rows(l)
          \/ x \in made /\ x \notin mem.lists[l] /\ x.id >= nextRow /\ x.id < nextRow + n
    BY <2>1, <2>2, <2>3
  <2>5. \A h \in Held : h \in Revisions
    BY <1>2, JobsKnown DEF Held, TypeOK
  <2>6. \A x \in Rows(l) : x.id \in Nat /\ x.id < nextRow
    BY <2>5 DEF Rows, Revisions, ItemsOf, RowsKnown, Known
  <2>7. \A x \in Rows(l)' : x.id < nextRow + n
    BY <1>2, <1>4, <2>4, <2>6
  <2>8. ASSUME NEW x \in Rows(l)', NEW y \in Rows(l)', x.id # 0, x.id = y.id
        PROVE  x.value = y.value
    <3>1. CASE x \in Rows(l) /\ y \in Rows(l)
      BY <2>8, <3>1 DEF RowsKnown, Known
    <3>2. CASE x \notin Rows(l) /\ y \notin Rows(l)
      BY <2>1, <2>4, <2>8, <3>2
    <3>3. x \in Rows(l) <=> y \in Rows(l)
      BY <1>2, <2>4, <2>6, <2>8
    <3>4. QED
      BY <3>1, <3>2, <3>3
  <2>9. QED
    BY <1>1, <2>7, <2>8 DEF Known
<1>8. RowsKnown'
  BY <1>1, <1>7 DEF RowsKnown, Known
<1>9. ASSUME NEW l \in Owned \cap Lists, NEW h \in {row'} \cup seen', NEW x \in h.lists[l]
      PROVE  x.id # 0
  BY <1>1, <1>6, <1>9 DEF RowsMade
<1>10. RowsMade'
  BY <1>1, <1>9 DEF RowsMade
<1>11. \A p \in Busy' : FewNew(jobs'[p].mem)
  BY <1>1, <1>2 DEF NewFinite
<1>12. NewFinite'
  BY <1>1, <1>11 DEF NewFinite, FewNew
<1>13. QED
  BY <1>8, <1>10, <1>12

LEMMA BeginRows ==
  ASSUME TypeOK, RowsKnown, RowsMade, NewFinite, NEW q \in Requests, NEW J,
         J.mem.lists = row.lists, Busy' = Busy \cup {q}, q \notin Busy, jobs'[q] = J,
         \A p \in Requests : p # q => jobs'[p] = jobs[p],
         Lists' = Lists, UNCHANGED <<row, nextRow, seen>>
  PROVE  RowsKnown' /\ RowsMade' /\ NewFinite'
<1>1. Busy \subseteq Requests
  BY JobsKnown
<1>2. \A h \in Held' : \E g \in Held : h.lists = g.lists
  <2> SUFFICES ASSUME NEW h \in Held' PROVE \E g \in Held : h.lists = g.lists
    OBVIOUS
  <2>1. h \in Held \/ h = J.mem
    BY <1>1 DEF Held
  <2>2. row \in Held
    BY DEF Held
  <2>3. QED
    BY <2>1, <2>2
<1>3. RowsKnown' /\ RowsMade'
  BY <1>2, FewerHeld
<1>4. \A l \in Owned \cap Lists : New(J.mem.lists[l]) = {}
  BY DEF RowsMade, New
<1>5. FewNew(J.mem)
  BY <1>4, FS_EmptySet DEF FewNew
<1>6. \A p \in Busy' : FewNew(jobs'[p].mem)
  BY <1>1, <1>5 DEF NewFinite
<1>7. NewFinite'
  BY <1>6 DEF NewFinite, FewNew
<1>8. QED
  BY <1>3, <1>7

LEMMA EndRows ==
  ASSUME TypeOK, RowsKnown, RowsMade, NewFinite, Busy' \subseteq Busy,
         \A p \in Busy' : jobs'[p] = jobs[p],
         Lists' = Lists, row'.lists = row.lists, nextRow' = nextRow,
         seen' \subseteq seen \cup {row}
  PROVE  RowsKnown' /\ RowsMade' /\ NewFinite'
<1>1. \A h \in {row'} \cup seen' : \E g \in {row} \cup seen : h.lists = g.lists
  OBVIOUS
<1>2. \A h \in Held' : \E g \in Held : h.lists = g.lists
  <2> SUFFICES ASSUME NEW h \in Held' PROVE \E g \in Held : h.lists = g.lists
    OBVIOUS
  <2>1. h \in {row'} \cup seen' \/ \E p \in Busy : h = jobs[p].mem
    BY DEF Held
  <2>2. QED
    BY <2>1, <1>1 DEF Held
<1>3. RowsKnown' /\ RowsMade'
  BY <1>1, <1>2, FewerHeld
<1>4. \A p \in Busy' : FewNew(jobs'[p].mem)
  BY DEF NewFinite
<1>5. NewFinite'
  BY <1>4 DEF NewFinite, FewNew
<1>6. QED
  BY <1>3, <1>5

LEMMA StatementRows ==
  ASSUME TypeOK, RowsKnown, RowsMade, NewFinite, NEW q \in Requests,
         Delete(q) \/ Clear(q) \/ Add(q) \/ Swallowed(q)
  PROVE  TypeOK' /\ RowsKnown' /\ RowsMade' /\ NewFinite'
<1>1. AtList(q)
  BY DEF Delete, Clear, Add, Swallowed
<1> DEFINE l == Current(q)
<1>2. /\ q \in Edits /\ q \in Busy /\ l \in Lists /\ kind \in Kinds
      /\ jobs[q].mem \in Revisions /\ row \in Revisions /\ jobs[q].form \in Forms
      /\ FewNew(jobs[q].mem)
  BY <1>1, JobsKnown DEF TypeOK, NewFinite
<1> HIDE DEF l
<1>3. CASE Delete(q)
  <2>1. PICK J : /\ StepTo(q, J, Put(row, l, {})) /\ l \in Owned \cap Lists
                 /\ J.mem = Put(jobs[q].mem, l, Parsed(jobs[q].form, l))
    BY <1>3, DeleteDoes DEF l
  <2>2. /\ Parsed(jobs[q].form, l) \subseteq ItemsOf(l)
        /\ IsFiniteSet(New(Parsed(jobs[q].form, l)))
        /\ \A x \in Parsed(jobs[q].form, l) : x.id = 0
    BY <1>2, <2>1, FormsSay
  <2>3. J.mem.lists[l] = Parsed(jobs[q].form, l) /\ Put(row, l, {}).lists[l] = {}
    BY <1>2, <2>1, <2>2, PutRight
  <2>4. \A k \in Owned \cap Lists : k = l
    BY <1>2, <2>1, KindsHaveLists
  <2>5. FewNew(J.mem)
    BY <2>2, <2>3, <2>4 DEF FewNew
  <2>6. \A k \in Owned \cap Lists :
          /\ Put(row, l, {}).lists[k] \subseteq row.lists[k]
          /\ \A x \in J.mem.lists[k] : x.id = 0 \/ x \in jobs[q].mem.lists[k]
    BY <2>2, <2>3, <2>4
  <2>7. QED
    BY <2>1, <2>5, <2>6, StepRows, StepToKeeps
<1>4. ASSUME NEW J, NEW r, StepTo(q, J, r), l \notin Owned,
             \A k \in Lists : k # l => /\ r.lists[k] = row.lists[k]
                                       /\ J.mem.lists[k] = jobs[q].mem.lists[k]
      PROVE  TypeOK' /\ RowsKnown' /\ RowsMade' /\ NewFinite'
  <2>1. \A k \in Owned \cap Lists : /\ r.lists[k] = row.lists[k]
                                    /\ J.mem.lists[k] = jobs[q].mem.lists[k]
    BY <1>4
  <2>2. FewNew(J.mem)
    BY <1>2, <2>1 DEF FewNew
  <2>3. QED
    BY <1>4, <2>1, <2>2, StepRows, StepToKeeps
<1>5. CASE Clear(q)
  <2>1. PICK J : /\ StepTo(q, J, Put(row, l, {})) /\ l \in Lists \ Owned
                 /\ J.mem = Put(jobs[q].mem, l, {})
    BY <1>5, ClearDoes DEF l
  <2>2. \A k \in Lists : k # l => /\ Put(row, l, {}).lists[k] = row.lists[k]
                                  /\ J.mem.lists[k] = jobs[q].mem.lists[k]
    BY <1>2, <2>1, PutRight
  <2>3. QED
    BY <1>4, <2>1, <2>2
<1>6. CASE Add(q)
  <2>1. PICK x, J : /\ StepTo(q, J, Added(row, l, x)) /\ l \in Lists \ Owned
                    /\ x \in ItemsOf(l) /\ J.mem = Added(jobs[q].mem, l, x)
    BY <1>6, AddDoes DEF l
  <2>2. \A k \in Lists : k # l => Added(row, l, x).lists[k] = row.lists[k]
    BY <1>2, <2>1, AddedElsewhere
  <2>3. \A k \in Lists : k # l =>
          Added(jobs[q].mem, l, x).lists[k] = jobs[q].mem.lists[k]
    BY <1>2, <2>1, AddedElsewhere
  <2>4. QED
    BY <1>4, <2>1, <2>2, <2>3
<1>7. CASE Swallowed(q)
  <2>1. PICK J : /\ StepTo(q, J, row) /\ l \in Lists \ Owned
                 /\ \/ J.mem = Put(jobs[q].mem, l, Parsed(jobs[q].form, l))
                    \/ J.mem = Put(jobs[q].mem, l, {})
                    \/ \E x \in FirstByID(jobs[q].items) :
                         /\ x \in ItemsOf(l)
                         /\ J.mem = Added(jobs[q].mem, l, x)
    BY <1>7, SwallowedDoes DEF l
  <2>2. \A k \in Lists : k # l => J.mem.lists[k] = jobs[q].mem.lists[k]
    <3>1. CASE J.mem = Put(jobs[q].mem, l, Parsed(jobs[q].form, l))
      BY <1>2, <3>1, FormsSay, PutRight
    <3>2. CASE J.mem = Put(jobs[q].mem, l, {})
      BY <1>2, <3>2, PutRight
    <3>3. ASSUME NEW x \in FirstByID(jobs[q].items), x \in ItemsOf(l),
                 J.mem = Added(jobs[q].mem, l, x)
          PROVE  \A k \in Lists : k # l => J.mem.lists[k] = jobs[q].mem.lists[k]
      <4>1. \A k \in Lists : k # l =>
              Added(jobs[q].mem, l, x).lists[k] = jobs[q].mem.lists[k]
        BY <1>2, <3>3, AddedElsewhere
      <4>2. QED
        BY <3>3, <4>1
    <3>4. QED
      BY <2>1, <3>1, <3>2, <3>3
  <2>3. QED
    BY <1>4, <2>1, <2>2
<1>8. QED
  BY <1>3, <1>5, <1>6, <1>7

(* Every step keeps the types, and keeps what IDs stand for. *)
LEMMA RowsStep ==
  ASSUME TypeOK, RowsKnown, RowsMade, NewFinite, [Next]_vars
  PROVE  TypeOK' /\ RowsKnown' /\ RowsMade' /\ NewFinite'
<1>1. ASSUME NEW q \in Requests, NEW form \in Forms, BeginEdit(q, form)
      PROVE  TypeOK' /\ RowsKnown' /\ RowsMade' /\ NewFinite'
  <2> DEFINE J == EditJob(form)
  <2>1. /\ J.mem.lists = row.lists
        /\ TypeOK' /\ Busy' = Busy \cup {q} /\ q \notin Busy
        /\ jobs'[q] = J /\ \A p \in Requests : p # q => jobs'[p] = jobs[p]
        /\ Lists' = Lists /\ UNCHANGED <<row, nextRow, seen>>
    BY <1>1, BeginEditDoes
  <2> HIDE DEF J
  <2>2. QED
    BY <2>1, BeginRows
<1>2. ASSUME NEW q \in Requests, BeginStart(q)
      PROVE  TypeOK' /\ RowsKnown' /\ RowsMade' /\ NewFinite'
  <2> DEFINE J == StartJob
  <2>1. /\ J.mem.lists = row.lists
        /\ TypeOK' /\ Busy' = Busy \cup {q} /\ q \notin Busy
        /\ jobs'[q] = J /\ \A p \in Requests : p # q => jobs'[p] = jobs[p]
        /\ Lists' = Lists /\ UNCHANGED <<row, nextRow, seen>>
    BY <1>2, BeginStartDoes
  <2> HIDE DEF J
  <2>2. QED
    BY <2>1, BeginRows
<1>3. ASSUME NEW q \in Requests, Delete(q) \/ Clear(q) \/ Add(q) \/ Swallowed(q)
      PROVE  TypeOK' /\ RowsKnown' /\ RowsMade' /\ NewFinite'
  BY <1>3, StatementRows
<1>4. ASSUME NEW q \in Requests, Save(q)
      PROVE  TypeOK' /\ RowsKnown' /\ RowsMade' /\ NewFinite'
  BY <1>4, SaveRows, SaveDoes
<1>5. ASSUME NEW q \in Requests, Refused(q)
      PROVE  TypeOK' /\ RowsKnown' /\ RowsMade' /\ NewFinite'
  <2>1. /\ TypeOK' /\ Busy' \subseteq Busy /\ Lists' = Lists
        /\ \A p \in Busy' : jobs'[p] = jobs[p]
        /\ UNCHANGED <<row, nextRow, seen>>
    BY <1>5, RefusedDoes, JobsKnown
  <2>2. QED
    BY <2>1, EndRows
<1>6. CASE Crash
  <2>1. /\ TypeOK' /\ Busy' = {} /\ Lists' = Lists /\ UNCHANGED <<row, nextRow, seen>>
    BY <1>6, CrashDoes
  <2>2. QED
    BY <2>1, EndRows
<1>7. CASE Attest \/ Upload
  <2>1. /\ TypeOK' /\ Busy' = Busy /\ Lists' = Lists /\ UNCHANGED <<nextRow, jobs>>
        /\ row'.lists = row.lists /\ seen' \subseteq seen \cup {row}
    BY <1>7, ApproversDo
  <2>2. QED
    BY <2>1, EndRows
<1>8. CASE UNCHANGED vars
  <2>1. UNCHANGED <<kind, row, nextRow, jobs, seen, told>>
    BY <1>8 DEF vars
  <2>2. Lists' = Lists /\ Updates' = Updates /\ Revisions' = Revisions
        /\ EditJobs' = EditJobs /\ StartJobs' = StartJobs
    BY <2>1, ListsStay
  <2>3. Busy' = Busy /\ Edits' = Edits
    BY <2>1 DEF Busy, Edits
  <2>4. TypeOK'
    BY <2>1, <2>2, <2>3 DEF TypeOK, InOrder
  <2>5. QED
    BY <2>1, <2>2, <2>3, <2>4, EndRows
<1>9. QED
  BY <1>1, <1>2, <1>3, <1>4, <1>5, <1>6, <1>7, <1>8 DEF Next

-----------------------------------------------------------------------------
(* Approver set 1 *)

LEMMA OneIsParsed ==
  ASSUME NEW form \in Forms
  PROVE  HasOne(Parsed(form, "required"))
<1>1. Parsed(form, "required") = Objects(form.required \cup {1})
  BY DEF Parsed, ParseApproverSets
<1>2. [id |-> 1, value |-> "object"] \in Objects(form.required \cup {1})
  BY DEF Objects
<1>3. QED
  BY <1>1, <1>2 DEF HasOne

(* The items of a list come in the order of their IDs, so that set 1 is the *)
(* first that is added.                                                     *)
LEMMA OneIsFirst ==
  ASSUME NEW items, items \subseteq Named, NEW x \in FirstByID(items), NEW S,
         HasOne(items) \/ HasOne(S)
  PROVE  HasOne(S \cup {x})
<1>1. CASE HasOne(S)
  BY <1>1 DEF HasOne
<1>2. CASE HasOne(items)
  <2>1. PICK y \in items : y.id = 1
    BY <1>2 DEF HasOne
  <2>2. x.id \in Nat \ {0} /\ x.id <= y.id
    BY DEF FirstByID, Named
  <2>3. x.id = 1
    BY <2>1, <2>2
  <2>4. QED
    BY <2>3 DEF HasOne
<1>3. QED
  BY <1>1, <1>2

LEMMA StepOne ==
  ASSUME TypeOK, OneInForce, NEW q \in Requests, NEW J, NEW r, StepTo(q, J, r),
         "edits" \notin trouble' => "edits" \notin trouble,
         "edits" \notin trouble =>
           /\ OneKept(r) /\ OneKept(J.mem) /\ OneComes(J, r) /\ OneComes(J, J.mem)
  PROVE  OneInForce'
<1> SUFFICES ASSUME "edits" \notin trouble'
             PROVE  /\ \A p, s \in Edits' : p = s
                    /\ OneKept(row)'
                    /\ \A p \in Busy' : OneKept(jobs[p].mem)'
                    /\ \A p \in Edits' : /\ OneComes(jobs[p], row)'
                                         /\ OneComes(jobs[p], jobs[p].mem)'
  BY DEF OneInForce
<1>1. /\ Busy' = Busy /\ Edits' = Edits /\ jobs'[q] = J
      /\ \A p \in Requests : p # q => jobs'[p] = jobs[p]
      /\ Updates' = Updates /\ row' = r
  BY StepToKeeps
<1>2. /\ q \in Edits /\ Busy \subseteq Requests
      /\ \A p \in Edits : p = q
      /\ \A p \in Busy : OneKept(jobs[p].mem)
      /\ OneKept(r) /\ OneKept(J.mem) /\ OneComes(J, r) /\ OneComes(J, J.mem)
  BY JobsKnown DEF OneInForce, StepTo
<1>3. \A p, s \in Edits' : p = s
  BY <1>1, <1>2
<1>4. OneKept(row)'
  BY <1>1, <1>2 DEF OneKept
<1>5. \A p \in Busy' : OneKept(jobs[p].mem)'
  <2>1. \A p \in Busy : OneKept(jobs'[p].mem)
    BY <1>1, <1>2
  <2>2. QED
    BY <2>1, <1>1 DEF OneKept
<1>6. \A p \in Edits' : OneComes(jobs[p], row)' /\ OneComes(jobs[p], jobs[p].mem)'
  BY <1>1, <1>2 DEF OneComes
<1>7. QED
  BY <1>3, <1>4, <1>5, <1>6

LEMMA StatementOne ==
  ASSUME TypeOK, OneInForce, NEW q \in Requests,
         Delete(q) \/ Clear(q) \/ Add(q) \/ Swallowed(q)
  PROVE  OneInForce'
<1> DEFINE l == Current(q)
           mem == jobs[q].mem
           items == jobs[q].items
<1>1. AtList(q)
  BY DEF Delete, Clear, Add, Swallowed
<1>2. /\ q \in Edits /\ q \in Busy /\ l \in Lists /\ kind \in Kinds
      /\ mem \in Revisions /\ row \in Revisions /\ jobs[q].form \in Forms
      /\ items \subseteq Named
  BY <1>1, JobsKnown DEF TypeOK
<1>3. "required" \in Lists /\ "required" \notin Owned
  BY <1>2, KindsHaveLists
<1>4. "edits" \notin trouble =>
        /\ OneKept(row) /\ OneKept(mem)
        /\ jobs[q].cleared /\ l = "required" =>
             /\ HasOne(items) \/ HasOne(row.lists.required)
             /\ HasOne(items) \/ HasOne(mem.lists.required)
  BY <1>2 DEF OneInForce, OneComes, Current
<1>5. l = "required" => HasOne(Parsed(jobs[q].form, l))
  BY <1>2, OneIsParsed
<1>6. "edits" \notin trouble' => "edits" \notin trouble
  BY DEF Delete, Clear, Add, Swallowed
<1>7. jobs[q].at \in DOMAIN Updates /\ Updates[jobs[q].at] = l
  BY <1>1 DEF AtList, Current
<1> HIDE DEF l, mem, items
<1>8. CASE Delete(q)
  <2>1. PICK J : /\ StepTo(q, J, Put(row, l, {})) /\ l \in Owned \cap Lists
                 /\ J.mem = Put(mem, l, Parsed(jobs[q].form, l)) /\ ~J.cleared
    BY <1>8, DeleteDoes DEF l, mem
  <2>2. /\ Put(row, l, {}).lists.required = row.lists.required
        /\ J.mem.lists.required = mem.lists.required
    BY <1>2, <1>3, <2>1, FormsSay, PutRight
  <2>3. QED
    BY <1>4, <1>6, <2>1, <2>2, StepOne DEF OneKept, OneComes
<1>9. CASE Clear(q)
  <2>1. PICK J : /\ StepTo(q, J, Put(row, l, {})) /\ l \in Lists \ Owned
                 /\ J.mem = Put(mem, l, {}) /\ J.items = Parsed(jobs[q].form, l)
                 /\ J.items = {} => ~J.cleared
                 /\ J.items # {} => J.at = jobs[q].at
    BY <1>9, ClearDoes DEF l, mem
  <2>2. CASE l = "required"
    <3>1. Put(row, l, {}).lists.required = {} /\ J.mem.lists.required = {}
      BY <1>2, <2>1, <2>2, PutRight
    <3>2. HasOne(J.items)
      BY <1>5, <2>1, <2>2
    <3>3. QED
      BY <1>6, <2>1, <3>1, <3>2, StepOne DEF OneKept, OneComes
  <2>3. CASE l # "required"
    <3>1. /\ Put(row, l, {}).lists.required = row.lists.required
          /\ J.mem.lists.required = mem.lists.required
      BY <1>2, <1>3, <2>1, <2>3, PutRight
    <3>2. J.cleared => Updates[J.at] # "required"
      BY <1>7, <2>1, <2>3
    <3>3. QED
      BY <1>4, <1>6, <2>1, <3>1, <3>2, StepOne DEF OneKept, OneComes
  <2>4. QED
    BY <2>2, <2>3
<1>10. CASE Add(q)
  <2>1. PICK x, J : /\ StepTo(q, J, Added(row, l, x)) /\ l \in Lists \ Owned
                    /\ x \in ItemsOf(l) /\ x \in FirstByID(items) /\ jobs[q].cleared
                    /\ J.mem = Added(mem, l, x)
                    /\ J.items = {} => ~J.cleared
                    /\ J.items # {} => J.at = jobs[q].at
    BY <1>10, AddDoes DEF l, mem, items
  <2>5. /\ Added(row, l, x).lists[l] = row.lists[l] \cup {x}
        /\ \A k \in Lists : k # l => Added(row, l, x).lists[k] = row.lists[k]
    <3>1. row \in Revisions /\ l \in Lists /\ x \in ItemsOf(l)
      BY <1>2, <2>1
    <3>2. Added(row, l, x).lists[l] = row.lists[l] \cup {x}
      BY <3>1, AddedToList
    <3>3. \A k \in Lists : k # l => Added(row, l, x).lists[k] = row.lists[k]
      BY <3>1, AddedElsewhere
    <3>4. QED
      BY <3>2, <3>3
  <2>6. /\ Added(mem, l, x).lists[l] = mem.lists[l] \cup {x}
        /\ \A k \in Lists : k # l => Added(mem, l, x).lists[k] = mem.lists[k]
    <3>1. mem \in Revisions /\ l \in Lists /\ x \in ItemsOf(l)
      BY <1>2, <2>1
    <3>2. Added(mem, l, x).lists[l] = mem.lists[l] \cup {x}
      BY <3>1, AddedToList
    <3>3. \A k \in Lists : k # l => Added(mem, l, x).lists[k] = mem.lists[k]
      BY <3>1, AddedElsewhere
    <3>4. QED
      BY <3>2, <3>3
  <2>2. CASE l = "required"
    <3>1. Added(row, l, x).lists.required = row.lists.required \cup {x}
      BY <2>2, <2>5
    <3>2. Added(mem, l, x).lists.required = mem.lists.required \cup {x}
      BY <2>2, <2>6
    <3>3. "edits" \notin trouble =>
            /\ HasOne(row.lists.required \cup {x})
            /\ HasOne(mem.lists.required \cup {x})
      BY <1>2, <1>4, <2>1, <2>2, OneIsFirst
    <3>4. QED
      BY <1>6, <2>1, <3>1, <3>2, <3>3, StepOne DEF OneKept, OneComes
  <2>3. CASE l # "required"
    <3>1. Added(row, l, x).lists.required = row.lists.required
      BY <1>3, <2>3, <2>5
    <3>2. Added(mem, l, x).lists.required = mem.lists.required
      BY <1>3, <2>3, <2>6
    <3>3. J.cleared => Updates[J.at] # "required"
      BY <1>7, <2>1, <2>3
    <3>4. QED
      BY <1>4, <1>6, <2>1, <3>1, <3>2, <3>3, StepOne DEF OneKept, OneComes
  <2>4. QED
    BY <2>2, <2>3
<1>11. CASE Swallowed(q)
  <2>1. PICK J : /\ StepTo(q, J, row) /\ l \in Lists \ Owned /\ ~J.cleared
                 /\ \/ J.mem = Put(mem, l, Parsed(jobs[q].form, l))
                    \/ J.mem = Put(mem, l, {})
                    \/ \E x \in FirstByID(items) :
                         /\ jobs[q].cleared /\ x \in ItemsOf(l)
                         /\ J.mem = Added(mem, l, x)
    BY <1>11, SwallowedDoes DEF l, mem, items
  <2>2. "edits" \notin trouble => OneKept(J.mem)
    <3>1. CASE J.mem = Put(mem, l, Parsed(jobs[q].form, l))
      <4>1. /\ J.mem.lists[l] = Parsed(jobs[q].form, l)
            /\ \A k \in Lists : k # l => J.mem.lists[k] = mem.lists[k]
        BY <1>2, <3>1, FormsSay, PutRight
      <4>2. QED
        BY <1>3, <1>4, <1>5, <4>1 DEF OneKept
    <3>2. CASE J.mem = Put(mem, l, {})
      <4>1. /\ J.mem.lists[l] = {}
            /\ \A k \in Lists : k # l => J.mem.lists[k] = mem.lists[k]
        BY <1>2, <3>2, PutRight
      <4>2. QED
        BY <1>3, <1>4, <4>1 DEF OneKept
    <3>3. ASSUME NEW x \in FirstByID(items), jobs[q].cleared, x \in ItemsOf(l),
                 J.mem = Added(mem, l, x), "edits" \notin trouble
          PROVE  OneKept(J.mem)
      <4>4. /\ Added(mem, l, x).lists[l] = mem.lists[l] \cup {x}
            /\ \A k \in Lists : k # l => Added(mem, l, x).lists[k] = mem.lists[k]
        <5>1. mem \in Revisions /\ l \in Lists /\ x \in ItemsOf(l)
          BY <1>2, <3>3
        <5>2. Added(mem, l, x).lists[l] = mem.lists[l] \cup {x}
          BY <5>1, AddedToList
        <5>3. \A k \in Lists : k # l => Added(mem, l, x).lists[k] = mem.lists[k]
          BY <5>1, AddedElsewhere
        <5>4. QED
          BY <5>2, <5>3
      <4>1. CASE l = "required"
        <5>1. Added(mem, l, x).lists.required = mem.lists.required \cup {x}
          BY <4>1, <4>4
        <5>2. HasOne(mem.lists.required \cup {x})
          BY <1>2, <1>4, <3>3, <4>1, OneIsFirst
        <5>3. QED
          BY <3>3, <5>1, <5>2 DEF OneKept
      <4>2. CASE l # "required"
        <5>1. Added(mem, l, x).lists.required = mem.lists.required
          BY <1>3, <4>2, <4>4
        <5>2. QED
          BY <1>4, <3>3, <5>1 DEF OneKept
      <4>3. QED
        BY <4>1, <4>2
    <3>4. QED
      BY <2>1, <3>1, <3>2, <3>3
  <2>3. QED
    BY <1>4, <1>6, <2>1, <2>2, StepOne DEF OneComes
<1>12. QED
  BY <1>8, <1>9, <1>10, <1>11

LEMMA BeginOne ==
  ASSUME TypeOK, OneInForce, NEW q \in Requests, NEW J,
         J.mem.lists = row.lists, Busy' = Busy \cup {q},
         Edits' \subseteq Edits \cup {q}, q \in Edits' => ~J.cleared,
         jobs'[q] = J, \A p \in Requests : p # q => jobs'[p] = jobs[p],
         Updates' = Updates, row' = row,
         "edits" \notin trouble' => /\ "edits" \notin trouble
                                    /\ q \in Edits' => Edits = {}
  PROVE  OneInForce'
<1> SUFFICES ASSUME "edits" \notin trouble'
             PROVE  /\ \A p, s \in Edits' : p = s
                    /\ OneKept(row)'
                    /\ \A p \in Busy' : OneKept(jobs[p].mem)'
                    /\ \A p \in Edits' : /\ OneComes(jobs[p], row)'
                                         /\ OneComes(jobs[p], jobs[p].mem)'
  BY DEF OneInForce
<1>1. /\ Edits \subseteq Busy /\ Busy \subseteq Requests
      /\ \A p, s \in Edits : p = s
      /\ OneKept(row) /\ \A p \in Busy : OneKept(jobs[p].mem)
      /\ \A p \in Edits : OneComes(jobs[p], row) /\ OneComes(jobs[p], jobs[p].mem)
  BY JobsKnown DEF OneInForce
<1>2. OneKept(J.mem)
  BY <1>1 DEF OneKept
<1>3. \A p \in Busy' : OneKept(jobs'[p].mem)
  BY <1>1, <1>2
<1>4. \A p \in Busy' : OneKept(jobs[p].mem)'
  BY <1>3 DEF OneKept
<1>5. \A p \in Edits' : /\ OneComes(jobs[p], row)'
                        /\ OneComes(jobs[p], jobs[p].mem)'
  BY <1>1 DEF OneComes
<1>6. QED
  BY <1>1, <1>4, <1>5 DEF OneKept

LEMMA EndOne ==
  ASSUME TypeOK, OneInForce, Busy' \subseteq Busy, Edits' \subseteq Edits,
         \A p \in Busy' : jobs'[p] = jobs[p], Edits' \subseteq Busy',
         Updates' = Updates,
         "edits" \notin trouble' => "edits" \notin trouble,
         "edits" \notin trouble => OneKept(row'),
         HasOne(row.lists.required) => HasOne(row'.lists.required)
  PROVE  OneInForce'
<1> SUFFICES ASSUME "edits" \notin trouble'
             PROVE  /\ \A p, s \in Edits' : p = s
                    /\ OneKept(row)'
                    /\ \A p \in Busy' : OneKept(jobs[p].mem)'
                    /\ \A p \in Edits' : /\ OneComes(jobs[p], row)'
                                         /\ OneComes(jobs[p], jobs[p].mem)'
  BY DEF OneInForce
<1>1. /\ \A p, s \in Edits : p = s
      /\ OneKept(row') /\ \A p \in Busy : OneKept(jobs[p].mem)
      /\ \A p \in Edits : OneComes(jobs[p], row) /\ OneComes(jobs[p], jobs[p].mem)
  BY DEF OneInForce
<1>2. \A p \in Busy' : OneKept(jobs'[p].mem)
  BY <1>1
<1>3. \A p \in Busy' : OneKept(jobs[p].mem)'
  BY <1>2 DEF OneKept
<1>4. \A p \in Edits' : /\ OneComes(jobs[p], row)'
                        /\ OneComes(jobs[p], jobs[p].mem)'
  BY <1>1 DEF OneComes
<1>5. QED
  BY <1>1, <1>3, <1>4 DEF OneKept

(* Every step keeps set 1 among those that must approve. *)
LEMMA OneStep ==
  ASSUME TypeOK, NewFinite, OneInForce, [Next]_vars
  PROVE  OneInForce'
<1>0. Edits \subseteq Busy /\ Busy \subseteq Requests /\ kind \in Kinds /\ row \in Revisions
  BY JobsKnown DEF TypeOK
<1>1. ASSUME NEW q \in Requests, NEW form \in Forms, BeginEdit(q, form)
      PROVE  OneInForce'
  <2> DEFINE J == EditJob(form)
  <2>1. /\ J.mem.lists = row.lists /\ ~J.cleared
        /\ Busy' = Busy \cup {q} /\ Edits' = Edits \cup {q}
        /\ jobs'[q] = J /\ \A p \in Requests : p # q => jobs'[p] = jobs[p]
        /\ Updates' = Updates /\ row' = row
        /\ "edits" \notin trouble' => Edits = {} /\ "edits" \notin trouble
    BY <1>1, BeginEditDoes
  <2> HIDE DEF J
  <2>2. QED
    BY <2>1, BeginOne
<1>2. ASSUME NEW q \in Requests, BeginStart(q)
      PROVE  OneInForce'
  <2> DEFINE J == StartJob
  <2>1. /\ J.mem.lists = row.lists
        /\ Busy' = Busy \cup {q} /\ q \notin Busy /\ Edits' = Edits
        /\ jobs'[q] = J /\ \A p \in Requests : p # q => jobs'[p] = jobs[p]
        /\ Updates' = Updates /\ row' = row
        /\ "edits" \notin trouble' => "edits" \notin trouble
    BY <1>2, BeginStartDoes
  <2> HIDE DEF J
  <2>2. QED
    BY <1>0, <2>1, BeginOne
<1>3. ASSUME NEW q \in Requests, Delete(q) \/ Clear(q) \/ Add(q) \/ Swallowed(q)
      PROVE  OneInForce'
  BY <1>3, StatementOne
<1>4. ASSUME NEW q \in Requests, Save(q)
      PROVE  OneInForce'
  <2> DEFINE mem == jobs[q].mem
  <2>1. /\ q \in Busy /\ mem \in Revisions /\ FewNew(mem)
        /\ row' = Saved(row, mem, nextRow)
        /\ Busy' = Busy \ {q} /\ Edits' = Edits \ {q}
        /\ \A p \in Requests : p # q => jobs'[p] = jobs[p]
        /\ Updates' = Updates /\ trouble' = trouble
    BY <1>4, SaveDoes
  <2>2. "edits" \notin trouble => OneKept(row) /\ OneKept(mem)
    BY <2>1 DEF OneInForce
  <2>3. "required" \in Lists \ Owned
    BY <1>0, KindsHaveLists
  <2> HIDE DEF mem
  <2>4. row'.lists.required = row.lists.required \cup mem.lists.required
    <3>1. nextRow \in Nat \ {0}
      BY DEF TypeOK
    <3>2. \A l \in Lists \ Owned :
            Saved(row, mem, nextRow).lists[l] = row.lists[l] \cup mem.lists[l]
      BY <1>0, <2>1, <3>1, SavedRight
    <3>3. QED
      BY <2>1, <2>3, <3>2
  <2>5. /\ HasOne(row.lists.required) => HasOne(row'.lists.required)
        /\ "edits" \notin trouble => OneKept(row')
    BY <2>2, <2>4 DEF HasOne, OneKept
  <2>6. QED
    BY <1>0, <2>1, <2>5, EndOne
<1>5. ASSUME NEW q \in Requests, Refused(q)
      PROVE  OneInForce'
  <2>1. /\ Busy' = Busy \ {q} /\ Edits' = Edits \ {q}
        /\ \A p \in Requests : p # q => jobs'[p] = jobs[p]
        /\ Updates' = Updates /\ row' = row /\ trouble' = trouble \cup {"dberror"}
    BY <1>5, RefusedDoes
  <2>2. "edits" \notin trouble => OneKept(row')
    BY <2>1 DEF OneInForce
  <2>3. QED
    BY <1>0, <2>1, <2>2, EndOne
<1>6. CASE Crash
  <2>1. /\ Busy' = {} /\ Edits' = {} /\ Updates' = Updates /\ row' = row
        /\ trouble' = trouble \cup {"crash"}
    BY <1>6, CrashDoes
  <2>2. "edits" \notin trouble => OneKept(row')
    BY <2>1 DEF OneInForce
  <2>3. QED
    BY <2>1, <2>2, EndOne
<1>7. CASE Attest \/ Upload
  <2>1. /\ Busy' = Busy /\ Edits' = Edits /\ Updates' = Updates /\ jobs' = jobs
        /\ row'.lists = row.lists
        /\ "edits" \notin trouble' => "edits" \notin trouble
    BY <1>7, ApproversDo
  <2>2. "edits" \notin trouble => OneKept(row')
    BY <2>1 DEF OneInForce, OneKept
  <2>3. QED
    BY <1>0, <2>1, <2>2, EndOne
<1>8. CASE UNCHANGED vars
  <2>1. UNCHANGED <<kind, row, jobs, trouble>>
    BY <1>8 DEF vars
  <2>2. Busy' = Busy /\ Edits' = Edits /\ Updates' = Updates
    BY <2>1 DEF Busy, Edits, Updates
  <2>3. "edits" \notin trouble => OneKept(row')
    BY <2>1 DEF OneInForce
  <2>4. QED
    BY <1>0, <2>1, <2>2, <2>3, EndOne
<1>9. QED
  BY <1>1, <1>2, <1>3, <1>4, <1>5, <1>6, <1>7, <1>8 DEF Next

-----------------------------------------------------------------------------
(* An edit that nothing disturbs is made as a whole *)

LEMMA StepUndisturbed ==
  ASSUME TypeOK, Undisturbed, NEW q \in Requests, NEW J, NEW r, StepTo(q, J, r),
         trouble' = trouble,
         trouble = {} /\ Follows(jobs[q]) =>
           /\ J.mem.text = J.form.text /\ J.mem.class = J.form.class
           /\ \A i \in DOMAIN Updates :
                LET l == Updates[i] IN
                /\ i < J.at =>
                     /\ J.mem.lists[l] = Parsed(J.form, l)
                     /\ r.lists[l] = IF l \in Owned THEN {} ELSE Parsed(J.form, l)
                /\ J.cleared /\ i = J.at =>
                     /\ r.lists[l] = J.mem.lists[l]
                     /\ J.mem.lists[l] \cup J.items = Parsed(J.form, l)
  PROVE  Undisturbed'
<1>1. /\ Busy' = Busy /\ Edits' = Edits /\ jobs'[q] = J
      /\ \A p \in Requests : p # q => jobs'[p] = jobs[p]
      /\ Updates' = Updates /\ row' = r
  BY StepToKeeps
<1> SUFFICES ASSUME trouble = {} PROVE Undisturbed'
  BY DEF Undisturbed
<1>2. /\ q \in Edits /\ q \in Busy /\ Edits \subseteq Busy /\ \A p \in Busy : p = q
      /\ Follows(jobs[q])
  BY JobsKnown DEF Undisturbed, StepTo
<1>3. Follows(J)'
  BY <1>1, <1>2 DEF Follows, Through, Within
<1>4. \A p \in Edits' : Follows(jobs[p])'
  <2> SUFFICES ASSUME NEW p \in Edits' PROVE Follows(jobs[p])'
    OBVIOUS
  <2>1. p = q
    BY <1>1, <1>2
  <2>2. QED
    BY <1>1, <1>3, <2>1 DEF Follows, Through, Within
<1>5. QED
  BY <1>1, <1>2, <1>4 DEF Undisturbed

LEMMA StatementUndisturbed ==
  ASSUME TypeOK, Undisturbed, NEW q \in Requests,
         Delete(q) \/ Clear(q) \/ Add(q) \/ Swallowed(q)
  PROVE  Undisturbed'
<1> DEFINE l == Current(q)
           mem == jobs[q].mem
           items == jobs[q].items
           form == jobs[q].form
           n == jobs[q].at
<1>1. AtList(q)
  BY DEF Delete, Clear, Add, Swallowed
<1>2. /\ q \in Edits /\ l \in Lists /\ kind \in Kinds
      /\ mem \in Revisions /\ row \in Revisions /\ form \in Forms
      /\ n \in DOMAIN Updates /\ Updates[n] = l
  BY <1>1, JobsKnown DEF TypeOK, Current
<1>3. /\ DOMAIN Updates = 1 .. Len(Updates) /\ Len(Updates) \in Nat
      /\ \A i \in DOMAIN Updates : Updates[i] \in Lists /\ (Updates[i] = l => i = n)
  BY <1>2, UpdatesAreLists, KindsHaveLists
<1>4. /\ \A i \in DOMAIN Updates : i < n => Updates[i] # l
      /\ \A i \in DOMAIN Updates : i < n + 1 <=> i < n \/ i = n
  BY <1>2, <1>3
<1>5. Follows(jobs[q]) =>
        /\ mem.text = form.text /\ mem.class = form.class
        /\ \A i \in DOMAIN Updates : i < n =>
             /\ mem.lists[Updates[i]] = Parsed(form, Updates[i])
             /\ row.lists[Updates[i]] =
                  IF Updates[i] \in Owned THEN {} ELSE Parsed(form, Updates[i])
        /\ jobs[q].cleared =>
             /\ row.lists[l] = mem.lists[l] /\ mem.lists[l] \cup items = Parsed(form, l)
  BY <1>2 DEF Follows, Through, Within
<1>6. Parsed(form, l) \subseteq ItemsOf(l)
  BY <1>2, FormsSay
<1> HIDE DEF l, mem, items, form, n
<1>7. CASE Delete(q)
  <2>1. PICK J : /\ StepTo(q, J, Put(row, l, {})) /\ l \in Owned \cap Lists
                 /\ J.mem = Put(mem, l, Parsed(form, l)) /\ J.at = n + 1 /\ ~J.cleared
    BY <1>7, DeleteDoes DEF l, mem, form, n
  <2>2. J.form = form
    BY <2>1 DEF StepTo, form
  <2>3. /\ J.mem.lists[l] = Parsed(form, l)
        /\ \A k \in Lists : k # l => J.mem.lists[k] = mem.lists[k]
        /\ J.mem.text = mem.text /\ J.mem.class = mem.class
    BY <1>2, <1>6, <2>1, PutRight
  <2>4. /\ Put(row, l, {}).lists[l] = {}
        /\ \A k \in Lists : k # l => Put(row, l, {}).lists[k] = row.lists[k]
    BY <1>2, PutRight
  <2> DEFINE r == Put(row, l, {})
  <2>5. StepTo(q, J, r)
    BY <2>1
  <2>6. Follows(jobs[q]) =>
           /\ J.mem.text = J.form.text /\ J.mem.class = J.form.class
           /\ \A i \in DOMAIN Updates : i < J.at =>
                /\ J.mem.lists[Updates[i]] = Parsed(J.form, Updates[i])
                /\ r.lists[Updates[i]] =
                     IF Updates[i] \in Owned THEN {} ELSE Parsed(J.form, Updates[i])
    BY <1>2, <1>3, <1>4, <1>5, <2>1, <2>2, <2>3, <2>4, ZenonT(40)
  <2>7. trouble' = trouble
    BY <1>7 DEF Delete
  <2> HIDE DEF r
  <2>8. QED
    BY <2>1, <2>5, <2>6, <2>7, StepUndisturbed
<1>8. ASSUME NEW J, NEW r, StepTo(q, J, r), trouble' = trouble, l \in Lists \ Owned,
             J.items = {} => J.at = n + 1 /\ ~J.cleared,
             J.items # {} => J.at = n /\ J.cleared,
             \A k \in Lists : k # l => /\ J.mem.lists[k] = mem.lists[k]
                                       /\ r.lists[k] = row.lists[k],
             J.mem.text = mem.text, J.mem.class = mem.class,
             Follows(jobs[q]) => /\ r.lists[l] = J.mem.lists[l]
                                 /\ J.mem.lists[l] \cup J.items = Parsed(form, l)
      PROVE  Undisturbed'
  <2>1. J.form = form
    BY <1>8 DEF StepTo, form
  <2>2. Follows(jobs[q]) => J.mem.text = J.form.text /\ J.mem.class = J.form.class
    BY <1>5, <1>8, <2>1
  <2>3. Follows(jobs[q]) =>
           \A i \in DOMAIN Updates : i < J.at =>
                /\ J.mem.lists[Updates[i]] = Parsed(J.form, Updates[i])
                /\ r.lists[Updates[i]] =
                     IF Updates[i] \in Owned THEN {} ELSE Parsed(J.form, Updates[i])
    <3> SUFFICES ASSUME Follows(jobs[q]), NEW i \in DOMAIN Updates, i < J.at
                 PROVE  /\ J.mem.lists[Updates[i]] = Parsed(form, Updates[i])
                        /\ r.lists[Updates[i]] =
                             IF Updates[i] \in Owned THEN {} ELSE Parsed(form, Updates[i])
      BY <2>1
    <3>1. CASE i < n
      BY <1>3, <1>4, <1>5, <1>8, <3>1
    <3>2. CASE ~(i < n)
      <4>1. J.items = {} /\ i = n
        BY <1>4, <1>8, <3>2
      <4>2. QED
        BY <1>2, <1>8, <4>1
    <3>3. QED
      BY <3>1, <3>2
  <2>4. Follows(jobs[q]) =>
           \A i \in DOMAIN Updates : J.cleared /\ i = J.at =>
             /\ r.lists[Updates[i]] = J.mem.lists[Updates[i]]
             /\ J.mem.lists[Updates[i]] \cup J.items = Parsed(J.form, Updates[i])
    BY <1>2, <1>8, <2>1
  <2>5. QED
    BY <1>8, <2>2, <2>3, <2>4, StepUndisturbed
<1>9. CASE Clear(q)
  <2>1. PICK J : /\ StepTo(q, J, Put(row, l, {})) /\ l \in Lists \ Owned
                 /\ J.mem = Put(mem, l, {}) /\ J.items = Parsed(form, l)
                 /\ J.items = {} => J.at = n + 1 /\ ~J.cleared
                 /\ J.items # {} => J.at = n /\ J.cleared
                 /\ trouble' = trouble
    BY <1>9, ClearDoes DEF l, mem, form, n
  <2>2. /\ J.mem.lists[l] = {} /\ J.mem.text = mem.text /\ J.mem.class = mem.class
        /\ \A k \in Lists : k # l => J.mem.lists[k] = mem.lists[k]
    BY <1>2, <2>1, PutRight
  <2>3. /\ Put(row, l, {}).lists[l] = {}
        /\ \A k \in Lists : k # l => Put(row, l, {}).lists[k] = row.lists[k]
    BY <1>2, PutRight
  <2>4. /\ Put(row, l, {}).lists[l] = J.mem.lists[l]
        /\ J.mem.lists[l] \cup J.items = Parsed(form, l)
    BY <2>1, <2>2, <2>3
  <2> DEFINE r == Put(row, l, {})
  <2>5. /\ StepTo(q, J, r) /\ r.lists[l] = J.mem.lists[l]
        /\ \A k \in Lists : k # l => /\ J.mem.lists[k] = mem.lists[k]
                                      /\ r.lists[k] = row.lists[k]
    BY <2>1, <2>2, <2>3, <2>4
  <2> HIDE DEF r
  <2>6. QED
    BY <1>8, <2>1, <2>2, <2>4, <2>5
<1>10. CASE Add(q)
  <2>1. PICK x, J : /\ StepTo(q, J, Added(row, l, x)) /\ l \in Lists \ Owned
                    /\ x \in ItemsOf(l) /\ x \in FirstByID(items) /\ jobs[q].cleared
                    /\ J.mem = Added(mem, l, x) /\ J.items = items \ {x}
                    /\ J.items = {} => J.at = n + 1 /\ ~J.cleared
                    /\ J.items # {} => J.at = n /\ J.cleared
                    /\ trouble' = trouble
    BY <1>10, AddDoes DEF l, mem, items, n
  <2>2. mem \in Revisions /\ row \in Revisions /\ l \in Lists /\ x \in ItemsOf(l)
    BY <1>2, <2>1
  <2>3. Added(mem, l, x).lists[l] = mem.lists[l] \cup {x}
    BY <2>2, AddedToList
  <2>4. Added(row, l, x).lists[l] = row.lists[l] \cup {x}
    BY <2>2, AddedToList
  <2>5. \A k \in Lists : k # l => Added(row, l, x).lists[k] = row.lists[k]
    BY <2>2, AddedElsewhere
  <2>6. \A k \in Lists : k # l => Added(mem, l, x).lists[k] = mem.lists[k]
    BY <2>2, AddedElsewhere
  <2>7. Added(mem, l, x).text = mem.text /\ Added(mem, l, x).class = mem.class
    BY <2>2, AddedText
  <2>8. x \in items
    BY <2>1 DEF FirstByID
  <2>9. Follows(jobs[q]) =>
          /\ Added(row, l, x).lists[l] = J.mem.lists[l]
          /\ J.mem.lists[l] \cup J.items = Parsed(form, l)
    <3>1. (mem.lists[l] \cup {x}) \cup (items \ {x}) = mem.lists[l] \cup items
      BY <2>8
    <3>2. QED
      BY <1>5, <2>1, <2>3, <2>4, <3>1
  <2>10. QED
    BY <1>8, <2>1, <2>5, <2>6, <2>7, <2>9
<1>11. CASE Swallowed(q)
  <2>1. trouble' = trouble \cup {"dberror"}
    BY <1>11 DEF Swallowed
  <2>2. QED
    BY <2>1 DEF Undisturbed
<1>12. QED
  BY <1>7, <1>9, <1>10, <1>11

LEMMA ContentOfBoth ==
  ASSUME NEW l, NEW a, NEW b
  PROVE  Content(l, a \cup b) = Content(l, a) \cup Content(l, b)
BY DEF Content

LEMMA SaveUndisturbed ==
  ASSUME TypeOK, NewFinite, Undisturbed, NEW q \in Requests, Save(q)
  PROVE  Undisturbed'
<1> DEFINE mem == jobs[q].mem
           form == jobs[q].form
<1>1. /\ q \in Busy /\ mem \in Revisions /\ FewNew(mem)
      /\ q \in Edits => form \in Forms /\ jobs[q].at \notin DOMAIN Updates
      /\ row' = Saved(row, mem, nextRow)
      /\ Busy' = Busy \ {q} /\ Edits' = Edits \ {q}
      /\ Lists' = Lists /\ told' = IF q \in Edits THEN {form} ELSE told
      /\ trouble' = trouble
  BY SaveDoes
<1>2. Edits \subseteq Busy /\ kind \in Kinds /\ row \in Revisions /\ nextRow \in Nat \ {0}
  BY JobsKnown DEF TypeOK
<1> SUFFICES ASSUME trouble = {} PROVE Undisturbed'
  BY <1>1 DEF Undisturbed
<1>3. Busy' = {} /\ Edits' = {} /\ (q \notin Edits => Edits = {})
  BY <1>1, <1>2 DEF Undisturbed
<1> HIDE DEF mem, form
<1> DEFINE s == Saved(row, mem, nextRow)
<1>9. s.text = mem.text /\ s.class = mem.class
  BY <1>1, <1>2, SavedRight
<1>10. \A l \in Lists \ Owned : s.lists[l] = row.lists[l] \cup mem.lists[l]
  BY <1>1, <1>2, SavedRight
<1>11. \A l \in Owned \cap Lists :
         s.lists[l] = row.lists[l] \cup Inserted(mem.lists[l], nextRow)
  BY <1>1, <1>2, SavedRight
<1>12. ASSUME NEW l \in Owned \cap Lists
       PROVE  {x.value : x \in Inserted(mem.lists[l], nextRow)} =
                {x.value : x \in mem.lists[l]}
  <2>1. IsFiniteSet(New(mem.lists[l])) /\ mem.lists[l] \subseteq [id : Nat, value : Worth]
    BY <1>1 DEF FewNew, Revisions, ItemsOf
  <2>2. Cardinality(New(mem.lists[l])) \in Nat
    BY <2>1, FS_CardinalityType
  <2> DEFINE S == mem.lists[l]
  <2>3. /\ IsFiniteSet(New(S)) /\ S \subseteq [id : Nat, value : Worth]
        /\ Cardinality(New(S)) \in Nat /\ Cardinality(New(S)) <= Cardinality(New(S))
    BY <2>1, <2>2
  <2> HIDE DEF S
  <2>4. {x.value : x \in Inserted(S, nextRow)} = {x.value : x \in S}
    BY <1>2, <2>3, RowsMadeAnew
  <2>5. QED
    BY <2>4 DEF S
<1>4. /\ row'.text = mem.text /\ row'.class = mem.class
      /\ \A l \in Lists \ Owned : row'.lists[l] = row.lists[l] \cup mem.lists[l]
      /\ \A l \in Owned \cap Lists :
           row'.lists[l] = row.lists[l] \cup Inserted(mem.lists[l], nextRow)
  BY <1>1, <1>9, <1>10, <1>11
<1>5. \A l \in Lists :
        Content(l, row'.lists[l]) = Content(l, row.lists[l]) \cup Content(l, mem.lists[l])
  <2> SUFFICES ASSUME NEW l \in Lists
               PROVE  Content(l, row'.lists[l])
                        = Content(l, row.lists[l]) \cup Content(l, mem.lists[l])
    OBVIOUS
  <2>1. CASE l \notin Owned
    BY <1>4, <2>1, ContentOfBoth
  <2>2. CASE l \in Owned
    <3> DEFINE made == Inserted(mem.lists[l], nextRow)
    <3>1. row'.lists[l] = row.lists[l] \cup made
      BY <1>4, <2>2
    <3>2. Content(l, made) = Content(l, mem.lists[l])
      <4>1. \A S : Content(l, S) = {x.value : x \in S}
        BY <2>2 DEF Content
      <4>2. QED
        BY <4>1, <1>12, <2>2
    <3> HIDE DEF made
    <3>3. QED
      BY <3>1, <3>2, ContentOfBoth
  <2>3. QED
    BY <2>1, <2>2
<1>6. CASE q \in Edits
  <2>1. /\ mem.text = form.text /\ mem.class = form.class
        /\ \A i \in DOMAIN Updates : i < jobs[q].at => Through(jobs[q], Updates[i])
    BY <1>6 DEF Undisturbed, Follows, mem, form
  <2>2. \A i \in DOMAIN Updates : i < jobs[q].at
    BY <1>1, <1>2, <1>6, JobsKnown, UpdatesAreLists
  <2>3. \A l \in Lists :
          /\ mem.lists[l] = Parsed(form, l)
          /\ row.lists[l] = IF l \in Owned THEN {} ELSE Parsed(form, l)
    <3> SUFFICES ASSUME NEW l \in Lists
                 PROVE  /\ mem.lists[l] = Parsed(form, l)
                        /\ row.lists[l] = IF l \in Owned THEN {} ELSE Parsed(form, l)
      OBVIOUS
    <3>1. PICK i \in DOMAIN Updates : Updates[i] = l
      BY <1>2, KindsHaveLists
    <3>2. QED
      BY <2>1, <2>2, <3>1 DEF Through, mem, form
  <2>4. \A l : Content(l, {}) = {}
    BY DEF Content
  <2>5. \A l \in Lists : Content(l, row'.lists[l]) = Content(l, Parsed(form, l))
    BY <1>5, <2>3, <2>4
  <2>6. row'.text = form.text /\ row'.class = form.class
    BY <1>4, <2>1
  <2>7. PICK f \in Forms : f = form
    BY <1>1, <1>6
  <2>8. /\ row'.text = f.text /\ row'.class = f.class /\ told' = {f}
        /\ \A l \in Lists' : Content(l, row'.lists[l]) = Content(l, Parsed(f, l))
    BY <1>1, <1>6, <2>5, <2>6, <2>7
  <2>9. \E g \in told' : Carries(row, g)'
    BY <2>8 DEF Carries
  <2>10. QED
    BY <1>3, <2>9 DEF Undisturbed
<1>7. CASE q \notin Edits
  <2>1. mem = [row EXCEPT !.st = "pendingapproval"]
    BY <1>1, <1>7 DEF Undisturbed, mem
  <2>2. mem.text = row.text /\ mem.class = row.class /\ mem.lists = row.lists
    BY <1>2, <2>1 DEF Revisions
  <2>3. PICK f \in told : Carries(row, f)
    BY <1>3, <1>7 DEF Undisturbed
  <2>4. /\ row'.text = f.text /\ row'.class = f.class
        /\ \A l \in Lists : Content(l, row'.lists[l]) = Content(l, Parsed(f, l))
    BY <1>4, <1>5, <2>2, <2>3 DEF Carries
  <2>5. f \in told' /\ Carries(row', f)
    BY <1>1, <1>7, <2>4 DEF Carries
  <2>6. \E g \in told' : Carries(row, g)'
    BY <2>4, <2>5, <1>1 DEF Carries
  <2>7. QED
    BY <1>3, <2>6 DEF Undisturbed
<1>8. QED
  BY <1>6, <1>7

(* Every step but those that are trouble lets an edit go on as a whole. *)
LEMMA UndisturbedStep ==
  ASSUME TypeOK, NewFinite, Undisturbed, [Next]_vars
  PROVE  Undisturbed'
<1>0. Edits \subseteq Busy /\ kind \in Kinds /\ row \in Revisions
  BY JobsKnown DEF TypeOK
<1>1. ASSUME NEW q \in Requests, NEW form \in Forms, BeginEdit(q, form)
      PROVE  Undisturbed'
  <2> DEFINE J == EditJob(form)
  <2>1. /\ J.mem.text = form.text /\ J.mem.class = form.class /\ J.form = form
        /\ J.at = 1 /\ ~J.cleared
        /\ Busy' = Busy \cup {q} /\ Edits' = Edits \cup {q} /\ jobs'[q] = J
        /\ Updates' = Updates
        /\ trouble' = {} => Busy = {} /\ trouble = {}
    BY <1>1, BeginEditDoes
  <2> HIDE DEF J
  <2>2. \A i \in DOMAIN Updates : ~(i < 1)
    BY <1>0, UpdatesAreLists
  <2>4. ASSUME trouble' = {} PROVE Busy' = {q} /\ Edits' = {q}
    BY <1>0, <2>1, <2>4
  <2>5. Follows(jobs[q])'
    BY <2>1, <2>2 DEF Follows
  <2>6. QED
    BY <2>4, <2>5 DEF Undisturbed
<1>2. ASSUME NEW q \in Requests, BeginStart(q)
      PROVE  Undisturbed'
  <2> DEFINE J == StartJob
  <2>1. /\ J.mem = [row EXCEPT !.st = "pendingapproval"]
        /\ Busy' = Busy \cup {q} /\ Edits' = Edits /\ jobs'[q] = J
        /\ UNCHANGED <<kind, row, told>> /\ Lists' = Lists
        /\ trouble' = {} => Busy = {} /\ trouble = {}
    BY <1>2, BeginStartDoes
  <2> HIDE DEF J
  <2>2. ASSUME trouble' = {} PROVE Busy' = {q} /\ Edits' = {} /\ Edits = {} /\ trouble = {}
    BY <1>0, <2>1, <2>2
  <2>3. ASSUME trouble' = {} PROVE \E form \in told' : Carries(row, form)'
    BY <2>1, <2>2, <2>3 DEF Undisturbed, Carries
  <2>4. QED
    BY <2>1, <2>2, <2>3 DEF Undisturbed
<1>3. ASSUME NEW q \in Requests, Delete(q) \/ Clear(q) \/ Add(q) \/ Swallowed(q)
      PROVE  Undisturbed'
  BY <1>3, StatementUndisturbed
<1>4. ASSUME NEW q \in Requests, Save(q)
      PROVE  Undisturbed'
  BY <1>4, SaveUndisturbed
<1>5. ASSUME NEW q \in Requests, Refused(q)
      PROVE  Undisturbed'
  BY <1>5 DEF Refused, Undisturbed
<1>6. CASE Crash
  BY <1>6 DEF Crash, Undisturbed
<1>7. CASE Attest \/ Upload
  <2>1. /\ Busy' = Busy /\ Edits' = Edits /\ Lists' = Lists /\ told' = told
        /\ row'.lists = row.lists /\ row'.text = row.text /\ row'.class = row.class
        /\ trouble' = {} => Busy = {} /\ trouble = {}
    BY <1>7, ApproversDo
  <2>2. ASSUME trouble' = {} PROVE \E form \in told' : Carries(row, form)'
    BY <1>0, <2>1, <2>2 DEF Undisturbed, Carries
  <2>3. QED
    BY <1>0, <2>1, <2>2 DEF Undisturbed
<1>8. CASE UNCHANGED vars
  <2>1. UNCHANGED <<kind, row, jobs, told, trouble>>
    BY <1>8 DEF vars
  <2>2. Busy' = Busy /\ Edits' = Edits /\ Updates' = Updates /\ Lists' = Lists
    BY <2>1 DEF Busy, Edits, Updates, Lists
  <2>3. QED
    BY <2>1, <2>2 DEF Undisturbed, Carries, Follows, Through, Within
<1>9. QED
  BY <1>1, <1>2, <1>3, <1>4, <1>5, <1>6, <1>7, <1>8 DEF Next

-----------------------------------------------------------------------------
(* The invariant *)

(* A new revision has the rows that its form asks for, with the first IDs. *)
LEMMA CreatedDoes ==
  ASSUME kind \in Kinds, NEW form \in Forms
  PROVE  /\ Created(form) \in Revisions
         /\ Cardinality(UNION {Parsed(form, l) : l \in Owned \cap Lists}) \in Nat
         /\ \A l \in Owned \cap Lists :
              /\ \A x \in Created(form).lists[l] : x.id # 0
              /\ Known(Created(form).lists[l],
                       1 + Cardinality(UNION {Parsed(form, k) : k \in Owned \cap Lists}))
         /\ HasOne(Created(form).lists["required"])
         /\ Carries(Created(form), form)
<1> DEFINE r == Created(form)
           n == Cardinality(UNION {Parsed(form, l) : l \in Owned \cap Lists})
<1>1. /\ r = [st |-> "new", text |-> form.text, class |-> form.class,
              lists |-> [l \in Lists |-> r.lists[l]]]
      /\ \A l \in Lists : r.lists[l] = Inserted(Parsed(form, l), 1)
  BY DEF Created
<1> HIDE DEF r
<1>2. ASSUME NEW l \in Lists \ Owned PROVE r.lists[l] = Parsed(form, l)
  BY <1>1, FormsSay, ObjectsKept DEF ItemsOf
<1>3. ASSUME NEW l \in Owned \cap Lists
      PROVE  /\ n \in Nat
             /\ r.lists[l] \subseteq [id : Nat \ {0}, value : Worth]
             /\ \A x \in r.lists[l] : x.id < 1 + n
             /\ \A x, y \in r.lists[l] : x.id = y.id => x = y
             /\ {x.value : x \in r.lists[l]} = {x.value : x \in Parsed(form, l)}
  <2> DEFINE P == Parsed(form, l)
  <2>1. /\ P \subseteq [id : Nat, value : Worth] /\ IsFiniteSet(New(P))
        /\ \A x \in P : x.id = 0
    BY FormsSay DEF ItemsOf
  <2>2. r.lists[l] = Inserted(P, 1)
    BY <1>1
  <2>3. {Parsed(form, k) : k \in Owned \cap Lists} = {P}
    BY KindsHaveLists
  <2>4. UNION {P} = P
    OBVIOUS
  <2> HIDE DEF P
  <2>5. New(P) = P
    BY <2>1 DEF New
  <2>6. n = Cardinality(New(P))
    BY <2>3, <2>4, <2>5
  <2>7. n \in Nat
    BY <2>1, <2>6, FS_CardinalityType
  <2> HIDE DEF n
  <2>8. /\ Inserted(P, 1) \subseteq [id : Nat \ {0}, value : Worth]
        /\ \A x \in Inserted(P, 1) : x \in P \/ (x.id >= 1 /\ x.id < 1 + n)
        /\ \A x, y \in Inserted(P, 1) : x \notin P /\ y \notin P /\ x.id = y.id => x = y
        /\ {x.value : x \in Inserted(P, 1)} = {x.value : x \in P}
    <3>1. 1 \in Nat \ {0} /\ n <= n /\ Cardinality(New(P)) <= n
      BY <2>6, <2>7
    <3>2. QED
      BY <2>1, <2>7, <3>1, RowsMadeAnew
  <2>9. \A x \in Inserted(P, 1) : x \notin P
    BY <2>1, <2>8
  <2>10. QED
    BY <2>2, <2>7, <2>8, <2>9 DEF P
<1>4. n \in Nat
  <2>1. CASE Owned \cap Lists = {}
    <3>1. UNION {Parsed(form, l) : l \in Owned \cap Lists} = {}
      BY <2>1
    <3>2. QED
      BY <3>1, FS_EmptySet
  <2>2. QED
    BY <2>1, <1>3
<1>5. \A l \in Lists : r.lists[l] \subseteq ItemsOf(l)
  <2> SUFFICES ASSUME NEW l \in Lists PROVE r.lists[l] \subseteq ItemsOf(l)
    OBVIOUS
  <2>1. CASE l \in Owned
    BY <1>3, <2>1 DEF ItemsOf
  <2>2. CASE l \notin Owned
    BY <1>2, <2>2, FormsSay
  <2>3. QED
    BY <2>1, <2>2
<1>6. r \in Revisions
  <2>1. \A l \in Lists : r.lists[l] \subseteq Named \cup [id : Nat, value : Worth]
    BY <1>5 DEF ItemsOf
  <2>2. QED
    BY <1>1, <1>5, <2>1 DEF Revisions
<1>7. \A l \in Lists : Content(l, r.lists[l]) = Content(l, Parsed(form, l))
  <2> SUFFICES ASSUME NEW l \in Lists
               PROVE  Content(l, r.lists[l]) = Content(l, Parsed(form, l))
    OBVIOUS
  <2>1. CASE l \in Owned
    <3>1. \A S : Content(l, S) = {x.value : x \in S}
      BY <2>1 DEF Content
    <3>2. QED
      BY <1>3, <2>1, <3>1
  <2>2. CASE l \notin Owned
    BY <1>2, <2>2
  <2>3. QED
    BY <2>1, <2>2
<1>8. Carries(r, form)
  <2>1. r.text = form.text /\ r.class = form.class
    BY <1>1
  <2>2. QED
    BY <1>7, <2>1 DEF Carries
<1>9. HasOne(r.lists["required"])
  BY <1>2, KindsHaveLists, OneIsParsed
<1>10. \A l \in Owned \cap Lists :
         (\A x \in r.lists[l] : x.id # 0) /\ Known(r.lists[l], 1 + n)
  <2> HIDE DEF n
  <2>1. QED
    BY <1>3 DEF Known
<1>11. QED
  BY <1>4, <1>6, <1>8, <1>9, <1>10 DEF r

LEMMA Initially == Init => Inv
<1> SUFFICES ASSUME Init PROVE Inv
  OBVIOUS
<1>1. /\ kind \in Kinds /\ jobs = [q \in Requests |-> Idle] /\ seen = {}
  BY DEF Init
<1>2. PICK form \in Forms :
        /\ row = Created(form)
        /\ nextRow = 1 + Cardinality(UNION {Parsed(form, l) : l \in Owned \cap Lists})
        /\ told = {form}
  BY DEF Init
<1>3. Busy = {} /\ Edits = {}
  BY <1>1 DEF Busy, Edits, Idle
<1>4. /\ row \in Revisions /\ nextRow \in Nat \ {0}
      /\ \A l \in Owned \cap Lists :
           (\A x \in row.lists[l] : x.id # 0) /\ Known(row.lists[l], nextRow)
      /\ HasOne(row.lists["required"]) /\ Carries(row, form)
  <2> DEFINE r == Created(form)
             n == Cardinality(UNION {Parsed(form, l) : l \in Owned \cap Lists})
  <2>1. /\ r \in Revisions /\ n \in Nat
        /\ \A l \in Owned \cap Lists :
             (\A x \in r.lists[l] : x.id # 0) /\ Known(r.lists[l], 1 + n)
        /\ HasOne(r.lists["required"]) /\ Carries(r, form)
    BY <1>1, CreatedDoes
  <2>2. row = r /\ nextRow = 1 + n
    BY <1>2
  <2> HIDE DEF r, n
  <2>3. QED
    BY <2>1, <2>2
<1>5. TypeOK
  BY <1>1, <1>2, <1>3, <1>4 DEF TypeOK
<1>6. Held = {row} /\ \A l : Rows(l) = row.lists[l]
  BY <1>1, <1>3 DEF Held, Rows
<1>7. RowsKnown
  BY <1>4, <1>6 DEF RowsKnown
<1>8. RowsMade
  BY <1>1, <1>4 DEF RowsMade
<1>9. NewFinite
  BY <1>3 DEF NewFinite
<1>10. OneInForce
  BY <1>3, <1>4 DEF OneInForce, OneKept
<1>11. Undisturbed
  BY <1>2, <1>3, <1>4 DEF Undisturbed
<1>12. QED
  BY <1>5, <1>7, <1>8, <1>9, <1>10, <1>11 DEF Inv

(* What every state has (UpdateHandlerWeb, ParseFromFormUpdate and          *)
(* StartApprovalProcess of every kind): the variables have their types, the *)
(* ID of a row stands for one value for good, set 1 is not lost, and an     *)
(* edit that nothing disturbs makes of the row what its form says.          *)
THEOREM Invariance == Spec => []Inv
<1>1. Inv /\ [Next]_vars => Inv'
  BY RowsStep, OneStep, UndisturbedStep DEF Inv
<1>2. QED
  BY Initially, <1>1, PTL DEF Spec

-----------------------------------------------------------------------------
(* The properties *)

(* An answered edit that nothing disturbed is whole (ParseFromFormUpdate    *)
(* with the save of UpdateHandlerWeb).                                      *)
THEOREM EditIsWholeHolds == Spec => []EditIsWhole
<1>1. Inv => EditIsWhole
  <2> SUFFICES ASSUME Inv, trouble = {}, Busy = {}
               PROVE  \E form \in told : Carries(row, form)
    BY DEF EditIsWhole
  <2>1. Edits = {}
    BY JobsKnown DEF Inv
  <2>2. QED
    BY <2>1 DEF Inv, Undisturbed
<1>2. QED
  BY Invariance, <1>1, PTL

(* Set 1 is asked about the next change of an object that is in force,      *)
(* whatever edits of it failed, stopped or were overtaken by other requests *)
(* (ParseApproverSets, UpdateApproverSets and StartApprovalProcess); only   *)
(* two edits at a time are left out, which can lose it.                     *)
THEOREM SetOneApprovesHolds == Spec => []SetOneApproves
<1>1. Inv => SetOneApproves
  <2> SUFFICES ASSUME Inv, "edits" \notin trouble
               PROVE  1 \in NextApprovals(row)
    BY DEF SetOneApproves
  <2>1. row.lists.required = {} \/ HasOne(row.lists.required)
    BY DEF Inv, OneInForce, OneKept
  <2>2. QED
    BY <2>1 DEF NextApprovals, HasOne
<1>2. QED
  BY Invariance, <1>1, PTL

(* Every kind compares its text and all of its lists. *)
LEMMA AllIsCompared ==
  ASSUME kind \in Kinds, NEW e, NEW r, CompareExport(e, r)
  PROVE  /\ e.text = r.text
         /\ \A l \in Lists : SameItems(r.lists[l], e.lists[l])
<1> USE DEF SameSetExports, CompareHostAddressLists, CompareDSDataEntries,
            CompareToHostExportShortLists, CompareToApproverExportShortLists,
            CompareToApproverSetExportShortLists
<1>1. kind \in AllKinds
  BY RevisionKinds
<1>2. CASE kind = "domain"
  <2>1. Lists = {"required", "informed", "hostnames", "ds"}
    BY <1>2 DEF Lists, DomainRevisionLists
  <2>2. DomainRevisionCompareExport(e, r)
    BY <1>2 DEF CompareExport
  <2>3. QED
    BY <2>1, <2>2 DEF DomainRevisionCompareExport
<1>3. CASE kind = "host"
  <2>1. Lists = {"required", "informed", "addresses"}
    BY <1>3 DEF Lists, HostRevisionLists
  <2>2. HostRevisionCompareExport(e, r)
    BY <1>3 DEF CompareExport
  <2>3. QED
    BY <2>1, <2>2 DEF HostRevisionCompareExport
<1>4. CASE kind = "contact"
  <2>1. Lists = {"required", "informed"}
    BY <1>4 DEF Lists, ContactRevisionLists
  <2>2. ContactRevisionCompareExport(e, r)
    BY <1>4 DEF CompareExport
  <2>3. QED
    BY <2>1, <2>2 DEF ContactRevisionCompareExport
<1>5. CASE kind = "apiuser"
  <2>1. Lists = {"required", "informed"}
    BY <1>5 DEF Lists, APIUserRevisionLists
  <2>2. APIUserRevisionCompareExport(e, r)
    BY <1>5 DEF CompareExport
  <2>3. QED
    BY <2>1, <2>2 DEF APIUserRevisionCompareExport
<1>6. CASE kind = "approver"
  <2>1. Lists = {"required", "informed"}
    BY <1>6 DEF Lists, ApproverRevisionLists
  <2>2. ApproverRevisionCompareExport(e, r)
    BY <1>6 DEF CompareExport
  <2>3. QED
    BY <2>1, <2>2 DEF ApproverRevisionCompareExport
<1>7. CASE kind = "approverset"
  <2>1. Lists = {"required", "informed", "approvers"}
    BY <1>7 DEF Lists, ApproverSetRevisionLists
  <2>2. ApproverSetRevisionCompareExport(e, r)
    BY <1>7 DEF CompareExport
  <2>3. QED
    BY <2>1, <2>2 DEF ApproverSetRevisionCompareExport
<1>8. QED
  BY <1>1, <1>2, <1>3, <1>4, <1>5, <1>6, <1>7 DEF AllKinds

(* Lists with the same IDs, or with the same values, say the same. *)
LEMMA SameSaid ==
  ASSUME NEW l, NEW a, NEW b,
         \/ /\ l \notin Owned
            /\ \A x \in a : \E y \in b : x.id = y.id
            /\ \A y \in b : \E x \in a : x.id = y.id
         \/ /\ l \in Owned
            /\ \A x \in a : \E y \in b : x.value = y.value
            /\ \A y \in b : \E x \in a : x.value = y.value
  PROVE  Content(l, a) = Content(l, b)
<1>1. CASE l \notin Owned
  <2>1. {x.id : x \in a} = {x.id : x \in b}
    BY <1>1
  <2>2. QED
    BY <1>1, <2>1 DEF Content
<1>2. CASE l \in Owned
  <2>1. {x.value : x \in a} = {x.value : x \in b}
    BY <1>2
  <2>2. QED
    BY <1>2, <2>1 DEF Content
<1>3. QED
  BY <1>1, <1>2

(* What a client takes for the signed object says what was signed           *)
(* (CompareExport of every kind): the IDs of the rows are enough, since     *)
(* nothing but the rows of a list is ever given the ID of one of them.      *)
THEOREM AcceptedAsSignedHolds == Spec => []AcceptedAsSigned
<1>1. Inv => AcceptedAsSigned
  <2> SUFFICES ASSUME Inv, NEW e \in seen, CompareExport(e, row)
               PROVE  SaysTheSame(e, row)
    BY DEF AcceptedAsSigned
  <2>1. e.text = row.text /\ \A l \in Lists : SameItems(row.lists[l], e.lists[l])
    BY AllIsCompared DEF Inv, TypeOK
  <2>2. ASSUME NEW l \in Lists
        PROVE  Content(l, e.lists[l]) = Content(l, row.lists[l])
    <3>1. /\ \A x \in row.lists[l] : \E y \in e.lists[l] : x.id = y.id
          /\ \A y \in e.lists[l] : \E x \in row.lists[l] : x.id = y.id
      BY <2>1 DEF SameItems
    <3>2. CASE l \notin Owned
      BY <3>1, <3>2, SameSaid
    <3>3. CASE l \in Owned
      <4>1. e.lists[l] \subseteq Rows(l) /\ row.lists[l] \subseteq Rows(l)
        BY DEF Rows, Held
      <4>2. \A x, y \in Rows(l) : x.id # 0 /\ x.id = y.id => x.value = y.value
        BY <3>3 DEF Inv, RowsKnown, Known
      <4>3. \A x \in row.lists[l] \cup e.lists[l] : x.id # 0
        BY <3>3 DEF Inv, RowsMade
      <4>4. /\ \A x \in row.lists[l] : \E y \in e.lists[l] : x.value = y.value
            /\ \A y \in e.lists[l] : \E x \in row.lists[l] : x.value = y.value
        BY <3>1, <4>1, <4>2, <4>3
      <4>5. QED
        BY <3>3, <4>4, SameSaid
    <3>4. QED
      BY <3>2, <3>3
  <2>3. QED
    BY <2>1, <2>2 DEF SaysTheSame
<1>2. QED
  BY Invariance, <1>1, PTL
=============================================================================
