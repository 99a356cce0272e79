--------------------------- MODULE ClientCacheProofs ---------------------------
(***************************************************************************)
(* Proofs about ClientCache, for any objects, any history of revisions and *)
(* any number of programs that read, stop and start again: what the files  *)
(* on the disk say was so, and stays so whatever is promoted later.        *)
(***************************************************************************)
EXTENDS ClientCache, WellFoundedInduction, NaturalsInduction, TLAPS

-----------------------------------------------------------------------------
(* The least and the greatest of a set of numbers *)

LEMMA LeastExists ==
  ASSUME NEW S \in SUBSET Nat, S # {}
  PROVE  \E r \in S : \A q \in S : r <= q
<1>1. PICK r \in S : \A q \in S : ~(<<q, r>> \in OpToRel(<, Nat))
  BY NatLessThanWellFounded, WFMin, Zenon
<1>2. ASSUME NEW q \in S
      PROVE  r <= q
  <2>1. OpToRel(<, Nat) = {ss \in Nat \X Nat : ss[1] < ss[2]}
    BY Zenon DEF OpToRel
  <2>2. <<q, r>> \notin {ss \in Nat \X Nat : ss[1] < ss[2]}
    BY <1>1, <2>1
  <2>3. r \in Nat /\ q \in Nat
    OBVIOUS
  <2> QED BY <2>2, <2>3
<1> QED BY <1>2

LEMMA GreatestExists ==
  ASSUME NEW S \in SUBSET Nat, S # {}, NEW n \in Nat, \A s \in S : s <= n
  PROVE  \E r \in S : \A q \in S : q <= r
<1> DEFINE below == {n - s : s \in S}
<1>1. below \in SUBSET Nat /\ below # {}
  <2>1. \A s \in S : s \in Nat /\ s <= n
    OBVIOUS
  <2>2. \A s \in S : n - s \in Nat
    BY <2>1
  <2> QED BY <2>2
<1>2. PICK b \in below : \A c \in below : b <= c
  BY <1>1, LeastExists
<1>3. PICK r \in S : b = n - r
  BY <1>2
<1>4. \A q \in S : n - r <= n - q
  BY <1>2, <1>3
<1> QED BY <1>4

-----------------------------------------------------------------------------
(* The invariant *)

(* The server: one revision of an object at a time is open, and nothing is *)
(* submitted in the second of a promotion.                                 *)
InOrder ==
  /\ now \in Nat
  /\ revisions \in Seq(Revision) /\ Len(revisions) <= MaxRevisions
  /\ \A r \in DOMAIN revisions :
       /\ revisions[r].created <= now
       /\ Promoted(r) => /\ revisions[r].created < revisions[r].promoted
                         /\ revisions[r].promoted <= now
       /\ \A q \in DOMAIN revisions :
            /\ revisions[r].promoted # revisions[q].created
            /\ r # q /\ revisions[r].object = revisions[q].object =>
                 \/ Promoted(r) /\ revisions[r].promoted < revisions[q].created
                 \/ Promoted(q) /\ revisions[q].promoted < revisions[r].created

Window == [revision : 1 .. MaxRevisions, min : Nat, max : Nat]

(* No later revision of the object was promoted before a window's end.     *)
Fits(o, w) ==
  /\ w.revision \in DOMAIN revisions /\ revisions[w.revision].object = o
  /\ Promoted(w.revision)
  /\ revisions[w.revision].promoted <= w.min /\ w.min <= w.max /\ w.max <= now
  /\ \A q \in DOMAIN revisions :
       revisions[q].object = o /\ Promoted(q) /\ revisions[q].promoted < w.max =>
         revisions[q].promoted <= revisions[w.revision].promoted

WindowsFit ==
  /\ windows \in [Objects -> Seq(Window) \union {Torn}]
  /\ \A o \in Objects : windows[o] # Torn =>
       \A i \in DOMAIN windows[o] : Fits(o, windows[o][i])

(* What a window of this second leads to is as fresh as a hint can be.     *)
FreshAs(o, u) ==
  /\ u = updated[o] \/ updated[o] = now
  /\ hints[o] # None => u >= hints[o].last \/ hints[o].last = now

FreshWindows(o) ==
  windows[o] # Torn =>
    \A i \in DOMAIN windows[o] :
      LET w == windows[o][i] IN
      w.max = now /\ snapshots[w.revision] # None =>
        FreshAs(o, snapshots[w.revision].updated)

Fresh ==
  /\ updated \in [Objects -> Nat] /\ \A o \in Objects : updated[o] <= now
  /\ hints \in [Objects -> [revision : 1 .. MaxRevisions, last : Nat] \union {None}]
  /\ snapshots \in [1 .. MaxRevisions -> [updated : Nat] \union {None}]
  /\ \A o \in Objects : hints[o] # None => o \in Hinted /\ hints[o].last <= updated[o]
  /\ \A o \in Hinted : FreshWindows(o)

Inv == InOrder /\ WindowsFit /\ Fresh

-----------------------------------------------------------------------------
(* What the server gives *)

LEMMA RevisionTypes ==
  ASSUME revisions \in Seq(Revision), Len(revisions) <= MaxRevisions
  PROVE  /\ DOMAIN revisions \in SUBSET (1 .. MaxRevisions)
         /\ DOMAIN revisions = 1 .. Len(revisions) /\ Len(revisions) \in Nat
         /\ \A r \in DOMAIN revisions :
              /\ r \in Nat /\ r \in 1 .. MaxRevisions /\ r # None
              /\ revisions[r] \in Revision
              /\ revisions[r].object \in Objects
              /\ revisions[r].created \in Nat
              /\ revisions[r].promoted \in Nat \union {NotYet}
              /\ Promoted(r) => revisions[r].promoted \in Nat
<1>1. DOMAIN revisions = 1 .. Len(revisions) /\ Len(revisions) \in Nat
  OBVIOUS
<1>2. ASSUME NEW r \in DOMAIN revisions
      PROVE  revisions[r] \in Revision
  BY <1>1
<1>3. ASSUME NEW x \in Revision
      PROVE  /\ x.object \in Objects /\ x.created \in Nat
             /\ x.promoted \in Nat \union {NotYet}
  BY DEF Revision
<1>4. DOMAIN revisions \in SUBSET (1 .. MaxRevisions)
  BY <1>1, ClientCacheAssumption
<1> QED BY <1>1, <1>2, <1>3, <1>4, ClientCacheAssumption DEF Promoted

LEMMA Served ==
  ASSUME InOrder, NEW o, NEW ts \in Nat, PromotedAt(o, ts) # {}
  PROVE  /\ GetRevisionAtTime(o, ts) \in PromotedAt(o, ts)
         /\ GetRevisionAtTime(o, ts) # None
         /\ \A q \in PromotedAt(o, ts) :
              revisions[q].promoted <= revisions[GetRevisionAtTime(o, ts)].promoted
<1> DEFINE P == PromotedAt(o, ts)
           times == {revisions[q].promoted : q \in P}
<1>1. \A q \in P : q \in Nat /\ revisions[q].promoted \in Nat /\ revisions[q].promoted <= ts
  BY RevisionTypes DEF InOrder, PromotedAt
<1>2. times \in SUBSET Nat /\ times # {} /\ \A t \in times : t <= ts
  BY <1>1
<1>3. \E t \in times : \A u \in times : u <= t
  BY <1>2, GreatestExists
<1>4. \E r \in P : \A q \in P : revisions[q].promoted <= revisions[r].promoted
  BY <1>3
<1>5. GetRevisionAtTime(o, ts) =
        CHOOSE r \in P : \A q \in P : revisions[q].promoted <= revisions[r].promoted
  BY DEF GetRevisionAtTime
<1>6. /\ GetRevisionAtTime(o, ts) \in P
      /\ \A q \in P : revisions[q].promoted <= revisions[GetRevisionAtTime(o, ts)].promoted
  BY <1>4, <1>5
<1> QED BY <1>1, <1>6, ClientCacheAssumption

LEMMA NotServed ==
  ASSUME NEW o, NEW ts, PromotedAt(o, ts) = {}
  PROVE  GetRevisionAtTime(o, ts) = None
  BY DEF GetRevisionAtTime

LEMMA PromotedOnce ==
  ASSUME InOrder, NEW r \in DOMAIN revisions, NEW q \in DOMAIN revisions,
         Promoted(r), Promoted(q), revisions[r].object = revisions[q].object,
         revisions[r].promoted = revisions[q].promoted
  PROVE  r = q
<1>1. /\ revisions[r].promoted \in Nat /\ revisions[q].promoted \in Nat
      /\ revisions[r].created \in Nat /\ revisions[q].created \in Nat
      /\ revisions[r].created < revisions[r].promoted
      /\ revisions[q].created < revisions[q].promoted
  BY RevisionTypes DEF InOrder
<1> QED BY <1>1 DEF InOrder

(* A second of a window is the window's, or the second of a promotion.     *)
LEMMA FitsRight ==
  ASSUME InOrder, NEW o, NEW w \in Window, Fits(o, w), NEW ts \in w.min .. w.max
  PROVE  \/ GetRevisionAtTime(o, ts) = w.revision
         \/ /\ GetRevisionAtTime(o, ts) # None
            /\ revisions[GetRevisionAtTime(o, ts)].promoted = ts
<1> DEFINE r == GetRevisionAtTime(o, ts)
<1>1. /\ ts \in Nat /\ w.min \in Nat /\ w.max \in Nat /\ ts <= w.max
      /\ revisions[w.revision].promoted \in Nat
  BY RevisionTypes DEF Window, Fits, InOrder
<1>2. w.revision \in PromotedAt(o, ts)
  BY <1>1 DEF Fits, PromotedAt
<1>3. /\ r \in PromotedAt(o, ts) /\ r # None
      /\ revisions[w.revision].promoted <= revisions[r].promoted
  BY <1>1, <1>2, Served
<1> HIDE DEF r
<1>4. /\ r \in DOMAIN revisions /\ revisions[r].object = o /\ Promoted(r)
      /\ revisions[r].promoted <= ts /\ revisions[r].promoted \in Nat
  BY <1>3, RevisionTypes DEF PromotedAt, InOrder
<1>5. CASE revisions[r].promoted < w.max
  <2>1. revisions[r].promoted = revisions[w.revision].promoted
    BY <1>1, <1>3, <1>4, <1>5 DEF Fits
  <2>2. r = w.revision
    BY <1>4, <2>1, PromotedOnce DEF Fits
  <2> QED BY <2>2 DEF r
<1>6. CASE ~(revisions[r].promoted < w.max)
  <2>1. revisions[r].promoted = ts
    BY <1>1, <1>4, <1>6
  <2> QED BY <1>3, <2>1 DEF r
<1> QED BY <1>5, <1>6

-----------------------------------------------------------------------------
(* Writing a list of windows *)

(* A window stretched to a second up to now fits if its revision is the    *)
(* answer for that second.                                                 *)
LEMMA StretchedFits ==
  ASSUME InOrder, NEW o, NEW ts \in Nat, ts <= now, NEW w \in Window, Fits(o, w),
         w.revision = GetRevisionAtTime(o, ts), PromotedAt(o, ts) # {}
  PROVE  /\ Stretched(w, ts) \in Window /\ Fits(o, Stretched(w, ts))
         /\ Stretched(w, ts).revision = w.revision
<1> DEFINE v == Stretched(w, ts)
<1>1. /\ w.revision \in 1 .. MaxRevisions /\ w.min \in Nat /\ w.max \in Nat
  BY DEF Window
<1>2. v = [revision |-> w.revision, min |-> IF ts < w.min THEN ts ELSE w.min,
           max |-> IF ts > w.max THEN ts ELSE w.max]
  BY DEF Stretched
<1>3. /\ v.revision = w.revision /\ v.min \in {ts, w.min} /\ v.max \in {ts, w.max}
      /\ v.min <= ts /\ v.min <= w.min /\ ts <= v.max /\ w.max <= v.max
  BY <1>1, <1>2
<1>4. v \in Window
  BY <1>1, <1>2 DEF Window
<1> HIDE DEF v
<1>5. /\ w.revision \in DOMAIN revisions /\ revisions[w.revision].object = o
      /\ Promoted(w.revision) /\ revisions[w.revision].promoted \in Nat
      /\ revisions[w.revision].promoted <= w.min /\ w.min <= w.max /\ w.max <= now
      /\ now \in Nat
  BY RevisionTypes DEF Fits, InOrder
<1>6. /\ revisions[w.revision].promoted <= ts
      /\ \A q \in PromotedAt(o, ts) :
           revisions[q].promoted <= revisions[w.revision].promoted
  BY Served DEF PromotedAt
<1>7. ASSUME NEW q \in DOMAIN revisions, revisions[q].object = o, Promoted(q),
             revisions[q].promoted < v.max
      PROVE  revisions[q].promoted <= revisions[w.revision].promoted
  <2>1. revisions[q].promoted \in Nat
    BY <1>7, RevisionTypes DEF InOrder
  <2>2. CASE v.max = w.max
    BY <1>7, <2>2 DEF Fits
  <2>3. CASE v.max = ts
    <3>1. q \in PromotedAt(o, ts)
      BY <1>7, <2>1, <2>3 DEF PromotedAt
    <3> QED BY <1>6, <3>1
  <2> QED BY <1>3, <2>2, <2>3
<1>8. revisions[w.revision].promoted <= v.min /\ v.min <= v.max /\ v.max <= now
  BY <1>1, <1>3, <1>5, <1>6
<1>9. Fits(o, v)
  BY <1>3, <1>5, <1>7, <1>8 DEF Fits
<1> QED BY <1>3, <1>4, <1>9 DEF v

(* The list with the answer for a second in it holds windows that fit; only *)
(* the window of that answer may be new or different.                      *)
LEMMA UpdateListFits ==
  ASSUME InOrder, NEW o, NEW ts \in Nat, ts <= now, PromotedAt(o, ts) # {},
         NEW list \in Seq(Window), \A i \in DOMAIN list : Fits(o, list[i])
  PROVE  LET r == GetRevisionAtTime(o, ts)
             new == UpdateRevisionList(list, r, ts)
         IN /\ new \in Seq(Window)
            /\ \A i \in DOMAIN new :
                 /\ Fits(o, new[i])
                 /\ new[i].revision # r => i \in DOMAIN list /\ new[i] = list[i]
<1> DEFINE r == GetRevisionAtTime(o, ts)
           new == UpdateRevisionList(list, r, ts)
           Stretch(i) == IF list[i].revision = r THEN Stretched(list[i], ts) ELSE list[i]
<1>1. DOMAIN list = 1 .. Len(list) /\ Len(list) \in Nat
  OBVIOUS
<1>2. \A i \in DOMAIN list : list[i] \in Window
  BY <1>1
<1>3. CASE \E i \in DOMAIN list : list[i].revision = r
  <2>1. new = [i \in DOMAIN list |-> Stretch(i)]
    BY <1>3 DEF UpdateRevisionList
  <2>2. ASSUME NEW i \in DOMAIN list
        PROVE  /\ Stretch(i) \in Window /\ Fits(o, Stretch(i))
               /\ Stretch(i).revision = r \/ Stretch(i) = list[i]
    <3>1. CASE list[i].revision = r
      BY <1>2, <2>2, <3>1, StretchedFits
    <3>2. CASE list[i].revision # r
      BY <1>2, <2>2, <3>2
    <3> QED BY <3>1, <3>2
  <2> HIDE DEF new, Stretch
  <2>3. DOMAIN new = 1 .. Len(list) /\ \A i \in 1 .. Len(list) : new[i] = Stretch(i)
    BY <1>1, <2>1
  <2>4. new \in Seq(Window)
    BY <1>1, <2>1, <2>2
  <2>5. \A i \in DOMAIN new : /\ Fits(o, new[i])
                              /\ new[i].revision # r => i \in DOMAIN list /\ new[i] = list[i]
    BY <1>1, <2>2, <2>3
  <2> QED BY <2>4, <2>5 DEF new
<1>4. CASE ~ \E i \in DOMAIN list : list[i].revision = r
  <2> DEFINE w == [revision |-> r, min |-> ts, max |-> ts]
  <2>1. new = Append(list, w)
    BY <1>4 DEF UpdateRevisionList
  <2>2. /\ r \in PromotedAt(o, ts)
        /\ \A q \in PromotedAt(o, ts) : revisions[q].promoted <= revisions[r].promoted
    BY Served
  <2>3. /\ r \in DOMAIN revisions /\ r \in 1 .. MaxRevisions /\ revisions[r].object = o
        /\ Promoted(r) /\ revisions[r].promoted <= ts /\ now \in Nat
    BY <2>2, RevisionTypes DEF PromotedAt, InOrder
  <2> HIDE DEF r
  <2>4. w \in Window /\ w.revision = r /\ w.min = ts /\ w.max = ts
    BY <2>3 DEF Window
  <2>5. \A q \in DOMAIN revisions :
          revisions[q].object = o /\ Promoted(q) /\ revisions[q].promoted < ts =>
            revisions[q].promoted <= revisions[r].promoted
    <3>1. \A q \in DOMAIN revisions : Promoted(q) => revisions[q].promoted \in Nat
      BY RevisionTypes DEF InOrder
    <3> QED BY <2>2, <3>1 DEF PromotedAt
  <2>6. Fits(o, w)
    BY <2>3, <2>4, <2>5 DEF Fits
  <2> HIDE DEF w, new
  <2>7. /\ new \in Seq(Window)
        /\ \A i \in DOMAIN new : new[i] # w => i \in DOMAIN list /\ new[i] = list[i]
    BY <1>1, <2>1, <2>4
  <2>8. \A i \in DOMAIN new : /\ Fits(o, new[i])
                              /\ new[i].revision # r => i \in DOMAIN list /\ new[i] = list[i]
    BY <2>4, <2>6, <2>7
  <2> QED BY <2>7, <2>8 DEF new, r
<1> QED BY <1>3, <1>4

-----------------------------------------------------------------------------
(* What the server's steps keep *)

(* Revisions are only added, and only promoted, at this second.            *)
Grown ==
  /\ DOMAIN revisions \in SUBSET DOMAIN revisions'
  /\ \A r \in DOMAIN revisions :
       /\ revisions'[r].object = revisions[r].object
       /\ Promoted(r) => revisions'[r].promoted = revisions[r].promoted
  /\ \A r \in DOMAIN revisions' :
       revisions'[r].promoted # NotYet =>
         \/ r \in DOMAIN revisions /\ Promoted(r)
         \/ revisions'[r].promoted = now

LEMMA FitsKept ==
  ASSUME InOrder, InOrder', Grown, now <= now', NEW o, NEW w \in Window, Fits(o, w)
  PROVE  Fits(o, w)'
<1>1. /\ w.min \in Nat /\ w.max \in Nat /\ w.max <= now /\ now \in Nat /\ now' \in Nat
  BY DEF Window, Fits, InOrder
<1>2. /\ w.revision \in DOMAIN revisions' /\ revisions'[w.revision].object = o
      /\ revisions'[w.revision].promoted = revisions[w.revision].promoted
      /\ Promoted(w.revision) /\ Promoted(w.revision)'
  BY DEF Fits, Grown, Promoted
<1>3. ASSUME NEW q \in DOMAIN revisions', revisions'[q].object = o, Promoted(q)',
             revisions'[q].promoted < w.max
      PROVE  revisions'[q].promoted <= revisions'[w.revision].promoted
  <2>1. q \in DOMAIN revisions /\ Promoted(q)
    BY <1>1, <1>3 DEF Grown, Promoted
  <2>2. revisions[q].object = o /\ revisions[q].promoted = revisions'[q].promoted
    BY <1>3, <2>1 DEF Grown
  <2> QED BY <1>2, <1>3, <2>1, <2>2 DEF Fits
<1>4. w.max <= now'
  BY <1>1
<1> QED BY <1>2, <1>3, <1>4 DEF Fits

LEMMA WindowsFitKept ==
  ASSUME InOrder, InOrder', Grown, now <= now', WindowsFit, UNCHANGED windows
  PROVE  WindowsFit'
<1>1. ASSUME NEW o \in Objects, windows[o] # Torn, NEW i \in DOMAIN windows[o]
      PROVE  Fits(o, windows[o][i])'
  <2>1. windows[o] \in Seq(Window)
    BY <1>1 DEF WindowsFit
  <2>2. windows[o][i] \in Window
    BY <1>1, <2>1
  <2>3. Fits(o, windows[o][i])
    BY <1>1 DEF WindowsFit
  <2> QED BY <2>2, <2>3, FitsKept DEF Fits
<1> QED BY <1>1 DEF WindowsFit

-----------------------------------------------------------------------------
(* The invariant holds at the start *)

LEMMA InitInv == Init => Inv
<1> SUFFICES ASSUME Init PROVE Inv
  OBVIOUS
<1> USE DEF Init
<1>1. /\ revisions = History /\ revisions \in Seq(Revision) /\ Len(revisions) <= MaxRevisions
      /\ now = Start /\ Start \in Nat /\ Start - 1 \in Nat /\ Start - 1 <= Start
  BY HistoryAssumption, ClientCacheAssumption
<1>2. InOrder
  <2>1. ASSUME NEW r \in DOMAIN revisions
        PROVE  /\ revisions[r].created <= now
               /\ Promoted(r) => /\ revisions[r].created < revisions[r].promoted
                                 /\ revisions[r].promoted <= now
    <3>1. /\ revisions[r].created \in Nat /\ revisions[r].created < Start
          /\ Promoted(r) => /\ revisions[r].promoted \in Nat
                            /\ revisions[r].created < revisions[r].promoted
                            /\ revisions[r].promoted < Start
      BY <1>1, <2>1, RevisionTypes, HistoryAssumption DEF Promoted
    <3> QED BY <1>1, <3>1
  <2>2. ASSUME NEW r \in DOMAIN revisions, NEW q \in DOMAIN revisions
        PROVE  /\ revisions[r].promoted # revisions[q].created
               /\ r # q /\ revisions[r].object = revisions[q].object =>
                    \/ Promoted(r) /\ revisions[r].promoted < revisions[q].created
                    \/ Promoted(q) /\ revisions[q].promoted < revisions[r].created
    BY <1>1, <2>2, HistoryAssumption DEF Promoted
  <2> QED BY <1>1, <2>1, <2>2 DEF InOrder
<1>3. WindowsFit
  <2>1. <<>> \in Seq(Window) /\ DOMAIN <<>> = {}
    OBVIOUS
  <2> QED BY <2>1 DEF WindowsFit
<1>4. Fresh
  <2>1. DOMAIN <<>> = {}
    OBVIOUS
  <2>2. \A o \in Hinted : o \in Objects
    BY DEF Objects
  <2> QED BY <1>1, <2>1, <2>2 DEF Fresh, FreshWindows
<1> QED BY <1>2, <1>3, <1>4 DEF Inv

-----------------------------------------------------------------------------
(* The server's steps keep it *)

LEMMA SubmitOrder ==
  ASSUME InOrder, NEW o \in Objects, Submit(o)
  PROVE  InOrder' /\ Grown
<1>1. PICK anchored \in BOOLEAN :
        revisions' = Append(revisions, [object |-> o, created |-> now, promoted |-> NotYet,
                                        anchored |-> anchored])
  BY DEF Submit
<1> DEFINE new == [object |-> o, created |-> now, promoted |-> NotYet, anchored |-> anchored]
<1>2. /\ new \in Revision /\ new.object = o /\ new.created = now /\ new.promoted = NotYet
      /\ revisions' = Append(revisions, new)
  BY <1>1 DEF Revision, InOrder
<1> HIDE DEF new
<1>3. /\ revisions \in Seq(Revision) /\ now \in Nat /\ now' = now
      /\ MaxRevisions \in Nat /\ Len(revisions) < MaxRevisions
      /\ Len(revisions) \in Nat /\ DOMAIN revisions = 1 .. Len(revisions)
  BY RevisionTypes, ClientCacheAssumption DEF InOrder, Submit
<1> PICK n \in Nat : n = Len(revisions) + 1
  BY <1>3
<1>4. /\ revisions' \in Seq(Revision) /\ Len(revisions') <= MaxRevisions
      /\ DOMAIN revisions' = DOMAIN revisions \union {n} /\ n \notin DOMAIN revisions
      /\ \A r \in DOMAIN revisions : revisions'[r] = revisions[r]
      /\ revisions'[n] = new
  BY <1>2, <1>3
<1>5. \A r \in DOMAIN revisions : Promoted(r)' <=> Promoted(r)
  BY <1>4 DEF Promoted
<1>6. ~ Promoted(n)'
  BY <1>2, <1>4 DEF Promoted
<1>7. ASSUME NEW r \in DOMAIN revisions'
      PROVE  /\ revisions'[r].created <= now'
             /\ Promoted(r)' => /\ revisions'[r].created < revisions'[r].promoted
                                /\ revisions'[r].promoted <= now'
  <2>1. CASE r = n
    BY <1>2, <1>3, <1>4, <1>6, <2>1
  <2>2. CASE r \in DOMAIN revisions
    BY <1>3, <1>4, <1>5, <2>2 DEF InOrder
  <2> QED BY <1>4, <2>1, <2>2
<1>8. ASSUME NEW r \in DOMAIN revisions', NEW q \in DOMAIN revisions'
      PROVE  revisions'[r].promoted # revisions'[q].created
  <2>1. CASE r = n
    <3>1. revisions'[q].created \in Nat
      BY <1>2, <1>3, <1>4, RevisionTypes
    <3> QED BY <1>2, <1>4, <2>1, <3>1, ClientCacheAssumption
  <2>2. CASE r \in DOMAIN revisions /\ q = n
    BY <1>2, <1>4, <2>2 DEF Submit
  <2>3. CASE r \in DOMAIN revisions /\ q \in DOMAIN revisions
    BY <1>4, <2>3 DEF InOrder
  <2> QED BY <1>4, <2>1, <2>2, <2>3
<1>9. ASSUME NEW r \in DOMAIN revisions, revisions[r].object = o
      PROVE  Promoted(r) /\ revisions[r].promoted < now
  <2>1. Promoted(r) /\ revisions[r].promoted # now
    BY <1>9 DEF Submit
  <2>2. revisions[r].promoted \in Nat /\ revisions[r].promoted <= now
    BY <2>1, RevisionTypes DEF InOrder
  <2> QED BY <1>3, <2>1, <2>2
<1>10. ASSUME NEW r \in DOMAIN revisions', NEW q \in DOMAIN revisions',
              r # q, revisions'[r].object = revisions'[q].object
       PROVE  \/ Promoted(r)' /\ revisions'[r].promoted < revisions'[q].created
              \/ Promoted(q)' /\ revisions'[q].promoted < revisions'[r].created
  <2>1. CASE r = n
    <3>1. q \in DOMAIN revisions /\ revisions[q].object = o
      BY <1>2, <1>4, <1>10, <2>1
    <3> QED BY <1>2, <1>4, <1>5, <1>9, <2>1, <3>1
  <2>2. CASE q = n
    <3>1. r \in DOMAIN revisions /\ revisions[r].object = o
      BY <1>2, <1>4, <1>10, <2>2
    <3> QED BY <1>2, <1>4, <1>5, <1>9, <2>2, <3>1
  <2>3. CASE r \in DOMAIN revisions /\ q \in DOMAIN revisions
    BY <1>4, <1>5, <1>10, <2>3 DEF InOrder
  <2> QED BY <1>4, <2>1, <2>2, <2>3
<1>11. InOrder'
  BY <1>3, <1>4, <1>7, <1>8, <1>10 DEF InOrder
<1>12. Grown
  BY <1>2, <1>4 DEF Grown, Promoted
<1> QED BY <1>11, <1>12

LEMMA PromoteOrder ==
  ASSUME InOrder, NEW p \in DOMAIN revisions, Promote(p)
  PROVE  InOrder' /\ Grown
<1> DEFINE Now(r) == [r EXCEPT !.promoted = now]
<1>1. /\ revisions \in Seq(Revision) /\ now \in Nat /\ now' = now
      /\ DOMAIN revisions = 1 .. Len(revisions) /\ Len(revisions) \in Nat
      /\ revisions[p] \in Revision /\ revisions[p].promoted = NotYet
  BY RevisionTypes DEF InOrder, Promote, Promoted
<1>2. /\ Now(revisions[p]) \in Revision
      /\ Now(revisions[p]).object = revisions[p].object
      /\ Now(revisions[p]).created = revisions[p].created
      /\ Now(revisions[p]).promoted = now
  BY <1>1 DEF Revision
<1>3. revisions' = [revisions EXCEPT ![p] = Now(revisions[p])]
  BY DEF Promote
<1> HIDE DEF Now
<1>4. /\ revisions' \in Seq(Revision) /\ Len(revisions') = Len(revisions)
      /\ DOMAIN revisions' = DOMAIN revisions
      /\ \A r \in DOMAIN revisions : r # p => revisions'[r] = revisions[r]
      /\ revisions'[p] = Now(revisions[p])
  BY <1>1, <1>2, <1>3
<1>5. \A r \in DOMAIN revisions :
        /\ revisions'[r].object = revisions[r].object
        /\ revisions'[r].created = revisions[r].created
        /\ revisions'[r].promoted = IF r = p THEN now ELSE revisions[r].promoted
        /\ Promoted(r)' <=> (r = p \/ Promoted(r))
        /\ Promoted(p)'
  BY <1>1, <1>2, <1>4, ClientCacheAssumption DEF Promoted
<1>6. \A q \in DOMAIN revisions :
        /\ revisions[q].created # now /\ revisions[q].created <= now
        /\ revisions[q].created \in Nat
  BY <1>1, RevisionTypes DEF Promote, InOrder
<1>7. ASSUME NEW r \in DOMAIN revisions
      PROVE  /\ revisions'[r].created <= now'
             /\ Promoted(r)' => /\ revisions'[r].created < revisions'[r].promoted
                                /\ revisions'[r].promoted <= now'
  BY <1>1, <1>5, <1>6 DEF InOrder
<1>8. ASSUME NEW r \in DOMAIN revisions, NEW q \in DOMAIN revisions
      PROVE  /\ revisions'[r].promoted # revisions'[q].created
             /\ r # q /\ revisions'[r].object = revisions'[q].object =>
                  \/ Promoted(r)' /\ revisions'[r].promoted < revisions'[q].created
                  \/ Promoted(q)' /\ revisions'[q].promoted < revisions'[r].created
  <2>1. revisions'[r].promoted # revisions'[q].created
    BY <1>5, <1>6 DEF InOrder
  <2>2. ASSUME r # q, revisions'[r].object = revisions'[q].object
        PROVE  \/ Promoted(r)' /\ revisions'[r].promoted < revisions'[q].created
               \/ Promoted(q)' /\ revisions'[q].promoted < revisions'[r].created
    <3>1. \/ Promoted(r) /\ revisions[r].promoted < revisions[q].created
          \/ Promoted(q) /\ revisions[q].promoted < revisions[r].created
      BY <1>5, <2>2 DEF InOrder
    <3>2. ~ Promoted(p)
      BY DEF Promote
    <3> QED BY <1>5, <3>1, <3>2
  <2> QED BY <2>1, <2>2
<1>9. InOrder'
  BY <1>1, <1>4, <1>7, <1>8 DEF InOrder
<1>10. Grown
  BY <1>1, <1>4, <1>5 DEF Grown, Promoted
<1> QED BY <1>9, <1>10

(* Time passes, rows are written, programs run: the revisions stay.        *)
LEMMA SameOrder ==
  ASSUME InOrder, UNCHANGED revisions, now' \in Nat, now <= now'
  PROVE  InOrder' /\ Grown
<1>1. now \in Nat /\ \A r \in DOMAIN revisions : Promoted(r)' <=> Promoted(r)
  BY DEF InOrder, Promoted
<1>2. ASSUME NEW r \in DOMAIN revisions
      PROVE  /\ revisions[r].created <= now'
             /\ Promoted(r) => revisions[r].promoted <= now'
  BY <1>1, RevisionTypes DEF InOrder
<1>3. InOrder'
  BY <1>1, <1>2 DEF InOrder
<1>4. Grown
  BY DEF Grown, Promoted
<1> QED BY <1>3, <1>4

-----------------------------------------------------------------------------
(* What the cache knows of this second stays as fresh as the hints *)

(* A write of an object's row, with a new revision or without one.         *)
LEMMA WrittenFresh ==
  ASSUME InOrder, Fresh, NEW o \in Objects, updated' = [updated EXCEPT ![o] = now],
         UNCHANGED <<now, windows, snapshots, hints>>
  PROVE  Fresh'
<1>1. /\ now \in Nat /\ updated \in [Objects -> Nat]
      /\ \A x \in Objects : updated[x] <= now
      /\ \A x \in Objects : updated'[x] = IF x = o THEN now ELSE updated[x]
      /\ updated' \in [Objects -> Nat]
  BY DEF InOrder, Fresh
<1>2. ASSUME NEW x \in Hinted, FreshWindows(x)
      PROVE  FreshWindows(x)'
  <2>1. x \in Objects
    BY DEF Objects
  <2>2. \A u : FreshAs(x, u) => FreshAs(x, u)'
    BY <1>1, <2>1 DEF FreshAs
  <2> QED BY <1>2, <2>2 DEF FreshWindows, FreshAs
<1>3. ASSUME NEW x \in Objects, hints[x] # None
      PROVE  x \in Hinted /\ hints[x].last <= updated'[x]
  <2>1. x \in Hinted /\ hints[x].last <= updated[x]
    BY <1>3 DEF Fresh
  <2>2. hints[x].last \in Nat
    BY <1>3 DEF Fresh
  <2> QED BY <1>1, <2>1, <2>2
<1> QED BY <1>1, <1>2, <1>3 DEF Fresh, FreshWindows, FreshAs

LEMMA TickFresh ==
  ASSUME InOrder, WindowsFit, Fresh, Tick
  PROVE  Fresh'
<1>1. /\ now \in Nat /\ now' = now + 1
      /\ UNCHANGED <<revisions, updated, windows, snapshots, hints>>
  BY DEF InOrder, Tick, client
<1>2. ASSUME NEW o \in Hinted, windows[o] # Torn, NEW i \in DOMAIN windows[o]
      PROVE  windows[o][i].max # now'
  <2>1. o \in Objects
    BY DEF Objects
  <2>2. windows[o] \in Seq(Window) /\ Fits(o, windows[o][i])
    BY <1>2, <2>1 DEF WindowsFit
  <2>3. windows[o][i] \in Window
    BY <1>2, <2>2
  <2>4. windows[o][i].max \in Nat /\ windows[o][i].max <= now
    BY <2>2, <2>3 DEF Window, Fits
  <2> QED BY <1>1, <2>4
<1>3. \A o \in Objects : updated[o] <= now'
  <2>1. \A o \in Objects : updated[o] \in Nat /\ updated[o] <= now
    BY DEF Fresh
  <2> QED BY <1>1, <2>1
<1> QED BY <1>1, <1>2, <1>3 DEF Fresh, FreshWindows

LEMMA LoadFresh ==
  ASSUME InOrder, Fresh, LoadObjectDirectory
  PROVE  Fresh'
<1>1. UNCHANGED <<now, revisions, updated, windows, snapshots>>
  BY DEF LoadObjectDirectory, server
<1>2. PICK load \in BOOLEAN :
        hints' = [o \in Objects |-> IF load THEN GetAll(o) ELSE None]
  BY DEF LoadObjectDirectory
<1>3. ASSUME NEW o \in Objects, GetAll(o) # None
      PROVE  /\ o \in Hinted /\ GetAll(o) \in [revision : 1 .. MaxRevisions, last : Nat]
             /\ GetAll(o).last = updated[o]
  <2>1. /\ o \in Hinted /\ GetRevisionAtTime(o, now) # None
        /\ GetAll(o) = [revision |-> GetRevisionAtTime(o, now), last |-> updated[o]]
    BY <1>3 DEF GetAll
  <2>2. now \in Nat /\ updated[o] \in Nat
    BY DEF InOrder, Fresh
  <2>3. GetRevisionAtTime(o, now) \in PromotedAt(o, now)
    BY <2>1, <2>2, NotServed, Served
  <2>4. GetRevisionAtTime(o, now) \in 1 .. MaxRevisions
    BY <2>3, RevisionTypes DEF InOrder, PromotedAt
  <2> QED BY <2>1, <2>2, <2>4
<1>4. ASSUME NEW o \in Objects
      PROVE  /\ hints'[o] \in [revision : 1 .. MaxRevisions, last : Nat] \union {None}
             /\ hints'[o] # None => o \in Hinted /\ hints'[o].last = updated[o]
  BY <1>2, <1>3
<1>5. hints' \in [Objects -> [revision : 1 .. MaxRevisions, last : Nat] \union {None}]
  BY <1>2, <1>4
<1>6. /\ now \in Nat
      /\ \A o \in Objects : /\ updated[o] \in Nat
                            /\ hints'[o] # None => hints'[o].last <= updated[o]
  BY <1>4 DEF InOrder, Fresh
<1>7. ASSUME NEW o \in Hinted, FreshWindows(o)
      PROVE  FreshWindows(o)'
  <2>1. o \in Objects
    BY DEF Objects
  <2>2. ASSUME NEW u, u = updated[o] \/ updated[o] = now
        PROVE  hints'[o] # None => u >= hints'[o].last \/ hints'[o].last = now
    BY <1>4, <1>6, <2>1, <2>2
  <2> QED BY <1>1, <1>7, <2>2 DEF FreshWindows, FreshAs
<1> QED BY <1>1, <1>4, <1>5, <1>6, <1>7 DEF Fresh, FreshWindows, FreshAs

-----------------------------------------------------------------------------
(* A read of the server, kept or cut short *)

LEMMA AskedIsPast ==
  ASSUME InOrder, NEW o \in Objects, NEW ts \in AskedAt(o)
  PROVE  ts \in Nat /\ ts <= now /\ (o \in Hinted => ts = now)
<1>1. CASE o \in Hinted
  BY <1>1 DEF AskedAt, InOrder
<1>2. CASE o \notin Hinted
  <2>1. PICK r \in DOMAIN revisions : ts = revisions[r].created
    BY <1>2 DEF AskedAt
  <2> QED BY <1>2, <2>1, RevisionTypes DEF InOrder
<1> QED BY <1>1, <1>2

(* The three outcomes of one read: both files are written, or the program  *)
(* stops in the snapshot, or in the list of windows.                       *)
LEMMA ReadOutcomes ==
  ASSUME InOrder, NEW o \in Objects, Read(o)
  PROVE  \E ts \in Nat :
           LET r == GetRevisionAtTime(o, ts)
               Kept(content) == snapshots' = [snapshots EXCEPT ![r] = content]
               saved == [updated |-> updated[o]]
           IN /\ ts <= now /\ (o \in Hinted => ts = now)
              /\ r \in PromotedAt(o, ts) /\ PromotedAt(o, ts) # {}
              /\ UNCHANGED <<now, revisions, updated>>
              /\ \/ /\ Kept(saved) /\ UNCHANGED hints
                    /\ windows' = [windows EXCEPT ![o] = IF @ = Torn THEN Torn
                                                         ELSE UpdateRevisionList(@, r, ts)]
                 \/ Kept(None) /\ Stops /\ UNCHANGED windows
                 \/ Kept(saved) /\ Stops /\ windows' = [windows EXCEPT ![o] = Torn]
<1>1. PICK ts \in AskedAt(o) : GetObjectAt(o, ts)
  BY DEF Read
<1>2. ts \in Nat /\ ts <= now /\ (o \in Hinted => ts = now)
  BY AskedIsPast
<1> DEFINE r == GetRevisionAtTime(o, ts)
           object == GetExportVersionAt(o, ts)
<1>3. r # None /\ UNCHANGED <<now, revisions, updated>> /\ SaveObjectAt(o, ts, object)
  BY <1>1 DEF GetObjectAt, server
<1>4. r \in PromotedAt(o, ts) /\ PromotedAt(o, ts) # {}
  BY <1>2, <1>3, NotServed, Served
<1>5. object.revision = r /\ object.updated = updated[o]
  BY DEF GetExportVersionAt
<1> HIDE DEF r, object
<1>6. \/ /\ snapshots' = [snapshots EXCEPT ![r] = [updated |-> updated[o]]]
         /\ UNCHANGED hints
         /\ windows' = [windows EXCEPT ![o] = IF @ = Torn THEN Torn
                                              ELSE UpdateRevisionList(@, r, ts)]
      \/ snapshots' = [snapshots EXCEPT ![r] = None] /\ Stops /\ UNCHANGED windows
      \/ /\ snapshots' = [snapshots EXCEPT ![r] = [updated |-> updated[o]]] /\ Stops
         /\ windows' = [windows EXCEPT ![o] = Torn]
  BY <1>3, <1>5 DEF SaveObjectAt
<1> QED BY <1>2, <1>3, <1>4, <1>6 DEF r

(* Whatever the windows of the object become, those of others are not      *)
(* concerned, and a new one of this object is as fresh as its row.         *)
LEMMA ReadKeeps ==
  ASSUME Inv, NEW o \in Objects, Read(o)
  PROVE  Inv'
<1> USE DEF Inv
<1> DEFINE Answer(ts) == GetRevisionAtTime(o, ts)
<1>1. PICK ts \in Nat :
        LET Kept(content) == snapshots' = [snapshots EXCEPT ![Answer(ts)] = content]
            saved == [updated |-> updated[o]]
        IN /\ ts <= now /\ (o \in Hinted => ts = now)
           /\ Answer(ts) \in PromotedAt(o, ts) /\ PromotedAt(o, ts) # {}
           /\ UNCHANGED <<now, revisions, updated>>
           /\ \/ /\ Kept(saved) /\ UNCHANGED hints
                 /\ windows' = [windows EXCEPT ![o] = IF @ = Torn THEN Torn
                                     ELSE UpdateRevisionList(@, Answer(ts), ts)]
              \/ Kept(None) /\ Stops /\ UNCHANGED windows
              \/ Kept(saved) /\ Stops /\ windows' = [windows EXCEPT ![o] = Torn]
  BY ReadOutcomes
<1> DEFINE r == Answer(ts)
           list == windows[o]
           new == UpdateRevisionList(list, r, ts)
<1>2. /\ InOrder' /\ Grown /\ now' = now /\ now \in Nat
      /\ \A x, w : Fits(x, w)' <=> Fits(x, w)
  BY <1>1, SameOrder DEF InOrder, Fits, Promoted
<1>3. /\ r \in DOMAIN revisions /\ r \in 1 .. MaxRevisions /\ revisions[r].object = o
  BY <1>1, RevisionTypes DEF InOrder, PromotedAt
<1>4. list # Torn =>
        /\ list \in Seq(Window) /\ \A i \in DOMAIN list : Fits(o, list[i])
        /\ new \in Seq(Window)
        /\ \A i \in DOMAIN new :
             /\ Fits(o, new[i])
             /\ new[i].revision # r => i \in DOMAIN list /\ new[i] = list[i]
  <2>1. list # Torn => list \in Seq(Window) /\ \A i \in DOMAIN list : Fits(o, list[i])
    BY DEF WindowsFit
  <2> QED BY <1>1, <2>1, UpdateListFits
<1> HIDE DEF r, new, Answer
<1>5. /\ windows' = [windows EXCEPT ![o] = windows'[o]]
      /\ \/ windows'[o] = Torn \/ windows'[o] = list
         \/ list # Torn /\ windows'[o] = new
  <2>1. windows = [x \in Objects |-> windows[x]]
    BY DEF WindowsFit
  <2> QED BY <1>1, <2>1 DEF new, r
<1>6. WindowsFit'
  <2>1. /\ windows \in [Objects -> Seq(Window) \union {Torn}]
        /\ windows'[o] \in Seq(Window) \union {Torn}
    BY <1>4, <1>5 DEF WindowsFit
  <2>2. windows' \in [Objects -> Seq(Window) \union {Torn}]
    BY <1>5, <2>1
  <2>3. ASSUME NEW x \in Objects, windows'[x] # Torn, NEW i \in DOMAIN windows'[x]
        PROVE  Fits(x, windows'[x][i])
    <3>1. CASE x # o
      <4>1. windows'[x] = windows[x]
        BY <1>5, <2>1, <3>1
      <4> QED BY <2>3, <4>1 DEF WindowsFit
    <3>2. CASE x = o
      BY <1>4, <1>5, <2>3, <3>2
    <3> QED BY <3>1, <3>2
  <2> QED BY <1>2, <2>2, <2>3 DEF WindowsFit
<1>7. Fresh'
  <2>1. PICK content \in [updated : Nat] \union {None} :
          /\ snapshots' = [snapshots EXCEPT ![r] = content]
          /\ \/ content = [updated |-> updated[o]]
             \/ content = None /\ UNCHANGED windows
    <3>1. [updated |-> updated[o]] \in [updated : Nat]
      BY DEF Fresh
    <3> QED BY <1>1, <3>1 DEF r
  <2>2. /\ hints' = hints \/ hints' = [x \in Objects |-> None]
        /\ updated' = updated
    BY <1>1 DEF Stops
  <2>3. /\ updated' \in [Objects -> Nat] /\ \A x \in Objects : updated'[x] <= now'
        /\ hints' \in [Objects -> [revision : 1 .. MaxRevisions, last : Nat] \union {None}]
        /\ snapshots' \in [1 .. MaxRevisions -> [updated : Nat] \union {None}]
        /\ \A x \in Objects : hints'[x] # None => x \in Hinted /\ hints'[x].last <= updated'[x]
    BY <1>2, <1>3, <2>1, <2>2 DEF Fresh
  <2>4. /\ \A x \in Objects : hints'[x] # None => hints'[x] = hints[x]
        /\ \A q \in 1 .. MaxRevisions : q # r => snapshots'[q] = snapshots[q]
        /\ snapshots'[r] = content
    BY <1>3, <2>1, <2>2 DEF Fresh
  <2>5. \A x \in Objects : \A u : FreshAs(x, u) => FreshAs(x, u)'
    BY <1>2, <2>2, <2>4 DEF FreshAs
  <2>6. \A x \in Objects : \A i \in DOMAIN windows'[x] : windows'[x] # Torn =>
          /\ Fits(x, windows'[x][i])
          /\ windows'[x][i].revision \in 1 .. MaxRevisions
    <3>1. \A x, w : Fits(x, w) => w.revision \in 1 .. MaxRevisions
      BY RevisionTypes DEF Fits, InOrder
    <3> QED BY <1>2, <1>6, <3>1 DEF WindowsFit
  <2>7. ASSUME NEW x \in Hinted, windows'[x] # Torn, NEW i \in DOMAIN windows'[x],
               windows'[x][i].max = now, snapshots'[windows'[x][i].revision] # None,
               NEW u, u = snapshots'[windows'[x][i].revision].updated
        PROVE  FreshAs(x, u)'
    <3> DEFINE w == windows'[x][i]
    <3>1. x \in Objects /\ Fits(x, w) /\ w.revision \in 1 .. MaxRevisions
      BY <2>6, <2>7 DEF Objects
    <3> HIDE DEF w
    <3>2. CASE w.revision = r
      <4>1. x = o
        BY <1>3, <3>1, <3>2 DEF Fits
      <4>2. content = [updated |-> updated[o]] /\ snapshots'[w.revision].updated = updated[o]
        BY <2>1, <2>4, <2>7, <3>2 DEF w
      <4>3. hints'[o] # None => updated[o] >= hints'[o].last
        <5>1. /\ hints'[o] # None => hints'[o].last <= updated[o] /\ hints'[o].last \in Nat
              /\ updated[o] \in Nat
          BY <2>2, <2>3
        <5> QED BY <5>1
      <4> QED BY <2>2, <2>7, <4>1, <4>2, <4>3 DEF FreshAs, w
    <3>3. CASE w.revision # r
      <4>1. /\ windows[x] # Torn /\ i \in DOMAIN windows[x] /\ w = windows[x][i]
        <5>1. CASE x # o
          <6>1. windows'[x] = windows[x]
            BY <1>5, <3>1, <5>1 DEF WindowsFit
          <6> QED BY <2>7, <6>1 DEF w
        <5>2. CASE x = o
          BY <1>4, <1>5, <2>7, <3>3, <5>2 DEF w
        <5> QED BY <5>1, <5>2
      <4>2. snapshots'[w.revision] = snapshots[w.revision]
        BY <2>4, <3>1, <3>3
      <4>3. FreshAs(x, snapshots[w.revision].updated)
        BY <2>7, <4>1, <4>2 DEF Fresh, FreshWindows, w
      <4>4. u = snapshots[w.revision].updated
        BY <2>7, <4>2 DEF w
      <4> QED BY <2>5, <3>1, <4>3, <4>4
    <3> QED BY <3>2, <3>3
  <2>8. \A x \in Hinted : FreshWindows(x)'
    BY <1>2, <2>7 DEF FreshWindows, FreshAs
  <2> QED BY <2>3, <2>8 DEF Fresh
<1> QED BY <1>2, <1>6, <1>7

-----------------------------------------------------------------------------
(* Every step keeps the invariant *)

LEMMA StepKeeps ==
  ASSUME Inv, [Next]_vars
  PROVE  Inv'
<1> USE DEF Inv
<1>1. now \in Nat
  BY DEF InOrder
<1>2. ASSUME NEW o \in Objects, Submit(o)
      PROVE  Inv'
  <2>1. UNCHANGED <<now, updated, windows, snapshots, hints>>
    BY <1>2 DEF Submit, client
  <2>2. InOrder' /\ Grown
    BY <1>2, SubmitOrder
  <2>3. WindowsFit'
    BY <1>1, <2>1, <2>2, WindowsFitKept
  <2> QED BY <2>1, <2>2, <2>3 DEF Fresh, FreshWindows, FreshAs
<1>3. ASSUME NEW r \in DOMAIN revisions, Promote(r)
      PROVE  Inv'
  <2>1. /\ UNCHANGED <<now, windows, snapshots, hints>>
        /\ updated' = [updated EXCEPT ![revisions[r].object] = now]
    BY <1>3 DEF Promote, client
  <2>2. InOrder' /\ Grown
    BY <1>3, PromoteOrder
  <2>3. WindowsFit'
    BY <1>1, <2>1, <2>2, WindowsFitKept
  <2>4. revisions[r].object \in Objects
    BY RevisionTypes DEF InOrder
  <2> QED BY <2>1, <2>2, <2>3, <2>4, WrittenFresh
<1>4. ASSUME NEW o \in Hinted, Touch(o)
      PROVE  Inv'
  <2>1. /\ UNCHANGED <<now, revisions, windows, snapshots, hints>>
        /\ updated' = [updated EXCEPT ![o] = now] /\ o \in Objects
    BY <1>4 DEF Touch, client, Objects
  <2>2. InOrder' /\ Grown
    BY <1>1, <2>1, SameOrder
  <2>3. WindowsFit'
    BY <1>1, <2>1, <2>2, WindowsFitKept
  <2> QED BY <2>1, <2>2, <2>3, WrittenFresh
<1>5. CASE Tick
  <2>1. UNCHANGED <<revisions, windows>> /\ now' \in Nat /\ now <= now'
    BY <1>1, <1>5 DEF Tick, client
  <2>2. InOrder' /\ Grown
    BY <2>1, SameOrder
  <2> QED BY <1>5, <2>1, <2>2, WindowsFitKept, TickFresh
<1>6. CASE LoadObjectDirectory
  <2>1. UNCHANGED <<now, revisions, windows>>
    BY <1>6 DEF LoadObjectDirectory, server
  <2>2. InOrder' /\ Grown
    BY <1>1, <2>1, SameOrder
  <2> QED BY <1>1, <1>6, <2>1, <2>2, WindowsFitKept, LoadFresh
<1>7. ASSUME NEW o \in Objects, Read(o)
      PROVE  Inv'
  BY <1>7, ReadKeeps
<1>8. ASSUME UNCHANGED <<now, revisions, updated, windows, snapshots>>,
             hints' = hints \/ hints' = [o \in Objects |-> None]
      PROVE  Inv'
  <2>1. InOrder' /\ Grown
    BY <1>1, <1>8, SameOrder
  <2>2. WindowsFit'
    BY <1>1, <1>8, <2>1, WindowsFitKept
  <2>3. \A o \in Objects : hints'[o] # None => hints'[o] = hints[o]
    BY <1>8
  <2>4. \A o \in Hinted : o \in Objects
    BY DEF Objects
  <2>5. hints' \in [Objects -> [revision : 1 .. MaxRevisions, last : Nat] \union {None}]
    BY <1>8 DEF Fresh
  <2> QED BY <1>8, <2>1, <2>2, <2>3, <2>4, <2>5 DEF Fresh, FreshWindows, FreshAs
<1>9. ASSUME NEW r \in DOMAIN revisions, GetChangeRequest(r)
      PROVE  Inv'
  <2>1. /\ UNCHANGED <<now, revisions, updated, windows, snapshots>>
        /\ hints' = hints \/ hints' = [o \in Objects |-> None]
    BY <1>9 DEF GetChangeRequest, server, Stops
  <2> QED BY <1>8, <2>1
<1>10. CASE UNCHANGED vars
  BY <1>8, <1>10 DEF vars
<1> QED
  BY <1>2, <1>3, <1>4, <1>5, <1>6, <1>7, <1>9, <1>10 DEF Next

(* The cache directory tells no lie: for any number of programs that share *)
(* it, one after another, each stopped anywhere.                           *)
THEOREM Invariance == Spec => []Inv
  BY InitInv, StepKeeps, PTL DEF Spec

-----------------------------------------------------------------------------
(* What it is for *)

LEMMA InvWindowsRight == Inv => WindowsRight
<1> SUFFICES ASSUME Inv, NEW o \in Objects, windows[o] # Torn, NEW i \in DOMAIN windows[o],
                    NEW ts \in windows[o][i].min .. windows[o][i].max
             PROVE  LET r == GetRevisionAtTime(o, ts)
                    IN r = windows[o][i].revision \/ (r # None /\ revisions[r].promoted = ts)
  BY DEF WindowsRight
<1>1. windows[o] \in Seq(Window) /\ Fits(o, windows[o][i])
  BY DEF Inv, WindowsFit
<1>2. windows[o][i] \in Window
  BY <1>1
<1> QED BY <1>1, <1>2, FitsRight DEF Inv

(* A window of the cache names the revision the server gives for each of   *)
(* its seconds, whatever was promoted since it was written.                *)
THEOREM WindowsRightHolds == Spec => []WindowsRight
  BY Invariance, InvWindowsRight, PTL

(* The cache gives a revision by one of its windows, with its snapshot.    *)
LEMMA FoundInWindow ==
  ASSUME WindowsFit, NEW o \in Objects, NEW ts \in Nat, getRevisionObject(o, ts) # None
  PROVE  /\ windows[o] # Torn
         /\ \E i \in DOMAIN windows[o] :
              LET w == windows[o][i] IN
              /\ w \in Window /\ Fits(o, w) /\ ts \in w.min .. w.max
              /\ snapshots[w.revision] # None
              /\ getRevisionObject(o, ts) =
                   [revision |-> w.revision, updated |-> snapshots[w.revision].updated]
<1> DEFINE hits == {i \in DOMAIN windows[o] : Within(ts, windows[o][i])}
           first == CHOOSE i \in hits : \A j \in hits : i <= j
           w == windows[o][first]
<1>1. /\ windows[o] # Torn /\ hits # {}
      /\ getRevisionObject(o, ts) = getSnapshotObject(w.revision, None)
  BY DEF getRevisionObject
<1>2. windows[o] \in Seq(Window) /\ DOMAIN windows[o] \in SUBSET Nat
  <2>1. windows[o] \in Seq(Window)
    BY <1>1 DEF WindowsFit
  <2>2. DOMAIN windows[o] = 1 .. Len(windows[o]) /\ Len(windows[o]) \in Nat
    BY <2>1
  <2> QED BY <2>1, <2>2
<1>3. first \in hits
  <2>1. \E i \in hits : \A j \in hits : i <= j
    BY <1>1, <1>2, LeastExists
  <2> QED BY <2>1
<1> HIDE DEF first
<1>4. w \in Window /\ Fits(o, w) /\ Within(ts, w)
  BY <1>1, <1>2, <1>3 DEF WindowsFit
<1>5. ts \in w.min .. w.max
  BY <1>4 DEF Window, Within
<1>6. /\ snapshots[w.revision] # None
      /\ getSnapshotObject(w.revision, None) =
           [revision |-> w.revision, updated |-> snapshots[w.revision].updated]
  BY <1>1 DEF getSnapshotObject
<1> QED BY <1>1, <1>3, <1>4, <1>5, <1>6

LEMMA InvAsFresh == Inv => AsFreshAsTheHint
<1> SUFFICES ASSUME Inv, NEW o \in Hinted, hints[o] # None
             PROVE  LET cached == CachedObjectAt(o, now)
                        got == IF cached # None THEN cached ELSE GetExportVersionAt(o, now)
                    IN got.updated >= hints[o].last \/ hints[o].last = now
  BY DEF AsFreshAsTheHint
<1> DEFINE cached == CachedObjectAt(o, now)
           hinted == getSnapshotObject(hints[o].revision, hints[o].last)
<1>1. /\ o \in Objects /\ now \in Nat
      /\ hints[o].revision \in 1 .. MaxRevisions /\ hints[o].last \in Nat
      /\ hints[o].last <= updated[o] /\ updated[o] \in Nat
  BY DEF Inv, InOrder, Fresh, Objects
<1>2. CASE cached = None
  <2>1. GetExportVersionAt(o, now).updated = updated[o]
    BY DEF GetExportVersionAt
  <2> QED BY <1>1, <1>2, <2>1
<1>3. CASE cached # None /\ hinted # None
  <2>1. cached = hinted
    BY <1>3 DEF CachedObjectAt
  <2>2. LET s == snapshots[hints[o].revision]
        IN /\ s # None /\ ~ NeedsRefresh(s, hints[o].last)
           /\ hinted = [revision |-> hints[o].revision, updated |-> s.updated]
    BY <1>3 DEF getSnapshotObject
  <2>3. snapshots[hints[o].revision] \in [updated : Nat]
    BY <1>1, <2>2 DEF Inv, Fresh
  <2>4. hinted.updated \in Nat /\ ~ (hints[o].last > hinted.updated)
    BY <1>1, <2>2, <2>3, ClientCacheAssumption DEF NeedsRefresh
  <2> HIDE DEF cached, hinted
  <2>5. cached.updated >= hints[o].last
    BY <1>1, <2>1, <2>4
  <2> QED BY <1>3, <2>5 DEF cached
<1>4. CASE cached # None /\ hinted = None
  <2>1. cached = getRevisionObject(o, now)
    BY <1>4 DEF CachedObjectAt
  <2>2. PICK i \in DOMAIN windows[o] :
          LET w == windows[o][i] IN
          /\ w \in Window /\ Fits(o, w) /\ now \in w.min .. w.max
          /\ snapshots[w.revision] # None
          /\ cached = [revision |-> w.revision, updated |-> snapshots[w.revision].updated]
    BY <1>1, <1>4, <2>1, FoundInWindow DEF Inv
  <2>3. windows[o] # Torn
    BY <1>1, <1>4, <2>1, FoundInWindow DEF Inv
  <2>4. windows[o][i].max = now
    BY <1>1, <2>2 DEF Window, Fits
  <2>5. FreshAs(o, cached.updated)
    BY <2>2, <2>3, <2>4 DEF Inv, Fresh, FreshWindows
  <2> QED BY <1>4, <2>5 DEF FreshAs
<1> QED BY <1>2, <1>3, <1>4

(* A program that loaded the directory gets every object at least as fresh *)
(* as the directory said, whatever earlier programs left on the disk.      *)
THEOREM AsFreshAsTheHintHolds == Spec => []AsFreshAsTheHint
  BY Invariance, InvAsFresh, PTL

(* As of the creation of a request the cache gives what the server gives:  *)
(* nothing was promoted in that second.                                    *)
LEMMA AtAlike ==
  ASSUME Inv, NEW o \in Objects, o \notin Hinted, windows[o] # Torn,
         NEW r \in DOMAIN revisions
  PROVE  At(TRUE, o, revisions[r].created) = At(FALSE, o, revisions[r].created)
<1> DEFINE ts == revisions[r].created
           cached == CachedObjectAt(o, ts)
<1>1. ts \in Nat
  BY RevisionTypes DEF Inv, InOrder
<1>2. hints[o] = None
  BY DEF Inv, Fresh
<1>3. cached = getRevisionObject(o, ts)
  BY <1>2 DEF CachedObjectAt
<1>4. CASE cached = None
  BY <1>4 DEF At, ThroughCache, FromServer
<1>5. CASE cached # None
  <2>1. PICK i \in DOMAIN windows[o] :
          LET w == windows[o][i] IN
          /\ w \in Window /\ Fits(o, w) /\ ts \in w.min .. w.max
          /\ snapshots[w.revision] # None
          /\ cached = [revision |-> w.revision, updated |-> snapshots[w.revision].updated]
    BY <1>1, <1>3, <1>5, FoundInWindow DEF Inv
  <2> DEFINE g == GetRevisionAtTime(o, ts)
  <2>2. g = windows[o][i].revision \/ (g # None /\ revisions[g].promoted = ts)
    BY <2>1, FitsRight DEF Inv
  <2>3. g # None => g \in DOMAIN revisions
    BY <1>1, NotServed, Served DEF Inv, PromotedAt
  <2>4. g # None => revisions[g].promoted # ts
    BY <2>3 DEF Inv, InOrder
  <2>5. cached.revision = g
    BY <2>1, <2>2, <2>4
  <2> QED BY <1>5, <2>5 DEF At, ThroughCache, FromServer
<1> QED BY <1>4, <1>5

LEMMA InvVerifiedAlike == Inv => VerifiedAlike
<1> SUFFICES ASSUME Inv, \A o \in Objects : windows[o] # Torn,
                    \A r \in DOMAIN revisions : RequestThroughCache(r) = RequestAtServer(r)
             PROVE  \A r \in DOMAIN revisions :
                      Promoted(r) => Trails(TRUE)[r] = Trails(FALSE)[r]
  BY DEF VerifiedAlike
<1>1. /\ ApproverSet \in Objects /\ ApproverSet \notin Hinted
      /\ Approver \in Objects /\ Approver \notin Hinted
  BY ClientCacheAssumption DEF Objects
<1>2. \A o \in {ApproverSet, Approver} : \A r \in DOMAIN revisions :
        At(TRUE, o, revisions[r].created) = At(FALSE, o, revisions[r].created)
  BY <1>1, AtAlike
<1>3. \A o \in {ApproverSet, Approver} :
        [r \in DOMAIN revisions |-> At(TRUE, o, revisions[r].created)]
        = [r \in DOMAIN revisions |-> At(FALSE, o, revisions[r].created)]
  BY <1>2
<1>4. {r \in DOMAIN revisions : Signed(TRUE, r)} = {r \in DOMAIN revisions : Signed(FALSE, r)}
  BY DEF Signed
<1>5. Answers(TRUE) = Answers(FALSE)
  <2>1. Answers(TRUE).at = Answers(FALSE).at
    BY <1>3 DEF Answers
  <2>2. Answers(TRUE).signed = Answers(FALSE).signed
    BY <1>4 DEF Answers
  <2> QED BY <2>1, <2>2 DEF Answers
<1>6. Trails(TRUE) = Trails(FALSE)
  BY <1>5, Zenon DEF Trails
<1> QED BY <1>6

(* Verification through the cache rests on what it would rest on without.  *)
THEOREM VerifiedAlikeHolds == Spec => []VerifiedAlike
  BY Invariance, InvVerifiedAlike, PTL
=============================================================================
