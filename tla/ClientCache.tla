------------------------------ MODULE ClientCache ------------------------------
(***************************************************************************)
(* The registrar API client (client/client.go): its disk cache and the     *)
(* verification of what the server answers.                                *)
(*                                                                         *)
(* The server keeps, for every object, revisions that are submitted (a     *)
(* change request and its approvals are created), then promoted; asked for *)
(* an object at a time, it answers with the revision promoted last at that *)
(* time.  The client keeps three kinds of file, which outlive the programs *)
(* that use them: snapshots of the objects by revision, for each object    *)
(* the windows of time for which a revision is known to be the answer, and *)
(* change requests.  A program may also load hints, which name the current *)
(* revision of every domain, host and contact.  A file is written in       *)
(* place: a program that stops in the middle leaves a torn file.  A torn   *)
(* snapshot or change request fails to parse and is fetched again, like a  *)
(* missing one, and is modelled as missing; a torn list of windows is not  *)
(* repaired.                                                               *)
(*                                                                         *)
(* Time is in whole seconds.  Of a revision the model keeps the object,    *)
(* the second its change request was created, the second it was promoted   *)
(* (NotYet before) and whether a trust anchor signed its final approval.   *)
(***************************************************************************)
EXTENDS Integers, Sequences, FiniteSets, TLC

CONSTANTS Hinted,       \* objects of the kinds that get hints: domains, hosts, contacts
          ApproverSet,  \* the approver set the final approvals name
          Approver,     \* its member
          History,      \* the revisions of the approver set and of its member at the start
          Start,        \* the second the model starts at
          MaxRevisions, MaxTime, MaxStops, \* bounds on submissions, on the clock, on crashes
          NotYet,       \* the promotion time of a revision that is not promoted
          None,         \* no revision, no snapshot, no hint
          Torn          \* the content of a half written list of windows

ASSUME ClientCacheAssumption ==
  /\ ApproverSet \notin Hinted /\ Approver \notin Hinted /\ ApproverSet # Approver
  /\ None \notin Nat /\ NotYet \notin Nat
  /\ Start \in Nat \ {0} /\ MaxTime \in Nat /\ MaxRevisions \in Nat /\ MaxStops \in Nat

VARIABLES now, revisions, updated,               \* the server
          windows, snapshots, openRequests,          \* the cache directory
          hints,                                 \* the running program's ObjectDir
          stops                                  \* crashes so far, bounded by MaxStops

server == <<now, revisions, updated>>
client == <<windows, snapshots, openRequests, hints, stops>>
vars == <<now, revisions, updated, windows, snapshots, openRequests, hints, stops>>

Objects == Hinted \union {ApproverSet, Approver}
Revision == [object : Objects, created : Nat, promoted : Nat \union {NotYet}, anchored : BOOLEAN]

\* The history has one revision of an object open at a time, and no submission in the second
\* of a promotion.
ASSUME HistoryAssumption ==
  /\ History \in Seq(Revision) /\ Len(History) <= MaxRevisions
  /\ \A r \in DOMAIN History :
       /\ History[r].created < Start
       /\ History[r].promoted # NotYet =>
            History[r].created < History[r].promoted /\ History[r].promoted < Start
       /\ \A q \in DOMAIN History :
            /\ History[r].promoted # History[q].created
            /\ r # q /\ History[r].object = History[q].object =>
                 \/ History[r].promoted # NotYet /\ History[r].promoted < History[q].created
                 \/ History[q].promoted # NotYet /\ History[q].promoted < History[r].created

-----------------------------------------------------------------------------
(* The server's side *)

Promoted(r) == revisions[r].promoted # NotYet
PromotedAt(o, ts) == {r \in DOMAIN revisions : /\ revisions[r].object = o /\ Promoted(r)
                                               /\ revisions[r].promoted <= ts}

\* The revision of the object that was promoted last at that time.
GetRevisionAtTime(o, ts) ==
  IF PromotedAt(o, ts) = {} THEN None
  ELSE CHOOSE r \in PromotedAt(o, ts) :
         \A q \in PromotedAt(o, ts) : revisions[q].promoted <= revisions[r].promoted

\* What the server answers: the object with that revision as the current one, and the
\* time its row was last written.
GetExportVersionAt(o, ts) == [revision |-> GetRevisionAtTime(o, ts), updated |-> updated[o]]

\* The ids and hints of the objects of one kind.
GetAll(o) == IF o \in Hinted /\ GetRevisionAtTime(o, now) # None
             THEN [revision |-> GetRevisionAtTime(o, now), last |-> updated[o]] ELSE None

\* A change request as the server has it: signed once its final approval is uploaded,
\* which is what promotes the revision.
RequestAtServer(r) == IF Promoted(r) THEN "signed" ELSE "open"

-----------------------------------------------------------------------------
(* Reading the cache *)

NeedsRefreshNever(snapshot, last) == FALSE
NeedsRefresh(snapshot, last) == last # None /\ last > snapshot.updated

\* The snapshot of a revision, unless it is missing or older than the given time.
getSnapshotObject(r, last) ==
  IF snapshots[r] = None \/ NeedsRefresh(snapshots[r], last) THEN None
  ELSE [revision |-> r, updated |-> snapshots[r].updated]

AnyTime(ts, w) == TRUE
Within(ts, w) == w.min <= ts /\ ts <= w.max

\* The snapshot of the first revision whose window holds the time.
getRevisionObject(o, ts) ==
  IF windows[o] = Torn THEN None
  ELSE LET hits == {i \in DOMAIN windows[o] : Within(ts, windows[o][i])}
           first == CHOOSE i \in hits : \A j \in hits : i <= j
       IN IF hits = {} THEN None ELSE getSnapshotObject(windows[o][first].revision, None)

\* The hinted revision if there is a hint and its snapshot is not older than the hint,
\* whatever the time asked for; else the windows.
CachedObjectAt(o, ts) ==
  LET hinted == IF hints[o] = None THEN None
                ELSE getSnapshotObject(hints[o].revision, hints[o].last)
  IN IF hinted # None THEN hinted ELSE getRevisionObject(o, ts)

-----------------------------------------------------------------------------
(* Writing the cache *)

\* A revision that is in the list has its window stretched to the time, one that is not
\* is added.
Stretched(w, ts) == [revision |-> w.revision, min |-> IF ts < w.min THEN ts ELSE w.min,
                     max |-> IF ts > w.max THEN ts ELSE w.max]
UpdateRevisionListOfObject(list, r, ts) ==
  IF list = <<>> THEN <<[revision |-> r, min |-> ts, max |-> ts]>>
  ELSE [i \in DOMAIN list |-> Stretched(list[i], ts)]
UpdateRevisionList(list, r, ts) ==
  IF \E i \in DOMAIN list : list[i].revision = r
  THEN [i \in DOMAIN list |-> IF list[i].revision = r THEN Stretched(list[i], ts) ELSE list[i]]
  ELSE Append(list, [revision |-> r, min |-> ts, max |-> ts])

\* The program stops in the middle of a write; the next one starts without hints.
Stops == /\ stops < MaxStops
         /\ stops' = stops + 1
         /\ hints' = [o \in Objects |-> None]

\* The snapshot is written first, then the list of windows; a list that does not parse is
\* left as it is.
SaveObjectAt(o, ts, object) ==
  LET Snapshot(content) == snapshots' = [snapshots EXCEPT ![object.revision] = content]
      saved == [updated |-> object.updated]
  IN \/ /\ Snapshot(saved)
        /\ windows' = [windows EXCEPT ![o] = IF @ = Torn THEN Torn
                                             ELSE UpdateRevisionList(@, object.revision, ts)]
        /\ UNCHANGED <<hints, stops>>
     \/ Snapshot(None) /\ Stops /\ UNCHANGED windows
     \/ Snapshot(saved) /\ Stops /\ windows' = [windows EXCEPT ![o] = Torn]

\* One call of the client for an object at a time: only what the cache does not give is
\* asked of the server, and an error of the server is not kept.
GetObjectAt(o, ts) ==
  /\ CachedObjectAt(o, ts) = None
  /\ GetRevisionAtTime(o, ts) # None
  /\ SaveObjectAt(o, ts, GetExportVersionAt(o, ts))
  /\ UNCHANGED <<server, openRequests>>

\* One call of the client for a change request: a cached one is never fetched again.  A
\* signed one does not change any more, so only those cached while open are recorded.
GetChangeRequest(r) ==
  /\ r \notin openRequests
  /\ \/ /\ RequestAtServer(r) = "open"
        /\ openRequests' = openRequests \union {r}
        /\ UNCHANGED <<hints, stops>>
     \/ Stops /\ UNCHANGED openRequests
  /\ UNCHANGED <<server, windows, snapshots>>

-----------------------------------------------------------------------------
(* Verification, with the cache or at the server alone.  The result is the *)
(* set of revisions the verification rests on; it contains None when a     *)
(* lookup fails or a request has no signed final approval, and the         *)
(* revision is then not verified.                                          *)

FromServer(o, ts) == GetRevisionAtTime(o, ts)
ThroughCache(o, ts) ==
  IF CachedObjectAt(o, ts) # None THEN CachedObjectAt(o, ts).revision
  ELSE IF windows[o] = Torn THEN None ELSE GetRevisionAtTime(o, ts)
RequestThroughCache(r) == IF r \in openRequests THEN "open" ELSE RequestAtServer(r)

At(cached, o, ts) == IF cached THEN ThroughCache(o, ts) ELSE FromServer(o, ts)
Signed(cached, r) ==
  (IF cached THEN RequestThroughCache(r) ELSE RequestAtServer(r)) = "signed"

\* What the client is told: the approver set and its member as of the creation of every
\* request, and the requests it finds signed.
Answers(cached) ==
  [at |-> [o \in {ApproverSet, Approver} |->
             [r \in DOMAIN revisions |-> At(cached, o, revisions[r].created)]],
   signed |-> {r \in DOMAIN revisions : Signed(cached, r)}]

\* What the earlier revision rests on that object o had when the request of r was made.
Earlier(answers, trail, o, r) ==
  LET e == answers.at[o][r] IN IF e = None THEN {None} ELSE trail[e]

\* VerifyChangeRequest: signed by a trust anchor, or by the verified approver set of the
\* time the approval was created.
RequestTrail(answers, trail, r) ==
  IF r \notin answers.signed THEN {None}
  ELSE {r} \union (IF revisions[r].anchored THEN {}
                   ELSE Earlier(answers, trail, ApproverSet, r))

\* VerifyApproverSet: the set's own request, then its member when the request was
\* created.  The earlier set it was signed by is verified too: that it is not is only
\* logged, but each error on the way counts, and only a request without a final approval
\* gives none.  Whether that set's approvers made the signature is not checked here, as
\* it is in VerifyChangeRequest.
SetTrail(answers, trail, r) ==
  RequestTrail(answers, trail, r) \union Earlier(answers, trail, Approver, r)

\* The trail of every revision, in the order they were submitted: what a revision rests
\* on was promoted, so submitted, before its request was created.
TrailsFrom(answers) ==
  LET trail[r \in DOMAIN revisions] ==
        LET before == [q \in 1..(r - 1) |-> trail[q]]
        IN IF revisions[r].object = ApproverSet
           THEN SetTrail(answers, before, r) ELSE RequestTrail(answers, before, r)
  IN trail
Trails(cached) == TrailsFrom(Answers(cached))

-----------------------------------------------------------------------------
Init ==
  /\ now = Start
  /\ revisions = History
  /\ updated = [o \in Objects |-> Start - 1]
  /\ windows = [o \in Objects |-> <<>>]
  /\ snapshots = [r \in 1..MaxRevisions |-> None]
  /\ openRequests = {}
  /\ hints = [o \in Objects |-> None]
  /\ stops = 0

\* Approvers submit a revision of an object that has none open, and later the final
\* approval promotes it; the two take a person more than a second.
Submit(o) ==
  /\ Len(revisions) < MaxRevisions
  /\ \A r \in DOMAIN revisions : revisions[r].promoted # now
  /\ \A r \in DOMAIN revisions : revisions[r].object = o => Promoted(r)
  /\ \E anchored \in BOOLEAN :
       revisions' = Append(revisions, [object |-> o, created |-> now, promoted |-> NotYet,
                                       anchored |-> anchored])
  /\ UNCHANGED <<now, updated, client>>

Promote(r) ==
  /\ ~Promoted(r)
  /\ \A q \in DOMAIN revisions : revisions[q].created # now
  /\ revisions' = [revisions EXCEPT ![r].promoted = now]
  /\ updated' = [updated EXCEPT ![revisions[r].object] = now]
  /\ UNCHANGED <<now, client>>

\* The row of an object is written without a new revision: information of the registry,
\* a hold, a cleared check.
Touch(o) ==
  /\ updated[o] # now
  /\ updated' = [updated EXCEPT ![o] = now]
  /\ UNCHANGED <<now, revisions, client>>

Tick ==
  /\ now < MaxTime
  /\ now' = now + 1
  /\ UNCHANGED <<revisions, updated, client>>

\* A program starts: it may load the object directory before anything else.
LoadObjectDirectory ==
  /\ \E load \in BOOLEAN : hints' = [o \in Objects |-> IF load THEN GetAll(o) ELSE None]
  /\ UNCHANGED <<server, windows, snapshots, openRequests, stops>>

\* A program asks for domains, hosts and contacts as of now; while it verifies it asks
\* for the approver set as of the creation of a request that no trust anchor signed, and
\* for its member as of the creation of a request for the set.
AskedAt(o) ==
  IF o \in Hinted THEN {now}
  ELSE {revisions[r].created : r \in {q \in DOMAIN revisions :
          Promoted(q) /\ IF o = Approver THEN revisions[q].object = ApproverSet
                                         ELSE ~revisions[q].anchored}}
Read(o) == \E ts \in AskedAt(o) : GetObjectAt(o, ts)

Next ==
  \/ \E o \in Objects : Submit(o)
  \/ \E r \in DOMAIN revisions : Promote(r)
  \/ \E o \in Hinted : Touch(o)
  \/ Tick
  \/ LoadObjectDirectory
  \/ \E o \in Objects : Read(o)
  \/ \E r \in DOMAIN revisions : GetChangeRequest(r)

Spec == Init /\ [][Next]_vars

-----------------------------------------------------------------------------
(* Properties *)

\* Every second of every cached window is one for which the server gives that revision,
\* however the windows were stretched and whatever was promoted since; the one exception
\* is the second of a promotion, asked for before it and after it.
\* (UpdateRevisionList, GetRevisionAtTime)
WindowsRight ==
  \A o \in Objects : windows[o] # Torn =>
    \A i \in DOMAIN windows[o] : \A ts \in windows[o][i].min..windows[o][i].max :
      LET r == GetRevisionAtTime(o, ts)
      IN r = windows[o][i].revision \/ (r # None /\ revisions[r].promoted = ts)

\* A program that loaded the directory is never given an object older than the directory
\* said it was, even when the cache holds snapshots of earlier runs; but for an object
\* written in the very second it is asked for.  (getSnapshotObject's refresh, GetObjectAt)
AsFreshAsTheHint ==
  \A o \in Hinted : hints[o] # None =>
    LET cached == CachedObjectAt(o, now)
        got == IF cached # None THEN cached ELSE GetExportVersionAt(o, now)
    IN got.updated >= hints[o].last \/ hints[o].last = now

\* Verification through the cache rests on exactly the revisions it would rest on without
\* one, as long as no list of windows is torn and no change request was cached while it
\* was open.  (GetObjectAt, getRevisionObject, VerifyChangeRequest, VerifyApproverSet)
VerifiedAlike ==
  (/\ \A o \in Objects : windows[o] # Torn
   /\ \A r \in DOMAIN revisions : RequestThroughCache(r) = RequestAtServer(r))
  => \A r \in DOMAIN revisions : Promoted(r) => Trails(TRUE)[r] = Trails(FALSE)[r]
=============================================================================
