# go-registrar: a TLA+ verification development

go-registrar is a registrar of Internet domains whose every change is approved by people who sign it with GPG. Web users
edit domains, hosts, contacts, approver sets, approvers and API users; each edit is a *revision* that becomes effective
only after a *change request* (CR) collected signed *approvals* from the required approver sets. A provisioner outside
the web server reads the approved objects, verifies the chain of signatures itself, and drives the registry over EPP.

This directory holds models of that program, checked with TLC on small instances, and theorems about them proved with
TLAPS for every instance. Paths below are relative to `src/`.

1. [Inventory](#1-inventory) 2. [Modules](#2-modules) 3. [Runs](#3-runs) 4. [Proofs](#4-proofs)
5. [What the models show about the code](#5-what-the-models-show-about-the-code) 6. [Not modelled](#6-not-modelled-and-why)
7. [Plan](#7-plan)

## 1. Inventory

The Go code has about 40,500 lines outside tests; half of it is `lib/`, where the same workflow is written out once per
kind of object.

### Approval workflow (`lib/`)

| part | state it keeps | operations | modelled in |
|---|---|---|---|
| domain (`domain.go`) | `State`, `CurrentRevisionID`; EPP columns, hold, `CheckRequired` | form create / edit, `UpdateState`, push, clear check, hold | `DomainChange`, `Provision` |
| domain revision (`domainrevision.go`) | `RevisionState`, `DesiredState`, required approver sets, its CR, what it says | create, edit, `StartApprovalProcess`, `Cancel`, `Promote`, `Supersed`, `Decline` | `DomainChange`, `RevisionEdit` |
| change request (`changerequest.go`) | `State`, `InitialRevisionID`, `ProposedRevisionID`, its approvals | `UpdateState`, `UpdateApprovals` | `DomainChange`, `ObjectChange` |
| approval (`approval.go`) | `State`, `Signature`, approver set, `IsFinalApproval` | upload (form or API), `UpdateState`, the `AfterSave` hook | `DomainChange`, `ObjectChange` |
| approver set, approver (`approverset*.go`, `approver*.go`) | as domains; the set's members, the approver's key | the same workflow, and cascades to waiting approvals | `ObjectChange`, `RevisionEdit`, `DomainChange` |
| host, contact, API user (`host*.go`, `contact*.go`, `apiuser*.go`) | as domains | the same workflow | `ObjectChange`, `RevisionEdit` |
| verification (`core.go` `VerifyCR`, `Compare`) | none | compares the pending revision with what was attested | `DomainChange`, `ObjectChange`, `RevisionEdit` |
| bootstrap (`bootstrap.go`) | approver set 1, approver 1, their revisions | one-time set-up | initial states of `ObjectChange` |
| store (`dbcache.go`, `alt_gorm.go`, `db.go`) | rows, one cache per request | `FindByID`, `Save`, `Update`, hooks | row saves in `ObjectChange`, `RevisionEdit` |
| control lists (`controls.go`) | revisions of two lists, one active | set, get, create | - |

Every operation edits a row and then calls `UpdateState`, which calls the `UpdateState` of the objects around it. An
approval calls its CR, the CR calls all of its approvals and the object, the object promotes or declines its pending
revision, an approver set calls every approval that waits on it. The recursion is mutual, some of it runs inside a GORM
`AfterSave` hook, and each object reads the others from the database at the time of the call.

Hard: revisions open side by side; approver sets and approvers that change while approvals wait; signatures that arrive
late, twice, or about another revision; a cascade stopped halfway by an error or a crash; requests that interleave and
save whole stale rows; lists that are cleared and filled one statement at a time.

Correct means: one revision is in force and the object names it; it got there by an approved CR with a signature about
that very revision, written against the revision it replaced; an object is in a pending state only while a revision
waits; what is decided, cancelled or superseded stays so; what clients accept is what was signed.

### Registry side and clients

| part | state it keeps | operations | hard | modelled in |
|---|---|---|---|---|
| provisioner (`provision/`) | verified objects, availability and information from the registry, run report | verify, poll, check, create, update, renew, transfer, push, clear checks | lost answers, death in a run, approvals meanwhile, order of commands | `Provision`, `Registry` |
| EPP super client (`epp/superClient/`) | transaction IDs | one call per EPP command with a 90 s timeout | late answers | `EppConnection` |
| EPP client (`epp/client/`) | state machine, bounded channels, three goroutines, time of the last greeting | connect, hello, log in, work, log out, shut down | interleaving, timeouts, goroutines that end | `EppClient` |
| EPP server (`epp/server/`) | connection state, log-in attempts, objects | greeting, commands, timeout | a command before the log-in | `EppServer` |
| EPP messages (`epp/*.go`) | none | build, cut the stream, unmarshal into generic objects, type them | pieces of any size, a buffer of fixed size | `EppMessages`, `EppCodec`, `MessageChannel` |
| API client (`client/`) | disk cache, revision windows, hints, trust anchors | fetch at a time, verify CRs and approver sets | answers in any order, torn files, stale files | `ClientCache` |
| handlers, server (`handler/`, `server/`) | a cache per request | web and API entry points, save after parse | no transaction around a request | the requests of the workflow modules |
| approver client, password tools, escrow, whois, CSRF, keychain, templates | - | - | - | - (section 6) |

`PROJECT.json` lists the hazards found in this code, each at its line, with the properties that cover it, and maps every
definition of the modules to the lines it stands for.

## 2. Modules

| module | models | composed with |
|---|---|---|
| `DomainChange` | approval workflow of one domain, every request with its whole cascade | `DomainLedger` |
| `ChangeLedger` | abstract: changes submitted, judged once, an approved one replaces what it was written against | |
| `DomainLedger` | refinement mapping `DomainChange` => `ChangeLedger` | |
| `DomainChangeProofs`, `DomainDecisionProofs` | theorems about the three | |
| `ObjectChange` | the workflow's five other copies, save by save, with crashes and overtaken requests | `ObjectLedger` |
| `ObjectLedger` | what the five copies keep of `ChangeLedger`, with a crash and without | `MCObjectChange` |
| `ObjectChangeProofs` | theorems about the two | |
| `RevisionEdit`, `RevisionEditProofs` | edit, start, attestation and acceptance of a revision, statement by statement, all six kinds; theorems | `MCRevisionEdit` |
| `Registry`, `Provision`, `ProvisionProofs` | the registry; the runs of the provisioner over the registrar's rows; theorems | `MCProvision` |
| `EppMessages` | message construction, generic unmarshalling, `TypedMessage`, `MessageType` | |
| `EppCodec`, `EppCodecProofs` | one direction of a connection: encode, split, type; theorems | `MCEppCodec`, `MessageChannel` |
| `MessageChannel` | abstract: a channel that keeps the order, loses and repeats nothing, and may close | |
| `EppWire`, `EppClient`, `EppServer`, `EppConnection` | connection, client state machine and goroutines, peer, super client over all of them | `MCEppConnection` |
| `EppConnectionProofs` | theorems about them | |
| `ClientCache`, `ClientCacheProofs` | API client with disk cache against a changing server; theorems | `MCClientCache` |

The split follows what can go wrong, not the files. `DomainChange` has the cascade in full (several approvals, blocked
sets, rosters) with requests that run to their end. `ObjectChange` has one approval per CR, but requests that can be
cut between any two saves or be overtaken. `RevisionEdit` goes one level further down, to the statements on the lists,
and has no cascade.

### `DomainChange`

`db` is the database: `db.state` and `db.current` are `Domain.State` and `Domain.CurrentRevisionID`; `db.rev[r]` is
revision r (IDs grow in the order of creation, `unused` = not created yet); `db.cr[r]` is the CR that starting r made
(`none` = not started), with `init` for `InitialRevisionID` and one approval per approver set (`none` = the set is not
required). `roster` holds which sets are inactive, the members of each set's current revision and which approvers are
active. A signature is the attestation it decodes to: the change request and revision it is about, the key that made it
and its action. Whether a signature verifies is computed (`ValidSignature`) as the code does.

One action is one request, run to its end with the whole cascade it starts:

| action | code |
|---|---|
| `EditDomain` | `Domain.ParseFromFormUpdate`: the state may be toggled between new and newexternal |
| `CreateRevision`, `EditRevision` | `DomainRevision.ParseFromForm`, `ParseFromFormUpdate` |
| `StartApprovalProcess` | `DomainRevision.StartApprovalProcess`: CR and approvals, the domain's pending state, `UpdateApprovals` |
| `Cancel` | `DomainRevision.Cancel`: the domain's `UpdateState`, then the CR's |
| `UploadSignature`, `RefuseUpload` | `Approval.ParseFromFormUpdate` / `processUploadedSignature`, which refresh the CR's approvals first, then `PostUpdate` |
| `ApproverSetPromoted` | `ApproverSet.UpdateState` after a revision of the set took effect, with its cascade to waiting approvals; `nested` says whether the save runs within an outer transaction |
| `ApproverPromoted` | `Approver.UpdateState`: no approval is called |

The cascade: `ApprovalStep` is one call of `Approval.UpdateState`; `ApprovalUpdateState` adds the second call from
`AfterSave` and the rollback of the save when that call fails; `Settle` is the loop over a CR's approvals with the final
approval last; `Advance`, `Fires`, `CRUpdateState` are `ChangeRequest.UpdateState`; `DomainUpdateState` with `VerifyCR`,
`Promote`, `Decline`, `Revert` is `Domain.UpdateState`. In the code these call each other recursively until nothing
changes; the operators give that fixpoint stage by stage, which keeps the module free of recursive operators so that it
can be proved about.

Assumed: GPG is ideal (a signature verifies for exactly the key that made it); `FinalSet` is approver set 1, which
`SetRequiredApproverSets` adds to every list; revisions of an approver set are promoted at any time with any members;
the web front end enforces nothing beyond what the handlers check.

### `ObjectChange`

`kind` is host, contact, API user, approver or approver set; the operators that differ between the copies ask for it.
`root` marks the two objects bootstrap makes. `db` has the object's row, its revisions and CRs; a request is a list of
row saves computed from what it read, and `Does` may stop after any prefix of them ("crash"). `late` is a request
that has read its revision and is overtaken by others before it goes on ("race"); it then saves what it read. A repeated
start of an approver set's approval is "restart". `trouble` records which of the three has happened, so that a property
can say what it survives. One attestation per CR, of approver set 1 (`paper` is the one prepared last, to be uploaded at
any time); rosters and further approvals are `DomainChange`'s.

`ObjectLedger` reads the rows as a `ChangeLedger`: a revision with a CR was submitted, against the CR's
`InitialRevisionID`, and the CR's decision is its verdict. `KeepsLedger` says what a request is of the ledger. Without trouble
it is a step of it. A crash may cut `TakeOver` between the three rows it saves, but what was submitted and judged stays
(`Submit`, `Judge`), and `CurrentRevisionID` still moves only to an approved revision and only from the one that was
written against (`Succeed`). Overtaken and restarted requests are outside: they may ask for approval of a revision again.

### `RevisionEdit`

`row` is the revision with its columns and lists. Lists of other objects (approver sets, name servers, members) hold
IDs; lists the revision owns (addresses of a host, DS records of a domain) hold rows whose IDs the database gives out
once. `jobs` has what each of the `Requests` is at: the revision in its memory, and for an edit its form, the list it is
at and the items it has yet to add there. One action is one statement:

| action | code |
|---|---|
| `BeginEdit`, `BeginStart` | `UpdateHandlerWeb` and `StartApprovalProcess` have read the revision and found it new |
| `Delete` | `ParseFromFormUpdate` deletes the rows of an owned list; those of the form are in memory |
| `Clear`, `Add` | `UpdateApproverSets`, `UpdateHosts` and the copy for approvers: `Clear`, then one `Append` per item, by ID |
| `Save` | the handler saves the row (a start saves it as "pendingapproval") |
| `Refused`, `Swallowed` | the database refuses a statement ("dberror") that answers the request, or that does not |
| `Crash` | the process stops ("crash") |
| `Attest`, `Upload` | an approver signs what is shown; the signature is compared and puts the revision in force |

Statements of several requests interleave freely. `trouble` says what has overtaken a request between two of its
statements: another edit while an edit runs ("edits"), anything else ("race"). `Updates` are the names
of a kind's lists in the order of the code. `seen` is the export an approver signed; `CompareExport` is the
client's acceptance. Gorm is external: clearing an association also empties the field in memory, and saving a row adds
what is in its lists and removes nothing.

### `Registry` and `Provision`

`registry` and `polls` are the registry's objects and its queue; `Accepts` says which commands it has no reason to refuse,
`Refuses` which it may (an acknowledgement for reasons of its own), and `Changed` what a command does. `Registry` is external, written from the commands `epp/` builds and the answers `provision/` expects.
`Provision` keeps the registrar's rows that matter here (approved revision, check, hold, expiry) and a run: `pc` is the
phase of `main.go`, `todo` the objects it still goes through, `verified`, `avail`, `info` the maps of the same purpose,
`plan` the commands for the present object. Each command is a step and is answered, refused, lost, or carried out with
its answer lost (`mishaps` records which, with the object); the run may die before any step. Between steps users approve
and hold, and other registrars transfer (`Others`, bounded by `MaxEvents`). What users may ask for and what the registry
may hold are record sets over `Statuses`, `DSRecords` and `Addresses`, of any size; years are counted from the one in
which a registration is about to end (`StartsAssumption`: none is renewed twice at first).

### EPP

`EppMessages`: a message is a function from its parts to their data; a part is an XML element with the namespace it
was read in, and `TypedMessage` moves data from generic to typed parts. `EppCodec` sends messages as bytes in pieces of
any size through the scanner's buffer, and implements `MessageChannel`: what is handed over in order, a message at a
time, is `Reading[m]`, what the listener makes of m (`Parsed`). A message whose typing panics (`Panics`) ends the listener
and is not handed over: the channel closes at it (`Readable`). `MessagesAssumption` says of the messages that they are
`WellFormed`, as the constructors build them. `EppClient` is the state machine (`currentState`, and `fsm` for where its loop
is), `EPPSender` and `EPPListener` as goroutines of their own, and every channel with its capacity. `EppServer` is the
peer: this repository's server, or an unknown registry that answers, stays silent or closes as it likes. `EppConnection`
adds the super client: set up, calls one after the other, each with its own timeout, and log-out. Messages travel whole
there (`WorkAssumption`: every call makes a command with a transaction ID of its own); `EppCodec` shows that they arrive as
they were sent. Time is abstracted: a timer may run out whenever its handler
waits.

### `ClientCache`

The server's history is a sequence of submitted and promoted revisions over whole seconds (`HistoryAssumption`: those of an
object follow each other, and nothing was submitted in the second of a promotion, as in the steps that continue it); the client's files are
`windows` (per object, for which seconds which revision was the answer), `snapshots` and `openRequests`; `hints` is what
the running program loaded. Each action is one call of the client, stopping before, between or within the file writes.
`Trails` computes what the verification of a revision rests on, with and without the cache.

## 3. Runs

Eight runs pass, four find a disagreement between the code and what it says of itself.

| run | instance | distinct states | shows |
|---|---|---|---|
| `domain_one_set` | 3 revisions, 1 set, 1 approver, active / external | 151,252 | `TypeOK`, `OneLiveRevision`, `StateTracksCurrent`, `LinearHistory`, `PendingHasCause`, `DecidedTakesNoSignature`, `TerminalIsFinal`, refinement `ImplementsLedger` |
| `domain_two_sets` | 2 revisions, 2 sets, 1 approver, attestations that approve or decide nothing | 95,928 | `PromotedWasApproved`, `WaitingHasRequest` |
| `object_change` | 5 kinds, 3 revisions, 2 or 3 CRs, one trouble | 1,425,194 | `InForceWasSigned`, `OneInForce`, `CurrentIsAlone`, `PendingHasCause`, `DecidedIsFinal`, `KeepsLedger` |
| `revision_edit` | 6 kinds, 2 forms, 2 requests, one trouble, or a crash after two edits at once | 1,245,741 | `EditIsWhole`, `SetOneApproves`, `AcceptedAsSigned` |
| `provision` | 1 domain, 2 hosts, 2 runs, 1 failure, 1 event, acknowledgements refused | 563,316 | `CompletedMatches`, `RelockedAfterChange`, `RenewedOnce`, `NeverUndelegated`, `ClearedWhenProvisioned`, `RunsEnd` |
| `epp_codec` | every message, 2 sent, buffer of 6 bytes | 79,562 | `ReceivedAsSent`, `ListsArrive`, `NeverTorn`, `EventuallyReceived`, refinement `ImplementsChannel` |
| `epp_connection` | 3 calls, channels of 2 places | 668,329 | `AnswersMatchCalls`, `OneCommandOnTheWire`, `LoggedInBeforeWork`, `LateAnswersBounded`, `NeverStuck`, `CallsReturn` |
| `client_cache` | a domain, the approver set, its member; 5 revisions, 2 seconds | 106,192 | `WindowsRight`, `AsFreshAsTheHint`, `VerifiedAlike` |
| `good_signature` | | | violates `GoodSignatureCounts` |
| `epp_log_in` | the constants of the code as it is | | violates `AcceptedLogInReturns` |
| `provision_push` | | | violates `PushLoads` |
| `edit_error` | | | violates `ErrorIsReturned` |

Every property of a passing run has a mutant in `PROJECT.json`: a plausible bug of a mapped operator (the faulty variants
stand next to the operators in the modules) for which TLC finds the property violated.

### Bounds, and why they are enough

* **Domain.** Three revisions are the least that allow a current, a superseded and an open one, or a current and two
  competing open ones. Two sets are the least with an approval that is not the final one. One approver per set suffices:
  the code asks whether some valid member exists and whether a signature's key is a member, and both vary freely. The
  two dimensions are split over two runs because their product is out of reach. `DecidedTakesNoSignature` is checked
  with attestations that approve or decline; one of any other action is kept as a signature that decides nothing, so
  the approval still waits after its CR closed. Declined CRs with two sets are left to the theorems of section 4.
* **Objects.** Three revisions for the same reason, two CRs as the least for two requests that compete. A third CR (`LastCR`:
  for hosts without trouble) makes the object pending again while one of the two still waits that was written against
  the revision before: only then does it matter that `VerifyCR` compares `InitialRevisionID`. `OneTrouble` cuts
  behaviours after one crash, one overtaken request or one restart: the properties say what each alone survives; that
  the same holds of any mix of them is proved (section 4). `SmallCopies` gives contacts, API users and ordinary approvers two
  revisions: their copies take the steps of the hosts'. These are state constraints; all properties
  checked under them are safety properties.
* **Edits.** Two forms that differ in every column and list; five row IDs, so that a list can be refilled after an
  edit; two requests that interleave statement by statement, the least for one to undo what the other does; requests are
  symmetric. `FewTroubles` cuts behaviours after one trouble, but for a crash after two edits at once, which is what makes
  `SetOneApproves` need its condition (section 5). Any mix of troubles is left to the theorems of section 4.
* **Provisioner.** One domain with a host under it that changes and a host of another top level domain: the least for
  the order of host and domain commands, for a host without a parent and for a shared name server list. Two runs, since a
  run can only meet what one earlier run left; one event and one lost or failed command, in any phase.
* **EPP.** Two places per channel (25 in the code) and three calls: two late answers can fill `WorkResponse`, the third
  then blocks the state machine, while with a single late one it goes on. The codec's buffer
  holds two short messages or cuts a long one, and pieces are of any size.
* **Client cache.** The history starts with an approver and a set signed by a trust anchor, a domain and a second revision
  of the set; one more revision may be submitted, one second passes (`Start = 7`, `MaxTime = 8`) and one program stops.
  A submission and its promotion are never in the same second.

`CHECK_DEADLOCK FALSE` is set where behaviours end by design: a bound is used up (`ObjectChange`, `RevisionEdit`,
`Provision`, `EppCodec`) or the client has ended (`EppConnection`). `DomainChange` and `ClientCache` are checked for
deadlock and have none.

### Liveness and fairness

* `EventuallyReceived`: weak fairness of reading and scanning, the listener's loop (`epp/client/client.go` `EPPListener`).
  Nobody has to send. The messages up to the one that is to come fit the buffer and do not make the listener panic.
* `NeverStuck`: weak fairness of each goroutine (state machine, sender, listener) and of the caller's own waits, all of which
  have timers. Nothing is assumed of the peer, of the network or of who calls. The state machine ends, or is held for good
  in one of the two states the property names: it has an answer for a `WorkResponse` that is full and stays so, or it is to
  shut down and its sender has ended, so that nobody takes the stop. A full channel for a moment is neither: both are `<>[]`.
* `CallsReturn`: the same fairness. A call that is handing over its message or waits comes back, also when the state machine
  is gone, unless as many calls have timed out as `NewWork` has places; then one can wait for good (there is no timer on
  the handing over).
* `RunsEnd`: weak fairness of the provisioner's own next step; a run goes on as long as the process lives, and dying
  ends it. Two things are assumed by that. The operator answers: `fmt.Scanln` at an unused objects message
  (`provision/main.go:681`) and `PromptToConfirm` wait for as long as it takes, and the step of the model is the one after
  the answer, whichever it is. And every command ends, by its answer or by the super client's timeout (section 5 says which
  calls do not). What the registry answers is free; the property names the one answer that keeps a run going, an
  acknowledgement refused again and again (section 5).

The approval workflow has no fairness: nothing in it acts on its own, every step is somebody's request.

`epp_connection` is checked with `LoginCallbackFails` and `HandleResponseWraps` false, that is, as if the callbacks
of the log-in reported an error only when there is one; with the code as it is no behaviour gets beyond the set up, which
is what `epp_log_in` shows.

## 4. Proofs

| module | proved, for every value of the constants |
|---|---|
| `DomainChangeProofs` | `TypeOK`, `OneLiveRevision`, `StateTracksCurrent`, `PromotedWasApproved`, `LinearHistory`, `WaitingHasRequest`, `PendingHasCause`, `TerminalIsFinal`, the refinement `ImplementsLedger` |
| `DomainDecisionProofs` | while attestations approve or decline: `DecidedTakesNoSignature`, and that a CR of two approver sets is never signed |
| `ObjectChangeProofs` | types, `InForceWasSigned`, `CurrentIsAlone`, `OneInForce`, `PendingHasCause`, `DecidedIsFinal`, `KeepsLedger` |
| `RevisionEditProofs` | types, `EditIsWhole`, `SetOneApproves`, `AcceptedAsSigned` |
| `EppConnectionProofs` | `OneCommandOnTheWire`, `LoggedInBeforeWork`, `LateAnswersBounded`, `AnswersMatchCalls` |
| `EppCodecProofs` | `NeverTorn`, the refinement `ImplementsChannel`, `ReceivedAsSent`, `ListsArrive`; that the constructors build well-formed messages |
| `ClientCacheProofs` | `WindowsRight`, `AsFreshAsTheHint`, `VerifiedAlike` |
| `ProvisionProofs` | `CompletedMatches`, `RelockedAfterChange`, `RenewedOnce`, `NeverUndelegated`, `ClearedWhenProvisioned` |

Each module proves `Spec => []Inv` for an inductive invariant `Inv` and reads the properties off it. The assumptions are the
named ones of the model modules, which TLC evaluates in every run; every `Inv` was also checked by TLC on the instance
of its run.

### The workflow of domains

Any number of revisions, any approver sets and approvers, any attestations. The inductive invariant is
`Inv == Base(db) /\ Cause(db) /\ roster \in Rosters`. `Base` has the parts

* `db \in Rows`, `LiveAsDesired` (a live revision's state is the one it asked for), `OneLive`, `NothingBefore` (an unused
  or new revision has no CR), `RequestAfterStart` (a waiting one has a CR that is not cancelled),
* `DecisionsAreSigned` (an approved or declined approval holds a signature of that action),
* `PromotedApproved`, `Linear`, `StateAgrees`: the properties themselves.

Why it needs strengthening: `PromotedWasApproved` says the promoting signature is about this revision, but the approval of
a CR may hold one about another (section 5). What saves it is that `Promote` runs after `VerifyCR` in the same step:
`VerifyCR` forces every signature of the pending revision's CR to be about it, the CR is approved only with
an approved approval, and `DecisionsAreSigned` says that approval's signature approves. `LinearHistory` comes from the
comparison of the CR's initial revision with the current one, plus `OneLive`.

The argument follows the cascade. `Base` holds between the stages of a request, `Cause` only at its end. One lemma per
stage (`ApprovalStepFollows`, `ApprovalUpdateStateFollows`, `SettleFollows`, `AdvanceFollows`, `UpdateApprovalsFollows`,
`CRUpdateStateFollows`) shows that the stage only moves a CR's row to one that *follows* it (final states, signatures and
the initial revision are kept; approved is reached only with a signed approving approval), `RowsFollowKeepsBase` that such a
move keeps `Base`, and `DomainUpdateStateKeeps` that the last stage keeps `Base` and establishes or keeps `Cause`. There
is one lemma per action and `NextKeeps` joins them.

Action property and refinement. Beside the invariant, every stage lemma shows `Evolves(d, D)`: what is terminal stays, no
CR appears or changes its initial revision, and either the line of promoted revisions is untouched or one revision takes
over, which needs a pending state of the domain and ends it. The last clause makes `Evolves` transitive: however many times
a request calls `Domain.UpdateState` (an upload does so twice), at most one revision is promoted. The edit a request begins
with (`Edits`) may submit a revision; edit and cascade together are a `Step`, from which `TerminalIsFinalHolds` follows at
once and `LedgerImplemented` by reading a step as the ledger's `Submit`, `Judge` and `TakeOver`.

`DecidedTakesNoSignatureHolds` assumes `Verdicts \subseteq Judged`, without which the property is false (section 3). Its
invariant adds three parts to `Inv`:

* `Sealed`: a signature is a decision, it belongs to the only approval its CR asks for, and a decided CR has one. So an
  approved or declined CR has nothing left that waits.
* `Done`: nor has a cancelled one. `CancelledWaitsForNothing` is the point: a blocked approval may be found fit for signing
  again under a cancelled CR, but the hook of the same save cancels it.
* `Asked`: a CR asks for the sets of the revision it was written against, which is or was in force and so is never edited
  again, and what was superseded was superseded by the revision of a CR written against it.

The first two are not inductive alone: the CR an upload verifies is the pending revision's and need not be the one it
signs. `SignerAlone` shows that even then it signs a CR of one set. If the verified CR is another, all its approvals are
signed, so it asks for the final set alone, and so does the current revision it was written against; any revision that was in
force before was superseded by a signed CR, so it asks for one set too, and that contains the final one. The sets never
move under a request (`SameNeeds`, stage by stage). `OneSetDecidesHolds` is the other side of it: a CR of two sets is never
signed, so it can only be cancelled (section 5, `good_signature`).

### The other copies, with crashes, overtaken requests and restarts

Any of the five kinds, any number of revisions and CRs, any mix of troubles, any number of times. Three layers, by what
they survive:

* `Base` holds after every single row save, so also where a crash cuts a request: the current revision exists, an approved
  CR holds a signature that approves (`ApprovedIsSigned`), and a revision that was ever in force was put there by one, or
  by bootstrap (`Witnessed`, `OnlyRootBootstraps`). The saves of a request are a list; `Onward(d)` is the set of rows a
  request may make of `d` (`Base`, no decided CR touched, no ended revision revived) and `Kept(d)` the larger one an
  overtaken or restarted request may make. One lemma per list of saves shows that all its prefixes stay in that set,
  which gives `InForceWasSigned` under every trouble, and of `DecidedIsFinal` the decided CRs under every trouble and the
  ended revisions unless a request was overtaken or restarted.
* `Alone` holds between requests unless one was cut short. It is weaker than "one revision is in force", which is not
  true once approvals are restarted (section 5), and just strong enough to be inductive: a promotion saves
  the new revision, then `Supersed` of the named one only if that is in force, then the name.
* `Sound` and `Cause` hold between requests without trouble: exactly the named revision is in force, started revisions have a
  CR, what was replaced is superseded and no other's to replace (`Replaced`, the ledger's linear history), and a pending
  state has a revision that waits.

`KeepsLedgerHolds` needs one more invariant, `LinksKept`, for behaviours with no trouble but crashes: a revision gets its CR
when approval is asked for, a CR that some revision has was made, and what a CR was written against, like what is in force,
is past its approval (`Linked`). Every save of a request leads to rows that are `Ahead` of those it read: links, bases,
decisions and what is past approval stay, new CRs are against the current revision, and the current revision is the
same or was approved against the one before (`Follows`). The step from one save to the next is `AheadFurther`. A request runs
`UpdateState` up to twice, so two promotions could follow each other; the second revision's CR would have to name
the first as its base, but a base is past its approval (`Linked`) and the first was not when the request began.
Without trouble `PastKept` adds that exactly the revision before is superseded, where `Sound` excludes that a promotion
stops half way (`Halts`).

Assumed: `KindsAssumption`, `FaultsAssumption`, and `BoundsAssumption` (bootstrap makes one revision, so there is room for
another).

### The edits of a revision

Any kinds, any forms, any number of requests at a time, any mix of crashes, refused statements and overtaking. `Inv` has
the parts

* `TypeOK`, with `InOrder`: an edit has items left to add only while it is at a list of objects it has cleared.
* `RowsKnown`, `RowsMade`, `NewFinite`: of everything somebody holds (the row, the signed export, the memory of each
  request: `Held`), two items with the ID of one row have one value, and that ID has been given out; the database and the
  signed export hold no item without an ID. `AcceptedAsSigned` follows, since `CompareExport` finds the same IDs in every
  list: no edit, however often overtaken, can put another value behind an ID that was signed. The row alone is not enough
  for induction, since a request saves what it has read long ago. What a save makes is `RowsMadeAnew`: new items get
  different numbers (`Numbered`) from `nextRow` on, and keep their values.
* `OneInForce`: at most one edit runs, the list of those that must approve is empty or has set 1 (`OneKept`), in the row
  and in every memory, and an edit that has cleared it has set 1 among what it added or has yet to add (`OneComes`).
  `FirstByID` adds set 1 first (`OneIsFirst`), so every prefix of the additions that is not empty has it. It is required as
  long as no two edits ran at once, and so is `SetOneApproves`.
* `Undisturbed`: without trouble one request runs at a time; an edit is through with the lists before the one it is at
  (`Through`) and has added there what it does not have left (`Within`); a start holds the row as it is; and if no edit runs
  the row says what the last form said. That is `EditIsWhole`.

`StepTo` joins what `Delete`, `Clear`, `Add` and `Swallowed` have in common: one request's job and one list of the row move
on. Each part has one lemma for them, one for the requests that begin and one for those that end, and `RowsStep`, `OneStep`
and `UndisturbedStep` join these over `Next`.

Assumed: `RevisionKinds`, `EditFaults` and `FormsNameObjects` (the IDs in a form are those of rows, and it has finitely many
values).

### The EPP connection

Any channel size, any number of calls, any commands with a transaction ID of their own, a peer that is this server or any
registry, timers that run out at any time. The heart is `Lockstep`: of all messages on the way between state machine and
peer, in the two channels, on the two directions of the wire, or a greeting still to be sent, there is at most one, and none
when the state machine is about to send. That is `OneCommandOnTheWire` and what makes the other parts inductive:

* `GivenUp`: commands and answers outstanding anywhere, the answer the state machine is putting included, are at most the
  calls that timed out, plus the one that waits. Hence `LateAnswersBounded`, whatever the channels' size.
* `Labelled`: until a call times out, all of that carries the present call's transaction ID. Hence `AnswersMatchCalls`.
* `BeforeLogin`: while the peer waits for a log-in, the state machine is in a state before its own, and nothing that needs a
  log-in is on the way. Hence `LoggedInBeforeWork`.

Assumed: the channel size is not zero, `WorkAssumption`, and the two switches of section 3 being Booleans: the theorems
hold for the code as it is and for the code with its callbacks repaired.

### The EPP codec

Any size of the header and of the Scanner's buffer, any number of messages, any set of well-formed ones, any cuts by the
network. The invariant `CodecInv` says that what was received is the beginning of what was sent, message by message as
`Parsed` reads it, and that while the listener runs the bytes in its buffer followed by those on the network are `Framed`
as the messages still to come: there is a place in the stream where each starts, one length after the one before, and
the last ends with the stream. Naming those places in the invariant is what makes it provable without an induction over
the stream: sending adds a place (`FramedAppend`), reading moves bytes from one half to the other (`ReadKeepsStream`), and a
scan finds its token at the first place and removes it (`FramedHead`, `FramedTail`, `TokenIsMessage`). From it follow

* `NeverTorn`: the token is always one whole message, so the listener's return on a parse error is never taken. Only a
  closed connection, a message longer than the buffer, or one whose typing panics ends it.
* `ImplementsChannel`: sending is `Send`, a scan is `Deliver` or, at a message that makes `TypedMessage` panic, `Close`;
  reading is a stutter, and every other end of the listener `Close`.

The second half is about one message: `ParsedDomain` says which parts the listener finds in a well-formed message,
`ParsedPlainData` and `ParsedUpdateData` what is in them, and `SameMessageType` that `MessageType`, which counts what is
there and chooses, comes to the same result for what was sent and what was received. With the invariant
that is `ReceivedAsSent` and `ListsArrive`. `ParsedUpdateData` also says what is lost: of each list of hosts of a
domain's update all but the last.

Assumed: the header is not empty, and `MessagesAssumption`. `ConstructorsWellFormed` proves the latter of everything that the
constructors of package `epp` build, whatever names, lists and data they are given; it rests on there being at most one
object in a command or in the data of a response, of a form that the element has a field for.

### The client's cache

Any objects, any history, any clock, any number of programs that stop anywhere. `InOrder` says what the server
guarantees: of one object, one revision is open at a time and each is submitted after the one before was promoted; no
submission has the second of a promotion. `Fits(o, w)` strengthens `WindowsRight`: no revision of the object was promoted
after the window's own and *before* the end of the window. That is stable: what is promoted later is promoted at a
second no window reaches beyond, and stretching a window to a second for which the server just gave its revision keeps it.
`Fresh` says that a window that reaches this second leads to a snapshot written when the row was what it is now, or else
the row was written in this very second. `VerifiedAlike` follows for chains of any depth: the answers verification
asks for are as of the creation of requests, `InOrder` takes away the one exception `WindowsRight` has there, and the
trails are the same function of the same answers.

### The provisioner

Any domains, hosts, statuses, DS records and addresses, any approved revisions and contents of the registry, any number of
runs, deaths, lost commands, lost answers and events. The invariant says, object by object, what the commands still to be
sent make of what the registry holds: `Becomes(set, PlanFor(o), ops)` is `set` without what the commands of `ops` remove and
with what they add. Its parts follow the phases, of which `Past(k, o)` says that phase k is over for o:

* `DomainKnown`, `HostKnown`: what the availability check found out is still so, or the command that makes it so is next.
* `DomainInformed`, `HostInformed`, `Uninformed`: what was heard of the object is what the registry holds of it, until its
  own update begins. Between the two only a transfer can change a domain.
* `DomainBecomes`, `HostBecomes`: what was verified is what the registry's object becomes, if nothing went wrong so far
  (`Calm`). `DomainPlanIs` and `HostPlanIs` show it of the list of commands `DomainUpdate` and `HostUpdate` choose. Every
  command after that keeps it, since no command undoes an earlier one of its plan (`Follows`; `BecomesStill`). With an empty
  plan it is `CompletedMatches`, and, with `AsApproved`, `ClearedWhenProvisioned`. For the hosts of a parent that is to be
  external (`LeftAlone`) nothing is planned, and nothing is claimed of what they become.
* `Relocks`: the lock is on and nothing takes it off, or the addition of statuses will set it. It does not need `Calm`:
  `LockStill` shows it kept by commands that fail, are refused or are carried out without an answer.
* `Delegates`: once a removal of name servers is to come, those that stay are there or to be added before it. A removal is
  never followed by an addition (`Follows`), so when it is next they are there. That gives `NeverUndelegated`.
* `RenewedOnce` is inductive: a renewal names the year the row has and is only sent when that is year 0.

`InvSendCommand` is the centre: whichever of the five outcomes a command has, the object it is for is still on its way
(`DomainRunSent`, `HostRunSent`), the others do not notice (`DomainRunKept`, `HostRunKept`), or the run ends.

The proof corrected the model once: `NeverUndelegated` used to speak also of names that were deleted and registered anew,
which is not what it is about and fails beyond the bounds of `provision`.

Assumed: the assumptions of `Registry` and `Provision` on the shape of their constants, and that domains and hosts
are different names.

### Only model-checked

Every invariant, action property and refinement that a passing run checks is proved. What is left to TLC:

* Liveness (`NeverStuck`, `CallsReturn`, `RunsEnd`, `EventuallyReceived`): out of the prover's reach, as is what a recursive definition
  computes for every input. The trails of `ClientCache` are recursive, but `VerifiedAlike` only needs that they are a function.

## 5. What the models show about the code

### Disagreements a run finds

* **`good_signature`.** On a CR with two or more approvals the first good signature is dropped: it is checked by
  `VerifyCR`, which asks for a valid signature on *every* approval of the CR (`lib/core.go:559`, `lib/approval.go:576-601`),
  while `doc/changerequest.md:87` describes a CR with one approved approval and others to come. With attestations that
  approve or decline only, such a CR is never approved or declined (`OneSetDecidesHolds`); an attestation of another action is kept unverified, can fill the
  empty signatures, and so can bring such a CR to its end. `domain_two_sets` includes those.
* **`epp_log_in`.** `HandleResponse` (`lib/epp.go:190-203`) wraps its log's error whether or not there is one, so
  it never returns nil. The log-in callback passes it on, the state machine ends at a log-in the server accepted, and
  `NewSuperClient` waits for good. With the wrap repaired (`HandleResponseWraps` false) the property holds.
* **`provision_push`.** `LoadEPPInfo` refuses information whose name *is* the domain's (`lib/domain.go:972`): nothing the
  registry says of a domain reaches its row, among it the expiry.
* **`edit_error`.** Every kind's `ParseFromFormUpdate` keeps the error of a failed list of approver sets in one variable
  and returns or tests another (`lib/hostrevision.go:889` and its copies; domains also for the name servers). The user
  is told the edit was made, and the revision is half of the old form and half of the new. Lists of an approver set's
  members and the deletion of owned rows do return their errors.

### What each kind of trouble leaves, and what survives it

* *A crash between two saves* can leave two revisions in force (`Promote` saved, `Supersed` not), a pending state without
  a revision, and a CR that stays "new" and can only be cancelled. What was never signed is still never in force, and what
  was decided stays decided (`InForceWasSigned`, `DecidedIsFinal`).
* *An overtaken request* saves the whole row as it read it: it can take back a cancellation, or put a revision that was
  cancelled or superseded back to "pendingapproval". Nothing unsigned gets into force by it (`VerifyCR` and `Compare`
  run before every promotion).
* *A repeated start* of an approver set's revision (`lib/approversetrevision.go:942` does not ask for its state) makes a
  second CR. On the current revision its approval supersedes the very revision it promotes; on approver set 1 the pending
  revision's keys are then looked up in a set that has none, and nothing can be approved any more; its decline gives the
  set the state "approvalfailed", which its `UpdateState` does not know. When the
  restart is cancelled instead, the set goes on naming a cancelled revision: every later promotion is saved, the `Supersed`
  of the named one that follows refuses its state, and the request ends before `CurrentRevisionID` is written
  (`lib/approverset.go:395-407`). Two such promotions leave two revisions in force of which the set names neither (four
  CRs, so outside the bound of `object_change`; `NumCRs = 4` with restarts only finds it within a minute). What no restart
  and no overtaken request breaks is `CurrentIsAlone`: next to a named revision that is in force there is no other.
  `doc/approversetrevision.md:100,108,116` call the restarted states terminal.
* *An edit overtaken by the whole approval* clears and refills the lists of a revision that is in force. Clients do not
  accept the outcome: `CompareExport` finds the items' IDs missing (`AcceptedAsSigned`), with one exception: the class of
  a domain is compared but its difference only adds to the errors (`lib/domainrevision.go:146-148`, `288-290`).
* *Two edits at once* can lose approver set 1: one clears the list after the other has added set 1 to it, and the process
  stops before it adds set 1 itself, while the other goes on with what follows. The list is then neither empty, which would make
  `StartApprovalProcess` ask set 1, nor does it have set 1. TLC finds this in `revision_edit` when `SetOneApproves` is
  stated without its condition; with the condition it is a theorem.

### Observations met while modelling

Approval workflow, each reproduced with TLC when it was met and kept here instead of as a run of its own:

* A blocked approval is not cancelled with its CR (`lib/approval.go:624`, `doc/approval.md:100`).
* Cancelling a revision leaves its CR and approvals waiting if another revision of the domain is open
  (`lib/changerequest.go:268`, `doc/approval.md:59`).
* After a sibling's cancel has put the domain at rest, an approved CR no longer promotes its revision
  (`lib/domain.go:1397`, `doc/domain_states.dot:4`).
* A declined first external revision leaves the domain in new instead of newexternal: the branch tests
  externalpendingapproval (`lib/domain.go:1507`, `doc/domain_states.dot:14`).
* An approval can be decided by a signature about another CR, because the check is made of the domain's pending
  revision's CR (`lib/approval.go:576`, `doc/approval.md:30`).
* Cancelling the started revision of a bootstrapped object gives it the state "bootstrap", on which `UpdateState` only
  answers with an error.
* An approver set's CR must be made after its new approvers were promoted, or clients cannot verify the set.

Provisioner (all within `Provision`'s behaviours; `Calm` and the other premises of its properties exclude them):

* When the answer to an acknowledgement is lost, the same message may come again and its acknowledgement be refused.
  `HandlePolls` only logs the error of an acknowledgement (`provision/main.go:693-698`), and of a refused one it does not
  learn, since `AckPoll` keeps that error in a variable of an inner scope (`epp/superClient/superClient.go:203`): the message
  stays first in the queue and is asked for and acknowledged again, for as long as the registry refuses. Of a message it does
  not dequeue the code knows "this will result in a loop, exiting" (`provision/main.go:700`). TLC finds the loop when
  `RunsEnd` is stated without its first disjunct.
* Hosts of a domain that is to be external are skipped (`provision/main.go:1147`), so a host below it stays as it is at the
  registry, whatever was approved for it. Its check is cleared all the same when nothing was heard of the host or it is to
  be deleted (`LeftAlone`, `ClearedUnseen`).
* A host that is to be deleted before its domain lets go of it is refused by the registry and ends the run.
* A new host's statuses are only set by the next run; an external domain's client update lock is not taken off; a host with
  no verified parent has its check cleared without having been provisioned. A change approved during a run can lose its
  check to an `UnsetCheck` for the state before it when the push has no information of the object, or is about a host that
  is to be deleted (`ClearedUnseen`); otherwise the push compares with the row and the check stays. So
  `ClearedWhenProvisioned` speaks of approvals in the middle of a run too.
* A failed addition of name servers is only logged and the removal follows: with both lists disjoint the domain is left
  without any, the exception `NeverUndelegated` names.
* A verified host outside .COM and .NET ends every run in `GetHostInfo`; a `GetVerified...` that answers "not verified"
  without an error leads to a nil object.
* `Logout` waits for a shutdown that always times out, so the end of the run is never recorded (`EndEPPRun`).

EPP: `NewSuperClient` does not keep what its comment promises, to return an error while setting up
(`epp/superClient/superClient.go:66-70`), with the callbacks repaired either: when the dial is refused, or the connection
closes or a timer runs out during the set up, the state machine logs why and ends, while `blockUntilWaitForWork` goes on
reading a channel that nobody closes for the one status that never comes (TLC: `<>(caller # "starting")` is violated with
both switches false).

`Update.TypedMessage` reads `Postal`, `VoiceNumber` and `FaxNumber` of a contact's change (`epp/update.go:419-433`), pointers
that are nil when the element is absent, as in the message `epp/update_test.go:26-35` builds. `EPPListener` types what it
parsed, and nothing recovers: the program that receives such a message ends. In `EppCodec` the listener does (`Panics`);
what is proved of messages is about the others, and `NeverTorn` says that no other ends it but one that is too long. The
provisioner sends no contact updates; the EPP server would receive one.

A client that has been idle for the keepalive period ends, because `waitForWorkState` returns its timeout as an error
together with the state that would send the hello (`doc/EPPClientStates.txt` has it go on). `GetEPPDomainUpdate`'s typed
form of an update with several hosts keeps only the last (`TypedMessage`, `epp/update.go:453-456`; hence the premise of `ListsArrive`), and a
poll is read back as a bare command. The server's handler of transfers asks for the message type of a generic transfer
(`epp/server/server.go:1045`), while a typed one has a type of its own (`epp/transfer.go:260-292`): it falls through, and
the client gets no answer. `NewWork` has no timer: a call that hands its message over when the channel is full waits until
the state machine takes one, or for good (the condition of `CallsReturn`).

API client: `VerifyApproverSet` logs whether the earlier set that approved a set could be verified, and counts only the
errors; the text of that approval is what `clearsign.Decode` takes out of it, and no key is asked whether it signed it
(`client/client.go:1301-1313`), where `VerifyChangeRequest` demands both. `SetTrail` therefore rests a set on the objects
its verification asks for and on nothing that a signature would add; `VerifiedAlike` compares the verification with and
without cache, and does not say that either is right. Further: a torn list of windows is never repaired; a CR that was cached while open is served from the cache for ever
(hence the premises of `VerifiedAlike`); only CRs are saved by `SaveObject`, so the plain `GetDomain`, `GetHost` and the like
never find anything in the cache; approver sets and approvers get no hints, so their snapshots are never refreshed.

## 6. Not modelled, and why

* **Control lists** (`controls.go`): an administrator replaces a whole list; no protocol with another part. Its creation
  of the first row tests the wrong error variable and its query by `IsActive: false` ignores that value, so it depends on the
  first row being there.
* **Approver client**: what it fetches, signs and uploads is `Attest` and `Upload` of the workflow modules; the rest is
  prompts and output.
* **Password rotation and upload**: one straight run each by an operator; they share nothing with a running part but the
  stored passphrase.
* **CSRF tokens**: one stateless function. **Escrow, whois, templates, logging, configuration, keychain, inspection
  tools**: formatting and I/O without protocol state. **Mails and whois confirmation** of a domain: output.
* **XML text**, dates and the case of names: `EppMessages` keeps which elements a message has, not how they are spelled.
* **HTTP**: routing, rendering and transport; a request is what its handler does to the rows.
* Of the **EPP server** only which names exist and who sponsors them, not its object store. Of **bootstrap** the objects it
  leaves, not its own statements. Of the **cache** of a request what it read, not its look-ups.

## 7. Plan

Done: the workflow of domains, the other kinds' copies with crashes and overtaken requests, the EPP client with its peer and
its super client, the EPP codec, the API client's cache, the provisioner with its registry, and the edits of a revision by
statement, each with its proofs.

One thing is left that would be worth modelling:

- the control lists and the password rotation, if they come to be used by more than one process.
