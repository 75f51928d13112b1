# Verification of the Shiekh Directory

TLA+ models of the Shiekh Directory (a store and personnel directory: an Express server over
Firestore and a React client), the TLC runs that check them on small instances, and TLAPS proofs
of the most important results for all sizes. Paths below are relative to the repository root.

The Directory stores little state and almost all of it in one database, but nearly every screen
lets several people, in several tabs, change the same records over an unreliable network. The
questions that matter are therefore about protocols: what a lost answer, a late request, a stale
page, a second tab, a crash or a skewed clock can do to a reviewed change, a closure, an alert, a
correction, or to the relations between records. That is what is modelled.

## 1. Inventory

`PROJECT.json` lists every component with its sources and status. In short:

| Component | State it keeps | Operations | Module |
|---|---|---|---|
| Person transition operation (server) | receipts, audits, signed reviews, Directory documents | preview, prepare, commit, cancel, status | `TransitionOperation` |
| Person transition planner | none | what a reviewed change writes | `PersonTransition` |
| Person transition client | recovery markers in local storage, one controller per tab | open, stage, prepare, commit, cancel, recover, sign out | `TransitionClient` |
| Operating updates | the Location's closure, receipts, events; pending command in session storage | preview, commit, recover, cancel, expiry | `OperatingUpdate` |
| Operating state resolution | none | state and next transition from hours, closures and zone | `OperatingState` |
| Operating alert mail | claim receipt of an event | claim, send, finish | `OperatingMail` |
| Browser cache of the Directory | records shown, write fence, reads in flight | save, poll, reconcile, refresh the registry | `DirectoryRefresh` |
| Location form, optimistic saves, custom fields | open forms, records shown before they are saved | open, fill, save, take back, verify, rename, hours templates, field definitions | `LocationEditor` |
| Registry and person forms | drafts, the version they expect | edit, save, compare, reapply, discard, add | `RecordForms` |
| Correction requests | requests, seals, the draft in session storage, stewards' pages | submit, recover, cancel, approve, reject | `RequestSubmission` |
| Directory commit | people, Locations, users, Regions, Districts | a batch of writes | `DirectoryIntegrity`, `CommitChecks` |
| Readers: screens, APIs v2 and v3, export, reports | none | staffing, managers, hierarchy status, groups, issues | `DirectoryReaders` |
| Forms of people, Districts, Locations, imports | drafts of what is shown | what each offers, and what it finds in the way | `DirectoryScreens` |
| Leadership rosters | tenures, primaries, copies in stores | a plan of rosters | `LeadershipRoster` |
| Location CSV import | signed manifest, receipt, the panel | preview, select, acknowledge, confirm, replay | `LocationImport` |
| API clients and tokens | clients, tokens, expiries; opened snapshots | create, rotate, disable, enable, revoke, change grants, authenticate, page | `ApiClients` |
| Synchronisation API v1 | none (signed cursors); the consumer's replica | full passes, deltas | `LocationFeed` |
| Authentication, access records | uid bindings, grants, invitations | sign in, bind, save, delete, invite | `AccessRecords` |
| Browser session | session state and generation | sign in, restore, refresh, sign out | `BrowserSession` |
| Other mail: diagnostics, requests, invitations | settings, outbox, marks on access records | save settings, send, copy a link | `MailOutbox` |
| Routing, scripts, fixtures | none | | not modelled (section 7) |

How they interact:

- The browser talks to the server by `fetch`. A call may be lost, its answer may be lost, it may
  arrive after its sender gave up, and the code retries most calls. Every module with a client
  keeps the calls that were sent in a set and lets the server take any of them at any later time.
- The server's handlers are Firestore transactions: each reads what it decides on and writes
  everything, or reruns. One transaction is one atomic action of the models.
- `commit` (server/firestoreDirectory.ts) is the one way most records change. Transitions,
  operating updates and imports write the same documents by transactions of their own and
  raise the same versions. In each model the other writers of a document are an action.
- A tab's cached Directory (`DirectoryContext`) is the source of every expected version and of
  the whole records that editors and approvals write.
- After a transition is saved, its client waits for a reconciliation of the cached Directory
  before it forgets its marker; after an operating update, the tab asks for the alert mail.

The behaviours that are hard to test, with their lines, are the `hazards` of
`PROJECT.json`; the properties below are chosen from that list.

## 2. Modules

### TransitionOutcome, TransitionOperation, TransitionClient

`TransitionOutcome` is the abstract promise: each operation is unknown, prepared, committed or
cancelled; terminal outcomes are final and the business writes happen in the step that commits.

`TransitionOperation` is the server. `receipts`, `audits` and `directory` are the collections;
`reviews` are the envelopes ever signed; `clock` is the true time, from which each host's clock
is off by at most `Skew`. `PreviewCommand`, `Prepare`, `Commit` and `Cancel` are the handlers'
transactions, `WriteDocument` and `ChangeAccess` everybody else. No network appears: any action
may be taken for any review ever signed at any time. The planner is a constant function `Plan` of
the documents it reads, and a review digests everything that was read, including native update
times, as the code's `stateHash` does. `RefinesOutcome` shows that it implements
`TransitionOutcome`.

`TransitionClient` composes that abstract server with the controllers of several tabs and the
vault of markers they share. Each `await` of the code ends an action; `tab[t].step` says what is
awaited.

### OperatingUpdate, OperatingMail

`OperatingUpdate` has the Location (version, closure, lifecycle), the receipts and events of
`commitOperating`/`cancelOperating`, and the panel of each tab with its session-stored command.
Time is counted in parts of a local day, so that reviews, commits and expiries fall on either
side of midnight. Editors save the Location and others give and take the actor's authority
between any two steps. `OperatingMail` is the alert of one committed event: claim, record, relay
and finish, each await a boundary, with failures and crashes at each.

### DirectoryRefresh

Locations and Regions stand for the collections a tab shows, as many of each as wanted. A save raises `fence`, reads
remember the epoch they started with, and the registry panel refreshes on its own. Saves can be
optimistic (Location) or awaited (Region), refused, or lost.

### RequestSubmission

The New Request dialog of one tab with its stored envelope, the commit that replays or refuses a
submission and the cancellation that seals its id, stewards who approve and reject from pages
that may be stale, and editors of the same Location. The Location is one corrected field and one
other, which is enough to see a lost edit: `intended` keeps each field as its last successful
writer meant it.

### DirectoryIntegrity, CommitChecks

The five related collections as partial functions and one action, `Commit(W)`: any batch that
sets or deletes the records `W`, accepted when every relational check of `validateMetadataWrites`
accepts it (`WritesValid`, `LinksValid`, `PositionsValid`, `DistrictLeadershipValid`,
`CombinedValid`, `EmploymentValid`, `RetirementValid`, `HierarchyValid`, one per function of the
code). They are stated in `CommitChecks` of any records as they are and as they would be, which
`DirectoryIntegrity` instantiates with the two ends of a step. The checks look only at what a batch
changes; the invariants say that this is enough for the whole Directory. Left out: versions (an out-of-date batch is refused whole, which is a
stutter), roles and scopes other than a company-wide System Administrator, hierarchy
applicability, copied names, emails, store numbers and custom fields. The leadership fields of a
Location are treated alike through `Fields`, of which `DistrictManager` is the one a District may
own.

### ApiClients

`clients` and `tokens` are the collections of server/firestoreApiClients.ts, `Create`,
`ChangeStatus`, `UpdateScopes`, `Rotate` and `Revoke` its administrator's transactions, and
`Authenticate` the one every consumer request starts with. `clock` is the true time; each host
reads it wrong by at most `Skew`, and `Rotate`, which reads it before its transaction, may use any
earlier reading. What authentication returns is a credential in `held`, used later by
`OpenSnapshot` or `ReadPage` as it was then. `deadline` (until when a superseded token may be
accepted) and `changes` (how often grants were saved) are histories that no action reads except to
extend them or to label what is served. The expiry stored with a retired or revoked token is only
displayed and is left out.

### PersonTransition, DirectoryReaders, DirectoryScreens

`PersonTransition` extends `DirectoryIntegrity` with the other way in which relations change.
`TransitionOf(p, persons)` is the plan of server/personTransitionPlanner.ts written to the records
it was made from: it passes none of the checks of a batch, and its own conditions (`Eligible`,
`Decided`, `Resolved`, `Managed`, `Workplace`) stand in for them. `ChangeSpec` takes batches and
reviewed changes in any order. `TransitionOperation` says that a plan is written once and to what
it was made from; the two meet in that atomic step.

`DirectoryReaders` has one operator per reader, which follow the same references by different
rules: `ReadProjection` (screens), `Staffing` and `PersonIssues` (v2), `DistrictLeadership` (v3),
`ExportedStaff` and `MissingReferences` (export), `HierarchyStatus`, `Group` (lists), `ReadWarnings`,
`Led` and `Unavailable` (a person's page), `Report` and `ReviewStatus` (reconciliation).
`ReadersAgree` says that they never contradict each other on a Directory that the writers can
produce.

`DirectoryScreens` has what the forms offer and what they look for before they send: `Blockers` (a
person's page), `PersonReady` (the person's form), `HandoverPreviewed` (the District panel),
`NewDistrict`, `Forms` (the Location's form), `RowReady` (a row of an import), `Replacements` (the
review of a removed position). `Accepted(batch)` is whether the commit takes it: `CommitChecks` of the
Directory shown and of the one the batch would leave; `Removal` is whether the planner finds no blocker
(`Unblocked`). `ScreensForetell` compares the two, and names the three refusals that forms leave to the server: a Location retired while people work there, a Region chosen before
there is a District, and a replacement for a District with stores outside its Region.

### LeadershipRoster

The planner of tenures for Regions and Districts, as its tests call it. `Plan(op)` is one intent
for some units, refused or written whole; `ChangePerson` lets people come to qualify and cease to.
Its transactional writer is announced (docs/plans/organization-leadership-roster.md) and not in the
code, so no race with it is modelled.

### LocationEditor, RecordForms

`LocationEditor` has whole-record saves made from what a tab shows: the Location form and its
baseline, verification, hours templates, a name with its copies, and custom field definitions.
Each call carries the record, the version it expects and what its tab puts back when it fails.
`asked` is a history of what each user meant, which nothing else reads. `RecordForms` has the
forms of single records: in the registry, where a conflict is compared, reapplied or
discarded, and of people, where an unknown outcome ends the form.

### LocationImport

`signed` are the previews the server ever signed; `panel` is the import panel; a confirmation in
`calls` may arrive at any later time, and again. `Confirm` answers from a receipt or commits within
the life of the manifest, against whatever the editing form (`drafts`) saved meanwhile. A row of a
file is an id or a number, a value and an inbox; whatever else can be wrong with a row is one flag.

### LocationFeed

`past` is the database at every commit time, which is what reading at a watermark means; the
custom field definitions and the registry to compare with are read without one. The consumer
follows API.md: it stages pages, applies them with the checkpoint at the end of a pass, and starts
again from nothing when a pass is refused. Commit times, milliseconds and seconds are kept apart,
because a watermark is a whole second and a delta must not miss what was written in it.
The writers are the Directory's commit without its checks, so that the feed is checked against more
Directories than the commit allows. A page is answered in one step: what it holds is read as of its
watermark, which is past, and only the registry it is compared with is of the moment.

### OperatingState

`ResolveOperatingState` with `NextLocalMidnight`, `WallInstants` and `ShiftOf`, on integer time with
zones that skip or repeat an hour. The module is for any zones and records; the run explores three
zones and the records of `ExploredRecords`. Around it, a page shows an answer until the transition it names,
while the Location is closed, reopened or moved to another zone.

### AccessRecords, BrowserSession

`AccessRecords` is the authenticator: its queries by uid and by email are separate reads, only the
binding is a transaction, and administrators, the identity provider and invitations act between
them. `life` counts the deletions of a record, so that a record that comes back is told from the
one before. `BrowserSession` is `createSessionController` in one tab: each restore carries whether
the generation is still its own.

### MailOutbox

Every mail that is not an operating alert. A call reads the settings, resolves its recipient, writes
"Queued", sends, writes "Accepted" and, for an invitation, merges a mark into the access record; each
is an action that can fail, succeed without its caller learning it, or be the last before the host
stops. Meanwhile settings are replaced, requests decided, and records saved from tabs that show an
older mark, or deleted. `relayed` and `marks` are histories.

### MC modules

Where systems share nothing that the other reads, one MC module explores each with the others at
rest, so that the state spaces add up and do not multiply: `MCTabs` (TransitionClient,
AccessRecords, BrowserSession, MailOutbox), `MCOperating` (OperatingUpdate, OperatingMail, OperatingState),
`MCApi` (ApiClients, LocationFeed), `MCRequests` (RequestSubmission, LocationEditor, RecordForms)
and `MCDirectoryIntegrity` (DirectoryScreens with DirectoryReaders, PersonTransition,
DirectoryIntegrity and CommitChecks; LeadershipRoster). `MCTransitionOperation`, `MCTransitionClient`, `MCDirectoryRefresh` and
`MCLocationImport` have one system each.

Definitions named `Faulty...` are seeded faults. No specification uses them; each is a plausible
slip in the definition after it, and the property named for it in `PROJECT.json` fails with it.

## 3. Runs

| Run | Question | Bounds |
|---|---|---|
| `operation` | do receipts and writes agree under every order of requests and skewed clocks, and is the abstract promise kept? | 1 actor, 2 operations, 2 intents, 2 documents, 2 reviews, 1 outside write per document, lifetime 2 and skew 1 at times 0..1 |
| `client_tabs` | do two racing tabs ever hide a save or tell an untruth? do sign-ins bind identities one to one? does a session go back to an access it has left? is what the outbox says of mail true? | 2 tabs, 2 operations, no failures; 2 identities, 2 emails, 2 records, 2 sign-ins, 1 invitation, 3 saves; 1 change of access per user, 2 restores under way; 2 mails, 1 request, 1 record, 2 configurations |
| `client_crash` | is a marker lost with a failure, and is every marker resolved? | 2 tabs, 1 operation, 1 lost call, reload or sign-out |
| `operating` | closures and what the panel says; is the alert sent at most once? does a shown state hold until its transition? | 2 tabs, 2 operations, 2 local days of 2 parts, Location versions to 3, 1 failure; 4 mail requests with every failure and crash; 12 instants in days of 4, weeks of 2, 3 zones, 2 changes of the record |
| `directory` | leaders, owned managers, hierarchy, workplaces, links, what readers make of them, and whether forms offer what the commit takes; rosters | outside the hierarchy 2 people, 1 Location, 1 account, batches of 3; inside it 1 Location of 2 types with 1 person, 2 Regions and 2 Districts or 2 people, 1 Region and 1 District, batches of 2; reviewed changes in both; 2 cells to a row of an import; rosters of 1 Region, 1 District, 1 store in either or both, 2 people, 2 plans |
| `refresh` | is a confirmed save ever taken back by a fenced read, and does the tab become fresh? | 1 Location and 1 Region, 2 saves of the tab, 1 by others per record, 1 reconciliation, 1 failure |
| `registry_refresh` | the same for the unfenced registry refresh: **violated** | as `refresh` |
| `requests` | is a correction saved once and decided once, is no edit lost, and does any save change what its user did not ask for? | 2 ids, 1 steward, 2 values, 4 calls, Location versions to 2; editing: 2 tabs, 2 Locations (with custom fields, one of them edited), 2 saves, 1 failure; forms: 2 tabs, 3 saves of a unit or 2 of a person, 1 failure |
| `api` | does a token outlive its overlap, or a snapshot mix grants? is a replica the roster of its watermark? | 1 client, 3 tokens, 2 scopes, 3 grant versions, times 0..4, overlap 2, snapshot life 2, skew 1; 2 Locations in pages of 1, 2 numbers, 2 registries, 2 sets of definitions, 3 writes, times 0..5 in seconds of 2 ticks |
| `imports` | does an import replace only what was reviewed, keep numbers apart and share no inbox unseen? | 2 Locations, 1 added by the form, 2 files of 2 and 3 rows, life 1 at times 0..1, 2 previews, 2 confirmations, 1 edit |
| `import_report` | what the panel says after a lost answer: **violated** | as `imports` |
| `import_ids` | ids of new rows over previews of one file: **violated** | as `imports`, one file of 2 new rows |

Why the bounds are enough to be interesting. Two operation ids suffice for one change sent
under two ids, which is what the receipts must tell apart, and two tabs for every race on the
vault. A host's clock can read up to 2 when the true time is 1, so reviews expire, receipts are
stamped backwards, and a receipt outlives its review. One failure at any point covers each await;
the second tab supplies the interference. In `operating` a closure confirmed on the first day can
be committed, expire, or be renewed on the second. In `requests` four calls allow a submission,
its retry, a cancellation and a review, in every order of arrival; two ids allow a correction to
be sent again under a new one. The directory scopes allow the smallest batches that can go wrong: a handover
writes a District and its member; a promotion writes a person and a Location; an inactivation
writes a person, a Location and an account. In `api` three tokens let one be rotated again during
its overlap, three grant versions let grants change there and back, and time 4 is when the slowest
clock must have seen an overlap of 2 end; two pages and three writes let a write fall before,
between and after the pages of a pass, in the watermark's second or outside it. In `imports` one
file meets the other's rows, the second preview may be signed before or after the first is
committed, and the edit falls before, between or after. Two saves of a tab are what a failed save
needs to take back, or not to, beside a newer one; a third save of a unit is the conflict after a
reapplied draft.

Deadlock is not checked where the bounds let everything end (`client_*`, `operation`, `operating`,
`import*`), nor in `api`, where a revoked client has nothing left to do. Symmetry is used only in
runs without liveness properties.

What the properties say (each is stated at its definition):

- `AppliedExactlyOnce`, `ReceiptsReadable`, `CommittedReviewsDiffer`, `RefinesOutcome`: a reviewed
  change is applied once, if its receipt says so, can always be read again, and no two changes
  reviewed against the same state are both committed.
- `UnresolvedNeverForgotten` (client): while a request can still take effect, some marker leads
  back to it. `SavedShownBeforeForgotten`, `ToldTruth`, `MarkersResolve`.
- `ClosuresFollowEvents`, `ClosedOnlyTheDayConfirmed`, `ToldTruth`, `UnresolvedNeverForgotten`
  (operating updates); `OneAlertPerEvent` (alert mail); `OutboxTruth` (other mail): no write, word or
  host that is lost makes the outbox, an answer or an access record claim what did not happen, and a decision is mailed
  only to the address that asked for it; `ShownStateHolds`: the state a page shows does
  not change before the transition that was named with it.
- `FencedReadsKeepConfirmedSaves`, `EventuallyFresh` (cache).
- `ToldTruth`, `OneSavedPerIntent`, `NoLostEdit`, `DecisionsStand` (corrections).
- `NothingUnasked`, `MetadataKept` (Location form and custom fields): what
  a commit changes was asked for by its user, and stored values suit their definitions.
  `FormsSaveWhatWasShown`: a form replaces the record its author saw, and creates one person.
- `LeadersQualified`, `OneDistrictManager`, `HierarchyCoherent`, `WorkplacesOpen`, `LinksLive`
  (relations); `ReadersAgree`; `RosterCoherent`. `ScreensForetell`: a form that finds no obstacle
  sends what the commit takes, and one that finds one holds back what it refuses.
- `SharingAgreed`, `ReplacesWhatWasSeen`, `ImportsKeepNumbersApart` (imports).
- `OverlapEnds`, `SnapshotPagesShareGrants` (API clients). Clock errors count twice in
  `OverlapEnds`, once for the host that sets an expiry and once for the host that compares with
  it; "immediately" and "exactly 24 hours" (API.md:157) hold up to that.
- `ReplicaIsRoster` (feed): the replica of a consumer is the active
  roster of its watermark. A retired Location may stay in it until the next full pass, as API.md
  says.
- `BindingsOneToOne` (access records), `AccessNeverGoesBack` (session).

**Findings.** Three runs show where the code does otherwise than its documents say.

- `registry_refresh`: `refreshHierarchyRegistry` (src/context/DirectoryContext.tsx:323) ignores the
  write fence, so its late answer can show a Region as it was before a save that the same tab has
  confirmed, against docs/dispatches/dispatch-22-immediate-operating-state.md:20 ("Read responses
  racing a local write are discarded"). The next poll corrects the page; the saved record is never
  wrong.
- `import_report`: a confirmation whose answer was lost, retried and then refused before the
  receipt is looked up, is reported as rejected (LocationImportPreviewPanel.tsx:243). The result
  file lists rows as not saved that were saved, and the correction file offers them again, against
  docs/dispatches/dispatch-09-confirm-location-import.md:67.
- `import_ids`: the id of a new row counts only the rows that are new at that preview
  (server/locationImportPreview.ts:125). After part of a file was imported, the next new row gets
  the id of one already saved and can never be confirmed, against
  docs/dispatches/dispatch-13-location-inbox-email.md:35.

Smaller differences met on the way, which no run is spent on. API.md:182 says that no Firestore
records are written by its endpoint, but the authenticator before it may bind a uid
(server/authAuthority.ts:97). A Location with a District and no Region is accepted by the commit
and reported by the readers as a mismatch; `ReadersAgree` names it as the one such case. The mail
handlers write an outbox record "Failed", with the words that the relay did not accept, also over
"Accepted", when only recording the relay's acceptance or marking the invitation failed.
Undoing an audited change (DirectoryContext.tsx:891) changes only the tab. Settings, rules,
runbooks, email and hours templates have no version: the last writer wins, and a failed save stays
on the screen. Reapplying a Region's or District's draft after a conflict carries all of the draft,
also what its author did not touch; the review shows it.

## 4. Fairness

Only two runs assume any, `client_crash` and `refresh`.

- `TransitionClient!FairSpec`: awaited calls end with an answer or a failure (the transport has
  15-second timeouts), a cancellation that was sent reaches the server unless its tab gives up on
  it, and the administrator does press the offered recovery or cancellation again. No prepare or
  commit is assumed to arrive: it is the seal that resolves a marker whose request vanished.
- `DirectoryRefresh!Fairness`: the 30-second timer keeps polling a visible tab, a read ends with
  an answer or its timeout, and a save is served and answered. The last is not bounded by the
  code, whose save has no timeout (listed as a hazard); the lost answers that do end a save as a
  failed `fetch` are modelled.

## 5. Proofs

The theorems hold for all values of the constants: any numbers of tabs, records, operations, calls
and failures, any bounds and any clocks. They rest on named assumptions only, which every run that
extends their module evaluates: sentinels lie outside the types they stand beside
(`NoneAssumption`, `SentinelAssumption`, `AbsentAssumption`, `MailAssumption`, `EditsAssumption`,
`FeedAssumption`, the two `FormsAssumption`s, part of `UpdateAssumption`), bounds are natural numbers, a planner
returns documents, an imported file is a sequence of rows and a form fills in what it has inputs
for (`LocationImport`), no id names both a Region and a District (`RosterAssumption`), no
District has the name of a heading of the lists (`HeadingAssumption`), and records of different
collections are told apart (`RecordsApart`), as documents are by their paths. `FeedAssumption` also says that
Locations are listed in some order, that a page holds at least one and that a second is whole
milliseconds. `StateAssumption` says that zones and records are of their kinds, that no closure of a
record starts in the future (the code only closes from now on), and that no zone is set back across a
midnight: where 00:00 becomes 23:00 of the day before, the date itself repeats, the search for the
midnight may find either of its ends, and what is shown until then is not claimed.

A property of a run is seldom inductive. For each component the proof names an invariant that is,
and its parts say why the property holds.

**Reviewed changes of people.** `TransitionOperationProofs` (the server): `ExactlyOnce`,
`AuditsComplete`, `AlwaysReadable`, `ReviewsSerialized`, `OutcomesFinal`, and the refinement
`ImplementsOutcome`. `CommittedReviewsDiffer` is not inductive: that two reviews differ says nothing
of the next commit. The strengthening `CommittedReviewsBehind` says that the state a committed
change was reviewed against has been left for good, since the commit itself wrote a document with a
later native update time; a review that still matches the Directory can then not be one already
committed.

`TabsProofs` (the client): `MarkersOutliveRequests`, `SavedChangesAreShown`, `WhatWasToldStaysTrue`.
`ClientInv` adds what a controller may believe (`Sound`): a final status that a recovery was answered
is the outcome, and a saved change it is about to forget has been displayed. `Careful(t)` says what
any step of a tab may do to what tabs share; each handler is shown to be careful, and a careful step
keeps the invariant, so that interference between tabs is argued once.

**Tabs and sessions.** `TabsProofs` also has `LateAnswersChangeNothing` (`SessionInv`: at most one
restore holds the generation, none after sign-out began, and what it was answered is no older than
what was shown), `IdentitiesBoundOneToOne` (`AccessInv`: who was admitted in this life of a record is
who it is bound to, and a sign-in that binds found a record that was granted in the life it found it
in) and `OutboxStaysTrue`. `OutboxTruth` alone does not survive a step: `StepsTell` adds what each
point of a call has written, `RelayedAsResolved` that nothing is relayed before that, `DecisionsStand`
that a decision once resolved is final and its mail addressed to who asked, and `MarksTell` that a mark put back by an old tab was made
by a merge. `PartsAreExplored` shows that the composition which TLC explores behaves as each of its
parts, so that every theorem about a part holds of the run.

**Operating updates.** `OperatingProofs`, the alert: `AtMostOneAlert`, `AcceptanceTold`,
`AcceptanceFinal`. `HolderNamed` says that a handler between its claim and its end is the one named
by the receipt, hence the only one; `StatusAgrees` ties the receipt to how far that handler got. The
updates: `WhatWasToldHolds`, `CommandsAreKept` from `CommandInv`, in which an operation is pending in
one tab and its calls are that tab's (`OneOwner`), a first attempt is the only call until it was
answered (`FirstAttempt`), and what was told is settled and held by no tab (`ToldSettled`);
`EventsMakeClosures` and `ClosuresEndAtMidnight` from `ClosureInv`: events have versions up to the
Location's, and a closure ends at the midnight after its start, whatever the length of a day.

The state that is shown: `ShownUntilTransition`, for every record, schedule and zone. `Held` says that
an answer holds until the transition it names. The date is the same up to the midnight that the
calculation finds (`DatesAdvance`, `Midnight`), so yesterday's, today's and tomorrow's shifts are the
same ones; and no shift or closure among them begins or ends before the first that is named. That it is
the first follows because there are finitely many (`ChangesPlaced`, `BoundariesPlaced`). `ShownInv`
keeps what `Held` needs of the past: what is shown was the answer for a record whose closure had begun
by then. The search for the midnight is a recursive function over pairs of instants. The induction
theorems of the library cannot be instantiated, but an induction over a given set of numbers can be
stated and proved (`Induction`, from the least element of its complement), and with it that the search
is defined (`BisectionDefined`) and what it returns (`BisectionFinds`).

**Relations of the Directory.** `DirectoryProofs`: `LeadersAreQualified`, `OneManagerPerDistrict`,
`HierarchyStaysCoherent`, `WorkplacesStayOpen`, `LinksStayLive`, for batches of any size. The
inductive invariant `Integrity` is the conjunction of all six. They need each other:
`LeadersQualified` exempts the copies of an owned manager, which `OneDistrictManager` makes equal to
the District's, which is checked; and a Location that keeps its District keeps its copy because
`HierarchyCoherent` excludes references to Districts that do not exist. `ChangesKeep...` are the same
for batches and reviewed changes of any person in any order: what a change leaves alone (`Rest`) and
what it decides of each slot (`Settled`) keep every conjunct, although the plan is never looked at by
the checks of a batch; the proof is what justifies writing it past them. `ReadersTellTheSame` is
`ReadersAgree` for every Directory so reached: `Readable` adds to `Integrity` that a placed Location
has a registry to be looked up in and that nobody supports where they work, and each reader's rule is
then derived from it.

`ScreensForetellTheCommit` is `ScreensForetell` for every Directory so reached, and for drafts, rows and
choices of any size. Each form is compared with the checks in three steps: what its batch writes and
what the Directory would then be (`PersonAccepted`, `LocationAccepted`, `HandoverBatch`,
`DistrictAdded`); what the eight checks amount to for such a batch (`PersonBatch` to `PersonLawful`,
`LocationBatch` to `LocationLawful`: every check but a few holds of itself, because the rest of the
Directory is as the invariant says); and that the form asks for the same. Both directions need the
invariant. A person's page looks at what its screens resolve, and the commit at the copies stored;
they agree because of `OneDistrictManager` (`NothingLed`). The form of someone inactive need not ask
what they lead, because nobody inactive leads (`NoDuties`). A workplace that was there may be offered
again because it is still open (`DraftEmployed`), a District that was there because it is still
active and still in that Region (`LocationFormForetells`). A row for a new Location need not ask who
works there, because nobody works where nothing is (`RowRetires`).

`ScopesAreChanges` shows that the scopes TLC explores are behaviours of
batches and reviewed changes. `RostersStayCoherent`, `HistoryIsKept`: a plan for one unit writes only
copies of that unit's type, so it cannot disturb the copies another managed unit relies on; that is
the step the proof turns on. `ScopedRostersStayCoherent` carries it over to the run.

**What tabs save.** `RequestsProofs` has three parts. Corrections: `ToldTheTruth`, `SavedOnce`,
`AuditsComplete`, `EditsKept`, `DecisionsFinal`. `TabInv` relates the dialog to the calls still
travelling: a refusal taken as definite answers the only call ever sent for its id, a sealed id is
never saved, and every id of the current correction but the stored one was given up for good.
`StewardInv` says that every copy of the Location, on a page or in a review call, is older than the
Location or equal to it, which is why the version check is enough for `NoLostEdit`. Forms of units
and people: `FormsReplaceWhatWasShown` from `FormsInv`: every copy a form is based on or reviews is
genuine, a saving form is what exactly one call answers to (`SavesLinked`), and what a call would
write over the record its author saw was asked (`CallKeeps`). Whole Locations:
`SavesChangeWhatWasAsked` and `CustomFieldsAreKept` from `EditInv`. `CopiesFit` says that every copy a
tab shows, fills in, has sent or may put back is older than the saved Location or differs from it in
nothing but what its user asked for. A confirmation ends what was asked, so this needs
`CopiesNotPast`: while a save may be confirmed, no copy in its tab is newer than what it expects,
unless the save is going to be refused.

`DirectoryRefreshProofs`: `ReadsRespectTheFence` from `FenceInv`: the count of pending saves is
that of the saves without an answer (`PendingCounts`), and a read whose epoch is still the fence's
began with none waiting and has seen all that was confirmed (`UnracedKeeps`). It holds of any number
of Locations and Regions; a poll reads them in one step, a reconciliation one collection at a time.

`LocationImportProofs`: `SharingIsAgreed`, `SavesReplaceWhatWasSeen`, `ImportedNumbersStayApart`.
`SeenIsFollowed` says that a record once shown, in a signed preview or a form, is there still or was
replaced under a higher version; the acknowledged sharing is compared with what is shared at the
moment of the save, so nothing has to be known about what happens in between.

**API.** `ApiProofs`: `ReplicaFollowsRoster`, `OverlapsEnd`, `RevokedForGood`, `PagesShareGrants`, `AlwaysOneCurrent`.
`ExpiriesBeforeDeadlines` says that a stored expiry lies a clock's error before its token's deadline:
it survives a rotation that finds the token expired by its own clock and leaves it, since it was then
at most that clock's reading. `VersionsCount` says that a grants version counts the savings of the
grants, in the client, in credentials and in snapshots alike. For the consumer, `FeedInv` says that a record is
what it was when it was last written (`UnwrittenSince`), that a delta still is about the checkpoint it
named (`PassFollows`), and that a pass has staged, up to its cursor, exactly what its watermark lists
(`StagedToCursor`). The lemmas are about pages (`Paged`: what a page holds ends where the next begins,
for any page size) and about clocks (`WrittenBefore`: a time that floors to a millisecond before a whole
second is itself before it). `Unlisted` joins them: what a delta leaves out is in the Directory as the
checkpoint had it, so what the replica keeps of it is right.

Proved, and in no run: `AuditsMatchReceipts`, `AuditsMatchRequests`, `TerminalOutcomesStay`,
`AcceptedTruth`, `AcceptedIsFinal`, `OneCurrentToken`, `RevocationIsTerminal`, `HistoryKept` and the
types. Some theorems of one part state a property that its run names through an instance
(`RosterCoherent`, `OutboxTruth`, `ClosuresFollowEvents` and the like); the composition theorems above
carry them over.

Only model-checked: liveness (`MarkersResolve`, `EventuallyFresh`), which is outside what the prover
handles. The three runs that expect a violation refute what they state, so there is nothing to prove.

## 6. Abstractions shared by the models

Records are reduced to the fields a property can tell apart; documents are values with versions.
Digests and signatures are taken to be injective: a receipt keeps the review itself. Authentication
is a condition on the actor's record where a handler reads it live, and otherwise absent. Rate
limits, size limits, parsing and wording are left out. An action that is refused, or answered from
a receipt, changes no document and is a stutter on the server's variables. Bounds are constants
named `Max...`, in guards, and appear in no property. The Firestore library's rerun of a single
transaction whose acknowledgement was lost is not modelled.

## 7. Not modelled, and what is next

Not modelled, or only in part, and why:

- Roles and scopes in the commit other than a company-wide System Administrator: each is a filter
  on which batches are accepted, so fewer Directories are reachable, not others. Individual emails are
  checked in the transaction that writes them, as are unique user emails (`AccessRecords`).
- Of the reconciliation report, duplicates and the lists of locations that people once carried; it
  has no caller but its tests.
- The two-minute token of an export lives in the memory of one process and is bound to the
  authority it was prepared under; the editing export writes what `DirectoryReaders` reads and is a
  file.
- Of the other mail: roles, templates, bodies, rate limits, and the outbox as the screens list it.
- CSV parsing, contact, address and custom field conversions: they work on one value, keep no state
  and are covered by the repository's unit tests. In the models an invalid value is one that is
  refused.
- Screens without protocol state (dashboard, Location list and detail, admin layout), fixtures
  (src/data/initialData.ts), server wiring, migration scripts. They are more than a third of the
  code.
- Last-used stamps of tokens, rate limits and size limits.

Next, modelling: versions of records written before versioning beside deletion and recreation under
the same id; a second consumer protocol
for v2 and v3 in which pages of one snapshot are applied.
