# TabMail in TLA+

TabMail is a company mail system: a Go server with PostgreSQL and an object
store behind it, an SMTP server for inbound mail, an outbound delivery queue,
webhooks, and a web client (React, SWR) that is more than half of its code. This
directory holds TLA+ models of the outbound core and of the web client with the
transactions it depends on, the TLC runs that check them on small instances, and
the TLAPS proofs that carry the results about the core, the session, the mail
pages, the permission dialogs and the console's nine pages to every instance.

Paths of server code are under `src/internal/`, paths of the web client
(`app/`, `components/`, `features/`, `lib/`, `contexts/`, `hooks/`) under
`src/web/`.

## Inventory

| component | state | operations | what is hard |
|---|---|---|---|
| outbound worker (`outbound/`, `delivery/`) | locals of a handler: job, token, ledger snapshot | authorize, list, begin, deliver, complete, mark | crashes, lost replies, lapsed leases around a network call that cannot be undone |
| outbound store (`store/postgres/outbound*.go`) | `outbound_jobs`, `outbound_recipients` | enqueue, claim, begin, complete, finalize, retry, inspect | fencing by token and lease; two-statement claim |
| operator reconciliation (`store/postgres/company_ops.go`) | the same rows; an inspection version | inspect, reconcile | evidence older than the job's last change; partial evidence |
| recipient-ledger migration (`store/postgres/migrations/00014_*`) | rows of the old protocol | hold, backfill | states the new protocol never makes |
| employee offboarding (`store/postgres/employee_disposition.go`) | users, drafts, mailboxes, queued jobs | plan, apply | races with the queue |
| workqueue engine (`workqueue/worker.go`) | generation: stopping, cancelled, runners, done | Run, Start, ProcessBatch, Stop, StopContext | timed-out shutdown and replacement, upgrade of a shutdown, join |
| submission (`outbound/service.go`, `store/postgres/outbound.go`) | jobs, drafts, quota counts | submit, replay | idempotency, draft consumption, quotas at a day boundary |
| webhook outbox (`hooks/`, `store/postgres/queue.go`) | outbox events, deliveries | publish, claim, fan out, mark | late marks after lease recovery |
| inbound ingest (`ingest/`, `store/postgres/ingress.go`) | receipts, targets, messages, daily quota | accept, process, deliver target, recover | crash between targets, reservation release |
| raw objects (`rawobject/`, `retention/`) | content-addressed blobs, references, retry keys | put, store, release, sweep | delete racing a new reference to the same content |
| attachment GC (`store/postgres/company_attachment_gc_scheduler.go`) | attachments, objects | sweep | the same race, other table |
| configuration cache (`configcache/`) | entries, in-flight loads | get, invalidate | load racing invalidation |
| request lifecycle (`api/lifecycle/`) | admissions, done | enter, go, stop | drain |
| realtime hub (`realtime/`) | subscribers, history | subscribe, publish | slow subscribers |
| company data (`store/postgres/company_*.go`, `mailbox_revision.go`, `permission_*.go`) | settings, mailboxes, grants, templates, profiles, each under a revision | compare and set | lost updates |
| web session (`lib/session.ts`, `lib/api/base.ts`, `contexts/auth-context.tsx`, `components/auth-dialog.tsx`, `app/home-content.tsx`) | storage, refresh cookie, lock, requests | sign in and out, renew, request | several tabs, replies after the identity changed, another user's cookie left by a lost sign-in, a lock held across a renewal, forms that go on after it |
| web mail (`features/mail`, `components/company/compose.tsx`) | draft, revision lane, lists, route | type, autosave, submit, open, move | lost replies, read-back, views that changed before an answer |
| web administration (`features/company`, `components/company`, `app/(dashboard)`) | a draft, what was read, what was acknowledged | edit, save, review, confirm | another administrator, answers out of order, failed rereads |
| resolver, policy, mail content, DKIM, settings, metrics, rate limit | none or caches | pure functions over strings | none that a model checker reaches |
| SMTP server, HTTP API | sessions, requests | decode and call the above | refresh-token rotation; the rest is in the components above |

The components meet in the database: a submission inserts a job and its ledger;
the workqueue engine calls `ClaimOutboundJobs` and then the outbound handler;
the handler writes its progress through fenced statements; administrators
inspect, reconcile, retry and offboard through transactions on the same rows.
Nothing else writes `outbound_jobs` or `outbound_recipients`
(`PgStore.RequeueOutboundJob`, the retry without authorization, has no caller).
The web client reaches the same rows through requests that may be lost, late or
answered after the page has moved on; its writes carry the revision the page
saw, and the server refuses another one.

What makes them correct: a recipient never gets a second copy; what the ledger
says is what happened; an unknown outcome is never resolved by guessing; only
the holder of a live lease writes; every queued job ends; shutdown is complete
when it says so, and no two generations of runners work at once. In the web
client: what is submitted is what was shown, once; nothing unseen is overwritten;
typed input is not lost to a late answer; no page shows or announces what is not
so; and no answer reaches another identity's page.

## Modules

| module | models |
|---|---|
| `OutboundDelivery` | the outbound queue, its workers and its administrators |
| `RecipientOutcome` | abstract specification: what outbound delivery promises for each recipient |
| `MCOutboundDelivery` | the symmetry set of the TLC runs |
| `WorkerLifecycle` | runners, admission and shutdown of a `workqueue.Worker` |
| `OutboundWorkerProofs` | theorems of `OutboundDelivery` and of `WorkerLifecycle` |
| `WebSession`, `MCWebSession` | tabs, storage, refresh cookie and lock, and the server's token families |
| `WebSessionProofs` | theorems of `WebSession` |
| `ComposeEditor` | the mail editor, its revision lane, drafts and submissions on the server |
| `ComposeEditorProofs` | theorems of `ComposeEditor` |
| `MailWorkspace` | the mail page: route, editor, cached lists, moves, the private content reader |
| `MailWorkspaceProofs` | theorems of `MailWorkspace` |
| `PermissionEditing`, `MCPermissionEditing` | profile and member permission dialogs, compare-and-set writes, the company event stream |
| `PermissionEditingProofs` | theorems of `PermissionEditing` |
| `TemplateEditing` | the template page: library, editor, publication, versions |
| `TemplateEditingProofs` | theorems of `TemplateEditing` |
| `PageAction`, `PageForm` | what the administration pages share: one action at a time, requests that are lost or late, cached reads |
| `MailboxAdmin` | grants, transfer and conversion, send policy of one mailbox |
| `CompanySettings` | company settings and domains |
| `Onboarding` | invitations, their links, activation |
| `DirectoryForms` | offboarding plans, mailbox creation, template grants |
| `RecoveryDesk` | the recovery page; receipts and their targets with the ingest workers; reconciliation of outbound jobs |
| `PlatformForms` | system settings and SMTP policy |
| `TenantDirectory` | the tenant list with overlapping commands |
| `TenantDialogs` | API keys and overrides of a tenant |
| `OperationsViews` | lists of ingest jobs, webhook deliveries, audit entries, domains; the monitor and its stream |
| `CompanyConsole` | composes the nine pages above into one specification |
| `ConsolePagesProofs` | the pages of the console, but for the mailbox and settings pages: an invariant of each, and that no page shows what is not so |
| `CompanyConsoleProofs` | the mailbox and settings pages, and the other theorems of `CompanyConsole`: nothing is done twice, nothing unseen is overwritten, commands do what was confirmed, input is kept, reviews release |

Operators whose comment starts with `MUTANT` are wrong versions of the
definition that follows them. Each checked property has at least one: with it in
place of the right version TLC finds the property violated, so the property does
depend on the code it is about. A property of the console that speaks of several
pages has a mutant for each kind of promise.

### OutboundDelivery

State: the columns of `outbound_jobs` that the protocol reads (`state`,
`attempts`, `delivery_token`, the remaining lease, the remaining wait until
`next_attempt_at`, and `in_flight_domain` as `marker`), the ledger
(`outbound_recipients.state`), whether the sender is still authorized, each
worker's program counter and locals, and each operator's last inspection.
`copies` counts what the next hop really accepted: no code reads it, the
properties do.

Each SQL statement or transaction, and each network call, is one step:

| action | code |
|---|---|
| `HoldExpired`, `Claim`, `NothingToClaim` | the two statements of `ClaimOutboundJobs` |
| `StartHandler`, `Authorize` | `Service.processOne` up to `deliverRecipients` |
| `List`, `SkipSettled`, `Recheck`, `Conclude` | the loop of `deliverRecipients` |
| `Begin`, `Complete` | `BeginOutboundRecipient`, `CompleteOutboundRecipient` |
| `Deliver` | the suppression check and the adapter, `sendSMTP`'s reading of replies included |
| `HandlerFails` | an error return of any of them |
| `Mark`, `MarkError`, `MarkErrorLost` | `finalizeOutbound`, called by the handler or by `Worker.processOne` |
| `Crash` | process death, cancelled runner, failed mark |
| `Inspect`, `Reconcile`, `Requeue`, `Offboard`, `ChangeAuthority` | the administrators' transactions |
| `Tick` | the database clock and the context's deadline |

Abstractions and assumptions:

- A delivery token is a number no claim had before (`gen_random_uuid()`).
- The inspection version (`updated_at`) is a bit per operator, cleared by every
  write to the job; equal timestamps of two writes are not modelled.
- An operator's evidence is true at the time of the inspection: `Reconcile`
  accepts a recipient exactly if the next hop then had the mail.
- A suppressed recipient is a permanent rejection; delivery telemetry is left out.
- The reply of a claim reaches its worker within `StartTicks`, and
  `StartTicks + HandlerTicks <= LeaseTicks`. The code bounds the handler (one
  minute) and the lease (five), not the delay before the handler starts; a
  process suspended for four minutes between the two is outside the model, and
  `SenderOwnsJob` would fail for it.
- Past its context's deadline a delivery ends before the next hop takes the
  message: adapters set the connection's deadline from the context.
- An error mark may come arbitrarily late: it runs under the runner's context,
  which has no deadline.
- Legacy in-flight markers (`legacy:review-required`, an old domain name) are
  one value: no code tells them apart.

### WorkerLifecycle

State: the current generation and, per generation, `stopping`, `cancelled`,
`runners` and how often `done` was closed; each runner's position, its entry
point (`Run`, `Start`, `ProcessBatch`), whether its context is done and what
is left of its batch; each stopper's position. Every critical section of
`lifecycleMu` is a step; the store and the handler run between steps. The
options `WithSerialClaims` and `WithStopOnFailure` are chosen in `Init` and
never change. Its specification is `LifecycleSpec`, with fairness
`LifecycleFairSpec`. `Register` with a context that is already done does nothing and
is a stutter. Two variables only observe: `callerDone`, that a runner's own caller
ended its context, and `hurried`, the generations `StopContext` was called for.
`GracefulStopDrains` compares what becomes of claimed jobs with these two, not with
the contexts the code consults: every way out of a batch is covered (the dispatch
loop, a handler that fails under `WithStopOnFailure`, an exit), and a job may be given up only
if somebody cancelled.

### RecipientOutcome

Three steps: an attempt is announced (`uncertain`), the next hop takes the
message at most once and only while announced, and outcomes are recorded only
if true. `OutboundDelivery` implements it with `ledger` and `copies` mapped to
themselves: all that workers, leases and administrators do is a stutter or one
of these steps.

### The web modules

React handlers are steps: the code between two awaits is one action, and the
answer of a request is another, so everything that can happen during an await
(typing, navigation, another tab, an event, a second answer) does. Ownership
objects (`useRef` of a fresh object compared after an await) are flags or
counters captured when an operation starts. A cached read (SWR) has the rows
last delivered and the read under way. A server handler is one transaction and
applies the guard of the Go function that implements it, revision checks
included. The data are small: a mail is a sender, a template pin, a text and
attachments; a form has one or two fields; revisions are numbers.

Faults, all from how `fetch` can fail: a request never arrives, arrives and its
answer is lost, or arrives after the page gave up on it (`stray`).

- `WebSession`: each tab has one credential change and one request under way,
  plus the shared refresh. Storage and cookie belong to the browser, the lock to
  one tab at a time. The server's families are numbers with the current sequence. A
  sign-in may start while another tab is signed in, since a form stays open, and a
  lost answer may have left its cookie behind: a renewal then gets a token of
  another user, which `doRefreshToken` must refuse. Forms resume after the lock was
  released: the dialog and the account page reread the storage (`Resume`), the home
  page installs its answer again (`ReinstallHome`). A renewal without a cookie is
  answered 400 and keeps the identity; one that fails with 500 may have rotated.
- `ComposeEditor`: every step ends with `Commit`, the effects React runs after a
  render. `lane` is the promise chain of `DraftWriter`, `wire` its request. A write
  that is refused with a code of `isDeterministicErrorCode` latches, also when it is
  turned away as unauthorized before the handler. `withdrawn` only observes: whether
  the right to send, or to the sender, has been missing after any render since the
  click of the operation under way. The code compares generation numbers instead;
  `NothingAfterRevocation` says that they tell the same.
- `MailWorkspace`: `opens`, `acts` and `live.loads` are the operations that
  outlive the view that started them.
- `PermissionEditing`: the page's calls carry the epoch they were made in; the
  stream may drop and resynchronise.
- `TemplateEditing`: editor and page are two lanes, each with one action.
- The nine pages of `CompanyConsole` share the request machinery of `PageAction`.
  The router shows one page at a time and a page keeps nothing when it is left,
  so a behaviour of the console is one of a page; within a page one form is
  followed and the others act as rivals. `OperationsViews` and `TenantDirectory`
  have several requests in flight and keep them in `ui`.

## Runs

| run | instance | checks |
|---|---|---|
| `outbound_safety` | 1 job, 2 recipients, 2 workers, 1 operator, 2 faults, 1 manual retry | `TypeOK`, `AtMostOneCopy`, `SentIsDelivered`, `MarkerMatchesLedger`, `LiveClaimIsFenced`, `KeepsPromise` |
| `outbound_legacy` | a job held by the migration, 2 recipients, 2 workers, 2 operators, 1 fault, 1 retry, fairness | `LedgerIsTrue`, `HoldNeedsEvidence`, `QueuedJobsSettle` |
| `outbound_attempts` | 1 worker, 1 recipient, no faults, max_attempts 3 | violation of `DeadWhenExhausted` |
| `outbound_legacy_hold` | a job held by the migration | violation of `HoldCanBeReconciled` |
| `worker_lifecycle` | 2 runners, 2 stoppers (one bounded), 2 generations, batches of 2, fairness | `JoinMeansQuiet`, `CancelReachesAll`, `GenerationsDoNotOverlap`, `GracefulStopDrains`, `StopReturns` |
| `compose_editor` | 2 mailboxes (one template-only), 2 texts, 2 drafts, 3 revisions, 2 edits, 2 faults | `JobIsWhatWasShown`, `OneJobPerDraft`, `AttachmentsFitSender`, `OverwritesOnlyWhatItSaw`, `NothingAfterRevocation` |
| `web_session` | 2 tabs, 2 users, 3 tokens, 2 families, 2 calls, 1 lost answer, fairness | `OneIdentity`, `ResultsForAsker`, `SuccessIsCurrent`, `RenewalSignsNobodyIn`, `RequestsSettle` |
| `web_session_home` | the same without lost answers | violation of `InstalledUnderLock` |
| `mail_workspace` | a received and a sent message, a draft, 3 inputs, 1 fault, 2 loads | `OwnMovesAreShown`, `NoContentAfterDenial`, `EditorNotReplaced`, `AutomaticMovesStayHome` |
| `permission_editing` | 2 profiles, 1 member, 2 fields, 2 values, 1 edit, 2 rival changes, 1 fault | `StaleDialogIsFlagged`, `WritesWhatWasTyped`, `DeletesWhatWasReviewed` |
| `templates` | a published template, 3 moves, 2 calls, 1 rival change, 1 lost answer | `OverwritesOnlySeen`, `PublishedAsShown`, `EditsSurviveReplies` |
| `company_console` | nine pages, 3 moves, 2 actions, 1 rival change, 1 lost answer each | `DoneOnce`, `ShownIsTrue`, `TypedInputSurvives`, `NoBlindOverwrite`, `ReviewReleases`, `ConfirmedAsShown` |

Bounds. Jobs do not share state except through the tokens, so one job suffices;
two workers are what a takeover needs, and two recipients give partial results.
Two faults allow a crash followed by a lost reply, or two takeovers. A lease of
one tick with no start delay makes every lease lapse at the earliest moment
(`outbound_safety`); the other runs separate start, handler and lease. Two
generations suffice for an overlap or a replacement. The proofs remove all
these bounds for what they cover.

In the web modules `MaxMoves`, `MaxInputs` and `MaxEdits` bound what the user
does between requests, `MaxCalls` the actions or requests a page starts,
`MaxRivals` the changes of others, `MaxLost` and `MaxFaults` lost answers,
`MaxChoices` the queries of a list view, `MaxClaims` the claims of a receipt,
`MaxRev`, `MaxDrafts`, `MaxTokens` and `MaxFamilies` the server's counters. The
hazards need one action whose answer is lost or late, a rival's change, and a
second action with a keystroke between them; the mutants, each of which needs
such a sequence to be seen, show that the bounds reach them. These runs do not
check for deadlock: when the budgets are spent and every answer is in, the page
rests. `web_session` starts signed out or signed in, so that two calls are enough
for a sign-in beside another session, and a renewal or a second sign-in after it;
it checks safety and liveness on one instance, without symmetry.

Fairness. `QueuedJobsSettle` assumes that each worker keeps taking steps
(`Worker.run` polls on a ticker for as long as the process lives) and that the
clock runs. No administrator and no fault is obliged to happen; faults and
retries are finite, since a job that is retried by hand for ever never settles.
`StopReturns` assumes that claims and handlers return, that a closed channel is
noticed, and strong fairness of `Leave`: Go's `select` chooses at random among
ready cases, so a closed `stopCh` is not passed over for ever.
`RequestsSettle` assumes that fetches end, if only as failures, that promise
continuations run, and strong fairness of the lock: `navigator.locks` grants
requests in order, so a waiting tab is not passed over for ever.

Deadlock is checked in the outbound and worker runs. Nothing stops for good: idle workers poll, and
a shut-down worker can be stopped or started again.

### Disagreements found

- `outbound_attempts`: `ExponentialCappedBackoff.Dead` tests
  `job.Attempts >= limit-1` on a counter the claim has already incremented, so
  a limit of 5 gives 4 attempts. The comment (`workqueue/worker.go:119-120`)
  says a job is dead "once the next attempt would exceed MaxAttempts", and the
  setting is described as "Max delivery attempts" (`config/config.go:141`). The
  other half of the comment and the unit test describe the code.
- `outbound_legacy_hold`: migration 00014 holds a job in state `processing`
  even when each of its recipients is known to be delivered. Reconciliation
  takes uncertain recipients only and refuses an empty list, and a retry refuses
  the marker, so that hold is never lifted, although the migration's comment
  relies on reconciliation to lift it. The first state TLC generates shows it.
- `web_session_home`: `installSession` is "Called while holding the shared cookie
  lock" (`lib/session.ts:103`), and `components/auth-dialog.tsx:116-117` says "Never
  reinstall it from a component continuation after release." The form of the home
  page (`app/home-content.tsx:86-87`) does: when its `login` has resolved it calls
  `loginWithTokens`, which installs the answer a second time. If another tab signed
  out in between, that tab's sign-out is undone in the storage; if it signed in as
  somebody else, that identity is replaced. The other properties hold with this
  step: the identity that is put back is one user's, and the user asked for it.

## Proofs

`OutboundWorkerProofs` proves of `OutboundDelivery`, for any constants that satisfy
`TimingAssumption` and `BoundsAssumption`:

- `InvariantHolds`: `Spec => []IInv`;
- from it `TypesHold`, `NoDuplicates`, `LedgerTells`, `MarkerAgrees`,
  `SentMeansDelivered`, `SenderIsOwner`;
- the action properties `HoldsAreSafe` and `ClaimsAreFenced`;
- `PromiseIsKept`: `OutboundDelivery` implements `RecipientOutcome`
  (`Promise`, an `INSTANCE ... WITH` that maps `ledger` and `copies`).

`AtMostOneCopy` is not inductive: a worker about to send must know that its
recipient has no copy yet. `IInv` therefore says that live claims have distinct
tokens (`ClaimsDistinct`), that a live context implies a live lease with at
least as much time left (`ContextWithinLease`, the only use of the timing
assumption), that a live worker's snapshot is the ledger except at the
recipient in flight (`SnapshotIsCurrent`), that marker and ledger agree, that
the ledger is true, and that a current inspection of a job at rest is still
what the next hop has (`EvidenceIsCurrent`). The proof has one lemma per part
and in each one step per action.

Of `WorkerLifecycle` it proves, under `LifecycleAssumption`, that `LInv` is
invariant (`LifecycleInvariant`) and from it `NoOverlap`, `NoSecondClose`,
`JoinIsReal`, `CancelReaches`, `LifecycleTypesHold` and the action property
`StopDrains`.
`LInv` says that a generation's runner set is who is in it, that `done` is closed
exactly when a begun generation is empty, that waiters wait for a begun
generation, and that a context is done only because its caller ended it or
`StopContext` was called for the generation (`EndsForAReason`), on which
`StopDrains` rests.

The web modules share one shape of argument. Something the user did (a click, a
keystroke, a sign-in) is captured by an operation that ends much later: a
request, a queued save, a pinned command, a stray message that the server may
still take. The property is about the moment it ends, so the inductive invariant
says of every such operation what it still carries, and one lemma says that the
server only moves forward (tokens stay minted for their user; a revision never
comes back with other content), so that what was true of a captured version
stays true. The assumptions are that `None` is no member of the sets it is added
to, that the sets of values are not empty, that the counters that start at one
(`MaxTokens`, `MaxFamilies`, `MaxDrafts`, `MaxRev`) have room for that one, and
that the other bounds are natural numbers. No bound is assumed small.

`WebSessionProofs` (`SessionBounds`): `SInv` (`SessionInvariant`) says that the
token in storage, in every request and in every finished sign-in belongs to the
user whose scope captured it, that a sign-in never renews, and that whoever changes credentials holds the Web Lock (`LockIsExclusive`). From it
`IdentityIsOne`, `ResultsReachAsker`, `SuccessIsTrue`, `OneCredentialChange`,
`TypesHold`, and the action property `NoRenewalSignsIn`. `OneIdentity` alone is
not inductive: a renewal may meet the cookie of another user, and the home page
installs an answer that nobody guards any more, so each needs to know for whom
its token was minted.

`MailWorkspaceProofs` (`WorkspaceBounds`): `WInv` (`WorkspaceInvariant`) says
that at most one awaited draft may still open an editor and none while one is
open (`OneOpening`), that an operation that still owns its view was started from
the present route (`OwnersAreHome`), that loads have distinct versions, none of
them the refused one (`LoadsInOrder`), and that no answer under way shows a moved
item in its old list, nor a list on screen unless it is about to be read again
(`MovesAreKnown`). From it `MovesStayMoved`, `DenialIsFinal`, `EditorStays`,
`CompletionsStayHome`, `WorkspaceTypes`.

`PermissionEditingProofs` (`PermissionBounds`): `PInv` (`PermissionInvariant`)
says that members hold live profiles, that rows and baselines are versions the
server had (`ListOK`, `EditOK`), that whatever a draft changes was typed
(`EditOK`, `PermOK`), that each command, the stray ones included, changes what
was typed in the version that was seen and deletes for the members that were
agreed to (`WireOK`), and that with no frame under way an unflagged dialog, and
an answer about to fill one, is current (`FreshOK`). From it `NoStaleSave`,
`DeletionsWereReviewed`, `WritesAreTyped`, `PermissionTypes`.

`ComposeEditorProofs` (`ComposeBounds`): `CInv` (`ComposeInvariant`) says that a
submitted draft is gone for good (`ServerOK`), that a submission under way or
left behind shows the version it names (`SubmitOK`, `StrayOK`), that a save is
based on the version it replaces (`Based`, in `StrayOK`, `WriterOK` and
`WireOK`), that the lane holds at most one operation of the user, at its end,
with what the click showed (`LaneOK`), that a set timer is one the editor wants
(`TimerOK`), and that what a click captured has the present sender until a move
is counted (`OwnerOK`). From it `SentAsShown`, `SentOnce`, `FilesFitSender`,
`ComposeTypes`, and the action properties `NoBlindOverwrite` and
`RevocationStops`. The last needs one more invariant, `OwnershipOK`: the
generations a click captured are the present ones only while nothing was
withdrawn since, and until then the right is there, so that the next withdrawal
is a move that is counted; an operation that has no owner has none to lose.
The proof reduces every transaction to its effect on drafts
(`Served`) and every render to its effect on the editor before it goes through
the actions. TLC has checked `CInv` on the bounds of `compose_editor`.

`TemplateEditingProofs` (`TemplateBounds` and `NoneApart`, explained below):
`TInv` (`TemplateInvariant`) rests on one fact about the server: a template's
revision only grows, and while it stays the content does (`Grows`), so what was
read once is a past of what is there (`Past`). `RequestOK` says of every request
under way or left behind that, if its template is still at the revision it names,
a save's sender had been shown that content and a publication shows that
subject. `SelOK`, `ReviewOK` and `StoredOK` say the same of the draft, of a review and of
what a save has stored, `AgreeAll` that a list under way does not contradict what
was stored, and `SaveOK` that the draft differs from the snapshot of a save only
where it was typed over. `PageOK` keeps the answer of a retirement, which
overlaps all of this, from lowering the revision of a draft saved meanwhile. From
it the action properties `OverwritesSeen`, `PublishesShown` and `TypingSurvives`.
None of the three is inductive: each is about the end of a request, and what it
needs was settled when the request set out. TLC has checked `TInv` on the bounds
of `templates`.

The console has six properties and a theorem for each: `ShownTrue` in
`ConsolePagesProofs`, the others in `CompanyConsoleProofs`. They assume
`ConsoleBounds` (`None` is no revision, no floor under one and no password), and
all but `NothingTwice` also `NoneApart`: `None` is no record, function or
sequence. The code's `null` is none of these either; the second assumption ranges
over all sets, which TLC cannot enumerate, so it is a hypothesis of the theorems
and not an `ASSUME`. TLC gives `None` a model value, for which both hold.

`NothingTwice` is `Spec => []DoneOnce`. Its invariant `ConsoleOK` has a
part for each page the property speaks of. `RecoveryOK` says that a target has one
copy exactly when the ledger says it was delivered, that a closed receipt has a
copy for every target, and that one given up leaves none waiting, so that a retry,
which takes no delivered target, finds nothing to deliver twice. `SettingsOK` and
`MailboxOK` say of each form that the revision it knows is above the one whose
write was acknowledged, or that the form is held until a read shows more (`saved`
in the grant editor, `high` in the lifecycle editor, `required` in the policy and
settings forms), and of each running action which command it waits for and above
what its answer must be. `MailRow` adds that an acknowledged revision is older
than the row, since a revalidated list may replace what the form knows at any
time. TLC has checked `ConsoleOK` on the bounds of `company_console`.

The other five rest on `FormsOK`, an invariant of all nine pages: `PagesOK` for
the seven pages other than settings and mailbox; `SettingsOK`, `ZonesOK` and
`SeenOK` for settings, `MailboxOK` and `BoxSeenOK` for mailbox. TLC has checked
it on the bounds of `company_console`, with `Fields` (a record has these fields)
stated by `DOMAIN`.

- `ShownTrue` (`[]ShownIsTrue`) needs, page by page, what makes the screen true
  one step earlier. Where a property says that an acknowledged change is on the
  screen, the invariant says where the change may still be: in the answer that is
  under way, in the reread that the form waits for, or behind a warning
  (`PanelSettled` and `ListSettled` of the directory forms, `ShowsPolicy`,
  `Truth` and `Shown` of the tenant list, which follow every one of its
  overlapping commands through retries, `LimitsShown`). A fact of this kind holds
  while nobody else has changed the data and no answer was lost, as the property
  itself says. For the recovery page `InspectionsOK` ties every inspection to the
  id that was asked for and to the version at which it was true; for the lists
  `Held` bounds every cached page by what the server has, and `Latest` says that
  the query on the screen has an entry of its own.
- `ConfirmedShown` (`ConfirmedAsShown`): what a confirmation captured stays
  attached to the command until the server serves it, also when it is served
  after the form gave it up; the server's checks (the plan's fingerprint, the
  receipt's version, the ledger) refuse it once the data has moved on, and a save
  of the platform's settings or of limits carries only the fields that were
  edited, or the numbers that were shown. `ZonesOK` keeps the primary domain
  among the company's domains.
- `InputSurvives` (`TypedInputSurvives`): the invariants say what a running action
  holds of its form, and whether the form on the screen is still the one that
  started it, so that nothing but its own accepted answer empties a form.
- `SeenOverwritten` (`NoBlindOverwrite`): `SeenOK` and `BoxSeenOK` say that a row
  is never older than what a form, a running read, an answer or a command that
  is still under way was filled from, and that whatever has the row's revision
  has its content. A write is accepted only at the row's revision, so it
  replaces what was seen.
- `ReviewsRelease` (`ReviewReleases`): the same invariants bound everything a form
  can wait for (`high`, `minimum`, `newer`) by the row, so that a read of the
  row meets it.

Only model-checked: the liveness properties (`QueuedJobsSettle`, `StopReturns`,
`RequestsSettle`), which need fairness and are out of the prover's reach. Every
other property of a passing run has a theorem. The invariants `IInv`, `LInv`,
`SInv`, `WInv`, `PInv`, `CInv`, `OwnershipOK`, `TInv`, `ConsoleOK` and `FormsOK`, the type
invariants other than that of `OutboundDelivery`, `SenderOwnsJob`,
`DoneClosedOnce` and `LockIsExclusive` are proved and in no run. `TypeOK` of
`TemplateEditing` documents its variables and is in no run either.

## Not modelled, and the plan

Not modelled because nothing in it changes state that a property could relate:
the user interface's text, documentation pages, layout and UI kit; the
HTTP layer's decoding; string handling (addresses, MIME, DKIM, the splitting of
an event stream into frames); metrics. The plans page is a form of the kind
`PlatformForms` models and adds no other behaviour. Left out of modelled pages:
the reason an operator types on the recovery page, the read-only panel of
effective limits, attachment downloads, previews' rendering, and the account
toggles of the member page. `features/company/user-management.tsx` is modelled
for its permission dialog only.

Planned, in this order:

1. `ClaimQueue`: outbox events and webhook deliveries: claims fenced by the
   attempt number, recovery after the lease, fan-out, with the theorem that a
   late mark never changes a later claim.
2. `RawObject`: put, reference and release of content-addressed objects, the
   retention sweep and its retry list: a referenced object exists.
3. `Submission`: concurrent replays of one key and quota reservation under
   ordered advisory locks, on the server's side of `ComposeEditor`'s
   submissions; composed with `OutboundDelivery`'s `FreshJob`.
4. SMTP acceptance and the daily quota in front of `RecoveryDesk`'s receipts.
5. `ConfigCache` (a load racing an invalidation), the request lifecycle owner,
   and the backoff arithmetic with 63-bit durations.
