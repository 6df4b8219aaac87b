# Tapture verification

TLA+ models of the parts of Tapture whose correctness depends on the order of
events: the durable processing queue of the capture app, the backend's sessions
and the device that uses them, its relay of encrypted packages together with the
devices that exchange them, the merge of such packages, the AI proxy with its
circuit breaker, and the server process with its limiter, its shutdown and its
operators. TLC checks each model on small instances. TLAPS proves every safety
property of the passing runs for every instance, some under hypotheses that
section 4 names, and that four of the detailed specifications implement a more
abstract one.

Paths below are relative to `src/`. `PROJECT.json` maps every definition to the
lines it models, lists the runs, the hazards and the theorems.

## 1. The system

Tapture is an offline-first app (Flutter, `frontend/`) in which field operators
photograph, scan and dictate records that a pipeline turns into structured
data, and a small Node backend (`backend/`) that keeps accounts, relays
encrypted project packages between devices and proxies AI requests.

| Component | State | Operations | Made correct by |
| --- | --- | --- | --- |
| Processing queue (`features/processing`) | `processing_jobs` (status, stage, attempts, generation, retry instant, lease), the batch state and its cancellation token | enqueue, requeue, claim, stage marks, complete, fail, release, retry; the batch loop | completion only after every stage; bounded attempts; a retry fences the attempt it replaces; every job settles |
| Records and bin (`features/records`) | `records.status`, tombstones | lifecycle moves, bin, restore | moves follow the lifecycle table |
| Sessions (`services/auth`, `services/org`) | users, devices, refresh families, invitations, lockouts | sign in, rotate, sign out, revoke, password change and reset, account edits | one live token in a family; reuse revokes the family; a new password ends old sessions; bounded guesses |
| Relay (`services/relay`, `services/projects.ts`, `jobs/purge-relay.ts`) | projects, members, devices, packages, acknowledgements, vectors, upload keys | create, edit, configure, upload, acknowledge, list, download, purge | ceilings; one live copy of an upload; early deletion only when every device has it; nothing outlives its window |
| Relay queue of a device (`core/backend/relay_queue.dart`) | one state document and the ciphertext of each project | enqueue, sync, receive, applied | what was queued stays queued until sent; what is acknowledged was merged |
| AI proxy (`services/ai`) | usage ledger, receipts, personal credentials, requests in flight of each replica | admit, reserve, send, retry, settle, replay, share | a key is sent once; ceilings hold; the ledger and the receipts agree |
| AI call policy (`services/ai/resilience.ts`) | one breaker for each account and model, by process | call, retry, open, refuse, time out | every call ends; the breaker opens and admits again |
| Device session (`core/backend/backend_session.dart`) | tokens in memory and in the secret store, the refresh in flight, the enrolment shown | sign in, refresh, sign out, configure, restore | only a lost answer costs a session; a handled sign out holds; what is shown matches what is held |
| Server process (`server.ts`, `middleware/rate_limit.ts`, `jobs/schedule_purge.ts`, `cli/admin.ts`, `db/migrate.ts`) | buckets of addresses, connections, handlers, the purge run; schema history, organisations | boot, admit or refuse, answer, stop, drain; migrate, bootstrap, destroy | no address passes its limit; shutdown ends and loses no answer; the schema is of one release; only the confirmed organisation is destroyed |
| Package merge (`features/merge`) | rows, version vectors, tombstones, conflicts, sessions of merges | preview, apply, settle, undo | clocks count what was done; a merge that asks nobody loses no decision; an undo takes back no later write |
| Microphone, speech, capture, cloud uploads | leases, staged takes, upload rows | claim, preempt, recover, resume | not modelled yet |
| Everything else | rows with one writer, screens, conversions | forms and lists | tests reach it |

How they interact: a device signs in and uses its access token for all calls;
its relay queue uploads packages that the server offers to the other devices of
the project, which download, merge and acknowledge them; the server deletes a
package when the last device acknowledged it or its window ended. The stages of
the processing queue may send AI requests through the proxy, which reserves the
cost before it calls a provider through the breaker. Within the app, records and
jobs are rows of one database: each transaction is atomic, and the awaits
between them are where runs, taps and kills interleave. On the backend
`withTransaction` takes an advisory lock, so transactions are serial, but many
handlers read before they open theirs.

The hard behaviours: state read before an await and written after it (project
and account edits, the relay's state document, sign in's password check); leases
that expire under a live runner; a kill between any two steps; answers that are
lost after the server committed; retries of what was done already; clocks that
end windows, locks and leases; limits reached by concurrent requests; a server
that stops while requests and a purge are under way; operators whose commands
overlap.
`PROJECT.json` lists each at its line under `hazards`, with the properties that
cover it.

## 2. The modules

One database transaction, or one synchronous stretch between awaits, is one
action. Time is a tick (a day in the relay) and remaining times count down, so
state spaces stay finite. History variables are marked `(history)`; no guard
reads them, except that `chosen` also numbers passwords and `issued` keeps
identifiers fresh.

### ProcessingQueue

`features/processing/data/processing_queue_writes.dart`,
`presentation/processing_controller.dart`, `domain/job_runner.dart`,
`data/validate_stage.dart`, and the record moves of `features/records`.

`job[r]` is the row of the only job of record `r`; `run[l]` is the program
counter of one call of `process()`; `isRunning` and `token` are the controller's
fields, which later calls overwrite. `Claim`, `Complete`, `Fail`, `Release`,
`Persist` and `EnqueuePending` are the transactions of a batch;
`PerformOk`, `PerformThrows`, `NeedsTemplate`, `DeclineOnline`, `BudgetStops`
the outcomes of a stage; `Requeue`, `Retry`, `RetryRefused`, `Cancel` the
operator; `Crash` a kill of the app (the database survives, the loops do not);
`Tick` the clock, which ends leases and backoffs. Every write of a run checks
the job's request generation as the code does (`Current`): the fence a retry and
a requeue rely on. Nothing else fences a run whose lease has passed.

Abstracted: the six stages are positions of which the on-device one, the online
one and the last (validate) matter; `Requeue`'s field scope and its refusal
while a charge waits for approval; storage errors of complete, release and
markStage (those of the whole-job save are in).

### AccountSessions

`services/auth/*`, `services/org/users.ts`, `postgres-identity.ts`.

`row` holds the stored refresh tokens with family, owner, device, life and the
rotated and revoked marks; `issued` the tokens handed out. Handlers that read
before their transaction are split (`LoginBegin`/`LoginCommit`,
`ChangeBegin`/`ChangeCommit`, `EditBegin`/`EditCommit`) and `call[c]` keeps what
they read. `Rotate` and `Reuse` are the two ends of a refresh; `SignOut`,
`RevokeDevice`, `IssueReset`, `InviteUser`, `CompleteReset`, `AcceptInvitation`
and `PurgeToken` are transactions. A password hash is the number of the password
it was made from.

Not modelled: self-registration, bootstrap, the expiry of access tokens (their
bearer is checked against the account on each request), the 24 hour life of
lockout rows and the purge of invitations and lockouts.

### DeviceSession

`core/backend/backend_session.dart`, extending AccountSessions: what the backend
does for the device are the backend's own actions.

`held`, `enrol` and `saved` are the token in memory, the state shown and the
stored secret; `refresh`, `signIn` and `signOut` are the jobs that interleave at
every await. A request is a step when it is sent, a step when the server handles
it (`ServerRotates`, `ServerReuses`, `ServerRefuses`, `ServerOpens`,
`ServerDeclines`) and a step when the device has its answer (`RefreshKeeps`,
`RefreshConfirms`, `SignInSaves`, ...) or gives up (`RefreshLost`). A request the
device gave up on stays in `late` and may arrive afterwards (`LateStep`), at most
`LateLimit` at a time. `Relaunch` is a kill and `restore()`, `Configure` a change
of the server's address. `unheard`, `reused`, `out` (history) record what the
device never heard, what the server took for reuse and which sign outs it handled.

`_save` is one step: the secret is written and the fields are set, or neither.
That a 401 of any other call starts a refresh is `RefreshStart`, enabled whenever
a token is held.

### RelayServer

`services/relay/*`, `services/projects.ts`, `services/org/retention*`,
`jobs/purge-relay.ts`.

`pkg`, `acked`, `vector` and `upload` are the tables; `edit[c]` is what a project
creation or edit read; `purge` is the instant a purge run took at its start.
`Upload`/`Reuploaded` answer a new and a repeated key; `Acknowledge` records and,
in the same transaction, deletes packages that every active device of an active
member has; `PurgeBatch` deletes expired packages and upload keys one batch at a
time; `PurgeFails` drops the run. Roles are read: only accounts in `Manager` may
relay, so a device of a field operator never acknowledges.

### RelayExchange

`core/backend/relay_queue.dart`, extending RelayServer: the calls a device makes
are the server's own actions, with the answer lost or delivered. `disk[d]` is the
state document, `blob[d]` the stored ciphertext, `run[d][w]` a job and the
document it holds in memory. `SyncBegin` … `SyncWrite` are the awaits of `sync()`
in order: policy, uploads, clean up, acknowledgements, inbox, check of sent
packages, save. `QueueBlob`, `QueueRead`, `QueueWrite` are `enqueue()`;
`Receive`, `Merge`, `AppliedRead`, `AppliedWrite` the way of a package in.
`Stops` is a request that fails or an answer that is lost; `Crash` kills every
job of a device. Not modelled: `enable()` (a settings call) and encryption.

### AiProxy

`services/ai/*`, `postgres-ai.ts`.

A request goes through `Receive` (selects the account, finds a previous request
in flight), `Admit` or `Refuse` or `Replay` or `Mismatch` (the admission
transaction: binding, receipt, ceilings), `Reserve`, `Begin`, `Fault`/`Resend`,
`Complete` or `Fail`; `Share` is a retry that joins a request in flight of the
same replica. Every transaction has its failing form (`ReserveFails`,
`CompleteFails`, `FailFails`). `Crash(r)` ends one replica, `Leave` a client;
`SaveCredential` and `DeleteCredential` change the personal account under a
request. Money is counted in cost ceilings of one attempt.

`ChargedOnce` is what the proxy promises, in four variables and without receipts,
locks or replicas: under one key the provider is asked at most once, and whoever
is handed a result under a key is handed the result of that attempt. `Promise`
instantiates it with the attempts and answers of AiProxy; the property
`ChargesOnce` is `Promise!Spec`.

The breaker appears here as a failure before sending; `lock` is the advisory
lock of `withTransaction`. Explicit managed billing and the client's `maxCost`
are left out: they only refuse earlier.

### AiBreaker

`services/ai/resilience.ts`: `heap` holds breaker objects, `pool` the one the map
holds now. A call keeps the object it started with, while a success replaces it
in the map, so overlapping calls may count in different objects; the model keeps
those identities because the properties depend on them. `streak` (history)
counts faults in a row, each of a call that was alone.

### RateLimit and Deployment

`middleware/rate_limit.ts`; `server.ts`, `jobs/schedule_purge.ts`, `db/pool.ts`,
`cli/admin.ts`, `db/migrate.ts`.

RateLimit is the limiter of one process: `buckets` maps an address to the
requests counted for it, `nextPruneAt` is the instant before which no prune looks
at the map. `asked` (history) has the verdict of each request. Deployment extends
it with the process and the operators: `Start`, `CheckSchema`,
`AuditConfiguration` and `Listen` are `main()`; `Arrive`, `Respond` and
`Disconnect` the requests and connections; `PurgeStart` and `PurgeEnd` the
scheduled job; `Interrupt`, `Close`, `Drain` and `Exit` the shutdown; `Kill` the
end without one. `Migrate`, `Bootstrap` and `DestroyBegin`/`DestroyCommit`/
`DestroyAbandon` are commands of other processes over the same database. A
migration file is its number and its content, a release a set of files.

### PackageMerge

`features/merge/*`, the triggers of `core/db/version_vector_schema.dart` and the
writers of a field (`tables/record_fields.dart`, `review_repository_impl.dart`).

One field of one record, on every device: `row[d]` is its row there, `clock[d][i]`
the version vector of the row captured by `i`, `packages` what was exported, any
of which may arrive anywhere, again, and in any order. `Capture`, `Edit`,
`ChooseFinal` and `Verify` are the writers; each counts in the device's own
component, as the triggers do. `Preview` plans a merge (`Verdict` is
`_fieldValues` with its rules), `Apply` (`Insert`, `Take`, `Keep`, `Conflict`,
`Answered`, ...) is `merge()` with the plan made then, `Close` drops the preview.
`DecideMine`, `DecideValue` and `Defer` are a person at a conflict; `Undo` restores
the snapshot of the last merge, `Lapse` ends its retention. `known` (history) is
the set of decisions a device takes into account; `strayed` (history) marks a
merge applied to a row its preview did not see (section 6): what happens after
one is not promised by anything.

Not modelled: records, captions, photos, templates, reference rows and tombstones
of a package, which are merged by rules of their own, and a second field value of
the same record (clocks are per row).

### Proofs

| Module | Proves about |
| --- | --- |
| `SessionProofs` | AccountSessions and, on top, DeviceSession |
| `ProcessingQueueProofs` | ProcessingQueue |
| `RelayExchangeProofs` | RelayServer and, on top, RelayExchange |
| `AiProxyProofs`, `AiBreakerProofs` | AiProxy with ChargedOnce, AiBreaker |
| `DeploymentProofs` | RateLimit and, on top, Deployment |
| `PackageMergeProofs` | PackageMerge |
| `SumTheorems` | sums over finite sets, for the ceilings of RelayServer and AiProxy |

The modules of a composition are proved in one module, since what is proved of
the part is cited for the whole.

### Instances

Each `MCX` gives the constants of `X` that a cfg cannot write and, where a run
needs it, a narrower start or scope:

- `MCAccountSessions`: `EditsAlone`, an action constraint: while an
  administrator's edit is in flight no other request is and no account changes
  (edits that overlap are the subject of `session_edit`); for that run
  `InUseSpec`: the account is in use from the start, so that what happens to it
  is a reset or a change and not its first invitation;
- `MCDeviceSession`: the account is active with its present password;
- `MCRelayServer`: two deployments, kept apart by an action constraint
  (`TwoDeployments`): one in use, with two relaying projects and packages of two
  sizes, where nobody edits projects or devices; and one from its first day, one
  project that is created, edited, joined, left and configured around one
  package, with a clock to 1 and only the colleague's device revoked;
- `MCRelayExchange`: a deployment in use, with enrolled devices and a relaying
  project, a state the full specification reaches;
- `MCPackageMerge`: fewer orders of steps that do not depend on each other. From
  its preview to its application a merge depends on its device alone, so the
  rest waits (`OnePreview`, `Undisturbed`); a preview closed while it fits leaves
  what was before it; retention matters only when the next merge is applied
  (`LateLapse`). Two are bounds: nobody chooses the reading already shown
  (`NoRechoice`) and what is scanned reads as something (`ScansRead`). States
  after a stray merge are not followed (`NotStrayed`);
- `MCAiProxy`: the receipt of the older release is an interrupted one of the
  first project, on either account; `MCDeployment`: three releases; `MCProcessingQueue`: batches
  over the whole queue while nobody moves records by hand; `MCAiBreaker`: which
  slot retries.

Symmetries: accounts, devices, tokens, links and requests in the session runs,
the devices of one account in `relay_exchange`, the devices of `merge`. No
run that checks liveness has one.

## 3. The runs

| Run | Instance | Shows |
| --- | --- | --- |
| `queue_batch` | 2 records, one batch at a time, 2 stages, cap 1, 2 attempts, 1 retry, 1 interruption | `CompletedRanEveryStage`, `AttemptsBounded`; liveness `JobSettles`: each queued job completes, is refused, parked or spent |
| `queue_overlap` | 1 record, 2 batches, 2 retries, bin and approval | `SupersededAttemptsAreFenced`: an attempt replaced by a retry or requeue never changes the fresh one |
| `session_signins` | 1 account, 2 devices, 2 tokens, 1 link, 2 requests in flight, edits alone | `SessionsOnOwnDevices`, `SessionsFollowPassword`, `WrongPasswordsBounded` |
| `session_edit` | 1 account in use, 1 device, an edit that overlaps a reset | violation: `PasswordSticks` (section 6) |
| `device_session` | 1 account, 1 device, 2 tokens, 1 request at the server, 1 late request, role edits | `ReuseOnlyAfterLoss`, `SignOutHolds`, `EnrolmentMatchesToken`, and the backend's `OneLiveTokenPerFamily` under this device |
| `relay` | two deployments: 2 projects, 2 packages, 2 sizes, 2 days; and 1 project from its first day, 1 package, 2 windows, one edit in flight | `StorageBounded`, `OneLiveCopyPerUpload`, `VectorCountsOnce`, `PurgedEarlyOnlyWhenDone`; liveness `ExpiredIsPurged` |
| `relay_exchange` | 2 devices, 1 package, an expiry, jobs one at a time, crashes, lost answers | `PurgedEarlyOnlyWhenApplied`, `QueuedIsKept` |
| `relay_overlap` | 1 device with two jobs, 2 packages | violation: `QueuedIsKept` (section 6) |
| `ai_requests` | 2 requests at 2 replicas, retries, a receipt of an older release, tight ceilings, a midnight, failing transactions, crashes | `SentOnce`, `ReceiptsMatchUsage`, `ResultIsOwn`, `SpentWithinBudget`, `WithinDay`; refinement `ChargesOnce`; liveness `EveryRequestEnds` |
| `breaker_calls` | 2 calls at a time for ever, threshold 2, deadline 2 | liveness `EveryCallEnds`, `AdmitsAgain`; action property `ThresholdOpens` |
| `merge` | 2 devices, a field that is empty or not, 4 decisions, 3 revisions, 3 packages, 1 merge that may be undone | `NobodyKnowsMore`, `CountedIsKnown`; action properties `NoSilentLoss`, `UndoLosesNoEdit` |
| `service` | 2 addresses, 2 requests, limit 1, room for 1 address, window 2, 3 releases, 2 organisations, 2 destroy commands | `WithinLimit`, `RefusedForCause`, `DrainedOnlyWhenIdle`, `ServesMigratedSchema`, `DestroyIsTargeted`; liveness `StopEnds` |

Type invariants that are proved (section 4) are not repeated in the runs;
`queue_batch` and `breaker_calls` check theirs, which say more than types: each
job has one place in the queue, and a request stays within its retry limit.

**Why these bounds.** The properties relate at most two rows of a table (two
records behind one slot of concurrency, two tokens of a family, two packages of
an upload, two organisations of one name), so two of each let every pair occur;
with two tokens a rotated token is presented again beside the one that replaced
it. Two overlapping batches, jobs or requests are what any lost update needs.
Thresholds (attempts, lockout failures, breaker) are two where the run is about
them, so that "one below", "at" and "reset between" are different states; in the
proxy, requests per day bind before the budget for the organisation and the
budget before them for the project. Clocks run past every window once. `LastDay`,
`LastTick`, `MaxGen`, `MaxDisturb`, `MaxPassword`, `MaxRevision` and `LateLimit`
are the bounds of counters the code leaves open; each is a guard of the actions
it counts. So are the four limits of `merge`, of which `RevLimit` is needed
whatever the others are: rows of different ids never join their clocks, and two
devices that take each other's row by a rule count revisions for ever. What four
decisions on two devices do not reach there, a person on each side insisting on
their own value and a value forwarded over an open conflict of one's own, the
proofs cover. `ai_requests` does not check deadlock since answered requests are not
reused and the system then stops; `service` does not since its clock and its
requests are finite. Whatever a bound hides in a property that is also proved
(section 4), the proof covers: a password change of the device
(`device_session` has one password), the refusal to undo under a newer merge
(`merge` has one merge that may be undone), a third client whose request prunes
between two of one address (`service` has two requests).

**Fairness.** A batch loop runs until it awaits nothing more: `WF(RunnerStep)`.
Background reading starts again whenever the app comes to the front or the
network returns: `SF(StartAll)`, strong because a running batch disables it
again and again. The clock advances: `WF(Tick)`. No fairness is assumed of an
operator, a cancel or a crash. The relay's purge is on an interval (`WF` of its
start) and its batches are retried by the next run, so `SF(PurgeBatch)` says
only that the database does not fail for ever. For the AI proxy each request's
own next step is weakly fair: the lock queue is first in, first out, so a waiting
transaction gets it, and a provider call has a deadline. `breaker_calls` assumes
that of the deadline timer and the backoff timer only; a provider may hang. In
`service`, a handler answers, a purge run ends, a client closes its idle
connection (the keep-alive timeout of the server does otherwise) and the steps of
`stop()` follow each other: `WF` of `Respond`, `PurgeEnd`, `Disconnect`, `Close`,
`Drain` and `Exit`. No fairness is assumed of a boot, an operator or a signal.

## 4. What is proved

Each theorem holds for every value of the constants that satisfies the named
assumption of its module: limits are naturals (positive where the code needs it)
and null values are no members of the sets.

| Module | Theorems | Beyond the module's own assumption |
| --- | --- | --- |
| `SessionProofs` | `TypeCorrect`, `OneLiveToken`, `RevokedTogether`, `OwnDevices` | none |
| | `GuessesBounded` | `FiniteCalls`: finitely many requests in flight |
| | `PasswordsEndSessions` | edits leave `status` alone, and no password changes under an edit of its account in flight |
| | `DeviceImplementsSessions` (`DeviceSpec => Spec`), `DeviceTypeCorrect`, `EnrolmentShown`, `OnlyLossIsReuse`, `SignOutIsFinal` | none |
| `ProcessingQueueProofs` | `QueueTypes`, `FencedAttempts` | none: any number of overlapping batches |
| | `CompletedInFull`, `AttemptsCapped` | `OneLoop`: batches do not overlap |
| `RelayExchangeProofs` | `RelayTypesHold`, `OneLiveCopy`, `VectorsCount`, `EarlyOnlyWhenDone`, `StorageWithinCeilings` | none |
| | `ExchangeImplementsRelay` (`Spec => RelaySpec`), `ExchangeTypes`, `EarlyOnlyWhenApplied` | none: any number of overlapping jobs |
| | `QueuedKept` | `OneJob`: the jobs of a device do not overlap |
| `AiProxyProofs` | `ProxyTypes`, `ProxySendsOnce`, `ProxyReceiptsMatch`, `ProxyResultsAreOwn`, `ProxyImplementsPromise` (`Spec => ChargesOnce`) | none |
| | `ProxyWithinDay`, `ProxySpendsWithinBudget` | `LedgerFits`: what an older release left is within the present limits |
| `AiBreakerProofs` | `BreakerTypes`, `FaultsOpenBreaker` | none: any number of overlapping calls |
| `DeploymentProofs` | `LimiterInvariant`, `LimiterWithinLimit`, `LimiterRefusedForCause` | none |
| | `DeploymentImplementsLimiter` (`Spec => LimiterSpec`), `DeploymentWithinLimit`, `DeploymentRefusedForCause`, `DeploymentTypeOK`, `DeploymentDrainedOnlyWhenIdle`, `DeploymentServesMigratedSchema`, `DeploymentDestroyIsTargeted` | none |
| `PackageMergeProofs` | `TypeCorrect`, `CountsAreReal`, `CountsAreKnown`, `MergesLoseNothing`, `UndosLoseNoEdit` | none: any number of devices |

`OneLoop` and `OneJob` are no weaknesses of the proofs: with overlap the
properties do not hold, and section 6 has the runs of steps that break them.

**Sessions.** `IInv == TypeOK /\ FamilyInv /\ DeviceInv`. That a rotation leaves
one live token needs that the new token is the head of no other family, so
`FamilyInv` adds `FamiliesIssued` (a family is named by an issued token, hence a
fresh token starts a new one) and `FamiliesUniform` (rows of a family agree on
owner and device, which is what makes revoking by owner or by device revoke a
family as a whole). `SessionsOnOwnDevices` needs that a device nobody owns is not
revoked. Every action either adds one row of a new family, rotates one row,
revokes a set of rows closed under families, deletes rows past their life, lets
time pass, or leaves the sessions alone; a lemma for each.

`SessionsFollowPassword` holds because a sign in reads the account again in the
transaction that opens its session. `PasswordInv` adds that sessions are of
active accounts (`SignedInActive`), that an invited account has no password yet
(`InvitedWithout`) and that an edit in flight holds the status and the password
its account still has (`EditsHold`). The two hypotheses are what the code leaves
open: an edit that read the account before a reset puts the old password back
(`session_edit`), and an account edited back to `invited` could accept its
invitation again without its sessions being revoked. For `WrongPasswordsBounded`,
`LockInv` counts the requests that passed the check of the lock and have not noted
their failure: the count of an address and they together stay within the bound.

**Device session.** `DeviceImplementsSessions` maps each step of the device or
its network to one of AccountSessions or a stutter, so `IInv` holds beside it.
On top, `TokensApart` says which of the jobs, the store and the late requests may
hold which token, `LossInv` that a token the server would take for reused is one
the device had no answer to, `OutInv` that the rows of a handled sign out are
revoked and `ShownInv` ties the enrolment shown to the token held.
`ReuseOnlyAfterLoss` needs `KeepsRows`: what the server does for others never
marks a token of this device rotated.

**Queue.** `Shapes` are the types of rows and runners. `Placed` adds that the
order of claims has each record with a job once and no other, that a failures
list names only records with a job, and that a runner holds the copy of a job
that exists: without the last, a runner's write could make a job that has no
place. What saving, re-queueing and taking out do to an order is in `JoinedOnce`,
`WithoutOnce` and `TogetherOnce`. Fencing then follows from
`Current`, which every write of a run tests: its snapshot has the generation of
the row, and a retry or requeue raised it. For `QueueInv`, a runner that holds a
job is the only one (`OnlyRunner`, from `OneLoop`), its snapshot is as far as the
stored stage, and a stored job has as many attempts as its status allows.

**Relay.** `OneLiveCopyPerUpload` is not inductive: a purge removes keys and
packages in separate batches. `RelayInv` adds `LiveRemembered`: the key of a
package that is still offered names it and outlives it, which is why
`Configure`, when it shortens windows, must leave keys alone. `StoredAsIssued`
relates a stored package to the history the properties read. For
`StorageBounded` the stored packages are finitely many, an upload adds its size
to a sum it was checked against in the same transaction, and everything else
leaves a part of the sum.

**Sums.** `SumTheorems` shows what `SumFunction` of the community modules does on
finite sets: it is natural, splits off any element, grows with its terms. The
induction theorems of the library take an operator as a parameter, which the
provers cannot instantiate. Instead each lemma looks at a set of counterexamples
among the subsets of a finite set; were it not empty, it would have a smallest
member (`SmallestSet`, from the well-foundedness of strict inclusion), and that
one is refuted. That the recursive function behind the sum exists at all is
proved the same way (`SumsExist`, `SumsUnique`).

**Exchange.** The devices take only steps of the server's specification, so
`RelayInv` carries over. A package leaves early only when every active device of
an active member acknowledged it (the server's theorem), and what a device ever
acknowledges is in `Held(d)`, merged or written by it: `DevicesHold` states that
of the stored document and of every document a job holds in memory, which is why
overlapping jobs do no harm here. `QueuedKept` needs that the memory of the one
job has the rows as they are stored (`OutboxInv`), exactly what overlap breaks.

**AI proxy.** `ProxyInv`: only the holder of the lock is between its checks and
its rows and a keyed request is sent once (`StepsInOrder`); a receipt is written
once, by the request it names, and stays (`ReceiptsHeld`); settled receipts agree
with usage; whoever shares or was handed a result has it from the request the
receipt names (`SharesOwn`). The refinement maps the attempts under a key to the
send counter of that request: `Receive` with a key is `Come`, the first send is
`Charge`, an answer with a result is `Hand`, everything else stutters.

`ResultIsOwn` needs `ResultInv`: the request named by a receipt still has the
binding stored in it (`BindingsHeld`), a replayed request was compared with it
(`RetriesMatch`), and a receipt and its row stay settled once a result was handed
out (`ResultsDone`), although a late failure of the commit may be followed by the
catch. `MoneyInv` is the argument about limits. A row is written once, at the cost
reserved for the request, and nothing is sent without one or more often than was
reserved (`RowsPaid`), so that what was spent is at most what is reserved, which
`BudgetsHold` bounds. Between the checks and the rows of a request stands
`RoomLeft`: the room found is still there, since the lock lets nobody else
reserve; and it is there on every later day as well, since no row is of a day
that has not come (midnight may pass before the rows get their date). A
deployment that lowers a limit below what is used starts outside `LedgerFits`.

**Breaker.** `ThresholdOpens` is not about one object: a success replaces the
object of the pool, while overlapping calls keep the one they started with.
`StreakCounted` says that a streak of faults is counted in the object of the pool
and that every call under way holds that object by then, because the first fault
of a streak was alone and put its object into the pool. `FreshIsNew` is a
pigeonhole argument: calls and pool refer to fewer objects than there are.

**Package merge.** `FullInv` comes in layers. `TypeInv` has that a merge writes a
row only over one of the same id. `CountInv`: what a device counts of another is
at most what that one counts itself, in clocks, packages and plans. `KeepInv`:
a device's own component grows with every decision, so a session of a merge and
an open plan can be told from the present row by its revision. `Settled` holds
until a merge is applied where its plan does not fit: equal views of one row
(`ViewsAgree`) have taken into account what their clocks count, of rows a device
lacks it knows nothing (`Absent`), and undoing leads back to such a view
(`SessionsHold`). The properties speak of rows of the same id because clocks of
rows captured apart are not comparable (section 6).

**Limiter and deployment.** `LimiterInv`: a bucket holds exactly the admitted
requests of its address that still count, the map has room for what is in it, and
`nextPruneAt` is never later than the first end of a bucket, so that skipping the
prune skips nothing. A new process is the limiter's `Fresh`. `StopInv` orders the
shutdown: once closing no purge run is under way, once draining no connection is
open, and a client that waits has one.

Only model-checked: everything temporal under fairness (`JobSettles`,
`ExpiredIsPurged`, `EveryRequestEnds`, `EveryCallEnds`, `AdmitsAgain`,
`StopEnds`), which the prover does not do. Every invariant a run checks is also a
theorem. No module declares a RECURSIVE operator.

## 5. What is not modelled

- **Provider adapters, body parsing and envelopes of HTTP, logs, metrics,
  audit**: no state that a later step reads, or one synchronous step.
- **SQL**: a query is read where it is used; its atomicity is that of its
  transaction. Of the migrations the history and its check are modelled, not
  what a file does.
- **Package merge beyond field values**: records, captions, photos, templates,
  reference rows and tombstones have rules of their own.
- **Microphone, staged takes, cloud uploads, speech**: they have state and belong
  to the plan below.
- **`OutboundQueue`** of the app: nothing constructs it.
- **Screens, exports, imports, templates, settings, meetings, feedback**: one
  writer, one transaction per change, or pure functions.
- **Cryptography and file formats**: data.

## 6. Disagreements met

Two are shown by a run that TLC violates:

- `session_edit`: `patchUser` (`backend/src/services/org/users.ts:68`) reads the
  account, and its later transaction saves every column, the password hash
  included. With a reset completed in between, the replaced password is valid
  again and the new one is not. `backend/RUNBOOK.md:115` describes the reset as
  consumed atomically with the new password in place.
- `relay_overlap`: `sync()` (`frontend/lib/core/backend/relay_queue.dart:164`)
  writes back the document it held across its requests; a package that
  `enqueue()` confirmed meanwhile loses its row and is never sent, though line
  15 calls the outbox durable. Jobs of one device that do not overlap keep it
  (`relay_exchange`).

Others were met while modelling. The models contain the behaviour; no property
states the opposite, and no run is devoted to them:

- Processing: a storage error in `retry()` (`processing_controller.dart:319`)
  clears `isRunning` under a running batch, so a second batch may start; after
  the lease ends it claims the job the first still works on, while
  `job_queue.dart:8` says a job is leased to exactly one runner. Hence
  `CompletedRanEveryStage`, `AttemptsBounded` and `JobSettles` are checked where
  batches do not overlap.
- Processing: `validate_stage.dart:213` writes the status of a record whatever it
  is by then. One moved to the bin meanwhile keeps its tombstone and is no
  longer `deleted`, so `restore()` refuses it (compare `app-write-up.md:2788`);
  an approved one may go back to extracted.
- Bin: the guard of `moveToBin` (`record_writes.dart:479`) refuses a record that
  is `processing`; the queue never writes that status.
- Relay: deletion is decided only inside a new acknowledgement (`relay.ts:283`).
  When the last missing device is revoked or leaves the project instead, the
  package waits for its expiry, though `backend/.rules/06-relay-and-retention.md:20`
  has it go once every active device has it.
- Projects: `patchProject` (`projects.ts:105`) saves the row it read, so an edit
  in flight clears a `neverRelay` mark set meanwhile (same rules, line 54) and
  puts back a retention window longer than the one just configured
  (`RUNBOOK.md:129`).
- Breaker: calls that overlap count in objects of their own
  (`resilience.ts:80`), so a threshold of faults in a row need not open the one
  in the map; a deadline ends as a final 409 that is not counted
  (`resilience.ts:101`), so a provider that hangs never opens it (compare
  `RUNBOOK.md:49`, `.rules/07-ai-proxy.md:35`). `ThresholdOpens` therefore
  speaks of faults of calls that were alone.

- Deployment: the server looks for migration 011 only (`server.ts`), while
  `RUNBOOK.md:107` has operators apply the files through 012; a database without
  012 is served. Bootstrap with another `RETENTION_DAYS` than the recorded policy
  leaves the two apart until the server audits its configuration
  (`RUNBOOK.md:129`); what that audit changes is `Configure` of RelayServer.
- Deployment: between `close()` and its callback a connection kept alive can
  still bring a request, which is answered; `DrainedOnlyWhenIdle` holds because
  the pool is drained after the last connection ended.
- Device session: a refresh whose `/me` is in flight puts a session back after a
  sign out whose own request was lost; a late refusal of an old token can clear a
  fresh sign in; the shown state may be `notEnrolled` with a token held (which
  `EnrolmentMatchesToken` allows, as `restore()` does).
- Queue: `archiveRecord` writes `archived` without the lifecycle check, and
  `claim` looks at neither status nor tombstone of the record.
- Merge: three devices can end with equal clocks and different texts, for good.
  X captures an empty value and exports; Y and Z insert it; X edits it to a text
  and back to nothing, so that its row is verified and at a later revision, and
  exports. Y merges that: the texts are equal, so the row is passed over
  (`merge_planner.dart:619`, `_fieldValues`) and only the clock joined. Z settles
  on a text and exports; Z then merges Y's package, whose row still is of revision
  1 and counts as never edited (`_untouched`, `merge_planner.dart:1335`), keeps its
  text and joins the clock; X merges Z's package, keeps its verified nothing and
  joins the clock. `app-write-up.md:2976` has the empty side lose only if it never
  edited the field. With equal texts a verified mark never travels either.
- Merge: `merge()` applies the plan made at the preview; what was edited locally
  between the two is overwritten (`merge_controller.dart:238`). This is `strayed`.
- Merge: an undo restores the rows and leaves `version_vectors`
  (`merge_snapshot_store.dart`), so that after the undo of an insert and the
  import of an older package the newer one is ignored; an undone decision for
  one's own value stays counted; values that come back count as written by the
  device that undid and go forward to its peers.
- Merge: a value taken by its clock is written outside `remoteWrites` and counts
  as a write of the device that takes it, so that the next edit of its author is
  concurrent with it (`app-write-up.md` section 47).
- Merge: rows captured apart for one field never join their clocks
  (`_mergeVectors`, `package_import_repository_impl.dart:1301`): one changed on
  one side only is a conflict, a rule may apply an older package again, and two
  devices may take each other's row in turns.
- Merge: decisions are remembered by the incoming text alone, so that the same
  text entered again later is not asked about; a conflict that was deferred is
  settled only by an equivalent one that arrives
  (`package_import_repository_impl.dart:751`) and blocks the approval of its record
  until then.
- Merge of deleted records (not modelled): taking theirs where the peer deleted
  writes its tombstone outside `remoteWrites`; a record deleted by a merge has a
  tombstone without the status `deleted`, and one brought back by a merge loses
  the tombstone and keeps the status.

## 7. Plan

Done: ProcessingQueue, AccountSessions, RelayServer, RelayExchange, AiProxy with
ChargedOnce, AiBreaker, RateLimit, Deployment, DeviceSession, PackageMerge, and
proofs of the safety properties of all of them.

Next:

1. **MicrophoneLease**: claims, preemption with its time limit, release.
2. Candidates: cloud uploads, recovery of staged takes, the speech engine host;
   tombstones and records of PackageMerge.
