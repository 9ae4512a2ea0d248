# MAuthenticity: TLA+ models, checks and proofs

MAuthenticity lets users submit images, audio and video and asks detection
providers (Reality Defender, Hive, or a generic vendor) whether they were made by
AI. This directory holds TLA+ models of the parts of the program whose correctness
depends on the order in which things happen or on tables that have to agree, TLC
runs over small instances of them, and proofs of the main results for instances of
any size.

Contents: [the system](#1-the-system), [the models](#2-the-models-and-the-code),
[the runs](#3-the-runs), [fairness](#4-fairness), [the proofs](#5-the-proofs),
[where code and documents disagree](#6-where-code-and-documents-disagree),
[what is not modelled](#7-what-is-not-modelled), [the plan](#8-the-plan),
[how to run](#9-how-to-run).

## 1. The system

Four packages: `apps/web` (React), `apps/api` (Express), `apps/worker` (BullMQ
worker) and `packages/scan-storage`. Postgres, Redis with BullMQ, an S3 bucket, a
mail service, Google and GitHub and the providers are external.

| Component | State | Operations | Talks to |
|---|---|---|---|
| Scan pipeline (`scan.service.js`, `scanAdmin.service.js`, `processScan.js`, `scanJobProcessor.js`) | rows of `scans`; jobs of queue `scan-jobs` | create, dispatch (queue or direct), process, settle, retry / reset-stuck by an operator | Postgres, Redis, detection run |
| Detection run (`worker/src/detection`) | `provider_statuses`, `failed_providers`, `result_payload` of one row; the run in memory | call each selected provider, poll Reality Defender, combine, write per-provider status | providers, Postgres |
| Evidence of an analysis (`persistRd*.js`, `scanDetail*.service.js`, `ResolvedHeatmapTile`) | copied heatmaps and artifacts, their references in the row, the tile of a page | copy, serve, show, reload | providers, storage, pages |
| User retries and quota (`retryFailedScanForUser`, `canStartScan`) | rows of a user, groups and attempt numbers, stored files | upload, retry, delete the account | Postgres, storage |
| Plans and teams (`access.controller.js`, `access-control.service.js`, `planAccess.ts`) | plans, subscriptions, teams, members, invites; transactions of pooled connections | select plan, invite, accept, decline, resend, roles, removal, ownership; plan cards | Postgres through a pool, mail |
| Accounts and sign-in (`auth.controller.js`, `passport.js`, `rateLimit.middleware.js`) | users, linked identities, reset tokens, sessions; windows in memory | sign up, sign in, change and reset the password, delete | Postgres, mail, Google, GitHub |
| Scan object storage (`packages/scan-storage`) | files under a directory or objects in a bucket, named by `storage_key` | save, copy, head, read a range, delete | API, worker, scripts |
| Storage scripts (`apps/api/src/scripts`) | progress of a script, in memory only | local to S3, flat to structured keys, cleanup, audit, verify | Postgres, storage |
| Scan reads (`scan.service.js`, `scan.controller.js`) | none | history and its filter, details, media with byte ranges | Postgres, storage |
| Web session (`features/auth`, route guards, forms) | cached `/me`, fetches in flight, the page, the running handlers | guards, sign-in, plan choice, invite page, deletion | API, other tabs |
| Web scan pages (`_app.scan.tsx`, `_app.scans.*.tsx`) | cached histories and reports, the form, the search box and the URL, the preview | submit, poll, search, filter, play, read a verdict | API |
| Other pages, schema, mail | | | |

What is hard here, and what correctness means for each part:

* **Scan pipeline.** Every row is written by its id alone, without a condition on
  its status, by processes that hold no database lock: a worker, another worker
  after a stall, a task of the API in direct mode, an operator's request in
  several awaits. Correct: one worker at a time per scan; the outcome columns
  agree with the status; a completed scan stays completed; a scan that is not
  settled has somebody who will settle it; providers, which cost money, are
  called a bounded number of times.
* **Detection run.** Failures of one provider beside the success of another,
  status writes that are rejected in the middle, attempts that start again on
  columns an earlier attempt wrote, answers whose body never ends. Correct: no
  partial result is ever recorded, a failed scan names the providers that failed,
  nothing is sent to a provider that cannot take it, every job ends, and badges,
  tabs and report sections tell what became of the scan.
* **Evidence.** The copies of a later run overwrite those of the run the row holds,
  the vendor's own links expire, and a migration moves the row but not the copies.
  Correct: the page shows the evidence of the analysis it describes.
* **User retries and quota.** The count, the media check and the maximum are each
  read in a statement of their own. Correct: the excess over the quota and the
  number of rows that share an attempt number are bounded by the requests in
  flight; groups are well formed; a row never precedes its file.
* **Storage and scripts.** Row, object and file are three stores changed one after
  the other, and a retry's row shares the stored file of the row it retries.
  Correct: no upload is lost, every row can be read however a script ends, and a
  report taken meanwhile tells the truth.
* **Plans and teams.** `BEGIN`, the statements and `COMMIT` are each sent through
  the pool and may take different connections; roles and invite states are checked
  in one statement and changed in another; what a user may do is decided in the API
  and again in the pages. Correct: a plan change is all or nothing, an acknowledged
  one is not lost, one outcome per invite, no right used that is gone, and the pages
  offer what the API accepts.
* **Accounts.** bcrypt and the providers' answers lie between a check and the write
  that relies on it. Correct: one live link at most, a password is replaced only by
  who knew it or held a link, an accepted identity finds its account.
* **Web session.** A handler goes on after its page is gone, and the answer of `/me`
  is cached for five minutes. Correct: a page is shown only to the account it
  belongs to, and says only what was done.
* **Web scan pages.** The same row is read in several ways by the API's filter, the
  list, the ring, the tabs and the PDF; the search is kept three times. Correct: no
  two places contradict each other, a submitted scan appears, a search is honoured,
  a page that waits comes to the outcome.

`PROJECT.json` lists the hazards line by line, with the properties that cover each.

## 2. The models and the code

Each await between two statements or calls is a boundary between two steps; what
runs between two awaits is one step. Comments in the modules name the code.

```
ScanLifecycle  <=refines=  ScanPipeline  <-  ScanEvidence
ProviderRun  <-  ProviderCall (refines it)  <-  ProviderTabs
StorageMigration  <-  StorageAudit          ScanAttempts
TeamPlans  <-  PlanOffers                   TeamInvites     AccountAccess
ScanAdmission  <-  ScanVerdict              WebSession
HistoryWords  <-  HistorySearch  <=instance=  WebScans      MediaReply
```

### Scans

**`ScanLifecycle`** is the specification a user sees: `none -> pending ->
processing -> completed | failed`, back to `pending` only in a new generation
(a requeue), removal with the account, and every generation settles.

**`ScanPipeline`** is the code. `row` is the row of each scan (status, whether
`completed_at`, the result and `error_message` are set, staleness of `updated_at`,
`retry_count`); `job` the BullMQ job with the same id (state, `attemptsMade`,
`opts.attempts`, stalled counter, lock holder); `api` the creating request; `run`
each worker slot or direct-mode task (a program counter over `processScanById` and
`handleProcessorError`); `adm` each internal request. `starts` is history. One
action per step: `CreateScan`, `DispatchScanAfterInsert`, `LoadScanRow`,
`StartProcessing` (markProcessing), `Detect`, `RecordResult` (markCompleted),
`HandleProcessorError`, `FailDirectTask`, `Settle` (what BullMQ does with the
finished job), and for an operator `StartRequeue`, `AssertJobNotActivelyRunning`,
`RemoveQueueJobIfPresent`, `ResetRow`, `EnqueueScanJob`. `TakeJob`, `ExpireLock`
and `RecoverStalledJob` are BullMQ's side. Faults (`crash`, `lock_loss`,
`api_abort`, `db_error`) are switched per instance by the constant `Faults`.
`RefinesLifecycle` states that this implements `ScanLifecycle`, by a refinement
mapping to the status and `retry_count` of the row.

**`ScanEvidence`** extends `ScanPipeline` with what a run copies before it records
its result: one heatmap per model and the artifacts, in the order of the code
(`Persist`), each by a name that may be shared (`file`) or be the vendor's own
storage key (`foreign`). `payload` is what the row refers to, `place` its
`storage_provider`, which the migration changes without moving a copy; rows from
before the copies hold links that expire (`LinksAge`). On the page, one tile is
followed (`tile`: fetched, copied, loaded, retried) and the artifact buttons are
functions of the row. `EvidenceExplained` says that what is shown belongs to the
analysis the row describes, but for the causes it lists by name. Left out: crashes and
aborted requests, network failures of a tile. An upload that is in S3 from the start
behaves as a local one that is never moved.

**`ProviderRun`** opens the step `Detect`: one scan, its selected providers, the
loop of `runDetection` with its `try`/`catch`, each `markProviderStatus`, the
polling loop of Reality Defender with a clock, the combination of errors, and the
attempts of the job around it, including crashes, rejected statements and a
requeue, which leaves the per-provider columns as they were.

**`ProviderCall`** opens what `ProviderRun` leaves to chance, the call of a provider:
which input each adapter refuses before any request (`RealityDefenderRefusal`,
`GenericRefusal`, `HiveRefusal`), the reading of the file, presign, PUT and polls or
the one POST, which of these run under a timer (`HeadersCome` ends it,
`BodyBreaks` is without one), and the error class of each failure. `given` is one of
`Cases`: settings of the worker and the media, fixed for the life of a job. In a
poll loop a body takes up to `MaxDelay`.

**`ProviderTabs`** adds no state: what the API and the pages make of the row of
`ProviderCall` at any moment (badges, tabs, sections of the report).

**`ScanAttempts`** is about many rows instead of one run: requests of one user
that upload (`CanStartScan`, `SaveUpload`, `InsertUpload`), retry a failed scan
(`LoadFailedScan`, `CheckMedia`, `NumberAttempt`, `InsertRetry`) and delete the
account (`DeleteScans`, `DeleteUser`). The pipeline appears as `Settle` and
`RequeueScan`.

**`ScanAdmission`** is about what may be submitted: four tables (the page's picker
and text, the upload filter, the providers' list, the adapters) and the form that
chooses files, providers and a URL. **`ScanVerdict`** extends it with the row a
submission makes: runs that overlap, fail, die and are repeated, and every place
that makes a verdict of the row, as operators: the history's filter (`Matches`,
`Listed`), the dashboard's `Category`, `HistoryBadge`, `DetailBadge`, `PdfBadge`,
the tabs. A submission, a requeue and a detection are one step each here, because
their steps are those of the other modules.

### Storage

**`StorageMigration`** is about one group of attempts over one upload and the
scripts that move it: `ReadLocal`, `PutObject`, `VerifyPut`, `UpdateLocal` for
`migrate-local-uploads-to-s3`; `HeadOld`, `HeadNew`, `CopyObject`, `VerifyCopy`,
`UpdateKey`, `DeleteOld`, `Undo` for `migrate-s3-scan-keys`; `StatLocal`,
`HeadObject`, `Unlink` for the cleanup. A script selects its candidates once
(`Start`) and works on them with the keys it saw then. A retry request and the
deletion of the account interleave. Objects of the group hold the same bytes, so
the size comparisons of the scripts always succeed and are left out.

**`StorageAudit`** extends it with the reports: `Query`, one `ReportRow` per row,
`LoadReferenced`, `Walk` for orphans or `SkipOrphans` (`--no-scan-orphans`), and `Exit`.
An error of `stat` is read as a missing file (`StatFailed`), and a directory that cannot be
listed is passed over with all under it; the history variables `blind` and `whole` keep
that this has happened. The probes of one row are one step, key shapes are valid, and
derived files are left out.

**`MediaReply`** is the media route as operators: the parser of the Range header, the
row and the object, the reply with its length, and the bytes the storage then sends.
`AskedFor` says by RFC 9110 what should be sent. Numbers are whole; an object that is
replaced or removed between the head and the read breaks the stream and is left out.

### Accounts, plans, teams

**`TeamPlans`** has the connections of the pool with their open transactions, their
uncommitted writes and row locks (`conn`, `idle`), the committed rows (`db`) and the
statements of `selectPlan`, `acceptTeamInvite`, `transferTeamOwnership`, `deleteMe`
and the plan check of a submission, each sent to whichever connection is free. Waits,
deadlocks and the idle timeout of a connection are Postgres' and the pool's. The
rows of API keys and reset tokens are left out of `deleteMe`.

**`PlanOffers`** reads each committed state of it: `getEffectivePlan`, `canStartScan`,
`canDownloadReport` and the rest in the API, `planAccess.ts` and the cards in the
pages, from the profile of `/me`. Expiry, `plan_selected` and the number of scans are
cases `k`, not rows; `WayBack` assumes that the plan change it considers runs alone.

**`TeamInvites`** has one team and one invite: the handlers of `access.controller.js`
statement by statement (`Program`), links, expiry, and the controls the team page
offers (`Offered`). **`AccountAccess`** has the handlers of `auth.controller.js` in the
same form, the provider sign-in of `passport.js`, the limiter with its windows, one for each
host and address (`LimiterKeys`), and the restart that empties them. Transactions of these two commit in one step; sessions of
`AccountAccess` never shrink.

### Pages

**`WebSession`** is one tab: the cached `/me` and what changed since it was read
(`me`, `get`), the guards (`Verdict`, `GuardCached`, `GuardAsks`), the handlers of the
forms with their awaits (`task`), which may join a fetch of `/me` that is in flight
instead of asking anew (`Join`), the effect of the invite page and its cancellation
(`live`), the live demo, and changes made in other tabs (`Elsewhere`).

**`HistorySearch`** is the search box, its debounced copy, the URL and the navigation
under way. **`WebScans`** instantiates it with its own variables and adds the scan
form, the report page that polls, the preview and the cached answers they share; a
reply is what the API knew when it was asked. Left out: the live demo, the garbage
collection of caches, tabs in the background.

### How the modules meet

At the row: `ScanAttempts.Settle` stands for `ScanPipeline`, `ScanPipeline.Detect` for
`ProviderRun`, `ProviderRun.CallProvider` for `ProviderCall` (a refinement, proved),
and the sharing of `storage_key` that `ScanAttempts` establishes is where
`StorageMigration` starts. `ScanEvidence`, `ProviderTabs`, `PlanOffers` and
`StorageAudit` extend the module whose state they read, so their properties range over
everything it reaches.

`MC*.tla` give TLC symmetry sets and the values of structured constants. Definitions
marked "Mutant" are plausible mistakes in the code; each is put in the place of the
real definition to see that a property notices.

## 3. The runs

| Run | Instance | Shows |
|---|---|---|
| `pipeline_queue` | 2 scans, 2 workers, 1 operator, queue, no fault | exclusivity, nobody abandoned, `ScanLifecycle` is implemented, liveness included |
| `pipeline_crash` | the same with crashes and aborted requests | the inductive invariant of the proofs, the bound on provider calls, finality of completed scans |
| `pipeline_direct` | `ScanEvidence`: 1 scan, direct mode, 1 worker, 1 operator, 1 attempt, 2 models, 1 artifact | direct task and queue may run the same scan, and it still settles unless an operator left it in the queue; the evidence shown is that of the row, or there is a named reason |
| `provider_run` | `ProviderTabs`: 2 providers (one polled), 3 attempts, 1 crash, 1 rejected statement, 1 requeue, 12 cases of settings and media | complete results, right culprits, nothing sent in vain, badges and sections that fit the outcome, the job ends |
| `scan_attempts` | 4 scan ids, 2 requests, limit 1 | bounds on the quota and on shared attempt numbers |
| `storage_migration` | `StorageAudit`: 3 rows, 2 script processes, 1 retry request, 3 kinds of report, crashes, failing calls, lost replies | no upload is lost; the exact ways in which a row can lose its object; when a report or its exit code is wrong, with files and directories that cannot be read |
| `team_plans` | `PlanOffers`: 2 users, 2 requests, 2 connections, 3 teams, pairs of requests; 0, 2 or 600 scans | losses and surviving teams only by mixed connections or a known crossing; every request is answered; pages and API agree, but for named cases |
| `team_invites` | 3 users, 2 requests in flight, 6 menus, 3 links | which crossings bring a member back, kill a link, or use a right that is gone |
| `account_access` | 2 addresses, 2 hosts, 2 passwords, 3 profiles, 2 requests in flight, 7 menus, window 2, links of 3 ticks, 1 restart | live links, the rate of reset mails from one host to one address, who replaces a password, why a provider sign-in fails |
| `web_session` | 2 users, 2 handlers, 2 events | which crossings, joined fetches and faults show a wrong page, another user, or report what did not happen |
| `scan_verdict` | 9 files, 2 processes, 2 attempts | when two places contradict each other, when an unfinished scan shows a verdict, which submissions cannot be served |
| `web_scans` | 2 scans, 2 submissions, 1 word, 2 pages, 3 events; `RepliesAnswerHeaders` for files of up to 6 bytes | when the history misses a scan, when another search is shown, a waiting page settles |

Many properties end in *Explained*: they say that a bad state never arises, except by
the causes they name, each a disjunct with the step of the code that produces it. Such
a property is as strong as its list is short; what the causes mean for users and
operators is in section 6.

Properties worth reading first: `NoScanAbandoned` (the worker's own decision to
leave a row in `processing` must agree with BullMQ's to run the job again, and a
requeue must not be ignored), `CompletedIsFinal`, `FailedNamesCulprits`,
`RefusalsHold`, `QuotaOvershoot`, `MediaSurvives`, `LossExplained`, `RemovalSticks`,
`PasswordByRight`, `RedirectsExplained`, `SearchHonoured`, `DetailSettles`.

No run expects a violation. Where the code does something else than a document says,
either a property names it as an exception, so that the run checks that nothing else
leads there, or section 6 quotes it as found while modelling.

**Why the bounds are enough.** Two workers are the smallest number that can hold
one scan at once, and two scans the smallest number that can compete for a
worker; three attempts and one stall are the values of the code, so every
combination of the two counters occurs. `MaxRetries` bounds only how often an operator
asks again; each requeue resets everything but `retry_count`. In direct mode the
queue's share is what an operator puts there, so one worker and one attempt already
run beside the direct task. In `ProviderCall` a poll takes 0 or 1 beyond an interval
of 2 and the deadline is at 5, so the loop ends after two or three polls, on either
side of the deadline; the 12 cases have, between them, a refusal of each kind (key,
vendor, type, size, source) and each flow of requests. In `ScanAttempts` four ids allow a group of four attempts, or two
groups with a clash of numbers, and a limit of 1 lets the overshoot be reached. In
`StorageMigration` three rows are a first attempt, its retry and one retry in flight;
rows of other groups share neither key nor object with them. `KeyRuns = 1` is an
assumption and not only a bound: with `KeyRuns = 2` TLC finds `MediaSurvives` and
`MissingMediaExplained` violated (section 6). In `TeamPlans` two connections are enough
to mix two transactions, and each pair of request kinds, with the rows that make both
meaningful, is a scenario. In `TeamInvites`, `AccountAccess` and `WebSession` a crossing
needs two handlers in flight; the menus say which kinds, and how many of each, come in
one behaviour, and put together those that write what another one reads.
`scan_verdict` has a file for each row of the tables that differs from its neighbours,
and answers on both sides of each threshold.

Deadlock is not checked: all these systems may come to rest (every scan settled,
no request, no script, no event left).

## 4. Fairness

* `ScanPipeline`, `FairSpec`: weak fairness of what goes on by itself: a dispatch
  that has begun, the next await of a direct task, the two last awaits of an operator's
  request that has already removed the job, and, in queue mode, BullMQ handing out waiting
  jobs, the expiry of a dead worker's lock, the periodic stalled check and the next await
  of a worker. Direct mode is deployed without workers, so there they may run (the API and
  the worker are configured apart) but need not: a scan that an operator has put in the
  queue may stay there, and `EveryScanSettles` excepts it (`LeftInQueue`, section 6). Users,
  operators, faults and crashes have no fairness: nothing has to happen. `ScanEvidence`
  takes the same steps and none for pages. `ScanLifecycle` has weak fairness of `Start` and
  `Settle`, which the refinement discharges.
* `ProviderCall`, `CallFairSpec`: weak fairness of the worker's steps, except while the
  body of an answer of the real provider is awaited (`StalledBody`). The code clears its
  timer when the headers arrive; the HTTP client ends a body that is silent for five minutes, but one
  that trickles has no end, so nothing is assumed of it, and `JobEnds` names the
  exception.
* `TeamPlans`, `FairPlansSpec`: strong fairness of `Acquire`, as the pool serves waiting
  requests in turn, weak fairness of `Execute` (a statement is answered) and of
  `IdleTimeout`, which is what frees the locks of a transaction nobody ends.
* `WebScans`: weak fairness of `Poll` (a timer of a tab in the foreground), strong
  fairness of `Answered`, as a server that is reached again and again answers once
  without an error, weak fairness of `Media`.
* The others state safety only.

## 5. The proofs

All hold for every value of the constants that satisfies the assumptions named in the
modules.

*`ScanPipelineProofs`.* `TypeCorrect` holds in both modes under all faults. The other
theorems about `ScanPipeline` are for queue mode without `lock_loss`, because BullMQ does let two workers run one
job when a live worker loses its lock, and direct mode has no lock; both are
hypotheses of the theorems. The argument goes in three stages.

1. `RunnerHoldsLock`: a busy slot's job is active under that slot's lock. Taking
   requires a waiting job, removing requires no lock, and only the holder's end
   or crash releases it. From it `RunnersExclude` follows.
2. `StartsAreCounted`: each start of the processor is paid for by an attempt or a
   stall before the next one, hence `DetectionIsBounded`: at most attempts plus
   tolerated stalls.
3. With no rejected statement also `RunnerKeepsRowUnsettled`: between
   `loadScanRow` and the write that relies on it nobody else can complete the
   row, because of the lock. From it `OutcomesAgree` and, as an action property,
   `CompletedStaysFinal`. `PipelineInvariant` is the conjunction, the formula
   `pipeline_crash` checks. Neither exclusivity nor the agreement of the columns
   is inductive alone: the code has no condition on the status anywhere, so all
   of it rests on the lock.

4. For one operator and no fault (`FaultlessQueueMode`) `NoneAbandoned`: `InPlace` says
   where the row and the job of a scan may be while the API, the queue, a worker or the
   operator has it, and `WorkerKnowsJob` that the counters a worker has in memory are
   those in Redis, so that the worker's decision to leave a row in `processing` and
   BullMQ's to run the job again are one decision. The hypothesis is needed: with two
   operators the second may reset the row after the job of the first is done (section 6),
   and a crash leaves a row to the stalled check, which gives up on it in the end.
   `ImplementsLifecycle` gives the safety half of the refinement under the same
   hypothesis: every step is a step of `ScanLifecycle` or changes no status.

Its last part is about `ScanEvidence` and needs no lock: `EvidenceIsExplained` holds in
both modes, for any scans, runners, models and artifacts, with rejected statements and lost
locks. `EvidenceInv` has these parts: under a file's name there is nothing, or evidence of
that name of an analysis that was made (`StoreSound`); what a run or a row says it has
copied is stored where it says (`CopiesThere`); the number of the analysis a run has in
hand is in no row, on no page and in no other run (`RunSound`), so a row never returns to
an analysis it has left; a page names no more than its row while both are of one analysis
(`PageSound`), and its tile was loaded under that analysis or is known not to have been
(`TileSound`). Of the property itself only the heatmaps need to be part of the invariant,
because a tile keeps what it once loaded; an artifact is served when it is asked for.
TLC checked `EvidenceInv` in direct mode and in queue mode with two workers and lost
locks before it was proved.

*`ProviderProofs`*, for any sequence of providers and any number of attempts, stalls,
rejected statements and requeues, in three parts.

* `ProviderRun`: `ProviderInvariant` relates the loop's two lists to the statuses in the
  row, provider by provider (`ListsAgree`), although a rejected write can put one
  provider on both lists; what an attempt is about to record is then complete, or blames
  none that did not fail (`OutcomeIsReady`). From it `ResultsAreComplete` and
  `CulpritsAreNamed`. `SubmissionsAreBounded` counts submissions against attempts and
  stalls, as in the pipeline.
* `ProviderCall`: `CallsImplementRun` is the refinement `CallSpec => Spec`: each step of an
  adapter is a step of `ProviderRun` or a stutter. `CallAgrees` ties the place of the call
  to the place of the run, and `CallInv` adds that the provider in hand passed every check
  up to there, which gives `NothingIsSentInVain`. `CallsCompleteResults` is then inherited
  through the refinement.
* `ProviderTabs`: `ProvidersAreExplained`: the badges follow the columns, and `TabsAgree`,
  preserved by every step, says which of the columns can be of an earlier attempt.

*`ScanAttemptsProofs`*, for any number of ids, requests and any limit. `QuotaBounded`
is not inductive as it stands: what is preserved (`QuotaIsPromised`) is that rows plus
uploads that already passed the check stay below limit plus requests.
`ClashesBounded` needs that rows with a number plus requests that computed that number
stay within the number of requests (`NumbersAreClaimed`), and that the maximum of a
finite group is a bound (`MaxAttempt`, `NextAttemptIsNew`). `MediaStaysStored` and
`NumberedAlways` rest on drawn ids being nobody else's (`IdsAreFresh`) and on what a
retry read staying true until it inserts (`RetriesFollow`). `InvariantHolds` is the
whole invariant.

The second half of the file is about `ScanAdmission` and `ScanVerdict`, for any vendors'
answers, files, runs and attempts. `VerdictInv` types the form and the rows, in which scores
are percentages and a vendor's answer is one the code can make of it, and holds two facts the
properties need: Hive comes before Reality Defender only once the user has taken the latter
out (`FormInv`), and where Reality Defender comes first, the columns say what its label in
the payload says, whatever runs, requeues and retries came between (`ColumnsFit`; the two
are written and cleared together). `OppositesAreExplained` is then by cases of the answers, place by place;
`UnfinishedVerdicts` and `SubmissionsAreExplained` are about single steps from such a state,
the latter along the four tables of what may be sent.

*`StorageProofs`*, for any number of rows, script processes and retries and under every
fault. `StoreInv` has three parts: each upload is kept somewhere (`MediaKept`: at the row's
key, at its old key, or at the key of a row that shared it and was moved); what a script
selected it still finds, but for the row of its turn (`RunKnows`); and a run about to
update has its copy (`RunReady`). `ScriptsRely` is what the scripts assume of each other
between their calls; `UploadsSurvive` and `MissingExplained` follow. All three have the
hypothesis `KeyRuns <= 1`, without which TLC finds an upload lost (section 6). It is not
needed for `ReportsTold`: what a report says is compared with what has changed since it
asked. The theorem covers reports that skip the orphans, cannot stat a file or cannot list
a directory: each is a named exception of `HeadingsTell` and `ExitTells`, and TLC finds
each of the three needed.

*`TeamInvitesProofs` and `AccountAccessProofs`* share one form of argument, for any users,
any number of requests in flight and any menu. Handlers read in one statement and write in
another without a lock, so the invariant says, at each statement of each handler, that what
was read still holds **or** the request has met one of the kinds that write it (`met`), or
the history has a crossing that the property names (`crossed`). The properties are then
read off at the statement that writes.

* `TeamInvariant` (`Kept`, request by request, and `InvitePart`) gives `InviteAgreesAlways`,
  `RemovalSticksAlways`, `RightsKeptAlways`, `FreshLinksLive` and `OffersAreAllowed`, the
  last between the pages' controls and the server. In its course one more crossing had to be
  named, which small instances reach only with the right menu: a removal that overlaps a
  transfer of the ownership to the same member (`OwnerRaces`).
* `AccountInvariant` gives `OneLiveTokenAlways`, `PasswordsByRight`, `OAuthFailures` and
  `TypeCorrect`. `RateInvariant` is about the limiter alone, window by window. The bound of
  `ResetRateAlways`, for one host and one address, is twice the limit because a window opens with a request: what is
  preserved is that the current window counts what it let pass, and that the stretch just
  before it, without its first instant, holds less than the limit, since a window that was
  full would have been opened at that instant.

*`WebSessionProofs`*, for any users, any number of handlers in flight and any number of
events. The properties are about one moment each, and what makes them true is older: so
`SessionInv` says of the query, at all times, why it may differ from what the API would say
now. `MeSound` is about the data in the cache and `GetSound` about the answer in flight,
whose reasons become those of the cache when it arrives: a change among the `unseen` ones
that no fetch of this tab makes good, a fetch under way, or a handler that has changed the
account and is still to invalidate or ask (`SigningOn`, `RenewingOn`); a fetch that a
sign-in has joined keeps the reasons it had, with `joined` among them. `TasksSound` ties a
handler's step to what it has done. Two conjuncts the properties do not mention are needed:
no cookie names a user who never had an account (`ServerTypes`; a sign-up whose answer is
lost would otherwise change what `/me` says without a trace), and an answer in flight that
nothing has overtaken is what the API would say (`GetSound`). Each handler is made of a few
parts (`Invalidated`, `Refetched`, `Removed`, `UntoldEnd`, `LostSound`), proved once. From
`SessionInvariant` follow `IdentityIsExplained`, `ReportsAreExplained` and, as a property of
steps, `RedirectsAreExplained`.

*`WebPagesProofs`.* `ScansInvariant` with `ListsCover`: a history that is fresh, or whose
fetch in flight will make it fresh, lists every scan heard of when it was asked for.
From it `HistoryIsExplained`. `TabHonoursSearch` carries `SearchIsHonoured` over to the
tab by the instance of `HistorySearch`. `EveryHeaderAnswered` is about `MediaReply`, for
files of any size and any header, by cases of its form: pure arithmetic over operators,
which TLC evaluates over small sizes. Its first part is about `HistorySearch` alone:
`SearchIsHonoured` from `LeadsToWish`: whatever is still under way (a timer, a navigation, an
effect) ends at the search asked for, as long as nothing crossed.

Its second part is about the requests of `TeamPlans`, for any users, requests, connections
and scenarios. `LossIsExplained` rests on `PlansInv`: a request whose statements and transaction
stayed together holds one connection at most, from its BEGIN to COMMIT or ROLLBACK, and
writes only there (`TransactionKept`). When that transaction goes early, by an error or
because the pool ends the connection, nothing happens at once: the request goes on, its next
statement runs outside, and only then is it mixed up. So the invariant lets a request that
has not reached its end be without its transaction, and `Shaped` says why it cannot answer
in between: every handler refuses before BEGIN and has one end after it. `mixed` counts only
statements up to COMMIT, so what `acceptTeamInvite` reads after it does not weaken the
property. TLC checked `PlansInv` on the run's instance before it was proved.

`StaleTeamsAreExplained` adds `ClearInv`. As long as no other request gives the user a team,
no transaction holds a write that would (`GivesNothing`), whoever it belongs to; so the
teams he owns or has joined can only become fewer, for every connection's view of them. The
request's own transaction, if it has not been mixed up, has deleted by then whatever its
statements have passed (`Clearing`): the teams of its list, in order, and, once
`deleteMemberships` is done, every membership; a team that came between the listing and the
end would have been given. It answers ok only by its COMMIT (`EndsByCommit`), which makes
that view the committed rows.

`PlanPagesAreExplained` is about every committed state those requests can leave, however
their transactions were shared or split, so it needs what Postgres keeps true of the rows
in any case. `RowsInv` says it: columns hold what their types allow and no row refers to
one that is not there (`Orderly`); the uncommitted writes of a connection, put over the
committed rows, would be orderly too (`Sound`); and two connections write no row both and
delete no row the other's writes refer to (`Apart`, from the row locks and the locks on
referenced rows), without which two sound transactions could commit an orphan one after
the other. Each statement of each handler is shown once to write only what keeps this
(`Honest`: the cascades name all the rows that refer to a deleted one), and the pool, the
commit and the loss of a connection are then the same for all statements. Two facts about
history come with it: a subscription goes only with its team or user, or by a deletion of
the account that was split (`SubsStay`), and as long as no connections were mixed up a team
has a subscription (`TeamsPaid`, `Kept`). The rest is about the operators of `PlanOffers`
on orderly rows: who owns or has joined what (`ContextIs`), and which click leads back to
scanning (`AfterSelectIs`). Besides the assumptions on the constants' types it rests on
`RowsAssumption` (the rows requests start from are orderly and their teams have
subscriptions, as the migration's constraints and `selectPlan` make them) and
`ScanCountsAssumption` (a count is below the number that stands for "unlimited"). TLC
checked `RowsInv` on the run's instance before it was proved.

*Only model-checked:* all liveness (`EveryScanSettles`, `JobEnds`, `RequestsEnd`,
`DetailSettles`), and with it the liveness half of the refinement of `ScanLifecycle`.
Liveness under fairness and `ENABLED` are beyond the prover, and so is induction over data,
so no property of a recursive computation is claimed as proved; no module declares a
RECURSIVE operator. Every safety and action property of the runs is proved.
Proved and in no run by name: the attempt numbers (`NumberedAlways`), `MediaStaysStored`
and the budget of submissions; the invariants that carry them were checked by TLC
before they were proved.

## 6. Where code and documents disagree

`PROJECT.json` quotes each with its lines. In short:

**Operators.** Two retries of one failed scan can leave the row `pending` without a
job. A requeue without `allow_completed=1` wipes the result of a scan that completed
after the request had read its row. A row that crashes again after `markFailed` is
`processing` with nobody at work and not listed as stuck. In direct mode, which needs no
Redis and no worker, a retry and reset-stuck put the scan in the queue all the same, where
it stays `pending`, and a second retry is refused. A requeue keeps the
per-provider columns although it "clears outcome fields".

**Providers.** `runDetection` rethrows every provider error as a plain one, so
terminal errors are retried and the media is submitted again, to the other provider
too. A body has no deadline. 5xx of an upload is terminal where the same answer
elsewhere is retried. Reality Defender takes audio, which the manual denies. Hive's
malformed answers become an inconclusive result.

**Storage.** `--delete-old-objects` deletes the object that a retry's row still names.
The cleanup unlinks a file a local retry still uses. Audit and cleanup look for a
legacy file under the structured key, the audit heads the wrong target key and lists
every copy of a heatmap as an orphan. Heatmaps of migrated scans are lost to the page.
A directory the audit cannot list hides its orphans from `--strict`, which exits 0; a file
that `stat` cannot reach is reported missing. An empty object is answered with a length it does not have. Beyond any document: two
overlapping runs of `migrate-s3-scan-keys` on one row can lose an upload for good (the
second run takes the first one's copy for its own target, the first one undoes it, the
second deletes the old object).

**Accounts and plans.** Statements of one transaction reach different connections, so
an acknowledged plan change can be lost or somebody else's rolled back. A row inserted
between the two deletions of `deleteMe` outlives the account. The free plan's
"2 scans total" can be passed by uploads in flight together (`QuotaOvershoot` says by how
many). An expired plan cannot be renewed from the pages; members of an expired team are
told that their subscription is active; team admins are offered plans that are refused;
a former owner is paid in one check and expired in the next; leaving a team ends the
right to reports; "billing cycle" counts all scans ever. The limit on reset mails counts each host apart: another host may
have as many more sent to the same address.

**Pages.** A sign-in asks for `/me` anew by a call that joins a `/me` in flight: one sent
with the cookie before is then shown as fresh, so that the workspace shows one user and its
requests act as another (`joined` in `WebSession`). The invite page sends its request twice when `/me` arrives late and reports
a failure that was a success. A forced change of the password leads back to its page.
The live demo survives a provider sign-in. A logout keeps the histories of the account
in the cache. "Clear filters" is undone by the debounce. A submission whose reply is
lost is reported as failed although it was stored. A failed refetch hides a report that
is there. Filter, badge and tab contradict each other for the answers
`OppositeExplained` lists; an unavailable verdict shows as pending for ever; the PDF's
confidence is the score before it is turned round. The page invites files that the API
or every provider refuses, and URLs, which are always refused.

## 7. What is not modelled

* **Not reached by the program**: `InternalScansPage` (its switch returns false).
* **Without state or decisions of its own**: decoration (`LiquidEther` and the marketing
  pages), `components/ui`, sidebar, charts, texts, the forms of profile, API keys, team
  name and logo, which change one column each.
* **Sums and windows of the analytics**, which change no state; the dashboard's
  categories are in `ScanVerdict`.
* **Idempotent DDL** of `db/migrate.js`, whose columns and constraints the models use;
  **mail**, whose failure is a step of invites and resets.
* **In the modelled parts**: wording, logging, the content of results; presigned links
  to uploads; the mock provider, health checks and Hive's debug probe as such (that it
  comes before the call is modelled); submissions of URLs beyond their refusal;
  reconnection to Redis and Postgres; rows whose owner is gone, which both migrations
  skip. Further limits are named in section 2 at each module and in its header.

## 8. The plan

Done, in this order: `ScanLifecycle`, `ScanPipeline` and its proofs, `ProviderRun`,
`ScanAttempts` and its proofs, `StorageMigration`; then `TeamPlans`, `TeamInvites`,
`AccountAccess`, `WebSession`, the proofs of `ProviderRun`, `ProviderCall` with its
refinement, `HistorySearch` and `WebScans` with their proofs, `ScanAdmission` and
`ScanVerdict`, `StorageAudit`, `ProviderTabs`, `PlanOffers`, `ScanEvidence`,
`MediaReply`; then `NoScanAbandoned` and the refinement of `ScanLifecycle`, and the proofs
of the storage scripts and their reports, `TeamInvites`, `AccountAccess`, `ScanEvidence`,
`WebSession`, `ScanAdmission`, `ScanVerdict`, `TeamPlans` and `PlanOffers`. Next: the
windows of the analytics against a reference definition.

## 9. How to run

    tlc -workers 2 -config PipelineQueue.cfg MCScanPipeline
    tlapm ScanPipelineProofs.tla

`PROJECT.json` names module and configuration of every run. The longest runs take
about three minutes on two cores.
