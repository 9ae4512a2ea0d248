---------------------------- MODULE ScanPipeline ----------------------------
(***************************************************************************)
(* The life of a scan from the row the API inserts to its outcome:         *)
(*                                                                         *)
(*   - the API inserts a row of table "scans" and dispatches it, either    *)
(*     to the BullMQ queue "scan-jobs" or, in direct mode, to a task of    *)
(*     its own process (apps/api/src/services/scan.service.js);            *)
(*   - the workers take jobs and run processScanById                       *)
(*     (apps/worker/src/services/processScan.js, scanJobProcessor.js);     *)
(*   - operators requeue scans with the internal routes retry and          *)
(*     reset-stuck (apps/api/src/services/scanAdmin.service.js).           *)
(*                                                                         *)
(* Every database statement and every group of Redis calls without an      *)
(* effect in between is a step of its own, so the model interleaves where  *)
(* the code awaits.  Postgres, Redis and BullMQ are external: they appear  *)
(* as the effect of the call.                                              *)
(***************************************************************************)
EXTENDS Naturals

CONSTANTS
  Scans,        \* scan ids; one is also the id of the scan's BullMQ job
  Workers,      \* processor slots of the worker processes (concurrency)
  Admins,       \* internal requests (retry, reset-stuck) that may be in flight
  Mode,         \* SCAN_EXECUTION_MODE: "queue" or "direct"
  Faults,       \* the faults that may happen, a subset of FaultKinds
  MaxAttempts,  \* "attempts" of the job options (3 in the code)
  MaxStalls,    \* BullMQ's maxStalledCount (1, its default)
  MaxRetries,   \* bound: retry_count beyond which no operator asks for more
  NoScan,       \* scan of an idle runner or request
  NoWorker,     \* lock value of a job that nobody holds
  DeadWorker    \* lock value left behind by a worker that crashed

\* crash: the process that runs a scan dies.  lock_loss: the lock of a job
\* expires while its worker is still running (blocked event loop, Redis
\* partition).  api_abort: an API request dies between two awaits, or a Redis
\* call in it is rejected.  db_error: a statement against Postgres is rejected.
FaultKinds == {"crash", "lock_loss", "api_abort", "db_error"}

ASSUME ScanPipelineAssumption ==
  /\ Workers \cap Scans = {}
  /\ NoScan \notin Scans
  /\ NoWorker \notin Workers /\ DeadWorker \notin Workers
  /\ NoWorker # DeadWorker
  /\ Mode \in {"queue", "direct"}
  /\ Faults \subseteq FaultKinds
  /\ MaxAttempts \in Nat \ {0}
  /\ MaxStalls \in Nat
  /\ MaxRetries \in Nat

VARIABLES
  row,    \* the row of each scan in Postgres
  job,    \* the job of each scan in Redis
  api,    \* the API request that creates each scan
  run,    \* what each runner (worker slot or direct task) is doing
  adm,    \* what each internal request is doing
  starts  \* history: times markProcessing ran for a scan since it was queued

vars == <<row, job, api, run, adm, starts>>

-----------------------------------------------------------------------------
(* The state *)

\* A direct-mode task is named by the scan it runs.
Runners == Workers \union Scans

\* Of a row: status; whether completed_at, result_payload (written together
\* with confidence, is_ai_generated, detection_provider) and error_message are
\* set; whether updated_at is older than the reset-stuck threshold; retry_count.
\* The columns about single providers are the business of ProviderRun.
Row == [status : {"none", "pending", "processing", "completed", "failed", "deleted"},
        completedAt : BOOLEAN, result : BOOLEAN, error : BOOLEAN,
        stale : BOOLEAN, retries : Nat]

BlankRow(status) ==
  [status |-> status, completedAt |-> FALSE, result |-> FALSE, error |-> FALSE,
   stale |-> FALSE, retries |-> 0]

\* Of a job: its state (one in back-off counts as waiting), attemptsMade,
\* opts.attempts, BullMQ's stalled counter and the holder of its lock.
Job == [state : {"absent", "waiting", "active", "completed", "failed"},
        made : Nat, attempts : Nat, stalls : Nat,
        lock : Workers \union {NoWorker, DeadWorker}]

NoJob == [state |-> "absent", made |-> 0, attempts |-> 0, stalls |-> 0,
          lock |-> NoWorker]

\* Of a runner: its place in processScanById and in the processor around it, its
\* scan, attemptsMade and opts.attempts of the job object in its memory, and the
\* class of the error it caught.
Run == [pc : {"idle", "load", "mark", "detect", "write", "error", "settle"},
        scan : Scans \union {NoScan}, made : Nat, attempts : Nat,
        error : {"none", "plain", "unrecoverable"}]

IdleRun == [pc |-> "idle", scan |-> NoScan, made |-> 0, attempts |-> 0, error |-> "none"]

Admin == [pc : {"idle", "gate", "remove", "reset", "enqueue"},
          scan : Scans \union {NoScan},
          kind : {"none", "retry", "retry_completed", "reset_stuck"}]

IdleAdmin == [pc |-> "idle", scan |-> NoScan, kind |-> "none"]

\* The types, and that only what is idle is without a scan.
TypeOK ==
  /\ row \in [Scans -> Row]
  /\ job \in [Scans -> Job]
  /\ api \in [Scans -> {"none", "inserted", "done"}]
  /\ run \in [Runners -> Run]
  /\ adm \in [Admins -> Admin]
  /\ starts \in [Scans -> Nat]
  /\ \A r \in Runners : run[r].pc # "idle" => run[r].scan \in Scans
  /\ \A a \in Admins : adm[a].pc # "idle" => adm[a].scan \in Scans

Init ==
  /\ row = [s \in Scans |-> BlankRow("none")]
  /\ job = [s \in Scans |-> NoJob]
  /\ api = [s \in Scans |-> "none"]
  /\ run = [r \in Runners |-> IdleRun]
  /\ adm = [a \in Admins |-> IdleAdmin]
  /\ starts = [s \in Scans |-> 0]

-----------------------------------------------------------------------------
(* Statements against table scans.  All of them select the row by its id    *)
(* alone, so they overwrite whatever status it has, and do nothing when the *)
(* row is gone.                                                             *)

RowExists(s) == row[s].status \notin {"none", "deleted"}

UpdateRow(s, new) == row' = IF RowExists(s) THEN [row EXCEPT ![s] = new] ELSE row

\* Mutant: the error of the attempt before stays on the row.
MarkProcessingKeepingError(r) == [r EXCEPT !.status = "processing", !.stale = FALSE]

MarkProcessing(r) ==
  [r EXCEPT !.status = "processing", !.error = FALSE, !.stale = FALSE]

MarkCompleted(r) ==
  [r EXCEPT !.status = "completed", !.completedAt = TRUE, !.result = TRUE,
            !.error = FALSE, !.stale = FALSE]

\* markFailed leaves result_payload, confidence and is_ai_generated alone.
MarkFailed(r) ==
  [r EXCEPT !.status = "failed", !.completedAt = TRUE, !.error = TRUE, !.stale = FALSE]

ResetScanRowForRequeue(r) ==
  [r EXCEPT !.status = "pending", !.completedAt = FALSE, !.result = FALSE,
            !.error = FALSE, !.stale = FALSE, !.retries = @ + 1]

-----------------------------------------------------------------------------
(* The queue *)

JobIsLive(s) == job[s].state \in {"waiting", "active"}

\* Mutant: the attempts are counted on top of the first try.
JobOptsWithOneMoreAttempt == [attempts |-> MaxAttempts + 1]

DefaultJobOpts == [attempts |-> MaxAttempts]

\* scanQueue.add with jobId = scan id: BullMQ ignores it while a job with that id
\* is in Redis, a completed or failed one included (they are not removed).
AddJob(s) ==
  IF job[s].state = "absent"
  THEN /\ job' = [job EXCEPT ![s] = [NoJob EXCEPT !.state = "waiting",
                                                  !.attempts = DefaultJobOpts.attempts]]
       /\ starts' = [starts EXCEPT ![s] = 0]
  ELSE UNCHANGED <<job, starts>>

\* BullMQ hands a waiting job to a free processor slot, under that slot's lock.
TakeJob(w, s) ==
  /\ run[w].pc = "idle"
  /\ job[s].state = "waiting"
  /\ job' = [job EXCEPT ![s].state = "active", ![s].lock = w]
  /\ run' = [run EXCEPT ![w] = [IdleRun EXCEPT !.pc = "load", !.scan = s,
                                               !.made = job[s].made,
                                               !.attempts = job[s].attempts]]
  /\ UNCHANGED <<row, api, adm, starts>>

\* A lock expires when its holder stopped renewing it.
ExpireLock(s) ==
  /\ job[s].state = "active"
  /\ \/ job[s].lock = DeadWorker
     \/ job[s].lock \in Workers /\ "lock_loss" \in Faults
  /\ job' = [job EXCEPT ![s].lock = NoWorker]
  /\ UNCHANGED <<row, api, run, adm, starts>>

\* The stalled check puts an active job without a lock back in the queue, or
\* fails it after MaxStalls times without calling the processor again.
RecoverStalledJob(s) ==
  /\ job[s].state = "active" /\ job[s].lock = NoWorker
  /\ job' = [job EXCEPT ![s].stalls = @ + 1,
                        ![s].state = IF job[s].stalls < MaxStalls
                                     THEN "waiting" ELSE "failed"]
  /\ UNCHANGED <<row, api, run, adm, starts>>

-----------------------------------------------------------------------------
(* API requests of users *)

\* createScanFromUpload, createScanFromUrl: the INSERT of a pending row.
CreateScan(s) ==
  /\ api[s] = "none"
  /\ row' = [row EXCEPT ![s] = BlankRow("pending")]
  /\ api' = [api EXCEPT ![s] = "inserted"]
  /\ UNCHANGED <<job, run, adm, starts>>

DispatchToQueue(s) ==
  /\ Mode = "queue"
  /\ AddJob(s)
  /\ UNCHANGED run

DispatchToTask(s) ==
  /\ Mode = "direct"
  /\ run' = [run EXCEPT ![s] = [IdleRun EXCEPT !.pc = "load", !.scan = s]]
  /\ UNCHANGED <<job, starts>>

\* dispatchScanAfterInsert, a later await of the same request.
DispatchScanAfterInsert(s) ==
  /\ api[s] = "inserted"
  /\ api' = [api EXCEPT ![s] = "done"]
  /\ DispatchToQueue(s) \/ DispatchToTask(s)
  /\ UNCHANGED <<row, adm>>

\* The request dies, or the queue rejects the job (in direct mode: the object
\* storage is not configured), after the row is committed.
AbortDispatch(s) ==
  /\ "api_abort" \in Faults
  /\ api[s] = "inserted"
  /\ api' = [api EXCEPT ![s] = "done"]
  /\ UNCHANGED <<row, job, run, adm, starts>>

\* deleteMe: the rows of the user's scans go; jobs and runners do not.
DeleteScan(s) ==
  /\ RowExists(s)
  /\ row' = [row EXCEPT ![s] = BlankRow("deleted")]
  /\ UNCHANGED <<job, api, run, adm, starts>>

-----------------------------------------------------------------------------
(* processScanById and the processor around it *)

Goto(r, pc) == run' = [run EXCEPT ![r].pc = pc]

Throw(r, error) == run' = [run EXCEPT ![r].pc = "error", ![r].error = error]

\* A rejected statement throws a plain error.
DbError(r) ==
  /\ "db_error" \in Faults
  /\ Throw(r, "plain")
  /\ UNCHANGED <<row, starts>>

\* Mutant: a completed row is processed again.
LoadScanRowWithoutSkip(r) ==
  /\ run[r].pc = "load"
  /\ LET s == run[r].scan IN
     \/ ~RowExists(s) /\ Throw(r, "unrecoverable")
     \/ RowExists(s) /\ Goto(r, "mark")
  /\ UNCHANGED <<row, job, api, adm, starts>>

\* loadScanRow and the checks on what it returned.
LoadScanRow(r) ==
  /\ run[r].pc = "load"
  /\ LET s == run[r].scan IN
     \/ ~RowExists(s) /\ Throw(r, "unrecoverable")
     \/ row[s].status = "completed" /\ Goto(r, "settle")
     \/ RowExists(s) /\ row[s].status # "completed" /\ Goto(r, "mark")
     \/ "db_error" \in Faults /\ Throw(r, "plain")
  /\ UNCHANGED <<row, job, api, adm, starts>>

StartProcessing(r) ==
  /\ run[r].pc = "mark"
  /\ LET s == run[r].scan IN
     \/ /\ UpdateRow(s, MarkProcessing(row[s]))
        /\ starts' = [starts EXCEPT ![s] = @ + 1]
        /\ Goto(r, "detect")
     \/ DbError(r)
  /\ UNCHANGED <<job, api, adm>>

\* resolveMediaInput and runDetection.  Missing media is unrecoverable; whatever
\* a provider threw, runDetection rethrows as a plain error.  Each provider's
\* status is written to the row as it runs, which touches updated_at.
Detect(r) ==
  /\ run[r].pc = "detect"
  /\ LET s == run[r].scan IN
     \/ Throw(r, "unrecoverable") /\ UNCHANGED row
     \/ Throw(r, "plain") /\ UpdateRow(s, [row[s] EXCEPT !.stale = FALSE])
     \/ Goto(r, "write") /\ UpdateRow(s, [row[s] EXCEPT !.stale = FALSE])
  /\ UNCHANGED <<job, api, adm, starts>>

RecordResult(r) ==
  /\ run[r].pc = "write"
  /\ LET s == run[r].scan IN
     \/ UpdateRow(s, MarkCompleted(row[s])) /\ Goto(r, "settle") /\ UNCHANGED starts
     \/ DbError(r)
  /\ UNCHANGED <<job, api, adm>>

\* Mutant: attemptsMade is taken to count the attempt that just failed.
WillRetryAfterFailureOffByOne(r) == run[r].made < run[r].attempts

WillRetryAfterFailure(r) == run[r].made + 1 < run[r].attempts

\* handleProcessorError: the row is left as it is when BullMQ will run the job
\* again.  If markFailed is rejected too, its error replaces the one thrown.
HandleProcessorError(w) ==
  /\ run[w].pc = "error"
  /\ LET s == run[w].scan
         retried == run[w].error = "plain" /\ WillRetryAfterFailure(w)
     IN
     \/ retried /\ Goto(w, "settle") /\ UNCHANGED row
     \/ ~retried /\ UpdateRow(s, MarkFailed(row[s])) /\ Goto(w, "settle")
     \/ /\ ~retried /\ "db_error" \in Faults
        /\ run' = [run EXCEPT ![w].pc = "settle", ![w].error = "plain"]
        /\ UNCHANGED row
  /\ UNCHANGED <<job, api, adm, starts>>

\* Mutant: the task's error is only logged.
FailDirectTaskOnlyLogging(t) ==
  /\ run[t].pc = "error"
  /\ Goto(t, "settle")
  /\ UNCHANGED <<row, job, api, adm, starts>>

\* The catch block of the direct-mode task: one attempt, and a rejected
\* markFailed is only logged.
FailDirectTask(t) ==
  /\ run[t].pc = "error"
  /\ Goto(t, "settle")
  /\ \/ UpdateRow(t, MarkFailed(row[t]))
     \/ "db_error" \in Faults /\ UNCHANGED row
  /\ UNCHANGED <<job, api, adm, starts>>

\* What BullMQ does with a job whose processor returned or threw.
Settled(j, error) ==
  IF error = "none"
  THEN [j EXCEPT !.state = "completed", !.lock = NoWorker]
  ELSE [j EXCEPT !.made = @ + 1, !.lock = NoWorker,
                 !.state = IF error = "plain" /\ j.made + 1 < j.attempts
                           THEN "waiting" ELSE "failed"]

\* The processor returns or rethrows, or the direct task ends.  BullMQ ignores a
\* slot that lost its lock; a direct task has none.
Settle(r) ==
  /\ run[r].pc = "settle"
  /\ LET s == run[r].scan IN
     job' = IF job[s].state = "active" /\ job[s].lock = r
            THEN [job EXCEPT ![s] = Settled(@, run[r].error)]
            ELSE job
  /\ run' = [run EXCEPT ![r] = IdleRun]
  /\ UNCHANGED <<row, api, adm, starts>>

\* The process dies; the lock of its job stays in Redis until it expires.
Crash(r) ==
  /\ "crash" \in Faults
  /\ run[r].pc # "idle"
  /\ run' = [run EXCEPT ![r] = IdleRun]
  /\ LET s == run[r].scan IN
     job' = IF job[s].lock = r THEN [job EXCEPT ![s].lock = DeadWorker] ELSE job
  /\ UNCHANGED <<row, api, adm, starts>>

\* Time passes without a write to the row of a processing scan.
GrowStale(s) ==
  /\ row[s].status = "processing" /\ ~row[s].stale
  /\ row' = [row EXCEPT ![s].stale = TRUE]
  /\ UNCHANGED <<job, api, run, adm, starts>>

-----------------------------------------------------------------------------
(* Internal requests: retryScanAdmin and resetStuckProcessingScanAdmin.     *)
(* They differ in the row they accept; what follows is the same.            *)

\* Mutant: only a completed scan is refused.
MayRetryUnsettled(s, kind) ==
  /\ kind \in {"retry", "retry_completed"}
  /\ row[s].status = "completed" => kind = "retry_completed"
  /\ RowExists(s)

MayRetry(s, kind) ==
  \/ kind \in {"retry", "retry_completed"} /\ row[s].status = "failed"
  \/ kind = "retry_completed" /\ row[s].status = "completed"

MayResetStuck(s) ==
  row[s].status = "processing" /\ ~row[s].completedAt /\ row[s].stale

StartRequeue(a, s, kind) ==
  /\ adm[a].pc = "idle"
  /\ row[s].retries < MaxRetries
  /\ MayRetry(s, kind) \/ (kind = "reset_stuck" /\ MayResetStuck(s))
  /\ adm' = [adm EXCEPT ![a] = [pc |-> "gate", scan |-> s, kind |-> kind]]
  /\ UNCHANGED <<row, job, api, run, starts>>

AdminGoto(a, pc) == adm' = [adm EXCEPT ![a].pc = pc]
EndRequest(a) == adm' = [adm EXCEPT ![a] = IdleAdmin]

AssertJobNotActivelyRunning(a) ==
  /\ adm[a].pc = "gate"
  /\ IF job[adm[a].scan].state = "active"
     THEN EndRequest(a)
     ELSE AdminGoto(a, "remove")
  /\ UNCHANGED <<row, job, api, run, starts>>

\* Mutants: the job is removed from under its worker; a finished job is kept.
RemoveQueueJobIgnoringLock(a) ==
  /\ adm[a].pc = "remove"
  /\ AdminGoto(a, "reset")
  /\ job' = [job EXCEPT ![adm[a].scan] = NoJob]
  /\ UNCHANGED <<row, api, run, starts>>

RemoveOnlyWaitingQueueJob(a) ==
  /\ adm[a].pc = "remove"
  /\ LET s == adm[a].scan IN
     IF job[s].lock # NoWorker
     THEN EndRequest(a) /\ UNCHANGED job
     ELSE /\ AdminGoto(a, "reset")
          /\ job' = IF job[s].state = "waiting" THEN [job EXCEPT ![s] = NoJob] ELSE job
  /\ UNCHANGED <<row, api, run, starts>>

\* job.remove rejects while a worker holds the lock; the request ends there.
RemoveQueueJobIfPresent(a) ==
  /\ adm[a].pc = "remove"
  /\ LET s == adm[a].scan IN
     IF job[s].lock # NoWorker
     THEN EndRequest(a) /\ UNCHANGED job
     ELSE AdminGoto(a, "reset") /\ job' = [job EXCEPT ![s] = NoJob]
  /\ UNCHANGED <<row, api, run, starts>>

ResetRow(a) ==
  /\ adm[a].pc = "reset"
  /\ LET s == adm[a].scan IN
     \/ UpdateRow(s, ResetScanRowForRequeue(row[s])) /\ AdminGoto(a, "enqueue")
     \/ "db_error" \in Faults /\ EndRequest(a) /\ UNCHANGED row
  /\ UNCHANGED <<job, api, run, starts>>

EnqueueScanJob(a) ==
  /\ adm[a].pc = "enqueue"
  /\ AddJob(adm[a].scan)
  /\ EndRequest(a)
  /\ UNCHANGED <<row, api, run>>

\* The request dies, or a Redis call in it is rejected.
AbortRequeue(a) ==
  /\ "api_abort" \in Faults
  /\ adm[a].pc # "idle"
  /\ EndRequest(a)
  /\ UNCHANGED <<row, job, api, run, starts>>

-----------------------------------------------------------------------------
RunnerStep(r) ==
  \/ LoadScanRow(r) \/ StartProcessing(r) \/ Detect(r) \/ RecordResult(r)
  \/ Settle(r)

WorkerStep(w) == RunnerStep(w) \/ HandleProcessorError(w)

DirectStep(t) == RunnerStep(t) \/ FailDirectTask(t)
DirectTasks == IF Mode = "direct" THEN Scans ELSE {}

QueueStep(s) ==
  (\E w \in Workers : TakeJob(w, s)) \/ ExpireLock(s) \/ RecoverStalledJob(s)

AdminStep(a) ==
  \/ \E s \in Scans, kind \in {"retry", "retry_completed", "reset_stuck"} :
        StartRequeue(a, s, kind)
  \/ AssertJobNotActivelyRunning(a)
  \/ RemoveQueueJobIfPresent(a)
  \/ ResetRow(a)
  \/ EnqueueScanJob(a)
  \/ AbortRequeue(a)

Next ==
  \/ \E s \in Scans : \/ CreateScan(s) \/ DispatchScanAfterInsert(s)
                      \/ AbortDispatch(s) \/ DeleteScan(s) \/ GrowStale(s)
                      \/ QueueStep(s)
  \/ \E t \in DirectTasks : DirectStep(t)
  \/ \E w \in Workers : WorkerStep(w)
  \/ \E r \in Runners : Crash(r)
  \/ \E a \in Admins : AdminStep(a)

Spec == Init /\ [][Next]_vars

(***************************************************************************)
(* Fairness: BullMQ hands out waiting jobs, expires the locks of dead      *)
(* workers and checks for stalled jobs periodically; a runner or a request *)
(* that is between two awaits goes on, unless a fault stops it.  Nothing   *)
(* makes users or operators act, and no fault has to happen.  In direct    *)
(* mode a worker may be there, but nothing says that one is: what is in    *)
(* the queue then need not be taken, and a job taken need not end.         *)
(***************************************************************************)
QueuedScans == IF Mode = "queue" THEN Scans ELSE {}
WorkersOnDuty == IF Mode = "queue" THEN Workers ELSE {}

Fairness ==
  /\ \A s \in Scans : WF_vars(DispatchScanAfterInsert(s)) /\ WF_vars(DirectStep(s))
  /\ \A s \in QueuedScans :
       /\ WF_vars(\E w \in Workers : TakeJob(w, s))
       /\ WF_vars(job[s].lock = DeadWorker /\ ExpireLock(s))
       /\ WF_vars(RecoverStalledJob(s))
  /\ \A w \in WorkersOnDuty : WF_vars(WorkerStep(w))
  /\ \A a \in Admins : WF_vars(ResetRow(a)) /\ WF_vars(EnqueueScanJob(a))

FairSpec == Spec /\ Fairness

-----------------------------------------------------------------------------
(* Properties *)

Working(r, s) == run[r].pc # "idle" /\ run[r].scan = s

\* Two workers never process the same scan at once: the row is written by its
\* id alone, so only the job's lock keeps their results apart.
ExclusiveRunner ==
  \A s \in Scans, r1, r2 \in Runners : Working(r1, s) /\ Working(r2, s) => r1 = r2

\* What a user reads of a row agrees with its status: a completed scan has a
\* result and no error, a failed one an error and no result left over from an
\* earlier run, a pending one neither (markCompleted, markFailed and
\* resetScanRowForRequeue each clear only some of the columns).
OutcomeAgreesWithStatus ==
  \A s \in Scans :
    /\ row[s].status = "completed" => row[s].completedAt /\ row[s].result /\ ~row[s].error
    /\ row[s].status = "failed" => row[s].completedAt /\ ~row[s].result /\ row[s].error
    /\ row[s].status = "pending" => ~row[s].completedAt /\ ~row[s].result /\ ~row[s].error
    /\ row[s].status = "processing" => ~row[s].result /\ ~row[s].error

\* Somebody will still act on the scan: a job that BullMQ will run, a runner, or
\* a request that is about to put the scan in the queue.
Attended(s) ==
  \/ JobIsLive(s)
  \/ api[s] = "inserted"
  \/ \E r \in Runners : Working(r, s)
  \/ \E a \in Admins : adm[a].pc \in {"reset", "enqueue"} /\ adm[a].scan = s

Abandoned(s) == row[s].status \in {"pending", "processing"} /\ ~Attended(s)

\* A scan that is not settled is attended: the worker's decision to leave the
\* row in processing agrees with BullMQ's decision to run the job again, and a
\* requeue never leaves a pending row without a job.
NoScanAbandoned == \A s \in Scans : ~Abandoned(s)

\* However often a job fails or stalls, the providers are called at most
\* attempts times, once more per tolerated stall, each time it is queued.
DetectionBudget == \A s \in Scans : starts[s] <= MaxAttempts + MaxStalls

\* A completed scan is not processed again: only a request of an operator
\* takes a row out of completed (processScanById skips completed rows, but
\* checks the status in an earlier statement than the one that overwrites it).
FinalStep ==
  \A s \in Scans :
    row[s].status = "completed" /\ row'[s].status \notin {"completed", "deleted"}
      => \E a \in Admins : adm[a].pc = "reset" /\ adm[a].scan = s

CompletedIsFinal == [][FinalStep]_vars

-----------------------------------------------------------------------------
(* Why those properties hold in queue mode while no lock is lost: what the  *)
(* code relies on without saying so.                                        *)

\* A worker slot that is busy holds the lock of its job, which is active; so
\* nobody else can take, remove or requeue the job.
RunnerHoldsLock ==
  /\ \A w \in Workers : run[w].pc # "idle" =>
       job[run[w].scan].state = "active" /\ job[run[w].scan].lock = w
  /\ \A s \in Scans : run[s].pc = "idle"

\* Between the check of loadScanRow and the statement that settles the row,
\* the row does not become completed.
RunnerKeepsRowUnsettled ==
  \A w \in Workers :
    run[w].pc \in {"mark", "detect", "write", "error"} => row[run[w].scan].status # "completed"

Uninserted == \A s \in Scans : api[s] = "none" => row[s].status = "none"

\* Each time the processor starts, an attempt or a stall is used up before
\* it can start again.
ScanIsCounted(s) ==
  /\ starts[s] <= MaxAttempts + MaxStalls
  /\ JobIsLive(s) =>
       /\ job[s].attempts = MaxAttempts
       /\ job[s].made < MaxAttempts /\ job[s].stalls <= MaxStalls
       /\ starts[s] <= job[s].made + job[s].stalls + 1
  /\ job[s].state = "waiting" => starts[s] <= job[s].made + job[s].stalls
  /\ \A w \in Workers :
       run[w].pc \in {"load", "mark"} /\ run[w].scan = s
         => starts[s] <= job[s].made + job[s].stalls

StartsAreCounted == \A s \in Scans : ScanIsCounted(s)

\* The inductive invariant; the last two parts need that no statement fails.
PipelineInv ==
  /\ TypeOK /\ RunnerHoldsLock /\ StartsAreCounted
  /\ Uninserted /\ RunnerKeepsRowUnsettled /\ OutcomeAgreesWithStatus

-----------------------------------------------------------------------------
\* A job that a requeue made in direct mode: whether it is ever run is up to a worker that
\* this mode does without.
LeftInQueue(s) == Mode = "direct" /\ JobIsLive(s)

\* Every scan that was inserted gets an outcome, however it is interleaved with
\* other scans and with requeues, when no fault happens; in direct mode, unless an
\* operator's retry or reset-stuck has put it in the queue.
EveryScanSettles ==
  \A s \in Scans :
    row[s].status \in {"pending", "processing"} ~>
      \/ row[s].status \in {"completed", "failed", "deleted"}
      \/ LeftInQueue(s)

\* The pipeline implements the lifecycle OPERATIONS.md promises.
LifeOfRows == [s \in Scans |-> [status |-> row[s].status, generation |-> row[s].retries]]

Lifecycle == INSTANCE ScanLifecycle WITH life <- LifeOfRows

RefinesLifecycle == Lifecycle!Spec

=============================================================================
