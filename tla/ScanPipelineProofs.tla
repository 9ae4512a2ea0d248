------------------------- MODULE ScanPipelineProofs -------------------------
(***************************************************************************)
(* Proofs about ScanPipeline and ScanEvidence, for any number of scans,    *)
(* workers and requests, and any number of attempts, stalls and retries.   *)
(*                                                                         *)
(*   - TypeCorrect and EvidenceIsExplained hold in both modes; the first   *)
(*     under every fault, the second under those ScanEvidence has steps    *)
(*     for: errors of the database and of the vendor, and lost locks;      *)
(*   - the other theorems are about queue mode without lock losses, the    *)
(*     setting in which BullMQ's lock tells who may write a row.           *)
(***************************************************************************)
EXTENDS ScanEvidence, TLAPS

-----------------------------------------------------------------------------
(* Types *)

\* The statements against a row map rows to rows.
LEMMA RowStatementTypes ==
  ASSUME NEW r \in Row
  PROVE  /\ MarkProcessing(r) \in Row /\ MarkCompleted(r) \in Row
         /\ MarkFailed(r) \in Row /\ ResetScanRowForRequeue(r) \in Row
         /\ [r EXCEPT !.stale = FALSE] \in Row /\ [r EXCEPT !.stale = TRUE] \in Row
<1>1. MarkProcessing(r) \in Row
  BY DEF Row, MarkProcessing
<1>2. MarkCompleted(r) \in Row
  BY DEF Row, MarkCompleted
<1>3. MarkFailed(r) \in Row
  BY DEF Row, MarkFailed
<1>4. ResetScanRowForRequeue(r) \in Row
  <2>1. r.retries + 1 \in Nat
    BY DEF Row
  <2> QED BY <2>1, Zenon DEF Row, ResetScanRowForRequeue
<1>5. [r EXCEPT !.stale = FALSE] \in Row /\ [r EXCEPT !.stale = TRUE] \in Row
  BY DEF Row
<1> QED BY <1>1, <1>2, <1>3, <1>4, <1>5

LEMMA BlankRowTypes ==
  BlankRow("none") \in Row /\ BlankRow("pending") \in Row /\ BlankRow("deleted") \in Row
  BY DEF Row, BlankRow

\* A statement touches one row, or none.
LEMMA UpdateRowType ==
  ASSUME row \in [Scans -> Row], NEW s \in Scans, NEW new \in Row, UpdateRow(s, new)
  PROVE  row' \in [Scans -> Row]
  BY DEF UpdateRow

LEMMA GotoType ==
  ASSUME TypeOK, NEW r \in Runners, run[r].pc # "idle",
         NEW pc \in {"load", "mark", "detect", "write", "error", "settle"}, Goto(r, pc)
  PROVE  /\ run' \in [Runners -> Run]
         /\ \A q \in Runners : run'[q].pc # "idle" => run'[q].scan \in Scans
<1>1. run \in [Runners -> Run] /\ run' = [run EXCEPT ![r].pc = pc]
  BY DEF TypeOK, Goto
<1>2. [run[r] EXCEPT !.pc = pc] \in Run
  BY <1>1 DEF Run
<1>3. run' \in [Runners -> Run]
  BY <1>1, <1>2
<1>4. \A q \in Runners : run'[q].scan = run[q].scan /\ (q # r => run'[q].pc = run[q].pc)
  BY <1>1 DEF Run
<1> QED BY <1>3, <1>4 DEF TypeOK

LEMMA ThrowType ==
  ASSUME TypeOK, NEW r \in Runners, run[r].pc # "idle",
         NEW e \in {"plain", "unrecoverable"}, Throw(r, e)
  PROVE  /\ run' \in [Runners -> Run]
         /\ \A q \in Runners : run'[q].pc # "idle" => run'[q].scan \in Scans
<1>1. run \in [Runners -> Run] /\ run' = [run EXCEPT ![r] = [@ EXCEPT !.pc = "error", !.error = e]]
  BY DEF TypeOK, Throw
<1>2. [run[r] EXCEPT !.pc = "error", !.error = e] \in Run
  BY <1>1 DEF Run
<1>3. run' \in [Runners -> Run]
  BY <1>1, <1>2
<1>4. \A q \in Runners : run'[q].scan = run[q].scan /\ (q # r => run'[q].pc = run[q].pc)
  BY <1>1 DEF Run
<1> QED BY <1>3, <1>4 DEF TypeOK

LEMMA AddJobType ==
  ASSUME TypeOK, NEW s \in Scans, AddJob(s)
  PROVE  job' \in [Scans -> Job] /\ starts' \in [Scans -> Nat]
<1>1. DefaultJobOpts.attempts \in Nat
  BY ScanPipelineAssumption DEF DefaultJobOpts
<1>2. [NoJob EXCEPT !.state = "waiting", !.attempts = DefaultJobOpts.attempts] \in Job
  BY <1>1 DEF NoJob, Job
<1> QED BY <1>2 DEF TypeOK, AddJob

LEMMA IdleTypes == IdleRun \in Run /\ NoJob \in Job /\ IdleAdmin \in Admin
  BY DEF Run, IdleRun, Job, NoJob, Admin, IdleAdmin

LEMMA TypeInit == Init => TypeOK
<1> SUFFICES ASSUME Init PROVE TypeOK
  OBVIOUS
<1>1. row \in [Scans -> Row] /\ job \in [Scans -> Job]
  BY BlankRowTypes, IdleTypes DEF Init
<1>2. run \in [Runners -> Run] /\ adm \in [Admins -> Admin]
  BY IdleTypes DEF Init
<1>3. /\ \A r \in Runners : run[r].pc = "idle"
      /\ \A a \in Admins : adm[a].pc = "idle"
  BY DEF Init, IdleRun, IdleAdmin
<1> QED BY <1>1, <1>2, <1>3 DEF Init, TypeOK

\* The steps of a runner, a worker or a direct task.
LEMMA TypeRunner ==
  ASSUME TypeOK, NEW r \in Runners,
         RunnerStep(r) \/ HandleProcessorError(r) \/ (r \in Scans /\ FailDirectTask(r))
  PROVE  TypeOK'
<1> DEFINE s == run[r].scan
<1>0. run[r].pc # "idle" /\ s \in Scans /\ row[s] \in Row
  BY DEF TypeOK, RunnerStep, LoadScanRow, StartProcessing, Detect, RecordResult, Settle,
         HandleProcessorError, FailDirectTask, Runners
<1>1. CASE LoadScanRow(r)
  <2>1. run' \in [Runners -> Run] /\ \A q \in Runners : run'[q].pc # "idle" => run'[q].scan \in Scans
    BY <1>0, <1>1, GotoType, ThrowType DEF LoadScanRow
  <2> QED BY <1>1, <2>1 DEF LoadScanRow, TypeOK
<1>2. CASE StartProcessing(r)
  <2>1. run' \in [Runners -> Run] /\ \A q \in Runners : run'[q].pc # "idle" => run'[q].scan \in Scans
    BY <1>0, <1>2, GotoType, ThrowType DEF StartProcessing, DbError
  <2>2. row' \in [Scans -> Row]
    BY <1>0, <1>2, UpdateRowType, RowStatementTypes DEF StartProcessing, DbError, TypeOK
  <2>3. starts' \in [Scans -> Nat]
    BY <1>0, <1>2 DEF StartProcessing, DbError, TypeOK
  <2> QED BY <1>2, <2>1, <2>2, <2>3 DEF StartProcessing, TypeOK
<1>3. CASE Detect(r)
  <2>1. run' \in [Runners -> Run] /\ \A q \in Runners : run'[q].pc # "idle" => run'[q].scan \in Scans
    BY <1>0, <1>3, GotoType, ThrowType DEF Detect
  <2>2. row' \in [Scans -> Row]
    BY <1>0, <1>3, UpdateRowType, RowStatementTypes DEF Detect, TypeOK
  <2> QED BY <1>3, <2>1, <2>2 DEF Detect, TypeOK
<1>4. CASE RecordResult(r)
  <2>1. run' \in [Runners -> Run] /\ \A q \in Runners : run'[q].pc # "idle" => run'[q].scan \in Scans
    BY <1>0, <1>4, GotoType, ThrowType DEF RecordResult, DbError
  <2>2. row' \in [Scans -> Row] /\ starts' = starts
    BY <1>0, <1>4, UpdateRowType, RowStatementTypes DEF RecordResult, DbError, TypeOK
  <2> QED BY <1>4, <2>1, <2>2 DEF RecordResult, TypeOK
<1>5. CASE Settle(r)
  <2>1. ASSUME NEW e PROVE Settled(job[s], e) \in Job
    <3>1. job[s] \in Job /\ job[s].made + 1 \in Nat
      BY <1>0 DEF Job, TypeOK
    <3> QED BY <3>1, Zenon DEF Settled, Job
  <2>2. job' \in [Scans -> Job]
    BY <1>0, <1>5, <2>1 DEF Settle, TypeOK
  <2>3. run' \in [Runners -> Run] /\ \A q \in Runners : run'[q].pc # "idle" => run'[q].scan \in Scans
    BY <1>5, IdleTypes DEF Settle, TypeOK, IdleRun
  <2> QED BY <1>5, <2>2, <2>3 DEF Settle, TypeOK
<1>6. CASE HandleProcessorError(r)
  <2>1. run' \in [Runners -> Run] /\ \A q \in Runners : run'[q].pc # "idle" => run'[q].scan \in Scans
    BY <1>0, <1>6, GotoType DEF HandleProcessorError, TypeOK, Run
  <2>2. row' \in [Scans -> Row]
    BY <1>0, <1>6, UpdateRowType, RowStatementTypes DEF HandleProcessorError, TypeOK
  <2> QED BY <1>6, <2>1, <2>2 DEF HandleProcessorError, TypeOK
<1>7. CASE r \in Scans /\ FailDirectTask(r)
  <2>1. run' \in [Runners -> Run] /\ \A q \in Runners : run'[q].pc # "idle" => run'[q].scan \in Scans
    BY <1>0, <1>7, GotoType DEF FailDirectTask
  <2>2. row' \in [Scans -> Row]
    BY <1>7, UpdateRowType, RowStatementTypes DEF FailDirectTask, TypeOK
  <2> QED BY <1>7, <2>1, <2>2 DEF FailDirectTask, TypeOK
<1> QED BY <1>1, <1>2, <1>3, <1>4, <1>5, <1>6, <1>7 DEF RunnerStep

\* The steps of BullMQ.
LEMMA TypeQueue ==
  ASSUME TypeOK, NEW s \in Scans, QueueStep(s)
  PROVE  TypeOK'
<1>0. job[s] \in Job
  BY DEF TypeOK
<1>1. ASSUME NEW w \in Workers, TakeJob(w, s) PROVE TypeOK'
  <2>1. [job[s] EXCEPT !.state = "active", !.lock = w] \in Job
    BY <1>0 DEF Job
  <2>2. [IdleRun EXCEPT !.pc = "load", !.scan = s, !.made = job[s].made,
                        !.attempts = job[s].attempts] \in Run
    BY <1>0 DEF Job, Run, IdleRun
  <2>3. job' \in [Scans -> Job]
    BY <1>1, <2>1 DEF TakeJob, TypeOK
  <2>4. run' \in [Runners -> Run] /\ \A q \in Runners : run'[q].pc # "idle" => run'[q].scan \in Scans
    BY <1>1, <2>2 DEF TakeJob, TypeOK, Runners, IdleRun
  <2> QED BY <1>1, <2>3, <2>4 DEF TakeJob, TypeOK
<1>2. CASE ExpireLock(s)
  <2>1. [job[s] EXCEPT !.lock = NoWorker] \in Job
    BY <1>0 DEF Job
  <2> QED BY <1>2, <2>1 DEF ExpireLock, TypeOK
<1>3. CASE RecoverStalledJob(s)
  <2>1. job[s].stalls + 1 \in Nat
    BY <1>0 DEF Job
  <2>2. ASSUME NEW st \in {"waiting", "failed"}
        PROVE  [job[s] EXCEPT !.stalls = @ + 1, !.state = st] \in Job
    BY <1>0, <2>1, Zenon DEF Job
  <2>3. job' \in [Scans -> Job]
    BY <1>3, <2>2 DEF RecoverStalledJob, TypeOK
  <2> QED BY <1>3, <2>3 DEF RecoverStalledJob, TypeOK
<1> QED BY <1>1, <1>2, <1>3 DEF QueueStep

\* The steps of an internal request.
LEMMA TypeAdmin ==
  ASSUME TypeOK, NEW a \in Admins, AdminStep(a)
  PROVE  TypeOK'
<1> DEFINE s == adm[a].scan
<1> DEFINE AdmTyped == /\ adm' \in [Admins -> Admin]
                       /\ \A b \in Admins : adm'[b].pc # "idle" => adm'[b].scan \in Scans
<1>0. ASSUME adm[a].pc # "idle"
      PROVE  /\ s \in Scans /\ row[s] \in Row
             /\ \A pc \in {"remove", "reset", "enqueue"} : AdminGoto(a, pc) => AdmTyped
             /\ EndRequest(a) => AdmTyped
  <2>1. s \in Scans /\ row[s] \in Row
    BY <1>0 DEF TypeOK
  <2>2. \A pc \in {"remove", "reset", "enqueue"} : AdminGoto(a, pc) => AdmTyped
    BY <2>1 DEF TypeOK, Admin, AdminGoto
  <2>3. EndRequest(a) => AdmTyped
    BY IdleTypes DEF TypeOK, EndRequest, IdleAdmin
  <2> QED BY <2>1, <2>2, <2>3
<1>1. ASSUME NEW z \in Scans, NEW kind \in {"retry", "retry_completed", "reset_stuck"},
             StartRequeue(a, z, kind)
      PROVE  TypeOK'
  BY <1>1 DEF StartRequeue, TypeOK, Admin
<1>2. CASE AssertJobNotActivelyRunning(a)
  BY <1>0, <1>2 DEF AssertJobNotActivelyRunning, TypeOK
<1>3. CASE RemoveQueueJobIfPresent(a)
  <2>1. job' \in [Scans -> Job] /\ AdmTyped
    BY <1>0, <1>3, IdleTypes DEF RemoveQueueJobIfPresent, TypeOK
  <2> QED BY <1>3, <2>1 DEF RemoveQueueJobIfPresent, TypeOK
<1>4. CASE ResetRow(a)
  <2>1. row' \in [Scans -> Row] /\ AdmTyped
    BY <1>0, <1>4, UpdateRowType, RowStatementTypes DEF ResetRow, TypeOK
  <2> QED BY <1>4, <2>1 DEF ResetRow, TypeOK
<1>5. CASE EnqueueScanJob(a)
  <2>1. job' \in [Scans -> Job] /\ starts' \in [Scans -> Nat] /\ AdmTyped
    BY <1>0, <1>5, AddJobType DEF EnqueueScanJob
  <2> QED BY <1>5, <2>1 DEF EnqueueScanJob, TypeOK
<1>6. CASE AbortRequeue(a)
  BY <1>0, <1>6 DEF AbortRequeue, TypeOK
<1> QED BY <1>1, <1>2, <1>3, <1>4, <1>5, <1>6 DEF AdminStep

LEMMA TypeNext == TypeOK /\ [Next]_vars => TypeOK'
<1> SUFFICES ASSUME TypeOK, [Next]_vars PROVE TypeOK'
  OBVIOUS
<1>1. ASSUME NEW s \in Scans, CreateScan(s) PROVE TypeOK'
  BY <1>1, BlankRowTypes DEF CreateScan, TypeOK
<1>2. ASSUME NEW s \in Scans, DispatchScanAfterInsert(s) PROVE TypeOK'
  <2>1. api' \in [Scans -> {"none", "inserted", "done"}]
    BY <1>2 DEF DispatchScanAfterInsert, TypeOK
  <2>2. CASE DispatchToQueue(s)
    BY <1>2, <2>1, <2>2, AddJobType DEF DispatchScanAfterInsert, DispatchToQueue, TypeOK
  <2>3. CASE DispatchToTask(s)
    <3>1. [IdleRun EXCEPT !.pc = "load", !.scan = s] \in Run
      BY DEF Run, IdleRun
    <3>2. run' \in [Runners -> Run] /\ \A q \in Runners : run'[q].pc # "idle" => run'[q].scan \in Scans
      BY <2>3, <3>1 DEF DispatchToTask, TypeOK, Runners, IdleRun
    <3> QED BY <1>2, <2>1, <2>3, <3>2 DEF DispatchScanAfterInsert, DispatchToTask, TypeOK
  <2> QED BY <1>2, <2>2, <2>3 DEF DispatchScanAfterInsert
<1>3. ASSUME NEW s \in Scans, AbortDispatch(s) PROVE TypeOK'
  BY <1>3 DEF AbortDispatch, TypeOK
<1>4. ASSUME NEW s \in Scans, DeleteScan(s) PROVE TypeOK'
  BY <1>4, BlankRowTypes DEF DeleteScan, TypeOK
<1>5. ASSUME NEW s \in Scans, GrowStale(s) PROVE TypeOK'
  <2>1. [row[s] EXCEPT !.stale = TRUE] \in Row
    BY RowStatementTypes DEF TypeOK
  <2> QED BY <1>5, <2>1 DEF GrowStale, TypeOK
<1>6. ASSUME NEW s \in Scans, QueueStep(s) PROVE TypeOK'
  BY <1>6, TypeQueue
<1>7. ASSUME NEW s \in Scans, DirectStep(s) PROVE TypeOK'
  BY <1>7, TypeRunner DEF DirectStep, Runners
<1>8. ASSUME NEW w \in Workers, WorkerStep(w) PROVE TypeOK'
  BY <1>8, TypeRunner DEF WorkerStep, Runners
<1>9. ASSUME NEW r \in Runners, Crash(r) PROVE TypeOK'
  <2>1. run[r].scan \in Scans
    BY <1>9 DEF Crash, TypeOK
  <2>2. [job[run[r].scan] EXCEPT !.lock = DeadWorker] \in Job
    BY <2>1 DEF TypeOK, Job
  <2>3. run' \in [Runners -> Run] /\ \A q \in Runners : run'[q].pc # "idle" => run'[q].scan \in Scans
    BY <1>9, IdleTypes DEF Crash, TypeOK, IdleRun
  <2>4. job' \in [Scans -> Job]
    BY <1>9, <2>1, <2>2 DEF Crash, TypeOK
  <2> QED BY <1>9, <2>3, <2>4 DEF Crash, TypeOK
<1>10. ASSUME NEW a \in Admins, AdminStep(a) PROVE TypeOK'
  BY <1>10, TypeAdmin
<1>11. CASE UNCHANGED vars
  BY <1>11 DEF vars, TypeOK
<1> QED BY <1>1, <1>2, <1>3, <1>4, <1>5, <1>6, <1>7, <1>8, <1>9, <1>10, <1>11 DEF Next, DirectTasks

\* Every reachable state is well typed, in both modes and under every fault.
THEOREM TypeCorrect == Spec => []TypeOK
<1> QED BY TypeInit, TypeNext, PTL DEF Spec

-----------------------------------------------------------------------------
(* Queue mode: the lock of a job                                            *)

QueueMode == Mode = "queue" /\ "lock_loss" \notin Faults

\* In queue mode the tasks of direct mode never start, so the runner of every
\* step is a worker.
LEMMA NoDirectStep ==
  ASSUME RunnerHoldsLock, NEW s \in Scans
  PROVE  ~DirectStep(s)
  BY DEF RunnerHoldsLock, DirectStep, RunnerStep, LoadScanRow, StartProcessing, Detect,
         RecordResult, Settle, FailDirectTask

\* Between its load and its settle a worker keeps its scan and leaves the jobs
\* alone.
LEMMA WorkerKeepsScan ==
  ASSUME TypeOK, NEW w \in Workers, WorkerStep(w)
  PROVE  /\ run[w].pc # "idle" /\ run[w].scan \in Scans
         /\ \/ Settle(w)
            \/ /\ UNCHANGED job
               /\ \A q \in Runners : run'[q].scan = run[q].scan
               /\ \A q \in Runners \ {w} : run'[q] = run[q]
<1>1. w \in Runners /\ run \in [Runners -> Run]
  BY DEF TypeOK, Runners
<1>2. run[w].pc # "idle" /\ run[w].scan \in Scans
  BY <1>1 DEF TypeOK, WorkerStep, RunnerStep, LoadScanRow, StartProcessing, Detect,
              RecordResult, Settle, HandleProcessorError
<1>3. ASSUME NEW pc, NEW e, Goto(w, pc) \/ Throw(w, e)
               \/ run' = [run EXCEPT ![w].pc = pc, ![w].error = e]
      PROVE  /\ \A q \in Runners : run'[q].scan = run[q].scan
             /\ \A q \in Runners \ {w} : run'[q] = run[q]
  BY <1>1, <1>3 DEF Run, Goto, Throw
<1>4. CASE LoadScanRow(w)
  BY <1>2, <1>3, <1>4 DEF LoadScanRow
<1>5. CASE StartProcessing(w)
  BY <1>2, <1>3, <1>5 DEF StartProcessing, DbError
<1>6. CASE Detect(w)
  BY <1>2, <1>3, <1>6 DEF Detect
<1>7. CASE RecordResult(w)
  BY <1>2, <1>3, <1>7 DEF RecordResult, DbError
<1>8. CASE HandleProcessorError(w)
  BY <1>2, <1>3, <1>8 DEF HandleProcessorError
<1> QED BY <1>2, <1>4, <1>5, <1>6, <1>7, <1>8 DEF WorkerStep, RunnerStep

LEMMA LockInit == Init => RunnerHoldsLock
  BY DEF Init, RunnerHoldsLock, Runners, IdleRun

LEMMA LockNext ==
  ASSUME QueueMode, TypeOK, RunnerHoldsLock, [Next]_vars
  PROVE  RunnerHoldsLock'
<1>0. job \in [Scans -> Job] /\ run \in [Runners -> Run] /\ Workers \subseteq Runners
      /\ Scans \subseteq Runners /\ Workers \cap Scans = {}
      /\ \A w \in Workers : run[w].pc # "idle" => run[w].scan \in Scans
  BY ScanPipelineAssumption DEF TypeOK, Runners
<1>1. ASSUME UNCHANGED <<job, run>> PROVE RunnerHoldsLock'
  BY <1>1 DEF RunnerHoldsLock
<1>2. ASSUME NEW s \in Scans, AddJob(s), UNCHANGED run PROVE RunnerHoldsLock'
  BY <1>0, <1>2 DEF AddJob, RunnerHoldsLock, NoJob, Job
<1>3. ASSUME NEW s \in Scans, DispatchScanAfterInsert(s) PROVE RunnerHoldsLock'
  BY <1>2, <1>3 DEF DispatchScanAfterInsert, DispatchToQueue, DispatchToTask, QueueMode
<1>4. ASSUME NEW s \in Scans, NEW w \in Workers, TakeJob(w, s) PROVE RunnerHoldsLock'
  <2>1. \A q \in Runners \ {w} : run'[q] = run[q]
    BY <1>0, <1>4 DEF TakeJob
  <2>2. run'[w].scan = s /\ job'[s].state = "active" /\ job'[s].lock = w
    BY <1>0, <1>4 DEF TakeJob, IdleRun, Job
  <2>3. \A z \in Scans \ {s} : job'[z] = job[z]
    BY <1>0, <1>4 DEF TakeJob
  <2>4. job[s].state = "waiting"
    BY <1>4 DEF TakeJob
  <2> QED BY <1>0, <2>1, <2>2, <2>3, <2>4 DEF RunnerHoldsLock
<1>5. ASSUME NEW s \in Scans, ExpireLock(s) \/ RecoverStalledJob(s) PROVE RunnerHoldsLock'
  <2>1. job[s].lock \notin Workers
    BY <1>5, ScanPipelineAssumption DEF ExpireLock, RecoverStalledJob, QueueMode
  <2>2. \A z \in Scans \ {s} : job'[z] = job[z]
    BY <1>0, <1>5 DEF ExpireLock, RecoverStalledJob
  <2>3. UNCHANGED run
    BY <1>5 DEF ExpireLock, RecoverStalledJob
  <2> QED BY <1>0, <2>1, <2>2, <2>3 DEF RunnerHoldsLock
<1>6. ASSUME NEW w \in Workers, WorkerStep(w) PROVE RunnerHoldsLock'
  <2>1. run[w].pc # "idle" /\ run[w].scan \in Scans /\ job[run[w].scan].lock = w
    BY <1>6, WorkerKeepsScan DEF RunnerHoldsLock
  <2>2. CASE Settle(w)
    <3>1. run'[w].pc = "idle" /\ \A q \in Runners \ {w} : run'[q] = run[q]
      BY <1>0, <2>2 DEF Settle, IdleRun
    <3>2. \A z \in Scans \ {run[w].scan} : job'[z] = job[z]
      BY <1>0, <2>2 DEF Settle
    <3> QED BY <1>0, <2>1, <3>1, <3>2 DEF RunnerHoldsLock
  <2>3. CASE ~Settle(w)
    BY <1>0, <1>6, <2>1, <2>3, WorkerKeepsScan DEF RunnerHoldsLock
  <2> QED BY <2>2, <2>3
<1>7. ASSUME NEW r \in Runners, Crash(r) PROVE RunnerHoldsLock'
  <2>1. r \in Workers /\ run[r].scan \in Scans /\ job[run[r].scan].lock = r
    BY <1>0, <1>7 DEF Crash, RunnerHoldsLock, Runners
  <2>2. run'[r].pc = "idle" /\ \A q \in Runners \ {r} : run'[q] = run[q]
    BY <1>0, <1>7 DEF Crash, IdleRun
  <2>3. \A z \in Scans \ {run[r].scan} : job'[z] = job[z]
    BY <1>0, <1>7 DEF Crash
  <2> QED BY <1>0, <2>1, <2>2, <2>3 DEF RunnerHoldsLock
<1>8. ASSUME NEW a \in Admins, AdminStep(a) PROVE RunnerHoldsLock'
  <2>1. CASE RemoveQueueJobIfPresent(a)
    <3> DEFINE s == adm[a].scan
    <3>1. s \in Scans /\ UNCHANGED run
      BY <2>1 DEF RemoveQueueJobIfPresent, TypeOK
    <3>2. UNCHANGED job
          \/ (job[s].lock \notin Workers /\ \A z \in Scans \ {s} : job'[z] = job[z])
      BY <1>0, <2>1, ScanPipelineAssumption DEF RemoveQueueJobIfPresent
    <3> QED BY <1>0, <3>1, <3>2 DEF RunnerHoldsLock
  <2>2. CASE EnqueueScanJob(a)
    BY <1>2, <2>2 DEF EnqueueScanJob, TypeOK
  <2> QED BY <1>1, <1>8, <2>1, <2>2 DEF AdminStep, StartRequeue, AssertJobNotActivelyRunning,
                                       ResetRow, AbortRequeue
<1>9. ASSUME NEW s \in Scans,
             CreateScan(s) \/ AbortDispatch(s) \/ DeleteScan(s) \/ GrowStale(s)
      PROVE  RunnerHoldsLock'
  BY <1>1, <1>9 DEF CreateScan, AbortDispatch, DeleteScan, GrowStale
<1> QED BY <1>1, <1>3, <1>4, <1>5, <1>6, <1>7, <1>8, <1>9, NoDirectStep DEF Next, DirectTasks, QueueStep, vars

\* One lock, one worker: the job of a busy worker names no other.
LEMMA LockExcludes == RunnerHoldsLock => ExclusiveRunner
  BY DEF RunnerHoldsLock, ExclusiveRunner, Working, Runners

\* In queue mode, while no lock is lost, two workers never process the same
\* scan at once, whatever crashes, aborts and operators do.
THEOREM RunnersExclude ==
  ASSUME QueueMode PROVE Spec => []ExclusiveRunner
<1>1. TypeOK /\ RunnerHoldsLock /\ [Next]_vars => RunnerHoldsLock'
  BY LockNext
<1> QED BY <1>1, TypeInit, TypeNext, LockInit, LockExcludes, PTL DEF Spec

-----------------------------------------------------------------------------
(* Queue mode: how often the providers are called                           *)

\* What a scan's count depends on.
LEMMA CountFrame ==
  ASSUME NEW s \in Scans, ScanIsCounted(s),
         job'[s] = job[s], starts'[s] = starts[s],
         \A w \in Workers : run'[w].pc \in {"load", "mark"} /\ run'[w].scan = s
           => run[w].pc \in {"load", "mark"} /\ run[w].scan = s
  PROVE  ScanIsCounted(s)'
  BY DEF ScanIsCounted, JobIsLive

LEMMA CountInit == Init => StartsAreCounted
<1> SUFFICES ASSUME Init, NEW s \in Scans PROVE ScanIsCounted(s)
  BY DEF StartsAreCounted
<1>1. starts[s] = 0 /\ job[s] = NoJob /\ \A w \in Workers : run[w].pc = "idle"
  BY DEF Init, IdleRun, Runners
<1>2. MaxAttempts \in Nat /\ MaxStalls \in Nat
  BY ScanPipelineAssumption
<1> QED BY <1>1, <1>2 DEF ScanIsCounted, JobIsLive, NoJob

\* A job that is added is counted from zero.
LEMMA CountAdd ==
  ASSUME TypeOK, StartsAreCounted, NEW z \in Scans, AddJob(z), UNCHANGED run
  PROVE  StartsAreCounted'
<1> SUFFICES ASSUME NEW s \in Scans PROVE ScanIsCounted(s)'
  BY DEF StartsAreCounted
<1>0. ScanIsCounted(s)
  BY DEF StartsAreCounted
<1>1. CASE s = z /\ job[z].state = "absent"
  <2>1. starts'[s] = 0 /\ job'[s].state = "waiting" /\ job'[s].made = 0
        /\ job'[s].stalls = 0 /\ job'[s].attempts = MaxAttempts
    <3> DEFINE new == [NoJob EXCEPT !.state = "waiting", !.attempts = DefaultJobOpts.attempts]
    <3>1. starts'[s] = 0 /\ job'[s] = new
      BY <1>1 DEF AddJob, TypeOK
    <3>2. new.state = "waiting" /\ new.made = 0 /\ new.stalls = 0 /\ new.attempts = MaxAttempts
      BY DEF NoJob, DefaultJobOpts
    <3> QED BY <3>1, <3>2
  <2>2. MaxAttempts \in Nat \ {0} /\ MaxStalls \in Nat
    BY ScanPipelineAssumption
  <2> QED BY <2>1, <2>2 DEF ScanIsCounted, JobIsLive
<1>2. CASE ~(s = z /\ job[z].state = "absent")
  <2>1. job'[s] = job[s] /\ starts'[s] = starts[s]
    BY <1>2 DEF AddJob, TypeOK
  <2> QED BY <1>0, <2>1, CountFrame
<1> QED BY <1>1, <1>2

LEMMA CountQueue ==
  ASSUME TypeOK, RunnerHoldsLock, StartsAreCounted, NEW z \in Scans, QueueStep(z)
  PROVE  StartsAreCounted'
<1> SUFFICES ASSUME NEW s \in Scans PROVE ScanIsCounted(s)'
  BY DEF StartsAreCounted
<1>0. ScanIsCounted(s) /\ job \in [Scans -> Job] /\ job[s] \in Job /\ starts[s] \in Nat
      /\ run \in [Runners -> Run] /\ Workers \subseteq Runners /\ MaxStalls \in Nat
      /\ MaxAttempts \in Nat
  BY ScanPipelineAssumption DEF StartsAreCounted, TypeOK, Runners
<1>1. ASSUME NEW w \in Workers, TakeJob(w, z) PROVE ScanIsCounted(s)'
  <2>1. \A v \in Workers \ {w} : run'[v] = run[v]
    BY <1>0, <1>1 DEF TakeJob
  <2>2. starts'[s] = starts[s] /\ run'[w].scan = z
    BY <1>0, <1>1 DEF TakeJob, IdleRun
  <2>3. CASE s = z
    <3>1. /\ job[s].state = "waiting" /\ job'[s].state = "active"
          /\ job'[s].made = job[s].made /\ job'[s].stalls = job[s].stalls
          /\ job'[s].attempts = job[s].attempts
      BY <1>0, <1>1, <2>3 DEF TakeJob, Job
    <3> QED BY <1>0, <2>2, <3>1 DEF ScanIsCounted, JobIsLive, Job
  <2>4. CASE s # z
    <3>1. job'[s] = job[s]
      BY <1>0, <1>1, <2>4 DEF TakeJob
    <3> QED BY <1>0, <2>1, <2>2, <2>4, <3>1, CountFrame
  <2> QED BY <2>3, <2>4
<1>2. CASE ExpireLock(z)
  <2>1. starts' = starts /\ run' = run
    BY <1>2 DEF ExpireLock
  <2>2. /\ job'[s].state = job[s].state /\ job'[s].made = job[s].made
        /\ job'[s].stalls = job[s].stalls /\ job'[s].attempts = job[s].attempts
    BY <1>0, <1>2 DEF ExpireLock, Job
  <2> QED BY <1>0, <2>1, <2>2 DEF ScanIsCounted, JobIsLive
<1>3. CASE RecoverStalledJob(z)
  <2>1. starts' = starts /\ run' = run
    BY <1>3 DEF RecoverStalledJob
  <2>2. CASE s = z
    <3>1. /\ job[s].state = "active"
          /\ job'[s].state = (IF job[s].stalls < MaxStalls THEN "waiting" ELSE "failed")
          /\ job'[s].made = job[s].made /\ job'[s].stalls = job[s].stalls + 1
          /\ job'[s].attempts = job[s].attempts
      BY <1>0, <1>3, <2>2 DEF RecoverStalledJob, Job
    <3> QED BY <1>0, <2>1, <3>1 DEF ScanIsCounted, JobIsLive, Job
  <2>3. CASE s # z
    <3>1. job'[s] = job[s]
      BY <1>0, <1>3, <2>3 DEF RecoverStalledJob
    <3> QED BY <1>0, <2>1, <3>1, CountFrame
  <2> QED BY <2>2, <2>3
<1> QED BY <1>1, <1>2, <1>3 DEF QueueStep

LEMMA CountWorker ==
  ASSUME TypeOK, RunnerHoldsLock, StartsAreCounted, NEW w \in Workers, WorkerStep(w)
  PROVE  StartsAreCounted'
<1> SUFFICES ASSUME NEW s \in Scans PROVE ScanIsCounted(s)'
  BY DEF StartsAreCounted
<1> DEFINE z == run[w].scan
<1>0. ScanIsCounted(s) /\ job \in [Scans -> Job] /\ job[s] \in Job /\ starts \in [Scans -> Nat]
      /\ run \in [Runners -> Run] /\ w \in Runners /\ Workers \subseteq Runners
      /\ MaxStalls \in Nat /\ MaxAttempts \in Nat
  BY ScanPipelineAssumption DEF StartsAreCounted, TypeOK, Runners
<1>1. run[w].pc # "idle" /\ z \in Scans /\ job[z].state = "active" /\ job[z].lock = w
  BY WorkerKeepsScan DEF RunnerHoldsLock
<1>2. \A v \in Workers \ {w} : run[v].pc # "idle" => run[v].scan # z
  BY <1>1 DEF RunnerHoldsLock
<1>3. CASE Settle(w)
  <2>1. starts' = starts /\ run'[w].pc = "idle" /\ \A v \in Workers \ {w} : run'[v] = run[v]
    BY <1>0, <1>3 DEF Settle, IdleRun
  <2>2. CASE s = z
    <3>1. job'[s] = Settled(job[s], run[w].error)
      BY <1>0, <1>1, <1>3, <2>2 DEF Settle
    <3>2. job'[s].attempts = job[s].attempts /\ job'[s].stalls = job[s].stalls
          /\ \/ job'[s].state \in {"completed", "failed"}
             \/ /\ job'[s].state = "waiting" /\ job'[s].made = job[s].made + 1
                /\ job[s].made + 1 < job[s].attempts
      BY <1>0, <3>1 DEF Settled, Job
    <3>3. starts[s] <= job[s].made + job[s].stalls + 1 /\ job[s].attempts = MaxAttempts
          /\ job[s].stalls <= MaxStalls
      BY <1>0, <1>1, <2>2 DEF ScanIsCounted, JobIsLive
    <3>4. \A v \in Workers : run'[v].pc # "idle" => run'[v].scan # s
      BY <1>2, <2>1, <2>2
    <3> QED BY <1>0, <2>1, <3>2, <3>3, <3>4 DEF ScanIsCounted, JobIsLive, Job
  <2>3. CASE s # z
    <3>1. job'[s] = job[s]
      BY <1>0, <1>3, <2>3 DEF Settle
    <3> QED BY <1>0, <2>1, <3>1, CountFrame
  <2> QED BY <2>2, <2>3
<1>4. CASE ~Settle(w)
  <2>1. UNCHANGED job /\ (\A q \in Runners : run'[q].scan = run[q].scan)
        /\ \A q \in Runners \ {w} : run'[q] = run[q]
    BY <1>4, WorkerKeepsScan
  <2>2. CASE run'[w].pc \in {"load", "mark"} /\ starts' = starts
    <3>1. run[w].pc \in {"load", "mark"}
      BY <1>0, <1>4, <2>2
      DEF WorkerStep, RunnerStep, LoadScanRow, StartProcessing, Detect, RecordResult,
          HandleProcessorError, DbError, Goto, Throw, Run
    <3> QED BY <1>0, <2>1, <2>2, <3>1, CountFrame
  <2>3. CASE run'[w].pc \notin {"load", "mark"} /\ starts' = starts
    BY <1>0, <2>1, <2>3, CountFrame
  <2>4. CASE starts' # starts
    <3>1. /\ run[w].pc = "mark" /\ starts' = [starts EXCEPT ![z] = @ + 1]
          /\ run'[w].pc = "detect"
      BY <1>0, <2>4, <1>4
      DEF WorkerStep, RunnerStep, LoadScanRow, StartProcessing, Detect, RecordResult,
          HandleProcessorError, DbError, Goto, Run
    <3>2. CASE s = z
      <4>1. starts'[s] = starts[s] + 1
        BY <1>0, <3>1, <3>2
      <4>2. starts[s] <= job[s].made + job[s].stalls
        BY <1>0, <3>1, <3>2 DEF ScanIsCounted
      <4>3. \A v \in Workers : run'[v].pc \in {"load", "mark"} => run'[v].scan # s
        BY <1>0, <1>2, <2>1, <3>1, <3>2
      <4> QED BY <1>0, <1>1, <2>1, <3>2, <4>1, <4>2, <4>3 DEF ScanIsCounted, JobIsLive, Job
    <3>3. CASE s # z
      <4>1. starts'[s] = starts[s]
        BY <1>0, <3>1, <3>3
      <4> QED BY <1>0, <2>1, <3>1, <4>1, CountFrame
    <3> QED BY <3>2, <3>3
  <2> QED BY <2>2, <2>3, <2>4
<1> QED BY <1>3, <1>4

LEMMA CountNext ==
  ASSUME QueueMode, TypeOK, RunnerHoldsLock, StartsAreCounted, [Next]_vars
  PROVE  StartsAreCounted'
<1>0. job \in [Scans -> Job] /\ run \in [Runners -> Run] /\ Workers \subseteq Runners
  BY DEF TypeOK, Runners
<1>1. ASSUME UNCHANGED <<job, run, starts>> PROVE StartsAreCounted'
  BY <1>1 DEF StartsAreCounted, ScanIsCounted, JobIsLive
<1>2. ASSUME NEW s \in Scans, DispatchScanAfterInsert(s) PROVE StartsAreCounted'
  BY <1>2, CountAdd DEF DispatchScanAfterInsert, DispatchToQueue, DispatchToTask, QueueMode
<1>3. ASSUME NEW r \in Runners, Crash(r) PROVE StartsAreCounted'
  <2> SUFFICES ASSUME NEW s \in Scans PROVE ScanIsCounted(s)'
    BY DEF StartsAreCounted
  <2>1. ScanIsCounted(s) /\ job[s] \in Job
    BY <1>0 DEF StartsAreCounted
  <2>2. starts' = starts /\ run'[r].pc = "idle" /\ \A q \in Runners \ {r} : run'[q] = run[q]
    BY <1>0, <1>3 DEF Crash, IdleRun
  <2>3. /\ job'[s].state = job[s].state /\ job'[s].made = job[s].made
        /\ job'[s].stalls = job[s].stalls /\ job'[s].attempts = job[s].attempts
    BY <1>0, <1>3, <2>1 DEF Crash, Job
  <2> QED BY <1>0, <2>1, <2>2, <2>3 DEF ScanIsCounted, JobIsLive
<1>4. ASSUME NEW a \in Admins, AdminStep(a) PROVE StartsAreCounted'
  <2>1. CASE RemoveQueueJobIfPresent(a)
    <3> SUFFICES ASSUME NEW s \in Scans PROVE ScanIsCounted(s)'
      BY DEF StartsAreCounted
    <3>1. ScanIsCounted(s) /\ starts' = starts /\ run' = run
      BY <2>1 DEF StartsAreCounted, RemoveQueueJobIfPresent
    <3>2. CASE job'[s] = job[s]
      BY <3>1, <3>2, CountFrame
    <3>3. CASE job'[s] # job[s]
      <4>1. job'[s].state = "absent" /\ job[s].lock = NoWorker
        BY <1>0, <2>1, <3>3 DEF RemoveQueueJobIfPresent, NoJob
      <4>2. \A w \in Workers : run[w].pc \in {"load", "mark"} => run[w].scan # s
        BY <4>1, ScanPipelineAssumption DEF RunnerHoldsLock
      <4> QED BY <3>1, <4>1, <4>2 DEF ScanIsCounted, JobIsLive
    <3> QED BY <3>2, <3>3
  <2>2. CASE EnqueueScanJob(a)
    BY <2>2, CountAdd DEF EnqueueScanJob, TypeOK
  <2> QED BY <1>1, <1>4, <2>1, <2>2 DEF AdminStep, StartRequeue, AssertJobNotActivelyRunning,
                                       ResetRow, AbortRequeue
<1>5. ASSUME NEW s \in Scans,
             CreateScan(s) \/ AbortDispatch(s) \/ DeleteScan(s) \/ GrowStale(s)
      PROVE  StartsAreCounted'
  BY <1>1, <1>5 DEF CreateScan, AbortDispatch, DeleteScan, GrowStale
<1> QED BY <1>1, <1>2, <1>3, <1>4, <1>5, NoDirectStep, CountQueue, CountWorker DEF Next, DirectTasks, vars

\* In queue mode, while no lock is lost, the providers are called for a job at
\* most attempts times and once more per tolerated stall.
THEOREM DetectionIsBounded ==
  ASSUME QueueMode PROVE Spec => []DetectionBudget
<1>1. TypeOK /\ RunnerHoldsLock /\ [Next]_vars => RunnerHoldsLock'
  BY LockNext
<1>2. TypeOK /\ RunnerHoldsLock /\ StartsAreCounted /\ [Next]_vars => StartsAreCounted'
  BY CountNext
<1>3. StartsAreCounted => DetectionBudget
  BY DEF StartsAreCounted, ScanIsCounted, DetectionBudget
<1> QED BY <1>1, <1>2, <1>3, TypeInit, TypeNext, LockInit, CountInit, PTL DEF Spec

-----------------------------------------------------------------------------
(* Queue mode without database failures: what the row says                  *)

\* No statement is rejected, and the queue's lock can be trusted.
ReliableQueueMode == QueueMode /\ "db_error" \notin Faults

\* The part of the invariant that is about rows.
RowInv == Uninserted /\ RunnerKeepsRowUnsettled /\ OutcomeAgreesWithStatus

\* What OutcomeAgreesWithStatus says of one row.
Agrees(r) ==
  /\ r.status = "completed" => r.completedAt /\ r.result /\ ~r.error
  /\ r.status = "failed" => r.completedAt /\ ~r.result /\ r.error
  /\ r.status = "pending" => ~r.completedAt /\ ~r.result /\ ~r.error
  /\ r.status = "processing" => ~r.result /\ ~r.error

\* Each statement leaves an agreeing row agreeing, when it is made against the
\* rows it is meant for.
LEMMA StatementsAgree ==
  ASSUME NEW r \in Row, Agrees(r), r.status \notin {"none", "deleted"}
  PROVE  /\ r.status # "completed" => Agrees(MarkProcessing(r)) /\ Agrees(MarkFailed(r))
         /\ Agrees(MarkCompleted(r)) /\ Agrees(ResetScanRowForRequeue(r))
         /\ Agrees([r EXCEPT !.stale = FALSE]) /\ Agrees([r EXCEPT !.stale = TRUE])
         /\ MarkProcessing(r).status = "processing" /\ MarkCompleted(r).status = "completed"
         /\ MarkFailed(r).status = "failed" /\ ResetScanRowForRequeue(r).status = "pending"
         /\ [r EXCEPT !.stale = FALSE].status = r.status
         /\ [r EXCEPT !.stale = TRUE].status = r.status
<1>1. /\ r.status # "completed" => Agrees(MarkProcessing(r))
      /\ MarkProcessing(r).status = "processing"
  BY DEF Agrees, Row, MarkProcessing
<1>2. /\ r.status # "completed" => Agrees(MarkFailed(r))
      /\ MarkFailed(r).status = "failed"
  BY DEF Agrees, Row, MarkFailed
<1>3. Agrees(MarkCompleted(r)) /\ MarkCompleted(r).status = "completed"
  BY DEF Agrees, Row, MarkCompleted
<1>4. Agrees(ResetScanRowForRequeue(r)) /\ ResetScanRowForRequeue(r).status = "pending"
  BY DEF Agrees, Row, ResetScanRowForRequeue
<1>5. /\ Agrees([r EXCEPT !.stale = FALSE]) /\ [r EXCEPT !.stale = FALSE].status = r.status
      /\ Agrees([r EXCEPT !.stale = TRUE]) /\ [r EXCEPT !.stale = TRUE].status = r.status
  BY DEF Agrees, Row
<1> QED BY <1>1, <1>2, <1>3, <1>4, <1>5

LEMMA AgreesEverywhere == OutcomeAgreesWithStatus <=> \A s \in Scans : Agrees(row[s])
  BY DEF OutcomeAgreesWithStatus, Agrees

LEMMA RowInit == Init => RowInv
  BY DEF Init, RowInv, Uninserted, RunnerKeepsRowUnsettled, OutcomeAgreesWithStatus,
         BlankRow, IdleRun, Runners

\* Whoever writes a row keeps the invariant if the new row agrees with its own
\* status, and is completed only if no worker is between its check and its write.
LEMMA RowWrite ==
  ASSUME TypeOK, RowInv, NEW z \in Scans,
         \A s \in Scans \ {z} : row'[s] = row[s],
         row'[z] = row[z] \/ (RowExists(z) /\ Agrees(row'[z])),
         UNCHANGED api,
         \A w \in Workers :
           run'[w].pc \in {"mark", "detect", "write", "error"} =>
             /\ run'[w].scan \in Scans
             /\ row'[run'[w].scan].status # "completed"
  PROVE  RowInv'
<1>1. Uninserted'
  BY DEF RowInv, Uninserted, RowExists
<1>2. \A s \in Scans : Agrees(row'[s])
  BY AgreesEverywhere DEF RowInv
<1>3. OutcomeAgreesWithStatus'
  BY <1>2 DEF OutcomeAgreesWithStatus, Agrees
<1> QED BY <1>1, <1>3 DEF RowInv, RunnerKeepsRowUnsettled

LEMMA RowFrame ==
  ASSUME TypeOK, RowInv, UNCHANGED <<row, api>>,
         \A w \in Workers :
           run'[w].pc \in {"mark", "detect", "write", "error"} =>
             \/ run' [w] = run[w]
             \/ run'[w].scan \in Scans /\ row[run'[w].scan].status # "completed"
  PROVE  RowInv'
  BY DEF RowInv, Uninserted, OutcomeAgreesWithStatus, RunnerKeepsRowUnsettled

LEMMA RowWorker ==
  ASSUME ReliableQueueMode, TypeOK, RunnerHoldsLock, RowInv, NEW w \in Workers, WorkerStep(w)
  PROVE  RowInv'
<1> DEFINE z == run[w].scan
<1>0. /\ row \in [Scans -> Row] /\ run \in [Runners -> Run] /\ Workers \subseteq Runners
      /\ \A s \in Scans : Agrees(row[s])
      /\ \A v \in Workers : run[v].pc # "idle" => run[v].scan \in Scans
      /\ \A v \in Workers : run[v].pc \in {"mark", "detect", "write", "error"}
                             => row[run[v].scan].status # "completed"
  BY AgreesEverywhere DEF TypeOK, Runners, RowInv, RunnerKeepsRowUnsettled
<1>1. /\ run[w].pc # "idle" /\ z \in Scans /\ row[z] \in Row /\ Agrees(row[z])
      /\ \A v \in Workers \ {w} : run[v].pc # "idle" => run[v].scan # z
  BY <1>0, WorkerKeepsScan DEF RunnerHoldsLock
\* What remains to show for a step that writes at most the row of its scan.
<1>2. ASSUME \A v \in Workers \ {w} : run'[v] = run[v],
             \A s \in Scans \ {z} : row'[s] = row[s],
             row'[z] = row[z] \/ (RowExists(z) /\ Agrees(row'[z])),
             UNCHANGED api,
             run'[w].pc \in {"mark", "detect", "write", "error"}
               => run'[w].scan = z /\ row'[z].status # "completed"
      PROVE  RowInv'
  <2>1. ASSUME NEW v \in Workers, run'[v].pc \in {"mark", "detect", "write", "error"}
        PROVE  run'[v].scan \in Scans /\ row'[run'[v].scan].status # "completed"
    <3>1. CASE v = w
      BY <1>1, <1>2, <2>1, <3>1
    <3>2. CASE v # w
      BY <1>0, <1>1, <1>2, <2>1, <3>2
    <3> QED BY <3>1, <3>2
  <2> QED BY <1>1, <1>2, <2>1, RowWrite
<1>3. CASE Settle(w)
  <2>1. (\A v \in Workers \ {w} : run'[v] = run[v]) /\ run'[w].pc = "idle" /\ UNCHANGED <<row, api>>
    BY <1>0, <1>3 DEF Settle, IdleRun
  <2> QED BY <1>2, <2>1
<1> DEFINE Frame == /\ \A v \in Workers \ {w} : run'[v] = run[v]
                    /\ run'[w].scan = z
<1>4. CASE ~Settle(w)
  <2>0. Frame
    BY <1>0, <1>4, WorkerKeepsScan
  <2>1. CASE LoadScanRow(w)
    <3>1. UNCHANGED <<row, api>> /\ (row[z].status # "completed" \/ run'[w].pc = "settle")
      BY <1>0, <2>1 DEF LoadScanRow, Goto, Throw, RowExists, ReliableQueueMode, Run
    <3> QED BY <1>2, <2>0, <3>1
  <2>2. CASE StartProcessing(w)
    <3>1. UNCHANGED api /\ UpdateRow(z, MarkProcessing(row[z])) /\ row[z].status # "completed"
      BY <1>0, <2>2 DEF StartProcessing, DbError, ReliableQueueMode
    <3>2. /\ \A s \in Scans \ {z} : row'[s] = row[s]
          /\ row'[z] = row[z] \/ (RowExists(z) /\ Agrees(row'[z]))
          /\ row'[z].status # "completed"
      BY <1>0, <1>1, <3>1, StatementsAgree DEF UpdateRow, RowExists
    <3> QED BY <1>2, <2>0, <3>1, <3>2
  <2>3. CASE Detect(w)
    <3>1. UNCHANGED api /\ row[z].status # "completed"
          /\ (UNCHANGED row \/ UpdateRow(z, [row[z] EXCEPT !.stale = FALSE]))
      BY <1>0, <2>3 DEF Detect
    <3>2. /\ \A s \in Scans \ {z} : row'[s] = row[s]
          /\ row'[z] = row[z] \/ (RowExists(z) /\ Agrees(row'[z]))
          /\ row'[z].status # "completed"
      BY <1>0, <1>1, <3>1, StatementsAgree DEF UpdateRow, RowExists
    <3> QED BY <1>2, <2>0, <3>1, <3>2
  <2>4. CASE RecordResult(w)
    <3>1. UNCHANGED api /\ UpdateRow(z, MarkCompleted(row[z])) /\ run'[w].pc = "settle"
      BY <1>0, <2>4 DEF RecordResult, DbError, ReliableQueueMode, Goto, Run
    <3>2. /\ \A s \in Scans \ {z} : row'[s] = row[s]
          /\ row'[z] = row[z] \/ (RowExists(z) /\ Agrees(row'[z]))
      BY <1>0, <1>1, <3>1, StatementsAgree DEF UpdateRow, RowExists
    <3> QED BY <1>2, <2>0, <3>1, <3>2
  <2>5. CASE HandleProcessorError(w)
    <3>1. UNCHANGED api /\ run'[w].pc = "settle" /\ row[z].status # "completed"
          /\ (UNCHANGED row \/ UpdateRow(z, MarkFailed(row[z])))
      BY <1>0, <2>5 DEF HandleProcessorError, ReliableQueueMode, Goto, Run
    <3>2. /\ \A s \in Scans \ {z} : row'[s] = row[s]
          /\ row'[z] = row[z] \/ (RowExists(z) /\ Agrees(row'[z]))
      BY <1>0, <1>1, <3>1, StatementsAgree DEF UpdateRow, RowExists
    <3> QED BY <1>2, <2>0, <3>1, <3>2
  <2> QED BY <1>4, <2>1, <2>2, <2>3, <2>4, <2>5 DEF WorkerStep, RunnerStep
<1> QED BY <1>3, <1>4

LEMMA RowNext ==
  ASSUME ReliableQueueMode, TypeOK, RunnerHoldsLock, RowInv, [Next]_vars
  PROVE  RowInv'
<1>0. /\ row \in [Scans -> Row] /\ run \in [Runners -> Run] /\ Workers \subseteq Runners
      /\ \A s \in Scans : Agrees(row[s])
      /\ \A v \in Workers : run[v].pc # "idle" => run[v].scan \in Scans
      /\ \A v \in Workers : run[v].pc \in {"mark", "detect", "write", "error"}
                             => row[run[v].scan].status # "completed"
  BY AgreesEverywhere DEF TypeOK, Runners, RowInv, RunnerKeepsRowUnsettled
\* Outside the workers a row that is not completed does not become completed.
<1>1. ASSUME UNCHANGED <<api, run>>, NEW z \in Scans,
             \A s \in Scans \ {z} : row'[s] = row[s],
             row'[z] = row[z] \/ (RowExists(z) /\ Agrees(row'[z])),
             row'[z].status = "completed" => row[z].status = "completed"
      PROVE  RowInv'
  BY <1>0, <1>1, RowWrite
<1>2. ASSUME NEW s \in Scans, CreateScan(s) PROVE RowInv'
  <2>1. row'[s] = BlankRow("pending") /\ api'[s] # "none" /\ UNCHANGED run
        /\ (\A z \in Scans \ {s} : row'[z] = row[z] /\ api'[z] = api[z])
    BY <1>0, <1>2 DEF CreateScan, TypeOK
  <2>2. Agrees(row'[s]) /\ row'[s].status = "pending"
    BY <2>1 DEF Agrees, BlankRow
  <2>3. \A z \in Scans : Agrees(row'[z])
    BY <1>0, <2>1, <2>2
  <2>4. OutcomeAgreesWithStatus'
    BY <2>3 DEF OutcomeAgreesWithStatus, Agrees
  <2>5. RunnerKeepsRowUnsettled'
    BY <1>0, <2>1, <2>2 DEF RunnerKeepsRowUnsettled
  <2>6. Uninserted'
    BY <2>1 DEF RowInv, Uninserted
  <2> QED BY <2>4, <2>5, <2>6 DEF RowInv
<1>3. ASSUME NEW s \in Scans, AbortDispatch(s) \/ DispatchScanAfterInsert(s) PROVE RowInv'
  <2>1. UNCHANGED <<row, run>> /\ \A z \in Scans : api'[z] = "none" => api[z] = "none"
    BY <1>3 DEF AbortDispatch, DispatchScanAfterInsert, DispatchToQueue, DispatchToTask,
                ReliableQueueMode, QueueMode, TypeOK
  <2> QED BY <2>1 DEF RowInv, Uninserted, OutcomeAgreesWithStatus, RunnerKeepsRowUnsettled
<1>4. ASSUME NEW s \in Scans, DeleteScan(s) PROVE RowInv'
  <2>1. Agrees(BlankRow("deleted")) /\ BlankRow("deleted").status = "deleted"
    BY DEF Agrees, BlankRow
  <2> QED BY <1>0, <1>1, <1>4, <2>1 DEF DeleteScan
<1>5. ASSUME NEW s \in Scans, GrowStale(s) PROVE RowInv'
  <2>1. row[s] \in Row /\ RowExists(s)
    BY <1>0, <1>5 DEF GrowStale, RowExists
  <2> QED BY <1>0, <1>1, <1>5, <2>1, StatementsAgree DEF GrowStale, RowExists
<1>6. ASSUME NEW s \in Scans, QueueStep(s) PROVE RowInv'
  <2>1. UNCHANGED <<row, api>>
        /\ \A v \in Workers : run'[v] = run[v] \/ run'[v].pc = "load"
    BY <1>0, <1>6 DEF QueueStep, TakeJob, ExpireLock, RecoverStalledJob, IdleRun
  <2> QED BY <2>1, RowFrame
<1>7. ASSUME NEW r \in Runners, Crash(r) PROVE RowInv'
  <2>1. UNCHANGED <<row, api>>
        /\ \A v \in Workers : run'[v] = run[v] \/ run'[v].pc = "idle"
    BY <1>0, <1>7 DEF Crash, IdleRun
  <2> QED BY <2>1, RowFrame
<1>8. ASSUME NEW a \in Admins, AdminStep(a) PROVE RowInv'
  <2>1. CASE ResetRow(a)
    <3> DEFINE z == adm[a].scan
    <3>1. z \in Scans /\ UNCHANGED <<api, run>> /\ row[z] \in Row
          /\ UpdateRow(z, ResetScanRowForRequeue(row[z]))
      BY <2>1 DEF ResetRow, TypeOK, ReliableQueueMode
    <3>2. CASE RowExists(z)
      <4>1. Agrees(ResetScanRowForRequeue(row[z]))
            /\ ResetScanRowForRequeue(row[z]).status = "pending"
        BY <1>0, <3>1, <3>2, StatementsAgree DEF RowExists
      <4>2. row'[z] = ResetScanRowForRequeue(row[z]) /\ \A s \in Scans \ {z} : row'[s] = row[s]
        BY <1>0, <3>1, <3>2 DEF UpdateRow
      <4> QED BY <1>1, <3>1, <3>2, <4>1, <4>2
    <3>3. CASE ~RowExists(z)
      BY <1>1, <3>1, <3>3 DEF UpdateRow
    <3> QED BY <3>2, <3>3
  <2>2. CASE ~ResetRow(a)
    <3>1. UNCHANGED <<row, api, run>>
      BY <1>8, <2>2 DEF AdminStep, StartRequeue, AssertJobNotActivelyRunning,
                        RemoveQueueJobIfPresent, EnqueueScanJob, AbortRequeue
    <3> QED BY <3>1, RowFrame
  <2> QED BY <2>1, <2>2
<1>9. CASE UNCHANGED vars
  BY <1>9, RowFrame DEF vars
<1> QED BY <1>2, <1>3, <1>4, <1>5, <1>6, <1>7, <1>8, <1>9, NoDirectStep, RowWorker
        DEF Next, DirectTasks, ReliableQueueMode

\* In queue mode, while no lock is lost and no statement fails, the columns a
\* user reads agree with the status, whatever crashes and operators do.
THEOREM OutcomesAgree ==
  ASSUME ReliableQueueMode PROVE Spec => []OutcomeAgreesWithStatus
<1>1. TypeOK /\ RunnerHoldsLock /\ [Next]_vars => RunnerHoldsLock'
  BY LockNext DEF ReliableQueueMode
<1>2. TypeOK /\ RunnerHoldsLock /\ RowInv /\ [Next]_vars => RowInv'
  BY RowNext
<1>3. RowInv => OutcomeAgreesWithStatus
  BY DEF RowInv
<1> QED BY <1>1, <1>2, <1>3, TypeInit, TypeNext, LockInit, RowInit, PTL DEF Spec

\* The inductive invariant that the runs check is the one proved here.
THEOREM PipelineInvariant ==
  ASSUME ReliableQueueMode PROVE Spec => []PipelineInv
<1>1. TypeOK /\ RunnerHoldsLock /\ [Next]_vars => RunnerHoldsLock'
  BY LockNext DEF ReliableQueueMode
<1>2. TypeOK /\ RunnerHoldsLock /\ StartsAreCounted /\ [Next]_vars => StartsAreCounted'
  BY CountNext DEF ReliableQueueMode
<1>3. TypeOK /\ RunnerHoldsLock /\ RowInv /\ [Next]_vars => RowInv'
  BY RowNext
<1>4. TypeOK /\ RunnerHoldsLock /\ StartsAreCounted /\ RowInv => PipelineInv
  BY DEF PipelineInv, RowInv
<1> QED BY <1>1, <1>2, <1>3, <1>4, TypeInit, TypeNext, LockInit, CountInit, RowInit, PTL
        DEF Spec

LEMMA FinalNext ==
  ASSUME ReliableQueueMode, PipelineInv, [Next]_vars
  PROVE  FinalStep
<1> SUFFICES ASSUME NEW s \in Scans, row[s].status = "completed",
                    row'[s].status \notin {"completed", "deleted"}
             PROVE  \E a \in Admins : adm[a].pc = "reset" /\ adm[a].scan = s
  BY DEF FinalStep
<1>0. /\ row \in [Scans -> Row] /\ row'[s] # row[s] /\ RunnerHoldsLock
      /\ \A v \in Workers : run[v].pc \in {"mark", "detect", "write", "error"}
                             => row[run[v].scan].status # "completed"
      /\ \A z \in Scans : api[z] = "none" => row[z].status = "none"
  BY DEF PipelineInv, TypeOK, RunnerKeepsRowUnsettled, Uninserted
<1>1. ASSUME NEW w \in Workers, WorkerStep(w) PROVE FALSE
  <2>1. ASSUME NEW new, UpdateRow(run[w].scan, new),
               run[w].pc \in {"mark", "detect", "write", "error"}
        PROVE  FALSE
    BY <1>0, <2>1 DEF UpdateRow
  <2> QED BY <1>0, <1>1, <2>1 DEF WorkerStep, RunnerStep, LoadScanRow, StartProcessing, Detect,
                                 RecordResult, Settle, HandleProcessorError, DbError
<1>2. ASSUME NEW z \in Scans,
             CreateScan(z) \/ DispatchScanAfterInsert(z) \/ AbortDispatch(z)
             \/ DeleteScan(z) \/ GrowStale(z) \/ QueueStep(z)
      PROVE  FALSE
  <2>1. CASE CreateScan(z)
    BY <1>0, <2>1 DEF CreateScan
  <2>2. CASE DeleteScan(z)
    BY <1>0, <2>2 DEF DeleteScan, BlankRow
  <2>3. CASE GrowStale(z)
    BY <1>0, <2>3 DEF GrowStale
  <2> QED BY <1>0, <1>2, <2>1, <2>2, <2>3
          DEF DispatchScanAfterInsert, AbortDispatch, QueueStep, TakeJob, ExpireLock,
              RecoverStalledJob
<1>3. ASSUME NEW r \in Runners, Crash(r) PROVE FALSE
  BY <1>0, <1>3 DEF Crash
<1>4. ASSUME NEW a \in Admins, AdminStep(a) PROVE adm[a].pc = "reset" /\ adm[a].scan = s
  BY <1>0, <1>4 DEF AdminStep, StartRequeue, AssertJobNotActivelyRunning,
                   RemoveQueueJobIfPresent, ResetRow, EnqueueScanJob, AbortRequeue, UpdateRow
<1> QED BY <1>0, <1>1, <1>2, <1>3, <1>4, NoDirectStep DEF Next, DirectTasks, vars

\* In the same setting only a request of an operator takes a scan out of
\* completed: no stalled, repeated or late run of a worker does.
THEOREM CompletedStaysFinal ==
  ASSUME ReliableQueueMode PROVE Spec => CompletedIsFinal
<1>1. PipelineInv /\ [Next]_vars => [FinalStep]_vars
  BY FinalNext
<1>2. Spec => [][FinalStep]_vars
  BY <1>1, PipelineInvariant, PTL DEF Spec
<1> QED BY <1>2 DEF CompletedIsFinal

-----------------------------------------------------------------------------
(* Queue mode without faults and with one operator at a time: no scan is    *)
(* abandoned.  Two operators may abandon one: the second resets the row     *)
(* after the job that the first one queued is done.                         *)

FaultlessQueueMode ==
  /\ Mode = "queue" /\ Faults = {}
  /\ \A a, b \in Admins : a = b

Unsettled == {"pending", "processing"}

\* An active job is in the hands of the worker that holds its lock.
JobIsHeld(s) ==
  IF job[s].state = "active"
  THEN job[s].lock \in Workers /\ Working(job[s].lock, s)
  ELSE job[s].lock = NoWorker

\* Where the row of a scan may be while the scan is with the API or in the
\* queue, and who takes care of it while it is not settled.
ScanIsPlaced(s) ==
  /\ api[s] = "none" => row[s].status = "none"
  /\ api[s] # "done" => job[s].state = "absent"
  /\ api[s] = "inserted" => row[s].status \in {"pending", "deleted"}
  /\ job[s].state = "waiting" => row[s].status \in Unsettled \union {"deleted"}
  /\ row[s].status \in Unsettled =>
       \/ JobIsLive(s)
       \/ api[s] = "inserted"
       \/ \E a \in Admins : adm[a].pc \in {"reset", "enqueue"} /\ adm[a].scan = s

\* What the worker has in memory is what Redis has, so the worker and BullMQ
\* decide alike whether the job runs again.
WorkerKnowsJob(w) ==
  /\ run[w].made = job[run[w].scan].made
  /\ run[w].attempts = job[run[w].scan].attempts
  /\ run[w].pc \in {"load", "mark", "detect", "write"} => run[w].error = "none"
  /\ run[w].pc = "error" => run[w].error # "none"

WillRun(w) == run[w].error = "plain" /\ WillRetryAfterFailure(w)

\* Where the row may be while a worker has the scan: at the end it is settled
\* unless the job runs again.
WorkerSeesRow(w) ==
  LET status == row[run[w].scan].status IN
  /\ run[w].pc \in {"load", "mark"} => status \in Unsettled \union {"deleted"}
  /\ run[w].pc \in {"detect", "write", "error"} => status \in {"processing", "deleted"}
  /\ run[w].pc = "settle" =>
       IF WillRun(w) THEN status \in {"processing", "deleted"} ELSE status \notin Unsettled

\* Where the row may be while an operator's request is on its way.
RequestSeesRow(a) ==
  LET s == adm[a].scan IN
  /\ api[s] = "done"
  /\ adm[a].pc \in {"gate", "remove", "reset"} =>
       row[s].status \in {"processing", "completed", "failed", "deleted"}
  /\ adm[a].pc \in {"reset", "enqueue"} => job[s].state = "absent"
  /\ adm[a].pc = "enqueue" => row[s].status \in {"pending", "deleted"}

Requesting(a, s) == adm[a].pc # "idle" /\ adm[a].scan = s

InPlace(s) ==
  /\ JobIsHeld(s) /\ ScanIsPlaced(s)
  /\ \A w \in Workers : Working(w, s) => WorkerKnowsJob(w) /\ WorkerSeesRow(w)
  /\ \A a \in Admins : Requesting(a, s) => RequestSeesRow(a)

PlaceInv == \A s \in Scans : InPlace(s)

\* A step that does not concern a scan leaves it in place.
LEMMA PlaceFrame ==
  ASSUME NEW s \in Scans, InPlace(s),
         row'[s].status = row[s].status, job'[s] = job[s], api'[s] = api[s],
         \A w \in Workers : Working(w, s) \/ Working(w, s)' => run'[w] = run[w],
         \A a \in Admins : Requesting(a, s) \/ Requesting(a, s)' => adm'[a] = adm[a]
  PROVE  InPlace(s)'
<1>1. JobIsHeld(s)'
  BY DEF InPlace, JobIsHeld, Working
<1>2. ScanIsPlaced(s)'
  BY DEF InPlace, ScanIsPlaced, JobIsLive, Requesting
<1>3. ASSUME NEW w \in Workers, Working(w, s)' PROVE WorkerKnowsJob(w)' /\ WorkerSeesRow(w)'
  BY <1>3 DEF InPlace, Working, WorkerKnowsJob, WorkerSeesRow, WillRun, WillRetryAfterFailure
<1>4. ASSUME NEW a \in Admins, Requesting(a, s)' PROVE RequestSeesRow(a)'
  BY <1>4 DEF InPlace, Requesting, RequestSeesRow
<1> QED BY <1>1, <1>2, <1>3, <1>4 DEF InPlace

LEMMA PlaceInit == Init => PlaceInv
<1> SUFFICES ASSUME Init, NEW s \in Scans PROVE InPlace(s)
  BY DEF PlaceInv
<1>1. /\ row[s].status = "none" /\ job[s].state = "absent" /\ job[s].lock = NoWorker
      /\ api[s] = "none"
      /\ \A w \in Workers : run[w].pc = "idle"
      /\ \A a \in Admins : adm[a].pc = "idle"
  BY DEF Init, BlankRow, NoJob, IdleRun, IdleAdmin, Runners
<1> QED BY <1>1 DEF InPlace, JobIsHeld, ScanIsPlaced, Working, Requesting, Unsettled, JobIsLive

\* The requests of users, and time.
LEMMA PlaceUser ==
  ASSUME FaultlessQueueMode, TypeOK, RunnerHoldsLock, PlaceInv, NEW z \in Scans,
         CreateScan(z) \/ DispatchScanAfterInsert(z) \/ DeleteScan(z) \/ GrowStale(z)
  PROVE  PlaceInv'
<1> SUFFICES ASSUME NEW s \in Scans PROVE InPlace(s)'
  BY DEF PlaceInv
<1>0. /\ InPlace(s) /\ row \in [Scans -> Row] /\ job \in [Scans -> Job]
      /\ api \in [Scans -> {"none", "inserted", "done"}]
  BY DEF PlaceInv, TypeOK
<1>1. UNCHANGED <<run, adm>>
  BY DEF CreateScan, DispatchScanAfterInsert, DispatchToQueue, DispatchToTask, DeleteScan,
         GrowStale, FaultlessQueueMode
<1>2. CASE s # z
  <2>1. row'[s] = row[s] /\ job'[s] = job[s] /\ api'[s] = api[s]
    BY <1>0, <1>2 DEF CreateScan, DispatchScanAfterInsert, DispatchToQueue, DispatchToTask,
         DeleteScan, GrowStale, FaultlessQueueMode, AddJob
  <2> QED BY <1>0, <1>1, <2>1, PlaceFrame
<1>3. CASE s = z /\ CreateScan(z)
  <2>1. /\ api[s] = "none" /\ api'[s] = "inserted" /\ job'[s] = job[s]
        /\ row'[s].status = "pending"
    BY <1>0, <1>3 DEF CreateScan, BlankRow
  <2>2. /\ job[s].state = "absent" /\ job[s].lock = NoWorker
        /\ row[s].status = "none"
        /\ \A a \in Admins : ~Requesting(a, s)
    BY <1>0, <2>1 DEF InPlace, ScanIsPlaced, JobIsHeld, RequestSeesRow, Requesting
  <2>3. \A w \in Workers : ~Working(w, s)
    BY <2>2 DEF RunnerHoldsLock, Working
  <2> QED BY <1>1, <2>1, <2>2, <2>3
          DEF InPlace, JobIsHeld, ScanIsPlaced, Working, Requesting, Unsettled, JobIsLive
<1>4. CASE s = z /\ DispatchScanAfterInsert(z)
  <2>1. api[s] = "inserted" /\ api'[s] = "done" /\ UNCHANGED row /\ AddJob(s)
    BY <1>0, <1>4 DEF DispatchScanAfterInsert, DispatchToQueue, DispatchToTask, FaultlessQueueMode
  <2>2. /\ job[s].state = "absent" /\ row[s].status \in {"pending", "deleted"}
        /\ \A a \in Admins : ~Requesting(a, s)
    BY <1>0, <2>1 DEF InPlace, ScanIsPlaced, RequestSeesRow, Requesting
  <2>3. \A w \in Workers : ~Working(w, s)
    BY <2>2 DEF RunnerHoldsLock, Working
  <2>4. job'[s].state = "waiting" /\ job'[s].lock = NoWorker
    BY <1>0, <2>1, <2>2 DEF AddJob, NoJob
  <2> QED BY <1>1, <2>1, <2>2, <2>3, <2>4
          DEF InPlace, JobIsHeld, ScanIsPlaced, Working, Requesting, Unsettled, JobIsLive
<1>5. CASE s = z /\ DeleteScan(z)
  <2>1. /\ row[s].status # "none" /\ row'[s].status = "deleted"
        /\ job'[s] = job[s] /\ api'[s] = api[s]
    BY <1>0, <1>5 DEF DeleteScan, RowExists, BlankRow
  <2>2. JobIsHeld(s)' /\ ScanIsPlaced(s)'
    BY <1>0, <1>1, <2>1 DEF InPlace, JobIsHeld, ScanIsPlaced, Working, Unsettled
  <2>3. ASSUME NEW w \in Workers, Working(w, s)' PROVE WorkerKnowsJob(w)' /\ WorkerSeesRow(w)'
    BY <1>0, <1>1, <2>1, <2>3
    DEF InPlace, Working, WorkerKnowsJob, WorkerSeesRow, Unsettled
  <2>4. ASSUME NEW a \in Admins, Requesting(a, s)' PROVE RequestSeesRow(a)'
    BY <1>0, <1>1, <2>1, <2>4 DEF InPlace, Requesting, RequestSeesRow
  <2> QED BY <2>2, <2>3, <2>4 DEF InPlace
<1>6. CASE s = z /\ GrowStale(z)
  <2>1. row'[s].status = row[s].status /\ job'[s] = job[s] /\ api'[s] = api[s]
    BY <1>0, <1>6 DEF GrowStale, Row
  <2> QED BY <1>0, <1>1, <2>1, PlaceFrame
<1> QED BY <1>2, <1>3, <1>4, <1>5, <1>6

\* BullMQ: without faults a job is taken, and never stalls.
LEMMA PlaceQueue ==
  ASSUME FaultlessQueueMode, TypeOK, RunnerHoldsLock, PlaceInv, NEW z \in Scans, QueueStep(z)
  PROVE  PlaceInv'
<1> SUFFICES ASSUME NEW s \in Scans PROVE InPlace(s)'
  BY DEF PlaceInv
<1>0. /\ InPlace(s) /\ InPlace(z) /\ job \in [Scans -> Job] /\ run \in [Runners -> Run]
      /\ Workers \subseteq Runners
  BY DEF PlaceInv, TypeOK, Runners
<1>1. ~ExpireLock(z) /\ ~RecoverStalledJob(z)
  BY <1>0, ScanPipelineAssumption
  DEF ExpireLock, RecoverStalledJob, FaultlessQueueMode, InPlace, JobIsHeld
<1>2. PICK w \in Workers : TakeJob(w, z)
  BY <1>1 DEF QueueStep
<1>3. /\ run[w].pc = "idle" /\ UNCHANGED <<row, api, adm>>
      /\ \A v \in Workers \ {w} : run'[v] = run[v]
      /\ \A y \in Scans \ {z} : job'[y] = job[y]
  BY <1>0, <1>2 DEF TakeJob
<1>4. /\ run'[w].pc = "load" /\ run'[w].scan = z /\ run'[w].error = "none"
      /\ run'[w].made = job[z].made /\ run'[w].attempts = job[z].attempts
  BY <1>0, <1>2 DEF TakeJob, IdleRun
<1>5. /\ job[z].state = "waiting" /\ job'[z].state = "active" /\ job'[z].lock = w
      /\ job'[z].made = job[z].made /\ job'[z].attempts = job[z].attempts
  BY <1>0, <1>2 DEF TakeJob, Job
<1>6. CASE s # z
  BY <1>0, <1>3, <1>4, <1>6, PlaceFrame DEF Working, Requesting
<1>7. CASE s = z
  <2>1. row[s].status \in Unsettled \union {"deleted"} /\ api[s] = "done"
    BY <1>0, <1>5, <1>7 DEF InPlace, ScanIsPlaced
  <2>2. \A v \in Workers : ~Working(v, s)
    BY <1>5, <1>7 DEF RunnerHoldsLock, Working
  <2>3. JobIsHeld(s)'
    BY <1>4, <1>5, <1>7 DEF JobIsHeld, Working
  <2>4. ScanIsPlaced(s)'
    BY <1>3, <1>5, <1>7, <2>1 DEF ScanIsPlaced, JobIsLive, Unsettled
  <2>5. ASSUME NEW v \in Workers, Working(v, s)' PROVE WorkerKnowsJob(v)' /\ WorkerSeesRow(v)'
    <3>1. v = w
      BY <1>3, <2>2, <2>5 DEF Working
    <3> QED BY <1>3, <1>4, <1>5, <1>7, <2>1, <3>1 DEF WorkerKnowsJob, WorkerSeesRow
  <2>6. ASSUME NEW a \in Admins, Requesting(a, s)' PROVE RequestSeesRow(a)'
    BY <1>0, <1>3, <1>5, <1>7, <2>6 DEF InPlace, Requesting, RequestSeesRow
  <2> QED BY <2>3, <2>4, <2>5, <2>6 DEF InPlace
<1> QED BY <1>6, <1>7

\* A worker that goes on with its scan leaves it in place when it has written
\* what its own place calls for.
LEMMA PlaceKept ==
  ASSUME RunnerHoldsLock, NEW w \in Workers, NEW z \in Scans, InPlace(z), Working(w, z),
         job'[z] = job[z], api'[z] = api[z], UNCHANGED adm,
         \A v \in Workers \ {w} : run'[v] = run[v],
         Working(w, z)', WorkerKnowsJob(w)', WorkerSeesRow(w)',
         \/ row'[z].status = row[z].status
         \/ row'[z].status \in {"processing", "completed", "failed"}
  PROVE  InPlace(z)'
<1>1. job[z].state = "active" /\ job[z].lock = w /\ api[z] = "done"
  BY DEF RunnerHoldsLock, Working, InPlace, ScanIsPlaced
<1>2. JobIsHeld(z)' /\ ScanIsPlaced(z)'
  BY <1>1 DEF JobIsHeld, ScanIsPlaced, JobIsLive
<1>3. ASSUME NEW v \in Workers, Working(v, z)' PROVE v = w
  BY <1>1, <1>3 DEF RunnerHoldsLock, Working
<1>4. ASSUME NEW a \in Admins, Requesting(a, z)' PROVE RequestSeesRow(a)'
  BY <1>1, <1>4 DEF InPlace, Requesting, RequestSeesRow
<1> QED BY <1>2, <1>3, <1>4 DEF InPlace

LEMMA PlaceWorker ==
  ASSUME FaultlessQueueMode, TypeOK, RunnerHoldsLock, PlaceInv, NEW w \in Workers, WorkerStep(w)
  PROVE  PlaceInv'
<1> SUFFICES ASSUME NEW s \in Scans PROVE InPlace(s)'
  BY DEF PlaceInv
<1> DEFINE z == run[w].scan
<1>0. /\ job \in [Scans -> Job] /\ run \in [Runners -> Run] /\ row \in [Scans -> Row]
      /\ w \in Runners /\ Workers \subseteq Runners
  BY DEF TypeOK, Runners
<1>1. /\ run[w].pc # "idle" /\ z \in Scans /\ Working(w, z)
      /\ job[z].state = "active" /\ job[z].lock = w
      /\ \A v \in Workers \ {w} : ~Working(v, z)
  BY WorkerKeepsScan DEF RunnerHoldsLock, Working
<1>2. /\ UNCHANGED <<api, adm>>
      /\ \A v \in Workers \ {w} : run'[v] = run[v]
      /\ \A y \in Scans \ {z} : row'[y] = row[y] /\ job'[y] = job[y]
      /\ run'[w].pc # "idle" => run'[w].scan = z
  <2>1. UNCHANGED <<api, adm>> /\ \A y \in Scans \ {z} : row'[y] = row[y] /\ job'[y] = job[y]
    BY <1>0 DEF WorkerStep, RunnerStep, LoadScanRow, StartProcessing, Detect, RecordResult,
                Settle, HandleProcessorError, DbError, UpdateRow
  <2>2. CASE Settle(w)
    BY <1>0, <2>1, <2>2 DEF Settle, IdleRun
  <2>3. CASE ~Settle(w)
    BY <1>0, <2>1, <2>3, WorkerKeepsScan
  <2> QED BY <2>2, <2>3
<1>3. InPlace(s) /\ InPlace(z)
  BY <1>1 DEF PlaceInv
<1>4. CASE s # z
  <2>1. row'[s] = row[s] /\ job'[s] = job[s] /\ api'[s] = api[s] /\ UNCHANGED adm
    BY <1>2, <1>4
  <2>2. \A v \in Workers : Working(v, s) \/ Working(v, s)' => run'[v] = run[v]
    BY <1>1, <1>2, <1>4 DEF Working
  <2> QED BY <1>3, <2>1, <2>2, PlaceFrame
<1>5. WorkerKnowsJob(w) /\ WorkerSeesRow(w)
  BY <1>1, <1>3 DEF InPlace
<1>6. CASE s = z /\ Settle(w)
  <2>1. /\ run[w].pc = "settle" /\ row' = row /\ run'[w].pc = "idle"
        /\ job'[z] = Settled(job[z], run[w].error)
    BY <1>0, <1>1, <1>6 DEF Settle, IdleRun
  <2>2. /\ job'[z].lock = NoWorker
        /\ job'[z].state = IF WillRun(w) THEN "waiting"
                           ELSE IF run[w].error = "none" THEN "completed" ELSE "failed"
    <3>1. run[w].made = job[z].made /\ run[w].attempts = job[z].attempts
      BY <1>5 DEF WorkerKnowsJob
    <3> QED BY <1>0, <1>1, <2>1, <3>1 DEF Settled, WillRun, WillRetryAfterFailure, Job
  <2>3. IF WillRun(w) THEN row[z].status \in {"processing", "deleted"}
                      ELSE row[z].status \notin Unsettled
    BY <1>5, <2>1 DEF WorkerSeesRow
  <2>4. api[z] = "done" /\ \A v \in Workers : ~Working(v, s)'
    BY <1>1, <1>2, <1>3, <1>6, <2>1 DEF InPlace, ScanIsPlaced, Working
  <2>5. JobIsHeld(s)' /\ ScanIsPlaced(s)'
    BY <1>2, <1>6, <2>1, <2>2, <2>3, <2>4 DEF JobIsHeld, ScanIsPlaced, JobIsLive, Unsettled
  <2>6. ASSUME NEW a \in Admins, Requesting(a, s)' PROVE RequestSeesRow(a)'
    BY <1>1, <1>2, <1>3, <1>6, <2>1, <2>6 DEF InPlace, Requesting, RequestSeesRow
  <2> QED BY <1>6, <2>4, <2>5, <2>6 DEF InPlace
<1>7. CASE s = z /\ ~Settle(w)
  <2>0. job' = job /\ run'[w].scan = z
    BY <1>0, <1>7, WorkerKeepsScan
  <2>1. /\ run[w].made = job[z].made /\ run[w].attempts = job[z].attempts
        /\ run[w].pc \in {"load", "mark", "detect", "write"} => run[w].error = "none"
        /\ run[w].pc = "error" => run[w].error # "none"
    BY <1>5 DEF WorkerKnowsJob
\* What remains to show: the place the worker goes to fits the row it wrote.
  <2>2. ASSUME run'[w].pc # "idle", run'[w].made = run[w].made,
               run'[w].attempts = run[w].attempts,
               run'[w].pc \in {"load", "mark", "detect", "write"} => run'[w].error = "none",
               run'[w].pc = "error" => run'[w].error # "none",
               WorkerSeesRow(w)',
               \/ row'[z].status = row[z].status
               \/ row'[z].status \in {"processing", "completed", "failed"}
        PROVE  InPlace(s)'
    <3>1. Working(w, z)' /\ WorkerKnowsJob(w)'
      BY <2>0, <2>1, <2>2 DEF Working, WorkerKnowsJob
    <3> QED BY <1>1, <1>2, <1>3, <1>7, <2>0, <2>2, <3>1, PlaceKept
  <2>3. CASE LoadScanRow(w)
    <3>1. row' = row /\ row[z].status \in Unsettled \union {"deleted"} /\ run[w].error = "none"
      BY <1>5, <2>1, <2>3 DEF LoadScanRow, WorkerSeesRow
    <3>2. /\ run'[w].made = run[w].made /\ run'[w].attempts = run[w].attempts
          /\ \/ run'[w].pc = "error" /\ run'[w].error = "unrecoverable" /\ row[z].status = "deleted"
             \/ run'[w].pc = "mark" /\ run'[w].error = "none"
      BY <1>0, <2>3, <3>1
      DEF LoadScanRow, Goto, Throw, RowExists, FaultlessQueueMode, Unsettled, Run
    <3>3. WorkerSeesRow(w)'
      BY <2>0, <3>1, <3>2 DEF WorkerSeesRow
    <3> QED BY <2>2, <3>1, <3>2, <3>3
  <2>4. CASE StartProcessing(w)
    <3>1. /\ UpdateRow(z, MarkProcessing(row[z])) /\ Goto(w, "detect")
          /\ row[z].status \in Unsettled \union {"deleted"} /\ run[w].error = "none"
      BY <1>5, <2>1, <2>4 DEF StartProcessing, DbError, FaultlessQueueMode, WorkerSeesRow
    <3>2. row'[z].status = IF row[z].status = "deleted" THEN "deleted" ELSE "processing"
      BY <1>0, <1>1, <3>1 DEF UpdateRow, MarkProcessing, RowExists, Row, Unsettled
    <3>3. /\ run'[w].made = run[w].made /\ run'[w].attempts = run[w].attempts
          /\ run'[w].pc = "detect" /\ run'[w].error = "none"
      BY <1>0, <3>1 DEF Goto, Run
    <3>4. WorkerSeesRow(w)'
      BY <2>0, <3>2, <3>3 DEF WorkerSeesRow
    <3> QED BY <2>2, <3>2, <3>3, <3>4
  <2>5. CASE Detect(w)
    <3>1. row[z].status \in {"processing", "deleted"} /\ run[w].error = "none"
      BY <1>5, <2>1, <2>5 DEF Detect, WorkerSeesRow
    <3>2. row'[z].status = row[z].status
      BY <1>0, <1>1, <2>5 DEF Detect, UpdateRow, Row
    <3>3. /\ run'[w].made = run[w].made /\ run'[w].attempts = run[w].attempts
          /\ \/ run'[w].pc = "error" /\ run'[w].error # "none"
             \/ run'[w].pc = "write" /\ run'[w].error = "none"
      BY <1>0, <2>5, <3>1 DEF Detect, Goto, Throw, Run
    <3>4. WorkerSeesRow(w)'
      BY <2>0, <3>1, <3>2, <3>3 DEF WorkerSeesRow
    <3> QED BY <2>2, <3>2, <3>3, <3>4
  <2>6. CASE RecordResult(w)
    <3>1. /\ UpdateRow(z, MarkCompleted(row[z])) /\ Goto(w, "settle")
          /\ row[z].status \in {"processing", "deleted"} /\ run[w].error = "none"
      BY <1>5, <2>1, <2>6 DEF RecordResult, DbError, FaultlessQueueMode, WorkerSeesRow
    <3>2. row'[z].status = IF row[z].status = "deleted" THEN "deleted" ELSE "completed"
      BY <1>0, <1>1, <3>1 DEF UpdateRow, MarkCompleted, RowExists, Row
    <3>3. /\ run'[w].made = run[w].made /\ run'[w].attempts = run[w].attempts
          /\ run'[w].pc = "settle" /\ run'[w].error = "none"
      BY <1>0, <3>1 DEF Goto, Run
    <3>4. WorkerSeesRow(w)'
      BY <2>0, <3>2, <3>3 DEF WorkerSeesRow, WillRun, Unsettled
    <3> QED BY <2>2, <3>2, <3>3, <3>4
  <2>7. CASE HandleProcessorError(w)
    <3>1. /\ row[z].status \in {"processing", "deleted"} /\ Goto(w, "settle")
          /\ IF WillRun(w) THEN UNCHANGED row ELSE UpdateRow(z, MarkFailed(row[z]))
      BY <1>5, <2>7 DEF HandleProcessorError, FaultlessQueueMode, WorkerSeesRow, WillRun
    <3>2. /\ run'[w].made = run[w].made /\ run'[w].attempts = run[w].attempts
          /\ run'[w].pc = "settle" /\ run'[w].error = run[w].error
      BY <1>0, <3>1 DEF Goto, Run
    <3>3. /\ WillRun(w) => row'[z].status = row[z].status
          /\ ~WillRun(w) => row'[z].status = IF row[z].status = "deleted" THEN "deleted" ELSE "failed"
      <4>1. CASE WillRun(w)
        BY <3>1, <4>1
      <4>2. CASE ~WillRun(w)
        <5>1. UpdateRow(z, MarkFailed(row[z]))
          BY <3>1, <4>2
        <5>2. row'[z].status = IF row[z].status = "deleted" THEN "deleted" ELSE "failed"
          BY <1>0, <1>1, <3>1, <5>1 DEF UpdateRow, MarkFailed, RowExists, Row
        <5> QED BY <4>2, <5>2
      <4> QED BY <4>1, <4>2
    <3>4. WillRun(w)' <=> WillRun(w)
      BY <3>2 DEF WillRun, WillRetryAfterFailure
    <3>5. WorkerSeesRow(w)'
      BY <2>0, <3>1, <3>2, <3>3, <3>4 DEF WorkerSeesRow, Unsettled
    <3> QED BY <2>2, <3>2, <3>3, <3>5
  <2> QED BY <1>7, <2>3, <2>4, <2>5, <2>6, <2>7 DEF WorkerStep, RunnerStep
<1> QED BY <1>4, <1>6, <1>7

\* The requests of the one operator.
LEMMA PlaceAdmin ==
  ASSUME FaultlessQueueMode, TypeOK, RunnerHoldsLock, PlaceInv, NEW a \in Admins, AdminStep(a)
  PROVE  PlaceInv'
<1> SUFFICES ASSUME NEW s \in Scans PROVE InPlace(s)'
  BY DEF PlaceInv
<1>0. /\ job \in [Scans -> Job] /\ row \in [Scans -> Row] /\ adm \in [Admins -> Admin]
      /\ InPlace(s) /\ \A b \in Admins : b = a
      /\ NoScan \notin Scans
  BY ScanPipelineAssumption DEF TypeOK, PlaceInv, FaultlessQueueMode
<1>1. UNCHANGED <<api, run>>
  BY DEF AdminStep, StartRequeue, AssertJobNotActivelyRunning, RemoveQueueJobIfPresent, ResetRow,
         EnqueueScanJob, AbortRequeue
\* A scan that is not the one of the request.
<1>2. ASSUME row'[s] = row[s], job'[s] = job[s], ~Requesting(a, s), ~Requesting(a, s)'
      PROVE  InPlace(s)'
  BY <1>0, <1>1, <1>2, PlaceFrame
<1>3. ASSUME NEW y \in Scans, NEW kind, StartRequeue(a, y, kind) PROVE InPlace(s)'
  <2>1. /\ adm[a].pc = "idle" /\ adm'[a].pc = "gate" /\ adm'[a].scan = y
        /\ UNCHANGED <<row, job>>
    BY <1>0, <1>3 DEF StartRequeue
  <2>2. CASE s # y
    BY <1>2, <2>1, <2>2 DEF Requesting
  <2>3. CASE s = y
    <3>1. row[s].status \in {"processing", "completed", "failed"}
      BY <1>3, <2>3 DEF StartRequeue, MayRetry, MayResetStuck
    <3>2. api[s] = "done"
      BY <1>0, <3>1 DEF InPlace, ScanIsPlaced, TypeOK
    <3>3. JobIsHeld(s)' /\ ScanIsPlaced(s)'
      BY <1>0, <1>1, <2>1, <3>1, <3>2
      DEF InPlace, JobIsHeld, ScanIsPlaced, JobIsLive, Working, Unsettled
    <3>4. ASSUME NEW w \in Workers, Working(w, s)' PROVE WorkerKnowsJob(w)' /\ WorkerSeesRow(w)'
      BY <1>0, <1>1, <2>1, <3>4
      DEF InPlace, Working, WorkerKnowsJob, WorkerSeesRow, WillRun, WillRetryAfterFailure
    <3>5. RequestSeesRow(a)'
      BY <1>1, <2>1, <2>3, <3>1, <3>2 DEF RequestSeesRow
    <3> QED BY <1>0, <3>3, <3>4, <3>5 DEF InPlace
  <2> QED BY <2>2, <2>3
<1>4. CASE \A y \in Scans, kind \in {"retry", "retry_completed", "reset_stuck"} :
             ~StartRequeue(a, y, kind)
  <2>0. adm[a].pc # "idle" /\ adm[a].scan \in Scans
    BY <1>4 DEF AdminStep, AssertJobNotActivelyRunning, RemoveQueueJobIfPresent, ResetRow,
                EnqueueScanJob, AbortRequeue, TypeOK
  <2> DEFINE z == adm[a].scan
  <2>1. CASE s # z
    <3>1. row'[s] = row[s] /\ job'[s] = job[s]
      BY <1>0, <1>4, <2>0, <2>1
      DEF AdminStep, AssertJobNotActivelyRunning, RemoveQueueJobIfPresent, ResetRow,
          EnqueueScanJob, AbortRequeue, UpdateRow, AddJob
    <3>2. adm'[a].scan = z \/ adm'[a] = IdleAdmin
      BY <1>0, <1>4
      DEF AdminStep, AssertJobNotActivelyRunning, RemoveQueueJobIfPresent, ResetRow,
          EnqueueScanJob, AbortRequeue, AdminGoto, EndRequest, Admin
    <3> QED BY <1>2, <2>1, <3>1, <3>2 DEF Requesting, IdleAdmin
  <2>2. CASE s = z
    <3>0. /\ RequestSeesRow(a) /\ api[s] = "done" /\ api'[s] = "done"
          /\ JobIsHeld(s) /\ ScanIsPlaced(s)
          /\ \A w \in Workers : Working(w, s) => WorkerKnowsJob(w) /\ WorkerSeesRow(w)
          /\ \A w \in Workers : Working(w, s) => job[s].state = "active"
      BY <1>0, <1>1, <2>0, <2>2
      DEF InPlace, Requesting, RequestSeesRow, RunnerHoldsLock, Working
\* A step that leaves the row and the job alone and does not end before the reset.
    <3>1. ASSUME UNCHANGED <<row, job>>, adm[a].pc \notin {"reset", "enqueue"},
                 adm'[a] = IdleAdmin \/ (adm'[a].pc = "remove" /\ adm'[a].scan = s)
          PROVE  InPlace(s)'
      <4>1. ScanIsPlaced(s)'
        BY <1>0, <1>1, <3>0, <3>1 DEF ScanIsPlaced, JobIsLive
      <4>2. JobIsHeld(s)' /\ \A w \in Workers : Working(w, s)' => WorkerKnowsJob(w)' /\ WorkerSeesRow(w)'
        BY <1>1, <3>0, <3>1
        DEF JobIsHeld, Working, WorkerKnowsJob, WorkerSeesRow, WillRun, WillRetryAfterFailure
      <4>3. Requesting(a, s)' => RequestSeesRow(a)'
        <5>1. adm[a].pc \in {"gate", "remove"}
          BY <1>0, <2>0, <3>1 DEF Admin
        <5> QED BY <1>1, <2>2, <3>0, <3>1, <5>1 DEF Requesting, RequestSeesRow, IdleAdmin
      <4> QED BY <1>0, <4>1, <4>2, <4>3 DEF InPlace
\* A step after which the scan has no worker and no active job.
    <3>2. ASSUME \A w \in Workers : ~Working(w, s), job'[s].state # "active",
                 job'[s].lock = NoWorker,
                 ScanIsPlaced(s)', Requesting(a, s)' => RequestSeesRow(a)'
          PROVE  InPlace(s)'
      BY <1>0, <1>1, <3>2 DEF InPlace, JobIsHeld, Working
    <3>3. CASE AssertJobNotActivelyRunning(a)
      BY <1>0, <2>2, <3>1, <3>3 DEF AssertJobNotActivelyRunning, AdminGoto, EndRequest, Admin
    <3>4. CASE RemoveQueueJobIfPresent(a)
      <4>1. CASE job[s].lock # NoWorker
        BY <1>0, <2>2, <3>1, <3>4, <4>1 DEF RemoveQueueJobIfPresent, EndRequest
      <4>2. CASE job[s].lock = NoWorker
        <5>1. /\ adm[a].pc = "remove" /\ adm'[a].pc = "reset" /\ adm'[a].scan = s
              /\ row' = row /\ job'[s].state = "absent" /\ job'[s].lock = NoWorker
          BY <1>0, <2>2, <3>4, <4>2 DEF RemoveQueueJobIfPresent, AdminGoto, NoJob, Admin
        <5>2. \A w \in Workers : ~Working(w, s)
          BY <3>0, <4>2, ScanPipelineAssumption DEF JobIsHeld
        <5>3. row[s].status \in {"processing", "completed", "failed", "deleted"}
          BY <2>2, <3>0, <5>1 DEF RequestSeesRow
        <5>4. ScanIsPlaced(s)' /\ RequestSeesRow(a)'
          BY <3>0, <5>1, <5>3 DEF ScanIsPlaced, RequestSeesRow
        <5> QED BY <3>2, <5>1, <5>2, <5>4
      <4> QED BY <4>1, <4>2
    <3>5. CASE ResetRow(a)
      <4>1. /\ adm[a].pc = "reset" /\ adm'[a].pc = "enqueue" /\ adm'[a].scan = s
            /\ UpdateRow(s, ResetScanRowForRequeue(row[s])) /\ job' = job
        BY <1>0, <2>2, <3>5 DEF ResetRow, AdminGoto, FaultlessQueueMode, Admin
      <4>2. /\ job[s].state = "absent"
            /\ row[s].status \in {"processing", "completed", "failed", "deleted"}
        BY <2>2, <3>0, <4>1 DEF RequestSeesRow
      <4>3. row'[s].status \in {"pending", "deleted"}
        BY <1>0, <4>1, <4>2 DEF UpdateRow, ResetScanRowForRequeue, RowExists, Row
      <4>4. (\A w \in Workers : ~Working(w, s)) /\ job'[s].lock = NoWorker
        BY <3>0, <4>1, <4>2 DEF JobIsHeld
      <4>5. ScanIsPlaced(s)' /\ RequestSeesRow(a)'
        BY <3>0, <4>1, <4>2, <4>3 DEF ScanIsPlaced, RequestSeesRow
      <4> QED BY <3>2, <4>1, <4>2, <4>4, <4>5
    <3>6. CASE EnqueueScanJob(a)
      <4>1. /\ adm[a].pc = "enqueue" /\ adm'[a].pc = "idle" /\ AddJob(s) /\ row' = row
        BY <1>0, <2>2, <3>6 DEF EnqueueScanJob, EndRequest, IdleAdmin
      <4>2. job[s].state = "absent" /\ row[s].status \in {"pending", "deleted"}
        BY <2>2, <3>0, <4>1 DEF RequestSeesRow
      <4>3. job'[s].state = "waiting" /\ job'[s].lock = NoWorker
        BY <1>0, <4>1, <4>2 DEF AddJob, NoJob
      <4>4. \A w \in Workers : ~Working(w, s)
        BY <3>0, <4>2
      <4>5. ScanIsPlaced(s)'
        BY <3>0, <4>1, <4>2, <4>3 DEF ScanIsPlaced, JobIsLive, Unsettled
      <4> QED BY <3>2, <4>1, <4>3, <4>4, <4>5 DEF Requesting
    <3> QED BY <1>4, <3>3, <3>4, <3>5, <3>6 DEF AdminStep, AbortRequeue, FaultlessQueueMode
  <2> QED BY <2>1, <2>2
<1> QED BY <1>3, <1>4

LEMMA PlaceNext ==
  ASSUME FaultlessQueueMode, TypeOK, RunnerHoldsLock, PlaceInv, [Next]_vars
  PROVE  PlaceInv'
<1>1. CASE UNCHANGED vars
  BY <1>1, PlaceFrame DEF vars, PlaceInv
<1>2. \A s \in Scans : ~AbortDispatch(s)
  BY DEF AbortDispatch, FaultlessQueueMode
<1>3. \A r \in Runners : ~Crash(r)
  BY DEF Crash, FaultlessQueueMode
<1> QED BY <1>1, <1>2, <1>3, PlaceUser, PlaceQueue, PlaceWorker, PlaceAdmin
        DEF Next, DirectTasks, FaultlessQueueMode

LEMMA PlaceAttends == PlaceInv => NoScanAbandoned
<1> SUFFICES ASSUME PlaceInv, NEW s \in Scans, row[s].status \in {"pending", "processing"}
             PROVE  Attended(s)
  BY DEF NoScanAbandoned, Abandoned
<1> QED BY DEF PlaceInv, InPlace, ScanIsPlaced, Unsettled, Attended

\* In queue mode without faults and with one operator at a time, no scan is
\* ever left unsettled with nobody to act on it: the worker's decision to leave
\* a row in processing is BullMQ's decision to run the job again, and a requeue
\* never finds an old job in the way of the new one.
THEOREM NoneAbandoned ==
  ASSUME FaultlessQueueMode PROVE Spec => []NoScanAbandoned
<1>0. QueueMode
  BY DEF FaultlessQueueMode, QueueMode
<1>1. TypeOK /\ RunnerHoldsLock /\ [Next]_vars => RunnerHoldsLock'
  BY <1>0, LockNext
<1>2. TypeOK /\ RunnerHoldsLock /\ PlaceInv /\ [Next]_vars => PlaceInv'
  BY PlaceNext
<1> QED BY <1>1, <1>2, TypeInit, TypeNext, LockInit, PlaceInit, PlaceAttends, PTL DEF Spec

-----------------------------------------------------------------------------
(* The pipeline implements the lifecycle: the safety half of the refinement *)

\* A row that was never inserted counts no requeue.
Fresh == \A s \in Scans : row[s].status = "none" => row[s].retries = 0

LEMMA FreshInit == Init => Fresh
  BY DEF Init, Fresh, BlankRow

\* No statement writes the status "none".
LEMMA FreshNext ==
  ASSUME TypeOK, Fresh, [Next]_vars
  PROVE  Fresh'
<1> SUFFICES ASSUME NEW s \in Scans, row'[s] # row[s] PROVE row'[s].status # "none"
  BY DEF Fresh
<1>0. row \in [Scans -> Row]
  BY DEF TypeOK
<1>1. ASSUME NEW z \in Scans, NEW new, UpdateRow(z, new) PROVE s = z /\ row'[s] = new /\ RowExists(s)
  BY <1>0, <1>1 DEF UpdateRow
<1>2. /\ MarkProcessing(row[s]).status # "none" /\ MarkCompleted(row[s]).status # "none"
      /\ MarkFailed(row[s]).status # "none" /\ ResetScanRowForRequeue(row[s]).status # "none"
      /\ RowExists(s) => [row[s] EXCEPT !.stale = FALSE].status # "none"
      /\ RowExists(s) => [row[s] EXCEPT !.stale = TRUE].status # "none"
  BY <1>0 DEF MarkProcessing, MarkCompleted, MarkFailed, ResetScanRowForRequeue, RowExists, Row
<1>3. ASSUME NEW z \in Scans,
             CreateScan(z) \/ DispatchScanAfterInsert(z) \/ AbortDispatch(z)
             \/ DeleteScan(z) \/ GrowStale(z) \/ QueueStep(z)
      PROVE  row'[s].status # "none"
  <2>1. CASE CreateScan(z) \/ DeleteScan(z)
    BY <1>0, <2>1 DEF CreateScan, DeleteScan, BlankRow
  <2>2. CASE GrowStale(z)
    <3>1. row' = [row EXCEPT ![z] = [row[z] EXCEPT !.stale = TRUE]] /\ RowExists(z)
      BY <2>2 DEF GrowStale, RowExists
    <3> QED BY <1>0, <1>2, <3>1
  <2> QED BY <1>3, <2>1, <2>2
          DEF DispatchScanAfterInsert, AbortDispatch, QueueStep, TakeJob, ExpireLock,
              RecoverStalledJob
<1>4. ASSUME NEW r \in Runners,
             RunnerStep(r) \/ HandleProcessorError(r) \/ (r \in Scans /\ FailDirectTask(r))
      PROVE  row'[s].status # "none"
  <2>1. r \in Runners /\ (run[r].pc # "idle" => run[r].scan \in Scans)
    BY DEF TypeOK
  <2> QED BY <1>1, <1>2, <1>4, <2>1
          DEF RunnerStep, LoadScanRow, StartProcessing, Detect, RecordResult, Settle,
              HandleProcessorError, FailDirectTask, DbError
<1>5. ASSUME NEW r \in Runners, Crash(r) PROVE FALSE
  BY <1>5 DEF Crash
<1>6. ASSUME NEW a \in Admins, AdminStep(a) PROVE row'[s].status # "none"
  <2>1. adm[a].pc # "idle" => adm[a].scan \in Scans
    BY DEF TypeOK
  <2> QED BY <1>1, <1>2, <1>6, <2>1
          DEF AdminStep, StartRequeue, AssertJobNotActivelyRunning, RemoveQueueJobIfPresent,
              ResetRow, EnqueueScanJob, AbortRequeue
<1> QED BY <1>3, <1>4, <1>5, <1>6
        DEF Next, DirectTasks, DirectStep, WorkerStep, Runners, vars

LEMMA LifecycleInit == Init => Lifecycle!Init
  BY DEF Init, BlankRow, LifeOfRows, Lifecycle!Init

\* A write to one row is a step of the lifecycle when the status and the
\* generation it leaves behind are those of a move from the status it found.
LEMMA LifecycleWrite ==
  ASSUME TypeOK, NEW z \in Scans, NEW new,
         row' = [row EXCEPT ![z] = new],
         \/ row[z].status = "none" /\ new.status = "pending" /\ new.retries = row[z].retries
         \/ row[z].status = "pending" /\ new.status = "processing" /\ new.retries = row[z].retries
         \/ /\ row[z].status = "processing" /\ new.status \in {"completed", "failed"}
            /\ new.retries = row[z].retries
         \/ /\ row[z].status \in {"processing", "completed", "failed"}
            /\ new.status = "pending" /\ new.retries = row[z].retries + 1
         \/ /\ row[z].status \in {"pending", "processing", "completed", "failed"}
            /\ new.status = "deleted" /\ new.retries = 0
  PROVE  Lifecycle!Next
<1> DEFINE old == [status |-> row[z].status, generation |-> row[z].retries]
           then == [status |-> new.status, generation |-> new.retries]
<1>1. LifeOfRows' = [LifeOfRows EXCEPT ![z] = then] /\ LifeOfRows[z] = old
  BY DEF LifeOfRows, TypeOK
<1>2. ASSUME NEW status PROVE
        new.status = status /\ new.retries = row[z].retries => Lifecycle!Move(z, status)
  BY <1>1 DEF LifeOfRows, Lifecycle!Move
<1>3. CASE row[z].status = "none" /\ new.status = "pending" /\ new.retries = row[z].retries
  BY <1>1, <1>2, <1>3 DEF Lifecycle!Next, Lifecycle!Submit, Lifecycle!InLife
<1>4. CASE row[z].status = "pending" /\ new.status = "processing" /\ new.retries = row[z].retries
  BY <1>1, <1>2, <1>4 DEF Lifecycle!Next, Lifecycle!Start, Lifecycle!InLife
<1>5. CASE /\ row[z].status = "processing" /\ new.status \in {"completed", "failed"}
           /\ new.retries = row[z].retries
  BY <1>1, <1>2, <1>5 DEF Lifecycle!Next, Lifecycle!Settle, Lifecycle!InLife
<1>6. CASE /\ row[z].status \in {"processing", "completed", "failed"}
           /\ new.status = "pending" /\ new.retries = row[z].retries + 1
  <2>1. LifeOfRows' = [LifeOfRows EXCEPT ![z] = [status |-> "pending", generation |-> @.generation + 1]]
    BY <1>1, <1>6
  <2>2. Lifecycle!InLife(z, {"processing", "completed", "failed"})
    BY <1>1, <1>6 DEF Lifecycle!InLife
  <2> QED BY <1>1, <2>1, <2>2 DEF Lifecycle!Next, Lifecycle!Requeue
<1>7. CASE /\ row[z].status \in {"pending", "processing", "completed", "failed"}
           /\ new.status = "deleted" /\ new.retries = 0
  <2>1. LifeOfRows' = [LifeOfRows EXCEPT ![z] = [status |-> "deleted", generation |-> 0]]
    BY <1>1, <1>7
  <2>2. Lifecycle!InLife(z, {"pending", "processing", "completed", "failed"})
    BY <1>1, <1>7 DEF Lifecycle!InLife
  <2> QED BY <2>1, <2>2 DEF Lifecycle!Next, Lifecycle!Remove
<1> QED BY <1>3, <1>4, <1>5, <1>6, <1>7

\* A write that changes neither is a stutter.
LEMMA LifecycleStutter ==
  ASSUME TypeOK, NEW z \in Scans, NEW new, UpdateRow(z, new),
         new.status = row[z].status, new.retries = row[z].retries
  PROVE  UNCHANGED LifeOfRows
  BY DEF TypeOK, LifeOfRows, UpdateRow

LEMMA LifecycleNext ==
  ASSUME FaultlessQueueMode, TypeOK, RunnerHoldsLock, PlaceInv, Fresh, [Next]_vars
  PROVE  [Lifecycle!Next]_LifeOfRows
<1>0. row \in [Scans -> Row] /\ \A s \in Scans : InPlace(s)
  BY DEF TypeOK, PlaceInv
<1>1. CASE UNCHANGED row
  BY <1>1 DEF LifeOfRows
<1>2. ASSUME NEW s \in Scans, CreateScan(s) PROVE Lifecycle!Next
  <2>1. row' = [row EXCEPT ![s] = BlankRow("pending")] /\ row[s].status = "none"
    BY <1>0, <1>2 DEF CreateScan, InPlace, ScanIsPlaced
  <2>2. row[s].retries = 0
    BY <2>1 DEF Fresh
  <2> QED BY <2>1, <2>2, LifecycleWrite DEF BlankRow
<1>3. ASSUME NEW s \in Scans, DeleteScan(s) PROVE Lifecycle!Next
  <2>1. /\ row' = [row EXCEPT ![s] = BlankRow("deleted")]
        /\ row[s].status \in {"pending", "processing", "completed", "failed"}
    BY <1>0, <1>3 DEF DeleteScan, RowExists, Row
  <2> QED BY <2>1, LifecycleWrite DEF BlankRow
<1>4. ASSUME NEW s \in Scans, GrowStale(s) PROVE UNCHANGED LifeOfRows
  <2>1. UpdateRow(s, [row[s] EXCEPT !.stale = TRUE])
    BY <1>4 DEF GrowStale, UpdateRow, RowExists
  <2> QED BY <1>0, <2>1, LifecycleStutter DEF Row
<1>5. ASSUME NEW w \in Workers, WorkerStep(w) PROVE [Lifecycle!Next]_LifeOfRows
  <2> DEFINE z == run[w].scan
  <2>1. z \in Scans /\ row[z] \in Row /\ WorkerSeesRow(w)
    <3>1. run[w].pc # "idle" /\ z \in Scans
      BY <1>5, WorkerKeepsScan
    <3> QED BY <1>0, <3>1 DEF InPlace, Working
\* An UPDATE that finds no row changes nothing.
  <2>2. ASSUME NEW new, UpdateRow(z, new), row[z].status = "deleted"
        PROVE  UNCHANGED row
    BY <2>2 DEF UpdateRow, RowExists
  <2>3. CASE StartProcessing(w)
    <3>1. /\ UpdateRow(z, MarkProcessing(row[z]))
          /\ row[z].status \in Unsettled \union {"deleted"}
      BY <2>1, <2>3 DEF StartProcessing, DbError, FaultlessQueueMode, WorkerSeesRow
    <3>2. /\ MarkProcessing(row[z]).status = "processing"
          /\ MarkProcessing(row[z]).retries = row[z].retries
      BY <2>1 DEF MarkProcessing, Row
    <3>3. CASE row[z].status = "pending"
      <4>1. row' = [row EXCEPT ![z] = MarkProcessing(row[z])]
        BY <3>1, <3>3 DEF UpdateRow, RowExists
      <4> QED BY <2>1, <3>2, <3>3, <4>1, LifecycleWrite
    <3>4. CASE row[z].status = "processing"
      BY <2>1, <3>1, <3>2, <3>4, LifecycleStutter
    <3> QED BY <1>1, <2>2, <3>1, <3>3, <3>4 DEF Unsettled
  <2>4. CASE Detect(w)
    <3>1. UNCHANGED row \/ UpdateRow(z, [row[z] EXCEPT !.stale = FALSE])
      BY <2>4 DEF Detect
    <3>2. /\ [row[z] EXCEPT !.stale = FALSE].status = row[z].status
          /\ [row[z] EXCEPT !.stale = FALSE].retries = row[z].retries
      BY <2>1 DEF Row
    <3> QED BY <1>1, <2>1, <3>1, <3>2, LifecycleStutter
  <2>5. CASE RecordResult(w)
    <3>1. UpdateRow(z, MarkCompleted(row[z])) /\ row[z].status \in {"processing", "deleted"}
      BY <2>1, <2>5 DEF RecordResult, DbError, FaultlessQueueMode, WorkerSeesRow
    <3>2. /\ MarkCompleted(row[z]).status = "completed"
          /\ MarkCompleted(row[z]).retries = row[z].retries
      BY <2>1 DEF MarkCompleted, Row
    <3>3. CASE row[z].status = "processing"
      <4>1. row' = [row EXCEPT ![z] = MarkCompleted(row[z])]
        BY <3>1, <3>3 DEF UpdateRow, RowExists
      <4> QED BY <2>1, <3>2, <3>3, <4>1, LifecycleWrite
    <3> QED BY <1>1, <2>2, <3>1, <3>3
  <2>6. CASE HandleProcessorError(w)
    <3>1. UNCHANGED row \/ UpdateRow(z, MarkFailed(row[z]))
      BY <2>6 DEF HandleProcessorError
    <3>2. /\ MarkFailed(row[z]).status = "failed"
          /\ MarkFailed(row[z]).retries = row[z].retries
          /\ row[z].status \in {"processing", "deleted"}
      BY <2>1, <2>6 DEF MarkFailed, Row, WorkerSeesRow, HandleProcessorError
    <3>3. CASE row[z].status = "processing" /\ UpdateRow(z, MarkFailed(row[z]))
      <4>1. row' = [row EXCEPT ![z] = MarkFailed(row[z])]
        BY <3>3 DEF UpdateRow, RowExists
      <4> QED BY <2>1, <3>2, <3>3, <4>1, LifecycleWrite
    <3> QED BY <1>1, <2>2, <3>1, <3>2, <3>3
  <2> QED BY <1>1, <1>5, <2>3, <2>4, <2>5, <2>6
          DEF WorkerStep, RunnerStep, LoadScanRow, Settle
<1>6. ASSUME NEW a \in Admins, ResetRow(a) PROVE [Lifecycle!Next]_LifeOfRows
  <2> DEFINE z == adm[a].scan
  <2>1. /\ adm[a].pc = "reset" /\ z \in Scans /\ row[z] \in Row
        /\ UpdateRow(z, ResetScanRowForRequeue(row[z]))
    BY <1>6 DEF ResetRow, FaultlessQueueMode, TypeOK
  <2>2. row[z].status \in {"processing", "completed", "failed", "deleted"}
    BY <1>0, <2>1 DEF InPlace, Requesting, RequestSeesRow
  <2>3. CASE row[z].status = "deleted"
    BY <1>1, <2>1, <2>3 DEF UpdateRow, RowExists
  <2>4. CASE row[z].status # "deleted"
    <3>1. row' = [row EXCEPT ![z] = ResetScanRowForRequeue(row[z])]
      BY <2>1, <2>2, <2>4 DEF UpdateRow, RowExists
    <3>2. /\ ResetScanRowForRequeue(row[z]).status = "pending"
          /\ ResetScanRowForRequeue(row[z]).retries = row[z].retries + 1
      BY <2>1 DEF ResetScanRowForRequeue, Row
    <3> QED BY <2>1, <2>2, <2>4, <3>1, <3>2, LifecycleWrite
  <2> QED BY <2>3, <2>4
<1> QED
  BY <1>1, <1>2, <1>3, <1>4, <1>5, <1>6, NoDirectStep
  DEF Next, DirectTasks, FaultlessQueueMode, DispatchScanAfterInsert, AbortDispatch, QueueStep,
      TakeJob, ExpireLock, RecoverStalledJob, Crash, AdminStep, StartRequeue,
      AssertJobNotActivelyRunning, RemoveQueueJobIfPresent, EnqueueScanJob, AbortRequeue, vars

\* In queue mode without faults and with one operator at a time, every step of
\* the pipeline is a step of the lifecycle of some scan, or changes no scan's
\* status: the code's writes, each by the row's id alone, only ever move a scan
\* from pending to processing to an outcome, and back by a requeue.
THEOREM ImplementsLifecycle ==
  ASSUME FaultlessQueueMode PROVE Spec => Lifecycle!Safety
<1>0. QueueMode
  BY DEF FaultlessQueueMode, QueueMode
<1>1. TypeOK /\ RunnerHoldsLock /\ [Next]_vars => RunnerHoldsLock'
  BY <1>0, LockNext
<1>2. TypeOK /\ RunnerHoldsLock /\ PlaceInv /\ [Next]_vars => PlaceInv'
  BY PlaceNext
<1>3. TypeOK /\ Fresh /\ [Next]_vars => Fresh'
  BY FreshNext
<1>4. TypeOK /\ RunnerHoldsLock /\ PlaceInv /\ Fresh /\ [Next]_vars => [Lifecycle!Next]_LifeOfRows
  BY LifecycleNext
<1> QED BY <1>1, <1>2, <1>3, <1>4, TypeInit, TypeNext, LockInit, PlaceInit, FreshInit,
           LifecycleInit, PTL
        DEF Spec, Lifecycle!Safety

-----------------------------------------------------------------------------
(* The evidence of an analysis, in both modes and whatever overlaps: which  *)
(* copies are where a row or a run says, and what a page has of them.       *)

\* The copy of an element is stored, by whatever run, unless the vendor's own key stands for it.
Copied(s, at, e) == e \in foreign \/ store[s][at][File(e)] # NoBytes
CopiesThere(s, p) ==
  /\ p.analysis \in 1..made[s]
  /\ p.place = "s3" => place[s] = "s3"
  /\ \A e \in p.has : Copied(s, p.place, e)

Page == [of : Nat, old : BOOLEAN, heatmaps : SUBSET Models, buttons : SUBSET Artifacts, expired : BOOLEAN]
Tile == [shows : {"none", "loading", "heatmap", "error", "expired"}, bytes : Bytes \union {NoBytes}, under : Nat]
Found == [known : BOOLEAN, todo : SUBSET Evidence, result : Analysis]

EvidenceTypes ==
  /\ file \in [Models -> Models] /\ foreign \subseteq Artifacts
  /\ place \in [Scans -> Places] /\ made \in [Scans -> Nat]
  /\ found \in [Runners -> Found] /\ payload \in [Scans -> Analysis]
  /\ store \in [Scans -> [Places -> [Evidence -> Bytes \union {NoBytes}]]]
  /\ page \in [Scans -> Page] /\ tile \in [Scans -> Tile]

\* Under a file's name there is nothing, or evidence of that name, of an analysis made.
StoreSound ==
  \A s \in Scans, at \in Places, f \in Evidence :
    LET b == store[s][at][f] IN
    b # NoBytes => b.of \in Evidence /\ File(b.of) = f /\ b.analysis \in 1..made[s]

Holding(r, s) == run[r].pc \in {"detect", "write"} /\ run[r].scan = s /\ found[r].known

\* What a run has of its analysis, which no row and no page has heard of and no other run holds.
RunSound(r) ==
  /\ run[r].pc \in {"mark", "detect", "write"} /\ found[r].result.place = "s3" => place[run[r].scan] = "s3"
  /\ run[r].pc \in {"mark", "detect"} /\ ~found[r].known => found[r].todo = {}
  /\ run[r].pc = "mark" => ~found[r].known
  /\ run[r].pc = "write" => found[r].known
  /\ \A s \in Scans : Holding(r, s) =>
       /\ CopiesThere(s, found[r].result)
       /\ found[r].result.analysis \notin {payload[s].analysis, page[s].of, tile[s].under}
       /\ \A q \in Runners : Holding(q, s) /\ q # r => found[q].result.analysis # found[r].result.analysis

PayloadSound(s) == payload[s] \in {NoAnalysis, OldAnalysis} \/ CopiesThere(s, payload[s])

PageSound(s) ==
  /\ page[s].of \in 0..made[s]
  /\ page[s].old => page[s].of = 0
  /\ page[s].of = 0 => page[s].buttons = {} /\ (~page[s].old => page[s].heatmaps = {})
  /\ page[s].of # 0 /\ Current(s) =>
       page[s].heatmaps \subseteq payload[s].has /\ page[s].buttons \subseteq payload[s].has

TileSound(s) ==
  /\ tile[s].under \in 0..made[s]
  /\ tile[s].shows # "none" =>
       /\ Watched \in page[s].heatmaps
       /\ tile[s].under = 0 <=> page[s].old
       /\ tile[s].under # 0 /\ tile[s].under = payload[s].analysis => page[s].of = tile[s].under
  /\ tile[s].shows = "error" => ~page[s].old
  /\ tile[s].shows = "heatmap" /\ page[s].old => tile[s].bytes = [analysis |-> 0, of |-> Watched]

EvidenceInv ==
  /\ EvidenceTypes /\ StoreSound
  /\ \A r \in Runners : RunSound(r)
  /\ \A s \in Scans : PayloadSound(s) /\ PageSound(s) /\ TileSound(s)
  /\ HeatmapExplained

Copying == {"mark", "detect", "write"}

\* What every step does to the evidence, if anything: nothing is unmade, moved back or removed.
Grows ==
  /\ UNCHANGED given
  /\ \A s \in Scans :
       /\ made[s] <= made'[s] /\ (place[s] = "s3" => place'[s] = "s3")
       /\ \A at \in Places, f \in Evidence : store[s][at][f] # NoBytes => store'[s][at][f] # NoBytes

LEMMA FilesAreEvidence ==
  ASSUME EvidenceTypes
  PROVE  \A e \in Evidence : File(e) \in Evidence
BY DEF EvidenceTypes, File, Evidence

LEMMA CopiesKept ==
  ASSUME EvidenceTypes, EvidenceTypes', Grows, NEW s \in Scans, NEW p \in Analysis, CopiesThere(s, p)
  PROVE  CopiesThere(s, p)'
<1>1. p.analysis \in 1..made'[s]
  BY DEF CopiesThere, Grows, EvidenceTypes
<1>2. p.place = "s3" => place'[s] = "s3"
  BY DEF CopiesThere, Grows
<1>3. ASSUME NEW e \in p.has PROVE Copied(s, p.place, e)'
  <2>1. e \in Evidence /\ p.place \in Places /\ File(e) \in Evidence /\ File(e)' = File(e)
    BY FilesAreEvidence DEF Analysis, File, Grows, given
  <2> QED BY <2>1 DEF CopiesThere, Copied, Grows, given
<1> QED BY <1>1, <1>2, <1>3 DEF CopiesThere

\* Where a run goes as far as its analysis is concerned.
RunMoves(r) ==
  \/ run'[r] = run[r]
  \/ run'[r].pc \notin Copying
  \/ run'[r].scan = run[r].scan /\ run[r].pc = "mark" /\ run'[r].pc = "detect"
  \/ run'[r].scan = run[r].scan /\ run[r].pc = "detect" /\ run'[r].pc = "write" /\ found[r].known

\* A step of others, or one that leaves the run its analysis.
LEMMA RunKept ==
  ASSUME TypeOK, EvidenceTypes, EvidenceTypes', Grows, NEW r \in Runners, RunSound(r), RunMoves(r),
         run'[r].pc \in Copying => found'[r] = found[r],
         \A s \in Scans : Holding(r, s) =>
           /\ found[r].result.analysis \notin {payload'[s].analysis, page'[s].of, tile'[s].under}
           /\ \A q \in Runners : Holding(q, s)' /\ q # r =>
                found'[q].result.analysis # found[r].result.analysis
  PROVE  RunSound(r)'
<1>1. CASE run'[r].pc \notin Copying
  BY <1>1 DEF RunSound, Holding, Copying
<1>2. CASE run'[r].pc \in Copying
  <2>1. /\ found'[r] = found[r] /\ run'[r].scan = run[r].scan /\ run[r].pc \in Copying
        /\ run[r].scan \in Scans /\ found[r].result \in Analysis
    BY <1>2 DEF RunMoves, Copying, TypeOK, EvidenceTypes, Found
  <2>2. \A s \in Scans : Holding(r, s)' => Holding(r, s)
    BY <1>2, <2>1 DEF Holding, RunMoves, RunSound
  <2>3. PICK p \in Analysis : p = found[r].result
    BY <2>1
  <2>4. found'[r].result = p /\ found'[r].known = found[r].known
    BY <2>1, <2>3
  <2>5. ASSUME NEW s \in Scans, Holding(r, s)'
        PROVE  /\ CopiesThere(s, found[r].result)'
               /\ found'[r].result.analysis \notin {payload'[s].analysis, page'[s].of, tile'[s].under}
               /\ \A q \in Runners : Holding(q, s)' /\ q # r =>
                    found'[q].result.analysis # found'[r].result.analysis
    <3>1. Holding(r, s)
      BY <2>2, <2>5
    <3>2. CopiesThere(s, p)
      BY <2>3, <3>1 DEF RunSound
    <3>3. CopiesThere(s, p)'
      BY <3>2, CopiesKept
    <3>4. CopiesThere(s, found[r].result)'
      BY <2>4, <3>3
    <3> QED BY <2>3, <2>4, <2>5, <3>1, <3>4
  <2>6. found'[r].result.place = "s3" => place'[run'[r].scan] = "s3"
    BY <2>1 DEF RunSound, Copying, Grows
  <2>7. run'[r].pc \in {"mark", "detect"} /\ ~found'[r].known => found'[r].todo = {}
    BY <1>2, <2>1 DEF RunSound, RunMoves, Copying
  <2>8. (run'[r].pc = "mark" => ~found'[r].known) /\ (run'[r].pc = "write" => found'[r].known)
    BY <1>2, <2>1 DEF RunSound, RunMoves, Copying
  <2> QED BY <2>5, <2>6, <2>7, <2>8 DEF RunSound
<1> QED BY <1>1, <1>2

\* HeatmapExplained, scan by scan.
HeatmapSound(s) ==
  tile[s].shows \in {"heatmap", "error"} =>
    LET b == tile[s].bytes IN
    \/ b.analysis = page[s].of /\ b.of \in Models /\ file[b.of] = file[Watched]
    \/ tile[s].under # page[s].of
    \/ ~Current(s) \/ LeftBehind(s) \/ Overwritten(s, file[Watched])

LEMMA HeatmapsSound == HeatmapExplained <=> \A s \in Scans : HeatmapSound(s)
BY DEF HeatmapExplained, HeatmapSound

\* A page that knows of no analysis shows a link, or no heatmap.
LEMMA OldTileSound ==
  ASSUME NEW s \in Scans, PageSound(s), TileSound(s), page[s].of = 0
  PROVE  HeatmapSound(s)
BY EvidenceAssumption DEF PageSound, TileSound, HeatmapSound

LEMMA PayloadKept ==
  ASSUME EvidenceTypes, EvidenceTypes', Grows, NEW s \in Scans, PayloadSound(s),
         payload'[s] \in {payload[s], NoAnalysis}
  PROVE  PayloadSound(s)'
<1>1. PICK p \in Analysis : p = payload[s]
  BY DEF EvidenceTypes
<1>2. CASE payload'[s] = p /\ CopiesThere(s, p)
  BY <1>2, CopiesKept DEF PayloadSound
<1> QED BY <1>1, <1>2 DEF PayloadSound

\* The page is not told what becomes of the row.
PageWaits(s) ==
  /\ page'[s] = page[s] /\ tile'[s] = tile[s] /\ made[s] <= made'[s]
  /\ \/ payload'[s] = payload[s]
     \/ payload'[s] = NoAnalysis
     \/ payload'[s].analysis \notin {0, page[s].of, tile[s].under}

LEMMA PageKept ==
  ASSUME EvidenceTypes, EvidenceTypes', NEW s \in Scans, PageSound(s), TileSound(s), PageWaits(s)
  PROVE  PageSound(s)' /\ TileSound(s)'
<1>1. /\ page[s] \in Page /\ tile[s] \in Tile /\ made[s] \in Nat /\ made'[s] \in Nat
      /\ payload[s] \in Analysis
  BY DEF EvidenceTypes
<1>2. page'[s].of \in 0..made'[s] /\ tile'[s].under \in 0..made'[s]
  BY <1>1 DEF PageSound, TileSound, PageWaits
<1>3. payload'[s] = payload[s] \/ payload'[s].analysis \notin {page[s].of, tile[s].under} \/ payload'[s].analysis = 0
  BY DEF PageWaits, NoAnalysis
<1>4. PageSound(s)'
  BY <1>1, <1>2, <1>3 DEF PageSound, PageWaits, Current
<1>5. TileSound(s)'
  BY <1>1, <1>2, <1>3 DEF TileSound, PageWaits
<1> QED BY <1>4, <1>5

\* A tile stays explained while the page waits, as long as what explained it stays.
LEMMA HeatmapKept ==
  ASSUME EvidenceTypes, EvidenceTypes', UNCHANGED given, NEW s \in Scans,
         PageSound(s), TileSound(s), HeatmapSound(s), PageWaits(s),
         payload'[s] = payload[s] =>
           \/ LeftBehind(s)'
           \/ /\ LeftBehind(s) => LeftBehind(s)'
              /\ Overwritten(s, file[Watched]) => Overwritten(s, file[Watched])'
  PROVE  HeatmapSound(s)'
<1>0. PageSound(s)' /\ TileSound(s)'
  BY PageKept
<1>1. CASE page[s].of = 0
  <2>1. page'[s].of = 0
    BY <1>1 DEF PageWaits
  <2> QED BY <2>1, <1>0, EvidenceAssumption DEF PageSound, TileSound, HeatmapSound
<1>2. CASE page[s].of # 0 /\ payload'[s] = payload[s]
  BY <1>2 DEF HeatmapSound, PageWaits, Current, given
<1>3. CASE page[s].of # 0 /\ payload'[s] # payload[s]
  <2>1. payload'[s].analysis # page'[s].of
    BY <1>3 DEF PageWaits, NoAnalysis
  <2> QED BY <2>1 DEF HeatmapSound, Current
<1> QED BY <1>1, <1>2, <1>3

-----------------------------------------------------------------------------
(* The steps of the pipeline that leave the evidence alone *)

LEMMA GotoMoves ==
  ASSUME TypeOK, NEW r \in Runners, NEW pc, Goto(r, pc),
         \/ pc \notin Copying
         \/ run[r].pc = "mark" /\ pc = "detect"
         \/ run[r].pc = "detect" /\ pc = "write" /\ found[r].known
  PROVE  \A q \in Runners : RunMoves(q)
<1> TAKE q \in Runners
<1>1. run' = [run EXCEPT ![r] = [run[r] EXCEPT !.pc = pc]] /\ run \in [Runners -> Run]
  BY DEF Goto, TypeOK
<1>2. CASE q # r
  BY <1>1, <1>2 DEF RunMoves
<1>3. CASE q = r
  <2>1. run'[q].pc = pc /\ run'[q].scan = run[q].scan
    BY <1>1, <1>3 DEF Run
  <2> QED BY <2>1, <1>3 DEF RunMoves
<1> QED BY <1>2, <1>3

LEMMA ThrowMoves ==
  ASSUME TypeOK, NEW r \in Runners, NEW e, Throw(r, e)
  PROVE  \A q \in Runners : RunMoves(q)
<1> TAKE q \in Runners
<1>1. run' = [run EXCEPT ![r] = [run[r] EXCEPT !.pc = "error", !.error = e]] /\ run \in [Runners -> Run]
  BY DEF Throw, TypeOK
<1>2. CASE q # r
  BY <1>1, <1>2 DEF RunMoves
<1>3. CASE q = r
  <2>1. run'[q].pc = "error"
    BY <1>1, <1>3 DEF Run
  <2> QED BY <2>1 DEF RunMoves, Copying
<1> QED BY <1>2, <1>3

\* A runner that starts, or ends.
LEMMA SlotMoves ==
  ASSUME TypeOK, NEW r \in Runners, NEW new, run' = [run EXCEPT ![r] = new], new.pc \notin Copying
  PROVE  \A q \in Runners : RunMoves(q)
<1> TAKE q \in Runners
<1>1. run \in [Runners -> Run]
  BY DEF TypeOK
<1>2. CASE q # r
  BY <1>1, <1>2 DEF RunMoves
<1>3. CASE q = r
  BY <1>1, <1>3 DEF RunMoves
<1> QED BY <1>2, <1>3

\* A step that changes neither what is copied nor what a row or a page says.
Quiet == UNCHANGED evidence /\ \A q \in Runners : RunMoves(q)

LEMMA RestKept ==
  ASSUME EvidenceInv, EvidenceTypes', Grows, UNCHANGED <<given, stored, shown>>
  PROVE  /\ StoreSound' /\ HeatmapExplained'
         /\ \A s \in Scans : PayloadSound(s)' /\ PageSound(s)' /\ TileSound(s)'
<1>1. EvidenceTypes /\ StoreSound
  BY DEF EvidenceInv
<1>2. StoreSound'
  <2>1. ASSUME NEW s \in Scans PROVE made[s] \in Nat /\ made'[s] \in Nat /\ made[s] <= made'[s]
    BY <1>1 DEF Grows, EvidenceTypes
  <2>2. store' = store /\ \A e : File(e)' = File(e)
    BY DEF stored, given, File
  <2> QED BY <1>1, <2>1, <2>2 DEF StoreSound
<1>3. ASSUME NEW s \in Scans PROVE PayloadSound(s)' /\ PageSound(s)' /\ TileSound(s)' /\ HeatmapSound(s)'
  <2>1. PayloadSound(s) /\ PageSound(s) /\ TileSound(s) /\ HeatmapSound(s)
    BY HeatmapsSound DEF EvidenceInv
  <2>2. PageWaits(s)
    BY DEF PageWaits, stored, shown, Grows
  <2>3. /\ LeftBehind(s) => LeftBehind(s)'
        /\ Overwritten(s, file[Watched]) => Overwritten(s, file[Watched])'
    BY DEF LeftBehind, Overwritten, stored, given, File
  <2> QED BY <1>1, <2>1, <2>2, <2>3, PayloadKept, PageKept, HeatmapKept DEF stored, given
<1> QED BY <1>2, <1>3 DEF HeatmapExplained, HeatmapSound

\* A step of one run, by which no row changes.
LEMMA OneRun ==
  ASSUME TypeOK, EvidenceInv, EvidenceTypes', Grows, UNCHANGED <<payload, shown>>,
         NEW r \in Runners, RunSound(r)',
         \A q \in Runners \ {r} : run'[q] = run[q] /\ found'[q] = found[q],
         \A q \in Runners \ {r}, s \in Scans : Holding(q, s) /\ Holding(r, s)' =>
            found'[r].result.analysis # found[q].result.analysis
  PROVE  \A q \in Runners : RunSound(q)'
<1> TAKE q \in Runners
<1>1. CASE q = r
  BY <1>1
<1>2. CASE q # r
  <2>1. EvidenceTypes /\ RunSound(q) /\ RunMoves(q) /\ found'[q] = found[q]
    BY <1>2 DEF EvidenceInv, RunMoves
  <2>2. ASSUME NEW s \in Scans, Holding(q, s)
        PROVE  /\ found[q].result.analysis \notin {payload'[s].analysis, page'[s].of, tile'[s].under}
               /\ \A p \in Runners : Holding(p, s)' /\ p # q =>
                    found'[p].result.analysis # found[q].result.analysis
    <3>1. found[q].result.analysis \notin {payload'[s].analysis, page'[s].of, tile'[s].under}
      BY <2>1, <2>2 DEF RunSound, shown
    <3>2. ASSUME NEW p \in Runners, Holding(p, s)', p # q, p # r
          PROVE  found'[p].result.analysis # found[q].result.analysis
      BY <2>1, <2>2, <3>2 DEF RunSound, Holding
    <3> QED BY <1>2, <2>2, <3>1, <3>2
  <2> QED BY <2>1, <2>2, RunKept
<1> QED BY <1>1, <1>2

LEMMA QuietKeeps ==
  ASSUME TypeOK, EvidenceInv, Quiet
  PROVE  EvidenceInv'
<1>1. EvidenceTypes /\ EvidenceTypes'
  BY DEF EvidenceInv, EvidenceTypes, Quiet, evidence, given, stored, shown
<1>2. Grows
  BY <1>1 DEF EvidenceTypes, Grows, Quiet, evidence, stored, given
<1>3. ASSUME NEW q \in Runners PROVE RunSound(q)'
  <2>1. RunSound(q) /\ RunMoves(q) /\ found' = found
    BY DEF Quiet, evidence, EvidenceInv
  <2>2. \A p \in Runners, s \in Scans : Holding(p, s)' => Holding(p, s)
    <3> TAKE p \in Runners, s \in Scans
    <3>1. RunSound(p) /\ RunMoves(p)
      BY DEF Quiet, EvidenceInv
    <3> QED BY <2>1, <3>1 DEF Holding, RunMoves, RunSound, Copying
  <2>3. UNCHANGED <<payload, page, tile>>
    BY DEF Quiet, evidence, stored, shown
  <2> QED BY <1>1, <1>2, <2>1, <2>2, <2>3, RunKept DEF RunSound
<1> QED BY <1>1, <1>2, <1>3, RestKept DEF EvidenceInv, Quiet, evidence

LEMMA RunSame == ASSUME UNCHANGED run PROVE \A q \in Runners : RunMoves(q)
BY DEF RunMoves

LEMMA QuietRunner ==
  ASSUME TypeOK, NEW r \in Runners,
         \/ StartProcessing(r) /\ UNCHANGED evidence
         \/ DetectAndPersist(r)
         \/ HandleProcessorError(r) /\ UNCHANGED evidence
         \/ FailDirectTask(r) /\ UNCHANGED evidence
  PROVE  Quiet
<1>1. UNCHANGED evidence
  BY DEF DetectAndPersist
<1>2. CASE StartProcessing(r)
  <2>1. run[r].pc = "mark" /\ (Goto(r, "detect") \/ Throw(r, "plain"))
    BY <1>2 DEF StartProcessing, DbError
  <2> QED BY <1>1, <2>1, GotoMoves, ThrowMoves DEF Quiet
<1>3. CASE DetectAndPersist(r)
  <2>1. run[r].pc = "detect" /\ (Throw(r, "unrecoverable") \/ Throw(r, "plain") \/ Goto(r, "write"))
    BY <1>3 DEF DetectAndPersist, Detect
  <2>2. ASSUME Goto(r, "write") PROVE found[r].known
    <3>1. run'[r].pc = "write"
      BY <2>2 DEF Goto, TypeOK, Run
    <3> QED BY <1>3, <3>1 DEF DetectAndPersist
  <2>3. ASSUME Goto(r, "write") PROVE \A q \in Runners : RunMoves(q)
    BY <2>1, <2>2, <2>3, GotoMoves
  <2> QED BY <1>1, <2>1, <2>3, ThrowMoves DEF Quiet
<1>4. CASE HandleProcessorError(r)
  <2>1. Goto(r, "settle") \/ run' = [run EXCEPT ![r].pc = "settle", ![r].error = "plain"]
    BY <1>4 DEF HandleProcessorError
  <2>2. ASSUME run' = [run EXCEPT ![r].pc = "settle", ![r].error = "plain"]
        PROVE  \A q \in Runners : RunMoves(q)
    <3>1. \A q \in Runners : q # r => run'[q] = run[q]
      BY <2>2 DEF TypeOK
    <3>2. run'[r].pc = "settle"
      BY <2>2 DEF TypeOK, Run
    <3> QED BY <3>1, <3>2 DEF RunMoves, Copying
  <2>3. ASSUME Goto(r, "settle") PROVE \A q \in Runners : RunMoves(q)
    BY <2>3, GotoMoves DEF Copying
  <2> QED BY <1>1, <2>1, <2>2, <2>3 DEF Quiet
<1>5. CASE FailDirectTask(r)
  <2>1. Goto(r, "settle")
    BY <1>5 DEF FailDirectTask
  <2>2. \A q \in Runners : RunMoves(q)
    BY <2>1, GotoMoves DEF Copying
  <2> QED BY <1>1, <2>2 DEF Quiet
<1> QED BY <1>2, <1>3, <1>4, <1>5

LEMMA QuietOthers ==
  ASSUME TypeOK, UNCHANGED evidence,
         \/ \E s \in Scans : CreateScan(s) \/ DispatchScanAfterInsert(s) \/ GrowStale(s) \/ QueueStep(s)
         \/ \E a \in Admins :
              \/ \E s \in Scans, kind \in {"retry", "retry_completed", "reset_stuck"} :
                    StartRequeue(a, s, kind)
              \/ AssertJobNotActivelyRunning(a) \/ RemoveQueueJobIfPresent(a) \/ EnqueueScanJob(a)
         \/ UNCHANGED vars
  PROVE  Quiet
<1>1. ASSUME NEW s \in Scans, CreateScan(s) \/ GrowStale(s) \/ ExpireLock(s) \/ RecoverStalledJob(s)
      PROVE  UNCHANGED run
  BY <1>1 DEF CreateScan, GrowStale, ExpireLock, RecoverStalledJob
<1>2. ASSUME NEW a \in Admins,
             \/ \E s \in Scans, kind \in {"retry", "retry_completed", "reset_stuck"} :
                    StartRequeue(a, s, kind)
             \/ AssertJobNotActivelyRunning(a) \/ RemoveQueueJobIfPresent(a) \/ EnqueueScanJob(a)
      PROVE  UNCHANGED run
  BY <1>2 DEF StartRequeue, AssertJobNotActivelyRunning, RemoveQueueJobIfPresent, EnqueueScanJob
<1>3. ASSUME NEW s \in Scans, DispatchScanAfterInsert(s) PROVE \A q \in Runners : RunMoves(q)
  <2>1. UNCHANGED run \/ run' = [run EXCEPT ![s] = [IdleRun EXCEPT !.pc = "load", !.scan = s]]
    BY <1>3 DEF DispatchScanAfterInsert, DispatchToQueue, DispatchToTask
  <2>2. s \in Runners /\ [IdleRun EXCEPT !.pc = "load", !.scan = s].pc = "load"
    BY DEF IdleRun, Runners
  <2> QED BY <2>1, <2>2, RunSame, SlotMoves DEF Copying
<1>4. ASSUME NEW s \in Scans, NEW w \in Workers, TakeJob(w, s) PROVE \A q \in Runners : RunMoves(q)
  <2>1. w \in Runners /\ run \in [Runners -> Run]
    BY DEF Runners, TypeOK
  <2>2. \A q \in Runners \ {w} : run'[q] = run[q]
    BY <1>4, <2>1 DEF TakeJob
  <2>3. [IdleRun EXCEPT !.pc = "load", !.scan = s, !.made = job[s].made, !.attempts = job[s].attempts].pc = "load"
    BY DEF IdleRun
  <2>4. run'[w].pc = "load"
    BY <1>4, <2>1, <2>3 DEF TakeJob
  <2> QED BY <2>2, <2>4 DEF RunMoves, Copying
<1> QED BY <1>1, <1>2, <1>3, <1>4, RunSame DEF QueueStep, Quiet, vars

-----------------------------------------------------------------------------
(* The steps of a run with its copies *)

LEMMA LoadKeeps ==
  ASSUME TypeOK, EvidenceInv, NEW r \in Runners, LoadRowAndPlace(r)
  PROVE  EvidenceInv'
<1>1. /\ run[r].pc = "load" /\ run[r].scan \in Scans
      /\ found' = [found EXCEPT ![r] = [NotFound EXCEPT !.result.place = place[run[r].scan]]]
      /\ UNCHANGED <<given, stored, made, links, shown>>
  BY DEF LoadRowAndPlace, LoadScanRow, TypeOK
<1>2. PICK at \in Places : at = place[run[r].scan]
  BY <1>1 DEF EvidenceInv, EvidenceTypes
<1> DEFINE Loaded == [known : {FALSE}, todo : {{}}, result : [analysis : {0}, has : {{}}, place : {at}]]
<1>3. [NotFound EXCEPT !.result.place = at] \in Loaded
  <2>1. /\ NotFound \in [known : {FALSE}, todo : {{}}, result : [analysis : {0}, has : {{}}, place : {"local"}]]
        /\ NotFound.result = NoAnalysis
    BY DEF NotFound, NoAnalysis
  <2>2. [NoAnalysis EXCEPT !.place = at] \in [analysis : {0}, has : {{}}, place : {at}]
    BY DEF NoAnalysis
  <2> QED BY <2>1, <2>2
<1>4. [NotFound EXCEPT !.result.place = at] \in Found
  <2>1. \A x \in Loaded : x \in Found
    <3>1. [analysis : {0}, has : {{}}, place : {at}] \subseteq Analysis
      BY DEF Analysis
    <3> QED BY <3>1 DEF Found
  <2> QED BY <1>3, <2>1, Zenon
<1>5. EvidenceTypes'
  BY <1>1, <1>2, <1>4 DEF EvidenceInv, EvidenceTypes, given, stored, shown
<1>6. \A q \in Runners : q # r => run'[q] = run[q] /\ found'[q] = found[q]
  BY <1>1 DEF EvidenceInv, EvidenceTypes, LoadRowAndPlace, LoadScanRow, Goto, Throw, TypeOK
<1>7. /\ found'[r].known = FALSE /\ found'[r].todo = {} /\ found'[r].result.place = at
      /\ run'[r].pc \in {"settle", "mark", "error"} /\ run'[r].scan = run[r].scan
  <2>1. found'[r] \in Loaded
    BY <1>1, <1>2, <1>3 DEF EvidenceInv, EvidenceTypes
  <2>2. run'[r].pc \in {"settle", "mark", "error"} /\ run'[r].scan = run[r].scan
    BY DEF LoadRowAndPlace, LoadScanRow, Goto, Throw, TypeOK, Run
  <2> QED BY <2>1, <2>2
<1>8. RunSound(r)'
  BY <1>1, <1>2, <1>7 DEF RunSound, Holding, stored
<1>9. Grows
  BY <1>1, <1>5 DEF EvidenceInv, EvidenceTypes, Grows, stored
<1>10. \A q \in Runners : RunSound(q)'
  <2>1. \A s \in Scans : ~Holding(r, s)'
    BY <1>7 DEF Holding
  <2> QED BY <1>1, <1>5, <1>6, <1>8, <1>9, <2>1, OneRun DEF stored
<1> QED BY <1>1, <1>5, <1>9, <1>10, RestKept DEF EvidenceInv

\* What becomes of one field of what a runner has found.
FoundNow(f, g, r, new) ==
  g \in [Runners -> Found] /\ g[r] = new /\ \A q \in Runners \ {r} : g[q] = f[q]

LEMMA FoundKnown ==
  ASSUME NEW f \in [Runners -> Found], NEW r \in Runners
  PROVE  FoundNow(f, [f EXCEPT ![r].known = TRUE], r, [f[r] EXCEPT !.known = TRUE])
<1>1. [f[r] EXCEPT !.known = TRUE] \in Found
  BY DEF Found
<1> QED BY <1>1 DEF FoundNow

LEMMA FoundTodo ==
  ASSUME NEW f \in [Runners -> Found], NEW r \in Runners, NEW E \in SUBSET Evidence
  PROVE  FoundNow(f, [f EXCEPT ![r].todo = E], r, [f[r] EXCEPT !.todo = E])
<1>1. [f[r] EXCEPT !.todo = E] \in Found
  BY DEF Found
<1> QED BY <1>1 DEF FoundNow

LEMMA FoundAnalysis ==
  ASSUME NEW f \in [Runners -> Found], NEW r \in Runners, NEW n \in Nat
  PROVE  FoundNow(f, [f EXCEPT ![r].result.analysis = n], r,
                  [f[r] EXCEPT !.result = [f[r].result EXCEPT !.analysis = n]])
<1>1. [f[r].result EXCEPT !.analysis = n] \in Analysis
  BY DEF Found, Analysis
<1>2. \A x \in Analysis : [f[r] EXCEPT !.result = x] \in Found
  BY DEF Found
<1> QED BY <1>1, <1>2 DEF FoundNow

LEMMA FoundHas ==
  ASSUME NEW f \in [Runners -> Found], NEW r \in Runners, NEW E \in SUBSET Evidence
  PROVE  FoundNow(f, [f EXCEPT ![r].result.has = E], r,
                  [f[r] EXCEPT !.result = [f[r].result EXCEPT !.has = E]])
<1>1. [f[r].result EXCEPT !.has = E] \in Analysis
  BY DEF Found, Analysis
<1>2. \A x \in Analysis : [f[r] EXCEPT !.result = x] \in Found
  BY DEF Found
<1> QED BY <1>1, <1>2 DEF FoundNow

LEMMA AnalyseEffect ==
  ASSUME TypeOK, EvidenceTypes, NEW r \in Runners, Analyse(r)
  PROVE  LET s == run[r].scan IN
         /\ run[r].pc = "detect" /\ s \in Scans /\ ~found[r].known
         /\ made' = [made EXCEPT ![s] = @ + 1] /\ UNCHANGED <<run, given, stored, links, shown>>
         /\ found' \in [Runners -> Found]
         /\ \A q \in Runners \ {r} : found'[q] = found[q]
         /\ found'[r].known /\ found'[r].result.analysis = made[s] + 1 /\ found'[r].result.has = foreign
         /\ found'[r].result.place = found[r].result.place
<1> DEFINE s == run[r].scan
           f1 == [found EXCEPT ![r].known = TRUE]
           f2 == [f1 EXCEPT ![r].todo = Evidence \ foreign]
           f3 == [f2 EXCEPT ![r].result.analysis = made[s] + 1]
           f4 == [f3 EXCEPT ![r].result.has = foreign]
<1>1. /\ run[r].pc = "detect" /\ s \in Scans /\ ~found[r].known /\ made[s] \in Nat
      /\ made' = [made EXCEPT ![s] = @ + 1] /\ made'[s] = made[s] + 1
      /\ UNCHANGED <<run, given, stored, links, shown>>
  BY DEF Analyse, TypeOK, EvidenceTypes, vars
<1>2. foreign \in SUBSET Evidence /\ Evidence \ foreign \in SUBSET Evidence
  BY DEF EvidenceTypes, Evidence
<1>3. found' = f4
  BY <1>1 DEF Analyse
<1>4. PICK n \in Nat : n = made[s] + 1
  BY <1>1
<1>5. FoundNow(found, f1, r, [found[r] EXCEPT !.known = TRUE])
  BY FoundKnown DEF EvidenceTypes
<1>6. FoundNow(f1, f2, r, [f1[r] EXCEPT !.todo = Evidence \ foreign])
  <2>1. f1 \in [Runners -> Found]
    BY <1>5 DEF FoundNow
  <2> HIDE DEF f1
  <2> QED BY <1>2, <2>1, FoundTodo
<1>7. FoundNow(f2, f3, r, [f2[r] EXCEPT !.result = [f2[r].result EXCEPT !.analysis = n]])
  <2>1. f2 \in [Runners -> Found]
    BY <1>6 DEF FoundNow
  <2> HIDE DEF f2
  <2> QED BY <1>4, <2>1, FoundAnalysis
<1>8. FoundNow(f3, f4, r, [f3[r] EXCEPT !.result = [f3[r].result EXCEPT !.has = foreign]])
  <2>1. f3 \in [Runners -> Found]
    BY <1>7 DEF FoundNow
  <2> HIDE DEF f3
  <2> QED BY <1>2, <2>1, FoundHas
<1>9. found[r] \in Found /\ f1[r] \in Found /\ f2[r] \in Found /\ f3[r] \in Found
  <2> HIDE DEF f1, f2, f3
  <2> QED BY <1>5, <1>6, <1>7 DEF EvidenceTypes, FoundNow
<1>10. /\ f4[r].known /\ f4[r].result.analysis = n /\ f4[r].result.has = foreign
       /\ f4[r].result.place = found[r].result.place
  <2> HIDE DEF f1, f2, f3, f4
  <2>1. f1[r].known /\ f1[r].result = found[r].result
    BY <1>5, <1>9 DEF Found, FoundNow
  <2>2. f2[r].known /\ f2[r].result = f1[r].result
    BY <1>6, <1>9, <2>1 DEF Found, FoundNow
  <2>3. f3[r].known /\ f3[r].result = [f2[r].result EXCEPT !.analysis = n]
    BY <1>7, <1>9, <2>2 DEF Found, FoundNow
  <2>4. f4[r].known /\ f4[r].result = [f3[r].result EXCEPT !.has = foreign]
    BY <1>8, <1>9, <2>3 DEF Found, FoundNow
  <2>5. f2[r].result \in Analysis /\ f3[r].result \in Analysis
    BY <1>9 DEF Found
  <2> QED BY <2>1, <2>2, <2>3, <2>4, <2>5 DEF Analysis
<1>11. f4 \in [Runners -> Found] /\ \A q \in Runners \ {r} : f4[q] = found[q]
  <2> HIDE DEF f1, f2, f3, f4
  <2> QED BY <1>5, <1>6, <1>7, <1>8 DEF FoundNow
<1> HIDE DEF f4
<1> QED BY <1>1, <1>3, <1>4, <1>10, <1>11

LEMMA AnalyseKeeps ==
  ASSUME TypeOK, EvidenceInv, NEW r \in Runners, Analyse(r)
  PROVE  EvidenceInv'
<1> DEFINE s == run[r].scan
<1>0. EvidenceTypes /\ RunSound(r)
  BY DEF EvidenceInv
<1>1. /\ run[r].pc = "detect" /\ s \in Scans /\ ~found[r].known
      /\ made' = [made EXCEPT ![s] = @ + 1] /\ UNCHANGED <<run, given, stored, links, shown>>
      /\ found' \in [Runners -> Found]
      /\ \A q \in Runners \ {r} : found'[q] = found[q]
      /\ found'[r].known /\ found'[r].result.analysis = made[s] + 1 /\ found'[r].result.has = foreign
      /\ found'[r].result.place = found[r].result.place
  BY <1>0, AnalyseEffect
<1>2. made \in [Scans -> Nat] /\ made' \in [Scans -> Nat] /\ made'[s] = made[s] + 1
  BY <1>0, <1>1 DEF EvidenceTypes
<1>3. EvidenceTypes'
  BY <1>0, <1>1, <1>2 DEF EvidenceTypes, given, stored, shown
<1>4. Grows
  BY <1>0, <1>1, <1>2 DEF EvidenceTypes, Grows, stored
<1>5. /\ payload[s].analysis \in 0..made[s] /\ page[s].of \in 0..made[s] /\ tile[s].under \in 0..made[s]
  <2>1. PayloadSound(s) /\ PageSound(s) /\ TileSound(s)
    BY <1>1 DEF EvidenceInv
  <2>2. payload[s].analysis \in 0..made[s]
    <3>1. NoAnalysis.analysis = 0 /\ OldAnalysis.analysis = 0
      BY DEF NoAnalysis, OldAnalysis
    <3> QED BY <1>1, <1>2, <2>1, <3>1 DEF PayloadSound, CopiesThere
  <2> QED BY <2>1, <2>2 DEF PageSound, TileSound
<1>6. \A t \in Scans : Holding(r, t)' => t = s
  BY <1>1 DEF Holding
<1>7. CopiesThere(s, found[r].result)'
  <2>1. \A e \in foreign : Copied(s, found[r].result.place, e)'
    BY <1>1 DEF Copied, given
  <2>2. found'[r].result.place = "s3" => place'[s] = "s3"
    BY <1>0, <1>1 DEF RunSound, stored
  <2> QED BY <1>1, <1>2, <2>1, <2>2 DEF CopiesThere, Copied, given
<1>8. ASSUME NEW q \in Runners \ {r}, Holding(q, s) PROVE found'[r].result.analysis # found[q].result.analysis
  <2>1. found[q].result.analysis \in 1..made[s]
    BY <1>1, <1>8 DEF EvidenceInv, RunSound, CopiesThere
  <2> QED BY <1>1, <1>2, <2>1
<1>9. RunSound(r)'
  <2>1. found'[r].result.analysis \notin {payload'[s].analysis, page'[s].of, tile'[s].under}
    BY <1>1, <1>2, <1>5 DEF stored, shown
  <2>2. \A q \in Runners : Holding(q, s)' /\ q # r => found'[q].result.analysis # found'[r].result.analysis
    BY <1>1, <1>8 DEF Holding
  <2> QED BY <1>0, <1>1, <1>6, <1>7, <2>1, <2>2 DEF RunSound, stored
<1>10. \A q \in Runners : RunSound(q)'
  BY <1>1, <1>3, <1>4, <1>6, <1>8, <1>9, OneRun DEF stored
<1> QED BY <1>1, <1>3, <1>4, <1>10, RestKept DEF EvidenceInv

\* What becomes of the files when one is written.
LEMMA SaveEffect ==
  ASSUME EvidenceTypes, NEW s \in Scans, NEW at \in Places, NEW e \in Evidence, NEW n \in Nat \ {0},
         SaveDerivedAsset(s, at, e, n)
  PROVE  LET b == [analysis |-> n, of |-> e] IN
         /\ store' \in [Scans -> [Places -> [Evidence -> Bytes \union {NoBytes}]]]
         /\ store'[s][at][File(e)] = b /\ b # NoBytes
         /\ \A t \in Scans, p \in Places, f \in Evidence :
              store'[t][p][f] = IF t = s /\ p = at /\ f = File(e) THEN b ELSE store[t][p][f]
<1> DEFINE b == [analysis |-> n, of |-> e]
<1>1. store \in [Scans -> [Places -> [Evidence -> Bytes \union {NoBytes}]]] /\ File(e) \in Evidence
  BY FilesAreEvidence DEF EvidenceTypes
<1>2. b \in Bytes
  BY DEF Bytes
<1>3. store' = [store EXCEPT ![s] = [store[s] EXCEPT ![at] = [store[s][at] EXCEPT ![File(e)] = b]]]
  BY DEF SaveDerivedAsset
<1>4. b # NoBytes
  BY DEF NoBytes
<1> HIDE DEF b
<1>5. [store[s][at] EXCEPT ![File(e)] = b] \in [Evidence -> Bytes \union {NoBytes}]
  BY <1>1, <1>2
<1>6. [store[s] EXCEPT ![at] = [store[s][at] EXCEPT ![File(e)] = b]] \in [Places -> [Evidence -> Bytes \union {NoBytes}]]
  BY <1>1, <1>5
<1>7. store' \in [Scans -> [Places -> [Evidence -> Bytes \union {NoBytes}]]]
  BY <1>1, <1>3, <1>6
<1>8. \A t \in Scans, p \in Places, f \in Evidence :
        store'[t][p][f] = IF t = s /\ p = at /\ f = File(e) THEN b ELSE store[t][p][f]
  BY <1>1, <1>3
<1> QED BY <1>1, <1>4, <1>7, <1>8 DEF b

LEMMA EndKeeps ==
  ASSUME TypeOK, EvidenceInv, NEW r \in Runners, EndRun(r)
  PROVE  EvidenceInv'
<1>1. /\ run' = [run EXCEPT ![r] = IdleRun] /\ found' = [found EXCEPT ![r] = NotFound]
      /\ UNCHANGED <<given, stored, made, links, shown>>
  BY DEF EndRun, Settle
<1>2. EvidenceTypes /\ run \in [Runners -> Run]
  BY DEF EvidenceInv, TypeOK
<1>3. NotFound \in Found
  BY DEF NotFound, NoAnalysis, Found, Analysis, Places
<1>4. EvidenceTypes'
  BY <1>1, <1>2, <1>3 DEF EvidenceTypes, given, stored, shown
<1>5. Grows
  BY <1>1, <1>2 DEF EvidenceTypes, Grows, stored
<1>6. run'[r].pc = "idle"
  BY <1>1, <1>2 DEF IdleRun
<1>7. \A q \in Runners \ {r} : run'[q] = run[q] /\ found'[q] = found[q]
  BY <1>1, <1>2 DEF EvidenceTypes
<1>8. RunSound(r)' /\ \A s \in Scans : ~Holding(r, s)'
  BY <1>6 DEF RunSound, Holding
<1>9. \A q \in Runners : RunSound(q)'
  BY <1>1, <1>4, <1>5, <1>7, <1>8, OneRun DEF stored
<1> QED BY <1>1, <1>4, <1>5, <1>9, RestKept DEF EvidenceInv

\* A row is emptied, or moved; no run and no page is told.
LEMMA RowsChange ==
  ASSUME TypeOK, EvidenceInv, EvidenceTypes', Grows, UNCHANGED <<store, found, made, shown>>,
         \A q \in Runners : RunMoves(q),
         \A s \in Scans : payload'[s] \in {payload[s], NoAnalysis},
         \A s \in Scans : place'[s] # place[s] => place[s] = "local"
  PROVE  EvidenceInv'
<1>0. EvidenceTypes
  BY DEF EvidenceInv
<1>1. StoreSound'
  BY DEF EvidenceInv, StoreSound, Grows, given, File
<1>2. ASSUME NEW q \in Runners PROVE RunSound(q)'
  <2>1. RunSound(q) /\ RunMoves(q)
    BY DEF EvidenceInv
  <2>2. \A p \in Runners, s \in Scans : Holding(p, s)' => Holding(p, s)
    <3> TAKE p \in Runners, s \in Scans
    <3>1. RunSound(p) /\ RunMoves(p)
      BY DEF EvidenceInv
    <3> QED BY <3>1 DEF Holding, RunMoves, RunSound, Copying
  <2>3. ASSUME NEW s \in Scans, Holding(q, s)
        PROVE  found[q].result.analysis \notin {payload'[s].analysis, page'[s].of, tile'[s].under}
    BY <2>1, <2>3 DEF RunSound, CopiesThere, NoAnalysis, shown
  <2> QED BY <1>0, <2>1, <2>2, <2>3, RunKept DEF RunSound, shown
<1>3. ASSUME NEW s \in Scans PROVE PayloadSound(s)' /\ PageSound(s)' /\ TileSound(s)' /\ HeatmapSound(s)'
  <2>1. PayloadSound(s) /\ PageSound(s) /\ TileSound(s) /\ HeatmapSound(s)
    BY HeatmapsSound DEF EvidenceInv
  <2>2. PageWaits(s)
    BY <1>0 DEF PageWaits, shown, EvidenceTypes
  <2>3. payload'[s] = payload[s] =>
          \/ LeftBehind(s)'
          \/ /\ LeftBehind(s) => LeftBehind(s)'
             /\ Overwritten(s, file[Watched]) => Overwritten(s, file[Watched])'
    <3>1. CASE place'[s] = place[s]
      BY <3>1 DEF LeftBehind, Overwritten, Grows, given, File
    <3>2. CASE place'[s] # place[s]
      <4>1. place[s] = "local" /\ place'[s] = "s3"
        BY <3>2, <1>0 DEF EvidenceTypes, Places
      <4>2. payload[s].place = "local"
        <5>1. payload[s] \in Analysis /\ NoAnalysis.place = "local" /\ OldAnalysis.place = "local"
          BY <1>0 DEF EvidenceTypes, NoAnalysis, OldAnalysis
        <5> QED BY <2>1, <4>1, <5>1 DEF PayloadSound, CopiesThere, Analysis, Places
      <4> QED BY <4>1, <4>2 DEF LeftBehind
    <3> QED BY <3>1, <3>2
  <2> QED BY <1>0, <2>1, <2>2, <2>3, PayloadKept, PageKept, HeatmapKept DEF Grows
<1> QED BY <1>1, <1>2, <1>3 DEF EvidenceInv, HeatmapExplained, HeatmapSound

LEMMA RowStepKeeps ==
  ASSUME TypeOK, EvidenceInv,
         \/ \E s \in Scans : DeleteScanAndPayload(s) \/ MoveToS3(s)
         \/ \E a \in Admins : ResetRowAndPayload(a)
         \/ LinksAge
  PROVE  EvidenceInv'
<1>0. EvidenceTypes
  BY DEF EvidenceInv
<1>1. NoAnalysis \in Analysis
  BY DEF NoAnalysis, Analysis, Places
<1>2. ASSUME NEW s \in Scans, DeleteScanAndPayload(s) PROVE EvidenceInv'
  <2>1. payload' \in [Scans -> Analysis] /\ \A t \in Scans : payload'[t] \in {payload[t], NoAnalysis}
    BY <1>0, <1>1, <1>2 DEF EvidenceTypes, DeleteScanAndPayload
  <2>2. UNCHANGED <<given, place, store, found, made, links, shown, run>>
    BY <1>2 DEF DeleteScanAndPayload, DeleteScan
  <2>3. EvidenceTypes' /\ Grows
    BY <1>0, <2>1, <2>2 DEF EvidenceTypes, Grows, given, shown
  <2> QED BY <2>1, <2>2, <2>3, RunSame, RowsChange
<1>3. ASSUME NEW a \in Admins, ResetRowAndPayload(a) PROVE EvidenceInv'
  <2>0. adm[a].scan \in Scans
    BY <1>3 DEF ResetRowAndPayload, ResetRow, TypeOK
  <2>1. payload' \in [Scans -> Analysis] /\ \A t \in Scans : payload'[t] \in {payload[t], NoAnalysis}
    BY <1>0, <1>1, <1>3, <2>0 DEF EvidenceTypes, ResetRowAndPayload
  <2>2. UNCHANGED <<given, place, store, found, made, links, shown, run>>
    BY <1>3 DEF ResetRowAndPayload, ResetRow
  <2>3. EvidenceTypes' /\ Grows
    BY <1>0, <2>1, <2>2 DEF EvidenceTypes, Grows, given, shown
  <2> QED BY <2>1, <2>2, <2>3, RunSame, RowsChange
<1>4. ASSUME NEW s \in Scans, MoveToS3(s) PROVE EvidenceInv'
  <2>1. /\ place' \in [Scans -> Places] /\ place[s] = "local"
        /\ \A t \in Scans : place'[t] = IF t = s THEN "s3" ELSE place[t]
    BY <1>0, <1>4 DEF EvidenceTypes, MoveToS3, Places
  <2>2. UNCHANGED <<given, payload, store, found, made, links, shown, run>>
    BY <1>4 DEF MoveToS3, vars
  <2>3. EvidenceTypes' /\ Grows
    BY <1>0, <2>1, <2>2 DEF EvidenceTypes, Grows, given, shown
  <2> QED BY <2>1, <2>2, <2>3, RunSame, RowsChange
<1>5. CASE LinksAge
  <2>1. UNCHANGED <<given, place, payload, store, found, made, shown, run>>
    BY <1>5 DEF LinksAge, vars, stored
  <2>2. EvidenceTypes' /\ Grows
    BY <1>0, <2>1 DEF EvidenceTypes, Grows, given, shown
  <2> QED BY <2>1, <2>2, RunSame, RowsChange
<1> QED BY <1>2, <1>3, <1>4, <1>5

LEMMA PersistEffect ==
  ASSUME TypeOK, EvidenceInv, NEW r \in Runners, NEW e \in Evidence, Persist(r, e)
  PROVE  LET s == run[r].scan IN
         /\ run[r].pc = "detect" /\ s \in Scans /\ found[r].known
         /\ UNCHANGED <<run, given, place, payload, made, shown>>
         /\ found' \in [Runners -> Found]
         /\ \A q \in Runners \ {r} : found'[q] = found[q]
         /\ found'[r].known /\ found'[r].result.analysis = found[r].result.analysis
         /\ found'[r].result.place = found[r].result.place
         /\ \/ found'[r].result.has = found[r].result.has /\ store' = store
            \/ /\ found'[r].result.has = found[r].result.has \union {e}
               /\ SaveDerivedAsset(s, found[r].result.place, e, found[r].result.analysis)
<1> DEFINE f1 == [found EXCEPT ![r].todo = found[r].todo \ {e}]
           f2 == [f1 EXCEPT ![r].result.has = f1[r].result.has \union {e}]
<1>1. /\ run[r].pc = "detect" /\ run[r].scan \in Scans /\ e \in found[r].todo
      /\ UNCHANGED <<run, given, place, payload, made, shown>>
  BY DEF Persist, vars, TypeOK
<1>2. found \in [Runners -> Found] /\ found[r] \in Found /\ found[r].todo \in SUBSET Evidence
  BY DEF EvidenceInv, EvidenceTypes, Found
<1>3. found[r].known
  BY <1>1 DEF EvidenceInv, RunSound
<1>4. FoundNow(found, f1, r, [found[r] EXCEPT !.todo = found[r].todo \ {e}])
  <2>1. found[r].todo \ {e} \in SUBSET Evidence
    BY <1>2
  <2> QED BY <1>2, <2>1, FoundTodo
<1>5. f1[r] \in Found /\ f1[r].known /\ f1[r].result = found[r].result
  <2> HIDE DEF f1
  <2> QED BY <1>2, <1>3, <1>4 DEF FoundNow, Found
<1>6. FoundNow(f1, f2, r, [f1[r] EXCEPT !.result = [f1[r].result EXCEPT !.has = f1[r].result.has \union {e}]])
  <2>1. f1 \in [Runners -> Found]
    BY <1>4 DEF FoundNow
  <2>2. f1[r].result.has \union {e} \in SUBSET Evidence
    BY <1>5 DEF Found, Analysis
  <2> HIDE DEF f1
  <2> QED BY <2>1, <2>2, FoundHas
<1>7. f2[r].known /\ f2[r].result = [f1[r].result EXCEPT !.has = f1[r].result.has \union {e}]
  <2> HIDE DEF f1, f2
  <2> QED BY <1>5, <1>6 DEF FoundNow, Found
<1>8. \/ found' = f1 /\ store' = store
      \/ found' = f2 /\ SaveDerivedAsset(run[r].scan, found[r].result.place, e, found[r].result.analysis)
  BY DEF Persist
<1>9. found[r].result \in Analysis
  BY <1>2 DEF Found
<1> HIDE DEF f1, f2
<1>10. CASE found' = f1 /\ store' = store
  BY <1>1, <1>3, <1>4, <1>5, <1>10 DEF FoundNow
<1>11. CASE found' = f2 /\ SaveDerivedAsset(run[r].scan, found[r].result.place, e, found[r].result.analysis)
  <2>1. found' \in [Runners -> Found] /\ \A q \in Runners \ {r} : found'[q] = found[q]
    BY <1>4, <1>6, <1>11 DEF FoundNow
  <2>2. found'[r].known /\ found'[r].result = [found[r].result EXCEPT !.has = found[r].result.has \union {e}]
    BY <1>5, <1>7, <1>11
  <2> QED BY <1>1, <1>3, <1>9, <1>11, <2>1, <2>2 DEF Analysis
<1> QED BY <1>8, <1>10, <1>11

LEMMA PersistKeeps ==
  ASSUME TypeOK, EvidenceInv, NEW r \in Runners, NEW e \in Evidence, Persist(r, e)
  PROVE  EvidenceInv'
<1> DEFINE s == run[r].scan
<1>0. EvidenceTypes /\ StoreSound /\ RunSound(r)
  BY DEF EvidenceInv
<1>1. /\ run[r].pc = "detect" /\ s \in Scans /\ found[r].known
      /\ UNCHANGED <<run, given, place, payload, made, shown>>
      /\ found' \in [Runners -> Found]
      /\ \A q \in Runners \ {r} : found'[q] = found[q]
      /\ found'[r].known /\ found'[r].result.analysis = found[r].result.analysis
      /\ found'[r].result.place = found[r].result.place
      /\ \/ found'[r].result.has = found[r].result.has /\ store' = store
         \/ /\ found'[r].result.has = found[r].result.has \union {e}
            /\ SaveDerivedAsset(s, found[r].result.place, e, found[r].result.analysis)
  BY PersistEffect
<1>2. Holding(r, s) /\ CopiesThere(s, found[r].result)
      /\ found[r].result.analysis \notin {payload[s].analysis, page[s].of, tile[s].under}
      /\ \A q \in Runners : Holding(q, s) /\ q # r => found[q].result.analysis # found[r].result.analysis
  BY <1>0, <1>1 DEF Holding, RunSound
<1>3. PICK n, at : n = found[r].result.analysis /\ at = found[r].result.place
  OBVIOUS
<1>4. n \in 1..made[s] /\ made[s] \in Nat /\ at \in Places /\ n \in Nat \ {0}
  <2>1. n \in 1..made[s] /\ made[s] \in Nat
    BY <1>0, <1>1, <1>2, <1>3 DEF CopiesThere, EvidenceTypes
  <2>2. at \in Places
    BY <1>0, <1>3 DEF EvidenceTypes, Found, Analysis
  <2> QED BY <2>1, <2>2
<1>5. /\ store' \in [Scans -> [Places -> [Evidence -> Bytes \union {NoBytes}]]]
      /\ store'[s][at][File(e)] # NoBytes \/ (store' = store /\ found'[r].result.has = found[r].result.has)
  <2>1. CASE store' = store /\ found'[r].result.has = found[r].result.has
    BY <1>0, <2>1 DEF EvidenceTypes
  <2>2. CASE SaveDerivedAsset(s, at, e, n)
    <3>1. /\ store' \in [Scans -> [Places -> [Evidence -> Bytes \union {NoBytes}]]]
          /\ store'[s][at][File(e)] = [analysis |-> n, of |-> e] /\ [analysis |-> n, of |-> e] # NoBytes
      BY <1>0, <1>1, <1>4, <2>2, SaveEffect
    <3> QED BY <3>1
  <2> QED BY <1>1, <1>3, <2>1, <2>2
<1>6. \A t \in Scans, p \in Places, f \in Evidence :
        \/ store'[t][p][f] = store[t][p][f]
        \/ /\ t = s /\ f = File(e) /\ store'[t][p][f] = [analysis |-> n, of |-> e]
           /\ store'[t][p][f] # NoBytes
  <2>1. CASE store' = store
    BY <2>1
  <2>2. CASE store' # store
    <3>1. SaveDerivedAsset(s, at, e, n)
      BY <1>1, <1>3, <2>2
    <3> QED BY <1>0, <1>1, <1>4, <3>1, SaveEffect
  <2> QED BY <2>1, <2>2
<1>7. EvidenceTypes'
  <2>1. store' \in [Scans -> [Places -> [Evidence -> Bytes \union {NoBytes}]]]
    BY <1>0, <1>5 DEF EvidenceTypes
  <2> QED BY <1>0, <1>1, <2>1 DEF EvidenceTypes, given, shown
<1>8. Grows
  <2>1. \A t \in Scans : made'[t] = made[t] /\ made[t] \in Nat
    BY <1>0, <1>1 DEF EvidenceTypes
  <2> QED BY <1>1, <1>6, <2>1 DEF Grows
<1>9. StoreSound'
  <2>1. \A x : File(x)' = File(x)
    BY <1>1 DEF File, given
  <2>2. made' = made
    BY <1>1
  <2> QED BY <1>0, <1>4, <1>6, <2>1, <2>2 DEF StoreSound
<1>10. CopiesThere(s, found[r].result)'
  <2>1. PICK p \in Analysis : p = found[r].result
    BY <1>0 DEF EvidenceTypes, Found
  <2>2. CopiesThere(s, p)'
    BY <1>0, <1>1, <1>2, <1>7, <1>8, <2>1, CopiesKept
  <2>3. Copied(s, p.place, e)' \/ found'[r].result.has = p.has
    <3>1. s' = s /\ p.place = at /\ foreign' = foreign /\ File(e)' = File(e)
      BY <1>1, <1>3, <2>1 DEF File, given
    <3> QED BY <1>5, <2>1, <3>1 DEF Copied
  <2> QED BY <1>1, <2>1, <2>2, <2>3 DEF CopiesThere
<1>11. \A q \in Runners, t \in Scans : Holding(q, t)' <=> Holding(q, t)
  BY <1>1 DEF Holding
<1>12. RunSound(r)'
  <2>1. \A t \in Scans : Holding(r, t)' => t = s
    BY <1>1 DEF Holding
  <2>2. found'[r].result.analysis \notin {payload'[s].analysis, page'[s].of, tile'[s].under}
    BY <1>1, <1>2 DEF shown
  <2>3. \A q \in Runners : Holding(q, s)' /\ q # r => found'[q].result.analysis # found'[r].result.analysis
    BY <1>1, <1>2, <1>11
  <2>4. found'[r].result.place = "s3" => place'[run'[r].scan] = "s3"
    BY <1>0, <1>1 DEF RunSound
  <2> QED BY <1>1, <1>10, <2>1, <2>2, <2>3, <2>4 DEF RunSound
<1>13. \A q \in Runners : RunSound(q)'
  <2>1. \A q \in Runners \ {r}, t \in Scans : Holding(q, t) /\ Holding(r, t)' =>
           found'[r].result.analysis # found[q].result.analysis
    BY <1>1, <1>2 DEF Holding
  <2> QED BY <1>1, <1>7, <1>8, <1>12, <2>1, OneRun
<1>14. ASSUME NEW t \in Scans PROVE PayloadSound(t)' /\ PageSound(t)' /\ TileSound(t)' /\ HeatmapSound(t)'
  <2>1. PayloadSound(t) /\ PageSound(t) /\ TileSound(t) /\ HeatmapSound(t)
    BY HeatmapsSound DEF EvidenceInv
  <2>2. PageWaits(t)
    BY <1>1, <1>8 DEF PageWaits, shown, Grows
  <2>3. LeftBehind(t) => LeftBehind(t)'
    BY <1>1 DEF LeftBehind
  <2>4. Overwritten(t, file[Watched]) => Overwritten(t, file[Watched])'
    <3>1. file[Watched] \in Evidence /\ place[t] \in Places
      BY <1>0, EvidenceAssumption DEF EvidenceTypes, Evidence
    <3>2. /\ file' = file /\ payload' = payload /\ place' = place /\ n # 0
          /\ t = s => n # payload[t].analysis
      BY <1>1, <1>2, <1>3, <1>4 DEF given
    <3> QED BY <1>6, <3>1, <3>2 DEF Overwritten, File
  <2> QED BY <1>0, <1>1, <1>7, <1>8, <2>1, <2>2, <2>3, <2>4, PayloadKept, PageKept, HeatmapKept
<1> QED BY <1>7, <1>9, <1>13, <1>14 DEF EvidenceInv, HeatmapExplained, HeatmapSound

\* The result a run records is of an analysis no row and no page has heard of.
LEMMA RecordKeeps ==
  ASSUME TypeOK, EvidenceInv, NEW r \in Runners, RecordResultAndRefs(r)
  PROVE  EvidenceInv'
<1> DEFINE s == run[r].scan
<1>0. EvidenceTypes /\ StoreSound /\ RunSound(r)
  BY DEF EvidenceInv
<1>1. /\ run[r].pc = "write" /\ s \in Scans /\ run \in [Runners -> Run]
      /\ UNCHANGED <<given, place, store, found, made, links, shown>>
      /\ Goto(r, "settle") \/ Throw(r, "plain")
      /\ \/ payload' = payload
         \/ payload' = [payload EXCEPT ![s] = found[r].result]
  BY DEF RecordResultAndRefs, RecordResult, Refs, TypeOK, DbError
<1>2. /\ Holding(r, s) /\ CopiesThere(s, found[r].result)
      /\ found[r].result.analysis \notin {0, page[s].of, tile[s].under}
      /\ \A q \in Runners : Holding(q, s) /\ q # r => found[q].result.analysis # found[r].result.analysis
  <2>1. Holding(r, s)
    BY <1>0, <1>1 DEF Holding, RunSound
  <2>2. made[s] \in Nat
    BY <1>0, <1>1 DEF EvidenceTypes
  <2> QED BY <1>0, <1>1, <2>1, <2>2 DEF RunSound, CopiesThere
<1>3. PICK p \in Analysis : p = found[r].result
  BY <1>0 DEF EvidenceTypes, Found
<1>4. EvidenceTypes' /\ Grows
  <2>1. payload' \in [Scans -> Analysis]
    BY <1>0, <1>1, <1>3 DEF EvidenceTypes
  <2> QED BY <1>0, <1>1, <2>1 DEF EvidenceTypes, Grows, given, shown
<1>5. /\ \A q \in Runners : RunMoves(q)
      /\ run'[r].pc \notin Copying
      /\ \A q \in Runners \ {r} : run'[q] = run[q]
  <2>1. run'[r].pc \in {"settle", "error"} /\ \A q \in Runners \ {r} : run'[q] = run[q]
    BY <1>1 DEF Goto, Throw, Run
  <2> QED BY <2>1 DEF RunMoves, Copying
<1>6. \A t \in Scans : payload'[t] = payload[t] \/ (t = s /\ payload'[t] = p)
  BY <1>0, <1>1, <1>3 DEF EvidenceTypes
<1>7. StoreSound'
  BY <1>0, <1>1 DEF StoreSound, given, File
<1>8. ASSUME NEW q \in Runners PROVE RunSound(q)'
  <2>1. RunSound(q) /\ RunMoves(q)
    BY <1>5 DEF EvidenceInv
  <2>2. CASE q = r
    BY <1>5, <2>2 DEF RunSound, Holding, Copying
  <2>3. CASE q # r
    <3>1. \A x \in Runners, t \in Scans : Holding(x, t)' => Holding(x, t)
      BY <1>1, <1>5 DEF Holding, Copying
    <3>2. ASSUME NEW t \in Scans, Holding(q, t)
          PROVE  /\ found[q].result.analysis \notin {payload'[t].analysis, page'[t].of, tile'[t].under}
                 /\ \A x \in Runners : Holding(x, t)' /\ x # q =>
                      found'[x].result.analysis # found[q].result.analysis
      <4>1. found[q].result.analysis \notin {payload[t].analysis, page[t].of, tile[t].under}
        BY <2>1, <3>2 DEF RunSound
      <4>2. t = s => found[q].result.analysis # p.analysis
        BY <1>2, <1>3, <2>3, <3>2
      <4>3. page' = page /\ tile' = tile /\ found' = found
        BY <1>1 DEF shown
      <4>4. \A x \in Runners : Holding(x, t) /\ x # q => found[x].result.analysis # found[q].result.analysis
        BY <2>1, <3>2 DEF RunSound
      <4> QED BY <1>6, <3>1, <4>1, <4>2, <4>3, <4>4
    <3>3. found' = found
      BY <1>1
    <3> QED BY <1>0, <1>4, <2>1, <3>2, <3>3, RunKept
  <2> QED BY <2>2, <2>3
<1>9. ASSUME NEW t \in Scans PROVE PayloadSound(t)' /\ PageSound(t)' /\ TileSound(t)' /\ HeatmapSound(t)'
  <2>1. PayloadSound(t) /\ PageSound(t) /\ TileSound(t) /\ HeatmapSound(t)
    BY HeatmapsSound DEF EvidenceInv
  <2>2. PageWaits(t)
    <3>1. t = s => p.analysis \notin {0, page[t].of, tile[t].under}
      BY <1>2, <1>3
    <3>2. page' = page /\ tile' = tile /\ made' = made /\ made[t] \in Nat
      BY <1>0, <1>1 DEF shown, EvidenceTypes
    <3> QED BY <1>6, <3>1, <3>2 DEF PageWaits
  <2>3. payload'[t] = payload[t] =>
          /\ LeftBehind(t) => LeftBehind(t)'
          /\ Overwritten(t, file[Watched]) => Overwritten(t, file[Watched])'
    BY <1>1 DEF LeftBehind, Overwritten, given, File
  <2>4. PayloadSound(t)'
    <3>1. CASE payload'[t] = payload[t]
      BY <1>0, <1>4, <2>1, <3>1, PayloadKept
    <3>2. CASE t = s /\ payload'[t] = p
      <4>1. CopiesThere(t, p)
        BY <1>2, <1>3, <3>2
      <4>2. CopiesThere(t, p)'
        BY <1>0, <1>4, <4>1, CopiesKept
      <4> QED BY <3>2, <4>2 DEF PayloadSound
    <3> QED BY <1>6, <3>1, <3>2
  <2> QED BY <1>0, <1>1, <1>4, <2>1, <2>2, <2>3, <2>4, PageKept, HeatmapKept
<1> QED BY <1>4, <1>7, <1>8, <1>9 DEF EvidenceInv, HeatmapExplained, HeatmapSound

-----------------------------------------------------------------------------
(* The page *)

LEMMA AnswerSound ==
  ASSUME EvidenceTypes, NEW s \in Scans, PayloadSound(s)
  PROVE  LET a == FormatScanRow(s) IN
         /\ a \in Page /\ a.of = payload[s].analysis /\ a.of \in 0..made[s]
         /\ a.old => a.of = 0
         /\ a.of = 0 => a.buttons = {} /\ (~a.old => a.heatmaps = {})
         /\ a.heatmaps \subseteq payload[s].has /\ a.buttons \subseteq payload[s].has
         /\ a.old <=> IsOld(payload[s])
<1> DEFINE a == FormatScanRow(s)
<1>1. payload[s] \in Analysis /\ made[s] \in Nat /\ Models \cap Artifacts = {}
  BY EvidenceAssumption DEF EvidenceTypes
<1>2. /\ a.of = payload[s].analysis /\ a.old = IsOld(payload[s]) /\ a.buttons = payload[s].has \cap Artifacts
      /\ a.heatmaps \in {{}, payload[s].has \cap Models} /\ a.expired \in BOOLEAN
      /\ ~a.old => a.heatmaps = payload[s].has \cap Models
  BY DEF FormatScanRow, Buttons, IsOld
<1>3. a \in Page
  <2>1. payload[s].analysis \in Nat /\ IsOld(payload[s]) \in BOOLEAN /\ (IsOld(payload[s]) /\ links # "good") \in BOOLEAN
    BY <1>1 DEF Analysis, IsOld
  <2> QED BY <2>1 DEF FormatScanRow, Page, Buttons
<1>4. payload[s].analysis \in 0..made[s]
  BY <1>1 DEF PayloadSound, CopiesThere, NoAnalysis, OldAnalysis
<1>5. IsOld(payload[s]) => payload[s].analysis = 0 /\ payload[s].has = Models
  BY DEF IsOld, OldAnalysis, NoAnalysis
<1>6. payload[s].analysis = 0 => payload[s].has = {} \/ IsOld(payload[s])
  <2>1. CopiesThere(s, payload[s]) => payload[s].analysis # 0
    BY <1>1 DEF CopiesThere
  <2> QED BY <2>1 DEF PayloadSound, NoAnalysis, IsOld
<1> QED BY <1>1, <1>2, <1>3, <1>4, <1>5, <1>6

LEMMA NoPageNoTile == NoPage \in Page /\ NoTile \in Tile
BY DEF NoPage, Page, NoTile, Tile

\* A step of one page, which tells the page no more than the row does.
LEMMA OnePage ==
  ASSUME TypeOK, EvidenceInv, NEW s \in Scans,
         UNCHANGED <<vars, given, stored, found, made>>,
         page' \in [Scans -> Page], tile' \in [Scans -> Tile],
         \A t \in Scans \ {s} : page'[t] = page[t] /\ tile'[t] = tile[t],
         page'[s].of \in {page[s].of, payload[s].analysis, 0},
         tile'[s].under \in {tile[s].under, payload[s].analysis, 0},
         PageSound(s)', TileSound(s)', HeatmapSound(s)'
  PROVE  EvidenceInv'
<1>0. EvidenceTypes /\ StoreSound
  BY DEF EvidenceInv
<1>1. run' = run /\ found' = found /\ made' = made /\ payload' = payload /\ place' = place /\ store' = store
      /\ file' = file /\ foreign' = foreign
  BY DEF vars, stored, given
<1>2. EvidenceTypes' /\ Grows
  BY <1>0, <1>1 DEF EvidenceTypes, Grows, given
<1>3. StoreSound'
  BY <1>0, <1>1 DEF StoreSound, File
<1>4. ASSUME NEW q \in Runners PROVE RunSound(q)'
  <2>1. RunSound(q) /\ RunMoves(q)
    BY <1>1 DEF EvidenceInv, RunMoves
  <2>2. \A p \in Runners, t \in Scans : Holding(p, t)' <=> Holding(p, t)
    BY <1>1 DEF Holding
  <2>3. ASSUME NEW t \in Scans, Holding(q, t)
        PROVE  found[q].result.analysis \notin {payload'[t].analysis, page'[t].of, tile'[t].under}
    <3>1. found[q].result.analysis \notin {payload[t].analysis, page[t].of, tile[t].under}
      BY <2>1, <2>3 DEF RunSound
    <3>2. found[q].result.analysis # 0
      BY <1>0, <2>1, <2>3 DEF RunSound, CopiesThere, EvidenceTypes
    <3> QED BY <1>1, <3>1, <3>2
  <2>4. \A t \in Scans : Holding(q, t) =>
          \A p \in Runners : Holding(p, t)' /\ p # q => found'[p].result.analysis # found[q].result.analysis
    BY <1>1, <2>1, <2>2 DEF RunSound
  <2> QED BY <1>0, <1>1, <1>2, <2>1, <2>3, <2>4, RunKept
<1>5. ASSUME NEW t \in Scans PROVE PayloadSound(t)' /\ PageSound(t)' /\ TileSound(t)' /\ HeatmapSound(t)'
  <2>1. PayloadSound(t) /\ PageSound(t) /\ TileSound(t) /\ HeatmapSound(t)
    BY HeatmapsSound DEF EvidenceInv
  <2>2. PayloadSound(t)'
    BY <1>0, <1>1, <1>2, <2>1, PayloadKept
  <2>3. CASE t # s
    <3>1. PageWaits(t)
      BY <1>0, <1>1, <2>3 DEF PageWaits, EvidenceTypes
    <3>2. /\ LeftBehind(t) => LeftBehind(t)'
          /\ Overwritten(t, file[Watched]) => Overwritten(t, file[Watched])'
      BY <1>1 DEF LeftBehind, Overwritten, File
    <3> QED BY <1>0, <1>2, <2>1, <2>2, <3>1, <3>2, PageKept, HeatmapKept
  <2> QED BY <2>2, <2>3
<1> QED BY <1>2, <1>3, <1>4, <1>5 DEF EvidenceInv, HeatmapExplained, HeatmapSound

\* The page hears what the row says; its tile is kept, or loads anew.
LEMMA AnswerKeeps ==
  ASSUME TypeOK, EvidenceInv, NEW s \in Scans,
         UNCHANGED <<vars, given, stored, found, made>>,
         page' = [page EXCEPT ![s] = FormatScanRow(s)],
         \/ SameSource(s, page'[s]) /\ tile' = tile
         \/ tile' = [tile EXCEPT ![s] = NewTile(page'[s])]
  PROVE  EvidenceInv'
<1>0. EvidenceTypes /\ PayloadSound(s) /\ PageSound(s) /\ TileSound(s) /\ HeatmapSound(s)
  BY HeatmapsSound DEF EvidenceInv
<1>1. PICK a : a = FormatScanRow(s)
  OBVIOUS
<1>2. /\ a \in Page /\ a.of = payload[s].analysis /\ a.of \in 0..made[s]
      /\ a.old => a.of = 0
      /\ a.of = 0 => a.buttons = {} /\ (~a.old => a.heatmaps = {})
      /\ a.heatmaps \subseteq payload[s].has /\ a.buttons \subseteq payload[s].has
  BY <1>0, <1>1, AnswerSound
<1>3. /\ page' \in [Scans -> Page] /\ page'[s] = a
      /\ \A t \in Scans \ {s} : page'[t] = page[t]
  BY <1>0, <1>1, <1>2 DEF EvidenceTypes
<1>4. PICK n : n = NewTile(a)
  OBVIOUS
<1>5. /\ n \in Tile /\ n.under \in {0, a.of} /\ n.shows \in {"none", "loading"}
      /\ n.shows = "loading" => Watched \in a.heatmaps /\ n.under = a.of
  BY <1>2, <1>4, NoPageNoTile DEF NewTile, NoTile, Tile, Page
<1>6. tile' = tile \/ tile' = [tile EXCEPT ![s] = n]
  BY <1>3, <1>4
<1>7. /\ tile' \in [Scans -> Tile]
      /\ \A t \in Scans \ {s} : tile'[t] = tile[t]
      /\ tile'[s] \in {tile[s], n}
  BY <1>0, <1>5, <1>6 DEF EvidenceTypes
<1>8. /\ made' = made /\ payload' = payload /\ place' = place /\ store' = store
      /\ file' = file /\ foreign' = foreign
  BY DEF stored, given
<1>9. PageSound(s)'
  BY <1>2, <1>3, <1>8 DEF PageSound
<1>10. CASE tile'[s] = n
  <2>1. made[s] \in Nat /\ a.old \in BOOLEAN
    BY <1>0, <1>2 DEF EvidenceTypes, Page
  <2>2. TileSound(s)'
    BY <1>2, <1>3, <1>5, <1>8, <1>10, <2>1 DEF TileSound
  <2>3. HeatmapSound(s)'
    BY <1>5, <1>10 DEF HeatmapSound
  <2> QED BY <1>2, <1>3, <1>5, <1>7, <1>9, <1>10, <2>2, <2>3, OnePage
<1>11. CASE SameSource(s, page'[s]) /\ tile' = tile
  <2>1. Watched \in a.heatmaps /\ page[s].old = a.old
    BY <1>3, <1>11 DEF SameSource
  <2>2. TileSound(s)'
    BY <1>0, <1>2, <1>3, <1>8, <1>11, <2>1 DEF TileSound
  <2>3. HeatmapSound(s)'
    <3>1. CASE tile[s].shows = "none" \/ tile[s].under # a.of
      BY <1>3, <1>11, <3>1 DEF HeatmapSound
    <3>2. CASE a.of = 0
      <4>1. page'[s].of = 0
        BY <1>3, <3>2
      <4> QED BY <1>9, <2>2, <4>1, EvidenceAssumption DEF PageSound, TileSound, HeatmapSound
    <3>3. CASE tile[s].shows # "none" /\ tile[s].under = a.of /\ a.of # 0
      <4>1. page[s].of = a.of /\ page'[s].of = page[s].of
        BY <1>0, <1>2, <1>3, <3>3 DEF TileSound
      <4> QED BY <1>0, <1>8, <1>11, <4>1 DEF HeatmapSound, Current, LeftBehind, Overwritten, File
    <3> QED BY <3>1, <3>2, <3>3
  <2> QED BY <1>2, <1>3, <1>7, <1>9, <1>11, <2>2, <2>3, OnePage
<1> QED BY <1>3, <1>4, <1>5, <1>7, <1>10, <1>11, <1>6

\* A copy the row names, of a page that is up to date and was not left behind, is served.
LEMMA CopyServed ==
  ASSUME EvidenceInv, NEW s \in Scans, NEW e \in Evidence, e \in payload[s].has, e \notin foreign,
         payload[s].analysis # 0, ~LeftBehind(s)
  PROVE  LET b == Stream(s, File(e)) IN
         /\ b # NoBytes /\ b.of \in Evidence /\ File(b.of) = File(e)
         /\ b.analysis = payload[s].analysis \/ Overwritten(s, File(e))
<1>1. EvidenceTypes /\ StoreSound /\ PayloadSound(s)
  BY DEF EvidenceInv
<1>2. CopiesThere(s, payload[s])
  BY <1>1 DEF PayloadSound, NoAnalysis, OldAnalysis
<1>3. place[s] = payload[s].place /\ place[s] \in Places /\ File(e) \in Evidence /\ made[s] \in Nat
  BY <1>1, FilesAreEvidence DEF LeftBehind, EvidenceTypes
<1>4. PICK b : b = store[s][place[s]][File(e)]
  OBVIOUS
<1>5. b # NoBytes
  BY <1>2, <1>3, <1>4 DEF CopiesThere, Copied
<1>6. b.of \in Evidence /\ File(b.of) = File(e) /\ b.analysis \in 1..made[s]
  BY <1>1, <1>3, <1>4, <1>5 DEF StoreSound
<1>7. b.analysis = payload[s].analysis \/ Overwritten(s, File(e))
  BY <1>3, <1>4, <1>6 DEF Overwritten
<1> QED BY <1>4, <1>5, <1>6, <1>7 DEF Stream

LEMMA LoadTileKeeps ==
  ASSUME TypeOK, EvidenceInv, NEW s \in Scans, LoadTile(s)
  PROVE  EvidenceInv'
<1>0. EvidenceTypes /\ PayloadSound(s) /\ PageSound(s) /\ TileSound(s) /\ page[s] \in Page /\ tile[s] \in Tile
  BY DEF EvidenceInv, EvidenceTypes
<1>1. /\ tile[s].shows = "loading" /\ page' = page
      /\ UNCHANGED <<vars, given, stored, found, made>>
  BY DEF LoadTile
<1>2. PICK n : n = IF page[s].old THEN LinkTile(s) ELSE CopyTile(s)
  OBVIOUS
<1>3. PICK c : c = HeatmapServed(s, file[Watched])
  OBVIOUS
<1>4. file[Watched] \in Evidence /\ place[s] \in Places /\ Watched \in Models
  BY <1>0, EvidenceAssumption DEF EvidenceTypes, Evidence
<1>5. c \in Bytes \union {NoBytes}
  BY <1>0, <1>3, <1>4 DEF HeatmapServed, Stream, EvidenceTypes
<1>6. CASE page[s].old
  <2>1. n = [tile[s] EXCEPT !.shows = IF links = "expired" THEN "expired" ELSE "heatmap",
                            !.bytes = [analysis |-> 0, of |-> Watched]]
    BY <1>2, <1>6 DEF LinkTile
  <2>2. [analysis |-> 0, of |-> Watched] \in Bytes
    BY <1>4 DEF Bytes, Evidence
  <2> QED
    <3>1. /\ n \in Tile /\ n.under = tile[s].under /\ n.shows \in {"expired", "heatmap"}
          /\ n.bytes = [analysis |-> 0, of |-> Watched]
      BY <1>0, <2>1, <2>2 DEF Tile
    <3>2. /\ tile' \in [Scans -> Tile] /\ tile'[s] = n /\ \A t \in Scans \ {s} : tile'[t] = tile[t]
      BY <1>0, <1>2, <3>1 DEF LoadTile, EvidenceTypes
    <3>3. PageSound(s)' /\ TileSound(s)'
      BY <1>0, <1>1, <1>6, <3>1, <3>2 DEF PageSound, TileSound, Current, stored
    <3>4. HeatmapSound(s)'
      BY <1>0, <1>1, <1>6, <3>3, EvidenceAssumption DEF PageSound, TileSound, HeatmapSound
    <3> QED BY <1>0, <1>1, <3>1, <3>2, <3>3, <3>4, OnePage DEF EvidenceTypes
<1>7. CASE ~page[s].old
  <2>1. n = [tile[s] EXCEPT !.shows = IF c = NoBytes THEN "error" ELSE "heatmap", !.bytes = c]
    BY <1>2, <1>3, <1>7 DEF CopyTile
  <2>2. /\ n \in Tile /\ n.under = tile[s].under /\ n.shows \in {"error", "heatmap"} /\ n.bytes = c
    BY <1>0, <1>5, <2>1 DEF Tile
  <2>3. /\ tile' \in [Scans -> Tile] /\ tile'[s] = n /\ \A t \in Scans \ {s} : tile'[t] = tile[t]
    BY <1>0, <1>2, <2>2 DEF LoadTile, EvidenceTypes
  <2>4. PageSound(s)' /\ TileSound(s)'
    BY <1>0, <1>1, <1>7, <2>2, <2>3 DEF PageSound, TileSound, Current, stored
  <2>5. ASSUME Current(s), ~LeftBehind(s)
        PROVE  \/ c.analysis = page[s].of /\ c.of \in Models /\ file[c.of] = file[Watched]
               \/ Overwritten(s, file[Watched])
    <3>1. Watched \in page[s].heatmaps /\ page[s].of # 0
      BY <1>0, <1>1, <1>7 DEF TileSound, PageSound
    <3>2. /\ payload[s].analysis = page[s].of /\ payload[s].analysis # 0 /\ Watched \in payload[s].has
          /\ Watched \in Evidence /\ Watched \notin foreign /\ File(Watched) = file[Watched]
      BY <1>0, <1>4, <2>5, <3>1, EvidenceAssumption DEF PageSound, Current, Evidence, EvidenceTypes, File
    <3>3. HeatmapRef(s, file[Watched])
      BY <1>4, <3>2 DEF HeatmapRef, IsOld, OldAnalysis, NoAnalysis
    <3>4. c = Stream(s, File(Watched))
      BY <1>3, <3>2, <3>3 DEF HeatmapServed
    <3>5. /\ c.of \in Evidence /\ File(c.of) = file[Watched]
          /\ c.analysis = payload[s].analysis \/ Overwritten(s, file[Watched])
      BY <2>5, <3>2, <3>4, CopyServed
    <3>6. c.of \in Models
      BY <1>0, <1>4, <3>5, EvidenceAssumption DEF File, Evidence, EvidenceTypes
    <3> QED BY <3>2, <3>5, <3>6 DEF File
  <2>6. HeatmapSound(s)'
    <3>1. /\ payload' = payload /\ place' = place /\ store' = store /\ file' = file /\ page' = page
      BY <1>1 DEF stored, given
    <3>2. /\ Current(s)' <=> Current(s)
          /\ LeftBehind(s)' <=> LeftBehind(s)
          /\ Overwritten(s, file[Watched])' <=> Overwritten(s, file[Watched])
      BY <3>1 DEF Current, LeftBehind, Overwritten, File
    <3> QED BY <2>2, <2>3, <2>5, <3>1, <3>2 DEF HeatmapSound
  <2> QED BY <1>0, <1>1, <2>2, <2>3, <2>4, <2>6, OnePage DEF EvidenceTypes
<1> QED BY <1>6, <1>7

LEMMA PageStepKeeps ==
  ASSUME TypeOK, EvidenceInv, NEW s \in Scans, PageStep(s)
  PROVE  EvidenceInv'
<1>0. EvidenceTypes
  BY DEF EvidenceInv
<1>1. CASE FetchDetail(s)
  <2>1. \/ SameSource(s, page'[s]) /\ tile' = tile
        \/ tile' = [tile EXCEPT ![s] = NewTile(page'[s])]
    BY <1>1 DEF FetchDetail
  <2> QED BY <1>1, <2>1, AnswerKeeps DEF FetchDetail
<1>2. CASE LeavePage(s)
  <2>1. /\ page' = [page EXCEPT ![s] = NoPage] /\ tile' = [tile EXCEPT ![s] = NoTile]
        /\ UNCHANGED <<vars, given, stored, found, made>>
    BY <1>2 DEF LeavePage
  <2>2. page' \in [Scans -> Page] /\ tile' \in [Scans -> Tile] /\ page'[s] = NoPage /\ tile'[s] = NoTile
    BY <1>0, <2>1, NoPageNoTile DEF EvidenceTypes
  <2>3. made'[s] \in Nat
    BY <1>0, <2>1 DEF EvidenceTypes
  <2>4. PageSound(s)' /\ TileSound(s)' /\ HeatmapSound(s)'
    BY <2>2, <2>3 DEF PageSound, TileSound, HeatmapSound, NoPage, NoTile
  <2>5. page'[s].of = 0 /\ tile'[s].under = 0
    BY <2>2 DEF NoPage, NoTile
  <2> QED BY <1>0, <2>1, <2>2, <2>4, <2>5, OnePage DEF EvidenceTypes
<1>3. CASE LoadTile(s)
  BY <1>3, LoadTileKeeps
<1>4. CASE RetryTile(s)
  BY <1>4, AnswerKeeps DEF RetryTile
<1> QED BY <1>1, <1>2, <1>3, <1>4 DEF PageStep

-----------------------------------------------------------------------------
(* The theorems *)

\* Every step is one of ScanPipeline, or leaves its state alone.
LEMMA EvidenceSteps == NextWithEvidence => [Next]_vars
<1> SUFFICES ASSUME NextWithEvidence PROVE [Next]_vars
  OBVIOUS
<1>1. ASSUME NEW r, EvidenceRunnerStep(r) PROVE RunnerStep(r) \/ UNCHANGED vars
  BY <1>1 DEF EvidenceRunnerStep, LoadRowAndPlace, Analyse, Persist, DetectAndPersist,
    RecordResultAndRefs, EndRun, RunnerStep
<1>2. ASSUME NEW s \in Scans, CreateScan(s) \/ DispatchScanAfterInsert(s) \/ GrowStale(s) \/ QueueStep(s)
      PROVE  Next
  BY <1>2 DEF Next
<1>3. ASSUME NEW s \in Scans, DeleteScanAndPayload(s) PROVE Next
  BY <1>3 DEF DeleteScanAndPayload, Next
<1>4. ASSUME NEW s \in Scans, MoveToS3(s) \/ PageStep(s) PROVE UNCHANGED vars
  BY <1>4 DEF MoveToS3, PageStep, FetchDetail, LeavePage, LoadTile, RetryTile
<1>5. ASSUME NEW t \in DirectTasks, EvidenceDirectStep(t) PROVE [Next]_vars
  BY <1>1, <1>5 DEF EvidenceDirectStep, DirectStep, Next
<1>6. ASSUME NEW w \in Workers, EvidenceWorkerStep(w) PROVE [Next]_vars
  BY <1>1, <1>6 DEF EvidenceWorkerStep, WorkerStep, Next
<1>7. ASSUME NEW a \in Admins, EvidenceAdminStep(a) PROVE Next
  <2>1. AdminStep(a)
    BY <1>7 DEF EvidenceAdminStep, ResetRowAndPayload, AdminStep
  <2> QED BY <2>1 DEF Next
<1>8. CASE LinksAge
  BY <1>8 DEF LinksAge
<1> QED BY <1>2, <1>3, <1>4, <1>5, <1>6, <1>7, <1>8 DEF NextWithEvidence

LEMMA EvidenceStarts ==
  InitWithEvidence => TypeOK /\ EvidenceInv
<1> SUFFICES ASSUME InitWithEvidence PROVE TypeOK /\ EvidenceInv
  OBVIOUS
<1>1. TypeOK /\ \A r \in Runners : run[r].pc = "idle"
  <2>1. CASE Init
    BY <2>1, TypeInit DEF Init, IdleRun
  <2>2. CASE ~Init
    <3>1. /\ row = [s \in Scans |-> OldRow] /\ api = [s \in Scans |-> "done"]
          /\ job = [s \in Scans |-> NoJob] /\ run = [r \in Runners |-> IdleRun]
          /\ adm = [a \in Admins |-> IdleAdmin] /\ starts = [s \in Scans |-> 0]
      BY <2>2 DEF InitWithEvidence
    <3>2. OldRow \in Row
      BY DEF OldRow, BlankRow, Row
    <3>3. IdleRun.pc = "idle" /\ IdleAdmin.pc = "idle"
      BY DEF IdleRun, IdleAdmin
    <3> QED BY <3>1, <3>2, <3>3, IdleTypes DEF TypeOK
  <2> QED BY <2>1, <2>2
<1>2. /\ place = [s \in Scans |-> "local"] /\ found = [r \in Runners |-> NotFound]
      /\ store = [s \in Scans |-> [p \in Places |-> [e \in Evidence |-> NoBytes]]]
      /\ made = [s \in Scans |-> 0] /\ page = [s \in Scans |-> NoPage] /\ tile = [s \in Scans |-> NoTile]
      /\ foreign \in SUBSET Artifacts
      /\ \A s \in Scans : payload[s] \in {NoAnalysis, OldAnalysis}
      /\ payload \in [Scans -> {NoAnalysis, OldAnalysis}]
  BY DEF InitWithEvidence, EvidenceInit
<1>3. file \in [Models -> Models]
  <2>1. (CHOOSE x \in Models : TRUE) \in Models
    BY EvidenceAssumption
  <2> QED BY <2>1 DEF InitWithEvidence, EvidenceInit
<1>4. /\ NoAnalysis \in Analysis /\ OldAnalysis \in Analysis /\ NotFound \in Found
  <2>1. NoAnalysis \in Analysis
    BY DEF NoAnalysis, Analysis, Places
  <2>2. OldAnalysis \in Analysis
    BY <2>1 DEF OldAnalysis, Analysis, Evidence
  <2> QED BY <2>1, <2>2 DEF NotFound, Found
<1>5. EvidenceTypes
  BY <1>2, <1>3, <1>4, NoPageNoTile DEF EvidenceTypes, Places
<1>6. StoreSound
  BY <1>2 DEF StoreSound
<1>7. \A r \in Runners : RunSound(r)
  BY <1>1 DEF RunSound, Holding
<1>8. ASSUME NEW s \in Scans PROVE PayloadSound(s) /\ PageSound(s) /\ TileSound(s)
  <2>1. made[s] = 0 /\ page[s] = NoPage /\ tile[s] = NoTile
    BY <1>2
  <2> QED BY <1>2, <2>1 DEF PayloadSound, PageSound, TileSound, NoPage, NoTile
<1>9. HeatmapExplained
  BY <1>2 DEF HeatmapExplained, NoTile
<1> QED BY <1>1, <1>5, <1>6, <1>7, <1>8, <1>9 DEF EvidenceInv

LEMMA EvidenceNext ==
  TypeOK /\ EvidenceInv /\ [NextWithEvidence]_allVars => EvidenceInv'
<1> SUFFICES ASSUME TypeOK, EvidenceInv, [NextWithEvidence]_allVars PROVE EvidenceInv'
  OBVIOUS
<1>1. CASE UNCHANGED allVars
  <2>1. UNCHANGED evidence /\ UNCHANGED vars
    BY <1>1 DEF allVars
  <2> QED BY <2>1, QuietOthers, QuietKeeps
<1>2. ASSUME NEW r \in Runners,
             \/ EvidenceRunnerStep(r)
             \/ (HandleProcessorError(r) \/ FailDirectTask(r)) /\ UNCHANGED evidence
      PROVE  EvidenceInv'
  <2>1. CASE LoadRowAndPlace(r)
    BY <2>1, LoadKeeps
  <2>2. CASE Analyse(r)
    BY <2>2, AnalyseKeeps
  <2>3. CASE \E e \in Evidence : Persist(r, e)
    BY <2>3, PersistKeeps
  <2>4. CASE RecordResultAndRefs(r)
    BY <2>4, RecordKeeps
  <2>5. CASE EndRun(r)
    BY <2>5, EndKeeps
  <2>6. CASE \/ StartProcessing(r) /\ UNCHANGED evidence
             \/ DetectAndPersist(r)
             \/ HandleProcessorError(r) /\ UNCHANGED evidence
             \/ FailDirectTask(r) /\ UNCHANGED evidence
    BY <2>6, QuietRunner, QuietKeeps
  <2> QED BY <1>2, <2>1, <2>2, <2>3, <2>4, <2>5, <2>6 DEF EvidenceRunnerStep
<1>3. ASSUME NEW s \in Scans,
             CreateScan(s) \/ DispatchScanAfterInsert(s) \/ GrowStale(s) \/ QueueStep(s), UNCHANGED evidence
      PROVE  EvidenceInv'
  BY <1>3, QuietOthers, QuietKeeps
<1>4. ASSUME NEW s \in Scans, DeleteScanAndPayload(s) \/ MoveToS3(s) PROVE EvidenceInv'
  BY <1>4, RowStepKeeps
<1>5. ASSUME NEW t \in DirectTasks, EvidenceDirectStep(t) PROVE EvidenceInv'
  <2>1. t \in Runners
    BY DEF DirectTasks, Runners
  <2> QED BY <1>2, <1>5, <2>1 DEF EvidenceDirectStep
<1>6. ASSUME NEW w \in Workers, EvidenceWorkerStep(w) PROVE EvidenceInv'
  <2>1. w \in Runners
    BY DEF Runners
  <2> QED BY <1>2, <1>6, <2>1 DEF EvidenceWorkerStep
<1>7. ASSUME NEW a \in Admins, EvidenceAdminStep(a) PROVE EvidenceInv'
  <2>1. CASE ResetRowAndPayload(a)
    BY <2>1, RowStepKeeps
  <2>2. CASE ~ResetRowAndPayload(a)
    BY <1>7, <2>2, QuietOthers, QuietKeeps DEF EvidenceAdminStep
  <2> QED BY <2>1, <2>2
<1>8. ASSUME NEW s \in Scans, PageStep(s) PROVE EvidenceInv'
  BY <1>8, PageStepKeeps
<1>9. CASE LinksAge
  BY <1>9, RowStepKeeps
<1> QED BY <1>1, <1>3, <1>4, <1>5, <1>6, <1>7, <1>8, <1>9 DEF NextWithEvidence

\* Types; the copies that rows and runs name are stored, under names of theirs; the analysis a
\* run has in hand is known to no row, no page and no other run; a page knows no more than its
\* row while both are of one analysis; a tile is explained.  In both modes, whatever overlaps.
THEOREM EvidenceInvariant == SpecWithEvidence => [](TypeOK /\ EvidenceInv)
<1>1. InitWithEvidence => TypeOK /\ EvidenceInv
  BY EvidenceStarts
<1>2. TypeOK /\ EvidenceInv /\ [NextWithEvidence]_allVars => (TypeOK /\ EvidenceInv)'
  <2> SUFFICES ASSUME TypeOK, EvidenceInv, [NextWithEvidence]_allVars PROVE TypeOK' /\ EvidenceInv'
    OBVIOUS
  <2>1. [Next]_vars
    BY EvidenceSteps DEF allVars
  <2> QED BY <2>1, TypeNext, EvidenceNext
<1> QED BY <1>1, <1>2, PTL DEF SpecWithEvidence

LEMMA EvidenceInvExplains == EvidenceInv => EvidenceExplained
<1> SUFFICES ASSUME EvidenceInv PROVE EvidenceExplained
  OBVIOUS
<1>1. ASSUME NEW s \in Scans, NEW paid \in BOOLEAN, NEW k \in page[s].buttons,
             k \notin foreign, paid, Current(s), ~LeftBehind(s), ~Overwritten(s, k)
      PROVE  Opened(s, k, paid) = [analysis |-> page[s].of, of |-> k]
  <2>1. EvidenceTypes /\ PageSound(s) /\ page[s] \in Page
    BY DEF EvidenceInv, EvidenceTypes
  <2>2. k \in Artifacts /\ k \notin Models /\ k \in Evidence /\ File(k) = k
    BY <1>1, <2>1, EvidenceAssumption DEF Page, Evidence, File
  <2>3. page[s].of # 0
    BY <1>1, <2>1 DEF PageSound
  <2>4. k \in payload[s].has /\ payload[s].analysis = page[s].of
    BY <1>1, <2>1, <2>3 DEF PageSound, Current
  <2>5. PICK b : b = Stream(s, k)
    OBVIOUS
  <2>6. /\ b # NoBytes /\ b.of \in Evidence /\ File(b.of) = k /\ b.analysis = page[s].of
    BY <1>1, <2>2, <2>3, <2>4, <2>5, CopyServed
  <2>7. b.of = k
    BY <2>1, <2>2, <2>6 DEF File, EvidenceTypes
  <2>8. b \in Bytes
    BY <2>1, <2>2, <2>5, <2>6 DEF Stream, EvidenceTypes
  <2>9. Opened(s, k, paid) = b
    BY <1>1, <2>4, <2>5 DEF Opened, ArtifactServed, Artifact, ScopedToScan
  <2> QED BY <2>6, <2>7, <2>8, <2>9 DEF Bytes
<1>2. ArtifactExplained
  BY <1>1 DEF ArtifactExplained
<1> QED BY <1>2 DEF EvidenceInv, EvidenceExplained

\* A heatmap or an artifact a page shows or opens is of the analysis the page shows, or one of
\* the named reasons holds (persistRdHeatmaps, persistRdArtifacts, ResolvedHeatmapTile,
\* ArtifactViewButton): for any scans, runners, models and artifacts, and in both modes.
THEOREM EvidenceIsExplained == SpecWithEvidence => []EvidenceExplained
BY EvidenceInvariant, EvidenceInvExplains, PTL

=============================================================================
