----------------------------- MODULE ProviderRun -----------------------------
(***************************************************************************)
(* One scan and the detection providers its row selects: the loop of       *)
(* runDetection (apps/worker/src/detection/index.js), the columns of the   *)
(* row it feeds through markProviderStatus, markFailed and markCompleted,  *)
(* the polling of Reality Defender, and the attempts of the job around it. *)
(*                                                                         *)
(* ScanPipeline sees all this as one step, Detect, with three outcomes;    *)
(* here one job is followed alone, through failures of providers, of       *)
(* Postgres and of the worker, and through requeues.                       *)
(***************************************************************************)
EXTENDS Naturals, Sequences, SequencesExt

CONSTANTS
  Selected,       \* selected_providers of the row, in order, without repetition
  Pollers,        \* those that answer through polling (reality_defender)
  MaxAttempts,    \* attempts of the job (3 in the code)
  MaxStalls,      \* bound: crashes BullMQ recovers from (its maxStalledCount)
  MaxDbErrors,    \* bound: statements that Postgres rejects
  MaxRequeues,    \* bound: requeues by an operator
  PollInterval,   \* REALITY_DEFENDER_POLL_INTERVAL_MS
  PollTimeout,    \* REALITY_DEFENDER_POLL_TIMEOUT_MS
  MaxDelay        \* bound: time a poll takes beyond the interval

Providers == ToSet(Selected)

ASSUME ProviderRunAssumption ==
  /\ Selected \in Seq(Providers) /\ IsInjective(Selected) /\ Selected # <<>>
  /\ Pollers \subseteq Providers
  /\ MaxAttempts \in Nat \ {0} /\ PollInterval \in Nat \ {0} /\ PollTimeout \in Nat \ {0}
  /\ {MaxStalls, MaxDbErrors, MaxRequeues, MaxDelay} \subseteq Nat

VARIABLES
  scan,     \* the row: status, provider_statuses, failed_providers, processors
  job,      \* its job: attempts made, stalls
  run,      \* the run in the worker's memory
  calls,    \* history: media submitted to each provider for this job
  faults    \* statements rejected and requeues so far

vars == <<scan, job, run, calls, faults>>

-----------------------------------------------------------------------------
AllAt(status) == [p \in Providers |-> status]

Scan == [status : {"pending", "processing", "completed", "failed"},
         providers : [Providers -> {"queued", "processing", "completed", "failed"}],
         failed : SUBSET Providers, processors : SUBSET Providers]

\* Of the run: its place; the providers it is still to call; the two lists of
\* runDetection; the time spent polling; what the error it throws carries.
Run == [pc : {"waiting", "mark", "resolve", "next", "call", "sent", "poll", "persist",
              "completed", "failed", "record", "error", "ended"},
        rest : Seq(Providers), detections : SUBSET Providers, failed : SUBSET Providers,
        elapsed : Nat, error : {"none", "plain", "unrecoverable"}, named : SUBSET Providers]

IdleRun(pc) ==
  [pc |-> pc, rest |-> <<>>, detections |-> {}, failed |-> {}, elapsed |-> 0,
   error |-> "none", named |-> {}]

TypeOK ==
  /\ scan \in Scan /\ run \in Run
  /\ job \in [made : 0..MaxAttempts - 1, stalls : 0..MaxStalls]
  /\ calls \in [Providers -> Nat]
  /\ faults \in [db : 0..MaxDbErrors, requeues : 0..MaxRequeues]

Init ==
  /\ scan = [status |-> "pending", providers |-> AllAt("queued"), failed |-> {}, processors |-> {}]
  /\ job = [made |-> 0, stalls |-> 0]
  /\ run = IdleRun("waiting")
  /\ calls = [p \in Providers |-> 0]
  /\ faults = [db |-> 0, requeues |-> 0]

At(pc) == run.pc = pc
Goto(pc) == run' = [run EXCEPT !.pc = pc]
Throw(error, named) == run' = [run EXCEPT !.pc = "error", !.error = error, !.named = named]

Current == Head(run.rest)

\* A statement is rejected: nothing is written and a plain error is thrown, which
\* whoever made the statement catches or not.
Reject == faults.db < MaxDbErrors /\ faults' = [faults EXCEPT !.db = @ + 1] /\ UNCHANGED scan

MarkProviderStatus(status) ==
  scan' = [scan EXCEPT !.providers[Current] = status] /\ UNCHANGED faults

-----------------------------------------------------------------------------
(* processScanById up to the first provider *)

\* A worker takes the job; a completed row is skipped.
TakeJob ==
  /\ At("waiting")
  /\ Goto(IF scan.status = "completed" THEN "ended" ELSE "mark")
  /\ UNCHANGED <<scan, job, calls, faults>>

\* Mutant: only the status of the scan is set.
MarkProcessingKeepingStatuses ==
  /\ At("mark")
  /\ \/ /\ scan' = [scan EXCEPT !.status = "processing", !.failed = {}]
        /\ UNCHANGED faults
        /\ Goto("resolve")
     \/ Reject /\ Throw("plain", {})
  /\ UNCHANGED <<job, calls>>

\* Every selected provider goes back to queued, whatever an earlier run got.
MarkProcessing ==
  /\ At("mark")
  /\ \/ /\ scan' = [scan EXCEPT !.status = "processing", !.providers = AllAt("queued"),
                                !.failed = {}]
        /\ UNCHANGED faults
        /\ Goto("resolve")
     \/ Reject /\ Throw("plain", {})
  /\ UNCHANGED <<job, calls>>

\* Missing media and failed downloads are unrecoverable.
ResolveMediaInput ==
  /\ At("resolve")
  /\ \/ run' = [run EXCEPT !.pc = "next", !.rest = Selected]
     \/ Throw("unrecoverable", {})
  /\ UNCHANGED <<scan, job, calls, faults>>

-----------------------------------------------------------------------------
(* The loop of runDetection *)

\* Outside the try block of the loop: a rejected status ends the whole run.
BeginProvider ==
  /\ At("next") /\ run.rest # <<>>
  /\ \/ MarkProviderStatus("processing") /\ Goto("call")
     \/ Reject /\ Throw("plain", {})
  /\ UNCHANGED <<job, calls>>

Submitted == calls' = [calls EXCEPT ![Current] = @ + 1]

\* The media is sent, or detect throws before that.  Whatever it throws is caught and
\* noted; only the message survives: the class of realProviderErrors.js that would
\* forbid another attempt (UnrecoverableError) is lost.
CallProvider ==
  /\ At("call")
  /\ \/ Submitted /\ Goto("sent")
     \/ UNCHANGED calls /\ Goto("failed")
  /\ UNCHANGED <<scan, job, faults>>

\* The answer to the media: the result, an error, or the beginning of the polling.
AwaitAnswer ==
  /\ At("sent")
  /\ \/ Current \in Pollers /\ run' = [run EXCEPT !.pc = "poll", !.elapsed = 0]
     \/ Goto("persist")
     \/ Goto("failed")
  /\ UNCHANGED <<scan, job, calls, faults>>

\* One GET of the polling loop, which starts before the deadline and takes d, and
\* the delay after it: the result is there, the request fails, or the media is
\* still ANALYZING; then the next poll must start before the deadline too.
PollProvider ==
  /\ At("poll")
  /\ \E d \in 0..MaxDelay :
       \/ Goto("persist")
       \/ Goto("failed")
       \/ /\ run.elapsed + d + PollInterval < PollTimeout
          /\ run' = [run EXCEPT !.elapsed = @ + d + PollInterval]
       \/ /\ run.elapsed + d + PollInterval >= PollTimeout
          /\ Goto("failed")
  /\ UNCHANGED <<scan, job, calls, faults>>

\* normalizeProviderResult may throw; the assets of Reality Defender are saved
\* best effort; then the detection is pushed.
NormalizeAndPersist ==
  /\ At("persist")
  /\ \/ run' = [run EXCEPT !.pc = "completed", !.detections = @ \union {Current}]
     \/ Goto("failed")
  /\ UNCHANGED <<scan, job, calls, faults>>

\* Still inside the try block: when the status is rejected, the provider that was
\* just pushed to detections is pushed to failedProviders as well.
CompleteProvider ==
  /\ At("completed")
  /\ \/ /\ MarkProviderStatus("completed")
        /\ run' = [run EXCEPT !.pc = "next", !.rest = Tail(@)]
     \/ Reject /\ Goto("failed")
  /\ UNCHANGED <<job, calls>>

\* The catch block; a rejected status leaves it, and the run, without names.
FailProvider ==
  /\ At("failed")
  /\ \/ /\ MarkProviderStatus("failed")
        /\ run' = [run EXCEPT !.pc = "next", !.rest = Tail(@), !.failed = @ \union {Current}]
     \/ Reject /\ Throw("plain", {})
  /\ UNCHANGED <<job, calls>>

\* Mutant: the results there are are recorded.
AggregatePartially ==
  /\ At("next") /\ run.rest = <<>>
  /\ IF run.detections = {} THEN Throw("plain", run.failed) ELSE Goto("record")
  /\ UNCHANGED <<scan, job, calls, faults>>

\* After the loop: one failed provider fails the run, with a new plain Error
\* whatever the class of the provider's error was.
Aggregate ==
  /\ At("next") /\ run.rest = <<>>
  /\ IF run.failed # {} THEN Throw("plain", run.failed) ELSE Goto("record")
  /\ UNCHANGED <<scan, job, calls, faults>>

RecordResult ==
  /\ At("record")
  /\ \/ /\ scan' = [scan EXCEPT !.status = "completed", !.failed = {},
                                !.processors = run.detections]
        /\ UNCHANGED faults
        /\ Goto("ended")
     \/ Reject /\ Throw("plain", {})
  /\ UNCHANGED <<job, calls>>

-----------------------------------------------------------------------------
(* The processor around it, BullMQ and the operator *)

WillRetryAfterFailure == job.made + 1 < MaxAttempts

\* Only an unrecoverable error or the last attempt fails the row.
HandleProcessorError ==
  /\ At("error")
  /\ IF run.error = "plain" /\ WillRetryAfterFailure
     THEN /\ job' = [job EXCEPT !.made = @ + 1]
          /\ run' = IdleRun("waiting")
          /\ UNCHANGED <<scan, faults>>
     ELSE /\ \/ /\ scan' = [scan EXCEPT !.status = "failed", !.failed = run.named]
                /\ UNCHANGED faults
             \/ Reject
          /\ run' = IdleRun("ended")
          /\ UNCHANGED job
  /\ UNCHANGED <<calls>>

\* The worker dies; the stalled job is run again from the beginning, without
\* an attempt being counted, or fails.
Crash ==
  /\ run.pc \notin {"waiting", "ended"}
  /\ IF job.stalls < MaxStalls
     THEN run' = IdleRun("waiting") /\ job' = [job EXCEPT !.stalls = @ + 1]
     ELSE run' = IdleRun("ended") /\ UNCHANGED job
  /\ UNCHANGED <<scan, calls, faults>>

\* An operator's retry of a failed scan, or of a completed one with
\* allow_completed=1.  The columns about single providers are not reset.
Requeue ==
  /\ At("ended") /\ scan.status \in {"failed", "completed"}
  /\ faults.requeues < MaxRequeues
  /\ faults' = [faults EXCEPT !.requeues = @ + 1]
  /\ scan' = [scan EXCEPT !.status = "pending", !.processors = {}]
  /\ job' = [made |-> 0, stalls |-> 0]
  /\ run' = IdleRun("waiting")
  /\ calls' = [p \in Providers |-> 0]

WorkerStep ==
  \/ TakeJob \/ MarkProcessing \/ ResolveMediaInput \/ BeginProvider \/ CallProvider
  \/ AwaitAnswer \/ PollProvider \/ NormalizeAndPersist \/ CompleteProvider \/ FailProvider
  \/ Aggregate \/ RecordResult \/ HandleProcessorError

Next == WorkerStep \/ Crash \/ Requeue

Spec == Init /\ [][Next]_vars

-----------------------------------------------------------------------------
(* Properties *)

StatusIs(status) == {p \in Providers : scan.providers[p] = status}

\* A scan is completed with the result of every selected provider and with no
\* provider shown as failed, running or queued; results of some of the
\* providers are never recorded, even when a status write is rejected after a
\* provider's result was accepted.
ResultIsComplete ==
  /\ scan.status = "completed" =>
       scan.processors = Providers /\ StatusIs("completed") = Providers /\ scan.failed = {}
  /\ scan.status # "completed" => scan.processors = {}

\* The providers a failed scan blames are shown as failed, and while Postgres
\* works they are all of those: failed_providers and provider_statuses are
\* written by different statements of different modules.
FailedNamesCulprits ==
  scan.status = "failed" =>
    /\ scan.failed \subseteq StatusIs("failed")
    /\ faults.db = 0 => scan.failed = StatusIs("failed") /\ StatusIs("processing") = {}

\* However the attempts of a job end, media is submitted to a provider at most
\* once per attempt and per recovered crash.
SubmissionBudget == \A p \in Providers : calls[p] <= MaxAttempts + MaxStalls

-----------------------------------------------------------------------------
(* Why the first three hold *)

InLoop == run.pc \in {"next", "call", "sent", "poll", "persist", "completed", "failed"}
Busy == InLoop /\ run.pc # "next"

\* The providers the loop has not come to.
Ahead == IF At("next") THEN ToSet(run.rest) ELSE ToSet(Tail(run.rest))

\* The two lists of runDetection agree with the statuses in the row, provider by
\* provider, also for one that is in both lists.
ListsAgree ==
  InLoop =>
    /\ IsInjective(run.rest)
    /\ \A p \in Ahead : scan.providers[p] = "queued" /\ p \notin run.failed
    /\ Busy => run.rest # <<>> /\ scan.providers[Current] = "processing" /\ Current \notin run.failed
    /\ At("completed") => Current \in run.detections
    /\ \A p \in Providers \ ToSet(run.rest) :
         \/ p \in run.failed /\ scan.providers[p] = "failed"
         \/ p \in run.detections \ run.failed /\ scan.providers[p] = "completed"

\* Whom the row blames once the error is recorded.
Blames(named) ==
  /\ named \subseteq StatusIs("failed")
  /\ faults.db = 0 => named = StatusIs("failed") /\ StatusIs("processing") = {}

OutcomeIsReady ==
  /\ run.pc \in {"waiting", "mark", "resolve"} => run.failed = {}
  /\ At("resolve") => scan.providers = AllAt("queued")
  /\ At("record") => run.detections = Providers /\ scan.providers = AllAt("completed")
  /\ At("error") => Blames(run.named)

\* The row has an outcome only when its job has ended.
OutcomeIsLast == ~At("ended") => scan.status \notin {"completed", "failed"}

\* The providers this run has yet to send the media to.
Unsent ==
  IF run.pc \in {"waiting", "mark", "resolve"} THEN Providers
  ELSE IF run.pc \in {"next", "call"} THEN ToSet(run.rest)
  ELSE IF InLoop THEN ToSet(Tail(run.rest)) ELSE {}

CallsAreCounted ==
  \A p \in Providers :
    calls[p] <= job.made + job.stalls + (IF p \in Unsent THEN 0 ELSE 1)

\* The inductive invariant.
ProviderInv ==
  /\ TypeOK /\ ListsAgree /\ OutcomeIsReady /\ OutcomeIsLast /\ CallsAreCounted
  /\ ResultIsComplete /\ FailedNamesCulprits

=============================================================================
