----------------------------- MODULE ProviderCall -----------------------------
(***************************************************************************)
(* What ProviderRun leaves open in CallProvider, AwaitAnswer and           *)
(* PollProvider: the adapters of apps/worker/src/detection/providers.      *)
(* Which input they refuse before any request, their requests one after    *)
(* the other (the presign, PUT and polls of Reality Defender; one POST of  *)
(* the generic vendor and of Hive), which of them run under a timer, and   *)
(* the class of realProviderErrors.js each failure gets.                   *)
(***************************************************************************)
EXTENDS ProviderRun

CONSTANT Cases   \* the settings of the worker and the media explored

Vendors == {"reality_defender", "generic", "unknown"}

ASSUME CasesAssumption ==
  Cases \subseteq
    [vendor : Vendors,                          \* DETECTION_REAL_VENDOR
     configured : SUBSET Providers,             \* those whose URL and key are set
     multipart : BOOLEAN, urls : BOOLEAN,       \* getRealProviderCapabilities
     probe : BOOLEAN,                           \* HIVE_DEBUG_MEDIA_URL_PROBE
     source : {"upload", "url", "legacy"},      \* legacy: an upload without a stored file
     takes : SUBSET Providers,                  \* those whose list has the MIME type
     size : {"empty", "fits", "large"}]         \* against the limit of the real provider

VARIABLES
  given,   \* one of Cases: fixed for the life of the job
  call     \* detect() of the current provider: where it is and what it threw

callVars == <<scan, job, run, calls, faults, given, call>>

-----------------------------------------------------------------------------
(* The errors of realProviderErrors.js; "plain" is an Error without a class *)

Terminal == {"REAL_CONFIG", "REAL_UNSUPPORTED_INPUT", "REAL_FILE_TOO_LARGE", "REAL_FILE_MISSING",
             "REAL_FILE_EMPTY", "REAL_PROVIDER_AUTH", "REAL_PROVIDER_BAD_RESPONSE"}

Retryable == {"REAL_PROVIDER_RATE_LIMIT", "REAL_PROVIDER_TIMEOUT", "REAL_PROVIDER_SERVER",
              "REAL_PROVIDER_TRANSIENT"}

\* 2xx; 401 and 403; 429; 5xx; 408 and whatever is no error status; the other 4xx.
Statuses == {"ok", "auth", "limited", "server", "odd", "rejected"}

ErrorForHttpStatus ==
  [auth |-> "REAL_PROVIDER_AUTH", limited |-> "REAL_PROVIDER_RATE_LIMIT",
   server |-> "REAL_PROVIDER_SERVER", odd |-> "REAL_PROVIDER_TRANSIENT",
   rejected |-> "REAL_PROVIDER_BAD_RESPONSE"]

Call == [at : {"none", "file", "request", "headers", "body", "probe"},
         step : {"none", "presign", "put", "poll", "post"},
         status : {"none"} \union Statuses,
         error : {"none", "plain"} \union Terminal \union Retryable]

IdleCall == [at |-> "none", step |-> "none", status |-> "none", error |-> "none"]

CallInit == Init /\ given \in Cases /\ call = IdleCall

\* reality_defender is served by realProvider.detect, whatever vendor is set.
Adapter(p) == IF p \in Pollers THEN given.vendor ELSE "hive"
Serves(adapter) == Adapter(Current) = adapter

\* detect throws; the catch block of runDetection comes next.
Fails(error) ==
  /\ Goto("failed")
  /\ call' = [IdleCall EXCEPT !.error = error]
  /\ UNCHANGED <<scan, job, calls, faults>>

Begin(step) == call' = [IdleCall EXCEPT !.at = "request", !.step = step]

-----------------------------------------------------------------------------
(* Before the first request *)

\* assertSupportedInput comes before loadConfig here, after the URL there.
RealityDefenderRefusal ==
  IF given.source # "upload" \/ Current \notin given.takes THEN "REAL_UNSUPPORTED_INPUT"
  ELSE IF Current \notin given.configured THEN "REAL_CONFIG" ELSE "none"

\* Mutant: assertInputSupported forgets the rows without a file, which have nothing to send.
GenericRefusalOfUrls ==
  IF Current \notin given.configured THEN "REAL_CONFIG"
  ELSE IF given.source = "url" /\ (~given.urls \/ given.multipart) THEN "REAL_UNSUPPORTED_INPUT"
  ELSE "none"

GenericRefusal ==
  IF Current \notin given.configured THEN "REAL_CONFIG"
  ELSE IF \/ given.source = "url" /\ (~given.urls \/ given.multipart)
          \/ given.source = "legacy" /\ given.multipart
       THEN "REAL_UNSUPPORTED_INPUT" ELSE "none"

HiveRefusal ==
  IF \/ Current \notin given.configured
     \/ given.source = "legacy"
     \/ given.source = "upload" /\ Current \notin given.takes
  THEN "plain" ELSE "none"

Refusal ==
  CASE Serves("reality_defender") -> RealityDefenderRefusal
    [] Serves("generic") -> GenericRefusal
    [] Serves("unknown") -> "REAL_CONFIG"
    [] OTHER -> HiveRefusal

\* In JSON mode the generic vendor gets the metadata only.
ReadsFile ==
  /\ given.source = "upload"
  /\ Serves("generic") => given.multipart

FirstStep == IF Serves("reality_defender") THEN "presign" ELSE "post"

CheckInput ==
  /\ At("call") /\ call.at = "none"
  /\ \/ Refusal # "none" /\ Fails(Refusal)
     \/ /\ Refusal = "none" /\ UNCHANGED vars
        /\ IF ReadsFile THEN call' = [IdleCall EXCEPT !.at = "file"] ELSE Begin(FirstStep)

\* Hive knows no limit.
SizeError ==
  CASE given.size = "empty" -> IF Serves("hive") THEN "plain" ELSE "REAL_FILE_EMPTY"
    [] given.size = "large" /\ ~Serves("hive") -> "REAL_FILE_TOO_LARGE"
    [] OTHER -> "none"

\* The file may be gone since resolveMediaInput saw it, stat may fail otherwise, and so
\* may the reading that follows the check of the size.
ReadFile ==
  /\ At("call") /\ call.at = "file"
  /\ \/ ~Serves("hive") /\ \E error \in {"REAL_FILE_MISSING", "REAL_CONFIG"} : Fails(error)
     \/ SizeError # "none" /\ Fails(SizeError)
     \/ SizeError = "none" /\ Fails("plain")
     \/ SizeError = "none" /\ Begin(FirstStep) /\ UNCHANGED vars

-----------------------------------------------------------------------------
(* One request *)

\* The media, or for JSON mode and Hive's URLs its address, goes out with the PUT or
\* the POST; only then is the call one that was submitted.
SendRequest ==
  /\ call.at = "request"
  /\ call' = [call EXCEPT !.at = "headers"]
  /\ IF call.step \in {"put", "post"}
     THEN Submitted /\ Goto("sent") /\ UNCHANGED <<scan, job, faults>>
     ELSE UNCHANGED vars

\* The network fails or the timer of the request fires before the headers come.
RequestFails ==
  /\ call.at = "headers"
  /\ \E error \in {"REAL_PROVIDER_TIMEOUT", "REAL_PROVIDER_TRANSIENT", "plain"} :
       (error = "plain" <=> Serves("hive")) /\ Fails(error)

StartPolling ==
  /\ run' = [run EXCEPT !.pc = "poll", !.elapsed = 0]
  /\ Begin("poll")
  /\ UNCHANGED <<scan, job, calls, faults>>

\* fetchWithDeadline and realProvider clear their timers here: reading the body has
\* no deadline.  The body of an accepted PUT is not read.
HeadersCome ==
  /\ call.at = "headers"
  /\ \E status \in Statuses :
       \/ call.step = "put" /\ status = "ok" /\ StartPolling
       \/ /\ ~(call.step = "put" /\ status = "ok")
          /\ call' = [call EXCEPT !.at = "body", !.status = status]
          /\ UNCHANGED vars

\* The connection ends within the body, or Hive's timer does, which covers it: an
\* error without a class, except where the text is only wanted for a message.
BodyBreaks ==
  /\ call.at = "body"
  /\ Fails(IF call.step = "put" THEN "REAL_PROVIDER_BAD_RESPONSE" ELSE "plain")

\* An error status: throwIfHttpError, but any failed PUT is a bad response; Hive may
\* send a second request for a picture of its own before it throws.
AnswerRefuses ==
  /\ call.at = "body" /\ call.status # "ok"
  /\ IF Serves("hive") /\ given.probe
     THEN call' = [call EXCEPT !.at = "probe"] /\ UNCHANGED vars
     ELSE Fails(CASE Serves("hive") -> "plain"
                  [] call.step = "put" -> "REAL_PROVIDER_BAD_RESPONSE"
                  [] OTHER -> ErrorForHttpStatus[call.status])

ProbeEnds == call.at = "probe" /\ Fails("plain")

\* parseJsonBodyOrThrow, parsePresignResponse, validateAndMapUpstreamJson and the
\* shape of a poll; Hive takes any text for an inconclusive answer.
AnswerIsMalformed ==
  /\ call.at = "body" /\ call.status = "ok" /\ ~Serves("hive")
  /\ Fails("REAL_PROVIDER_BAD_RESPONSE")

Presigned == call.step = "presign" /\ Begin("put") /\ UNCHANGED vars

Answered ==
  /\ call.step \in {"post", "poll"}
  /\ Goto("persist") /\ call' = IdleCall
  /\ UNCHANGED <<scan, job, calls, faults>>

AnswerComes == call.at = "body" /\ call.status = "ok" /\ (Presigned \/ Answered)

\* Mutant: the time-out counts from the last answer instead of the first poll.
AnalysingWithoutDeadline ==
  /\ call.at = "body" /\ call.status = "ok" /\ call.step = "poll"
  /\ \E d \in 0..MaxDelay : run' = [run EXCEPT !.elapsed = d + PollInterval]
  /\ Begin("poll")
  /\ UNCHANGED <<scan, job, calls, faults>>

\* No result yet, after a request that took d: the loop ends unless another poll
\* starts before the deadline.
Analysing ==
  /\ call.at = "body" /\ call.status = "ok" /\ call.step = "poll"
  /\ \E d \in 0..MaxDelay :
       \/ /\ run.elapsed + d + PollInterval < PollTimeout
          /\ run' = [run EXCEPT !.elapsed = @ + d + PollInterval]
          /\ Begin("poll")
          /\ UNCHANGED <<scan, job, calls, faults>>
       \/ /\ run.elapsed + d + PollInterval >= PollTimeout
          /\ Fails("REAL_PROVIDER_TIMEOUT")

-----------------------------------------------------------------------------
(* Around the call, as in ProviderRun *)

DetectStep ==
  \/ CheckInput \/ ReadFile \/ SendRequest \/ RequestFails \/ HeadersCome \/ BodyBreaks
  \/ AnswerRefuses \/ ProbeEnds \/ AnswerIsMalformed \/ AnswerComes \/ Analysing

RunStep ==
  \/ /\ TakeJob \/ MarkProcessing \/ ResolveMediaInput \/ BeginProvider \/ NormalizeAndPersist
        \/ CompleteProvider \/ Aggregate \/ RecordResult \/ HandleProcessorError
     /\ UNCHANGED call
  \/ FailProvider /\ call' = IdleCall

CallWorkerStep == (DetectStep \/ RunStep) /\ UNCHANGED given

CallNext ==
  \/ CallWorkerStep
  \/ Crash /\ call' = IdleCall /\ UNCHANGED given
  \/ Requeue /\ UNCHANGED <<given, call>>

CallSpec == CallInit /\ [][CallNext]_callVars

\* The rest of an answer that no timer of the worker waits for.
StalledBody == call.at = "body" /\ ~Serves("hive")

\* The worker goes on: it takes the job, statements return, a request ends with its
\* headers or by its timer, and the clock of the polling loop advances.  Nothing is
\* assumed about a body that has no deadline.
CallFairSpec == CallSpec /\ WF_callVars(CallWorkerStep /\ ~StalledBody)

-----------------------------------------------------------------------------
(* Properties *)

\* Every job ends, even when the analysis never finishes: the polling loop ends at its
\* deadline and the attempts run out.  The one thing that can hold a worker for ever
\* is a body whose end never comes, of an answer of the real provider.
JobEnds == <>[]StalledBody \/ (run.pc # "ended" ~> run.pc = "ended")

\* A provider no attempt can have a result of: it is not set up, its vendor does not
\* exist, or what the scan holds is not for it.
Hopeless(p) ==
  \/ p \notin given.configured \/ Adapter(p) = "unknown"
  \/ /\ Adapter(p) = "reality_defender"
     /\ given.source # "upload" \/ p \notin given.takes \/ given.size # "fits"
  \/ /\ Adapter(p) = "generic"
     /\ given.multipart => given.source # "upload" \/ given.size # "fits"
     /\ ~given.multipart => given.source = "url" /\ ~given.urls
  \/ /\ Adapter(p) = "hive"
     /\ given.source # "url"
     /\ given.source = "legacy" \/ p \notin given.takes \/ given.size = "empty"

\* Terminal errors that say nothing of what another attempt would get: the provider's
\* own answer, and a file that could not be read.
MayPass == {"REAL_PROVIDER_AUTH", "REAL_PROVIDER_BAD_RESPONSE"}
  \union (IF ReadsFile THEN {"REAL_FILE_MISSING", "REAL_CONFIG"} ELSE {})

\* Across attempts, crashes and requeues nothing is sent to a provider that cannot
\* take the scan, and such a scan is never completed.  The real provider then throws
\* an error that forbids another attempt, and throws no such error where another
\* attempt might go better, but for those of MayPass.
RefusalsHold ==
  /\ \A p \in Providers : Hopeless(p) => calls[p] = 0 /\ scan.status # "completed"
  /\ At("failed") /\ ~Serves("hive") /\ Hopeless(Current) => call.error \in Terminal
  /\ At("failed") /\ call.error \in Terminal => Hopeless(Current) \/ call.error \in MayPass

-----------------------------------------------------------------------------
(* Why CallSpec implements Spec and RefusalsHold is kept *)

\* Where a call is tells where the run is.
CallAgrees ==
  /\ call \in Call
  /\ call.at = "file" \/ call.step = "presign" => At("call")
  /\ call.step \in {"put", "post"} => At(IF call.at = "request" THEN "call" ELSE "sent")
  /\ call.step = "poll" => At("poll")
  /\ call.at \in {"request", "headers", "body", "probe"} => call.step # "none"
  /\ call.step \in {"presign", "put", "poll"} => Serves("reality_defender") /\ Current \in Pollers
  /\ call.error # "none" => At("failed")
  /\ call.at \in {"body", "probe"} <=> call.status # "none"

\* Past the checks a provider is one that may answer, and so is each that has.
AnswersArePossible ==
  /\ call.at = "file" => Refusal = "none" /\ ReadsFile
  /\ call.step # "none" \/ run.pc \in {"sent", "poll", "persist", "completed"} => ~Hopeless(Current)
  /\ \A p \in run.detections : ~Hopeless(p)

\* With ProviderInv, the inductive invariant.
CallInv == given \in Cases /\ CallAgrees /\ AnswersArePossible /\ RefusalsHold

=============================================================================
