---------------------------- MODULE ProviderProofs ----------------------------
(***************************************************************************)
(* Proofs about the detection run for any list of providers, any settings, *)
(* any time-outs and any number of attempts, crashes, rejected statements  *)
(* and requeues:                                                           *)
(*                                                                         *)
(*   - ProviderRun: results, culprits and the number of submissions;       *)
(*   - ProviderCall: the adapters do what ProviderRun lets a provider do,  *)
(*     so what is proved there holds here, and what they refuse they never *)
(*     send;                                                               *)
(*   - ProviderTabs: what the page shows of each provider is explained.    *)
(***************************************************************************)
EXTENDS ProviderTabs, TLAPS

-----------------------------------------------------------------------------
(* The list of providers still to call *)

\* What taking the first provider off the list does to it.
LEMMA FirstOfList ==
  ASSUME NEW s \in Seq(Providers), s # <<>>, IsInjective(s)
  PROVE  /\ Head(s) \in Providers /\ Tail(s) \in Seq(Providers) /\ IsInjective(Tail(s))
         /\ ToSet(s) = {Head(s)} \union ToSet(Tail(s)) /\ Head(s) \notin ToSet(Tail(s))
<1>1. /\ Len(s) \in Nat /\ Len(s) > 0 /\ DOMAIN s = 1..Len(s) /\ Head(s) = s[1]
      /\ \A i \in 1..Len(s) : s[i] \in Providers
  OBVIOUS
<1>2. /\ Tail(s) \in Seq(Providers) /\ Len(Tail(s)) = Len(s) - 1
      /\ DOMAIN Tail(s) = 1..(Len(s) - 1) /\ \A i \in 1..(Len(s) - 1) : Tail(s)[i] = s[i + 1]
  BY <1>1
<1>3. \A i, j \in 1..Len(s) : s[i] = s[j] => i = j
  BY <1>1 DEF IsInjective
<1>4. IsInjective(Tail(s))
  BY <1>1, <1>2, <1>3 DEF IsInjective
<1>5. Head(s) \notin ToSet(Tail(s))
  BY <1>1, <1>2, <1>3 DEF ToSet
<1>6. \A i \in 1..Len(s) : i = 1 \/ i - 1 \in 1..(Len(s) - 1)
  BY <1>1
<1>7. ToSet(s) \subseteq {Head(s)} \union ToSet(Tail(s))
  <2> SUFFICES ASSUME NEW i \in 1..Len(s), s[i] # s[1] PROVE s[i] \in ToSet(Tail(s))
    BY <1>1 DEF ToSet
  <2>1. i - 1 \in 1..(Len(s) - 1) /\ s[i] = Tail(s)[i - 1]
    BY <1>1, <1>2, <1>6
  <2> QED BY <1>2, <2>1 DEF ToSet
<1>8. {Head(s)} \union ToSet(Tail(s)) \subseteq ToSet(s)
  BY <1>1, <1>2 DEF ToSet
<1> QED BY <1>1, <1>2, <1>4, <1>5, <1>7, <1>8

LEMMA NoList == ToSet(<<>>) = {}
  BY DEF ToSet

LEMMA WholeList ==
  /\ Selected \in Seq(Providers) /\ Selected # <<>> /\ IsInjective(Selected)
  /\ ToSet(Selected) = Providers
  BY ProviderRunAssumption DEF Providers

-----------------------------------------------------------------------------
(* Types *)

LEMMA Bounds ==
  /\ MaxAttempts \in Nat \ {0} /\ PollInterval \in Nat \ {0} /\ PollTimeout \in Nat \ {0}
  /\ MaxStalls \in Nat /\ MaxDbErrors \in Nat /\ MaxRequeues \in Nat /\ MaxDelay \in Nat
<1>1. {MaxStalls, MaxDbErrors, MaxRequeues, MaxDelay} \subseteq Nat
  BY ProviderRunAssumption
<1> QED BY <1>1, ProviderRunAssumption

\* The shapes an action gives to the variables.
LEMMA RunShapes ==
  ASSUME run \in Run
  PROVE  /\ \A pc \in {"waiting", "mark", "resolve", "next", "call", "sent", "poll", "persist",
                       "completed", "failed", "record", "error", "ended"} :
              /\ Goto(pc) => run' \in Run
              /\ IdleRun(pc) \in Run
         /\ \A e \in {"plain", "unrecoverable"}, P \in SUBSET Providers :
              Throw(e, P) => run' \in Run
         /\ \A n \in Nat : [run EXCEPT !.pc = "poll", !.elapsed = n] \in Run
         /\ \A n \in Nat : [run EXCEPT !.elapsed = n] \in Run
         /\ \A P \in SUBSET Providers : [run EXCEPT !.pc = "completed", !.detections = P] \in Run
         /\ \A r \in Seq(Providers) : [run EXCEPT !.pc = "next", !.rest = r] \in Run
         /\ \A r \in Seq(Providers), P \in SUBSET Providers :
              [run EXCEPT !.pc = "next", !.rest = r, !.failed = P] \in Run
<1>1. ASSUME NEW pc \in {"waiting", "mark", "resolve", "next", "call", "sent", "poll", "persist",
                         "completed", "failed", "record", "error", "ended"}
      PROVE  (Goto(pc) => run' \in Run) /\ IdleRun(pc) \in Run
  BY DEF Goto, Run, IdleRun
<1>2. ASSUME NEW e \in {"plain", "unrecoverable"}, NEW P \in SUBSET Providers
      PROVE  Throw(e, P) => run' \in Run
  BY DEF Throw, Run
<1>3. ASSUME NEW n \in Nat
      PROVE  /\ [run EXCEPT !.pc = "poll", !.elapsed = n] \in Run
             /\ [run EXCEPT !.elapsed = n] \in Run
  BY DEF Run
<1>4. ASSUME NEW P \in SUBSET Providers
      PROVE  [run EXCEPT !.pc = "completed", !.detections = P] \in Run
  BY DEF Run
<1>5. ASSUME NEW r \in Seq(Providers), NEW P \in SUBSET Providers
      PROVE  [run EXCEPT !.pc = "next", !.rest = r, !.failed = P] \in Run
  BY DEF Run
<1>6. ASSUME NEW r \in Seq(Providers)
      PROVE  [run EXCEPT !.pc = "next", !.rest = r] \in Run
  BY DEF Run
<1> QED BY <1>1, <1>2, <1>3, <1>4, <1>5, <1>6

Job == [made : 0..MaxAttempts - 1, stalls : 0..MaxStalls]
Faults == [db : 0..MaxDbErrors, requeues : 0..MaxRequeues]

LEMMA RowShapes ==
  ASSUME scan \in Scan, faults \in Faults, job \in Job
  PROVE  /\ Reject => scan' \in Scan /\ faults' \in Faults
         /\ \A st \in {"pending", "processing", "completed", "failed"}, P, Q \in SUBSET Providers :
              /\ [scan EXCEPT !.status = st, !.failed = P] \in Scan
              /\ [scan EXCEPT !.status = st, !.processors = P] \in Scan
              /\ [scan EXCEPT !.status = st, !.failed = P, !.processors = Q] \in Scan
              /\ [scan EXCEPT !.status = st, !.providers = AllAt("queued"), !.failed = P] \in Scan
         /\ \A n \in 0..MaxRequeues : [faults EXCEPT !.requeues = n] \in Faults
         /\ \A n \in 0..MaxAttempts - 1 : [job EXCEPT !.made = n] \in Job
         /\ \A n \in 0..MaxStalls : [job EXCEPT !.stalls = n] \in Job
         /\ [made |-> 0, stalls |-> 0] \in Job
         /\ faults.db \in Nat /\ faults.requeues \in Nat /\ job.made \in Nat /\ job.stalls \in Nat
         /\ job.made <= MaxAttempts - 1 /\ job.stalls <= MaxStalls
<1>1. \A n \in 0..MaxDbErrors : [faults EXCEPT !.db = n] \in Faults
  BY DEF Faults
<1>2. faults.db \in Nat /\ faults.requeues \in Nat /\ job.made \in Nat /\ job.stalls \in Nat
      /\ job.made <= MaxAttempts - 1 /\ job.stalls <= MaxStalls
  BY Bounds DEF Faults, Job
<1>3. Reject => scan' \in Scan /\ faults' \in Faults
  <2> SUFFICES ASSUME Reject PROVE faults.db + 1 \in 0..MaxDbErrors
    BY <1>1 DEF Reject
  <2> QED BY <1>2, Bounds DEF Reject
<1>4. ASSUME NEW st \in {"pending", "processing", "completed", "failed"},
             NEW P \in SUBSET Providers, NEW Q \in SUBSET Providers
      PROVE  /\ [scan EXCEPT !.status = st, !.failed = P] \in Scan
             /\ [scan EXCEPT !.status = st, !.processors = P] \in Scan
             /\ [scan EXCEPT !.status = st, !.failed = P, !.processors = Q] \in Scan
             /\ [scan EXCEPT !.status = st, !.providers = AllAt("queued"), !.failed = P] \in Scan
  <2>1. AllAt("queued") \in [Providers -> {"queued", "processing", "completed", "failed"}]
    BY DEF AllAt
  <2> QED BY <2>1 DEF Scan
<1>5. \A n \in 0..MaxRequeues : [faults EXCEPT !.requeues = n] \in Faults
  BY DEF Faults
<1>6. /\ \A n \in 0..MaxAttempts - 1 : [job EXCEPT !.made = n] \in Job
      /\ \A n \in 0..MaxStalls : [job EXCEPT !.stalls = n] \in Job
  BY DEF Job
<1>7. [made |-> 0, stalls |-> 0] \in Job
  BY Bounds DEF Job
<1> QED BY <1>2, <1>3, <1>4, <1>5, <1>6, <1>7

LEMMA TypeStep == TypeOK /\ ListsAgree /\ [Next]_vars => TypeOK'
<1> SUFFICES ASSUME TypeOK, ListsAgree, [Next]_vars PROVE TypeOK'
  OBVIOUS
<1>1. /\ scan \in Scan /\ run \in Run /\ job \in Job /\ calls \in [Providers -> Nat] /\ faults \in Faults
      /\ run.rest \in Seq(Providers) /\ run.failed \subseteq Providers /\ run.detections \subseteq Providers
      /\ run.named \subseteq Providers /\ run.elapsed \in Nat
      /\ run.rest # <<>> => Current \in Providers /\ Tail(run.rest) \in Seq(Providers)
  BY DEF Current, TypeOK, Run, Job, Faults
<1>n. /\ faults.db \in Nat /\ faults.requeues \in Nat /\ job.made \in Nat /\ job.stalls \in Nat
      /\ job.made <= MaxAttempts - 1 /\ job.stalls <= MaxStalls
  BY <1>1, RowShapes
<1>r. {} \subseteq Providers
  OBVIOUS
<1> DEFINE Good == scan' \in Scan /\ run' \in Run /\ job' \in Job /\ calls' \in [Providers -> Nat] /\ faults' \in Faults
<1>g. Good => TypeOK'
  BY DEF TypeOK, Job, Faults
<1>2. ASSUME Reject PROVE scan' \in Scan /\ faults' \in Faults
  BY <1>1, <1>2, RowShapes
<1>3. ASSUME NEW x \in {"processing", "completed", "failed"}, MarkProviderStatus(x), run.rest # <<>>
      PROVE  scan' \in Scan /\ faults' = faults
  BY <1>1, <1>3 DEF MarkProviderStatus, Scan
<1>4. ASSUME Submitted, run.rest # <<>> PROVE calls' \in [Providers -> Nat]
  BY <1>1, <1>4 DEF Submitted
<1>b. Busy => run.rest # <<>>
  BY DEF ListsAgree, Busy
<1>5. CASE TakeJob
  <2>1. Goto("ended") \/ Goto("mark")
    BY <1>5 DEF TakeJob
  <2> QED BY <1>1, <1>5, <1>g, <2>1, RunShapes DEF TakeJob
<1>6. CASE MarkProcessing
  <2>1. scan' \in Scan /\ faults' \in Faults
    BY <1>1, <1>6, <1>r, RowShapes DEF MarkProcessing
  <2> QED BY <1>1, <1>6, <1>g, <1>r, <2>1, RunShapes DEF MarkProcessing
<1>7. CASE ResolveMediaInput
  <2>1. run' \in Run
    BY <1>1, <1>7, <1>r, RunShapes, WholeList DEF ResolveMediaInput
  <2> QED BY <1>1, <1>7, <1>g, <2>1 DEF ResolveMediaInput
<1>8. CASE BeginProvider
  <2>1. scan' \in Scan /\ faults' \in Faults
    BY <1>1, <1>2, <1>3, <1>8 DEF BeginProvider
  <2> QED BY <1>1, <1>8, <1>g, <1>r, <2>1, RunShapes DEF BeginProvider
<1>9. CASE CallProvider
  <2>1. calls' \in [Providers -> Nat]
    BY <1>1, <1>4, <1>9, <1>b DEF CallProvider, Busy, InLoop, At
  <2>2. run' \in Run
    BY <1>1, <1>9, RunShapes DEF CallProvider
  <2> QED BY <1>1, <1>9, <1>g, <2>1, <2>2 DEF CallProvider
<1>a. CASE AwaitAnswer
  BY <1>1, <1>a, <1>g, RunShapes DEF AwaitAnswer
<1>10. CASE PollProvider
  <2>1. \A d \in 0..MaxDelay : run.elapsed + d + PollInterval \in Nat
    BY <1>1, Bounds
  <2> QED BY <1>1, <1>10, <1>g, <2>1, RunShapes DEF PollProvider
<1>11. CASE NormalizeAndPersist
  <2>1. run.rest # <<>>
    BY <1>11, <1>b DEF NormalizeAndPersist, Busy, InLoop, At
  <2>2. run.detections \union {Current} \in SUBSET Providers
    BY <1>1, <2>1
  <2> QED BY <1>1, <1>11, <1>g, <2>2, RunShapes DEF NormalizeAndPersist
<1>12. CASE CompleteProvider
  <2>1. run.rest # <<>>
    BY <1>12, <1>b DEF CompleteProvider, Busy, InLoop, At
  <2>2. Tail(run.rest) \in Seq(Providers)
    BY <1>1, <2>1
  <2>3. scan' \in Scan /\ faults' \in Faults
    BY <1>1, <1>2, <1>3, <1>12, <2>1 DEF CompleteProvider
  <2> QED BY <1>1, <1>12, <1>g, <2>2, <2>3, RunShapes DEF CompleteProvider
<1>13. CASE FailProvider
  <2>1. run.rest # <<>>
    BY <1>13, <1>b DEF FailProvider, Busy, InLoop, At
  <2>2. Tail(run.rest) \in Seq(Providers) /\ run.failed \union {Current} \in SUBSET Providers
    BY <1>1, <2>1
  <2>3. scan' \in Scan /\ faults' \in Faults
    BY <1>1, <1>2, <1>3, <1>13, <2>1 DEF FailProvider
  <2> QED BY <1>1, <1>13, <1>g, <1>r, <2>2, <2>3, RunShapes DEF FailProvider
<1>14. CASE Aggregate
  <2>1. Throw("plain", run.failed) \/ Goto("record")
    BY <1>14 DEF Aggregate
  <2> QED BY <1>1, <1>14, <1>g, <2>1, RunShapes DEF Aggregate
<1>15. CASE RecordResult
  <2>1. scan' \in Scan /\ faults' \in Faults
    <3>1. [scan EXCEPT !.status = "completed", !.failed = {}, !.processors = run.detections] \in Scan
      BY <1>1, <1>r, RowShapes
    <3> QED BY <1>1, <1>15, <3>1, RowShapes DEF RecordResult
  <2> QED BY <1>1, <1>15, <1>g, <1>r, <2>1, RunShapes DEF RecordResult
<1>16. CASE HandleProcessorError
  <2>1. job' \in Job
    <3>1. WillRetryAfterFailure => job.made + 1 \in 0..MaxAttempts - 1
      BY <1>n, Bounds DEF WillRetryAfterFailure
    <3> QED BY <1>1, <1>16, <3>1, RowShapes DEF HandleProcessorError
  <2>2. scan' \in Scan /\ faults' \in Faults
    BY <1>1, <1>16, RowShapes DEF HandleProcessorError
  <2>3. run' \in {IdleRun("waiting"), IdleRun("ended")}
    BY <1>16 DEF HandleProcessorError
  <2> QED BY <1>1, <1>16, <1>g, <2>1, <2>2, <2>3, RunShapes DEF HandleProcessorError
<1>17. CASE Crash
  <2>1. job' \in Job
    <3>1. job.stalls < MaxStalls => job.stalls + 1 \in 0..MaxStalls
      BY <1>n, Bounds
    <3> QED BY <1>1, <1>17, <3>1, RowShapes DEF Crash
  <2> QED BY <1>1, <1>17, <1>g, <2>1, RunShapes DEF Crash
<1>18. CASE Requeue
  <2>1. scan' \in Scan /\ faults' \in Faults /\ job' \in Job
    <3>1. faults.requeues < MaxRequeues => faults.requeues + 1 \in 0..MaxRequeues
      BY <1>n, Bounds
    <3> QED BY <1>1, <1>18, <1>r, <3>1, RowShapes DEF Requeue
  <2>2. calls' \in [Providers -> Nat]
    BY <1>18 DEF Requeue
  <2> QED BY <1>1, <1>18, <1>g, <2>1, <2>2, RunShapes DEF Requeue
<1>19. CASE UNCHANGED vars
  BY <1>1, <1>19, <1>g DEF vars
<1> QED
  BY <1>5, <1>6, <1>7, <1>8, <1>9, <1>a, <1>10, <1>11, <1>12, <1>13, <1>14, <1>15, <1>16,
     <1>17, <1>18, <1>19 DEF Next, WorkerStep

-----------------------------------------------------------------------------
(* The two lists and the statuses *)

\* What the shapes of a run leave of its fields.
LEMMA RunFields ==
  ASSUME run \in Run
  PROVE  /\ \A pc : Goto(pc) =>
              /\ run'.pc = pc /\ run'.rest = run.rest /\ run'.failed = run.failed
              /\ run'.detections = run.detections /\ run'.named = run.named
         /\ \A e, P : Throw(e, P) => run'.pc = "error" /\ run'.named = P
         /\ \A pc : IdleRun(pc).pc = pc
<1>1. ASSUME NEW pc
      PROVE  /\ Goto(pc) =>
                  /\ run'.pc = pc /\ run'.rest = run.rest /\ run'.failed = run.failed
                  /\ run'.detections = run.detections /\ run'.named = run.named
             /\ IdleRun(pc).pc = pc
  BY DEF Goto, Run, IdleRun
<1>2. ASSUME NEW e, NEW P
      PROVE  Throw(e, P) => run'.pc = "error" /\ run'.named = P
  BY DEF Throw, Run
<1> QED BY <1>1, <1>2

\* What the statements leave of the row.
LEMMA RowFields ==
  ASSUME TypeOK
  PROVE  /\ Reject => scan' = scan /\ faults'.db # 0
         /\ \A x : MarkProviderStatus(x) =>
              /\ faults' = faults
              /\ scan'.status = scan.status /\ scan'.failed = scan.failed
              /\ scan'.processors = scan.processors
              /\ \A p \in Providers : scan'.providers[p] = IF p = Current THEN x ELSE scan.providers[p]
<1>1. faults.db \in Nat
  BY Bounds DEF TypeOK
<1>2. Reject => scan' = scan /\ faults'.db # 0
  BY <1>1 DEF Reject, TypeOK
<1>3. ASSUME NEW x
      PROVE  MarkProviderStatus(x) =>
              /\ faults' = faults
              /\ scan'.status = scan.status /\ scan'.failed = scan.failed
              /\ scan'.processors = scan.processors
              /\ \A p \in Providers : scan'.providers[p] = IF p = Current THEN x ELSE scan.providers[p]
  BY DEF MarkProviderStatus, TypeOK, Scan
<1> QED BY <1>2, <1>3

LEMMA ListsStep == ProviderInv /\ [Next]_vars => ListsAgree'
<1> SUFFICES ASSUME ProviderInv, [Next]_vars, InLoop' PROVE ListsAgree'
  BY DEF ListsAgree
<1> USE DEF At
<1>1. /\ TypeOK /\ run \in Run /\ ListsAgree /\ OutcomeIsReady
      /\ run.rest \in Seq(Providers)
  BY DEF ProviderInv, TypeOK, Run
<1>2. ASSUME run.rest # <<>>, InLoop
      PROVE  /\ Current \in Providers /\ Tail(run.rest) \in Seq(Providers) /\ IsInjective(Tail(run.rest))
             /\ ToSet(run.rest) = {Current} \union ToSet(Tail(run.rest)) /\ Current \notin ToSet(Tail(run.rest))
  BY <1>1, <1>2, FirstOfList DEF Current, ListsAgree
<1>3. ASSUME run' = run, scan' = scan PROVE ListsAgree'
  BY <1>1, <1>3 DEF ListsAgree, Ahead, Busy, InLoop, Current
<1>4. CASE TakeJob \/ MarkProcessing \/ Aggregate \/ RecordResult \/ HandleProcessorError \/ Crash \/ Requeue
  BY <1>1, <1>4, RunFields
     DEF TakeJob, MarkProcessing, Aggregate, RecordResult, HandleProcessorError, Crash, Requeue, InLoop
<1>5. CASE ResolveMediaInput
  <2>1. run'.pc = "next" /\ run'.rest = Selected /\ run'.failed = {} /\ scan' = scan
    BY <1>1, <1>5, RunFields DEF ResolveMediaInput, InLoop, Run, OutcomeIsReady
  <2>2. \A p \in Providers : scan.providers[p] = "queued"
    BY <1>1, <1>5 DEF ResolveMediaInput, OutcomeIsReady, AllAt
  <2> QED BY <2>1, <2>2, WholeList DEF ListsAgree, Ahead, Busy, Current
<1>6. CASE BeginProvider
  <2>1. /\ run.pc = "next" /\ run.rest # <<>> /\ run'.pc = "call" /\ run'.rest = run.rest
        /\ run'.failed = run.failed /\ run'.detections = run.detections
        /\ \A p \in Providers : scan'.providers[p] = IF p = Current THEN "processing" ELSE scan.providers[p]
    BY <1>1, <1>6, RunFields, RowFields DEF BeginProvider, InLoop
  <2>2. Ahead = ToSet(run.rest) /\ Ahead' = ToSet(Tail(run.rest)) /\ Current' = Current
    BY <2>1 DEF Ahead, Current
  <2>3. Ahead \subseteq Providers
    BY <1>1, <2>2 DEF ToSet
  <2> QED BY <1>1, <1>2, <2>1, <2>2, <2>3 DEF ListsAgree, Busy, InLoop
<1>7. CASE CallProvider \/ AwaitAnswer \/ PollProvider
  <2>1. /\ run.pc \in {"call", "sent", "poll"} /\ run'.pc \in {"sent", "poll", "persist", "failed"}
        /\ run'.rest = run.rest
        /\ run'.failed = run.failed /\ run'.detections = run.detections /\ scan' = scan
    BY <1>1, <1>7, RunFields DEF CallProvider, AwaitAnswer, PollProvider, Run
  <2>2. Ahead' = Ahead /\ Current' = Current
    BY <2>1 DEF Ahead, Current
  <2> QED BY <1>1, <2>1, <2>2 DEF ListsAgree, Busy, InLoop
<1>8. CASE NormalizeAndPersist
  <2>1. /\ run.pc = "persist" /\ run'.pc \in {"completed", "failed"} /\ run'.rest = run.rest
        /\ run'.failed = run.failed /\ run.detections \subseteq run'.detections /\ scan' = scan
        /\ run'.pc = "completed" => Current \in run'.detections
    BY <1>1, <1>8, RunFields DEF NormalizeAndPersist, Run
  <2>2. Ahead' = Ahead /\ Current' = Current
    BY <2>1 DEF Ahead, Current
  <2> QED BY <1>1, <2>1, <2>2 DEF ListsAgree, Busy, InLoop
<1>9. CASE CompleteProvider
  <2>0. run.pc = "completed" /\ InLoop /\ Busy /\ run.rest # <<>>
    BY <1>1, <1>9 DEF CompleteProvider, InLoop, Busy, ListsAgree
  <2>1. CASE MarkProviderStatus("completed") /\ run' = [run EXCEPT !.pc = "next", !.rest = Tail(@)]
    <3>1. /\ run'.pc = "next" /\ run'.failed = run.failed /\ run'.detections = run.detections
          /\ run'.rest = Tail(run.rest)
          /\ \A p \in Providers : scan'.providers[p] = IF p = Current THEN "completed" ELSE scan.providers[p]
      BY <1>1, <2>1, RowFields DEF Run
    <3>2. Ahead = ToSet(Tail(run.rest)) /\ Ahead' = Ahead /\ Ahead \subseteq Providers
      BY <1>2, <2>0, <3>1 DEF Ahead, ToSet
    <3>3. \A p \in Providers \ ToSet(run'.rest) :
            \/ p \in run'.failed /\ scan'.providers[p] = "failed"
            \/ p \in run'.detections \ run'.failed /\ scan'.providers[p] = "completed"
      BY <1>1, <1>2, <2>0, <3>1 DEF ListsAgree
    <3> QED BY <1>1, <1>2, <2>0, <3>1, <3>2, <3>3 DEF ListsAgree, Busy
  <2>2. CASE Reject /\ Goto("failed")
    <3>1. /\ run'.pc = "failed" /\ run'.failed = run.failed /\ run'.detections = run.detections
          /\ run'.rest = run.rest /\ scan' = scan
      BY <1>1, <2>2, RunFields, RowFields
    <3>2. Ahead' = Ahead /\ Current' = Current
      BY <2>0, <3>1 DEF Ahead, Current
    <3> QED BY <1>1, <2>0, <3>1, <3>2 DEF ListsAgree, Busy, InLoop
  <2> QED BY <1>9, <2>1, <2>2 DEF CompleteProvider
<1>10. CASE FailProvider
  <2>0. run.pc = "failed" /\ InLoop /\ Busy /\ run.rest # <<>>
    BY <1>1, <1>10 DEF FailProvider, InLoop, Busy, ListsAgree
  <2>1. CASE /\ MarkProviderStatus("failed")
             /\ run' = [run EXCEPT !.pc = "next", !.rest = Tail(@), !.failed = @ \union {Current}]
    <3>1. /\ run'.pc = "next" /\ run'.failed = run.failed \union {Current}
          /\ run'.detections = run.detections /\ run'.rest = Tail(run.rest)
          /\ \A p \in Providers : scan'.providers[p] = IF p = Current THEN "failed" ELSE scan.providers[p]
      BY <1>1, <2>1, RowFields DEF Run
    <3>2. Ahead = ToSet(Tail(run.rest)) /\ Ahead' = Ahead /\ Ahead \subseteq Providers
      BY <1>2, <2>0, <3>1 DEF Ahead, ToSet
    <3>3. \A p \in Providers \ ToSet(run'.rest) :
            \/ p \in run'.failed /\ scan'.providers[p] = "failed"
            \/ p \in run'.detections \ run'.failed /\ scan'.providers[p] = "completed"
      BY <1>1, <1>2, <2>0, <3>1 DEF ListsAgree
    <3> QED BY <1>1, <1>2, <2>0, <3>1, <3>2, <3>3 DEF ListsAgree, Busy
  <2>2. CASE Reject /\ Throw("plain", {})
    BY <1>1, <2>2, RunFields DEF InLoop
  <2> QED BY <1>10, <2>1, <2>2 DEF FailProvider
<1>11. CASE UNCHANGED vars
  BY <1>3, <1>11 DEF vars
<1> QED
  BY <1>4, <1>5, <1>6, <1>7, <1>8, <1>9, <1>10, <1>11 DEF Next, WorkerStep

-----------------------------------------------------------------------------
(* The outcome of the scan *)

LEMMA OutcomeStep ==
  ProviderInv /\ TypeOK' /\ ListsAgree' /\ [Next]_vars =>
    OutcomeIsReady' /\ OutcomeIsLast' /\ ResultIsComplete' /\ FailedNamesCulprits'
<1> SUFFICES ASSUME ProviderInv, TypeOK', ListsAgree', [Next]_vars
             PROVE  OutcomeIsReady' /\ OutcomeIsLast' /\ ResultIsComplete' /\ FailedNamesCulprits'
  OBVIOUS
<1> USE DEF At
<1>1. /\ TypeOK /\ run \in Run /\ ListsAgree /\ OutcomeIsReady /\ OutcomeIsLast
      /\ ResultIsComplete /\ FailedNamesCulprits /\ run.detections \subseteq Providers
  BY DEF ProviderInv, TypeOK, Run
<1> DEFINE SameRow == scan'.status = scan.status /\ scan'.processors = scan.processors
\* While the run goes on the row has no outcome, and nothing but the place changes.
<1>2. ASSUME SameRow, ~At("ended")
      PROVE  OutcomeIsLast' /\ ResultIsComplete' /\ FailedNamesCulprits'
  BY <1>1, <1>2 DEF OutcomeIsLast, ResultIsComplete, FailedNamesCulprits
<1>3. CASE TakeJob
  <2>1. /\ scan' = scan /\ faults' = faults /\ run.pc = "waiting" /\ run'.pc \in {"ended", "mark"}
        /\ run'.failed = run.failed
    BY <1>1, <1>3, RunFields DEF TakeJob
  <2> QED BY <1>1, <1>2, <2>1 DEF OutcomeIsReady
<1>4. CASE MarkProcessing
  <2>1. run.pc = "mark" /\ run.failed = {} /\ scan.processors = {} /\ scan.status # "failed"
    BY <1>1, <1>4 DEF MarkProcessing, OutcomeIsReady, OutcomeIsLast, ResultIsComplete
  <2>2. CASE Reject /\ Throw("plain", {})
    <3>1. scan' = scan /\ faults'.db # 0 /\ run'.pc = "error" /\ run'.named = {}
      BY <1>1, <2>2, RunFields, RowFields
    <3> QED BY <1>2, <2>1, <3>1 DEF OutcomeIsReady, Blames
  <2>3. CASE scan' = [scan EXCEPT !.status = "processing", !.providers = AllAt("queued"), !.failed = {}]
             /\ Goto("resolve")
    <3>1. /\ scan'.status = "processing" /\ scan'.providers = AllAt("queued")
          /\ scan'.processors = {} /\ run'.pc = "resolve" /\ run'.failed = {}
      BY <1>1, <2>1, <2>3, RunFields DEF TypeOK, Scan
    <3> QED BY <3>1 DEF OutcomeIsReady, OutcomeIsLast, ResultIsComplete, FailedNamesCulprits, AllAt
  <2> QED BY <1>4, <2>2, <2>3 DEF MarkProcessing
<1>5. CASE ResolveMediaInput
  <2>1. /\ run.pc = "resolve" /\ scan' = scan /\ faults' = faults
        /\ \/ run'.pc = "next"
           \/ run'.pc = "error" /\ run'.named = {}
    BY <1>1, <1>5, RunFields DEF ResolveMediaInput, Run
  <2>2. StatusIs("failed")' = {} /\ StatusIs("processing")' = {}
    BY <1>1, <2>1 DEF OutcomeIsReady, StatusIs, AllAt
  <2> QED BY <1>2, <2>1, <2>2 DEF OutcomeIsReady, Blames
<1>6. CASE \/ BeginProvider \/ CallProvider \/ AwaitAnswer \/ PollProvider \/ NormalizeAndPersist
           \/ CompleteProvider \/ FailProvider
  <2>1. run.pc # "ended" /\ SameRow
    BY <1>1, <1>6, RowFields
       DEF BeginProvider, CallProvider, AwaitAnswer, PollProvider, NormalizeAndPersist,
           CompleteProvider, FailProvider
  <2>2. \/ run'.pc \in {"next", "call", "sent", "poll", "persist", "completed", "failed"}
        \/ run'.pc = "error" /\ run'.named = {} /\ faults'.db # 0
    <3>1. \A pc : Goto(pc) => run'.pc = pc
      BY <1>1, RunFields
    <3>2. Reject /\ Throw("plain", {}) => run'.pc = "error" /\ run'.named = {} /\ faults'.db # 0
      BY <1>1, RunFields, RowFields
    <3>3. \A n : run' = [run EXCEPT !.elapsed = n] => run'.pc = run.pc
      BY <1>1 DEF Run
    <3>4. CASE BeginProvider
      BY <3>1, <3>2, <3>4 DEF BeginProvider
    <3>5. CASE CallProvider \/ AwaitAnswer
      BY <1>1, <3>1, <3>5 DEF CallProvider, AwaitAnswer, Run
    <3>6. CASE PollProvider
      BY <3>1, <3>3, <3>6 DEF PollProvider
    <3>7. CASE NormalizeAndPersist
      BY <1>1, <3>1, <3>7 DEF NormalizeAndPersist, Run
    <3>8. CASE CompleteProvider
      BY <1>1, <3>1, <3>8 DEF CompleteProvider, Run
    <3>9. CASE FailProvider
      BY <1>1, <3>2, <3>9 DEF FailProvider, Run
    <3> QED BY <1>6, <3>4, <3>5, <3>6, <3>7, <3>8, <3>9
  <2> QED BY <1>2, <2>1, <2>2 DEF OutcomeIsReady, Blames
<1>7. CASE Aggregate
  <2>1. run.pc = "next" /\ ToSet(run.rest) = {} /\ scan' = scan /\ faults' = faults /\ InLoop
    BY <1>7, NoList DEF Aggregate, InLoop
  <2>2. \A p \in Providers :
          \/ p \in run.failed /\ scan.providers[p] = "failed"
          \/ p \in run.detections \ run.failed /\ scan.providers[p] = "completed"
    BY <1>1, <2>1 DEF ListsAgree
  <2>3. run.failed \subseteq Providers
    BY <1>1 DEF Run
  <2>4. CASE Throw("plain", run.failed)
    <3>1. run'.pc = "error" /\ run'.named = run.failed
      BY <1>1, <2>4, RunFields
    <3>2. StatusIs("failed")' = run.failed /\ StatusIs("processing")' = {}
      BY <2>1, <2>2, <2>3 DEF StatusIs
    <3> QED BY <1>2, <2>1, <3>1, <3>2 DEF OutcomeIsReady, Blames
  <2>5. CASE run.failed = {} /\ Goto("record")
    <3>1. run'.pc = "record" /\ run'.detections = run.detections
      BY <1>1, <2>5, RunFields
    <3>2. run.detections = Providers /\ scan.providers = AllAt("completed")
      BY <1>1, <2>2, <2>5 DEF AllAt, TypeOK, Scan
    <3> QED BY <1>2, <2>1, <3>1, <3>2 DEF OutcomeIsReady, AllAt
  <2> QED BY <1>7, <2>4, <2>5 DEF Aggregate
<1>8. CASE RecordResult
  <2>1. /\ run.pc = "record" /\ run.detections = Providers /\ scan.providers = AllAt("completed")
        /\ scan.processors = {} /\ scan.status # "failed"
    BY <1>1, <1>8 DEF RecordResult, OutcomeIsReady, OutcomeIsLast, ResultIsComplete
  <2>2. CASE Reject /\ Throw("plain", {})
    <3>1. scan' = scan /\ faults'.db # 0 /\ run'.pc = "error" /\ run'.named = {}
      BY <1>1, <2>2, RunFields, RowFields
    <3> QED BY <1>2, <2>1, <3>1 DEF OutcomeIsReady, Blames
  <2>3. CASE scan' = [scan EXCEPT !.status = "completed", !.failed = {}, !.processors = run.detections]
             /\ Goto("ended")
    <3>1. /\ scan'.status = "completed" /\ scan'.failed = {} /\ scan'.processors = Providers
          /\ scan'.providers = AllAt("completed") /\ run'.pc = "ended"
      BY <1>1, <2>1, <2>3, RunFields DEF TypeOK, Scan
    <3>2. StatusIs("completed")' = Providers
      BY <3>1 DEF StatusIs, AllAt
    <3> QED BY <3>1, <3>2 DEF OutcomeIsReady, OutcomeIsLast, ResultIsComplete, FailedNamesCulprits
  <2> QED BY <1>8, <2>2, <2>3 DEF RecordResult
<1>9. CASE HandleProcessorError
  <2>1. run.pc = "error" /\ Blames(run.named) /\ scan.processors = {} /\ scan.status # "failed"
    BY <1>1, <1>9 DEF HandleProcessorError, OutcomeIsReady, OutcomeIsLast, ResultIsComplete
  <2>2. run'.pc \in {"waiting", "ended"} /\ (run'.pc = "waiting" => run'.failed = {})
    BY <1>1, <1>9 DEF HandleProcessorError, IdleRun
  <2>3. CASE scan' = scan
    BY <1>2, <2>1, <2>2, <2>3 DEF OutcomeIsReady
  <2>4. CASE scan' = [scan EXCEPT !.status = "failed", !.failed = run.named]
             /\ UNCHANGED faults /\ run' = IdleRun("ended")
    <3>1. /\ scan'.status = "failed" /\ scan'.failed = run.named /\ scan'.processors = {}
          /\ scan'.providers = scan.providers /\ run'.pc = "ended" /\ faults' = faults
      BY <1>1, <2>1, <2>4 DEF TypeOK, Scan, IdleRun
    <3>2. StatusIs("failed")' = StatusIs("failed") /\ StatusIs("processing")' = StatusIs("processing")
      BY <3>1 DEF StatusIs
    <3> QED BY <2>1, <3>1, <3>2
            DEF OutcomeIsReady, OutcomeIsLast, ResultIsComplete, FailedNamesCulprits, Blames
  <2> QED BY <1>9, <2>3, <2>4 DEF HandleProcessorError, Reject
<1>10. CASE Crash
  <2>1. run.pc # "ended" /\ scan' = scan
    BY <1>10 DEF Crash
  <2>2. run'.pc \in {"waiting", "ended"} /\ (run'.pc = "waiting" => run'.failed = {})
    BY <1>10 DEF Crash, IdleRun
  <2> QED BY <1>2, <2>1, <2>2 DEF OutcomeIsReady
<1>11. CASE Requeue
  <2>1. /\ scan'.status = "pending" /\ scan'.processors = {}
        /\ run'.pc = "waiting" /\ run'.failed = {}
    BY <1>1, <1>11 DEF Requeue, IdleRun, TypeOK, Scan
  <2> QED BY <2>1 DEF OutcomeIsReady, OutcomeIsLast, ResultIsComplete, FailedNamesCulprits
<1>12. CASE UNCHANGED vars
  BY <1>1, <1>12 DEF vars, OutcomeIsReady, OutcomeIsLast, ResultIsComplete, FailedNamesCulprits,
     Blames, StatusIs
<1> QED
  BY <1>3, <1>4, <1>5, <1>6, <1>7, <1>8, <1>9, <1>10, <1>11, <1>12 DEF Next, WorkerStep

-----------------------------------------------------------------------------
(* Submissions *)

LEMMA CountStep == ProviderInv /\ TypeOK' /\ [Next]_vars => CallsAreCounted'
<1> SUFFICES ASSUME ProviderInv, TypeOK', [Next]_vars PROVE CallsAreCounted'
  OBVIOUS
<1> USE DEF At
<1>1. /\ TypeOK /\ run \in Run /\ run.rest \in Seq(Providers) /\ CallsAreCounted /\ ListsAgree
      /\ job.made \in Nat /\ job.stalls \in Nat /\ \A p \in Providers : calls[p] \in Nat
  BY Bounds DEF ProviderInv, TypeOK, Run
<1>2. ASSUME job' = job, calls' = calls, Unsent' \subseteq Unsent PROVE CallsAreCounted'
  BY <1>1, <1>2 DEF CallsAreCounted
<1>3. ASSUME calls' = calls, run'.pc = "waiting",
             job'.made + job'.stalls = job.made + job.stalls + 1
      PROVE  CallsAreCounted'
  BY <1>1, <1>3 DEF CallsAreCounted, Unsent
<1>4. CASE TakeJob
  <2>1. run.pc = "waiting" /\ run'.pc \in {"ended", "mark"} /\ job' = job /\ calls' = calls
    BY <1>1, <1>4, RunFields DEF TakeJob
  <2> QED BY <1>2, <2>1 DEF Unsent, InLoop
<1>5. CASE MarkProcessing
  <2>1. run.pc = "mark" /\ run'.pc \in {"resolve", "error"} /\ job' = job /\ calls' = calls
    BY <1>1, <1>5, RunFields DEF MarkProcessing
  <2> QED BY <1>2, <2>1 DEF Unsent, InLoop
<1>6. CASE ResolveMediaInput
  <2>1. /\ run.pc = "resolve" /\ job' = job /\ calls' = calls
        /\ (run'.pc = "next" /\ run'.rest = Selected) \/ run'.pc = "error"
    BY <1>1, <1>6, RunFields DEF ResolveMediaInput, Run
  <2> QED BY <1>2, <2>1, WholeList DEF Unsent, InLoop
<1>7. CASE BeginProvider
  <2>1. /\ run.pc = "next" /\ job' = job /\ calls' = calls
        /\ (run'.pc = "call" /\ run'.rest = run.rest) \/ run'.pc = "error"
    BY <1>1, <1>7, RunFields DEF BeginProvider
  <2> QED BY <1>2, <2>1 DEF Unsent, InLoop
<1>8. CASE CallProvider
  <2>1. /\ run.pc = "call" /\ run'.pc \in {"sent", "failed"} /\ run'.rest = run.rest
        /\ job' = job /\ (Submitted \/ calls' = calls) /\ run.rest # <<>> /\ IsInjective(run.rest)
    BY <1>1, <1>8, RunFields DEF CallProvider, Run, ListsAgree, Busy, InLoop
  <2>2. /\ Unsent = ToSet(run.rest) /\ Unsent' = ToSet(Tail(run.rest))
        /\ Current \in Providers /\ Unsent = {Current} \union Unsent' /\ Current \notin Unsent'
    BY <1>1, <2>1, FirstOfList DEF Unsent, InLoop, Current
  <2>3. \A p \in Providers : IF p = Current THEN calls'[p] \in {calls[p], calls[p] + 1} ELSE calls'[p] = calls[p]
    <3>1. CASE Submitted
      <4>1. calls' = [calls EXCEPT ![Current] = calls[Current] + 1] /\ calls \in [Providers -> Nat]
        BY <1>1, <3>1 DEF Submitted, TypeOK
      <4> QED BY <4>1
    <3> QED BY <2>1, <3>1
  <2> QED BY <1>1, <2>1, <2>2, <2>3 DEF CallsAreCounted
<1>9. CASE AwaitAnswer \/ PollProvider \/ NormalizeAndPersist
  <2>1. /\ run.pc \in {"sent", "poll", "persist"} /\ run'.pc \in {"poll", "persist", "completed", "failed"}
        /\ run'.rest = run.rest /\ job' = job /\ calls' = calls
    BY <1>1, <1>9, RunFields DEF AwaitAnswer, PollProvider, NormalizeAndPersist, Run
  <2> QED BY <1>2, <2>1 DEF Unsent, InLoop
<1>10. CASE CompleteProvider \/ FailProvider
  <2>1. run.pc \in {"completed", "failed"} /\ job' = job /\ calls' = calls
    BY <1>10 DEF CompleteProvider, FailProvider
  <2>2. \/ run'.pc = "next" /\ run'.rest = Tail(run.rest)
        \/ run'.pc = "failed" /\ run'.rest = run.rest
        \/ run'.pc = "error"
    <3>1. CASE CompleteProvider
      BY <1>1, <3>1, RunFields DEF CompleteProvider, Run
    <3>2. CASE FailProvider
      BY <1>1, <3>2, RunFields DEF FailProvider, Run
    <3> QED BY <1>10, <3>1, <3>2
  <2> QED BY <1>2, <2>1, <2>2 DEF Unsent, InLoop
<1>11. CASE Aggregate \/ RecordResult
  <2>1. run'.pc \in {"error", "record", "ended"} /\ job' = job /\ calls' = calls
    BY <1>1, <1>11, RunFields DEF Aggregate, RecordResult
  <2> QED BY <1>2, <2>1 DEF Unsent, InLoop
<1>12. CASE HandleProcessorError
  <2>1. CASE job' = [job EXCEPT !.made = @ + 1] /\ run' = IdleRun("waiting")
    <3>1. job'.made = job.made + 1 /\ job'.stalls = job.stalls /\ run'.pc = "waiting" /\ calls' = calls
      BY <1>1, <1>12, <2>1, RunFields DEF HandleProcessorError, TypeOK
    <3> QED BY <1>1, <1>3, <3>1
  <2>2. CASE job' = job /\ run' = IdleRun("ended")
    BY <1>1, <1>2, <1>12, <2>2, RunFields DEF HandleProcessorError, Unsent, InLoop
  <2> QED BY <1>12, <2>1, <2>2 DEF HandleProcessorError
<1>13. CASE Crash
  <2>1. CASE job' = [job EXCEPT !.stalls = @ + 1] /\ run' = IdleRun("waiting")
    <3>1. job'.made = job.made /\ job'.stalls = job.stalls + 1 /\ run'.pc = "waiting" /\ calls' = calls
      BY <1>1, <1>13, <2>1, RunFields DEF Crash, TypeOK
    <3> QED BY <1>1, <1>3, <3>1
  <2>2. CASE job' = job /\ run' = IdleRun("ended")
    BY <1>1, <1>2, <1>13, <2>2, RunFields DEF Crash, Unsent, InLoop
  <2> QED BY <1>13, <2>1, <2>2 DEF Crash
<1>14. CASE Requeue
  BY <1>1, <1>14, RunFields DEF Requeue, CallsAreCounted, Unsent
<1>15. CASE UNCHANGED vars
  BY <1>1, <1>2, <1>15 DEF vars, Unsent, InLoop
<1> QED
  BY <1>4, <1>5, <1>6, <1>7, <1>8, <1>9, <1>10, <1>11, <1>12, <1>13, <1>14, <1>15
     DEF Next, WorkerStep

-----------------------------------------------------------------------------
LEMMA InitInv == Init => ProviderInv
<1> SUFFICES ASSUME Init PROVE ProviderInv
  OBVIOUS
<1>1. TypeOK
  BY Bounds DEF Init, TypeOK, Scan, Run, IdleRun, AllAt
<1>2. ListsAgree /\ OutcomeIsReady /\ OutcomeIsLast /\ ResultIsComplete /\ FailedNamesCulprits
  BY DEF Init, IdleRun, ListsAgree, OutcomeIsReady, OutcomeIsLast, ResultIsComplete,
         FailedNamesCulprits, InLoop, At
<1>3. CallsAreCounted
  BY DEF Init, CallsAreCounted, Unsent, IdleRun
<1> QED BY <1>1, <1>2, <1>3 DEF ProviderInv

LEMMA InvStep == ProviderInv /\ [Next]_vars => ProviderInv'
<1> SUFFICES ASSUME ProviderInv, [Next]_vars PROVE ProviderInv'
  OBVIOUS
<1>1. TypeOK'
  BY TypeStep DEF ProviderInv
<1>2. ListsAgree'
  BY ListsStep
<1>3. OutcomeIsReady' /\ OutcomeIsLast' /\ ResultIsComplete' /\ FailedNamesCulprits'
  BY <1>1, <1>2, OutcomeStep
<1>4. CallsAreCounted'
  BY <1>1, CountStep
<1> QED BY <1>1, <1>2, <1>3, <1>4 DEF ProviderInv

\* The invariant of runDetection and of the processor around it: the two lists of the
\* run agree with the statuses in the row, and submissions are paid for by attempts.
THEOREM ProviderInvariant == Spec => []ProviderInv
  BY InitInv, InvStep, PTL DEF Spec

\* However many providers a scan selects, a completed row carries the result of each
\* and shows none as failed, running or queued, and no other row carries a result.
THEOREM ResultsAreComplete == Spec => []ResultIsComplete
<1>1. ProviderInv => ResultIsComplete
  BY DEF ProviderInv
<1> QED BY <1>1, ProviderInvariant, PTL

\* A failed row blames only providers shown as failed, and all of them while no
\* statement was rejected.
THEOREM CulpritsAreNamed == Spec => []FailedNamesCulprits
<1>1. ProviderInv => FailedNamesCulprits
  BY DEF ProviderInv
<1> QED BY <1>1, ProviderInvariant, PTL

\* The media goes to a provider at most once per attempt and per recovered crash.
THEOREM SubmissionsAreBounded == Spec => []SubmissionBudget
<1>1. ProviderInv => SubmissionBudget
  <2> SUFFICES ASSUME ProviderInv, NEW p \in Providers PROVE calls[p] <= MaxAttempts + MaxStalls
    BY DEF SubmissionBudget
  <2>1. /\ job.made \in Nat /\ job.made <= MaxAttempts - 1 /\ job.stalls \in Nat /\ job.stalls <= MaxStalls
        /\ calls[p] \in Nat
    BY Bounds DEF ProviderInv, TypeOK
  <2>2. calls[p] <= job.made + job.stalls + 1
    BY <2>1 DEF ProviderInv, CallsAreCounted
  <2> QED BY <2>1, <2>2, Bounds
<1> QED BY <1>1, ProviderInvariant, PTL

-----------------------------------------------------------------------------
(* The steps of a call are steps of ProviderRun *)

\* What a failing call is to the run.
LEMMA FailsIsAStep ==
  ASSUME NEW error, Fails(error), run.pc \in {"call", "sent", "poll"}
  PROVE  CallProvider \/ AwaitAnswer \/ PollProvider
<1>1. 0 \in 0..MaxDelay
  BY Bounds
<1>2. Goto("failed") /\ UNCHANGED <<scan, job, calls, faults>>
  BY DEF Fails
<1>3. CASE run.pc = "call"
  BY <1>2, <1>3 DEF CallProvider, At
<1>4. CASE run.pc = "sent"
  BY <1>2, <1>4 DEF AwaitAnswer, At
<1>5. CASE run.pc = "poll"
  BY <1>1, <1>2, <1>5 DEF PollProvider, At
<1> QED BY <1>3, <1>4, <1>5

LEMMA DetectIsAStep ==
  CallAgrees /\ DetectStep => CallProvider \/ AwaitAnswer \/ PollProvider \/ UNCHANGED vars
<1> SUFFICES ASSUME CallAgrees, DetectStep
             PROVE  CallProvider \/ AwaitAnswer \/ PollProvider \/ UNCHANGED vars
  OBVIOUS
<1> USE DEF At
<1>1. /\ call.at \in {"none", "file", "request", "headers", "body", "probe"}
      /\ call.step \in {"none", "presign", "put", "poll", "post"}
  BY DEF CallAgrees, Call
<1>2. call.at \in {"request", "headers", "body", "probe"} => run.pc \in {"call", "sent", "poll"}
  BY <1>1 DEF CallAgrees
<1>3. CASE CheckInput \/ ReadFile
  BY <1>3, FailsIsAStep DEF CheckInput, ReadFile
<1>4. CASE SendRequest
  <2>1. CASE call.step \in {"put", "post"}
    BY <1>4, <2>1 DEF SendRequest, CallAgrees, CallProvider
  <2> QED BY <1>4, <2>1 DEF SendRequest
<1>5. CASE HeadersCome
  <2>1. CASE call.step = "put" /\ StartPolling
    BY <1>5, <2>1 DEF HeadersCome, StartPolling, CallAgrees, AwaitAnswer
  <2> QED BY <1>5, <2>1 DEF HeadersCome
<1>6. CASE RequestFails \/ BodyBreaks \/ AnswerRefuses \/ ProbeEnds \/ AnswerIsMalformed
  BY <1>2, <1>6, FailsIsAStep
     DEF RequestFails, BodyBreaks, AnswerRefuses, ProbeEnds, AnswerIsMalformed
<1>7. CASE AnswerComes
  <2>1. CASE call.step \in {"post", "poll"} /\ Goto("persist") /\ UNCHANGED <<scan, job, calls, faults>>
    <3>1. 0 \in 0..MaxDelay
      BY Bounds
    <3>2. run.pc \in {"sent", "poll"}
      BY <1>7, <2>1 DEF AnswerComes, Presigned, Answered, CallAgrees
    <3> QED BY <2>1, <3>1, <3>2 DEF AwaitAnswer, PollProvider
  <2> QED BY <1>7, <2>1 DEF AnswerComes, Presigned, Answered
<1>8. CASE Analysing
  BY <1>8 DEF Analysing, CallAgrees, PollProvider, Fails
<1> QED BY <1>3, <1>4, <1>5, <1>6, <1>7, <1>8 DEF DetectStep

LEMMA CallIsAStep == CallAgrees /\ [CallNext]_callVars => [Next]_vars
<1>1. DetectStep /\ CallAgrees => [Next]_vars
  BY DetectIsAStep DEF Next, WorkerStep
<1>2. RunStep => Next
  BY DEF RunStep, Next, WorkerStep
<1> QED BY <1>1, <1>2 DEF CallNext, CallWorkerStep, callVars, vars, Next

-----------------------------------------------------------------------------
(* Where a call is *)

\* The current provider stays while the list of the run does, and what is asked of it
\* with it.
LEMMA SameProvider ==
  ASSUME run'.rest = run.rest, given' = given
  PROVE  /\ Current' = Current /\ Hopeless(Current)' = Hopeless(Current)
         /\ Refusal' = Refusal /\ ReadsFile' = ReadsFile /\ MayPass' = MayPass
         /\ \A a : Serves(a)' = Serves(a)
<1>1. Current' = Current
  BY DEF Current
<1>2. \A a : Serves(a)' = Serves(a)
  BY <1>1 DEF Serves, Adapter
<1>3. ReadsFile' = ReadsFile
  BY <1>2 DEF ReadsFile
<1>4. Refusal' = Refusal
  BY <1>1, <1>2 DEF Refusal, RealityDefenderRefusal, GenericRefusal, HiveRefusal
<1>5. Hopeless(Current)' = Hopeless(Current)
  BY <1>1 DEF Hopeless, Adapter
<1> QED BY <1>1, <1>2, <1>3, <1>4, <1>5 DEF MayPass

\* What is not refused before the first request, and not for its file, may succeed.
LEMMA RefusalsAreComplete ==
  ASSUME given \in Cases, Refusal = "none"
  PROVE  /\ ~ReadsFile => ~Hopeless(Current)
         /\ ReadsFile /\ SizeError = "none" => ~Hopeless(Current)
<1>1. /\ given.vendor \in Vendors /\ given.source \in {"upload", "url", "legacy"}
      /\ given.size \in {"empty", "fits", "large"} /\ given.multipart \in BOOLEAN /\ given.urls \in BOOLEAN
  BY CasesAssumption
<1>2. Adapter(Current) \in {"reality_defender", "generic", "unknown", "hive"}
  BY <1>1 DEF Adapter, Vendors
<1>3. CASE Adapter(Current) = "reality_defender"
  BY <1>1, <1>3 DEF Refusal, RealityDefenderRefusal, ReadsFile, SizeError, Serves, Hopeless
<1>4. CASE Adapter(Current) = "generic"
  BY <1>1, <1>4 DEF Refusal, GenericRefusal, ReadsFile, SizeError, Serves, Hopeless
<1>5. CASE Adapter(Current) = "unknown"
  BY <1>5 DEF Refusal, Serves
<1>6. CASE Adapter(Current) = "hive"
  BY <1>1, <1>6 DEF Refusal, HiveRefusal, ReadsFile, SizeError, Serves, Hopeless
<1> QED BY <1>2, <1>3, <1>4, <1>5, <1>6

\* And what is refused is refused for good, or by Hive.
LEMMA RefusalsAreJust ==
  ASSUME given \in Cases
  PROVE  /\ Refusal # "none" => Refusal \in Terminal \union {"plain"} /\ (~Serves("hive") => Refusal \in Terminal)
         /\ Refusal \in Terminal => Hopeless(Current)
<1>1. /\ given.vendor \in Vendors /\ given.source \in {"upload", "url", "legacy"}
      /\ given.multipart \in BOOLEAN /\ given.urls \in BOOLEAN
  BY CasesAssumption
<1>2. Adapter(Current) \in {"reality_defender", "generic", "unknown", "hive"}
  BY <1>1 DEF Adapter, Vendors
<1>3. CASE Adapter(Current) = "reality_defender"
  BY <1>1, <1>3 DEF Refusal, RealityDefenderRefusal, Serves, Hopeless, Terminal
<1>4. CASE Adapter(Current) = "generic"
  BY <1>1, <1>4 DEF Refusal, GenericRefusal, Serves, Hopeless, Terminal
<1>5. CASE Adapter(Current) = "unknown"
  BY <1>5 DEF Refusal, Serves, Hopeless, Terminal
<1>6. CASE Adapter(Current) = "hive"
  BY <1>1, <1>6 DEF Refusal, HiveRefusal, Serves, Hopeless, Terminal
<1> QED BY <1>2, <1>3, <1>4, <1>5, <1>6

-----------------------------------------------------------------------------
(* The steps of a call keep the invariant *)

\* When detect throws.
LEMMA FailsKeepsInv ==
  ASSUME CallInv, ProviderInv, given' = given, run.pc \in {"call", "sent", "poll"},
         NEW error \in {"plain"} \union Terminal \union Retryable, Fails(error),
         Hopeless(Current) /\ ~Serves("hive") => error \in Terminal,
         error \in Terminal => Hopeless(Current) \/ error \in MayPass
  PROVE  CallInv'
<1> USE DEF At
<1>1. /\ run'.pc = "failed" /\ run'.rest = run.rest /\ run'.detections = run.detections
      /\ scan' = scan /\ calls' = calls
  BY DEF Fails, Goto, ProviderInv, TypeOK, Run
<1>2. call' = [at |-> "none", step |-> "none", status |-> "none", error |-> error] /\ call' \in Call
  BY DEF Fails, IdleCall, Call, Statuses
<1>3. /\ Current' = Current /\ Hopeless(Current)' = Hopeless(Current)
      /\ MayPass' = MayPass /\ Serves("hive")' = Serves("hive")
  BY <1>1, SameProvider
<1>4. \A p : Hopeless(p)' = Hopeless(p)
  BY DEF Hopeless, Adapter
<1>5. CallAgrees'
  BY <1>1, <1>2 DEF CallAgrees
<1>6. AnswersArePossible'
  BY <1>1, <1>2, <1>4 DEF CallInv, AnswersArePossible
<1>7. RefusalsHold'
  BY <1>1, <1>2, <1>3, <1>4 DEF CallInv, RefusalsHold
<1> QED BY <1>5, <1>6, <1>7 DEF CallInv

\* When it goes on and nothing of the run changes.
LEMMA WaitKeepsInv ==
  ASSUME CallInv, given' = given, UNCHANGED vars, CallAgrees', run.pc # "failed",
         call'.at = "file" => Refusal = "none" /\ ReadsFile,
         call'.step # "none" => ~Hopeless(Current)
  PROVE  CallInv'
<1> USE DEF At
<1>1. scan' = scan /\ run' = run /\ calls' = calls
  BY DEF vars
<1>2. /\ Current' = Current /\ Hopeless(Current)' = Hopeless(Current)
      /\ Refusal' = Refusal /\ ReadsFile' = ReadsFile /\ Serves("hive")' = Serves("hive")
  BY <1>1, SameProvider
<1>3. \A p : Hopeless(p)' = Hopeless(p)
  BY DEF Hopeless, Adapter
<1>4. AnswersArePossible'
  BY <1>1, <1>2, <1>3 DEF CallInv, AnswersArePossible
<1>5. RefusalsHold'
  BY <1>1, <1>3 DEF CallInv, RefusalsHold
<1> QED BY <1>4, <1>5 DEF CallInv

\* When the next request is a poll.
LEMMA PollingKeepsInv ==
  ASSUME CallInv, given' = given, scan' = scan, calls' = calls, ~Hopeless(Current),
         run'.pc = "poll", run'.rest = run.rest, run'.detections = run.detections,
         call' = [at |-> "request", step |-> "poll", status |-> "none", error |-> "none"],
         call' \in Call, Serves("reality_defender"), Current \in Pollers
  PROVE  CallInv'
<1> USE DEF At
<1>1. /\ Current' = Current /\ Hopeless(Current)' = Hopeless(Current)
      /\ Serves("reality_defender")' = Serves("reality_defender")
  BY SameProvider
<1>2. \A p : Hopeless(p)' = Hopeless(p)
  BY DEF Hopeless, Adapter
<1>3. CallAgrees'
  BY <1>1 DEF CallAgrees
<1>4. AnswersArePossible'
  BY <1>1, <1>2 DEF CallInv, AnswersArePossible
<1>5. RefusalsHold'
  BY <1>2 DEF CallInv, RefusalsHold
<1> QED BY <1>3, <1>4, <1>5 DEF CallInv

\* Which of the requests is under way, and what is asked of the provider then.
LEMMA DetectKeepsInv ==
  CallInv /\ ProviderInv /\ DetectStep /\ given' = given => CallInv'
<1> SUFFICES ASSUME CallInv, ProviderInv, DetectStep, given' = given PROVE CallInv'
  OBVIOUS
<1> USE DEF At
<1>1. /\ given \in Cases /\ CallAgrees /\ AnswersArePossible /\ RefusalsHold /\ run \in Run
      /\ call.at \in {"none", "file", "request", "headers", "body", "probe"}
      /\ call.step \in {"none", "presign", "put", "poll", "post"}
      /\ call.status \in {"none"} \union Statuses
  BY DEF CallInv, CallAgrees, Call, ProviderInv, TypeOK
<1>2. call.at \in {"request", "headers", "body", "probe"} =>
        /\ run.pc \in {"call", "sent", "poll"} /\ ~Hopeless(Current)
  BY <1>1 DEF CallAgrees, AnswersArePossible
<1>3. ASSUME NEW s \in {"presign", "put", "poll", "post"}, NEW a \in {"request", "headers", "body", "probe"},
             NEW st \in {"none"} \union Statuses
      PROVE  [at |-> a, step |-> s, status |-> st, error |-> "none"] \in Call
  BY <1>3 DEF Call
<1>4. ASSUME NEW s, Begin(s)
      PROVE  call' = [at |-> "request", step |-> s, status |-> "none", error |-> "none"]
  BY <1>4 DEF Begin, IdleCall
<1>5. Adapter(Current) \in {"reality_defender", "generic", "unknown", "hive"}
  BY <1>1, CasesAssumption DEF Adapter, Vendors
<1>6. Serves("reality_defender") => Current \in Pollers
  BY DEF Serves, Adapter
<1>10. CASE CheckInput
  <2>1. CASE Refusal # "none" /\ Fails(Refusal)
    BY <1>1, <1>10, <2>1, FailsKeepsInv, RefusalsAreJust DEF CheckInput
  <2>2. CASE Refusal = "none" /\ UNCHANGED vars /\ ReadsFile /\ call' = [IdleCall EXCEPT !.at = "file"]
    <3>1. call' = [at |-> "file", step |-> "none", status |-> "none", error |-> "none"]
      BY <2>2 DEF IdleCall
    <3>2. call' \in Call
      BY <3>1 DEF Call
    <3>3. CallAgrees'
      BY <1>10, <2>2, <3>1, <3>2 DEF CallAgrees, CheckInput, vars
    <3> QED BY <1>10, <2>2, <3>1, <3>3, WaitKeepsInv DEF CheckInput
  <2>3. CASE Refusal = "none" /\ UNCHANGED vars /\ ~ReadsFile /\ Begin(FirstStep)
    <3>1. FirstStep \in {"presign", "post"} /\ (FirstStep = "presign" => Serves("reality_defender"))
      BY DEF FirstStep
    <3>2. CallAgrees'
      BY <1>3, <1>4, <1>6, <1>10, <2>3, <3>1 DEF CallAgrees, CheckInput, vars, Current, Serves, Adapter
    <3> QED BY <1>1, <1>4, <1>10, <2>3, <3>1, <3>2, WaitKeepsInv, RefusalsAreComplete DEF CheckInput
  <2> QED BY <1>10, <2>1, <2>2, <2>3 DEF CheckInput
<1>11. CASE ReadFile
  <2>1. Refusal = "none" /\ ReadsFile /\ run.pc = "call"
    BY <1>1, <1>11 DEF ReadFile, AnswersArePossible
  <2>2. ASSUME NEW error \in {"REAL_FILE_MISSING", "REAL_CONFIG"}, Fails(error)
        PROVE  CallInv'
    BY <2>1, <2>2, FailsKeepsInv DEF Terminal, MayPass
  <2>3. CASE SizeError # "none" /\ Fails(SizeError)
    <3>1. SizeError \in {"plain", "REAL_FILE_EMPTY", "REAL_FILE_TOO_LARGE"}
      BY <2>3 DEF SizeError
    <3>2. ~Serves("hive") => SizeError \in Terminal
      BY <2>3 DEF SizeError, Terminal
    <3>3. SizeError \in Terminal => Hopeless(Current)
      BY <1>1, <1>5, <2>1, <2>3, CasesAssumption
         DEF SizeError, Terminal, Serves, Hopeless, ReadsFile, Refusal
    <3> QED BY <2>1, <2>3, <3>1, <3>2, <3>3, FailsKeepsInv DEF Terminal
  <2>4. CASE SizeError = "none" /\ Fails("plain")
    BY <1>1, <2>1, <2>4, FailsKeepsInv, RefusalsAreComplete DEF Terminal
  <2>5. CASE SizeError = "none" /\ Begin(FirstStep) /\ UNCHANGED vars
    <3>1. FirstStep \in {"presign", "post"} /\ (FirstStep = "presign" => Serves("reality_defender"))
      BY DEF FirstStep
    <3>2. CallAgrees'
      BY <1>3, <1>4, <1>6, <2>1, <2>5, <3>1 DEF CallAgrees, vars, Current, Serves, Adapter
    <3> QED BY <1>1, <1>4, <2>1, <2>5, <3>1, <3>2, WaitKeepsInv, RefusalsAreComplete
  <2> QED BY <1>11, <2>2, <2>3, <2>4, <2>5 DEF ReadFile
<1>12. CASE SendRequest
  <2>1. /\ call' = [call EXCEPT !.at = "headers"] /\ call.at = "request" /\ call.step # "none"
        /\ ~Hopeless(Current) /\ call.error = "none" /\ run.pc \in {"call", "poll"}
    BY <1>1, <1>2, <1>12 DEF SendRequest, CallAgrees
  <2>2. call'.at = "headers" /\ call'.step = call.step /\ call'.error = "none" /\ call' \in Call
    BY <1>1, <2>1 DEF CallAgrees, Call
  <2>3. CASE call.step \in {"put", "post"}
    <3>1. /\ Submitted /\ Goto("sent") /\ scan' = scan /\ run.pc = "call"
      BY <1>1, <1>12, <2>1, <2>3 DEF SendRequest, CallAgrees
    <3>2. /\ run'.pc = "sent" /\ run'.rest = run.rest /\ run'.detections = run.detections
      BY <1>1, <3>1 DEF Goto, Run
    <3>3. /\ Current' = Current /\ Hopeless(Current)' = Hopeless(Current)
          /\ \A a : Serves(a)' = Serves(a)
      BY <3>2, SameProvider
    <3>4. \A p : Hopeless(p)' = Hopeless(p)
      BY DEF Hopeless, Adapter
    <3>5. CallAgrees'
      BY <1>1, <2>1, <2>2, <2>3, <3>2, <3>3 DEF CallAgrees
    <3>6. AnswersArePossible'
      BY <1>1, <2>1, <2>2, <3>2, <3>3, <3>4 DEF AnswersArePossible
    <3>7. \A p \in Providers : Hopeless(p) => calls'[p] = calls[p]
      BY <2>1, <3>1 DEF Submitted, ProviderInv, TypeOK
    <3>8. RefusalsHold'
      BY <1>1, <3>1, <3>2, <3>4, <3>7 DEF RefusalsHold
    <3> QED BY <3>5, <3>6, <3>8 DEF CallInv
  <2>4. CASE call.step \notin {"put", "post"}
    <3>1. UNCHANGED vars
      BY <1>12, <2>4 DEF SendRequest
    <3>2. CallAgrees'
      BY <1>1, <2>1, <2>2, <2>4, <3>1 DEF CallAgrees, vars, Current, Serves, Adapter
    <3> QED BY <2>1, <2>2, <3>1, <3>2, WaitKeepsInv
  <2> QED BY <2>3, <2>4
<1>13. CASE RequestFails
  BY <1>2, <1>13, FailsKeepsInv DEF RequestFails, Terminal, Retryable
<1>14. CASE HeadersCome
  <2>1. call.at = "headers" /\ call.step # "none" /\ ~Hopeless(Current) /\ call.error = "none"
    BY <1>1, <1>2, <1>14 DEF HeadersCome, CallAgrees
  <2>2. CASE call.step = "put" /\ StartPolling
    <3>1. /\ call' = [at |-> "request", step |-> "poll", status |-> "none", error |-> "none"]
          /\ call' \in Call /\ Serves("reality_defender") /\ Current \in Pollers
      BY <1>1, <1>3, <1>4, <2>2 DEF StartPolling, CallAgrees
    <3>2. /\ run'.pc = "poll" /\ run'.rest = run.rest /\ run'.detections = run.detections
          /\ scan' = scan /\ calls' = calls
      BY <1>1, <2>2 DEF StartPolling, Run
    <3> QED BY <2>1, <3>1, <3>2, PollingKeepsInv
  <2>3. ASSUME NEW status \in Statuses, call' = [call EXCEPT !.at = "body", !.status = status], UNCHANGED vars
        PROVE  CallInv'
    <3>1. /\ call'.at = "body" /\ call'.step = call.step /\ call'.error = "none" /\ call'.status = status
          /\ call' \in Call
      BY <1>1, <2>1, <2>3 DEF CallAgrees, Call
    <3>2. status # "none"
      BY DEF Statuses
    <3>3. CallAgrees'
      BY <1>1, <2>1, <2>3, <3>1, <3>2 DEF CallAgrees, vars, Current, Serves, Adapter
    <3>4. run.pc # "failed"
      BY <1>2, <2>1
    <3> QED BY <2>1, <2>3, <3>1, <3>3, <3>4, WaitKeepsInv
  <2> QED BY <1>14, <2>2, <2>3 DEF HeadersCome
<1>15. CASE BodyBreaks
  <2>1. "REAL_PROVIDER_BAD_RESPONSE" \in MayPass
    BY DEF MayPass
  <2> QED BY <1>2, <1>15, <2>1, FailsKeepsInv DEF BodyBreaks, Terminal
<1>16. CASE AnswerRefuses
  <2>1. CASE Serves("hive") /\ given.probe
    <3>1. call' = [call EXCEPT !.at = "probe"] /\ UNCHANGED vars
      BY <1>16, <2>1 DEF AnswerRefuses
    <3>2. call'.at = "probe" /\ call'.step = call.step /\ call'.error = call.error /\ call' \in Call
      BY <1>1, <3>1 DEF CallAgrees, Call
    <3>3. CallAgrees'
      BY <1>1, <1>16, <3>1, <3>2 DEF CallAgrees, AnswerRefuses, vars, Current, Serves, Adapter
    <3> QED BY <1>2, <1>16, <3>1, <3>2, <3>3, WaitKeepsInv DEF AnswerRefuses
  <2>2. CASE ~(Serves("hive") /\ given.probe)
    <3>1. ASSUME NEW error, Fails(error), error \in {"plain"} \union MayPass \union Retryable
          PROVE  CallInv'
      <4>1. error \in {"plain"} \union Terminal \union Retryable
        BY <3>1 DEF MayPass, Terminal
      <4>2. error \in Terminal => error \in MayPass
        BY <3>1 DEF Terminal, Retryable
      <4> QED BY <1>2, <1>16, <3>1, <4>1, <4>2, FailsKeepsInv DEF AnswerRefuses
    <3>2. call.status \in {"auth", "limited", "server", "odd", "rejected", "none"}
      BY <1>1, <1>16 DEF AnswerRefuses, Statuses
    <3>3. call.status # "none"
      BY <1>1, <1>16 DEF AnswerRefuses, CallAgrees
    <3>4. ErrorForHttpStatus[call.status] \in MayPass \union Retryable
      BY <3>2, <3>3 DEF ErrorForHttpStatus, MayPass, Retryable
    <3>5. "REAL_PROVIDER_BAD_RESPONSE" \in MayPass
      BY DEF MayPass
    <3> QED BY <1>16, <2>2, <3>1, <3>4, <3>5 DEF AnswerRefuses
  <2> QED BY <2>1, <2>2
<1>17. CASE ProbeEnds \/ AnswerIsMalformed
  <2>1. "REAL_PROVIDER_BAD_RESPONSE" \in MayPass
    BY DEF MayPass
  <2> QED BY <1>2, <1>17, <2>1, FailsKeepsInv DEF ProbeEnds, AnswerIsMalformed, Terminal
<1>18. CASE AnswerComes
  <2>1. call.at = "body" /\ call.step # "none" /\ ~Hopeless(Current)
    BY <1>1, <1>2, <1>18 DEF AnswerComes, Presigned, Answered, CallAgrees
  <2>2. CASE call.step = "presign" /\ Begin("put") /\ UNCHANGED vars
    <3>1. /\ call' = [at |-> "request", step |-> "put", status |-> "none", error |-> "none"]
          /\ call' \in Call /\ Serves("reality_defender") /\ Current \in Pollers /\ run.pc = "call"
      BY <1>1, <1>3, <1>4, <2>2 DEF CallAgrees
    <3>2. CallAgrees'
      BY <2>2, <3>1 DEF CallAgrees, vars, Current, Serves, Adapter
    <3> QED BY <2>1, <2>2, <3>1, <3>2, WaitKeepsInv
  <2>3. CASE Goto("persist") /\ call' = IdleCall /\ UNCHANGED <<scan, job, calls, faults>>
    <3>1. /\ run'.pc = "persist" /\ run'.rest = run.rest /\ run'.detections = run.detections
      BY <1>1, <2>3 DEF Goto, Run
    <3>2. /\ call' \in Call /\ call'.at = "none" /\ call'.step = "none"
          /\ call'.error = "none" /\ call'.status = "none"
      BY <2>3 DEF IdleCall, Call
    <3>3. Hopeless(Current)' = Hopeless(Current) /\ \A p : Hopeless(p)' = Hopeless(p)
      BY <3>1, SameProvider DEF Hopeless, Adapter
    <3>4. CallAgrees'
      BY <3>2 DEF CallAgrees
    <3>5. AnswersArePossible'
      BY <1>1, <2>1, <3>1, <3>2, <3>3 DEF AnswersArePossible
    <3>6. RefusalsHold'
      BY <1>1, <2>3, <3>1, <3>3 DEF RefusalsHold
    <3> QED BY <3>4, <3>5, <3>6 DEF CallInv
  <2> QED BY <1>18, <2>2, <2>3 DEF AnswerComes, Presigned, Answered
<1>19. CASE Analysing
  <2>1. /\ call.at = "body" /\ call.step = "poll" /\ ~Hopeless(Current) /\ run.pc = "poll"
        /\ Serves("reality_defender") /\ Current \in Pollers
    BY <1>1, <1>2, <1>19 DEF Analysing, CallAgrees
  <2>2. CASE Fails("REAL_PROVIDER_TIMEOUT")
    BY <2>1, <2>2, FailsKeepsInv DEF Terminal, Retryable
  <2>3. ASSUME NEW n, run' = [run EXCEPT !.elapsed = n], Begin("poll"), UNCHANGED <<scan, job, calls, faults>>
        PROVE  CallInv'
    <3>1. /\ call' = [at |-> "request", step |-> "poll", status |-> "none", error |-> "none"]
          /\ call' \in Call
      BY <1>3, <1>4, <2>3
    <3>2. /\ run'.pc = "poll" /\ run'.rest = run.rest /\ run'.detections = run.detections
          /\ scan' = scan /\ calls' = calls
      BY <1>1, <2>1, <2>3 DEF Run
    <3> QED BY <2>1, <3>1, <3>2, PollingKeepsInv
  <2> QED BY <1>19, <2>2, <2>3 DEF Analysing
<1> QED BY <1>10, <1>11, <1>12, <1>13, <1>14, <1>15, <1>16, <1>17, <1>18, <1>19 DEF DetectStep

-----------------------------------------------------------------------------
(* The steps around a call keep it too *)

\* Outside detect and without a new result: what counts is where the run goes.
LEMMA AroundKeepsInv ==
  ASSUME CallInv, given' = given, call' = IdleCall,
         run'.pc \notin {"sent", "poll", "persist", "completed", "failed"},
         run'.detections \subseteq run.detections,
         scan'.status = "completed" => \A p \in Providers : ~Hopeless(p),
         \A p \in Providers : calls'[p] \in {0, calls[p]}
  PROVE  CallInv'
<1> USE DEF At
<1>1. /\ call' \in Call /\ call'.at = "none" /\ call'.step = "none"
      /\ call'.error = "none" /\ call'.status = "none"
  BY DEF IdleCall, Call
<1>2. \A p : Hopeless(p)' = Hopeless(p)
  BY DEF Hopeless, Adapter
<1>3. CallAgrees'
  BY <1>1 DEF CallAgrees
<1>4. AnswersArePossible'
  BY <1>1, <1>2 DEF CallInv, AnswersArePossible
<1>5. RefusalsHold'
  BY <1>2 DEF CallInv, RefusalsHold
<1> QED BY <1>3, <1>4, <1>5 DEF CallInv

LEMMA IdleElsewhere ==
  CallAgrees /\ run.pc \notin {"call", "sent", "poll", "failed"} => call = IdleCall
<1> SUFFICES ASSUME CallAgrees, run.pc \notin {"call", "sent", "poll", "failed"} PROVE call = IdleCall
  OBVIOUS
<1>1. call \in Call
  BY DEF CallAgrees
<1>2. call.at = "none" /\ call.step = "none" /\ call.status = "none" /\ call.error = "none"
  BY <1>1 DEF CallAgrees, Call, At
<1> QED BY <1>1, <1>2 DEF Call, IdleCall

LEMMA RunKeepsInv ==
  CallInv /\ ProviderInv /\ RunStep /\ given' = given => CallInv'
<1> SUFFICES ASSUME CallInv, ProviderInv, RunStep, given' = given PROVE CallInv'
  OBVIOUS
<1> USE DEF At
<1>1. /\ given \in Cases /\ CallAgrees /\ AnswersArePossible /\ RefusalsHold
      /\ TypeOK /\ run \in Run /\ ListsAgree /\ OutcomeIsReady /\ OutcomeIsLast
  BY DEF CallInv, ProviderInv, TypeOK
\* Where detect is not running, the record of the call is the idle one.
<1>2. run.pc \notin {"call", "sent", "poll", "failed"} => call = IdleCall
  BY <1>1, IdleElsewhere
<1>3. scan.status = "completed" => \A p \in Providers : ~Hopeless(p)
  BY <1>1 DEF RefusalsHold
<1>4. CASE TakeJob \/ MarkProcessing \/ ResolveMediaInput \/ BeginProvider \/ Aggregate \/ HandleProcessorError
  <2>1. run.pc \in {"waiting", "mark", "resolve", "next", "error"} /\ calls' = calls
    BY <1>4 DEF TakeJob, MarkProcessing, ResolveMediaInput, BeginProvider, Aggregate, HandleProcessorError
  <2>2. /\ run'.pc \notin {"sent", "poll", "persist", "completed", "failed"}
        /\ run'.detections \subseteq run.detections
    <3>1. CASE TakeJob \/ MarkProcessing \/ ResolveMediaInput
      BY <1>1, <3>1 DEF TakeJob, MarkProcessing, ResolveMediaInput, Goto, Throw, Run
    <3>2. CASE BeginProvider \/ Aggregate
      BY <1>1, <3>2 DEF BeginProvider, Aggregate, Goto, Throw, Run
    <3>3. CASE HandleProcessorError
      BY <1>1, <3>3 DEF HandleProcessorError, IdleRun
    <3> QED BY <1>4, <3>1, <3>2, <3>3
  <2>3. scan'.status = "completed" => scan.status = "completed"
    BY <1>1, <1>4 DEF TakeJob, MarkProcessing, ResolveMediaInput, BeginProvider, Aggregate,
                      HandleProcessorError, Reject, MarkProviderStatus, TypeOK, Scan
  <2>4. call' = IdleCall
    BY <1>2, <2>1, <1>4 DEF RunStep, FailProvider
  <2> QED BY <1>3, <2>1, <2>2, <2>3, <2>4, AroundKeepsInv
<1>5. CASE RecordResult
  <2>1. run.pc = "record" /\ run.detections = Providers /\ calls' = calls
    BY <1>1, <1>5 DEF RecordResult, OutcomeIsReady
  <2>2. \A p \in Providers : ~Hopeless(p)
    BY <1>1, <2>1 DEF AnswersArePossible
  <2>3. /\ run'.pc \notin {"sent", "poll", "persist", "completed", "failed"}
        /\ run'.detections \subseteq run.detections
    BY <1>1, <1>5 DEF RecordResult, Goto, Throw, Run
  <2>4. call' = IdleCall
    BY <1>2, <2>1, <1>5 DEF RunStep, FailProvider
  <2> QED BY <2>1, <2>2, <2>3, <2>4, AroundKeepsInv
<1>6. CASE FailProvider
  <2>1. run.pc = "failed" /\ calls' = calls
    BY <1>6 DEF FailProvider
  <2>2. /\ run'.pc \notin {"sent", "poll", "persist", "completed", "failed"}
        /\ run'.detections \subseteq run.detections
    BY <1>1, <1>6 DEF FailProvider, Throw, Run
  <2>3. scan'.status = scan.status
    BY <1>1, <1>6, RowFields DEF FailProvider
  <2>4. call' = IdleCall
    BY <2>1, <1>6 DEF RunStep, TakeJob, MarkProcessing, ResolveMediaInput, BeginProvider,
       NormalizeAndPersist, CompleteProvider, Aggregate, RecordResult, HandleProcessorError
  <2> QED BY <1>3, <2>1, <2>2, <2>3, <2>4, AroundKeepsInv
<1>7. CASE NormalizeAndPersist \/ CompleteProvider
  <2>1. run.pc \in {"persist", "completed"} /\ calls' = calls /\ call = IdleCall /\ ~Hopeless(Current)
    BY <1>1, <1>2, <1>7 DEF NormalizeAndPersist, CompleteProvider, AnswersArePossible
  <2>2. call' = IdleCall
    BY <2>1, <1>7 DEF RunStep, FailProvider
  <2>3. /\ call' \in Call /\ call'.at = "none" /\ call'.step = "none"
        /\ call'.error = "none" /\ call'.status = "none"
    BY <2>2 DEF IdleCall, Call
  <2>4. \A p : Hopeless(p)' = Hopeless(p)
    BY DEF Hopeless, Adapter
  <2>5. scan'.status = scan.status
    BY <1>1, <1>7, RowFields DEF NormalizeAndPersist, CompleteProvider
  <2>6. /\ run'.pc \in {"completed", "failed", "next"}
        /\ run'.pc # "next" => run'.rest = run.rest
        /\ run'.detections \subseteq run.detections \union {Current}
    BY <1>1, <1>7 DEF NormalizeAndPersist, CompleteProvider, Goto, Run
  <2>7. run'.pc # "next" => Hopeless(Current)' = Hopeless(Current)
    BY <2>6, SameProvider
  <2>8. CallAgrees'
    BY <2>3 DEF CallAgrees
  <2>9. AnswersArePossible'
    BY <1>1, <2>1, <2>3, <2>4, <2>6, <2>7 DEF AnswersArePossible
  <2>10. "none" \notin Terminal
    BY DEF Terminal
  <2>11. RefusalsHold'
    BY <1>1, <2>1, <2>3, <2>4, <2>5, <2>6, <2>7, <2>10 DEF RefusalsHold
  <2> QED BY <2>8, <2>9, <2>11 DEF CallInv
<1> QED BY <1>4, <1>5, <1>6, <1>7 DEF RunStep

LEMMA CallInvStep == CallInv /\ ProviderInv /\ [CallNext]_callVars => CallInv'
<1> SUFFICES ASSUME CallInv, ProviderInv, [CallNext]_callVars PROVE CallInv'
  OBVIOUS
<1> USE DEF At
<1>1. /\ run \in Run /\ TypeOK
      /\ scan.status = "completed" => \A p \in Providers : ~Hopeless(p)
  BY DEF CallInv, ProviderInv, TypeOK, RefusalsHold
<1>2. CASE CallWorkerStep
  BY <1>2, DetectKeepsInv, RunKeepsInv DEF CallWorkerStep
<1>3. CASE Crash /\ call' = IdleCall /\ UNCHANGED given
  <2>1. /\ run'.pc \in {"waiting", "ended"} /\ run'.detections = {}
        /\ scan' = scan /\ calls' = calls
    BY <1>3 DEF Crash, IdleRun
  <2> QED BY <1>1, <1>3, <2>1, AroundKeepsInv
<1>4. CASE Requeue /\ UNCHANGED <<given, call>>
  <2>1. call' = IdleCall
    BY <1>4, IdleElsewhere DEF Requeue, CallInv
  <2>2. /\ run'.pc = "waiting" /\ run'.detections = {} /\ scan'.status = "pending"
        /\ \A p \in Providers : calls'[p] = 0
    BY <1>1, <1>4 DEF Requeue, IdleRun, TypeOK, Scan
  <2> QED BY <1>4, <2>1, <2>2, AroundKeepsInv
<1>5. CASE UNCHANGED callVars
  BY <1>5 DEF callVars, CallInv, CallAgrees, AnswersArePossible, RefusalsHold, Hopeless, Adapter,
     Serves, Current, Refusal, RealityDefenderRefusal, GenericRefusal, HiveRefusal, ReadsFile, MayPass
<1> QED BY <1>2, <1>3, <1>4, <1>5 DEF CallNext

LEMMA CallInitInv == CallInit => CallInv
<1> SUFFICES ASSUME CallInit PROVE CallInv
  OBVIOUS
<1>1. /\ call \in Call /\ call.at = "none" /\ call.step = "none" /\ call.error = "none"
      /\ call.status = "none" /\ given \in Cases
  BY DEF CallInit, IdleCall, Call
<1>2. /\ run.pc = "waiting" /\ run.detections = {} /\ scan.status = "pending"
      /\ \A p \in Providers : calls[p] = 0
  BY DEF CallInit, Init, IdleRun
<1> QED BY <1>1, <1>2 DEF CallInv, CallAgrees, AnswersArePossible, RefusalsHold, At

\* The adapters do to the row, the job and the run what ProviderRun lets a provider do:
\* its theorems are theorems about them.
THEOREM CallsImplementRun == CallSpec => Spec /\ []CallInv
<1>1. CallInit => ProviderInv /\ CallInv /\ Init
  BY InitInv, CallInitInv DEF CallInit
<1>2. CallInv /\ [CallNext]_callVars => [Next]_vars
  BY CallIsAStep DEF CallInv
<1>3. ProviderInv /\ CallInv /\ [CallNext]_callVars => ProviderInv' /\ CallInv'
  BY <1>2, InvStep, CallInvStep
<1> QED BY <1>1, <1>2, <1>3, PTL DEF CallSpec, Spec

\* Whatever the settings, the media and the faults, nothing is sent to a provider that
\* cannot take the scan, and the errors of the real provider say whether another
\* attempt might go better, but for the exceptions named.
THEOREM NothingIsSentInVain == CallSpec => []RefusalsHold
<1>1. CallInv => RefusalsHold
  BY DEF CallInv
<1> QED BY <1>1, CallsImplementRun, PTL

\* With the adapters too a completed scan has the result of every provider.
THEOREM CallsCompleteResults == CallSpec => []ResultIsComplete
  BY CallsImplementRun, ResultsAreComplete, PTL

-----------------------------------------------------------------------------
\* What the proofs below take from the invariant of ProviderRun.
LEMMA Grounds ==
  ASSUME ProviderInv
  PROVE  /\ TypeOK /\ run \in Run /\ ListsAgree /\ OutcomeIsReady /\ OutcomeIsLast
         /\ ResultIsComplete /\ FailedNamesCulprits
         /\ faults.db \in Nat /\ faults.requeues \in Nat /\ job.stalls \in Nat
         /\ scan.providers \in [Providers -> {"queued", "processing", "completed", "failed"}]
  BY Bounds DEF ProviderInv, TypeOK, Scan, Run

\* The statement of a step is rejected: the row stays, and whatever it shows is excused.
LEMMA RejectedStep ==
  ASSUME ProviderInv, TabsAgree, Reject,
         ~(InLoop' \/ At("resolve")' \/ At("record")') \/ InLoop
  PROVE  TabsAgree'
<1>1. scan' = scan /\ faults'.db # 0 /\ faults'.requeues = faults.requeues
  BY Grounds, RowFields DEF Reject, TypeOK
<1>2. LeftRunning' /\ ~Undisturbed'
  BY <1>1 DEF LeftRunning, Undisturbed
<1> QED BY <1>1, <1>2 DEF TabsAgree, AttemptShown, NobodyAsked

\* A step that leaves the row, the job and the faults alone, of a run that had not ended.
LEMMA QuietStep ==
  ASSUME ProviderInv, TabsAgree, scan' = scan, job' = job, faults' = faults, ~At("ended"),
         ~Busy \/ (Busy' /\ Current' = Current),
         InLoop' \/ At("resolve")' \/ At("record")' => InLoop \/ At("resolve"),
         At("error")' => AttemptShown(run.named)'
  PROVE  TabsAgree'
<1>1. scan'.status # "failed"
  BY Grounds DEF OutcomeIsLast
<1>2. LeftRunning => LeftRunning'
  BY DEF LeftRunning, Undisturbed
<1> QED BY <1>1, <1>2 DEF TabsAgree, StatusIs, HasError, UiScan, NobodyAsked

\* What a worker does between the statements.
LEMMA WorkKeepsTabs ==
  ASSUME ProviderInv, TabsAgree,
         \/ TakeJob \/ ResolveMediaInput \/ CallProvider \/ AwaitAnswer \/ PollProvider
         \/ NormalizeAndPersist \/ Aggregate
  PROVE  TabsAgree'
<1> USE DEF At
<1>1. CASE TakeJob
  <2>1. /\ scan' = scan /\ faults' = faults /\ job' = job
        /\ run.pc = "waiting" /\ run'.pc \in {"ended", "mark"}
    BY <1>1, Grounds, RunFields DEF TakeJob
  <2> QED BY <2>1, QuietStep DEF Busy, InLoop
<1>2. CASE ResolveMediaInput
  <2>1. /\ scan' = scan /\ faults' = faults /\ job' = job /\ run.pc = "resolve"
        /\ run'.pc = "next" \/ (run'.pc = "error" /\ run'.named = {})
    BY <1>2, Grounds, RunFields DEF ResolveMediaInput, Run
  <2>2. NobodyAsked'
    BY <2>1, Grounds DEF OutcomeIsReady, NobodyAsked, AllAt
  <2> QED BY <2>1, <2>2, QuietStep DEF Busy, InLoop, AttemptShown
<1>3. CASE CallProvider \/ AwaitAnswer \/ PollProvider \/ NormalizeAndPersist
  <2>1. /\ scan' = scan /\ faults' = faults /\ job' = job /\ run'.rest = run.rest
        /\ run.pc \in {"call", "sent", "poll", "persist"}
        /\ run'.pc \in {"sent", "poll", "persist", "completed", "failed"}
    BY <1>3, Grounds, RunFields
       DEF CallProvider, AwaitAnswer, PollProvider, NormalizeAndPersist, Run
  <2>2. Busy' /\ Current' = Current
    BY <2>1 DEF Busy, InLoop, Current
  <2> QED BY <2>1, <2>2, QuietStep DEF Busy, InLoop
<1>4. CASE Aggregate
  <2>1. /\ scan' = scan /\ faults' = faults /\ job' = job /\ run.pc = "next" /\ ToSet(run.rest) = {}
        /\ \/ run'.pc = "record"
           \/ run'.pc = "error" /\ run'.named = run.failed /\ run.failed # {}
    BY <1>4, Grounds, RunFields, NoList DEF Aggregate
  <2>2. StatusIs("queued")' = {}
    BY <2>1, Grounds DEF ListsAgree, InLoop, StatusIs
  <2> QED BY <2>1, <2>2, QuietStep DEF Busy, InLoop, AttemptShown
<1> QED BY <1>1, <1>2, <1>3, <1>4

\* The statements that write the row.
LEMMA StatementsKeepTabs ==
  ASSUME ProviderInv, TabsAgree,
         MarkProcessing \/ BeginProvider \/ CompleteProvider \/ FailProvider \/ RecordResult
  PROVE  TabsAgree'
<1> USE DEF At
<1>1. CASE MarkProcessing
  <2>1. CASE Reject /\ Throw("plain", {})
    BY <2>1, Grounds, RunFields, RejectedStep DEF InLoop
  <2>2. CASE scan' = [scan EXCEPT !.status = "processing", !.providers = AllAt("queued"), !.failed = {}]
             /\ Goto("resolve")
    <3>1. scan'.status = "processing" /\ scan'.providers = AllAt("queued") /\ run'.pc = "resolve"
      BY <2>2, Grounds, RunFields DEF TypeOK, Scan
    <3> QED BY <3>1 DEF TabsAgree, StatusIs, AllAt, HasError, UiScan
  <2> QED BY <1>1, <2>1, <2>2 DEF MarkProcessing
<1>2. CASE BeginProvider
  <2>0. run.pc = "next" /\ InLoop /\ ~Busy
    BY <1>2 DEF BeginProvider, InLoop, Busy
  <2>1. CASE Reject /\ Throw("plain", {})
    BY <2>0, <2>1, RejectedStep
  <2>2. CASE MarkProviderStatus("processing") /\ Goto("call")
    <3>1. /\ run'.pc = "call" /\ Current' = Current /\ Busy' /\ faults' = faults /\ job' = job
          /\ scan'.status = scan.status
          /\ \A p \in Providers : scan'.providers[p] = IF p = Current THEN "processing" ELSE scan.providers[p]
      BY <1>2, <2>2, Grounds, RunFields, RowFields DEF BeginProvider, Busy, InLoop, Current
    <3>2. \A p \in StatusIs("processing")' : p = Current \/ LeftRunning'
      BY <2>0, <3>1 DEF TabsAgree, StatusIs, LeftRunning, Undisturbed
    <3> QED BY <2>0, <3>1, <3>2 DEF TabsAgree, HasError, UiScan
  <2> QED BY <1>2, <2>1, <2>2 DEF BeginProvider
<1>3. CASE CompleteProvider \/ FailProvider
  <2>0. run.pc \in {"completed", "failed"} /\ InLoop /\ job' = job
    BY <1>3 DEF CompleteProvider, FailProvider, InLoop
  <2>1. CASE Reject
    BY <2>0, <2>1, RejectedStep
  <2>2. CASE \E st \in {"completed", "failed"} : MarkProviderStatus(st)
    <3>1. PICK st \in {"completed", "failed"} : MarkProviderStatus(st)
      BY <2>2
    <3>2. /\ run'.pc = "next"
          /\ faults' = faults /\ scan'.status = scan.status
          /\ \A p \in Providers : scan'.providers[p] = IF p = Current THEN st ELSE scan.providers[p]
      <4>1. faults' = faults /\ faults.db + 1 # faults.db
        BY <3>1, Grounds DEF MarkProviderStatus
      <4>2. ~Reject
        BY <4>1, Grounds, RowFields DEF Reject, TypeOK
      <4> QED BY <1>3, <3>1, <4>2, Grounds, RowFields DEF CompleteProvider, FailProvider, Run
    <3>3. \A p \in StatusIs("processing")' : LeftRunning'
      BY <2>0, <3>2 DEF TabsAgree, StatusIs, LeftRunning, Undisturbed
    <3> QED BY <2>0, <3>2, <3>3 DEF TabsAgree, HasError, UiScan
  <2> QED BY <1>3, <2>1, <2>2 DEF CompleteProvider, FailProvider
<1>4. CASE RecordResult
  <2>0. run.pc = "record" /\ scan.providers = AllAt("completed")
    BY <1>4, Grounds DEF RecordResult, OutcomeIsReady
  <2>1. CASE Reject /\ Throw("plain", {})
    BY <2>1, Grounds, RunFields, RejectedStep DEF InLoop
  <2>2. CASE scan' = [scan EXCEPT !.status = "completed", !.failed = {}, !.processors = run.detections]
             /\ Goto("ended")
    <3>1. scan'.status = "completed" /\ scan'.providers = AllAt("completed") /\ run'.pc = "ended"
      BY <2>0, <2>2, Grounds, RunFields DEF TypeOK, Scan
    <3> QED BY <3>1 DEF TabsAgree, StatusIs, AllAt, HasError, UiScan, InLoop
  <2> QED BY <1>4, <2>1, <2>2 DEF RecordResult
<1> QED BY <1>1, <1>2, <1>3, <1>4

\* The processor around the run, a crash and an operator's requeue.
LEMMA AroundKeepsTabs ==
  ASSUME ProviderInv, TabsAgree, HandleProcessorError \/ Crash \/ Requeue
  PROVE  TabsAgree'
<1> USE DEF At
<1>1. CASE HandleProcessorError
  <2>1. /\ run.pc = "error" /\ run'.pc \in {"waiting", "ended"} /\ job'.stalls = job.stalls
        /\ AttemptShown(run.named) /\ scan.status # "failed"
        /\ \A p \in StatusIs("processing") : job.stalls > 0 \/ ~Undisturbed
    BY <1>1, Grounds
       DEF HandleProcessorError, IdleRun, TypeOK, TabsAgree, LeftRunning, Busy, InLoop, OutcomeIsLast
  <2>2. CASE Reject
    BY <2>1, <2>2, RejectedStep DEF InLoop
  <2>3. CASE UNCHANGED <<scan, faults>>
    BY <2>1, <2>3 DEF TabsAgree, StatusIs, LeftRunning, Undisturbed, HasError, UiScan, NobodyAsked, InLoop
  <2>4. CASE scan' = [scan EXCEPT !.status = "failed", !.failed = run.named] /\ UNCHANGED faults
    <3>1. /\ scan'.status = "failed" /\ scan'.failed = run.named /\ scan'.providers = scan.providers
      BY <2>4, Grounds DEF TypeOK, Scan
    <3>2. AttemptShown(scan.failed)'
      BY <2>1, <2>4, <3>1 DEF AttemptShown, Undisturbed, NobodyAsked, StatusIs
    <3> QED BY <2>1, <2>4, <3>1, <3>2
            DEF TabsAgree, StatusIs, LeftRunning, Undisturbed, InLoop
  <2> QED BY <1>1, <2>2, <2>3, <2>4 DEF HandleProcessorError
<1>2. CASE Crash
  <2>1. /\ scan' = scan /\ faults' = faults /\ run.pc # "ended" /\ run'.pc \in {"waiting", "ended"}
        /\ job'.stalls > 0 \/ (job' = job /\ run'.pc = "ended")
    BY <1>2, Grounds DEF Crash, IdleRun, TypeOK
  <2>2. scan'.status # "failed"
    BY <2>1, Grounds DEF OutcomeIsLast
  <2>3. \A p \in StatusIs("processing")' : LeftRunning'
    BY <2>1 DEF TabsAgree, StatusIs, LeftRunning, Undisturbed, Busy
  <2> QED BY <2>1, <2>2, <2>3 DEF TabsAgree, HasError, UiScan, NobodyAsked, InLoop
<1>3. CASE Requeue
  <2>1. /\ run.pc = "ended" /\ run'.pc = "waiting" /\ scan.status \in {"failed", "completed"}
        /\ scan'.status = "pending" /\ scan'.providers = scan.providers
        /\ faults'.db = faults.db /\ faults'.requeues > 0
    BY <1>3, Grounds DEF Requeue, IdleRun, TypeOK, Scan
  <2>2. StatusIs("processing") = {} \/ ~Undisturbed
    BY <2>1, Grounds DEF FailedNamesCulprits, ResultIsComplete, StatusIs, Undisturbed
  <2>3. \A p \in StatusIs("processing")' : LeftRunning'
    BY <2>1, <2>2 DEF StatusIs, LeftRunning, Undisturbed
  <2> QED BY <2>1, <2>3 DEF TabsAgree, HasError, UiScan, InLoop
<1> QED BY <1>1, <1>2, <1>3

LEMMA TabsStep == ProviderInv /\ TabsAgree /\ [Next]_vars => TabsAgree'
<1> SUFFICES ASSUME ProviderInv, TabsAgree, [Next]_vars PROVE TabsAgree'
  OBVIOUS
<1>1. CASE UNCHANGED vars
  BY <1>1 DEF vars, TabsAgree, StatusIs, LeftRunning, Undisturbed, HasError, UiScan, NobodyAsked,
     AttemptShown, InLoop, Busy, Current, At
<1> QED BY <1>1, WorkKeepsTabs, StatementsKeepTabs, AroundKeepsTabs DEF Next, WorkerStep

-----------------------------------------------------------------------------
\* The invariants together leave nothing on the page and in the report unexplained.
LEMMA TabsExplain == ProviderInv /\ TabsAgree => ProvidersExplained
<1> SUFFICES ASSUME ProviderInv, TabsAgree PROVE ProvidersExplained
  OBVIOUS
<1>1. /\ HasError /\ Undisturbed => scan.failed = StatusIs("failed")
      /\ HasError => scan.failed \subseteq StatusIs("failed")
      /\ HasError /\ Undisturbed => NobodyAsked \/ (scan.failed # {} /\ StatusIs("queued") = {})
  BY Grounds DEF FailedNamesCulprits, HasError, UiScan, Undisturbed, TabsAgree, AttemptShown
<1>2. NobodyAsked => \A p \in Providers : Badge(p) = "queued"
  BY DEF NobodyAsked, AllAt, Badge
<1>3. scan.status \in {"pending", "processing", "completed", "failed"}
  BY Grounds DEF TypeOK, Scan
<1>4. BadgesExplained
  <2> SUFFICES ASSUME NEW p \in Providers
      PROVE  /\ Badge(p) = "completed" /\ ~Tab(p).answer => ThrownAway(p)
             /\ Badge(p) = "processing" => (Busy /\ Current = p) \/ LeftRunning
             /\ Badge(p) # "queued" /\ scan.status = "pending" => faults.requeues > 0
             /\ Badge(p) = "queued" /\ HasError => NobodyAsked \/ ~Undisturbed
             /\ Tab(p).error /\ Badge(p) # "failed" => scan.failed # {} \/ NobodyAsked \/ ~Undisturbed
    BY DEF BadgesExplained
  <2>1. p \in StatusIs(Badge(p)) /\ \A st : p \in StatusIs(st) => st = Badge(p)
    BY DEF StatusIs, Badge
  <2>2. ASSUME Badge(p) = "completed", ~Tab(p).answer PROVE ThrownAway(p)
    <3>1. scan.status # "completed"
      BY <2>2, Grounds DEF ResultIsComplete, Tab, UiScan
    <3>2. HasError /\ Undisturbed => scan.failed \ {p} # {}
      BY <1>1, <1>2, <2>1, <2>2
    <3> QED BY <1>2, <1>3, <2>2, <3>1, <3>2 DEF ThrownAway, HasError, UiScan, TabsAgree
  <2>3. Badge(p) = "processing" => (Busy /\ Current = p) \/ LeftRunning
    BY <2>1 DEF TabsAgree
  <2>4. Badge(p) # "queued" /\ scan.status = "pending" => faults.requeues > 0
    BY <1>2 DEF TabsAgree
  <2>5. Badge(p) = "queued" /\ HasError => NobodyAsked \/ ~Undisturbed
    BY <1>1, <2>1
  <2>6. Tab(p).error => HasError
    BY DEF Tab, TellsError
  <2> QED BY <1>1, <2>2, <2>3, <2>4, <2>5, <2>6
<1>5. SectionsExplained
  <2>1. HasError => scan.processors = {}
    BY Grounds DEF ResultIsComplete, HasError, UiScan
  <2> QED BY <1>1, <2>1 DEF SectionsExplained, Section, HasAnswer, UiScan, Badge, StatusIs
<1>6. Unverified <=> scan.status # "completed"
  <2>1. Providers # {}
    BY WholeList, FirstOfList
  <2> QED BY <2>1, Grounds DEF Unverified, UiScan, ResultIsComplete
<1> QED BY <1>4, <1>5, <1>6 DEF ProvidersExplained

\* However many providers a scan selects, and whatever faults and requeues it goes
\* through, the badges of the page and the sections of the report contradict what became
\* of the scan only as ProvidersExplained says.
THEOREM ProvidersAreExplained == CallSpec => []ProvidersExplained
<1>1. Init => TabsAgree
  <2>1. Init => /\ scan.status = "pending" /\ run.pc = "waiting"
                /\ NobodyAsked /\ StatusIs("processing") = {}
    BY DEF Init, IdleRun, AllAt, StatusIs, NobodyAsked
  <2>2. HasError => scan.status = "failed"
    BY DEF HasError, UiScan
  <2> QED BY <2>1, <2>2 DEF TabsAgree, InLoop, At
<1>2. Spec => []ProvidersExplained
  BY <1>1, TabsStep, TabsExplain, ProviderInvariant, PTL DEF Spec
<1> QED BY <1>2, CallsImplementRun, PTL

=============================================================================
