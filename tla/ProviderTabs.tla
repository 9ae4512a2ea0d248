----------------------------- MODULE ProviderTabs -----------------------------
(***************************************************************************)
(* What a user is told of the single providers while a job runs and after  *)
(* it.  The row of ProviderRun holds it in columns that different          *)
(* statements write: provider_statuses one by one from within the loop,    *)
(* the error and the answers at the end, the reset of an operator leaving  *)
(* some of them alone.  The API hands them out side by side                *)
(* (normalizeProviderStatuses); the page makes a tab with a badge of each  *)
(* selected provider (adaptScanProviders) and the report a section         *)
(* (export-scan-report-pdf-providers.ts).                                  *)
(*                                                                         *)
(* An answer in the row is taken to hold signals the page can read; for    *)
(* answers that hold none, and for their verdicts, see ScanVerdict.        *)
(***************************************************************************)
EXTENDS ProviderCall

-----------------------------------------------------------------------------
(* The API and what the pages make of its answer *)

\* provider_execution: of each selected provider, in order.
Badge(p) == scan.providers[p]

\* apiScanToUiScan.  There is an error_message from markFailed on, until the next run or a
\* requeue.
UiScan == [badges |-> [p \in Providers |-> Badge(p)], answers |-> scan.processors,
           error |-> scan.status = "failed"]

HasError == UiScan.error

-----------------------------------------------------------------------------
(* The page *)

\* One for each of provider_execution and one for each answer, which are among them; the
\* tab opened first is that of the answer selected first, or the first one.
Tabs == Selected
DefaultTab == Head(Tabs)

\* The metadata and the summary with the error in it belong to Reality Defender's tab only.
TellsError(p) == HasError /\ p \in Pollers

Tab(p) == [badge |-> UiScan.badges[p], answer |-> p \in UiScan.answers, error |-> TellsError(p)]

\* "We could not verify this media due to insufficient detection data."
Unverified == UiScan.answers = {}

-----------------------------------------------------------------------------
(* The report *)

\* getProviderProcessor
HasAnswer(p) == p \in UiScan.answers

\* Mutant: the section asks for the status of the provider only.
SectionByStatus(p) ==
  CASE HasAnswer(p) -> "answer"
    [] ~HasAnswer(p) /\ UiScan.badges[p] = "failed" -> "error"
    [] OTHER -> "none"

\* The rows of a provider: its answer, or the scan's error if it failed, or no section.
Section(p) ==
  CASE HasAnswer(p) -> "answer"
    [] ~HasAnswer(p) /\ UiScan.badges[p] = "failed" /\ HasError -> "error"
    [] OTHER -> "none"

-----------------------------------------------------------------------------
(* Properties *)

Undisturbed == faults.db = 0

\* A badge "completed" without an answer: the run goes on or was given up half way, the
\* scan failed by another provider or a statement and the answer was thrown away, or the
\* badge is of the job before a requeue.
ThrownAway(p) ==
  CASE scan.status = "pending" -> faults.requeues > 0
    [] scan.status = "failed" -> scan.failed \ {p} # {} \/ ~Undisturbed
    [] OTHER -> scan.status = "processing"

\* A badge "processing" where no request is under way: the worker died, or a status was
\* rejected.
LeftRunning ==
  job.stalls > 0 \/ ~Undisturbed \/ (At("ended") /\ scan.status = "processing")

\* No provider was asked: the media could not be loaded.
NobodyAsked == scan.providers = AllAt("queued")

BadgesExplained ==
  \A p \in Providers :
    /\ Badge(p) = "completed" /\ ~Tab(p).answer => ThrownAway(p)
    /\ Badge(p) = "processing" => (Busy /\ Current = p) \/ LeftRunning
    /\ Badge(p) # "queued" /\ scan.status = "pending" => faults.requeues > 0
    /\ Badge(p) = "queued" /\ HasError => NobodyAsked \/ ~Undisturbed
    /\ Tab(p).error /\ Badge(p) # "failed" => scan.failed # {} \/ NobodyAsked \/ ~Undisturbed

\* A section with the scan's error is that of a provider the error names, unless a
\* statement was rejected, and every provider it names has one.
SectionsExplained ==
  \A p \in Providers :
    /\ Section(p) = "error" => p \in scan.failed \/ ~Undisturbed
    /\ HasError /\ p \in scan.failed => Section(p) = "error"

\* The badges, tabs and sections of the providers add up, although single statements of
\* several modules write what they show (markProviderStatus, markFailed, markCompleted,
\* resetScanRowForRequeue): none contradicts what became of the scan, unless for a fault
\* or a requeue that the parts of this property name.
ProvidersExplained ==
  BadgesExplained /\ SectionsExplained /\ (Unverified <=> scan.status # "completed")

-----------------------------------------------------------------------------
(* Why it holds *)

\* What the badges tell of an attempt that failed and blames these.
AttemptShown(named) ==
  Undisturbed => IF named = {} THEN NobodyAsked ELSE StatusIs("queued") = {}

\* With ProviderInv, the inductive invariant.
TabsAgree ==
  /\ \A p \in StatusIs("processing") : (Busy /\ Current = p) \/ LeftRunning
  /\ InLoop \/ At("resolve") \/ At("record") => scan.status = "processing"
  /\ scan.status = "pending" => faults.requeues > 0 \/ NobodyAsked
  /\ At("error") => AttemptShown(run.named)
  /\ HasError => AttemptShown(scan.failed)

=============================================================================
