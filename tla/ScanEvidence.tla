------------------------------ MODULE ScanEvidence ------------------------------
(***************************************************************************)
(* The evidence of Reality Defender's analyses: a heatmap per model and    *)
(* JSON artifacts.  A run of ScanPipeline copies them to the scan storage  *)
(* before it records its result (persistRdHeatmaps.js, persistRdArtifacts  *)
(* .js); the API hands them out by the row's result (scanDetailHeatmap and *)
(* scanDetailArtifact services, getScanHeatmapAssetForUser,                *)
(* getScanArtifactForUser); the page of the scan shows them                *)
(* (ResolvedHeatmapTile, HeatMapCard, ArtifactViewButton).                 *)
(*                                                                         *)
(* Rows written before the copies were introduced hold the vendor's links, *)
(* which expire.  Nothing removes a copy.                                  *)
(*                                                                         *)
(* Crashes and aborted requests of ScanPipeline are left out, and so are   *)
(* downloads of a tile that the network loses.                             *)
(***************************************************************************)
EXTENDS ScanPipeline

CONSTANTS
  Models,     \* models with a heatmap
  Watched,    \* the model whose tile is followed; the tiles of a page do not affect each other
  Artifacts,  \* "aggregation", "model-metadata"
  Rank        \* the order of copying: heatmaps as the vendor lists them, then artifacts

ASSUME EvidenceAssumption ==
  /\ Models \cap Artifacts = {} /\ Watched \in Models
  /\ Rank \in [Models \union Artifacts -> Nat]

VARIABLES
  file,    \* the model whose file name the heatmap of a model gets
  foreign, \* the artifacts for which the vendor names a storage key of its own
  place,   \* storage_provider of the rows
  found,   \* of each runner: the analysis it holds and what it has copied of it
  payload, \* result_payload of the rows: the evidence it names
  store,   \* derived objects of the scans, by provider and file
  made,    \* analyses of each scan
  links,   \* the vendor's links in rows of old: "good", about to expire or expired
  page,    \* what the page of each scan was last told
  tile     \* the page's heatmap tile of the model Watched

stored == <<place, payload, store>>
shown == <<page, tile>>
given == <<file, foreign>>
evidence == <<given, stored, found, made, links, shown>>
allVars == <<vars, evidence>>

-----------------------------------------------------------------------------
Evidence == Models \union Artifacts
Places == {"local", "s3"}
\* Names that differ only in characters other than letters, digits, ".", "_" and "-", or after
\* the 72nd, become one file name: hm_{name}.png.
File(e) == IF e \in Models THEN file[e] ELSE e

Bytes == [analysis : Nat, of : Evidence]
NoBytes == [analysis |-> 0, of |-> "none"]

\* An analysis in a runner's memory or in a row: its number, the evidence it names, and the
\* provider its copies went to.
NoAnalysis == [analysis |-> 0, has |-> {}, place |-> "local"]
Analysis == [analysis : Nat, has : SUBSET Evidence, place : Places]
NotFound == [known |-> FALSE, todo |-> {}, result |-> NoAnalysis]

\* The result of a row of old: links for the heatmaps.
OldAnalysis == [NoAnalysis EXCEPT !.has = Models]
IsOld(p) == p = OldAnalysis

NoPage == [of |-> 0, old |-> FALSE, heatmaps |-> {}, buttons |-> {}, expired |-> FALSE]
NoTile == [shows |-> "none", bytes |-> NoBytes, under |-> 0]

OldRow == [BlankRow("completed") EXCEPT !.completedAt = TRUE, !.result = TRUE]

\* An upload that is on S3 from the start is one that is local and never moved.
EvidenceInit ==
  /\ \E same \in BOOLEAN :
       file = [m \in Models |-> IF same THEN CHOOSE x \in Models : TRUE ELSE m]
  /\ foreign \in SUBSET Artifacts
  /\ place = [s \in Scans |-> "local"]
  /\ found = [r \in Runners |-> NotFound]
  /\ store = [s \in Scans |-> [p \in Places |-> [e \in Evidence |-> NoBytes]]]
  /\ made = [s \in Scans |-> 0]
  /\ links = "good"
  /\ page = [s \in Scans |-> NoPage]
  /\ tile = [s \in Scans |-> NoTile]

\* Each scan is new, or one of old.
InitWithEvidence ==
  /\ EvidenceInit
  /\ Init \/ /\ row = [s \in Scans |-> OldRow]
             /\ api = [s \in Scans |-> "done"]
             /\ job = [s \in Scans |-> NoJob]
             /\ run = [r \in Runners |-> IdleRun]
             /\ adm = [a \in Admins |-> IdleAdmin]
             /\ starts = [s \in Scans |-> 0]
  /\ payload = [s \in Scans |-> IF row[s].result THEN OldAnalysis ELSE NoAnalysis]

-----------------------------------------------------------------------------
(* A run *)

\* The row is read once; the copies go where it said.
LoadRowAndPlace(r) ==
  /\ LoadScanRow(r)
  /\ found' = [found EXCEPT ![r] = [NotFound EXCEPT !.result.place = place[run[r].scan]]]
  /\ UNCHANGED <<given, stored, made, links, shown>>

\* The vendor answers.  A storage key in place of a link is taken over as it is.
Analyse(r) ==
  /\ run[r].pc = "detect" /\ ~found[r].known
  /\ LET s == run[r].scan IN
     /\ made' = [made EXCEPT ![s] = @ + 1]
     /\ found' = [found EXCEPT ![r].known = TRUE, ![r].todo = Evidence \ foreign,
                               ![r].result.analysis = made'[s], ![r].result.has = foreign]
  /\ UNCHANGED <<vars, given, stored, links, shown>>

\* saveDerivedAsset: the object at the file's key is overwritten.
SaveDerivedAsset(s, at, e, analysis) ==
  store' = [store EXCEPT ![s][at][File(e)] = [analysis |-> analysis, of |-> e]]

\* One link after the other is followed, the heatmaps first.  A download that fails, is
\* empty or too large is left out, and so is a copy that cannot be stored.
Persist(r, e) ==
  /\ run[r].pc = "detect" /\ e \in found[r].todo
  /\ \A x \in found[r].todo : Rank[e] <= Rank[x]
  /\ \/ /\ found' = [found EXCEPT ![r].todo = @ \ {e}, ![r].result.has = @ \union {e}]
        /\ SaveDerivedAsset(run[r].scan, found[r].result.place, e, found[r].result.analysis)
     \/ /\ found' = [found EXCEPT ![r].todo = @ \ {e}]
        /\ UNCHANGED store
  /\ UNCHANGED <<vars, given, place, payload, made, links, shown>>

\* The run goes on when everything is copied; the vendor, or another provider, may fail.
DetectAndPersist(r) ==
  /\ Detect(r)
  /\ run'[r].pc = "write" => found[r].known /\ found[r].todo = {}
  /\ UNCHANGED evidence

\* Mutant: a link that could not be followed is recorded as copied.
RefsOfAllLinks(r) == [found[r].result EXCEPT !.has = Evidence]

\* details.heatmaps, details.artifact*StorageKey.
Refs(r) == found[r].result

RecordResultAndRefs(r) ==
  /\ RecordResult(r)
  /\ LET s == run[r].scan IN
     payload' = IF run'[r].pc = "settle" /\ RowExists(s)
                THEN [payload EXCEPT ![s] = Refs(r)] ELSE payload
  /\ UNCHANGED <<given, place, store, found, made, links, shown>>

EndRun(r) ==
  /\ Settle(r)
  /\ found' = [found EXCEPT ![r] = NotFound]
  /\ UNCHANGED <<given, stored, made, links, shown>>

-----------------------------------------------------------------------------
(* The rows meanwhile *)

\* An operator's requeue clears result_payload, as the user's deletion does.
ResetRowAndPayload(a) ==
  /\ ResetRow(a)
  /\ payload' = [payload EXCEPT ![adm[a].scan] = IF row' # row THEN NoAnalysis ELSE @]
  /\ UNCHANGED <<given, place, store, found, made, links, shown>>

DeleteScanAndPayload(s) ==
  /\ DeleteScan(s)
  /\ payload' = [payload EXCEPT ![s] = NoAnalysis]
  /\ UNCHANGED <<given, place, store, found, made, links, shown>>

\* migrate-local-uploads-to-s3 (StorageMigration) copies the upload and no derived object.
MoveToS3(s) ==
  /\ RowExists(s) /\ place[s] = "local"
  /\ place' = [place EXCEPT ![s] = "s3"]
  /\ UNCHANGED <<vars, given, payload, store, found, made, links, shown>>

\* Two minutes before the end, then the end (X-Amz-Date plus X-Amz-Expires).
LinksAge ==
  /\ links' = CASE links = "good" -> "near" [] OTHER -> "expired"
  /\ links # "expired" /\ \E s \in Scans : IsOld(payload[s]) \/ page[s].old
  /\ UNCHANGED <<vars, given, stored, found, made, shown>>

-----------------------------------------------------------------------------
(* The API *)

\* getObjectInfo, then getDownloadStream, of the provider the row names by now.
Stream(s, f) == store[s][place[s]][f]

\* A ref of the row with that asset name; a row of old has none.
HeatmapRef(s, asset) == ~IsOld(payload[s]) /\ \E m \in payload[s].has \cap Models : file[m] = asset

\* GET /scan/:id/heatmaps/:asset.
HeatmapServed(s, asset) == IF HeatmapRef(s, asset) THEN Stream(s, asset) ELSE NoBytes

\* A key names the user and the scan, as those the runs write do.
ScopedToScan(k) == k \notin foreign

\* getScanArtifactForUser
Artifact(s, k) == IF k \in payload[s].has /\ ScopedToScan(k) THEN Stream(s, k) ELSE NoBytes

\* GET /scan/:id/artifacts/:type, for users who have paid once.
ArtifactServed(s, k, paid) == IF paid THEN Artifact(s, k) ELSE NoBytes

\* artifact_aggregation_available, artifact_model_metadata_available: there is a key.
Buttons(s) == payload[s].has \cap Artifacts

\* GET /scan/:id (formatScanRowForClient): refs without their keys; of a row of old the
\* links that last for two minutes more.
FormatScanRow(s) ==
  LET gone == IsOld(payload[s]) /\ links # "good" IN
  [of |-> payload[s].analysis, old |-> IsOld(payload[s]), buttons |-> Buttons(s), expired |-> gone,
   heatmaps |-> IF gone THEN {} ELSE payload[s].has \cap Models]

-----------------------------------------------------------------------------
(* The page *)

\* The tile is kept while the answers name its model and the same source; a new one loads.
SameSource(s, answer) ==
  Watched \in page[s].heatmaps \cap answer.heatmaps /\ page[s].old = answer.old
NewTile(answer) ==
  IF Watched \in answer.heatmaps THEN [NoTile EXCEPT !.shows = "loading", !.under = answer.of]
  ELSE NoTile

\* The query of the page is answered: on arrival, by a poll, on focus.
FetchDetail(s) ==
  /\ RowExists(s)
  /\ page' = [page EXCEPT ![s] = FormatScanRow(s)]
  /\ tile' = IF SameSource(s, page'[s]) THEN tile ELSE [tile EXCEPT ![s] = NewTile(page'[s])]
  /\ UNCHANGED <<vars, given, stored, found, made, links>>

LeavePage(s) ==
  /\ page[s] # NoPage
  /\ page' = [page EXCEPT ![s] = NoPage]
  /\ tile' = [tile EXCEPT ![s] = NoTile]
  /\ UNCHANGED <<vars, given, stored, found, made, links>>

\* A copy is fetched with the user's token.
CopyTile(s) ==
  LET copy == HeatmapServed(s, file[Watched]) IN
  [tile[s] EXCEPT !.shows = IF copy = NoBytes THEN "error" ELSE "heatmap", !.bytes = copy]

\* A link is given to the browser as it is.
LinkTile(s) ==
  [tile[s] EXCEPT !.shows = IF links = "expired" THEN "expired" ELSE "heatmap",
                  !.bytes = [analysis |-> 0, of |-> Watched]]

LoadTile(s) ==
  /\ tile[s].shows = "loading"
  /\ tile' = [tile EXCEPT ![s] = IF page[s].old THEN LinkTile(s) ELSE CopyTile(s)]
  /\ UNCHANGED <<vars, given, stored, found, made, links, page>>

\* What a click on a button opens in a new tab; nothing, with a message, if it is not served.
Opened(s, k, paid) == IF k \in page[s].buttons THEN ArtifactServed(s, k, paid) ELSE NoBytes

\* "Retry" on the tile: the detail is fetched again, then the tile loads again.
RetryTile(s) ==
  /\ tile[s].shows \in {"error", "expired"}
  /\ RowExists(s)
  /\ page' = [page EXCEPT ![s] = FormatScanRow(s)]
  /\ tile' = [tile EXCEPT ![s] = NewTile(page'[s])]
  /\ UNCHANGED <<vars, given, stored, found, made, links>>

-----------------------------------------------------------------------------
EvidenceRunnerStep(r) ==
  \/ LoadRowAndPlace(r) \/ Analyse(r) \/ (\E e \in Evidence : Persist(r, e))
  \/ DetectAndPersist(r) \/ RecordResultAndRefs(r) \/ EndRun(r)
  \/ StartProcessing(r) /\ UNCHANGED evidence

EvidenceWorkerStep(w) ==
  EvidenceRunnerStep(w) \/ (HandleProcessorError(w) /\ UNCHANGED evidence)
EvidenceDirectStep(t) ==
  EvidenceRunnerStep(t) \/ (FailDirectTask(t) /\ UNCHANGED evidence)

EvidenceAdminStep(a) ==
  \/ /\ \/ \E s \in Scans, kind \in {"retry", "retry_completed", "reset_stuck"} :
              StartRequeue(a, s, kind)
        \/ AssertJobNotActivelyRunning(a) \/ RemoveQueueJobIfPresent(a) \/ EnqueueScanJob(a)
     /\ UNCHANGED evidence
  \/ ResetRowAndPayload(a)

PageStep(s) ==
  FetchDetail(s) \/ LeavePage(s) \/ LoadTile(s) \/ RetryTile(s)

NextWithEvidence ==
  \/ \E s \in Scans :
       \/ /\ CreateScan(s) \/ DispatchScanAfterInsert(s) \/ GrowStale(s) \/ QueueStep(s)
          /\ UNCHANGED evidence
       \/ DeleteScanAndPayload(s) \/ MoveToS3(s) \/ PageStep(s)
  \/ \E t \in DirectTasks : EvidenceDirectStep(t)
  \/ \E w \in Workers : EvidenceWorkerStep(w)
  \/ \E a \in Admins : EvidenceAdminStep(a)
  \/ LinksAge

\* The fairness of ScanPipeline, of the steps with their evidence; nothing makes a page act.
EvidenceFairness ==
  /\ \A s \in Scans :
       /\ WF_allVars(DispatchScanAfterInsert(s) /\ UNCHANGED evidence)
       /\ WF_allVars(EvidenceDirectStep(s))
  /\ \A s \in QueuedScans : WF_allVars(\E w \in Workers : TakeJob(w, s) /\ UNCHANGED evidence)
  /\ \A w \in WorkersOnDuty : WF_allVars(EvidenceWorkerStep(w))
  /\ \A a \in Admins : WF_allVars(ResetRowAndPayload(a)) /\ WF_allVars(EnqueueScanJob(a) /\ UNCHANGED evidence)

SpecWithEvidence == InitWithEvidence /\ [][NextWithEvidence]_allVars /\ EvidenceFairness

-----------------------------------------------------------------------------
(* Properties *)

\* What the page shows and offers is of the analysis the row holds.
Current(s) == page[s].of = payload[s].analysis

\* The upload was moved to S3 after the run had read where it is; its copies stayed behind.
LeftBehind(s) == payload[s].place # place[s]

\* Another run of the scan, overlapping the one the row's result is of, copied over its file.
Overwritten(s, f) ==
  /\ store[s][place[s]][f].analysis \notin {0, payload[s].analysis}
  /\ \E e \in payload[s].has : File(e) = f

\* The heatmap a page shows under a model's name is that model's and of the analysis whose
\* scores the page shows, and a tile that cannot load has a reason: two models' names became
\* one file name (persistRdHeatmaps.js:81-85); the page has not heard of a requeue, or its tile
\* was loaded before one (ResolvedHeatmapTile); runs of the scan overlapped; or the upload was
\* moved without its copies (migrate-local-uploads-to-s3).
HeatmapExplained ==
  \A s \in Scans : tile[s].shows \in {"heatmap", "error"} =>
    LET b == tile[s].bytes IN
    \/ b.analysis = page[s].of /\ b.of \in Models /\ file[b.of] = file[Watched]
    \/ tile[s].under # page[s].of
    \/ ~Current(s)
    \/ LeftBehind(s)
    \/ Overwritten(s, file[Watched])

\* A button the page offers opens the artifact of the analysis shown, but for the same
\* reasons and two more: the vendor named a storage key of its own (persistRdArtifacts.js:74),
\* which the API does not serve, and the user has never paid, who is offered it all the same.
ArtifactExplained ==
  \A s \in Scans, paid \in BOOLEAN : \A k \in page[s].buttons :
    \/ Opened(s, k, paid) = [analysis |-> page[s].of, of |-> k]
    \/ k \in foreign \/ ~paid
    \/ ~Current(s)
    \/ LeftBehind(s)
    \/ Overwritten(s, k)

\* The evidence a page shows is that of the result it shows, in both forms.
EvidenceExplained == HeatmapExplained /\ ArtifactExplained

=============================================================================
