------------------------------ MODULE ScanVerdict ------------------------------
(***************************************************************************)
(* What a scan is said to be.  The vendors' answers become a row: its      *)
(* columns hold the verdict of one provider, its result_payload the        *)
(* answers of all (apps/worker/src/detection).  The pages read the row in  *)
(* several ways: the API's history filter and the dashboard's mix by the   *)
(* columns, the history list and the ring of the detail page by combining  *)
(* the payload's answers, the provider tabs and the PDF by reading one     *)
(* answer again.  Runs of one scan overlap, fail, and are repeated by      *)
(* BullMQ, an operator or the user, as in ScanPipeline and ScanAttempts.   *)
(* It starts with the form of ScanAdmission, whose submission makes the    *)
(* row: its file decides which providers can answer at all.                *)
(*                                                                         *)
(* Scores are whole percents, Missing where an answer has none.  An answer *)
(* of Reality Defender has its label, the final score and the score of the *)
(* ensemble model; one of the generic vendor behind DETECTION_REAL_URL has *)
(* a verdict and a confidence, and no score the pages read.  An answer of  *)
(* Hive has a top-level verdict if any and, for each frame, its classes.   *)
(***************************************************************************)
EXTENDS ScanAdmission, FiniteSetsExt

CONSTANTS
  RdAnswers,    \* answers given for the provider reality_defender
  HiveAnswers,  \* answers given by Hive
  Runs,         \* processes that may run the group's scans together
  MaxAttempts   \* rows of the group, a bound

Missing == -1
Percent == 0..100 \union {Missing}

ASSUME VerdictAssumption ==
  /\ \A a \in RdAnswers : /\ a.vendor \in {"reality_defender", "generic"}
                          /\ a.final \in Percent /\ a.ensemble \in Percent
                          /\ a.vendor = "generic" => a.label # "SUSPICIOUS" /\ a.final # Missing
  /\ \A a \in HiveAnswers : /\ a.ai \in {"yes", "no", "open"} /\ a.confidence \in Percent
                            /\ a.frames \in Seq([ai : Percent, notAi : Percent, deepfake : Percent])
  /\ MaxAttempts \in Nat \ {0}

VARIABLES
  group,  \* the rows of the scan group, in the order of created_at
  run     \* what each process is doing

verdictVars == <<form, group, run>>

-----------------------------------------------------------------------------
\* The worker: one normalised detection for each answer, [ai, confidence, details].

AiOfLabel(label) ==
  CASE label = "MANIPULATED" -> "yes" [] label = "AUTHENTIC" -> "no" [] OTHER -> "open"

\* Without a final score the label alone makes the confidence.
Guess(ai) == CASE ai = "yes" -> 85 [] ai = "no" -> 15 [] OTHER -> 50

\* The details the pages may read of an answer: Reality Defender's, and Hive's frames.
NoDetails == [label |-> "none", final |-> Missing, ensemble |-> Missing, frames |-> <<>>]

RdDetection(a) ==
  [ai |-> AiOfLabel(a.label),
   confidence |-> IF a.final = Missing THEN Guess(AiOfLabel(a.label)) ELSE a.final,
   details |-> [NoDetails EXCEPT !.label = a.label, !.final = a.final, !.ensemble = a.ensemble]]

\* The generic vendor's details are kept, but are none of Reality Defender's.
GenericDetection(a) ==
  [ai |-> AiOfLabel(a.label), confidence |-> a.final, details |-> NoDetails]

HiveDetection(a) ==
  [ai |-> a.ai, confidence |-> IF a.confidence = Missing THEN 50 ELSE a.confidence,
   details |-> [NoDetails EXCEPT !.frames = a.frames]]

\* What a provider may answer about a medium; the generic vendor takes any.
Detections(p, media) ==
  IF p = "hive" THEN {HiveDetection(a) : a \in {b \in HiveAnswers : HiveTakes(media)}}
  ELSE {IF a.vendor = "generic" THEN GenericDetection(a) ELSE RdDetection(a) :
          a \in {b \in RdAnswers : b.vendor = "generic" \/ RdTakes(media)}}

\* The detection whose verdict becomes the row's: the first one selected.
Primary(selected) == selected[1]

NoPayload == [p \in {} |-> 0]
Fresh(selected, media) ==
  [selected |-> selected, media |-> media, status |-> "pending", ended |-> FALSE,
   ai |-> "open", confidence |-> Missing, payload |-> NoPayload]

\* What markCompleted writes; found: the detection of each selected provider.
Result(row, found) ==
  [row EXCEPT !.status = "completed", !.ended = TRUE,
              !.ai = found[Primary(row.selected)].ai,
              !.confidence = found[Primary(row.selected)].confidence,
              !.payload = [p \in DOMAIN found |-> found[p].details]]

\* What resetScanRowForRequeue leaves of a row.
ResetStatus(row) == [row EXCEPT !.status = "pending", !.ended = FALSE]
Reset(row) == Fresh(row.selected, row.media)

Selected(row) == Members(row.selected)

-----------------------------------------------------------------------------
VerdictInit ==
  /\ form = Opened
  /\ group = <<>>
  /\ run = [r \in Runs |-> [at |-> 0, pc |-> "idle"]]

Goes(r, i, pc) == run' = [run EXCEPT ![r] = [at |-> i, pc |-> pc]]

\* A stored submission makes the row.
Create ==
  /\ \E answer \in {"plan", "url", "type", "size", "providers", "stored"} : Submit(answer)
  /\ group' = IF form'.answer = "stored" THEN <<Fresh(form.chosen, Media(Head(form.files)))>> ELSE group
  /\ UNCHANGED run

\* processScanById: load the row and leave a completed one alone ...
Load(r, i) ==
  /\ run[r].pc = "idle"
  /\ group[i].status # "completed"
  /\ Goes(r, i, "loaded")
  /\ UNCHANGED <<form, group>>

\* ... mark it as processing, which keeps what an earlier run stored ...
Mark(r) ==
  /\ run[r].pc = "loaded"
  /\ group' = [group EXCEPT ![run[r].at].status = "processing"]
  /\ Goes(r, run[r].at, "marked")
  /\ UNCHANGED form

\* ... and store the result once every provider has answered.
Complete(r) ==
  /\ run[r].pc = "marked"
  /\ LET row == group[run[r].at] IN
       \E found \in [Selected(row) -> UNION {Detections(p, row.media) : p \in Selected(row)}] :
         /\ \A p \in DOMAIN found : found[p] \in Detections(p, row.media)
         /\ group' = [group EXCEPT ![run[r].at] = Result(row, found)]
  /\ Goes(r, 0, "idle")
  /\ UNCHANGED form

\* A provider or the media failed: markFailed keeps the columns and the payload.
Fail(r) ==
  /\ run[r].pc # "idle"
  /\ group' = [group EXCEPT ![run[r].at].status = "failed", ![run[r].at].ended = TRUE]
  /\ Goes(r, 0, "idle")
  /\ UNCHANGED form

\* The process dies, and the row stays as it was.
Die(r) ==
  /\ run[r].pc # "idle"
  /\ Goes(r, 0, "idle")
  /\ UNCHANGED <<form, group>>

\* An operator's retry of an ended scan, or reset of one that seems stuck.
Requeue(i) ==
  /\ \/ group[i].status \in {"failed", "completed"}
     \/ group[i].status = "processing" /\ ~group[i].ended
  /\ group' = [group EXCEPT ![i] = Reset(@)]
  /\ UNCHANGED <<form, run>>

\* The user's retry of a failed scan: a row of its own, with the same providers.
Retry(i) ==
  /\ group[i].status = "failed"
  /\ Len(group) < MaxAttempts
  /\ group' = Append(group, Fresh(group[i].selected, group[i].media))
  /\ UNCHANGED <<form, run>>

VerdictNext ==
  \/ Edit /\ UNCHANGED <<group, run>>
  \/ Create
  \/ \E r \in Runs : Mark(r) \/ Complete(r) \/ Fail(r) \/ Die(r)
  \/ \E r \in Runs, i \in DOMAIN group : Load(r, i)
  \/ \E i \in DOMAIN group : Requeue(i) \/ Retry(i)

VerdictSpec == VerdictInit /\ [][VerdictNext]_verdictVars

-----------------------------------------------------------------------------
\* The API: the filters of the history, and the categories of the dashboard's mix.

Filters == {"authentic", "manipulated", "suspicious", "analyzing", "failed"}

\* appendHistoryResultFilter: by status and the column is_ai_generated.
Matches(row, filter) ==
  CASE filter = "authentic" -> row.status = "completed" /\ row.ai = "no"
    [] filter = "manipulated" -> row.status = "completed" /\ row.ai = "yes"
    [] filter = "suspicious" -> row.status = "completed" /\ row.ai = "open"
    [] filter = "analyzing" -> row.status \in {"pending", "processing"}
    [] filter = "failed" -> row.status = "failed"

\* getScanHistory: the newest of the group's rows that match, if one does.
Listed(filter) == {i \in DOMAIN group : /\ Matches(group[i], filter)
                                        /\ \A j \in i + 1..Len(group) : ~Matches(group[j], filter)}

\* classifyScanForMix: every row counts once it has ended, a failed one as suspicious.
Category(row) ==
  CASE row.status = "completed" /\ row.ai = "yes" -> "manipulated"
    [] row.status = "completed" /\ row.ai = "no" -> "authentic"
    [] row.status = "completed" /\ row.ai = "open" -> "suspicious"
    [] row.status = "failed" -> "suspicious"
    [] OTHER -> "none"

-----------------------------------------------------------------------------
\* The pages: aggregateScanResult combines the payload's answers.

\* normalizeHive: the score of the last frame that has one, 0 if there are other classes only.
HiveScore(frames) ==
  LET scored == {k \in DOMAIN frames : frames[k].ai # Missing}
      seen == {k \in DOMAIN frames : frames[k].notAi # Missing \/ frames[k].deepfake >= 1}
  IN CASE scored # {} -> frames[Max(scored)].ai
       [] scored = {} /\ seen # {} -> 0
       [] OTHER -> Missing

\* readEnsembleScore
RdScore(details) == IF details.ensemble # Missing THEN details.ensemble ELSE details.final

Score(row, p) ==
  CASE p \notin DOMAIN row.payload -> Missing
    [] p = "hive" /\ p \in DOMAIN row.payload -> HiveScore(row.payload[p].frames)
    [] p # "hive" /\ p \in DOMAIN row.payload -> RdScore(row.payload[p])

Findings(row) == {p \in Providers : Score(row, p) # Missing}

Points(row, p) == IF Score(row, p) = Missing THEN 0 ELSE Score(row, p)
Total(row) == Points(row, "reality_defender") + Points(row, "hive")

\* providerVerdict, of the mean of n scores that make this total.
Verdict(total, n) ==
  IF total >= 75 * n THEN "flagged" ELSE IF total >= 20 * n THEN "suspicious" ELSE "safe"

CombinedLowest(row) ==
  IF Findings(row) = {} THEN "inconclusive" ELSE Verdict(Min({Score(row, p) : p \in Findings(row)}), 1)
Combined(row) ==
  IF Findings(row) = {} THEN "inconclusive"
  ELSE Verdict(Total(row), Cardinality(Findings(row)))

\* The badge of the history list: a row without a usable answer has failed or is pending.
HistoryBadge(row) ==
  IF Combined(row) # "inconclusive" THEN Combined(row)
  ELSE IF row.status = "failed" THEN "failed" ELSE "pending"

\* The ring and the colours of the detail page.
DetailBadge(row) == IF Combined(row) # "inconclusive" THEN Combined(row) ELSE "pending"

\* mapApiStatus: the status of the dashboard's rows and of Reality Defender's tab.
RowBadge(row) ==
  CASE row.status = "failed" -> "failed"
    [] row.status \in {"pending", "processing"} -> "pending"
    [] row.status = "completed" ->
         CASE row.ai = "yes" -> "flagged" [] row.ai = "no" -> "safe" [] OTHER -> "suspicious"

\* The verdict the PDF report is downloaded with, from the page that shows DetailBadge.
PdfBadge(row) == RowBadge(row)

\* The tabs of the detail page.  adaptHiveProvider reads the first frame only ...
HiveTab(frames) ==
  IF frames = <<>> THEN "none"
  ELSE LET risk == Max({frames[1].ai, frames[1].deepfake}) safe == frames[1].notAi
       IN CASE risk # Missing /\ risk >= safe -> "flagged"
            [] safe > risk -> "safe"
            [] OTHER -> "none"

\* ... and adaptRealityDefenderProvider has no verdict of its own: it shows the row's.
RdTab(row) == IF RowBadge(row) \in {"safe", "suspicious", "flagged"} THEN RowBadge(row) ELSE "none"

-----------------------------------------------------------------------------
Verdicts == {"safe", "suspicious", "flagged"}
Opposite(one, other) == {one, other} = {"safe", "flagged"}

\* The rows and the runs have their types.
VerdictTypeOK ==
  /\ FormOK
  /\ Len(group) \in 0..MaxAttempts
  /\ \A i \in DOMAIN group :
       /\ Selected(group[i]) \subseteq Providers /\ group[i].media.type \in Allowed
       /\ group[i].status \in {"pending", "processing", "completed", "failed"}
       /\ group[i].ended \in BOOLEAN
       /\ group[i].ai \in {"yes", "no", "open"}
       /\ group[i].confidence \in Percent
       /\ DOMAIN group[i].payload \in {{}, Selected(group[i])}
  /\ run \in [Runs -> [at : 0..MaxAttempts, pc : {"idle", "loaded", "marked"}]]

\* A scan that is not completed shows a verdict in the history only as the remains of
\* one that was: a run that had loaded the row before another one completed it marks or
\* fails it now.  Neither an operator's reset nor a retry ever leaves an old verdict on
\* a scan that runs again (markProcessing and markFailed keep the result,
\* resetScanRowForRequeue clears it).
ShowsUnfinished(row) == row.status # "completed" /\ HistoryBadge(row) \in Verdicts
UnfinishedVerdictExplained ==
  [][\A i \in DOMAIN group' :
       ShowsUnfinished(group'[i]) /\ ~(i \in DOMAIN group /\ ShowsUnfinished(group[i]))
       => /\ group[i].status = "completed"
          /\ \E r \in Runs : run[r].at = i /\ run[r].pc # "idle" /\ run'[r] # run[r]]_verdictVars

\* What is read from the columns and what is combined from the payload are opposites,
\* a scan found under the filter "authentic", counted as authentic in the mix or
\* reported as authentic by the PDF while the history and the page show it as
\* manipulated, or the other way round, only when the first provider gave no score the
\* pages read, or a score that contradicts its own label.  With both, another
\* provider's answer makes one reading milder than the other, never its opposite.
AsBadge(category) == CASE category = "authentic" -> "safe" [] category = "manipulated" -> "flagged" [] OTHER -> "none"
ByColumns(i) ==
  {RowBadge(group[i]), PdfBadge(group[i]), AsBadge(Category(group[i]))}
  \union {AsBadge(filter) : filter \in {f \in Filters : i \in Listed(f)}}
ColumnsExplained ==
  \A i \in DOMAIN group :
    LET own == Score(group[i], group[i].selected[1])
    IN \A said \in ByColumns(i), shown \in {HistoryBadge(group[i]), DetailBadge(group[i])} :
         Opposite(said, shown) => own = Missing \/ (IF said = "safe" THEN own >= 50 ELSE own < 40)

\* A provider's tab says the opposite of the provider's own answer only when, for
\* Reality Defender, Hive was asked first, so that the row's verdict is Hive's, and,
\* for Hive, there are several frames, a deepfake class, or a frame whose two
\* classes do not add up.
PlainFrames(frames) ==
  Len(frames) = 1 /\ frames[1].deepfake = Missing /\ frames[1].ai + frames[1].notAi = 100
TabsExplained ==
  \A i \in DOMAIN group :
    LET row == group[i]
    IN /\ "reality_defender" \in DOMAIN row.payload
            => LET label == row.payload["reality_defender"].label
               IN <<label, RdTab(row)>> \in {<<"MANIPULATED", "safe">>, <<"AUTHENTIC", "flagged">>}
                  => row.selected[1] = "hive"
       /\ "hive" \in DOMAIN row.payload
            => LET frames == row.payload["hive"].frames
               IN Opposite(HiveTab(frames), Verdict(HiveScore(frames), 1)) /\ HiveScore(frames) # Missing
                  => ~PlainFrames(frames)

\* Of the verdict there are six readings; where two of them are opposites, for the same
\* scan, is as the last two say.
OppositeExplained == ColumnsExplained /\ TabsExplained

=============================================================================
