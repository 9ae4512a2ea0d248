------------------------------ MODULE StorageAudit ------------------------------
(***************************************************************************)
(* The operators' reports about stored uploads, taken while a script of    *)
(* StorageMigration, retries and deletions go on: audit-scan-upload-       *)
(* storage, migrate-local-uploads-to-s3 with --verify-only or --dry-run,   *)
(* and the dry run of cleanup-local-upload-files.  Each selects rows once, *)
(* probes the file and the object of one row after another and puts the    *)
(* row under a heading; the audit then, unless told not to, reads the keys *)
(* of all rows and walks the upload directory for files none of them       *)
(* names, and ends with an exit code.                                      *)
(*                                                                         *)
(* The probes of one row are one step, the walk is another.  A stat or a   *)
(* readdir that fails is taken for a file or a directory that is not       *)
(* there.  Keys always have a known shape, so the heading                  *)
(* invalid_storage_metadata does not occur.                                *)
(***************************************************************************)
EXTENDS StorageMigration

CONSTANTS
  Tools,      \* the reports that are taken
  ReportRows  \* rows in the group while a report is taken, a bound

ASSUME AuditAssumption == Tools \subseteq {"audit", "verify", "cleanup"} /\ ReportRows \in Nat

VARIABLE report  \* the report being taken

auditVars == <<row, files, objects, run, retry, unsure, report>>

-----------------------------------------------------------------------------
\* seen: the rows still to do, as the query returned them.  known, knew: the keys and the
\* rows when the keys were read; at the end known holds the orphans.  counts: the flags
\* for the exit code, kept for an audit of all rows while nothing else changes.  History:
\* blind, the stat of a local row's file failed; whole, the walk was done and came past
\* every file; wrong, a heading told wrong.
Quiet == [tool |-> "none", at |-> "idle", seen |-> [s \in Scans |-> NoRow], s3 |-> FALSE, local |-> FALSE,
          known |-> {}, knew |-> {}, counts |-> FALSE, critical |-> FALSE, failed |-> FALSE,
          doubtful |-> FALSE, blind |-> FALSE, whole |-> FALSE, wrong |-> FALSE]

\* The queries of the reports.
Selected(tool) ==
  CASE tool = "audit" -> Inserted
    [] tool = "verify" -> Candidates("local")
    [] tool = "cleanup" -> Candidates("cleanup")

\* The local and the S3 check: options of the audit (--[no-]check-local, --[no-]check-s3).
\* --verify-only and --dry-run look at the file alone (what --verify-only --check-s3 says
\* of the target has a line of its own), the cleanup at both.
Options(tool) ==
  CASE tool = "audit" -> BOOLEAN \X BOOLEAN
    [] tool = "verify" -> {<<TRUE, FALSE>>}
    [] tool = "cleanup" -> {<<TRUE, TRUE>>}

Left == {s \in Scans : report.seen[s] # NoRow}

\* --limit, --scan-id and the like leave out rows; what is said of the others is the same.
Query(tool) ==
  /\ report.at = "idle" /\ (tool = "audit" \/ Selected(tool) # {})
  /\ \E o \in Options(tool) :
       report' = [Quiet EXCEPT
         !.tool = tool, !.at = "rows", !.local = o[1], !.s3 = o[2], !.counts = (tool = "audit"),
         !.seen = [s \in Scans |-> IF s \in Selected(tool) THEN row[s] ELSE NoRow]]
  /\ UNCHANGED vars

\* Mutant: a missing object of a row that is on S3 is not told from an unchecked one.
AuditHeadingUnchecked(r, found) ==
  LET file == report.local /\ found
      object == report.s3 /\ r.key \in objects IN
  IF r.provider = "local"
  THEN IF ~report.local THEN "local_file_unverified"
       ELSE IF ~file THEN "missing_local_but_db_local"
       ELSE IF object THEN "local_and_s3" ELSE "local_only"
  ELSE IF report.s3 THEN "s3_only" ELSE "s3_unverified"

\* classifyUploadScanRow, when fs.stat found the file or not.  The object asked for is the
\* row's; for a local row it is the flat target, as the query does not read user_id.
AuditHeading(r, found) ==
  LET file == report.local /\ found
      object == report.s3 /\ r.key \in objects IN
  IF r.provider = "local"
  THEN IF ~report.local THEN "local_file_unverified"
       ELSE IF ~file THEN "missing_local_but_db_local"
       ELSE IF object THEN "local_and_s3" ELSE "local_only"
  ELSE IF report.s3 /\ ~object THEN "db_s3_but_missing_in_s3"
       ELSE IF file THEN IF object THEN "local_and_s3" ELSE "s3_db_local_file_present_unverified"
       ELSE IF object THEN "s3_only" ELSE "s3_unverified"

\* qualifiesForLocalDeletion.
CleanupHeading(r, found) ==
  IF r.key \notin objects THEN "s3_object_missing"
  ELSE IF ~found THEN "no_local_file"
  ELSE "would_delete"

Heading(r, found) ==
  CASE report.tool = "audit" -> AuditHeading(r, found)
    [] report.tool = "verify" -> IF found THEN "local_ok" ELSE "local_missing"
    [] report.tool = "cleanup" -> CleanupHeading(r, found)

\* What fs.stat may say of the row's file: every error is caught and taken for its absence.
Stats(r) == {found \in BOOLEAN : IF r.key \in files THEN found \/ "error" \in Faults ELSE ~found}
StatFailed(r, found) == report.local /\ r.provider = "local" /\ r.key \in files /\ ~found

Fine == {"local_only", "s3_only", "local_and_s3", "local_ok", "no_local_file", "would_delete"}
Missing == {"missing_local_but_db_local", "db_s3_but_missing_in_s3", "local_missing", "s3_object_missing"}
Doubtful == {"s3_unverified", "local_file_unverified", "s3_db_local_file_present_unverified"}

\* A row's heading tells wrong when it contradicts a row that is as the query saw it; of a
\* local row whose file could not be looked at, it says that the file is missing.
TellsWrong(s, under, found) ==
  /\ row[s] = report.seen[s]
  /\ under \in IF ~Stored(s) THEN Fine ELSE IF StatFailed(row[s], found) THEN {} ELSE Missing

\* A row's heading, or that a HeadObject failed.
Said(r, found) ==
  {Heading(r, found)} \union (IF report.s3 /\ "error" \in Faults THEN {"s3_probe_error"} ELSE {})

TellRow(s, found, under) ==
  report' = [report EXCEPT
    !.seen[s] = NoRow, !.wrong = @ \/ TellsWrong(s, under, found),
    !.blind = @ \/ (report.counts /\ StatFailed(report.seen[s], found)),
    !.critical = @ \/ (report.counts /\ under \in Missing),
    !.failed = @ \/ (report.counts /\ under = "s3_probe_error"),
    !.doubtful = @ \/ (report.counts /\ under \in Doubtful)]

\* The oldest row that is left.
ReportRow ==
  /\ report.at = "rows" /\ Left # {}
  /\ LET s == Min(Left) IN
     \E found \in Stats(report.seen[s]) :
       \E under \in Said(report.seen[s], found) : TellRow(s, found, under)
  /\ UNCHANGED vars

\* What is left of a report after its last row.
RowsDone ==
  [(IF report.counts THEN report ELSE [Quiet EXCEPT !.tool = report.tool]) EXCEPT !.wrong = report.wrong]

\* The other tools end with their last row, the audit looks for orphans.
LoadReferenced ==
  /\ report.at = "rows" /\ Left = {} /\ report.tool = "audit"
  /\ report' = [RowsDone EXCEPT !.at = "walk", !.known = {row[s].key : s \in Inserted}, !.knew = Inserted]
  /\ UNCHANGED vars

\* ... unless it was started with --no-scan-orphans.
SkipOrphans ==
  /\ report.at = "rows" /\ Left = {}
  /\ report' = IF report.tool = "audit" THEN [RowsDone EXCEPT !.at = "done"] ELSE Quiet
  /\ UNCHANGED vars

Orphans(read) == read \ report.known

\* The files the walk comes past: those of a directory that cannot be read are not among
\* them, and nothing is said of it.
Walk ==
  /\ report.at = "walk"
  /\ \E read \in {files} \union (IF "error" \in Faults THEN SUBSET files ELSE {}) :
       report' = [report EXCEPT !.at = "done", !.known = Orphans(read),
                                !.whole = report.counts /\ read = files,
                                !.doubtful = @ \/ (report.counts /\ Orphans(read) # {})]
  /\ UNCHANGED vars

Exit ==
  /\ report.at = "done"
  /\ report' = Quiet
  /\ UNCHANGED vars

ReportStep == (\E tool \in Tools : Query(tool)) \/ ReportRow \/ LoadReferenced \/ SkipOrphans \/ Walk \/ Exit

\* A report is taken beside one script or one retry at most, over ReportRows rows.
Busy == {p \in Runs : run[p] # Idle} \union {q \in Requests : retry[q] # NoRequest}
Bounded == report.at # "idle" => Cardinality(Busy) <= 1 /\ Inserted \subseteq 1..ReportRows

NextWithReports ==
  \/ /\ Next
     /\ report' = IF report.counts /\ <<row, files, objects>>' # <<row, files, objects>>
                  THEN [report EXCEPT !.counts = FALSE, !.critical = FALSE, !.failed = FALSE,
                                      !.doubtful = FALSE, !.blind = FALSE, !.whole = FALSE]
                  ELSE report
     /\ Bounded'
  \/ ReportStep /\ Bounded'

InitWithReports == Init /\ report = Quiet
SpecWithReports == InitWithReports /\ [][NextWithReports]_auditVars

-----------------------------------------------------------------------------
\* A row reported fine could be read, and a row reported missing could not, unless it
\* was changed since the query, as a migration or a deletion overtook the report, or its
\* file was there and could not be looked at.
HeadingsTell == ~report.wrong

\* A file listed as an orphan is the upload of a local row only if the row was inserted
\* after the keys were read: a retry that had read its original before that was moved.
OrphansTell ==
  report.at = "done" =>
    \A s \in Inserted : row[s].provider = "local" /\ row[s].key \in report.known => s \notin report.knew

\* The exit code of an audit of all rows that had the system to itself.  With --strict, 0
\* means that every upload can be read, whatever was checked, and, if the walk was not
\* turned off and every directory could be read, that every file belongs to a row
\* (OPERATIONS.md:204).  With both checks on a 1 means that it is not so, that S3 could not
\* be asked, or that a local row's file could not be looked at.
ExitTells ==
  report.at = "done" /\ report.counts =>
    LET stored == \A s \in Inserted : Stored(s)
        named == files \subseteq {row[s].key : s \in Inserted}
        strict == report.critical \/ report.failed \/ report.doubtful IN
    /\ ~strict => stored /\ (report.whole => named)
    /\ report.s3 /\ report.local /\ stored /\ named => strict = (report.failed \/ report.blind)

\* What an operator may take from a report.
ReportsTell == HeadingsTell /\ OrphansTell /\ ExitTells

=============================================================================
