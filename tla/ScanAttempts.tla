----------------------------- MODULE ScanAttempts -----------------------------
(***************************************************************************)
(* The scans of one user as the rows of table "scans" record them: uploads *)
(* under a scan quota, the retries a user asks for (a new row each, in the *)
(* group of the first attempt, over the same stored file) and the deletion *)
(* of the account (apps/api/src/services/scan.service.js,                  *)
(* access-control.service.js, controllers/auth.controller.js).             *)
(*                                                                         *)
(* Requests of the user run concurrently; each await between a check and   *)
(* the statement that relies on it is a step boundary here.  What happens  *)
(* to a row between its insertion and its outcome is ScanPipeline's        *)
(* business and one step, Settle, here.                                    *)
(***************************************************************************)
EXTENDS Naturals, FiniteSets, FiniteSetsExt

CONSTANTS
  Scans,       \* scan ids that uuidv4 may draw; a bound on the rows
  Requests,    \* requests of the user that may be in flight together
  ScanLimit,   \* scanLimitForPlanCode of the user's plan (2 for the free plan)
  NoScan       \* no scan

ASSUME ScanAttemptsAssumption ==
  /\ NoScan \notin Scans
  /\ IsFiniteSet(Scans) /\ IsFiniteSet(Requests) /\ Requests # {}
  /\ ScanLimit \in Nat

VARIABLES
  row,     \* the row of each scan
  file,    \* the upload stored under each scan's storage key
  req,     \* what each request is doing
  account  \* the user's row: there, its scans deleted, gone

vars == <<row, file, req, account>>

-----------------------------------------------------------------------------
\* Of a row: status (pending stands for processing too), whether user_id is set,
\* scan_group_id, retry_of_scan_id, attempt_number and is_retry.  storage_key is
\* that of the group's first scan; retry_count only informs.
Row == [status : {"none", "pending", "completed", "failed", "deleted"}, owned : BOOLEAN,
        group : Scans \union {NoScan}, of : Scans \union {NoScan},
        attempt : Nat, retry : BOOLEAN]

NoRow(status) == [status |-> status, owned |-> FALSE, group |-> NoScan, of |-> NoScan,
                  attempt |-> 0, retry |-> FALSE]

\* Of a request: its place; the id it drew; of a retry, the row it was asked to
\* retry, as it was read, and the attempt number it computed.
Request == [pc : {"idle", "save", "insert", "media", "number", "insert_retry"},
            scan : Scans \union {NoScan}, base : Scans \union {NoScan},
            group : Scans \union {NoScan}, attempt : Nat]

IdleRequest == [pc |-> "idle", scan |-> NoScan, base |-> NoScan,
                group |-> NoScan, attempt |-> 0]

Exists(s) == row[s].status \notin {"none", "deleted"}
Owned == {s \in Scans : Exists(s) /\ row[s].owned}

TypeOK ==
  /\ row \in [Scans -> Row]
  /\ file \in [Scans -> {"none", "stored", "lost"}]
  /\ req \in [Requests -> Request]
  /\ account \in {"active", "emptied", "gone"}

Init ==
  /\ row = [s \in Scans |-> NoRow("none")]
  /\ file = [s \in Scans |-> "none"]
  /\ req = [r \in Requests |-> IdleRequest]
  /\ account = "active"

Goto(r, pc) == req' = [req EXCEPT ![r].pc = pc]
End(r) == req' = [req EXCEPT ![r] = IdleRequest]

Unused(s) == row[s].status = "none" /\ file[s] = "none" /\ \A r \in Requests : req[r].scan # s

-----------------------------------------------------------------------------
(* Uploads *)

\* getBillableScanCountForUser: retries are not counted.
Billable == {s \in Owned : ~row[s].retry}

\* Mutant: the limit itself still passes.
MayStartScanAtLimit == account # "gone" /\ Cardinality(Billable) <= ScanLimit

MayStartScan == account # "gone" /\ Cardinality(Billable) < ScanLimit

CanStartScan(r, s) ==
  /\ req[r].pc = "idle" /\ Unused(s)
  /\ MayStartScan
  /\ req' = [req EXCEPT ![r].pc = "save", ![r].scan = s]
  /\ UNCHANGED <<row, file, account>>

FirstRow(s) == [status |-> "pending", owned |-> TRUE, group |-> s, of |-> NoScan,
                attempt |-> 1, retry |-> FALSE]

\* storage.saveUpload writes the file before anything else is known to be in order.
SaveUpload(r) ==
  /\ req[r].pc = "save"
  /\ file' = [file EXCEPT ![req[r].scan] = "stored"]
  /\ Goto(r, "insert")
  /\ UNCHANGED <<row, account>>

\* The INSERT of createScanFromUpload; its foreign key needs the user.
InsertUpload(r) ==
  /\ req[r].pc = "insert"
  /\ row' = IF account = "gone" THEN row
            ELSE [row EXCEPT ![req[r].scan] = FirstRow(req[r].scan)]
  /\ End(r)
  /\ UNCHANGED <<file, account>>

\* No provider supports the file, a statement or the storage fails, or the
\* process dies: the request ends where it is.
Abort(r) ==
  /\ req[r].pc # "idle"
  /\ End(r)
  /\ UNCHANGED <<row, file, account>>

-----------------------------------------------------------------------------
(* retryFailedScanForUser *)

LoadFailedScan(r, b) ==
  /\ req[r].pc = "idle"
  /\ b \in Owned /\ row[b].status = "failed"
  /\ req' = [req EXCEPT ![r] = [IdleRequest EXCEPT !.pc = "media", !.base = b,
                                              !.group = row[b].group]]
  /\ UNCHANGED <<row, file, account>>

CheckMedia(r) ==
  /\ req[r].pc = "media"
  /\ IF file[req[r].group] = "stored" THEN Goto(r, "number") ELSE End(r)
  /\ UNCHANGED <<row, file, account>>

\* Mutant: the number follows the retried row.
NextAttemptOfBase(r) == row[req[r].base].attempt + 1

\* COALESCE(MAX(attempt_number), 1) + 1 over the group.
NextAttempt(r) ==
  Max({row[s].attempt : s \in {t \in Owned : row[t].group = req[r].group}} \union {1}) + 1

NumberAttempt(r) ==
  /\ req[r].pc = "number"
  /\ req' = [req EXCEPT ![r].pc = "insert_retry", ![r].attempt = NextAttempt(r)]
  /\ UNCHANGED <<row, file, account>>

RetryRow(r) == [status |-> "pending", owned |-> TRUE, group |-> req[r].group,
                of |-> req[r].base, attempt |-> req[r].attempt, retry |-> TRUE]

InsertRetry(r, s) ==
  /\ req[r].pc = "insert_retry" /\ Unused(s)
  /\ row' = IF account = "gone" THEN row ELSE [row EXCEPT ![s] = RetryRow(r)]
  /\ End(r)
  /\ UNCHANGED <<file, account>>

-----------------------------------------------------------------------------
(* What others do to the rows and the files *)

\* The pipeline settles a scan; one whose file is lost cannot complete.
Settle(s) ==
  /\ row[s].status = "pending"
  /\ \/ row' = [row EXCEPT ![s].status = "failed"]
     \/ file[row[s].group] = "stored" /\ row' = [row EXCEPT ![s].status = "completed"]
  /\ UNCHANGED <<file, req, account>>

\* An operator requeues a settled scan: the same row again.
RequeueScan(s) ==
  /\ row[s].status \in {"completed", "failed"}
  /\ row' = [row EXCEPT ![s].status = "pending"]
  /\ UNCHANGED <<file, req, account>>

\* A stored file disappears: retention of the bucket, a cleaned disk.  One that
\* no row names makes no difference.
LoseFile(s) ==
  /\ Exists(s) /\ file[s] = "stored"
  /\ file' = [file EXCEPT ![s] = "lost"]
  /\ UNCHANGED <<row, req, account>>

\* deleteMe, first statement that matters here: DELETE FROM scans.
DeleteScans ==
  /\ account = "active"
  /\ account' = "emptied"
  /\ row' = [s \in Scans |-> IF s \in Owned THEN NoRow("deleted") ELSE row[s]]
  /\ UNCHANGED <<file, req>>

\* DELETE FROM users: ON DELETE SET NULL for the scans inserted since.
DeleteUser ==
  /\ account = "emptied"
  /\ account' = "gone"
  /\ row' = [s \in Scans |-> [row[s] EXCEPT !.owned = FALSE]]
  /\ UNCHANGED <<file, req>>

-----------------------------------------------------------------------------
RequestStep(r) ==
  \/ \E s \in Scans : CanStartScan(r, s)
  \/ SaveUpload(r)
  \/ InsertUpload(r)
  \/ Abort(r)
  \/ \E b \in Scans : LoadFailedScan(r, b)
  \/ CheckMedia(r)
  \/ NumberAttempt(r)
  \/ \E s \in Scans : InsertRetry(r, s)

Next ==
  \/ \E r \in Requests : RequestStep(r)
  \/ \E s \in Scans : Settle(s) \/ RequeueScan(s) \/ LoseFile(s)
  \/ DeleteScans
  \/ DeleteUser

Spec == Init /\ [][Next]_vars

-----------------------------------------------------------------------------
(* Properties *)

\* The count of canStartScan is stale when the row is inserted.  Requests in
\* flight together may therefore pass the limit, but each by one at most, and
\* retries, which are free, never bring a user further.
QuotaOvershoot == Cardinality(Billable) <= ScanLimit + Cardinality(Requests) - 1

\* The rows that show as attempt n of group g.
AttemptsOf(g, n) == {s \in Scans : Exists(s) /\ row[s].group = g /\ row[s].attempt = n}

\* MAX(attempt_number) is read before the INSERT and no index keeps the numbers
\* of a group apart, so retries in flight together may get the same number; no
\* more rows share one than there are such requests.
AttemptClashes ==
  \A g \in Scans, n \in 1..Cardinality(Scans) :
    Cardinality(AttemptsOf(g, n)) <= Cardinality(Requests)

\* A retry belongs to the group of the row it retries and comes after it;
\* while the account is there the group has its first
\* attempt and no number is left out, so getScanAttemptsByGroup lists all of it
\* in order.
AttemptsAreNumbered ==
  \A s \in Scans : Exists(s) =>
    /\ row[s].retry <=> row[s].of # NoScan
    /\ row[s].retry <=> row[s].attempt > 1
    /\ row[s].of = NoScan => row[s].group = s /\ row[s].attempt = 1
    /\ row[s].retry /\ Exists(row[s].of) =>
         LET b == row[row[s].of] IN row[s].group = b.group /\ row[s].attempt > b.attempt
    /\ account = "active" /\ row[s].attempt > 1 =>
         /\ Exists(row[s].of) /\ Exists(row[s].group)
         /\ AttemptsOf(row[s].group, row[s].attempt - 1) # {}

\* Every row, a retry's too, has a file that was stored before the row was
\* there: the pipeline never waits for an upload.
MediaIsStored == \A s \in Scans : Exists(s) => file[row[s].group] # "none"

-----------------------------------------------------------------------------
(* Why those properties hold: the inductive invariant.                      *)

Uploading(r) == req[r].pc \in {"save", "insert"}
Retrying(r) == req[r].pc \in {"media", "number", "insert_retry"}

\* Ids are drawn once: what a request holds is nobody else's, and what rows and
\* retries refer to is a row that was inserted before.
IdsAreFresh ==
  /\ \A r \in Requests : Uploading(r) =>
       /\ req[r].scan \in Scans /\ row[req[r].scan].status = "none"
       /\ \A q \in Requests : q # r => req[q].scan # req[r].scan
  /\ \A s \in Scans : Exists(s) =>
       /\ row[s].group \in Scans /\ row[row[s].group].status # "none"
       /\ row[s].of # NoScan => row[row[s].of].status # "none"
  /\ \A r \in Requests : Retrying(r) =>
       /\ req[r].group \in Scans /\ row[req[r].group].status # "none"
       /\ req[r].base \in Scans /\ row[req[r].base].status # "none"

OwnedUntilGone == account # "gone" => \A s \in Scans : Exists(s) => row[s].owned

\* An upload that passed the check has already been counted on.
UploadsInFlight == {r \in Requests : Uploading(r)}

QuotaIsPromised ==
  /\ QuotaOvershoot
  /\ UploadsInFlight # {} =>
       Cardinality(Billable) + Cardinality(UploadsInFlight)
         <= ScanLimit + Cardinality(Requests) - 1

\* The requests that are about to insert attempt n of group g.
ClaimsOf(g, n) ==
  {r \in Requests : req[r].pc = "insert_retry" /\ req[r].group = g /\ req[r].attempt = n}

\* Once attempt n is there nobody computes the number n any more.
NumbersAreClaimed ==
  /\ AttemptClashes
  /\ \A r \in Requests : req[r].pc = "insert_retry" => req[r].attempt > 1
  /\ account # "gone" =>
       \A g \in Scans, n \in 1..Cardinality(Scans) + 1 : AttemptsOf(g, n) # {} =>
         Cardinality(AttemptsOf(g, n)) + Cardinality(ClaimsOf(g, n)) <= Cardinality(Requests)

FilesAreStored ==
  /\ MediaIsStored
  /\ \A r \in Requests :
       /\ req[r].pc = "insert" => file[req[r].scan] # "none"
       /\ Retrying(r) => file[req[r].group] # "none"

\* What a retry read of the group stays true until it inserts its row.
RetriesFollow ==
  \A r \in Requests : Retrying(r) =>
    /\ account = "active" => Exists(req[r].base) /\ Exists(req[r].group)
    /\ Exists(req[r].base) => row[req[r].base].group = req[r].group
    /\ req[r].pc = "insert_retry" /\ account # "gone" /\ Exists(req[r].base) =>
         req[r].attempt > row[req[r].base].attempt
    /\ req[r].pc = "insert_retry" /\ account = "active" =>
         AttemptsOf(req[r].group, req[r].attempt - 1) # {}

AttemptsInv ==
  /\ TypeOK /\ IdsAreFresh /\ OwnedUntilGone /\ QuotaIsPromised
  /\ NumbersAreClaimed /\ FilesAreStored /\ RetriesFollow /\ AttemptsAreNumbered

-----------------------------------------------------------------------------
=============================================================================
