---------------------------- MODULE StorageMigration ----------------------------
(***************************************************************************)
(* The operators' scripts that move stored uploads (apps/api/src/scripts): *)
(* migrate-local-uploads-to-s3 copies a row's local file to S3 and points  *)
(* the row at it, migrate-s3-scan-keys moves an object from its flat key   *)
(* to the structured one, cleanup-local-upload-files unlinks local copies  *)
(* of rows that are on S3.  They run against a live system: users retry    *)
(* scans (a retry's row shares the stored file of the row it retries) and  *)
(* delete their accounts meanwhile.                                        *)
(*                                                                         *)
(* One group of attempts over one upload is modelled: a script's work on a *)
(* row touches no other group.  Every object and file of the group holds   *)
(* the same bytes, so the sizes the scripts compare always agree.          *)
(***************************************************************************)
EXTENDS Naturals, FiniteSets, FiniteSetsExt

CONSTANTS
  Rows,      \* rows of the group that are ever inserted, a bound
  Runs,      \* script processes at work together
  Requests,  \* retry requests in flight together
  KeyRuns,   \* runs of migrate-s3-scan-keys at work together
  Faults     \* "crash": a script is killed; "error": a call fails without effect or a
             \* reply is lost; "reply": the reply of an UPDATE of the keys is lost

ASSUME StorageAssumption ==
  /\ Rows \in Nat \ {0} /\ KeyRuns \in Nat
  /\ IsFiniteSet(Runs)
  /\ Faults \subseteq {"crash", "error", "reply"}

VARIABLES
  row,      \* the row of each scan, in the order of created_at
  files,    \* keys of the files under SCAN_STORAGE_LOCAL_DIR
  objects,  \* keys of the objects in the bucket
  run,      \* what each script process is doing
  retry,    \* what each retry request has read
  unsure    \* history: rows whose UPDATE committed while the script saw it fail

vars == <<row, files, objects, run, retry, unsure>>

-----------------------------------------------------------------------------
Scans == 1..Rows

\* The object key of a scan's own upload: {scanId}/{filename} in the flat layout,
\* scans/users/{userId}/{scanId}/original/source.{ext} in the structured one.
Flat(s) == [layout |-> "flat", of |-> s]
Structured(s) == [layout |-> "structured", of |-> s]
NoKey == [layout |-> "none", of |-> 0]
Keys == [layout : {"flat", "structured"}, of : Scans]

\* storage_provider, storage_key and old_storage_key (set together with
\* storage_migrated_at); provider "none": there is no row.
Row == [provider : {"none", "local", "s3"}, key : Keys \union {NoKey}, old : Keys \union {NoKey}]
NoRow == [provider |-> "none", key |-> NoKey, old |-> NoKey]

\* seen: the storage_key each row still to do had when the candidates were selected.
Run == [script : {"none", "local", "keys", "cleanup"}, seen : [Scans -> Keys \union {NoKey}],
        at : {"next", "put", "head", "copy", "verify", "update", "undo", "delete", "unlink"},
        copied : BOOLEAN, deletes : BOOLEAN]
Idle == [script |-> "none", seen |-> [s \in Scans |-> NoKey], at |-> "next",
         copied |-> FALSE, deletes |-> FALSE]

Request == [at : {"none", "check", "insert"}, provider : {"none", "local", "s3"}, key : Keys \union {NoKey}]
NoRequest == [at |-> "none", provider |-> "none", key |-> NoKey]

Inserted == {s \in Scans : row[s].provider # "none"}
Stored(s) == row[s].key \in IF row[s].provider = "local" THEN files ELSE objects

\* An upload is stored under its flat or its structured key, locally or on S3; an
\* object may have a local copy beside it, from a migration before this one.
Init ==
  \E key \in {Flat(1), Structured(1)}, provider \in {"local", "s3"}, copy \in BOOLEAN :
    /\ row = [s \in Scans |-> IF s = 1 THEN [provider |-> provider, key |-> key, old |-> NoKey]
                              ELSE NoRow]
    /\ objects = IF provider = "s3" THEN {key} ELSE {}
    /\ files = IF provider = "local" \/ copy THEN {key} ELSE {}
    /\ run = [p \in Runs |-> Idle]
    /\ retry = [q \in Requests |-> NoRequest]
    /\ unsure = {}

-----------------------------------------------------------------------------
(* A script: the candidates, selected once, then one row after another. *)

Todo(p) == {s \in Scans : run[p].seen[s] # NoKey}
Current(p) == Min(Todo(p))
Target(p) == Structured(Current(p))
SeenKey(p) == run[p].seen[Current(p)]

LocalCandidates == {s \in Inserted : row[s].provider = "local"}
KeyCandidates == {s \in Inserted : row[s].provider = "s3" /\ row[s].old = NoKey /\ row[s].key.layout = "flat"}
CleanupCandidates == {s \in Inserted : row[s].provider = "s3"}

Candidates(script) ==
  CASE script = "local" -> LocalCandidates
    [] script = "keys" -> KeyCandidates
    [] script = "cleanup" -> CleanupCandidates

\* The command line: --limit, --scan-id and the like narrow the candidates;
\* --delete-old-objects is for "keys".
Narrowed(script) == (SUBSET Candidates(script)) \ {{}}
Deletes(script) == IF script = "keys" THEN BOOLEAN ELSE {FALSE}

Start(p, script) ==
  /\ run[p] = Idle
  /\ script = "keys" => Cardinality({o \in Runs : run[o].script = "keys"}) < KeyRuns
  /\ \E chosen \in Narrowed(script), deletes \in Deletes(script) :
       run' = [run EXCEPT ![p] = [Idle EXCEPT
                !.script = script, !.deletes = deletes,
                !.seen = [s \in Scans |-> IF s \in chosen THEN row[s].key ELSE NoKey]]]
  /\ UNCHANGED <<row, files, objects, retry, unsure>>

At(p, script, at) == run[p].script = script /\ Todo(p) # {} /\ run[p].at = at
GoTo(p, at) == run' = [run EXCEPT ![p].at = at]

\* The next row of the loop; after the last one the script ends.
RowDone(p) ==
  run' = [run EXCEPT ![p] = IF Todo(p) = {Current(p)} THEN Idle
                            ELSE [@ EXCEPT !.seen[Current(p)] = NoKey, !.at = "next", !.copied = FALSE]]

Crash(p) ==
  /\ "crash" \in Faults /\ run[p] # Idle
  /\ run' = [run EXCEPT ![p] = Idle]
  /\ UNCHANGED <<row, files, objects, retry, unsure>>

-----------------------------------------------------------------------------
(* migrate-local-uploads-to-s3.js *)

ReadLocal(p) ==
  /\ At(p, "local", "next")
  /\ IF SeenKey(p) \in files THEN GoTo(p, "put") ELSE RowDone(p)
  /\ UNCHANGED <<row, files, objects, retry, unsure>>

\* Mutant: a failed upload is taken for one already done.
PutObjectUnchecked(p) ==
  /\ At(p, "local", "put")
  /\ \/ objects' = objects \union {Target(p)} /\ GoTo(p, "verify")
     \/ "error" \in Faults /\ objects' \in {objects, objects \union {Target(p)}} /\ GoTo(p, "update")
  /\ UNCHANGED <<row, files, retry, unsure>>

\* PutObject is skipped when the object is there with the size of the file.
PutObject(p) ==
  /\ At(p, "local", "put")
  /\ \/ objects' = objects \union {Target(p)} /\ GoTo(p, "verify")
     \/ "error" \in Faults /\ objects' \in {objects, objects \union {Target(p)}} /\ RowDone(p)
  /\ UNCHANGED <<row, files, retry, unsure>>

VerifyPut(p) ==
  /\ At(p, "local", "verify")
  /\ \/ Target(p) \in objects /\ GoTo(p, "update")
     \/ (Target(p) \notin objects \/ "error" \in Faults) /\ RowDone(p)
  /\ UNCHANGED <<row, files, objects, retry, unsure>>

\* WHERE the provider is still local, whatever the key; nothing is undone when
\* no row matches or the UPDATE throws, committed or not.
UpdateLocal(p) ==
  /\ At(p, "local", "update")
  /\ LET s == Current(p) IN
     \/ /\ row[s].provider = "local"
        /\ row' = [row EXCEPT ![s].provider = "s3", ![s].key = Target(p)]
     \/ row[s].provider # "local" /\ UNCHANGED row
     \/ "error" \in Faults /\ UNCHANGED row
  /\ RowDone(p)
  /\ UNCHANGED <<files, objects, retry, unsure>>

-----------------------------------------------------------------------------
(* migrate-s3-scan-keys-to-structured-layout.js *)

\* A failure is undone by deleting the new object, if this run copied it.
Fail(p) == IF run[p].copied THEN GoTo(p, "undo") ELSE RowDone(p)

HeadOld(p) ==
  /\ At(p, "keys", "next")
  /\ \/ SeenKey(p) \in objects /\ GoTo(p, "head")
     \/ (SeenKey(p) \notin objects \/ "error" \in Faults) /\ RowDone(p)
  /\ UNCHANGED <<row, files, objects, retry, unsure>>

HeadNew(p) ==
  /\ At(p, "keys", "head")
  /\ \/ GoTo(p, IF Target(p) \in objects THEN "verify" ELSE "copy")
     \/ "error" \in Faults /\ RowDone(p)
  /\ UNCHANGED <<row, files, objects, retry, unsure>>

CopyObject(p) ==
  /\ At(p, "keys", "copy")
  /\ \/ /\ SeenKey(p) \in objects
        /\ objects' = objects \union {Target(p)}
        /\ run' = [run EXCEPT ![p].at = "verify", ![p].copied = TRUE]
     \/ SeenKey(p) \notin objects /\ UNCHANGED objects /\ RowDone(p)
     \/ /\ "error" \in Faults
        /\ objects' \in {objects, IF SeenKey(p) \in objects THEN objects \union {Target(p)} ELSE objects}
        /\ RowDone(p)
  /\ UNCHANGED <<row, files, retry, unsure>>

\* Mutant: the old object is deleted as soon as the copy is verified.
VerifyCopyAndDelete(p) ==
  /\ At(p, "keys", "verify")
  /\ \/ /\ Target(p) \in objects /\ GoTo(p, "update")
        /\ objects' = IF run[p].deletes THEN objects \ {SeenKey(p)} ELSE objects
     \/ (Target(p) \notin objects \/ "error" \in Faults) /\ Fail(p) /\ UNCHANGED objects
  /\ UNCHANGED <<row, files, retry, unsure>>

VerifyCopy(p) ==
  /\ At(p, "keys", "verify")
  /\ \/ Target(p) \in objects /\ GoTo(p, "update")
     \/ (Target(p) \notin objects \/ "error" \in Faults) /\ Fail(p)
  /\ UNCHANGED <<row, files, objects, retry, unsure>>

\* WHERE id, storage_key and provider are those that were selected.
UpdateKey(p) ==
  /\ At(p, "keys", "update")
  /\ LET s == Current(p)
         matches == row[s].provider = "s3" /\ row[s].key = SeenKey(p)
         moved == [row EXCEPT ![s].old = row[s].key, ![s].key = Target(p)]
     IN \/ /\ matches /\ row' = moved /\ UNCHANGED unsure
           /\ IF run[p].deletes THEN GoTo(p, "delete") ELSE RowDone(p)
        \/ (~matches \/ "error" \in Faults) /\ UNCHANGED <<row, unsure>> /\ Fail(p)
        \/ matches /\ "reply" \in Faults /\ row' = moved /\ unsure' = unsure \union {s} /\ Fail(p)
  /\ UNCHANGED <<files, objects, retry>>

DeleteOld(p) ==
  /\ At(p, "keys", "delete")
  /\ \/ objects' = objects \ {SeenKey(p)}
     \/ "error" \in Faults /\ UNCHANGED objects
  /\ RowDone(p)
  /\ UNCHANGED <<row, files, retry, unsure>>

Undo(p) ==
  /\ At(p, "keys", "undo")
  /\ \/ objects' = objects \ {Target(p)}
     \/ "error" \in Faults /\ UNCHANGED objects
  /\ RowDone(p)
  /\ UNCHANGED <<row, files, retry, unsure>>

-----------------------------------------------------------------------------
(* cleanup-local-upload-files.js: the local path is that of the row's S3 key. *)

StatLocal(p) ==
  /\ At(p, "cleanup", "next")
  /\ IF SeenKey(p) \in files THEN GoTo(p, "head") ELSE RowDone(p)
  /\ UNCHANGED <<row, files, objects, retry, unsure>>

HeadObject(p) ==
  /\ At(p, "cleanup", "head")
  /\ \/ SeenKey(p) \in objects /\ GoTo(p, "unlink")
     \/ (SeenKey(p) \notin objects \/ "error" \in Faults) /\ RowDone(p)
  /\ UNCHANGED <<row, files, objects, retry, unsure>>

Unlink(p) ==
  /\ At(p, "cleanup", "unlink")
  /\ \/ files' = files \ {SeenKey(p)}
     \/ "error" \in Faults /\ UNCHANGED files
  /\ RowDone(p)
  /\ UNCHANGED <<row, objects, retry, unsure>>

-----------------------------------------------------------------------------
(* The API meanwhile: retryFailedScanForUser and deleteMe. *)

LoadScan(q, s) ==
  /\ retry[q] = NoRequest /\ s \in Inserted
  /\ retry' = [retry EXCEPT ![q] = [at |-> "check", provider |-> row[s].provider, key |-> row[s].key]]
  /\ UNCHANGED <<row, files, objects, run, unsure>>

CheckMedia(q) ==
  /\ retry[q].at = "check"
  /\ LET exists == retry[q].key \in IF retry[q].provider = "local" THEN files ELSE objects
     IN retry' = [retry EXCEPT ![q] = IF exists THEN [@ EXCEPT !.at = "insert"] ELSE NoRequest]
  /\ UNCHANGED <<row, files, objects, run, unsure>>

\* The new row takes provider and key as they were read; without the user the
\* foreign key refuses it.
InsertRetry(q) ==
  /\ retry[q].at = "insert"
  /\ \/ /\ Inserted # {} /\ Inserted # Scans
        /\ row' = [row EXCEPT ![Max(Inserted) + 1] =
                     [provider |-> retry[q].provider, key |-> retry[q].key, old |-> NoKey]]
     \/ Inserted = {} /\ UNCHANGED row
  /\ retry' = [retry EXCEPT ![q] = NoRequest]
  /\ UNCHANGED <<files, objects, run, unsure>>

\* DELETE FROM scans; files and objects stay.
DeleteRows ==
  /\ Inserted # {}
  /\ row' = [s \in Scans |-> NoRow]
  /\ UNCHANGED <<files, objects, run, retry, unsure>>

-----------------------------------------------------------------------------
ScriptStep(p) ==
  \/ \E script \in {"local", "keys", "cleanup"} : Start(p, script)
  \/ ReadLocal(p) \/ PutObject(p) \/ VerifyPut(p) \/ UpdateLocal(p)
  \/ HeadOld(p) \/ HeadNew(p) \/ CopyObject(p) \/ VerifyCopy(p) \/ UpdateKey(p)
  \/ DeleteOld(p) \/ Undo(p)
  \/ StatLocal(p) \/ HeadObject(p) \/ Unlink(p)
  \/ Crash(p)

Next ==
  \/ \E p \in Runs : ScriptStep(p)
  \/ \E q \in Requests : (\E s \in Scans : LoadScan(q, s)) \/ CheckMedia(q) \/ InsertRetry(q)
  \/ DeleteRows

Spec == Init /\ [][Next]_vars

-----------------------------------------------------------------------------
(* Properties *)

TypeOK ==
  /\ row \in [Scans -> Row] /\ run \in [Runs -> Run] /\ retry \in [Requests -> Request]
  /\ files \subseteq Keys /\ objects \subseteq Keys /\ unsure \subseteq Scans

\* A row the scripts moved within S3 is at its own structured key.
MovedToOwnKey ==
  \A s \in Inserted : row[s].old # NoKey =>
    row[s].provider = "s3" /\ row[s].key = Structured(s) /\ row[s].old.layout = "flat"

\* A script points a row at an object only while that object is there.
CopyBeforeUpdate ==
  \A p \in Runs :
    /\ At(p, "local", "update") /\ row[Current(p)].provider = "local" => Target(p) \in objects
    /\ At(p, "keys", "update") => Target(p) \in objects

\* ... and deletes the old object only when its row names the new one, which is there.
DeleteAfterUpdate ==
  \A p \in Runs : At(p, "keys", "delete") /\ Current(p) \in Inserted =>
    /\ row[Current(p)].old = SeenKey(p) /\ row[Current(p)].key = Target(p)
    /\ Target(p) \in objects

\* With one run of migrate-s3-scan-keys at a time, what the scripts rely on between
\* their calls (migrate-s3-scan-keys-to-structured-layout.js:108-197, migrate-local-
\* uploads-to-s3.js:222-269) holds while retries and deletions change the rows.
StorageInv == TypeOK /\ MovedToOwnKey /\ CopyBeforeUpdate /\ DeleteAfterUpdate

\* Whatever fails and whenever a script is killed, the upload itself is kept: some row
\* of the group can still be read, or the object it had before the migration is there
\* to go back to (OPERATIONS.md:156, "Rollback").
MediaSurvives ==
  Inserted # {} => \E s \in Inserted : Stored(s) \/ row[s].old \in objects

\* Another row left the key this row names: its object was moved to the other's own
\* key, or its file was taken for the other's local copy.
SharedKeyMoved(s) ==
  \E t \in Inserted \ {s} :
    \/ row[t].old = row[s].key
    \/ row[s].provider = "local" /\ row[t].provider = "s3" /\ row[t].key = row[s].key

\* The script saw the UPDATE fail and deleted the copy the row had been pointed at.
CopyUndone(s) == \E u \in unsure : row[s].key = Structured(u)

\* A row whose upload is missing, the audit's "critical" buckets (OPERATIONS.md:195-196),
\* comes about in two ways only: another row of the group shares its key and was moved,
\* or the reply to the UPDATE of the keys was lost.  A script killed between two steps,
\* or a call that fails, leaves every row readable.
MissingMediaExplained ==
  \A s \in Inserted : Stored(s) \/ SharedKeyMoved(s) \/ CopyUndone(s)

=============================================================================
