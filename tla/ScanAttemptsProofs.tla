-------------------------- MODULE ScanAttemptsProofs --------------------------
(***************************************************************************)
(* Proofs about the user's own scans.  First ScanAttempts, for any finite  *)
(* number of rows and of requests in flight and any scan limit: every      *)
(* action falls under one of a few shapes, which the first lemmas          *)
(* describe.  Then ScanVerdict and ScanAdmission, for any files, vendors'  *)
(* answers and runs: what is submitted and what is said of it.             *)
(***************************************************************************)
EXTENDS ScanAttempts, ScanVerdict, FiniteSetTheorems, SequenceTheorems, WellFoundedInduction,
        TLAPS

-----------------------------------------------------------------------------
(* Maxima and counts *)

\* A finite set of numbers has a greatest one: no set of those above an element is
\* least but the empty one.
LEMMA MaxExists ==
  ASSUME NEW S \in SUBSET Int, IsFiniteSet(S), S # {}
  PROVE  Max(S) \in S /\ \A x \in S : Max(S) >= x
<1> DEFINE Above(s) == {t \in S : t > s}
           T == {Above(s) : s \in S}
<1>1. T \subseteq FiniteSubsetsOf(S) /\ T # {}
  <2>1. \A s \in S : Above(s) \subseteq S /\ IsFiniteSet(Above(s))
    BY FS_Subset
  <2> QED BY <2>1 DEF FiniteSubsetsOf
<1>2. PICK A \in T : \A B \in T : <<B, A>> \notin StrictSubsetOrdering(S)
  <2> HIDE DEF T
  <2> QED BY <1>1, FS_StrictSubsetOrderingWellFounded, WFMin
<1>3. PICK s \in S : A = Above(s)
  BY <1>2
<1>4. Above(s) = {}
  <2> SUFFICES ASSUME NEW t \in Above(s) PROVE FALSE
    OBVIOUS
  <2>0. t \in Int /\ s \in Int /\ t > s
    OBVIOUS
  <2>1. Above(t) \subseteq Above(s) /\ t \notin Above(t)
    <3>1. \A u \in Int : u > t => u > s
      BY <2>0
    <3>2. ~(t > t) /\ \A u \in S : u \in Int
      BY <2>0
    <3> QED BY <3>1, <3>2
  <2>2. <<Above(t), Above(s)>> \in StrictSubsetOrdering(S)
    BY <2>1 DEF StrictSubsetOrdering
  <2> QED BY <1>2, <1>3, <2>2
<1>5. \A x \in S : s >= x
  BY <1>4
<1> QED BY <1>5 DEF Max

\* The maximum the SELECT asks for is the number of one of the group's rows, or one.
LEMMA MaxAttempt ==
  ASSUME TypeOK, NEW G \in SUBSET Scans
  PROVE  LET M == {row[s].attempt : s \in G} \union {1}
         IN  Max(M) \in M /\ \A x \in M : Max(M) >= x
<1> DEFINE M == {row[s].attempt : s \in G} \union {1}
<1>1. M \in SUBSET Int /\ M # {}
  BY DEF TypeOK, Row
<1>2. IsFiniteSet(M)
  <2>1. IsFiniteSet(G)
    BY ScanAttemptsAssumption, FS_Subset
  <2> DEFINE N == {row[s].attempt : s \in G}
             f == [s \in G |-> row[s].attempt]
  <2>2. IsFiniteSet(N)
    <3>1. f \in Surjection(G, N)
      BY DEF Surjection
    <3> QED BY <2>1, <3>1, FS_Surjection
  <2> QED BY <2>2, FS_AddElement
<1> HIDE DEF M
<1>3. Max(M) \in M /\ \A x \in M : Max(M) >= x
  BY <1>1, <1>2, MaxExists
<1> QED BY <1>3 DEF M

LEMMA Counts ==
  /\ \A S \in SUBSET Scans : IsFiniteSet(S) /\ Cardinality(S) \in Nat
  /\ \A Q \in SUBSET Requests :
       IsFiniteSet(Q) /\ Cardinality(Q) \in Nat /\ Cardinality(Q) <= Cardinality(Requests)
  /\ Cardinality(Requests) \in Nat \ {0}
  BY ScanAttemptsAssumption, FS_Subset, FS_CardinalityType, FS_EmptySet

LEMMA AtMostOne == ASSUME NEW x, NEW T, T \subseteq {x} PROVE Cardinality(T) <= 1
<1>1. IsFiniteSet({x}) /\ Cardinality({x}) = 1 /\ T \in SUBSET {x}
  BY FS_Singleton
<1> QED BY <1>1, FS_Subset

\* The number computed for a retry is above every number of its group.
LEMMA NextAttemptIsNew ==
  ASSUME TypeOK, NEW r \in Requests
  PROVE  /\ NextAttempt(r) \in Nat /\ NextAttempt(r) > 1
         /\ \A s \in Owned : row[s].group = req[r].group => row[s].attempt < NextAttempt(r)
         /\ NextAttempt(r) = 2 \/ \E s \in Owned : /\ row[s].group = req[r].group
                                                   /\ row[s].attempt = NextAttempt(r) - 1
<1> DEFINE G == {t \in Owned : row[t].group = req[r].group}
           M == {row[s].attempt : s \in G} \union {1}
<1>1. G \in SUBSET Scans /\ \A s \in G : row[s].attempt \in Nat
  BY DEF Owned, TypeOK, Row
<1>2. Max(M) \in M /\ \A x \in M : Max(M) >= x
  BY <1>1, MaxAttempt
<1>3. NextAttempt(r) = Max(M) + 1
  BY DEF NextAttempt
<1> HIDE DEF M
<1>4. Max(M) \in Nat /\ Max(M) >= 1
  BY <1>1, <1>2 DEF M
<1>5. \A s \in G : row[s].attempt <= Max(M)
  BY <1>1, <1>2 DEF M
<1>6. Max(M) = 1 \/ \E s \in G : row[s].attempt = Max(M)
  BY <1>2 DEF M
<1> QED BY <1>1, <1>3, <1>4, <1>5, <1>6

-----------------------------------------------------------------------------
(* Types *)

LEMMA TypeInit == Init => TypeOK
  BY DEF Init, TypeOK, Row, NoRow, Request, IdleRequest

LEMMA TypeStep == TypeOK /\ [Next]_vars => TypeOK'
<1> SUFFICES ASSUME TypeOK, [Next]_vars PROVE TypeOK'
  OBVIOUS
<1>1. ASSUME NEW r \in Requests, NEW s \in Scans, CanStartScan(r, s) PROVE TypeOK'
  BY <1>1 DEF CanStartScan, TypeOK, Request
<1>2. ASSUME NEW r \in Requests, SaveUpload(r) PROVE TypeOK'
  BY <1>2 DEF SaveUpload, Goto, TypeOK, Request
<1>3. ASSUME NEW r \in Requests, InsertUpload(r) PROVE TypeOK'
  <2>1. IdleRequest \in Request
    BY DEF IdleRequest, Request
  <2>2. \A s \in Scans : FirstRow(s) \in Row
    BY DEF FirstRow, Row
  <2>3. row' \in [Scans -> Row]
    BY <1>3, <2>2 DEF InsertUpload, TypeOK
  <2> QED BY <1>3, <2>1, <2>3 DEF InsertUpload, End, TypeOK
<1>4. ASSUME NEW r \in Requests, Abort(r) PROVE TypeOK'
  BY <1>4 DEF Abort, End, TypeOK, Request, IdleRequest
<1>5. ASSUME NEW r \in Requests, NEW b \in Scans, LoadFailedScan(r, b) PROVE TypeOK'
  BY <1>5 DEF LoadFailedScan, IdleRequest, TypeOK, Request, Row
<1>6. ASSUME NEW r \in Requests, CheckMedia(r) PROVE TypeOK'
  BY <1>6 DEF CheckMedia, Goto, End, TypeOK, Request, IdleRequest
<1>7. ASSUME NEW r \in Requests, NumberAttempt(r) PROVE TypeOK'
  BY <1>7, NextAttemptIsNew DEF NumberAttempt, TypeOK, Request
<1>8. ASSUME NEW r \in Requests, NEW s \in Scans, InsertRetry(r, s) PROVE TypeOK'
  <2>1. IdleRequest \in Request
    BY DEF IdleRequest, Request
  <2>2. RetryRow(r) \in Row
    BY DEF RetryRow, Row, TypeOK, Request
  <2> QED BY <1>8, <2>1, <2>2 DEF InsertRetry, End, TypeOK
<1>9. ASSUME NEW s \in Scans, Settle(s) \/ RequeueScan(s) PROVE TypeOK'
  BY <1>9 DEF Settle, RequeueScan, TypeOK, Row
<1>10. ASSUME NEW s \in Scans, LoseFile(s) PROVE TypeOK'
  BY <1>10 DEF LoseFile, TypeOK
<1>11. CASE DeleteScans
  <2>1. NoRow("deleted") \in Row
    BY DEF NoRow, Row
  <2> QED BY <1>11, <2>1 DEF DeleteScans, TypeOK
<1>12. CASE DeleteUser
  BY <1>12 DEF DeleteUser, TypeOK, Row
<1>13. CASE UNCHANGED vars
  BY <1>13 DEF vars, TypeOK
<1> QED BY <1>1, <1>2, <1>3, <1>4, <1>5, <1>6, <1>7, <1>8, <1>9, <1>10, <1>11, <1>12, <1>13
        DEF Next, RequestStep

\* Every reachable state is well typed.
THEOREM TypeCorrect == Spec => []TypeOK
  BY TypeInit, TypeStep, PTL DEF Spec

-----------------------------------------------------------------------------
(* Ids, owners and files *)

\* What the steps of Next do to rows: an outcome or a requeue changes nothing
\* but the status.
LEMMA StatusStep ==
  ASSUME TypeOK, NEW s \in Scans, Settle(s) \/ RequeueScan(s)
  PROVE  /\ UNCHANGED <<file, req, account>>
         /\ \A t \in Scans :
              /\ Exists(t)' <=> Exists(t)
              /\ row'[t].status = "none" <=> row[t].status = "none"
              /\ row'[t].owned = row[t].owned /\ row'[t].group = row[t].group
              /\ row'[t].of = row[t].of /\ row'[t].attempt = row[t].attempt
              /\ row'[t].retry = row[t].retry
  BY DEF Settle, RequeueScan, Exists, TypeOK, Row

\* The columns of new rows and the locals of an idle request.
LEMMA NewRecords ==
  /\ \A s : /\ FirstRow(s).status = "pending" /\ FirstRow(s).owned /\ FirstRow(s).group = s
            /\ FirstRow(s).of = NoScan /\ FirstRow(s).attempt = 1 /\ FirstRow(s).retry = FALSE
  /\ \A r : /\ RetryRow(r).status = "pending" /\ RetryRow(r).owned
            /\ RetryRow(r).group = req[r].group /\ RetryRow(r).of = req[r].base
            /\ RetryRow(r).attempt = req[r].attempt /\ RetryRow(r).retry = TRUE
  /\ NoRow("deleted").status = "deleted"
  /\ IdleRequest.pc = "idle" /\ IdleRequest.scan \notin Scans
  BY ScanAttemptsAssumption DEF FirstRow, RetryRow, NoRow, IdleRequest

\* An insertion adds its row, unless the user is gone, and ends the request.
LEMMA InsertUploadStep ==
  ASSUME TypeOK, NEW r \in Requests, InsertUpload(r), req[r].scan \in Scans
  PROVE  /\ UNCHANGED <<file, account>>
         /\ req[r].pc = "insert"
         /\ \A q \in Requests : req'[q] = IF q = r THEN IdleRequest ELSE req[q]
         /\ account = "gone" => row' = row
         /\ account # "gone" => row'[req[r].scan] = FirstRow(req[r].scan)
         /\ \A s \in Scans : s # req[r].scan => row'[s] = row[s]
         /\ row'[req[r].scan] \in {row[req[r].scan], FirstRow(req[r].scan)}
<1>1. row \in [Scans -> Row]
  BY DEF TypeOK
<1>2. CASE account = "gone"
  BY <1>2 DEF InsertUpload, End, TypeOK
<1>3. CASE account # "gone"
  <2>1. row' = [row EXCEPT ![req[r].scan] = FirstRow(req[r].scan)]
    BY <1>3 DEF InsertUpload
  <2>2. /\ row'[req[r].scan] = FirstRow(req[r].scan)
        /\ \A s \in Scans : s # req[r].scan => row'[s] = row[s]
    BY <1>1, <2>1
  <2> QED BY <1>3, <2>2 DEF InsertUpload, End, TypeOK
<1> QED BY <1>2, <1>3

LEMMA InsertRetryStep ==
  ASSUME TypeOK, NEW r \in Requests, NEW s \in Scans, InsertRetry(r, s)
  PROVE  /\ UNCHANGED <<file, account>>
         /\ req[r].pc = "insert_retry" /\ row[s].status = "none"
         /\ \A q \in Requests : req[q].scan # s
         /\ \A q \in Requests : req'[q] = IF q = r THEN IdleRequest ELSE req[q]
         /\ account = "gone" => row' = row
         /\ account # "gone" => row'[s] = RetryRow(r)
         /\ \A t \in Scans : t # s => row'[t] = row[t]
         /\ row'[s] \in {row[s], RetryRow(r)}
<1>1. row \in [Scans -> Row]
  BY DEF TypeOK
<1>2. CASE account = "gone"
  BY <1>2 DEF InsertRetry, Unused, End, TypeOK
<1>3. CASE account # "gone"
  <2>1. row' = [row EXCEPT ![s] = RetryRow(r)]
    BY <1>3 DEF InsertRetry
  <2>2. row'[s] = RetryRow(r) /\ \A t \in Scans : t # s => row'[t] = row[t]
    BY <1>1, <2>1
  <2> QED BY <1>3, <2>2 DEF InsertRetry, Unused, End, TypeOK
<1> QED BY <1>2, <1>3

LEMMA DeleteScansStep ==
  ASSUME DeleteScans
  PROVE  /\ UNCHANGED <<file, req>> /\ account = "active" /\ account' = "emptied"
         /\ \A s \in Scans : row'[s] = IF s \in Owned THEN NoRow("deleted") ELSE row[s]
  BY DEF DeleteScans

LEMMA FreshInit == Init => IdsAreFresh /\ OwnedUntilGone /\ FilesAreStored
  BY DEF Init, IdsAreFresh, OwnedUntilGone, FilesAreStored, MediaIsStored, Exists, NoRow,
         IdleRequest, Uploading, Retrying

LEMMA FreshStep == TypeOK /\ IdsAreFresh /\ [Next]_vars => IdsAreFresh'
<1> SUFFICES ASSUME TypeOK, IdsAreFresh, [Next]_vars PROVE IdsAreFresh'
  OBVIOUS
<1> USE DEF IdsAreFresh, Uploading, Retrying, Exists
<1>0. \A s \in Scans : row[s].of \in Scans \union {NoScan}
  BY DEF TypeOK, Row
<1>1. ASSUME NEW r \in Requests, NEW s \in Scans, CanStartScan(r, s) PROVE IdsAreFresh'
  BY <1>1 DEF CanStartScan, Unused, TypeOK, Request
<1>2. ASSUME NEW r \in Requests, SaveUpload(r) PROVE IdsAreFresh'
  BY <1>2 DEF SaveUpload, Goto, TypeOK, Request
<1>3. ASSUME NEW r \in Requests, InsertUpload(r) PROVE IdsAreFresh'
  <2>1. /\ req[r].scan \in Scans /\ \A q \in Requests : q # r => req[q].scan # req[r].scan
        /\ \A q \in Requests : req'[q] = IF q = r THEN IdleRequest ELSE req[q]
    BY <1>3, InsertUploadStep DEF InsertUpload
  <2>2. \A s \in Scans :
          \/ row'[s] = row[s]
          \/ /\ s = req[r].scan /\ row'[s].status = "pending" /\ row'[s].group = s
             /\ row'[s].of = NoScan
    BY <1>3, <2>1, InsertUploadStep, NewRecords
  <2> QED BY <1>0, <2>1, <2>2, NewRecords
<1>4. ASSUME NEW r \in Requests, Abort(r) PROVE IdsAreFresh'
  BY <1>4, ScanAttemptsAssumption DEF Abort, End, TypeOK, Request, IdleRequest
<1>5. ASSUME NEW r \in Requests, NEW b \in Scans, LoadFailedScan(r, b) PROVE IdsAreFresh'
  BY <1>5, ScanAttemptsAssumption DEF LoadFailedScan, IdleRequest, TypeOK, Request, Row, Owned
<1>6. ASSUME NEW r \in Requests, CheckMedia(r) PROVE IdsAreFresh'
  BY <1>6, ScanAttemptsAssumption DEF CheckMedia, Goto, End, TypeOK, Request, IdleRequest
<1>7. ASSUME NEW r \in Requests, NumberAttempt(r) PROVE IdsAreFresh'
  BY <1>7 DEF NumberAttempt, TypeOK, Request
<1>8. ASSUME NEW r \in Requests, NEW s \in Scans, InsertRetry(r, s) PROVE IdsAreFresh'
  <2>1. /\ req[r].group \in Scans /\ row[req[r].group].status # "none"
        /\ req[r].base \in Scans /\ row[req[r].base].status # "none"
        /\ row[s].status = "none" /\ \A q \in Requests : req[q].scan # s
        /\ \A q \in Requests : req'[q] = IF q = r THEN IdleRequest ELSE req[q]
    BY <1>8, InsertRetryStep
  <2>2. \A t \in Scans :
          \/ row'[t] = row[t]
          \/ /\ t = s /\ row'[t].status = "pending" /\ row'[t].group = req[r].group
             /\ row'[t].of = req[r].base
    BY <1>8, InsertRetryStep, NewRecords
  <2> QED BY <1>0, <2>1, <2>2, NewRecords
<1>9. ASSUME NEW s \in Scans, Settle(s) \/ RequeueScan(s) PROVE IdsAreFresh'
  <2>1. /\ req' = req
        /\ \A t \in Scans : Exists(t)' => /\ Exists(t) /\ row'[t].group = row[t].group
                                         /\ row'[t].of = row[t].of
    BY <1>9, StatusStep
  <2>2. \A t \in Scans : row'[t].status = "none" <=> row[t].status = "none"
    BY <1>9, StatusStep
  <2> HIDE DEF Exists
  <2> QED BY <1>0, <2>1, <2>2
<1>10. ASSUME NEW s \in Scans, LoseFile(s) PROVE IdsAreFresh'
  BY <1>10 DEF LoseFile
<1>11. CASE DeleteScans
  <2>1. req' = req /\ \A s \in Scans : row'[s] = row[s] \/ row'[s].status = "deleted"
    BY <1>11, DeleteScansStep DEF NoRow
  <2>2. \A s \in Scans : row[s].status # "none" => row'[s].status # "none"
    BY <2>1
  <2>3. \A s \in Scans : row[s].status = "none" => row'[s].status = "none"
    BY <1>11, DeleteScansStep DEF Owned
  <2> QED BY <1>0, <2>1, <2>2, <2>3
<1>12. CASE DeleteUser
  BY <1>12 DEF DeleteUser, TypeOK, Row
<1>13. CASE UNCHANGED vars
  BY <1>13 DEF vars
<1> QED BY <1>1, <1>2, <1>3, <1>4, <1>5, <1>6, <1>7, <1>8, <1>9, <1>10, <1>11, <1>12, <1>13
        DEF Next, RequestStep

LEMMA OwnedStep == TypeOK /\ OwnedUntilGone /\ [Next]_vars => OwnedUntilGone'
<1> SUFFICES ASSUME TypeOK, OwnedUntilGone, [Next]_vars PROVE OwnedUntilGone'
  OBVIOUS
<1> USE DEF OwnedUntilGone, Exists
<1>1. CASE UNCHANGED <<row, account>>
  BY <1>1
<1>2. ASSUME NEW r \in Requests, InsertUpload(r) PROVE OwnedUntilGone'
  BY <1>2 DEF InsertUpload, FirstRow, TypeOK
<1>3. ASSUME NEW r \in Requests, NEW s \in Scans, InsertRetry(r, s) PROVE OwnedUntilGone'
  BY <1>3 DEF InsertRetry, RetryRow, TypeOK
<1>4. ASSUME NEW s \in Scans, Settle(s) \/ RequeueScan(s) PROVE OwnedUntilGone'
  BY <1>4, StatusStep
<1>5. CASE DeleteScans
  BY <1>5 DEF DeleteScans, NoRow, Owned
<1>6. CASE DeleteUser
  BY <1>6 DEF DeleteUser
<1> QED BY <1>1, <1>2, <1>3, <1>4, <1>5, <1>6
        DEF Next, RequestStep, vars, CanStartScan, SaveUpload, Abort, LoadFailedScan, CheckMedia,
            NumberAttempt, LoseFile

LEMMA FilesStep == TypeOK /\ IdsAreFresh /\ FilesAreStored /\ [Next]_vars => FilesAreStored'
<1> SUFFICES ASSUME TypeOK, IdsAreFresh, FilesAreStored, [Next]_vars PROVE FilesAreStored'
  OBVIOUS
<1> USE DEF FilesAreStored, MediaIsStored, Uploading, Retrying, Exists
<1>1. ASSUME NEW r \in Requests, NEW s \in Scans, CanStartScan(r, s) PROVE FilesAreStored'
  BY <1>1 DEF CanStartScan, TypeOK, Request
<1>2. ASSUME NEW r \in Requests, SaveUpload(r) PROVE FilesAreStored'
  <2>1. req[r].scan \in Scans /\ \A f \in Scans : file[f] # "none" => file'[f] # "none"
    BY <1>2 DEF SaveUpload, IdsAreFresh, TypeOK
  <2>2. file'[req[r].scan] # "none"
    BY <1>2, <2>1 DEF SaveUpload, TypeOK
  <2> QED BY <1>2, <2>1, <2>2 DEF SaveUpload, Goto, TypeOK, Request, IdsAreFresh
<1>3. ASSUME NEW r \in Requests, InsertUpload(r) PROVE FilesAreStored'
  <2>1. /\ req[r].scan \in Scans /\ file[req[r].scan] # "none" /\ file' = file
        /\ \A q \in Requests : req'[q] = IF q = r THEN IdleRequest ELSE req[q]
    BY <1>3, InsertUploadStep DEF IdsAreFresh, InsertUpload
  <2>2. \A s \in Scans :
          \/ row'[s] = row[s]
          \/ s = req[r].scan /\ row'[s].group = s
    BY <1>3, <2>1, InsertUploadStep, NewRecords
  <2> QED BY <2>1, <2>2, NewRecords
<1>4. ASSUME NEW r \in Requests, Abort(r) PROVE FilesAreStored'
  BY <1>4 DEF Abort, End, TypeOK, IdleRequest
<1>5. ASSUME NEW r \in Requests, NEW b \in Scans, LoadFailedScan(r, b) PROVE FilesAreStored'
  BY <1>5 DEF LoadFailedScan, IdleRequest, TypeOK, Owned
<1>6. ASSUME NEW r \in Requests, CheckMedia(r) \/ NumberAttempt(r) PROVE FilesAreStored'
  BY <1>6 DEF CheckMedia, NumberAttempt, Goto, End, TypeOK, Request, IdleRequest
<1>7. ASSUME NEW r \in Requests, NEW s \in Scans, InsertRetry(r, s) PROVE FilesAreStored'
  <2>1. /\ file[req[r].group] # "none" /\ file' = file
        /\ \A q \in Requests : req'[q] = IF q = r THEN IdleRequest ELSE req[q]
    BY <1>7, InsertRetryStep
  <2>2. \A t \in Scans : row'[t] = row[t] \/ row'[t].group = req[r].group
    BY <1>7, InsertRetryStep, NewRecords
  <2> QED BY <2>1, <2>2, NewRecords
<1>8. ASSUME NEW s \in Scans, Settle(s) \/ RequeueScan(s) PROVE FilesAreStored'
  BY <1>8, StatusStep
<1>9. ASSUME NEW s \in Scans, LoseFile(s) PROVE FilesAreStored'
  <2>1. \A f : file[f] # "none" /\ f \in Scans => file'[f] # "none"
    BY <1>9 DEF LoseFile, TypeOK
  <2> QED BY <1>9, <2>1 DEF LoseFile, IdsAreFresh
<1>10. CASE DeleteScans \/ DeleteUser
  BY <1>10 DEF DeleteScans, DeleteUser, NoRow, TypeOK, Row
<1>11. CASE UNCHANGED vars
  BY <1>11 DEF vars
<1> QED BY <1>1, <1>2, <1>3, <1>4, <1>5, <1>6, <1>7, <1>8, <1>9, <1>10, <1>11
        DEF Next, RequestStep

\* A row, a retry's too, never names a file that was not stored before it: the
\* INSERT follows storage.saveUpload, and a retry copies a key that was in use.
THEOREM MediaStaysStored == Spec => []MediaIsStored
<1>1. Init => TypeOK /\ IdsAreFresh /\ FilesAreStored
  BY TypeInit, FreshInit
<1>2. TypeOK /\ IdsAreFresh /\ FilesAreStored /\ [Next]_vars
        => (TypeOK /\ IdsAreFresh /\ FilesAreStored)'
  BY TypeStep, FreshStep, FilesStep
<1>3. FilesAreStored => MediaIsStored
  BY DEF FilesAreStored
<1> QED BY <1>1, <1>2, <1>3, PTL DEF Spec

-----------------------------------------------------------------------------
(* The quota *)

\* An insertion of an upload adds one billable row at most.
LEMMA BillableAfterUpload ==
  ASSUME TypeOK, IdsAreFresh, NEW r \in Requests, InsertUpload(r)
  PROVE  Cardinality(Billable') <= Cardinality(Billable) + 1
<1>1. req[r].scan \in Scans
  BY DEF IdsAreFresh, Uploading, InsertUpload
<1>2. Billable' \subseteq Billable \union {req[r].scan}
  BY <1>1, InsertUploadStep DEF Billable, Owned, Exists
<1>3. Billable \union {req[r].scan} \in SUBSET Scans /\ Billable \in SUBSET Scans
  BY <1>1 DEF Billable, Owned
<1>4. IsFiniteSet(Billable) /\ IsFiniteSet(Billable \union {req[r].scan})
  BY <1>3, Counts
<1>5. Cardinality(Billable') <= Cardinality(Billable \union {req[r].scan})
  BY <1>2, <1>4, FS_Subset
<1>6. Cardinality(Billable \union {req[r].scan}) <= Cardinality(Billable) + 1
  <2>1. CASE req[r].scan \in Billable
    BY <1>3, <1>4, <2>1, Counts, FS_AddElement
  <2>2. CASE req[r].scan \notin Billable
    BY <1>3, <1>4, <2>2, Counts, FS_AddElement
  <2> QED BY <2>1, <2>2
<1>7. Billable' \in SUBSET Scans
  BY <1>2, <1>3
<1> QED BY <1>3, <1>5, <1>6, <1>7, Counts

\* No other step adds one: a retry is not billable.
LEMMA BillableOtherwise ==
  ASSUME TypeOK, [Next]_vars, \A r \in Requests : ~InsertUpload(r)
  PROVE  Cardinality(Billable') <= Cardinality(Billable)
<1> USE DEF Billable, Owned, Exists
<1>1. CASE UNCHANGED row
  BY <1>1, Counts
<1>2. ASSUME NEW r \in Requests, NEW s \in Scans, InsertRetry(r, s) PROVE Billable' \subseteq Billable
  <2>1. row'[s] = row[s] \/ row'[s].retry = TRUE
    BY <1>2, InsertRetryStep, NewRecords
  <2> QED BY <1>2, <2>1, InsertRetryStep
<1>3. ASSUME NEW s \in Scans, Settle(s) \/ RequeueScan(s) PROVE Billable' \subseteq Billable
  BY <1>3, StatusStep
<1>4. CASE DeleteScans
  <2>1. Billable' \subseteq Billable
    BY <1>4 DEF DeleteScans, NoRow
  <2> QED BY <2>1, FS_Subset, Counts
<1>5. CASE DeleteUser
  <2>1. Billable' \subseteq Billable
    BY <1>5 DEF DeleteUser, TypeOK
  <2> QED BY <2>1, FS_Subset, Counts
<1>6. Billable' \subseteq Billable => Cardinality(Billable') <= Cardinality(Billable)
  BY FS_Subset, Counts
<1> QED BY <1>1, <1>2, <1>3, <1>4, <1>5, <1>6
        DEF Next, RequestStep, vars, CanStartScan, SaveUpload, Abort, LoadFailedScan, CheckMedia,
            NumberAttempt, LoseFile

\* Only the check of the quota starts an upload; its insertion ends it.
LEMMA UploadsStep ==
  ASSUME TypeOK, [Next]_vars
  PROVE  /\ \/ UploadsInFlight' \subseteq UploadsInFlight
            \/ MayStartScan /\ UNCHANGED row
         /\ \A r \in Requests : InsertUpload(r) => UploadsInFlight' = UploadsInFlight \ {r}
<1> USE DEF UploadsInFlight, Uploading
<1>1. ASSUME NEW r \in Requests, InsertUpload(r) PROVE UploadsInFlight' = UploadsInFlight \ {r}
  BY <1>1 DEF InsertUpload, End, IdleRequest, TypeOK
<1>2. ASSUME NEW r \in Requests, SaveUpload(r) \/ Abort(r) \/ CheckMedia(r) \/ NumberAttempt(r)
      PROVE  UploadsInFlight' \subseteq UploadsInFlight
  BY <1>2 DEF SaveUpload, Abort, CheckMedia, NumberAttempt, Goto, End, IdleRequest, TypeOK, Request
<1>3. ASSUME NEW r \in Requests, NEW b \in Scans, LoadFailedScan(r, b)
      PROVE  UploadsInFlight' \subseteq UploadsInFlight
  BY <1>3 DEF LoadFailedScan, IdleRequest, TypeOK
<1>4. ASSUME NEW r \in Requests, NEW s \in Scans, InsertRetry(r, s)
      PROVE  UploadsInFlight' \subseteq UploadsInFlight
  BY <1>4 DEF InsertRetry, End, IdleRequest, TypeOK
<1>5. ASSUME NEW r \in Requests, NEW s \in Scans, CanStartScan(r, s)
      PROVE  MayStartScan /\ UNCHANGED row
  BY <1>5 DEF CanStartScan
<1>6. UNCHANGED req => UploadsInFlight' \subseteq UploadsInFlight
  OBVIOUS
<1> QED BY <1>1, <1>2, <1>3, <1>4, <1>5, <1>6
        DEF Next, RequestStep, vars, Settle, RequeueScan, LoseFile, DeleteScans, DeleteUser

LEMMA QuotaInit == Init => QuotaIsPromised
<1> SUFFICES ASSUME Init PROVE QuotaIsPromised
  OBVIOUS
<1>1. Billable = {} /\ UploadsInFlight = {}
  BY DEF Init, Billable, Owned, Exists, NoRow, UploadsInFlight, Uploading, IdleRequest
<1> QED BY <1>1, Counts, FS_EmptySet, ScanAttemptsAssumption DEF QuotaIsPromised, QuotaOvershoot

LEMMA QuotaStep == TypeOK /\ IdsAreFresh /\ QuotaIsPromised /\ [Next]_vars => QuotaIsPromised'
<1> SUFFICES ASSUME TypeOK, IdsAreFresh, QuotaIsPromised, [Next]_vars PROVE QuotaIsPromised'
  OBVIOUS
<1> DEFINE B == Cardinality(Billable)
           U == Cardinality(UploadsInFlight)
           N == Cardinality(Requests)
<1>1. /\ Billable \in SUBSET Scans /\ Billable' \in SUBSET Scans
      /\ UploadsInFlight \in SUBSET Requests /\ UploadsInFlight' \in SUBSET Requests
  BY DEF Billable, Owned, UploadsInFlight
<1>2. /\ B \in Nat /\ B' \in Nat /\ U \in Nat /\ U' \in Nat /\ N \in Nat \ {0}
      /\ U <= N /\ U' <= N /\ ScanLimit \in Nat
  BY <1>1, Counts, ScanAttemptsAssumption
<1>3. B <= ScanLimit + N - 1 /\ (UploadsInFlight # {} => B + U <= ScanLimit + N - 1)
  BY DEF QuotaIsPromised, QuotaOvershoot
<1>4. SUFFICES B' <= ScanLimit + N - 1 /\ (UploadsInFlight' # {} => B' + U' <= ScanLimit + N - 1)
  BY DEF QuotaIsPromised, QuotaOvershoot
<1>5. CASE \E r \in Requests : InsertUpload(r)
  <2>1. PICK r \in Requests : InsertUpload(r)
    BY <1>5
  <2>2. r \in UploadsInFlight /\ UploadsInFlight' = UploadsInFlight \ {r}
    BY <2>1, UploadsStep DEF InsertUpload, UploadsInFlight, Uploading
  <2>3. U' = U - 1
    BY <1>1, <2>2, Counts, FS_RemoveElement
  <2>4. B' <= B + 1
    BY <2>1, BillableAfterUpload
  <2> QED BY <1>2, <1>3, <2>2, <2>3, <2>4
<1>6. CASE \A r \in Requests : ~InsertUpload(r)
  <2>1. B' <= B
    BY <1>6, BillableOtherwise
  <2>2. CASE UploadsInFlight' \subseteq UploadsInFlight
    <3>1. U' <= U
      BY <1>1, <2>2, Counts, FS_Subset
    <3> QED BY <1>2, <1>3, <2>1, <2>2, <3>1
  <2>3. CASE MayStartScan
    <3>1. B < ScanLimit
      BY <2>3 DEF MayStartScan
    <3> QED BY <1>2, <2>1, <3>1
  <2> QED BY <2>2, <2>3, UploadsStep
<1> QED BY <1>5, <1>6

\* canStartScan's stale count lets a user pass the limit by one billable scan at
\* most for each further request in flight, whatever the limit.
THEOREM QuotaBounded == Spec => []QuotaOvershoot
<1>1. Init => TypeOK /\ IdsAreFresh /\ QuotaIsPromised
  BY TypeInit, FreshInit, QuotaInit
<1>2. TypeOK /\ IdsAreFresh /\ QuotaIsPromised /\ [Next]_vars
        => (TypeOK /\ IdsAreFresh /\ QuotaIsPromised)'
  BY TypeStep, FreshStep, QuotaStep
<1>3. QuotaIsPromised => QuotaOvershoot
  BY DEF QuotaIsPromised
<1> QED BY <1>1, <1>2, <1>3, PTL DEF Spec

-----------------------------------------------------------------------------
(* Attempt numbers *)

\* Only an insertion adds a row to those that show as attempt n of group g: the
\* first of a group that no row is in yet, or the one a request claims.
LEMMA AttemptsStep ==
  ASSUME TypeOK, IdsAreFresh, [Next]_vars, NEW g \in Scans, NEW n \in Nat
  PROVE  \/ AttemptsOf(g, n)' \subseteq AttemptsOf(g, n)
         \/ /\ account # "gone" /\ n = 1
            /\ \E r \in Requests : InsertUpload(r) /\ AttemptsOf(g, n)' \subseteq {req[r].scan}
         \/ /\ account # "gone"
            /\ \E r \in Requests, s \in Scans :
                 /\ InsertRetry(r, s) /\ r \in ClaimsOf(g, n)
                 /\ AttemptsOf(g, n)' \subseteq AttemptsOf(g, n) \union {s}
<1> USE DEF AttemptsOf, Exists
<1>1. CASE UNCHANGED row
  BY <1>1
<1>2. ASSUME NEW r \in Requests, InsertUpload(r)
      PROVE  \/ AttemptsOf(g, n)' \subseteq AttemptsOf(g, n)
             \/ account # "gone" /\ n = 1 /\ AttemptsOf(g, n)' \subseteq {req[r].scan}
  <2> DEFINE c == req[r].scan
  <2>1. c \in Scans /\ row[c].status = "none"
    BY <1>2 DEF IdsAreFresh, Uploading, InsertUpload
  <2>2. \A s \in Scans : s # c => row'[s] = row[s]
    BY <1>2, <2>1, InsertUploadStep
  <2>3. CASE row'[c] = row[c]
    BY <2>2, <2>3
  <2>4. CASE row'[c] # row[c]
    <3>1. account # "gone" /\ row'[c].group = c /\ row'[c].attempt = 1
      BY <1>2, <2>1, <2>4, InsertUploadStep, NewRecords
    <3>2. CASE g = c /\ n = 1
      <4>1. \A s \in Scans : Exists(s) => row[s].group # c
        BY <2>1 DEF IdsAreFresh
      <4> QED BY <2>2, <3>1, <3>2, <4>1
    <3>3. CASE ~(g = c /\ n = 1)
      BY <2>2, <3>1, <3>3
    <3> QED BY <3>2, <3>3
  <2> QED BY <2>3, <2>4
<1>3. ASSUME NEW r \in Requests, NEW s \in Scans, InsertRetry(r, s)
      PROVE  \/ AttemptsOf(g, n)' \subseteq AttemptsOf(g, n)
             \/ /\ account # "gone" /\ r \in ClaimsOf(g, n)
                /\ AttemptsOf(g, n)' \subseteq AttemptsOf(g, n) \union {s}
  <2>1. \A t \in Scans : t # s => row'[t] = row[t]
    BY <1>3, InsertRetryStep
  <2>2. CASE row'[s] = row[s]
    BY <2>1, <2>2
  <2>3. CASE row'[s] # row[s]
    <3>1. /\ account # "gone" /\ req[r].pc = "insert_retry"
          /\ row'[s].group = req[r].group /\ row'[s].attempt = req[r].attempt
      BY <1>3, <2>3, InsertRetryStep, NewRecords
    <3>2. CASE g = req[r].group /\ n = req[r].attempt
      BY <2>1, <3>1, <3>2 DEF ClaimsOf
    <3>3. CASE ~(g = req[r].group /\ n = req[r].attempt)
      BY <2>1, <3>1, <3>3
    <3> QED BY <3>2, <3>3
  <2> QED BY <2>2, <2>3
<1>4. ASSUME NEW s \in Scans, Settle(s) \/ RequeueScan(s)
      PROVE  AttemptsOf(g, n)' \subseteq AttemptsOf(g, n)
  BY <1>4, StatusStep
<1>5. CASE DeleteScans
  BY <1>5 DEF DeleteScans, NoRow
<1>6. CASE DeleteUser
  BY <1>6 DEF DeleteUser, TypeOK, Row
<1> QED BY <1>1, <1>2, <1>3, <1>4, <1>5, <1>6
        DEF Next, RequestStep, vars, CanStartScan, SaveUpload, Abort, LoadFailedScan, CheckMedia,
            NumberAttempt, LoseFile

\* Only the SELECT of the maximum makes a claim, and only on a number above all
\* of the group; an insertion gives its claim up.
LEMMA ClaimsStep ==
  ASSUME TypeOK, [Next]_vars, NEW g \in Scans, NEW n \in Nat
  PROVE  /\ \/ ClaimsOf(g, n)' \subseteq ClaimsOf(g, n)
            \/ \E r \in Requests : NumberAttempt(r) /\ g = req[r].group /\ n = NextAttempt(r)
         /\ \A r \in Requests, s \in Scans : InsertRetry(r, s) => ClaimsOf(g, n)' = ClaimsOf(g, n) \ {r}
<1> USE DEF ClaimsOf
<1>1. ASSUME NEW r \in Requests, NEW s \in Scans, InsertRetry(r, s)
      PROVE  ClaimsOf(g, n)' = ClaimsOf(g, n) \ {r}
  BY <1>1 DEF InsertRetry, End, IdleRequest, TypeOK
<1>2. ASSUME NEW r \in Requests, NumberAttempt(r)
      PROVE  ClaimsOf(g, n)' \subseteq ClaimsOf(g, n) \/ (g = req[r].group /\ n = NextAttempt(r))
  BY <1>2 DEF NumberAttempt, TypeOK, Request
<1>3. ASSUME NEW r \in Requests,
             SaveUpload(r) \/ InsertUpload(r) \/ Abort(r) \/ CheckMedia(r)
      PROVE  ClaimsOf(g, n)' \subseteq ClaimsOf(g, n)
  BY <1>3 DEF SaveUpload, InsertUpload, Abort, CheckMedia, Goto, End, IdleRequest, TypeOK, Request
<1>4. ASSUME NEW r \in Requests, NEW s \in Scans, CanStartScan(r, s) \/ LoadFailedScan(r, s)
      PROVE  ClaimsOf(g, n)' \subseteq ClaimsOf(g, n)
  BY <1>4 DEF CanStartScan, LoadFailedScan, IdleRequest, TypeOK, Request
<1>5. UNCHANGED req => ClaimsOf(g, n)' \subseteq ClaimsOf(g, n)
  OBVIOUS
<1> QED BY <1>1, <1>2, <1>3, <1>4, <1>5
        DEF Next, RequestStep, vars, Settle, RequeueScan, LoseFile, DeleteScans, DeleteUser

\* What a claim says of its number.
LEMMA ClaimedNumber ==
  ASSUME TypeOK, [Next]_vars, \A r \in Requests : req[r].pc = "insert_retry" => req[r].attempt > 1
  PROVE  \A r \in Requests : req'[r].pc = "insert_retry" => req'[r].attempt > 1
<1>1. ASSUME NEW r \in Requests, NumberAttempt(r)
      PROVE  \A q \in Requests : req'[q].pc = "insert_retry" => req'[q].attempt > 1
  BY <1>1, NextAttemptIsNew DEF NumberAttempt, TypeOK, Request
<1>2. ASSUME NEW r \in Requests,
             SaveUpload(r) \/ InsertUpload(r) \/ Abort(r) \/ CheckMedia(r)
      PROVE  \A q \in Requests : req'[q].pc = "insert_retry" => req'[q].attempt > 1
  BY <1>2 DEF SaveUpload, InsertUpload, Abort, CheckMedia, Goto, End, IdleRequest, TypeOK, Request
<1>3. ASSUME NEW r \in Requests, NEW s \in Scans,
             CanStartScan(r, s) \/ LoadFailedScan(r, s) \/ InsertRetry(r, s)
      PROVE  \A q \in Requests : req'[q].pc = "insert_retry" => req'[q].attempt > 1
  <2>1. CASE CanStartScan(r, s)
    BY <2>1 DEF CanStartScan, TypeOK, Request
  <2>2. CASE LoadFailedScan(r, s)
    BY <2>2 DEF LoadFailedScan, IdleRequest, TypeOK
  <2>3. CASE InsertRetry(r, s)
    BY <2>3 DEF InsertRetry, End, IdleRequest, TypeOK
  <2> QED BY <1>3, <2>1, <2>2, <2>3
<1> QED BY <1>1, <1>2, <1>3
        DEF Next, RequestStep, vars, Settle, RequeueScan, LoseFile, DeleteScans, DeleteUser

LEMMA NumbersInit == Init => NumbersAreClaimed
<1> SUFFICES ASSUME Init PROVE NumbersAreClaimed
  OBVIOUS
<1>1. \A g, n : AttemptsOf(g, n) = {}
  BY DEF Init, AttemptsOf, Exists, NoRow
<1>2. \A r \in Requests : req[r].pc # "insert_retry"
  BY DEF Init, IdleRequest
<1> QED BY <1>1, <1>2, Counts, FS_EmptySet DEF NumbersAreClaimed, AttemptClashes

LEMMA NumbersStep ==
  TypeOK /\ IdsAreFresh /\ OwnedUntilGone /\ NumbersAreClaimed /\ [Next]_vars => NumbersAreClaimed'
<1> SUFFICES ASSUME TypeOK, IdsAreFresh, OwnedUntilGone, NumbersAreClaimed, [Next]_vars
             PROVE  NumbersAreClaimed'
  OBVIOUS
<1> DEFINE N == Cardinality(Requests)
           A(g, n) == Cardinality(AttemptsOf(g, n))
           C(g, n) == Cardinality(ClaimsOf(g, n))
           Bounded(g, n) == AttemptsOf(g, n) # {} => A(g, n) + C(g, n) <= N
<1>1. Cardinality(Scans) \in Nat /\ N \in Nat \ {0}
  BY Counts
<1>2. \A g, n : /\ AttemptsOf(g, n) \in SUBSET Scans /\ AttemptsOf(g, n)' \in SUBSET Scans
                 /\ ClaimsOf(g, n) \in SUBSET Requests /\ ClaimsOf(g, n)' \in SUBSET Requests
  BY DEF AttemptsOf, ClaimsOf
<1>3. \A g, n : /\ A(g, n) \in Nat /\ A(g, n)' \in Nat
                 /\ C(g, n) \in Nat /\ C(g, n)' \in Nat /\ C(g, n) <= N /\ C(g, n)' <= N
  BY <1>2, Counts
<1>4. \A g, n : AttemptsOf(g, n)' \subseteq AttemptsOf(g, n) => A(g, n)' <= A(g, n)
  BY <1>2, Counts, FS_Subset
<1>5. \A g, n : ClaimsOf(g, n)' \subseteq ClaimsOf(g, n) => C(g, n)' <= C(g, n)
  BY <1>2, Counts, FS_Subset
<1>6. ASSUME NEW g \in Scans, NEW n \in 1..Cardinality(Scans) + 1, account # "gone"
      PROVE  Bounded(g, n)'
  <2>1. n \in Nat /\ Bounded(g, n)
    BY <1>1, <1>6 DEF NumbersAreClaimed
  <2>2. CASE AttemptsOf(g, n)' \subseteq AttemptsOf(g, n)
    <3>1. CASE ClaimsOf(g, n)' \subseteq ClaimsOf(g, n)
      BY <1>1, <1>3, <1>4, <1>5, <2>1, <2>2, <3>1
    <3>2. CASE \E r \in Requests : NumberAttempt(r) /\ g = req[r].group /\ n = NextAttempt(r)
      <4>1. PICK r \in Requests : NumberAttempt(r) /\ g = req[r].group /\ n = NextAttempt(r)
        BY <3>2
      <4>2. \A s \in Owned : row[s].group = g => row[s].attempt # n
        BY <2>1, <4>1, NextAttemptIsNew DEF TypeOK, Row, Owned
      <4>3. AttemptsOf(g, n) = {}
        BY <1>6, <4>2 DEF AttemptsOf, OwnedUntilGone, Owned
      <4> QED BY <2>2, <4>3
    <3> QED BY <2>1, <3>1, <3>2, ClaimsStep
  <2>3. CASE /\ n = 1
             /\ \E r \in Requests : InsertUpload(r) /\ AttemptsOf(g, n)' \subseteq {req[r].scan}
    <3>1. PICK r \in Requests : InsertUpload(r) /\ AttemptsOf(g, n)' \subseteq {req[r].scan}
      BY <2>3
    <3>2. A(g, n)' <= 1
      BY <3>1, AtMostOne
    <3>3. ClaimsOf(g, n)' = {}
      BY <2>3, ClaimedNumber DEF ClaimsOf, NumbersAreClaimed
    <3> QED BY <1>1, <1>3, <3>2, <3>3, FS_EmptySet
  <2>4. CASE \E r \in Requests, s \in Scans :
               /\ InsertRetry(r, s) /\ r \in ClaimsOf(g, n)
               /\ AttemptsOf(g, n)' \subseteq AttemptsOf(g, n) \union {s}
    <3>1. PICK r \in Requests, s \in Scans :
               /\ InsertRetry(r, s) /\ r \in ClaimsOf(g, n)
               /\ AttemptsOf(g, n)' \subseteq AttemptsOf(g, n) \union {s}
      BY <2>4
    <3>2. C(g, n)' = C(g, n) - 1
      <4>1. ClaimsOf(g, n)' = ClaimsOf(g, n) \ {r}
        BY <2>1, <3>1, ClaimsStep
      <4> QED BY <1>2, <3>1, <4>1, Counts, FS_RemoveElement
    <3>3. CASE AttemptsOf(g, n) = {}
      <4>1. A(g, n)' <= 1
        BY <3>1, <3>3, AtMostOne
      <4> QED BY <1>1, <1>3, <3>2, <4>1
    <3>4. CASE AttemptsOf(g, n) # {}
      <4>1. A(g, n)' <= A(g, n) + 1
        <5> DEFINE Both == AttemptsOf(g, n) \union {s}
        <5>1. IsFiniteSet(Both) /\ Cardinality(Both) \in Nat
          BY <1>2, Counts
        <5>2. A(g, n)' <= Cardinality(Both)
          BY <3>1, <5>1, FS_Subset
        <5>3. s \in AttemptsOf(g, n) \/ Cardinality(Both) = A(g, n) + 1
          BY <1>2, Counts, FS_AddElement
        <5>4. s \in AttemptsOf(g, n) => Cardinality(Both) = A(g, n)
          BY <1>2, Counts, FS_AddElement
        <5> HIDE DEF Both
        <5> QED BY <1>3, <5>1, <5>2, <5>3, <5>4
      <4> QED BY <1>1, <1>3, <2>1, <3>2, <3>4, <4>1
    <3> QED BY <3>3, <3>4
  <2> QED BY <2>1, <2>2, <2>3, <2>4, AttemptsStep
<1>7. AttemptClashes'
  <2> SUFFICES ASSUME NEW g \in Scans, NEW n \in 1..Cardinality(Scans) PROVE A(g, n)' <= N
    BY DEF AttemptClashes
  <2>1. n \in 1..Cardinality(Scans) + 1 /\ n \in Nat /\ A(g, n) <= N
    BY <1>1 DEF NumbersAreClaimed, AttemptClashes
  <2>2. CASE account = "gone"
    <3>1. AttemptsOf(g, n)' \subseteq AttemptsOf(g, n)
      BY <2>1, <2>2, AttemptsStep
    <3> QED BY <1>1, <1>3, <1>4, <2>1, <3>1
  <2>3. CASE account # "gone"
    <3>1. Bounded(g, n)'
      BY <1>6, <2>1, <2>3
    <3>2. AttemptsOf(g, n)' = {} => A(g, n)' = 0
      BY FS_EmptySet
    <3> QED BY <1>1, <1>3, <3>1, <3>2
  <2> QED BY <2>2, <2>3
<1>8. account' # "gone" => account # "gone"
  BY DEF Next, RequestStep, vars, CanStartScan, SaveUpload, InsertUpload, Abort, LoadFailedScan,
         CheckMedia, NumberAttempt, InsertRetry, Settle, RequeueScan, LoseFile, DeleteScans,
         DeleteUser
<1>9. \A r \in Requests : req'[r].pc = "insert_retry" => req'[r].attempt > 1
  BY ClaimedNumber DEF NumbersAreClaimed
<1> QED BY <1>6, <1>7, <1>8, <1>9 DEF NumbersAreClaimed

\* However the SELECT of the maximum and the INSERT of several retries
\* interleave, no more rows of a group share a number than requests are in
\* flight together: one request never numbers two rows alike.
THEOREM ClashesBounded == Spec => []AttemptClashes
<1>1. Init => TypeOK /\ IdsAreFresh /\ OwnedUntilGone /\ NumbersAreClaimed
  BY TypeInit, FreshInit, NumbersInit
<1>2. TypeOK /\ IdsAreFresh /\ OwnedUntilGone /\ NumbersAreClaimed /\ [Next]_vars
        => (TypeOK /\ IdsAreFresh /\ OwnedUntilGone /\ NumbersAreClaimed)'
  BY TypeStep, FreshStep, OwnedStep, NumbersStep
<1>3. NumbersAreClaimed => AttemptClashes
  BY DEF NumbersAreClaimed
<1> QED BY <1>1, <1>2, <1>3, PTL DEF Spec

-----------------------------------------------------------------------------
(* Groups *)

SameColumns(s) ==
  /\ row'[s].group = row[s].group /\ row'[s].of = row[s].of
  /\ row'[s].attempt = row[s].attempt /\ row'[s].retry = row[s].retry

\* Rows are immutable but for their status and owner, and none comes back.
LEMMA RowsStep ==
  ASSUME TypeOK, IdsAreFresh, [Next]_vars, NEW s \in Scans
  PROVE  /\ Exists(s)' =>
              \/ Exists(s) /\ SameColumns(s)
              \/ /\ row[s].status = "none" /\ account # "gone"
                 /\ \E r \in Requests :
                      \/ InsertUpload(r) /\ s = req[r].scan /\ row'[s] = FirstRow(s)
                      \/ InsertRetry(r, s) /\ row'[s] = RetryRow(r)
         /\ account' = "active" /\ Exists(s) => Exists(s)'
<1> USE DEF SameColumns, Exists
<1>1. CASE UNCHANGED row
  BY <1>1
<1>2. ASSUME NEW r \in Requests, InsertUpload(r)
      PROVE  /\ \/ row'[s] = row[s]
                \/ row[s].status = "none" /\ account # "gone" /\ s = req[r].scan /\ row'[s] = FirstRow(s)
             /\ Exists(s) => Exists(s)'
  <2>1. req[r].scan \in Scans /\ row[req[r].scan].status = "none"
    BY <1>2 DEF IdsAreFresh, Uploading, InsertUpload
  <2>2. CASE s # req[r].scan
    BY <1>2, <2>1, <2>2, InsertUploadStep
  <2>3. CASE s = req[r].scan /\ account = "gone"
    BY <1>2, <2>1, <2>3, InsertUploadStep
  <2>4. CASE s = req[r].scan /\ account # "gone"
    BY <1>2, <2>1, <2>4, InsertUploadStep, NewRecords
  <2> QED BY <2>2, <2>3, <2>4
<1>3. ASSUME NEW r \in Requests, NEW t \in Scans, InsertRetry(r, t)
      PROVE  /\ \/ row'[s] = row[s]
                \/ row[s].status = "none" /\ account # "gone" /\ s = t /\ row'[s] = RetryRow(r)
             /\ Exists(s) => Exists(s)'
  <2>1. CASE s # t
    BY <1>3, <2>1, InsertRetryStep
  <2>2. CASE s = t /\ account = "gone"
    BY <1>3, <2>2, InsertRetryStep
  <2>3. CASE s = t /\ account # "gone"
    BY <1>3, <2>3, InsertRetryStep, NewRecords
  <2> QED BY <2>1, <2>2, <2>3
<1>4. ASSUME NEW t \in Scans, Settle(t) \/ RequeueScan(t)
      PROVE  (Exists(s)' <=> Exists(s)) /\ SameColumns(s)
  BY <1>4, StatusStep
<1>5. CASE DeleteScans
  BY <1>5 DEF DeleteScans, NoRow
<1>6. CASE DeleteUser
  BY <1>6 DEF DeleteUser, TypeOK, Row
<1> QED BY <1>1, <1>2, <1>3, <1>4, <1>5, <1>6
        DEF Next, RequestStep, vars, CanStartScan, SaveUpload, Abort, LoadFailedScan, CheckMedia,
            NumberAttempt, LoseFile

\* The account's row only goes, and goes after the scans.
LEMMA AccountStep ==
  ASSUME [Next]_vars
  PROVE  /\ account' = "active" => account = "active"
         /\ account' # "gone" => account # "gone"
  BY DEF Next, RequestStep, vars, CanStartScan, SaveUpload, InsertUpload, Abort, LoadFailedScan,
         CheckMedia, NumberAttempt, InsertRetry, Settle, RequeueScan, LoseFile, DeleteScans,
         DeleteUser

\* While the account is there, a number that is taken stays taken.
LEMMA AttemptsStay ==
  ASSUME TypeOK, IdsAreFresh, [Next]_vars, account' = "active", NEW g, NEW n, AttemptsOf(g, n) # {}
  PROVE  AttemptsOf(g, n)' # {}
<1>1. PICK s \in Scans : Exists(s) /\ row[s].group = g /\ row[s].attempt = n
  BY DEF AttemptsOf
<1>2. Exists(s)' /\ SameColumns(s)
  BY <1>1, RowsStep DEF Exists
<1> QED BY <1>1, <1>2 DEF AttemptsOf, SameColumns

\* A request that retries was so before, with the same group and base, unless
\* it has just read the row or the maximum.
LEMMA RetryingStep ==
  ASSUME TypeOK, [Next]_vars, NEW r \in Requests, Retrying(r)'
  PROVE  \/ Retrying(r) /\ req'[r] = req[r]
         \/ UNCHANGED <<row, account>> /\ \E b \in Scans : LoadFailedScan(r, b)
         \/ UNCHANGED <<row, account>> /\ (CheckMedia(r) \/ NumberAttempt(r))
<1> USE DEF Retrying
<1>1. ASSUME NEW q \in Requests, NEW s \in Scans,
             CanStartScan(q, s) \/ SaveUpload(q) \/ InsertUpload(q) \/ Abort(q) \/ InsertRetry(q, s)
      PROVE  req'[r] = req[r]
  <2>1. r # q => req'[r] = req[r]
    BY <1>1 DEF CanStartScan, SaveUpload, InsertUpload, Abort, InsertRetry, Goto, End, TypeOK
  <2>2. req'[q].pc \in {"save", "insert", "idle"}
    BY <1>1 DEF CanStartScan, SaveUpload, InsertUpload, Abort, InsertRetry, Goto, End, TypeOK,
                Request, IdleRequest
  <2> QED BY <2>1, <2>2
<1>2. ASSUME NEW q \in Requests, NEW b \in Scans,
             LoadFailedScan(q, b) \/ CheckMedia(q) \/ NumberAttempt(q), r # q
      PROVE  req'[r] = req[r]
  BY <1>2 DEF LoadFailedScan, CheckMedia, NumberAttempt, Goto, End, TypeOK
<1>3. UNCHANGED req => req'[r] = req[r]
  OBVIOUS
<1>5. \A q \in Requests : SaveUpload(q) \/ InsertUpload(q) \/ Abort(q) => req'[r] = req[r] \/ ~Retrying(r)'
  BY DEF SaveUpload, InsertUpload, Abort, Goto, End, TypeOK, Request, IdleRequest
<1>6. \A q \in Requests : CheckMedia(q) \/ NumberAttempt(q) => q = r \/ req'[r] = req[r]
  BY DEF CheckMedia, NumberAttempt, Goto, End, TypeOK
<1> QED BY <1>1, <1>2, <1>3, <1>5, <1>6
        DEF Next, RequestStep, vars, Settle, RequeueScan, LoseFile, DeleteScans, DeleteUser,
            LoadFailedScan, CheckMedia, NumberAttempt

LEMMA GroupsInit == Init => AttemptsAreNumbered /\ RetriesFollow
  BY DEF Init, AttemptsAreNumbered, RetriesFollow, Retrying, Exists, NoRow, IdleRequest

\* What AttemptsAreNumbered says of one row, with names for the columns.
Numbered(s, b, g, n) ==
  /\ row[s].retry <=> b # NoScan
  /\ row[s].retry <=> n > 1
  /\ b = NoScan => g = s /\ n = 1
  /\ row[s].retry /\ Exists(b) => row[b].group = g /\ n > row[b].attempt
  /\ account = "active" /\ n > 1 => Exists(b) /\ Exists(g) /\ AttemptsOf(g, n - 1) # {}

RowsNumbered ==
  \A s \in Scans : Exists(s) => Numbered(s, row[s].of, row[s].group, row[s].attempt)

LEMMA NumberedRows == AttemptsAreNumbered <=> RowsNumbered
  BY DEF AttemptsAreNumbered, Numbered, RowsNumbered

LEMMA NumberedStep ==
  TypeOK /\ IdsAreFresh /\ NumbersAreClaimed /\ RetriesFollow /\ AttemptsAreNumbered /\ [Next]_vars
    => AttemptsAreNumbered'
<1>0. RowsNumbered' => AttemptsAreNumbered'
  BY NumberedRows, PTL
<1> SUFFICES ASSUME TypeOK, IdsAreFresh, NumbersAreClaimed, RetriesFollow, AttemptsAreNumbered,
                    [Next]_vars
             PROVE  RowsNumbered'
  BY <1>0
<1> SUFFICES ASSUME NEW s \in Scans, Exists(s)', NEW b, NEW g, NEW n,
                    b = row'[s].of, g = row'[s].group, n = row'[s].attempt
             PROVE  Numbered(s, b, g, n)'
  BY DEF RowsNumbered, Numbered, Exists, AttemptsOf
<1>1. CASE Exists(s) /\ SameColumns(s)
  <2>1. b = row[s].of /\ g = row[s].group /\ n = row[s].attempt /\ row'[s].retry = row[s].retry
    BY <1>1 DEF SameColumns
  <2>2. Numbered(s, b, g, n)
    BY <1>1, <2>1, NumberedRows DEF RowsNumbered
  <2>3. g \in Scans /\ (b # NoScan => b \in Scans /\ row[b].status # "none")
    BY <1>1, <2>1 DEF IdsAreFresh, TypeOK, Row
  <2>4. ASSUME row'[s].retry, Exists(b)' PROVE row'[b].group = g /\ n > row'[b].attempt
    <3>1. b \in Scans /\ row[b].status # "none"
      BY <2>1, <2>2, <2>3, <2>4 DEF Numbered
    <3>2. Exists(b) /\ SameColumns(b)
      BY <2>4, <3>1, RowsStep
    <3> QED BY <2>1, <2>2, <2>4, <3>2 DEF SameColumns, Numbered
  <2>5. ASSUME account' = "active", n > 1
        PROVE  Exists(b)' /\ Exists(g)' /\ AttemptsOf(g, n - 1)' # {}
    <3>1. Exists(b) /\ Exists(g) /\ AttemptsOf(g, n - 1) # {} /\ b \in Scans
      BY <2>2, <2>3, <2>5, AccountStep DEF Numbered
    <3> QED BY <2>3, <2>5, <3>1, RowsStep, AttemptsStay
  <2> QED BY <2>1, <2>2, <2>4, <2>5 DEF Numbered
<1>2. CASE row'[s] = FirstRow(s)
  <2>1. row'[s].retry = FALSE /\ b = NoScan /\ g = s /\ n = 1
    BY <1>2, NewRecords
  <2> QED BY <2>1 DEF Numbered
<1>3. ASSUME NEW r \in Requests, InsertRetry(r, s), row'[s] = RetryRow(r), account # "gone"
      PROVE  Numbered(s, b, g, n)'
  <2>1. b = req[r].base /\ g = req[r].group /\ n = req[r].attempt /\ row'[s].retry = TRUE
    BY <1>3, NewRecords
  <2>2. /\ b \in Scans /\ g \in Scans /\ row[b].status # "none" /\ b # NoScan
        /\ req[r].pc = "insert_retry" /\ n > 1
    BY <1>3, <2>1, ScanAttemptsAssumption DEF IdsAreFresh, Retrying, InsertRetry, NumbersAreClaimed
  <2>3. /\ account = "active" => Exists(b) /\ Exists(g) /\ AttemptsOf(g, n - 1) # {}
        /\ Exists(b) => row[b].group = g /\ n > row[b].attempt
    BY <1>3, <2>1, <2>2 DEF RetriesFollow, Retrying
  <2>4. ASSUME Exists(b)' PROVE row'[b].group = g /\ n > row'[b].attempt
    <3>1. Exists(b) /\ SameColumns(b)
      BY <2>2, <2>4, RowsStep
    <3> QED BY <2>3, <3>1 DEF SameColumns
  <2>5. ASSUME account' = "active" PROVE Exists(b)' /\ Exists(g)' /\ AttemptsOf(g, n - 1)' # {}
    BY <2>2, <2>3, <2>5, AccountStep, RowsStep, AttemptsStay
  <2> QED BY <2>1, <2>2, <2>4, <2>5 DEF Numbered
<1> QED BY <1>1, <1>2, <1>3, RowsStep

\* What RetriesFollow says of one request, with names for what it read.
Follows(r, b, g, n) ==
  /\ account = "active" => Exists(b) /\ Exists(g)
  /\ Exists(b) => row[b].group = g
  /\ req[r].pc = "insert_retry" /\ account # "gone" /\ Exists(b) => n > row[b].attempt
  /\ req[r].pc = "insert_retry" /\ account = "active" => AttemptsOf(g, n - 1) # {}

RequestsFollow ==
  \A r \in Requests : Retrying(r) => Follows(r, req[r].base, req[r].group, req[r].attempt)

LEMMA FollowingRequests == RetriesFollow <=> RequestsFollow
  BY DEF RetriesFollow, RequestsFollow, Follows

\* The row a retry starts from: its group is there while the account is, and no
\* number is below 1.
LEMMA BaseRow ==
  ASSUME TypeOK, AttemptsAreNumbered, NEW b \in Scans, Exists(b)
  PROVE  /\ account = "active" => Exists(row[b].group)
         /\ row[b].attempt < 2 => row[b].attempt = 1
<1>1. row[b].attempt \in Nat
  BY DEF TypeOK, Row
<1>2. Numbered(b, row[b].of, row[b].group, row[b].attempt)
  BY NumberedRows DEF RowsNumbered
<1> QED BY <1>1, <1>2 DEF Numbered

LEMMA FollowStep ==
  TypeOK /\ IdsAreFresh /\ OwnedUntilGone /\ AttemptsAreNumbered /\ RetriesFollow /\ [Next]_vars
    => RetriesFollow'
<1>0. RequestsFollow' => RetriesFollow'
  BY FollowingRequests, PTL
<1> SUFFICES ASSUME TypeOK, IdsAreFresh, OwnedUntilGone, AttemptsAreNumbered, RetriesFollow,
                    [Next]_vars
             PROVE  RequestsFollow'
  BY <1>0
<1> SUFFICES ASSUME NEW r \in Requests, Retrying(r)', NEW b, NEW g, NEW n,
                    b = req'[r].base, g = req'[r].group, n = req'[r].attempt
             PROVE  Follows(r, b, g, n)'
  BY DEF RequestsFollow, Follows, Retrying, Exists, AttemptsOf
<1>1. ASSUME Retrying(r)
      PROVE  /\ req[r].base \in Scans /\ row[req[r].base].status # "none"
             /\ req[r].group \in Scans
             /\ Follows(r, req[r].base, req[r].group, req[r].attempt)
  BY <1>1, FollowingRequests DEF RequestsFollow, IdsAreFresh
<1>2. CASE Retrying(r) /\ req'[r] = req[r]
  <2>1. /\ b \in Scans /\ row[b].status # "none" /\ g \in Scans /\ Follows(r, b, g, n)
        /\ req'[r].pc = req[r].pc
    BY <1>1, <1>2
  <2>2. Exists(b)' => Exists(b) /\ SameColumns(b)
    BY <2>1, RowsStep
  <2>3. account' = "active" /\ Exists(b) /\ Exists(g) => Exists(b)' /\ Exists(g)'
    BY <2>1, RowsStep
  <2>4. account' = "active" /\ AttemptsOf(g, n - 1) # {} => AttemptsOf(g, n - 1)' # {}
    BY AttemptsStay
  <2>5. Exists(b)' => row'[b].group = row[b].group /\ row'[b].attempt = row[b].attempt
    BY <2>2 DEF SameColumns
  <2> QED BY <2>1, <2>2, <2>3, <2>4, <2>5, AccountStep DEF Follows
<1>3. CASE UNCHANGED <<row, account>> /\ \E c \in Scans : LoadFailedScan(r, c)
  <2>1. PICK c \in Scans : LoadFailedScan(r, c)
    BY <1>3
  <2>2. Exists(c) /\ b = c /\ g = row[c].group /\ req'[r].pc = "media"
    BY <2>1 DEF LoadFailedScan, Owned, IdleRequest, TypeOK
  <2>3. account = "active" => Exists(g)
    BY <2>2, BaseRow
  <2> QED BY <1>3, <2>2, <2>3 DEF Follows, Exists
<1>4. CASE UNCHANGED <<row, account>> /\ CheckMedia(r)
  <2>1. /\ Retrying(r) /\ b = req[r].base /\ g = req[r].group /\ req'[r].pc = "number"
    BY <1>4 DEF CheckMedia, Goto, End, Retrying, IdleRequest, TypeOK, Request
  <2>2. Follows(r, b, g, req[r].attempt)
    BY <1>1, <2>1
  <2> QED BY <1>4, <2>1, <2>2 DEF Follows, Exists
<1>5. CASE UNCHANGED <<row, account>> /\ NumberAttempt(r)
  <2>1. /\ Retrying(r) /\ b = req[r].base /\ g = req[r].group /\ n = NextAttempt(r)
        /\ req'[r].pc = "insert_retry"
    BY <1>5 DEF NumberAttempt, Retrying, TypeOK, Request
  <2>2. Follows(r, b, g, req[r].attempt) /\ b \in Scans /\ g \in Scans
    BY <1>1, <2>1
  <2>3. ASSUME Exists(b), account # "gone" PROVE n > row[b].attempt
    <3>1. b \in Owned /\ row[b].group = req[r].group /\ row[b].attempt \in Nat
      BY <2>1, <2>2, <2>3 DEF Follows, Owned, OwnedUntilGone, TypeOK, Row
    <3> QED BY <2>1, <3>1, NextAttemptIsNew
  <2>4. ASSUME account = "active" PROVE AttemptsOf(g, n - 1) # {}
    <3>1. CASE \E s \in Owned : row[s].group = req[r].group /\ row[s].attempt = n - 1
      BY <2>1, <3>1 DEF AttemptsOf, Owned
    <3>2. CASE n = 2
      <4>1. Exists(b) /\ row[b].group = g /\ row[b].attempt \in Nat
        BY <2>2, <2>4 DEF Follows, TypeOK, Row
      <4>2. row[b].attempt = 1
        BY <2>2, <2>3, <2>4, <3>2, <4>1, BaseRow
      <4> QED BY <2>2, <3>2, <4>1, <4>2 DEF AttemptsOf
    <3> QED BY <2>1, <3>1, <3>2, NextAttemptIsNew
  <2> QED BY <1>5, <2>1, <2>2, <2>3, <2>4 DEF Follows, Exists, AttemptsOf
<1> QED BY <1>2, <1>3, <1>4, <1>5, RetryingStep

\* The whole inductive invariant.
THEOREM InvariantHolds == Spec => []AttemptsInv
<1>1. Init => AttemptsInv
  BY TypeInit, FreshInit, QuotaInit, NumbersInit, GroupsInit DEF AttemptsInv
<1>2. AttemptsInv /\ [Next]_vars => AttemptsInv'
  BY TypeStep, FreshStep, OwnedStep, QuotaStep, NumbersStep, FilesStep, FollowStep, NumberedStep
     DEF AttemptsInv
<1> QED BY <1>1, <1>2, PTL DEF Spec

\* However many requests retry, a retry follows the row it retries, in its
\* group, and while the account is there no number of the group is left out.
THEOREM NumberedAlways == Spec => []AttemptsAreNumbered
<1>1. AttemptsInv => AttemptsAreNumbered
  BY DEF AttemptsInv
<1> QED BY <1>1, InvariantHolds, PTL

-----------------------------------------------------------------------------
(* What a scan is said to be: ScanAdmission and ScanVerdict *)

RD == "reality_defender"

\* The selections the form can hold: no provider twice.
Selections == {s \in Seq(Providers) : Len(s) \in {0, 1, 2} /\ (Len(s) = 2 => s[1] # s[2])}

FormType ==
  [open : BOOLEAN, tab : {"upload", "url"}, files : Seq(Files), url : BOOLEAN, chosen : Selections,
   out : SUBSET Providers, answer : {"none", "type", "size", "plan", "providers", "url", "stored"}]

\* Hive comes before Reality Defender, or is asked alone, only once the user has taken
\* Reality Defender out.
FormInv ==
  /\ form \in FormType
  /\ RD \notin form.out /\ form.chosen # <<>> => form.chosen[1] = RD

FrameType == [ai : Percent, notAi : Percent, deepfake : Percent]
Ais == {"yes", "no", "open"}
Details ==
  [label : {a.label : a \in RdAnswers} \union {"none"}, final : Percent, ensemble : Percent,
   frames : Seq(FrameType)]
VerdictRow ==
  [selected : Selections \ {<<>>}, media : {Media(f) : f \in Files},
   status : {"pending", "processing", "completed", "failed"}, ended : BOOLEAN, ai : Ais,
   confidence : Percent, payload : UNION {[D -> Details] : D \in SUBSET Providers}]

\* The verdict ai is the one Reality Defender's label stands for.
Fits(details, ai) ==
  /\ details.label = "MANIPULATED" => ai = "yes"
  /\ details.label = "AUTHENTIC" => ai = "no"

\* The columns hold the first provider's verdict, whatever runs, requeues and retries
\* came between the result and now: they are written and cleared with the payload.
ColumnsFit(x) == x.selected[1] = RD /\ RD \in DOMAIN x.payload => Fits(x.payload[RD], x.ai)

VerdictInv ==
  /\ FormInv
  /\ run \in [Runs -> [at : Nat, pc : {"idle", "loaded", "marked"}]]
  /\ group \in Seq(VerdictRow)
  /\ \A i \in DOMAIN group : ColumnsFit(group[i])

LEMMA DetectionTyped ==
  ASSUME NEW p \in Providers, NEW media, NEW d \in Detections(p, media)
  PROVE  /\ d.ai \in Ais /\ d.confidence \in Percent /\ d.details \in Details
         /\ p = RD => Fits(d.details, d.ai)
<1>1. CASE p = "hive"
  <2>1. PICK a \in HiveAnswers : d = HiveDetection(a)
    BY <1>1 DEF Detections
  <2>2. /\ a.ai \in Ais /\ a.confidence \in Percent /\ a.frames \in Seq(FrameType)
    BY VerdictAssumption DEF Ais, FrameType
  <2> QED BY <1>1, <2>1, <2>2 DEF HiveDetection, NoDetails, Details, Percent, Missing, RD
<1>2. CASE p # "hive"
  <2>1. PICK a \in RdAnswers : d = IF a.vendor = "generic" THEN GenericDetection(a) ELSE RdDetection(a)
    BY <1>2 DEF Detections
  <2>2. /\ a.final \in Percent /\ a.ensemble \in Percent
        /\ a.vendor = "generic" => a.final # Missing
    BY VerdictAssumption
  <2>3. AiOfLabel(a.label) \in Ais /\ Guess(AiOfLabel(a.label)) \in Percent
        /\ <<>> \in Seq(FrameType)
    BY DEF AiOfLabel, Guess, Ais, Percent
  <2>4. CASE a.vendor = "generic"
    BY <2>1, <2>2, <2>3, <2>4 DEF GenericDetection, NoDetails, Details, Percent, Missing, Fits
  <2>5. CASE a.vendor # "generic"
    <3>1. /\ d.ai = AiOfLabel(a.label) /\ d.confidence \in Percent
          /\ d.details = [label |-> a.label, final |-> a.final, ensemble |-> a.ensemble, frames |-> <<>>]
      BY <2>1, <2>2, <2>3, <2>5 DEF RdDetection, NoDetails
    <3> QED BY <2>2, <2>3, <3>1 DEF Details, Fits, AiOfLabel
  <2> QED BY <2>4, <2>5
<1> QED BY <1>1, <1>2

-----------------------------------------------------------------------------
(* The form *)

LEMMA Selection ==
  ASSUME NEW s \in Seq(Providers), Len(s) \in {1, 2}, Len(s) = 2 => s[1] # s[2]
  PROVE  s \in Selections
BY DEF Selections

\* What a selection can be, by its length and members.
LEMMA Chosen ==
  ASSUME NEW s \in Selections, s # <<>>
  PROVE  /\ s \in Seq(Providers) /\ Len(s) \in {1, 2} /\ DOMAIN s = 1..Len(s)
         /\ Members(s) \subseteq Providers /\ s[1] \in Members(s)
         /\ Len(s) = 2 => Members(s) = Providers /\ s[1] # s[2]
         /\ Len(s) = 1 => Members(s) = {s[1]}
<1>1. /\ s \in Seq(Providers) /\ Len(s) \in {1, 2} /\ DOMAIN s = 1..Len(s)
      /\ Len(s) = 2 => s[1] # s[2]
  <2>1. s \in Seq(Providers) /\ Len(s) \in {0, 1, 2} /\ (Len(s) = 2 => s[1] # s[2])
    BY DEF Selections
  <2>2. Len(s) \in Nat /\ Len(s) # 0 /\ DOMAIN s = 1..Len(s)
    BY <2>1
  <2> QED BY <2>1, <2>2
<1>2. Members(s) \subseteq Providers /\ s[1] \in Members(s)
  BY <1>1 DEF Members
<1>3. Len(s) = 1 => Members(s) = {s[1]}
  BY <1>1 DEF Members
<1>4. Len(s) = 2 => Members(s) = {s[1], s[2]} /\ s[1] \in Providers /\ s[2] \in Providers
  BY <1>1 DEF Members
<1> QED BY <1>1, <1>2, <1>3, <1>4 DEF Providers

LEMMA OpenedTyped ==
  /\ Opened \in FormType /\ Left \in FormType
  /\ Opened.chosen = <<>> /\ Left.chosen = <<>>
<1>1. <<>> \in Seq(Files) /\ <<>> \in Selections /\ {} \in SUBSET Providers
  BY DEF Selections
<1>2. Opened \in FormType /\ Opened.chosen = <<>>
  BY <1>1 DEF Opened, FormType
<1> QED BY <1>2 DEF Left, FormType

LEMMA Appended ==
  ASSUME NEW S, NEW s \in Seq(S), NEW e \in S, Len(s) = 1
  PROVE  LET new == Append(s, e)
         IN new \in Seq(S) /\ Len(new) = 2 /\ new[1] = s[1] /\ new[2] = e
<1>1. Len(s) + 1 = 2 /\ 1 \in 1..Len(s)
  OBVIOUS
<1>2. Append(s, e) \in Seq(S) /\ Len(Append(s, e)) = 2
  BY <1>1
<1>3. Append(s, e)[1] = s[1]
  BY <1>1
<1>4. Append(s, e)[2] = e
  <2>1. Append(s, e)[Len(s) + 1] = e
    BY AppendProperties
  <2> QED BY <1>1, <2>1
<1> QED BY <1>2, <1>3, <1>4

LEMMA OneLeft ==
  ASSUME NEW S, NEW s \in Seq(S), Len(s) = 2
  PROVE  /\ RemoveAt(s, 1) \in Seq(S) /\ Len(RemoveAt(s, 1)) = 1 /\ RemoveAt(s, 1)[1] = s[2]
         /\ RemoveAt(s, 2) \in Seq(S) /\ Len(RemoveAt(s, 2)) = 1 /\ RemoveAt(s, 2)[1] = s[1]
<1>0. /\ RemoveAt(s, 1) = SubSeq(s, 1, 0) \o SubSeq(s, 2, 2) 
      /\ RemoveAt(s, 2) = SubSeq(s, 1, 1) \o SubSeq(s, 3, 2)
  BY DEF RemoveAt
<1>1. /\ SubSeq(s, 1, 0) \in Seq(S) /\ Len(SubSeq(s, 1, 0)) = 0
      /\ SubSeq(s, 3, 2) \in Seq(S) /\ Len(SubSeq(s, 3, 2)) = 0
  OBVIOUS
<1>2. /\ SubSeq(s, 2, 2) \in Seq(S) /\ Len(SubSeq(s, 2, 2)) = 1 
  OBVIOUS
<1>3. /\ SubSeq(s, 1, 1) \in Seq(S) /\ Len(SubSeq(s, 1, 1)) = 1 
  OBVIOUS
<1>4. SubSeq(s, 2, 2)[1] = s[2]
  OBVIOUS
<1>5. SubSeq(s, 1, 1)[1] = s[1]
  OBVIOUS
<1>6.  RemoveAt(s, 1) \in Seq(S) /\ Len(RemoveAt(s, 1)) = 1 /\ RemoveAt(s, 1)[1] = s[2]
  BY <1>0, <1>1, <1>2, <1>4
<1>7.  RemoveAt(s, 2) \in Seq(S) /\ Len(RemoveAt(s, 2)) = 1 /\ RemoveAt(s, 2)[1] = s[1]
  BY <1>0, <1>1, <1>3, <1>5
<1> QED BY <1>6, <1>7

\* An edit of the selection and of what was taken out of it.
LEMMA Reselected ==
  ASSUME FormInv, NEW c \in Selections, NEW o \in SUBSET Providers,
         form' = [form EXCEPT !.chosen = c, !.out = o, !.answer = "none"],
         RD \notin o /\ c # <<>> => c[1] = RD
  PROVE  FormInv'
<1>1. form' \in FormType /\ form'.chosen = c /\ form'.out = o
  BY DEF FormInv, FormType
<1> QED BY <1>1 DEF FormInv

\* An edit of the form leaves it typed, and its order explained.
LEMMA EditStep ==
  ASSUME FormInv, Edit PROVE FormInv'
<1>0. /\ form.chosen \in Selections /\ form.files \in Seq(Files) /\ form.out \in SUBSET Providers
      /\ form = [form EXCEPT !.out = form.out]
      /\ RD \notin form.out /\ form.chosen # <<>> => form.chosen[1] = RD
  BY DEF FormInv, FormType
<1>1. CASE ProvidersArrive
  <2>1. Enabled \in Seq(Providers) /\ Len(Enabled) = 2 /\ Enabled[1] = RD /\ Enabled[2] = "hive"
    BY DEF Enabled, Providers, RD
  <2>2. Enabled \in Selections
    <3>1. Enabled[1] # Enabled[2]
      BY <2>1 DEF RD
    <3> QED BY <2>1, <3>1, Selection
  <2>3. form' = [form EXCEPT !.chosen = IF form.chosen = <<>> THEN Enabled ELSE form.chosen, !.answer = "none"]
    BY <1>1 DEF ProvidersArrive, Edits
  <2>4. form' = [form EXCEPT !.chosen = IF form.chosen = <<>> THEN Enabled ELSE form.chosen,
                             !.out = form.out, !.answer = "none"]
    BY <2>3 DEF FormInv, FormType
  <2> QED BY <1>0, <2>1, <2>2, <2>4, Reselected
<1>2. CASE TypeUrl
  BY <1>2 DEF TypeUrl, Edits, FormInv, FormType
<1>3. CASE Reopen
  <2>1. form' = [Opened EXCEPT !.answer = "none"]
    BY <1>3 DEF Reopen, Edits
  <2>2. form' \in FormType /\ form'.chosen = <<>>
    BY <2>1, OpenedTyped DEF FormType
  <2> QED BY <2>2 DEF FormInv
<1>4. ASSUME NEW p \in Providers, Toggle(p) PROVE FormInv'
  <2>0. form.chosen # <<>> /\ p \in {RD, "hive"}
    BY <1>4 DEF Providers, Toggle, RD
  <2>1. CASE p \notin Members(form.chosen) /\ Edits([form EXCEPT !.chosen = Append(@, p)])
    <3> DEFINE new == Append(form.chosen, p)
    <3>1. Len(form.chosen) = 1 /\ form.chosen[1] # p /\ form.chosen \in Seq(Providers)
      BY <1>0, <2>0, <2>1, Chosen
    <3>2. /\ new \in Seq(Providers) /\ Len(new) = 2 /\ new[1] = form.chosen[1] /\ new[2] = p
      BY <3>1, Appended
    <3>3. form' = [form EXCEPT !.chosen = new, !.out = form.out, !.answer = "none"]
      BY <2>1 DEF Edits, FormInv, FormType
    <3>4. new \in Selections
      <4>1. new[1] # new[2]
        BY <3>1, <3>2
      <4> HIDE DEF new
      <4> QED BY <3>2, <4>1, Selection
    <3>5. RD \notin form.out => new[1] = RD
      BY <1>0, <3>1, <3>2
    <3> HIDE DEF new
    <3> QED BY <1>0, <3>3, <3>4, <3>5, Reselected
  <2>2. CASE \E i \in DOMAIN form.chosen :
          /\ form.chosen[i] = p /\ Len(form.chosen) > 1
          /\ Edits([form EXCEPT !.chosen = RemoveAt(@, i), !.out = @ \union {p}])
    <3>1. PICK i \in DOMAIN form.chosen :
          /\ form.chosen[i] = p /\ Len(form.chosen) > 1
          /\ Edits([form EXCEPT !.chosen = RemoveAt(@, i), !.out = @ \union {p}])
      BY <2>2
    <3> DEFINE new == RemoveAt(form.chosen, i)
    <3>2. form.chosen \in Seq(Providers) /\ Len(form.chosen) = 2 /\ i \in {1, 2}
      <4>1. form.chosen \in Seq(Providers) /\ Len(form.chosen) \in {1, 2} /\ DOMAIN form.chosen = 1..Len(form.chosen)
        BY <1>0, <2>0, Chosen
      <4>2. Len(form.chosen) = 2
        <5>1. ~(1 > 1) /\ Len(form.chosen) > 1
          BY <3>1
        <5> QED BY <4>1, <5>1
      <4>3. i \in 1..2
        BY <4>1, <4>2
      <4> QED BY <4>1, <4>2, <4>3
    <3>3. new \in Seq(Providers) /\ Len(new) = 1 /\ new[1] = form.chosen[3 - i]
      <4>1. CASE i = 1
        BY <3>2, <4>1, OneLeft
      <4>2. CASE i = 2
        BY <3>2, <4>2, OneLeft
      <4> QED BY <3>2, <4>1, <4>2
    <3>4. form' = [form EXCEPT !.chosen = new, !.out = form.out \union {p}, !.answer = "none"]
      BY <3>1 DEF Edits
    <3>5. form.chosen[1] # form.chosen[2] /\ form.chosen[3 - i] # p
      BY <1>0, <2>0, <3>1, <3>2, Chosen
    <3>6. RD \notin form.out \union {p} => new[1] = RD
      BY <2>0, <3>2, <3>3, <3>5 DEF Providers, RD
    <3> HIDE DEF new
    <3>7. new \in Selections
      BY <3>3, Selection
    <3>8. form.out \union {p} \in SUBSET Providers
      BY <1>0
    <3> QED BY <3>4, <3>6, <3>7, <3>8, Reselected
  <2> QED BY <1>4, <2>1, <2>2 DEF Toggle
<1>5. ASSUME NEW drop \in Drops, Drop(drop) PROVE FormInv'
  <2>1. PICK at \in [1..Cardinality(Accepted(drop)) -> Accepted(drop)] :
          Edits([form EXCEPT !.files = [k \in DOMAIN at |-> drop[at[k]]]])
    BY <1>5 DEF Drop
  <2>2. Accepted(drop) \subseteq DOMAIN drop /\ drop \in Seq(Files)
    BY FilesAssumption DEF Accepted
  <2>3. IsFiniteSet(Accepted(drop))
    <3>1. DOMAIN drop = 1..Len(drop) /\ Len(drop) \in Nat
      BY <2>2
    <3>2. IsFiniteSet(1..Len(drop))
      BY <3>1, FS_Interval
    <3> QED BY <2>2, <3>1, <3>2, FS_Subset
  <2>4. Cardinality(Accepted(drop)) \in Nat
    BY <2>3, FS_CardinalityType
  <2>5. \A k \in DOMAIN at : drop[at[k]] \in Files
    BY <2>2
  <2>6. [k \in 1..Cardinality(Accepted(drop)) |-> drop[at[k]]] \in Seq(Files)
    BY <2>4, <2>5
  <2> QED BY <2>1, <2>6 DEF Edits, FormInv, FormType
<1>6. ASSUME NEW i \in DOMAIN form.files, RemoveFile(i) PROVE FormInv'
  <2>1. RemoveAt(form.files, i) \in Seq(Files)
    BY <1>0 DEF RemoveAt
  <2> QED BY <1>6, <2>1 DEF RemoveFile, Edits, FormInv, FormType
<1>7. ASSUME NEW tab \in {"upload", "url"}, ShowTab(tab) PROVE FormInv'
  BY <1>7 DEF ShowTab, Edits, FormInv, FormType
<1> QED BY <1>1, <1>2, <1>3, <1>4, <1>5, <1>6, <1>7 DEF Edit

\* What is stored is the first of the files on the upload tab: URLs are always refused.
LEMMA Stored ==
  ASSUME FormInv, Submit("stored")
  PROVE  form.tab = "upload" /\ form.files # <<>> /\ form.chosen \in Selections \ {<<>>}
<1>1. CanStart /\ form.chosen \in Selections /\ form.chosen # <<>>
  BY DEF Submit, CanStart, FormInv, FormType
<1>2. CASE form.tab # "upload"
  <2>1. Resolved(form.chosen, "url")
    BY <1>2 DEF Submit, AnswersOfUrl
  <2>2. form.chosen[1] \in Members(form.chosen)
    BY <1>1, Chosen
  <2> QED BY <2>1, <2>2 DEF Resolved, Supports
<1>3. CASE form.tab = "upload"
  BY <1>1, <1>3 DEF CanStart
<1> QED BY <1>2, <1>3

LEMMA SubmitStep ==
  ASSUME FormInv, NEW answer \in {"plan", "url", "type", "size", "providers", "stored"}, Submit(answer)
  PROVE  FormInv' /\ form'.answer = answer
<1>1. form' = [(IF answer = "stored" THEN Left ELSE form) EXCEPT !.answer = answer]
  BY DEF Submit
<1>2. form' \in FormType /\ form'.answer = answer
  BY <1>1, OpenedTyped DEF FormInv, FormType
<1>3. CASE answer = "stored"
  <2>1. form'.chosen = <<>>
    BY <1>1, <1>3, OpenedTyped DEF FormType
  <2> QED BY <1>2, <2>1 DEF FormInv
<1>4. CASE answer # "stored"
  BY <1>1, <1>2, <1>4 DEF FormInv, FormType
<1> QED BY <1>2, <1>3, <1>4
-----------------------------------------------------------------------------
(* The rows *)

Statuses == {"pending", "processing", "completed", "failed"}

\* A change of the status alone leaves the columns and the payload together.
LEMMA StatusChanged ==
  ASSUME NEW x \in VerdictRow, ColumnsFit(x), NEW s \in Statuses, NEW e \in BOOLEAN
  PROVE  LET y == [x EXCEPT !.status = s, !.ended = e]
         IN y \in VerdictRow /\ ColumnsFit(y) /\ y.payload = x.payload /\ y.status = s
<1> DEFINE y == [x EXCEPT !.status = s, !.ended = e]
<1>1. y \in VerdictRow /\ y.selected = x.selected /\ y.payload = x.payload /\ y.ai = x.ai /\ y.status = s
  BY DEF VerdictRow, Statuses
<1> HIDE DEF y
<1>2. ColumnsFit(y)
  BY <1>1 DEF ColumnsFit
<1> QED BY <1>1, <1>2 DEF y

LEMMA FreshTyped ==
  ASSUME NEW selected \in Selections \ {<<>>}, NEW media \in {Media(f) : f \in Files}
  PROVE  LET y == Fresh(selected, media)
         IN y \in VerdictRow /\ ColumnsFit(y) /\ DOMAIN y.payload = {} /\ y.status = "pending"
<1>1. DOMAIN NoPayload = {} /\ NoPayload \in [{} -> Details]
  BY DEF NoPayload
<1>2. NoPayload \in UNION {[D -> Details] : D \in SUBSET Providers}
  BY <1>1
<1>3. Missing \in Percent /\ "open" \in Ais
  BY DEF Percent, Ais
<1>4. Fresh(selected, media) \in VerdictRow
  BY <1>2, <1>3 DEF Fresh, VerdictRow
<1>5. Fresh(selected, media).payload = NoPayload /\ Fresh(selected, media).status = "pending"
  BY DEF Fresh
<1> QED BY <1>1, <1>4, <1>5 DEF ColumnsFit

\* A result's columns are the first provider's.
LEMMA ResultTyped ==
  ASSUME NEW x \in VerdictRow, NEW found, DOMAIN found = Selected(x),
         \A p \in DOMAIN found : found[p] \in Detections(p, x.media)
  PROVE  LET y == Result(x, found)
         IN y \in VerdictRow /\ ColumnsFit(y) /\ y.status = "completed"
<1> DEFINE y == Result(x, found)
           first == Primary(x.selected)
<1>1. x.selected \in Selections /\ x.selected # <<>>
  BY DEF VerdictRow
<1>2. Selected(x) \subseteq Providers /\ first = x.selected[1] /\ first \in Selected(x)
  BY <1>1, Chosen DEF Selected, Primary
<1>3. \A p \in DOMAIN found : /\ found[p].ai \in Ais /\ found[p].confidence \in Percent
                              /\ found[p].details \in Details
                              /\ p = RD => Fits(found[p].details, found[p].ai)
  BY <1>2, DetectionTyped
<1>4. [p \in DOMAIN found |-> found[p].details] \in UNION {[D -> Details] : D \in SUBSET Providers}
  <2>1. [p \in DOMAIN found |-> found[p].details] \in [DOMAIN found -> Details] /\ DOMAIN found \in SUBSET Providers
    BY <1>2, <1>3
  <2> QED BY <2>1
<1>5. /\ y.selected = x.selected /\ y.ai = found[first].ai /\ y.status = "completed"
      /\ y.payload = [p \in DOMAIN found |-> found[p].details]
      /\ y \in VerdictRow
  <2>1. y = [x EXCEPT !.status = "completed", !.ended = TRUE, !.ai = found[first].ai,
                      !.confidence = found[first].confidence,
                      !.payload = [p \in DOMAIN found |-> found[p].details]]
    BY DEF Result
  <2>2. found[first].ai \in Ais /\ found[first].confidence \in Percent
    BY <1>2, <1>3
  <2> DEFINE pay == [p \in DOMAIN found |-> found[p].details]
  <2> HIDE DEF pay, y, first
  <2> QED BY <1>4, <2>1, <2>2 DEF VerdictRow, pay
<1>6. ColumnsFit(y)
  <2>1. ASSUME y.selected[1] = RD, RD \in DOMAIN y.payload PROVE Fits(y.payload[RD], y.ai)
    <3>1. first = RD /\ RD \in DOMAIN found
      BY <1>2, <1>5, <2>1
    <3>2. y.payload[RD] = found[RD].details /\ y.ai = found[RD].ai
      BY <1>5, <3>1
    <3> QED BY <1>3, <3>1, <3>2
  <2> QED BY <2>1 DEF ColumnsFit
<1> QED BY <1>5, <1>6

\* One row of a group changes.
LEMMA GroupChanged ==
  ASSUME VerdictInv, NEW i, NEW y \in VerdictRow, ColumnsFit(y), group' = [group EXCEPT ![i] = y]
  PROVE  group' \in Seq(VerdictRow) /\ \A j \in DOMAIN group' : ColumnsFit(group'[j])
<1>1. group \in Seq(VerdictRow) /\ \A j \in DOMAIN group : ColumnsFit(group[j])
  BY DEF VerdictInv
<1>2. DOMAIN group' = DOMAIN group /\ \A j \in DOMAIN group : group'[j] = IF j = i THEN y ELSE group[j]
  BY <1>1
<1>3. group' \in Seq(VerdictRow)
  <2>1. group \in [1..Len(group) -> VerdictRow] /\ Len(group) \in Nat
    BY <1>1
  <2>2. group' \in [1..Len(group) -> VerdictRow]
    BY <2>1
  <2> QED BY <2>1, <2>2
<1> QED BY <1>1, <1>2, <1>3

LEMMA VerdictInvInit == VerdictInit => VerdictInv
<1> SUFFICES ASSUME VerdictInit PROVE VerdictInv
  OBVIOUS
<1>1. FormInv
  BY OpenedTyped DEF VerdictInit, FormInv
<1>2. group \in Seq(VerdictRow) /\ DOMAIN group = {}
  BY DEF VerdictInit
<1>3. run \in [Runs -> [at : Nat, pc : {"idle", "loaded", "marked"}]]
  BY DEF VerdictInit
<1> QED BY <1>1, <1>2, <1>3 DEF VerdictInv

LEMMA RunGoes ==
  ASSUME VerdictInv, NEW r \in Runs, NEW i \in Nat, NEW pc \in {"idle", "loaded", "marked"}, Goes(r, i, pc)
  PROVE  run' \in [Runs -> [at : Nat, pc : {"idle", "loaded", "marked"}]] /\ run'[r] = [at |-> i, pc |-> pc]
BY DEF VerdictInv, Goes

\* What the steps of a run, an operator and a user do to one row.
LEMMA VerdictInvStep == VerdictInv /\ [VerdictNext]_verdictVars => VerdictInv'
<1> SUFFICES ASSUME VerdictInv, [VerdictNext]_verdictVars PROVE VerdictInv'
  OBVIOUS
<1>0. /\ FormInv /\ run \in [Runs -> [at : Nat, pc : {"idle", "loaded", "marked"}]]
      /\ group \in Seq(VerdictRow) /\ \A i \in DOMAIN group : ColumnsFit(group[i])
  BY DEF VerdictInv
<1>1. CASE UNCHANGED verdictVars
  BY <1>0, <1>1 DEF verdictVars, VerdictInv, FormInv
<1>2. CASE Edit /\ UNCHANGED <<group, run>>
  BY <1>0, <1>2, EditStep DEF VerdictInv
<1>3. CASE Create
  <2>1. PICK answer \in {"plan", "url", "type", "size", "providers", "stored"} : Submit(answer)
    BY <1>3 DEF Create
  <2>2. FormInv' /\ form'.answer = answer
    BY <1>0, <2>1, SubmitStep
  <2>3. CASE answer # "stored"
    BY <1>0, <1>3, <2>2, <2>3 DEF Create, VerdictInv
  <2>4. CASE answer = "stored"
    <3> DEFINE y == Fresh(form.chosen, Media(Head(form.files)))
    <3>1. form.files # <<>> /\ form.chosen \in Selections \ {<<>>} /\ form.files \in Seq(Files)
      BY <1>0, <2>1, <2>4, Stored DEF FormInv, FormType
    <3>2. Head(form.files) \in Files
      BY <3>1
    <3>3. y \in VerdictRow /\ ColumnsFit(y)
      BY <3>1, <3>2, FreshTyped
    <3>4. group' = <<y>> /\ UNCHANGED run
      BY <1>3, <2>2, <2>4 DEF Create
    <3> HIDE DEF y
    <3>5. group' \in Seq(VerdictRow) /\ DOMAIN group' = {1} /\ group'[1] = y
      BY <3>3, <3>4
    <3> QED BY <1>0, <2>2, <3>3, <3>4, <3>5 DEF VerdictInv
  <2> QED BY <2>3, <2>4
<1>4. ASSUME NEW r \in Runs, Mark(r) PROVE VerdictInv'
  <2> DEFINE i == run[r].at
  <2>1. run[r].at \in Nat
    BY <1>0
  <2>2. /\ group' = [group EXCEPT ![i].status = "processing"] /\ Goes(r, i, "marked") /\ UNCHANGED form
    BY <1>4 DEF Mark
  <2>3. CASE i \in DOMAIN group
    <3>0. group[i] \in VerdictRow /\ ColumnsFit(group[i])
      BY <1>0, <2>3
    <3>1. group[i] \in VerdictRow /\ ColumnsFit(group[i]) /\ group[i].ended \in BOOLEAN
      BY <3>0 DEF VerdictRow
    <3> DEFINE y == [group[i] EXCEPT !.status = "processing", !.ended = group[i].ended]
    <3>2. y \in VerdictRow /\ ColumnsFit(y)
      BY <3>1, StatusChanged DEF Statuses
    <3>3. group' = [group EXCEPT ![i] = y]
      BY <2>2, <3>1 DEF VerdictRow
    <3> HIDE DEF y
    <3>4. group' \in Seq(VerdictRow) /\ \A j \in DOMAIN group' : ColumnsFit(group'[j])
      BY <3>2, <3>3, GroupChanged
    <3> QED BY <1>0, <2>1, <2>2, <3>4, RunGoes DEF VerdictInv, FormInv
  <2>4. CASE i \notin DOMAIN group
    <3>1. group' = group
      BY <1>0, <2>2, <2>4
    <3> QED BY <1>0, <2>1, <2>2, <3>1, RunGoes DEF VerdictInv, FormInv
  <2> QED BY <2>3, <2>4
<1>5. ASSUME NEW r \in Runs, Complete(r) PROVE VerdictInv'
  <2> DEFINE i == run[r].at
  <2>1. PICK found \in [Selected(group[i]) -> UNION {Detections(p, group[i].media) : p \in Selected(group[i])}] :
          /\ \A p \in DOMAIN found : found[p] \in Detections(p, group[i].media)
          /\ group' = [group EXCEPT ![i] = Result(group[i], found)]
    BY <1>5 DEF Complete
  <2>2. Goes(r, 0, "idle") /\ UNCHANGED form
    BY <1>5 DEF Complete
  <2>3. group' \in Seq(VerdictRow) /\ \A j \in DOMAIN group' : ColumnsFit(group'[j])
    <3>1. CASE i \in DOMAIN group
      <4>1. group[i] \in VerdictRow
        BY <1>0, <3>1
      <4> DEFINE y == Result(group[i], found)
      <4>2. y \in VerdictRow /\ ColumnsFit(y)
        BY <2>1, <4>1, ResultTyped
      <4>3. group' = [group EXCEPT ![i] = y]
        BY <2>1
      <4> HIDE DEF y
      <4> QED BY <4>2, <4>3, GroupChanged
    <3>2. CASE i \notin DOMAIN group
      <4>1. group' = group
        BY <1>0, <2>1, <3>2
      <4> QED BY <1>0, <4>1
    <3> QED BY <3>1, <3>2
  <2> QED BY <1>0, <2>2, <2>3, RunGoes DEF VerdictInv, FormInv
<1>6. ASSUME NEW r \in Runs, Fail(r) PROVE VerdictInv'
  <2> DEFINE i == run[r].at
  <2>1. /\ group' = [group EXCEPT ![i].status = "failed", ![i].ended = TRUE]
        /\ Goes(r, 0, "idle") /\ UNCHANGED form
    BY <1>6 DEF Fail
  <2>2. group' \in Seq(VerdictRow) /\ \A j \in DOMAIN group' : ColumnsFit(group'[j])
    <3>1. CASE i \in DOMAIN group
      <4>1. group[i] \in VerdictRow /\ ColumnsFit(group[i])
        BY <1>0, <3>1
      <4> DEFINE y == [group[i] EXCEPT !.status = "failed", !.ended = TRUE]
      <4>2. y \in VerdictRow /\ ColumnsFit(y)
        BY <4>1, StatusChanged DEF Statuses
      <4>3. group' = [group EXCEPT ![i] = y]
        BY <1>0, <2>1, <3>1
      <4> HIDE DEF y
      <4> QED BY <4>2, <4>3, GroupChanged
    <3>2. CASE i \notin DOMAIN group
      <4>1. group' = group
        BY <1>0, <2>1, <3>2
      <4> QED BY <1>0, <4>1
    <3> QED BY <3>1, <3>2
  <2> QED BY <1>0, <2>1, <2>2, RunGoes DEF VerdictInv, FormInv
<1>7. ASSUME NEW r \in Runs, Die(r) PROVE VerdictInv'
  BY <1>0, <1>7, RunGoes DEF Die, VerdictInv, FormInv
<1>8. ASSUME NEW r \in Runs, NEW i \in DOMAIN group, Load(r, i) PROVE VerdictInv'
  <2>1. i \in Nat
    BY <1>0
  <2> QED BY <1>0, <1>8, <2>1, RunGoes DEF Load, VerdictInv, FormInv
<1>9. ASSUME NEW i \in DOMAIN group, Requeue(i) PROVE VerdictInv'
  <2>1. group' = [group EXCEPT ![i] = Reset(group[i])] /\ UNCHANGED <<form, run>>
    BY <1>9 DEF Requeue
  <2>2. group[i].selected \in Selections \ {<<>>} /\ group[i].media \in {Media(f) : f \in Files}
    <3>1. group[i] \in VerdictRow
      BY <1>0
    <3> QED BY <3>1 DEF VerdictRow
  <2> DEFINE y == Reset(group[i])
  <2>3. y \in VerdictRow /\ ColumnsFit(y)
    BY <2>2, FreshTyped DEF Reset
  <2> HIDE DEF y
  <2>4. group' \in Seq(VerdictRow) /\ \A j \in DOMAIN group' : ColumnsFit(group'[j])
    BY <2>1, <2>3, GroupChanged DEF y
  <2> QED BY <1>0, <2>1, <2>4 DEF VerdictInv, FormInv
<1>10. ASSUME NEW i \in DOMAIN group, Retry(i) PROVE VerdictInv'
  <2> DEFINE y == Fresh(group[i].selected, group[i].media)
  <2>1. group' = Append(group, y) /\ UNCHANGED <<form, run>>
    BY <1>10 DEF Retry
  <2>2. group[i].selected \in Selections \ {<<>>} /\ group[i].media \in {Media(f) : f \in Files}
    <3>1. group[i] \in VerdictRow
      BY <1>0
    <3> QED BY <3>1 DEF VerdictRow
  <2>3. y \in VerdictRow /\ ColumnsFit(y)
    BY <2>2, FreshTyped
  <2> HIDE DEF y
  <2>4. /\ group' \in Seq(VerdictRow) /\ Len(group') = Len(group) + 1 /\ group'[Len(group) + 1] = y
        /\ \A j \in 1..Len(group) : group'[j] = group[j]
    BY <1>0, <2>1, <2>3, AppendProperties
  <2>5. \A j \in DOMAIN group' : j \in DOMAIN group \/ j = Len(group) + 1
    BY <1>0, <2>4
  <2>6. \A j \in DOMAIN group' : ColumnsFit(group'[j])
    BY <1>0, <2>3, <2>4, <2>5
  <2> QED BY <1>0, <2>1, <2>4, <2>6 DEF VerdictInv, FormInv
<1> QED BY <1>1, <1>2, <1>3, <1>4, <1>5, <1>6, <1>7, <1>8, <1>9, <1>10 DEF VerdictNext

\* The form, the runs and the rows keep their types, and the columns their payload.
LEMMA VerdictInvariant == VerdictSpec => []VerdictInv
BY VerdictInvInit, VerdictInvStep, PTL DEF VerdictSpec

-----------------------------------------------------------------------------
(* The readings *)

\* Every score the pages read is a percentage, or missing.
LEMMA ScoreTyped ==
  ASSUME NEW x \in VerdictRow, NEW p \in Providers PROVE Score(x, p) \in Percent
<1>1. CASE p \notin DOMAIN x.payload
  BY <1>1 DEF Score, Percent
<1>2. CASE p \in DOMAIN x.payload
  <2>1. x.payload[p] \in Details
    BY <1>2 DEF VerdictRow
  <2>2. CASE p = "hive"
    <3> DEFINE frames == x.payload[p].frames
               scored == {k \in DOMAIN frames : frames[k].ai # Missing}
    <3>1. frames \in Seq(FrameType)
      BY <2>1 DEF Details
    <3>2. Score(x, p) = HiveScore(frames)
      BY <1>2, <2>2 DEF Score
    <3>3. CASE scored # {}
      <4>0. HiveScore(frames) = frames[Max(scored)].ai
        BY <3>3 DEF HiveScore
      <4>1. scored \subseteq 1..Len(frames) /\ Len(frames) \in Nat
        BY <3>1
      <4>2. IsFiniteSet(scored) /\ scored \in SUBSET Int
        <5>1. IsFiniteSet(1..Len(frames))
          BY <4>1, FS_Interval
        <5> QED BY <4>1, <5>1, FS_Subset
      <4>3. Max(scored) \in scored
        <5> HIDE DEF scored
        <5> QED BY <3>3, <4>2, MaxExists
      <4>4. frames[Max(scored)] \in FrameType
        <5>1. Max(scored) \in 1..Len(frames)
          BY <4>1, <4>3
        <5> HIDE DEF frames, scored
        <5> QED BY <3>1, <5>1
      <4>5. frames[Max(scored)].ai \in Percent
        BY <4>4 DEF FrameType
      <4> QED BY <3>2, <4>0, <4>5
    <3>4. CASE scored = {}
      <4>1. HiveScore(frames) = 0 \/ HiveScore(frames) = Missing
        BY <3>4 DEF HiveScore
      <4> QED BY <3>2, <4>1 DEF Percent
    <3> QED BY <3>3, <3>4
  <2>3. CASE p # "hive"
    BY <1>2, <2>1, <2>3 DEF Score, RdScore, Details
  <2> QED BY <2>2, <2>3
<1> QED BY <1>1, <1>2

\* The combined verdict is that of the one score there is, or of the mean of two.
LEMMA CombinedIs ==
  ASSUME NEW x \in VerdictRow
  PROVE  LET rd == Score(x, RD) hive == Score(x, "hive")
         IN Combined(x) =
              IF rd = Missing /\ hive = Missing THEN "inconclusive"
              ELSE IF rd = Missing THEN Verdict(hive, 1)
              ELSE IF hive = Missing THEN Verdict(rd, 1) ELSE Verdict(rd + hive, 2)
<1> DEFINE rd == Score(x, RD)
           hive == Score(x, "hive")
<1>1. rd \in Percent /\ hive \in Percent
  BY ScoreTyped DEF Providers, RD
<1>2. Findings(x) = {p \in {RD, "hive"} : IF p = RD THEN rd # Missing ELSE hive # Missing}
  BY DEF Findings, Providers, RD
<1>3. Total(x) = (IF rd = Missing THEN 0 ELSE rd) + (IF hive = Missing THEN 0 ELSE hive)
  BY DEF Total, Points, RD
<1>4. RD # "hive"
  BY DEF RD
<1> HIDE DEF rd, hive
<1>5. CASE rd = Missing /\ hive = Missing
  BY <1>2, <1>5 DEF Combined, rd, hive
<1>6. CASE rd = Missing /\ hive # Missing
  <2>1. Findings(x) = {"hive"} /\ Total(x) = hive
    BY <1>1, <1>2, <1>3, <1>4, <1>6 DEF Percent, Missing
  <2>2. Cardinality(Findings(x)) = 1
    BY <2>1, FS_Singleton
  <2> QED BY <1>6, <2>1, <2>2 DEF Combined, rd, hive
<1>7. CASE rd # Missing /\ hive = Missing
  <2>1. Findings(x) = {RD} /\ Total(x) = rd
    BY <1>1, <1>2, <1>3, <1>4, <1>7 DEF Percent, Missing
  <2>2. Cardinality(Findings(x)) = 1
    BY <2>1, FS_Singleton
  <2> QED BY <1>7, <2>1, <2>2 DEF Combined, rd, hive
<1>8. CASE rd # Missing /\ hive # Missing
  <2>1. Findings(x) = {RD} \union {"hive"} /\ Total(x) = rd + hive
    BY <1>2, <1>3, <1>4, <1>8
  <2>2. Cardinality(Findings(x)) = 2
    <3>1. IsFiniteSet({RD}) /\ Cardinality({RD}) = 1
      BY FS_Singleton
    <3>2. Cardinality({RD} \union {"hive"}) = Cardinality({RD}) + 1
      BY <1>4, <3>1, FS_AddElement
    <3> QED BY <2>1, <3>1, <3>2
  <2> QED BY <1>8, <2>1, <2>2 DEF Combined, rd, hive
<1> QED BY <1>5, <1>6, <1>7, <1>8 DEF rd, hive

\* A mean of one or two scores that is flagged has both above half, and one that is safe
\* has both below forty.
LEMMA MeanBounds ==
  ASSUME NEW x \in VerdictRow, NEW p \in Providers, Score(x, p) # Missing
  PROVE  /\ Combined(x) = "flagged" => Score(x, p) >= 50
         /\ Combined(x) = "safe" => Score(x, p) < 40
<1> DEFINE rd == Score(x, RD)
           hive == Score(x, "hive")
<1>1. rd \in Percent /\ hive \in Percent /\ p \in {RD, "hive"}
  BY ScoreTyped DEF Providers, RD
<1>2. Combined(x) =
        IF rd = Missing /\ hive = Missing THEN "inconclusive"
        ELSE IF rd = Missing THEN Verdict(hive, 1)
        ELSE IF hive = Missing THEN Verdict(rd, 1) ELSE Verdict(rd + hive, 2)
  BY CombinedIs
<1>3. Score(x, p) = rd \/ Score(x, p) = hive
  BY <1>1
<1> HIDE DEF rd, hive
<1>4. \A n \in Int : /\ Verdict(n, 1) = "flagged" => n >= 75
                     /\ Verdict(n, 1) = "safe" => n < 20
                     /\ Verdict(n, 2) = "flagged" => n >= 150
                     /\ Verdict(n, 2) = "safe" => n < 40
  BY DEF Verdict
<1>5. (rd = Missing \/ rd \in 0..100) /\ (hive = Missing \/ hive \in 0..100)
  BY <1>1 DEF Percent
<1>6. CASE rd = Missing
  BY <1>2, <1>3, <1>4, <1>5, <1>6
<1>7. CASE hive = Missing
  BY <1>2, <1>3, <1>4, <1>5, <1>7
<1>8. CASE rd # Missing /\ hive # Missing
  <2>1. Combined(x) = Verdict(rd + hive, 2) /\ rd \in 0..100 /\ hive \in 0..100
    BY <1>2, <1>5, <1>8
  <2>2. /\ Combined(x) = "flagged" => rd + hive >= 150
        /\ Combined(x) = "safe" => rd + hive < 40
    BY <1>4, <2>1
  <2> QED BY <1>3, <2>1, <2>2
<1> QED BY <1>6, <1>7, <1>8

LEMMA PercentIs ==
  ASSUME NEW n \in Percent
  PROVE  n \in Int /\ -1 <= n /\ n <= 100 /\ (n = -1 \/ n \in 0..100)
<1>1. n \in 0..100 \/ n = -1
  BY DEF Percent, Missing
<1>2. CASE n \in 0..100
  BY <1>2
<1>3. CASE n = -1
  <2>1. -1 \in Int /\ -1 <= -1 /\ -1 <= 100
    OBVIOUS
  <2> QED BY <1>3, <2>1
<1> QED BY <1>1, <1>2, <1>3

LEMMA Bounds ==
  ASSUME NEW n \in 0..100
  PROVE  n \in Int /\ n >= n /\ n >= -1 /\ ~(-1 >= n) /\ (n >= 100 - n => ~(100 - n > n))
OBVIOUS

\* The tab and the score have no opposite sides.
LEMMA Sides ==
  ASSUME NEW a \in 0..100
  PROVE  LET tab == IF a >= 100 - a THEN "flagged" ELSE IF 100 - a > a THEN "safe" ELSE "none"
         IN ~Opposite(tab, Verdict(a, 1))
<1>1. CASE a >= 50
  <2>1. a >= 100 - a /\ a >= 20 * 1
    BY <1>1
  <2> QED BY <2>1 DEF Opposite, Verdict
<1>2. CASE ~(a >= 50)
  <2>1. ~(a >= 100 - a) /\ 100 - a > a /\ ~(a >= 75 * 1)
    BY <1>2
  <2> QED BY <2>1 DEF Opposite, Verdict
<1> QED BY <1>1, <1>2

LEMMA ColumnsAreExplained == VerdictInv => ColumnsExplained
<1> SUFFICES ASSUME VerdictInv, NEW i \in DOMAIN group,
                    NEW said \in ByColumns(i), NEW shown \in {HistoryBadge(group[i]), DetailBadge(group[i])},
                    Opposite(said, shown), Score(group[i], group[i].selected[1]) # Missing
             PROVE  IF said = "safe" THEN Score(group[i], group[i].selected[1]) >= 50
                    ELSE Score(group[i], group[i].selected[1]) < 40
  BY DEF ColumnsExplained
<1>1. group[i] \in VerdictRow
  BY DEF VerdictInv
<1>2. group[i].selected[1] \in Providers
  <2>1. group[i].selected \in Selections /\ group[i].selected # <<>>
    BY <1>1 DEF VerdictRow
  <2> QED BY <2>1, Chosen
<1>3. {said, shown} = {"safe", "flagged"}
  BY DEF Opposite
<1>4. shown = Combined(group[i])
  BY <1>3 DEF HistoryBadge, DetailBadge
<1>5. said = "safe" => shown = "flagged"
  BY <1>3
<1>6. said # "safe" => shown = "safe"
  BY <1>3
<1> QED BY <1>1, <1>2, <1>4, <1>5, <1>6, MeanBounds

\* Of one frame with two classes that add up the tab and the score agree.
LEMMA FramesAgree ==
  ASSUME NEW frames \in Seq(FrameType), PlainFrames(frames)
  PROVE  ~Opposite(HiveTab(frames), Verdict(HiveScore(frames), 1))
<1> DEFINE a == frames[1].ai
           scored == {k \in DOMAIN frames : frames[k].ai # Missing}
<1>1. /\ DOMAIN frames = {1} /\ frames[1] \in FrameType /\ frames # <<>>
      /\ frames[1].deepfake = Missing /\ frames[1].ai + frames[1].notAi = 100
  <2>1. Len(frames) = 1 /\ frames[1].deepfake = Missing /\ frames[1].ai + frames[1].notAi = 100
    BY DEF PlainFrames
  <2> QED BY <2>1
<1>2. a \in 0..100 /\ frames[1].notAi = 100 - a /\ a # Missing
  <2>1. a \in Percent /\ frames[1].notAi \in Percent
    BY <1>1 DEF FrameType
  <2>2. /\ a \in Int /\ a \in {-1} \union 0..100
        /\ frames[1].notAi \in Int /\ frames[1].notAi <= 100
    BY <2>1, PercentIs
  <2>3. frames[1].notAi = 100 - a /\ a # -1
    BY <1>1, <2>2
  <2> QED BY <2>2, <2>3 DEF Missing
<1>3. HiveScore(frames) = a
  <2>1. scored = {1}
    BY <1>1, <1>2
  <2>2. Max({1}) = 1
    BY DEF Max
  <2>3. scored # {} /\ HiveScore(frames) = frames[Max(scored)].ai
    BY <2>1 DEF HiveScore
  <2> QED BY <2>1, <2>2, <2>3
<1> HIDE DEF scored
<1>4. Max({a, frames[1].deepfake}) = a
  <2>1. frames[1].deepfake = -1
    BY <1>1 DEF Missing
  <2> HIDE DEF a
  <2>2. a \in Int /\ a >= a /\ a >= -1 /\ ~(-1 >= a)
    BY <1>2, Bounds
  <2> QED BY <2>1, <2>2 DEF Max
<1>5. HiveTab(frames) = IF a >= 100 - a THEN "flagged" ELSE IF 100 - a > a THEN "safe" ELSE "none"
  <2>1. HiveTab(frames) = CASE a # Missing /\ a >= 100 - a -> "flagged"
                            [] 100 - a > a -> "safe" [] OTHER -> "none"
    <3>1. HiveTab(frames) =
            CASE Max({a, frames[1].deepfake}) # Missing /\ Max({a, frames[1].deepfake}) >= frames[1].notAi -> "flagged"
              [] frames[1].notAi > Max({a, frames[1].deepfake}) -> "safe" [] OTHER -> "none"
      BY <1>1, Zenon DEF HiveTab
    <3> QED BY <1>2, <1>4, <3>1, Zenon
  <2>2. CASE a >= 100 - a
    <3>1. a # Missing /\ ~(100 - a > a)
      BY <1>2, <2>2, Bounds
    <3> QED BY <2>1, <2>2, <3>1
  <2>3. CASE ~(a >= 100 - a)
    BY <2>1, <2>3
  <2> QED BY <2>2, <2>3
<1> HIDE DEF a
<1> QED BY <1>2, <1>3, <1>5, Sides

LEMMA TabsAreExplained == VerdictInv => TabsExplained
<1> SUFFICES ASSUME VerdictInv, NEW i \in DOMAIN group
             PROVE  /\ RD \in DOMAIN group[i].payload
                         => (<<group[i].payload[RD].label, RdTab(group[i])>>
                               \in {<<"MANIPULATED", "safe">>, <<"AUTHENTIC", "flagged">>}
                             => group[i].selected[1] = "hive")
                    /\ "hive" \in DOMAIN group[i].payload
                         => (Opposite(HiveTab(group[i].payload["hive"].frames),
                                      Verdict(HiveScore(group[i].payload["hive"].frames), 1))
                             => ~PlainFrames(group[i].payload["hive"].frames))
  BY DEF TabsExplained, RD
<1>1. group[i] \in VerdictRow /\ ColumnsFit(group[i])
  BY DEF VerdictInv
<1>2. group[i].selected[1] \in {RD, "hive"}
  <2>1. group[i].selected \in Selections /\ group[i].selected # <<>>
    BY <1>1 DEF VerdictRow
  <2> QED BY <2>1, Chosen DEF Providers, RD
<1>3. ASSUME RD \in DOMAIN group[i].payload, group[i].selected[1] = RD
      PROVE  <<group[i].payload[RD].label, RdTab(group[i])>> \notin {<<"MANIPULATED", "safe">>, <<"AUTHENTIC", "flagged">>}
  <2>1. Fits(group[i].payload[RD], group[i].ai)
    BY <1>1, <1>3 DEF ColumnsFit
  <2>2. RdTab(group[i]) = "safe" => group[i].ai = "no"
    BY <1>1 DEF RdTab, RowBadge, VerdictRow
  <2>3. RdTab(group[i]) = "flagged" => group[i].ai = "yes"
    BY <1>1 DEF RdTab, RowBadge, VerdictRow
  <2> QED BY <2>1, <2>2, <2>3 DEF Fits
<1>4. ASSUME "hive" \in DOMAIN group[i].payload
      PROVE  group[i].payload["hive"].frames \in Seq(FrameType)
  <2>1. group[i].payload["hive"] \in Details
    BY <1>1, <1>4 DEF VerdictRow
  <2> QED BY <2>1 DEF Details
<1> QED BY <1>2, <1>3, <1>4, FramesAgree

THEOREM OppositesAreExplained == VerdictSpec => []OppositeExplained
<1>1. VerdictInv => OppositeExplained
  BY ColumnsAreExplained, TabsAreExplained DEF OppositeExplained
<1> QED BY <1>1, VerdictInvariant, PTL

\* A verdict left over is of the payload alone.
LEMMA LeftOver ==
  ASSUME NEW x
  PROVE  /\ ShowsUnfinished(x) <=> x.status # "completed" /\ Combined(x) # "inconclusive"
         /\ \A y : y.payload = x.payload => Combined(y) = Combined(x)
         /\ DOMAIN x.payload = {} => Combined(x) = "inconclusive"
<1>1. Combined(x) \in Verdicts \union {"inconclusive"}
  BY DEF Combined, Verdict, Verdicts
<1>2. "inconclusive" \notin Verdicts /\ "failed" \notin Verdicts /\ "pending" \notin Verdicts
  BY DEF Verdicts
<1>3. \A y : y.payload = x.payload => \A p : Score(y, p) = Score(x, p)
  BY DEF Score
<1>4. \A y : y.payload = x.payload => Findings(y) = Findings(x) /\ Total(y) = Total(x)
  BY <1>3 DEF Findings, Total, Points
<1>5. DOMAIN x.payload = {} => Findings(x) = {}
  BY DEF Findings, Score
<1> QED BY <1>1, <1>2, <1>4, <1>5 DEF ShowsUnfinished, HistoryBadge, Combined

UnfinishedExplained ==
  \A i \in DOMAIN group' :
     ShowsUnfinished(group'[i]) /\ ~(i \in DOMAIN group /\ ShowsUnfinished(group[i]))
     => /\ group[i].status = "completed"
        /\ \E r \in Runs : run[r].at = i /\ run[r].pc # "idle" /\ run'[r] # run[r]

LEMMA UnfinishedStep == VerdictInv /\ [VerdictNext]_verdictVars => UnfinishedExplained \/ UNCHANGED verdictVars
<1> SUFFICES ASSUME VerdictInv, VerdictNext, NEW i \in DOMAIN group',
                    ShowsUnfinished(group'[i]), ~(i \in DOMAIN group /\ ShowsUnfinished(group[i]))
             PROVE  /\ group[i].status = "completed"
                    /\ \E r \in Runs : run[r].at = i /\ run[r].pc # "idle" /\ run'[r] # run[r]
  BY DEF UnfinishedExplained
<1>0. /\ FormInv /\ run \in [Runs -> [at : Nat, pc : {"idle", "loaded", "marked"}]]
      /\ group \in Seq(VerdictRow) /\ \A j \in DOMAIN group : ColumnsFit(group[j])
  BY DEF VerdictInv
<1>1. group' # group
  <2>1. CASE group' = group
    BY <2>1
  <2> QED BY <2>1
<1>2. CASE Create
  <2>1. PICK answer \in {"plan", "url", "type", "size", "providers", "stored"} : Submit(answer)
    BY <1>2 DEF Create
  <2>2. form'.answer = "stored" /\ answer = "stored"
    BY <1>0, <1>1, <1>2, <2>1, SubmitStep DEF Create
  <2>3. form.files # <<>> /\ form.chosen \in Selections \ {<<>>} /\ form.files \in Seq(Files)
    BY <1>0, <2>1, <2>2, Stored DEF FormInv, FormType
  <2>4. Head(form.files) \in Files
    BY <2>3
  <2> DEFINE y == Fresh(form.chosen, Media(Head(form.files)))
  <2>5. DOMAIN y.payload = {}
    BY <2>3, <2>4, FreshTyped
  <2>6. group' = <<y>>
    BY <1>2, <2>2 DEF Create
  <2> HIDE DEF y
  <2>7. group'[i] = y
    BY <2>6
  <2> QED BY <2>5, <2>7, LeftOver
<1>3. ASSUME NEW r \in Runs, Mark(r) \/ Fail(r)
      PROVE  /\ group[i].status = "completed"
             /\ \E q \in Runs : run[q].at = i /\ run[q].pc # "idle" /\ run'[q] # run[q]
  <2>1. /\ DOMAIN group' = DOMAIN group /\ run[r].pc # "idle" /\ run'[r] # run[r]
        /\ \A j \in DOMAIN group : j # run[r].at => group'[j] = group[j]
    BY <1>0, <1>3 DEF Mark, Fail, Goes
  <2>2. i \in DOMAIN group /\ run[r].at = i /\ group[i] \in VerdictRow
    BY <1>0, <2>1
  <2>3. group'[i].payload = group[i].payload
    BY <1>0, <1>3, <2>2 DEF Mark, Fail, VerdictRow
  <2>4. Combined(group[i]) # "inconclusive"
    BY <2>3, LeftOver
  <2>5. group[i].status = "completed"
    BY <2>2, <2>4, LeftOver
  <2> QED BY <2>1, <2>2, <2>5
<1>4. ASSUME NEW r \in Runs, Complete(r) PROVE FALSE
  <2> DEFINE k == run[r].at
  <2>1. PICK found \in [Selected(group[k]) -> UNION {Detections(p, group[k].media) : p \in Selected(group[k])}] :
          /\ \A p \in DOMAIN found : found[p] \in Detections(p, group[k].media)
          /\ group' = [group EXCEPT ![k] = Result(group[k], found)]
    BY <1>4 DEF Complete
  <2>2. DOMAIN group' = DOMAIN group /\ \A j \in DOMAIN group : j # k => group'[j] = group[j]
    BY <1>0, <2>1
  <2>3. i = k /\ k \in DOMAIN group /\ group[k] \in VerdictRow
    BY <1>0, <2>2
  <2> DEFINE y == Result(group[k], found)
  <2>4. group'[i] = y
    BY <1>0, <2>1, <2>3
  <2>5. y.status = "completed"
    BY <2>1, <2>3, ResultTyped
  <2> HIDE DEF y
  <2> QED BY <2>4, <2>5, LeftOver
<1>5. ASSUME NEW j \in DOMAIN group, Requeue(j) PROVE FALSE
  <2>1. group' = [group EXCEPT ![j] = Reset(group[j])]
    BY <1>5 DEF Requeue
  <2>2. DOMAIN group' = DOMAIN group /\ (j # i => group'[i] = group[i]) /\ group'[j] = Reset(group[j])
    BY <1>0, <2>1
  <2>3. i = j /\ group[j] \in VerdictRow
    BY <1>0, <2>2
  <2>4. group[j].selected \in Selections \ {<<>>} /\ group[j].media \in {Media(f) : f \in Files}
    BY <2>3 DEF VerdictRow
  <2>5. DOMAIN (Reset(group[j]).payload) = {}
    BY <2>4, FreshTyped DEF Reset
  <2> QED BY <2>2, <2>3, <2>5, LeftOver
<1>6. ASSUME NEW j \in DOMAIN group, Retry(j) PROVE FALSE
  <2> DEFINE y == Fresh(group[j].selected, group[j].media)
  <2>1. group' = Append(group, y) /\ group[j] \in VerdictRow
    BY <1>0, <1>6 DEF Retry
  <2>2. group[j].selected \in Selections \ {<<>>} /\ group[j].media \in {Media(f) : f \in Files}
    BY <2>1 DEF VerdictRow
  <2>3. DOMAIN y.payload = {} /\ y \in VerdictRow
    BY <2>2, FreshTyped
  <2> HIDE DEF y
  <2>4. /\ Len(group') = Len(group) + 1 /\ group'[Len(group) + 1] = y /\ group' \in Seq(VerdictRow)
        /\ \A k \in 1..Len(group) : group'[k] = group[k]
    BY <1>0, <2>1, <2>3, AppendProperties
  <2>5. i \in DOMAIN group \/ i = Len(group) + 1
    BY <1>0, <2>4
  <2>6. i = Len(group) + 1
    BY <1>0, <2>4, <2>5
  <2> QED BY <2>3, <2>4, <2>6, LeftOver
<1> QED BY <1>1, <1>2, <1>3, <1>4, <1>5, <1>6 DEF VerdictNext, Die, Load

THEOREM UnfinishedVerdicts == VerdictSpec => UnfinishedVerdictExplained
<1>1. VerdictInv /\ [VerdictNext]_verdictVars => [UnfinishedExplained]_verdictVars
  BY UnfinishedStep
<1> QED BY <1>1, VerdictInvariant, PTL DEF VerdictSpec, UnfinishedVerdictExplained, UnfinishedExplained

-----------------------------------------------------------------------------
(* What is submitted *)

\* The type a named file is stored with follows from its extension, up to the two names
\* of JPEG and of WAV, whatever the browser declared.
LEMMA NamedType ==
  ASSUME NEW f \in Files, f.ext \in Named
  PROVE  /\ Typed(f) \in Allowed
         /\ f.ext \in {"jpg", "jpeg"} => Typed(f) \in {<<"image", "jpeg">>, <<"image", "jpg">>}
         /\ f.ext = "png" => Typed(f) = <<"image", "png">>
         /\ f.ext = "webp" => Typed(f) = <<"image", "webp">>
         /\ f.ext = "mp4" => Typed(f) = <<"video", "mp4">>
         /\ f.ext = "mov" => Typed(f) = <<"video", "quicktime">>
         /\ f.ext = "wav" => Typed(f) \in {<<"audio", "wav">>, <<"audio", "x-wav">>}
         /\ f.ext = "mp3" => Typed(f) = <<"audio", "mpeg">>
<1>1. /\ DOMAIN ByExtension = {"heif", "heic", "mp3", "wav", "m4a", "aac", "ogg", "flac", "alac",
                               "jpg", "jpeg", "png", "gif", "webp", "mp4", "mov"}
      /\ ByExtension["jpg"] = <<"image", "jpeg">> /\ ByExtension["jpeg"] = <<"image", "jpeg">>
      /\ ByExtension["png"] = <<"image", "png">> /\ ByExtension["webp"] = <<"image", "webp">>
      /\ ByExtension["mp4"] = <<"video", "mp4">> /\ ByExtension["mov"] = <<"video", "quicktime">>
      /\ ByExtension["wav"] = <<"audio", "wav">> /\ ByExtension["mp3"] = <<"audio", "mpeg">>
  BY DEF ByExtension
<1>2. f.ext \in DOMAIN ByExtension
  BY <1>1 DEF Named
<1>3. /\ <<"image", "jpeg">> \in Allowed /\ <<"image", "png">> \in Allowed
      /\ <<"image", "webp">> \in Allowed /\ <<"video", "mp4">> \in Allowed
      /\ <<"video", "quicktime">> \in Allowed /\ <<"audio", "wav">> \in Allowed
      /\ <<"audio", "mpeg">> \in Allowed
  BY DEF Allowed, Images, Audios
<1>4. Typed(f) \in Allowed /\ Plain(Typed(f)) = Plain(ByExtension[f.ext])
  <2>1. CASE f.type \in Allowed
    BY <1>2, <2>1, FilesAssumption DEF Typed
  <2>2. CASE f.type \notin Allowed
    <3>1. Typed(f) = ByExtension[f.ext]
      BY <1>2, <2>2 DEF Typed
    <3> QED BY <1>1, <1>3, <3>1 DEF Named
  <2> QED BY <2>1, <2>2
<1>5. /\ Plain(Typed(f)) = <<"image", "jpeg">> => Typed(f) \in {<<"image", "jpeg">>, <<"image", "jpg">>}
      /\ Plain(Typed(f)) = <<"audio", "wav">> => Typed(f) \in {<<"audio", "wav">>, <<"audio", "x-wav">>}
      /\ Plain(Typed(f)) \in {<<"image", "jpeg">>, <<"audio", "wav">>} \/ Plain(Typed(f)) = Typed(f)
  <2>1. CASE Typed(f) = <<"image", "jpg">>
    BY <2>1 DEF Plain
  <2>2. CASE Typed(f) = <<"audio", "x-wav">>
    BY <2>2 DEF Plain
  <2>3. CASE Typed(f) \notin {<<"image", "jpg">>, <<"audio", "x-wav">>}
    <3>1. Plain(Typed(f)) = Typed(f)
      BY <2>3 DEF Plain
    <3> QED BY <3>1, Zenon
  <2> QED BY <2>1, <2>2, <2>3
<1>6. /\ Plain(<<"image", "jpeg">>) = <<"image", "jpeg">> /\ Plain(<<"audio", "wav">>) = <<"audio", "wav">>
      /\ Plain(<<"image", "png">>) = <<"image", "png">> /\ Plain(<<"image", "webp">>) = <<"image", "webp">>
      /\ Plain(<<"video", "mp4">>) = <<"video", "mp4">>
      /\ Plain(<<"video", "quicktime">>) = <<"video", "quicktime">>
      /\ Plain(<<"audio", "mpeg">>) = <<"audio", "mpeg">>
  BY DEF Plain
<1>7. \A g \in {"png", "webp"} : <<"image", g>> # <<"image", "jpeg">> /\ <<"image", g>> # <<"audio", "wav">>
  OBVIOUS
<1>8. \A g : <<"video", g>> # <<"image", "jpeg">> /\ <<"video", g>> # <<"audio", "wav">>
  OBVIOUS
<1>9. <<"audio", "mpeg">> # <<"image", "jpeg">> /\ <<"audio", "mpeg">> # <<"audio", "wav">>
  OBVIOUS
<1>10. ASSUME NEW x, Plain(x) = x, ByExtension[f.ext] = x
      PROVE  /\ Plain(Typed(f)) = x
             /\ x # <<"image", "jpeg">> /\ x # <<"audio", "wav">> => Typed(f) = x
  <2>1. Plain(Typed(f)) = x
    BY <1>4, <1>10
  <2> QED BY <1>5, <2>1
<1>11. CASE f.ext \in {"jpg", "jpeg"}
  <2>1. ByExtension[f.ext] = <<"image", "jpeg">>
    BY <1>1, <1>11
  <2>2. Plain(Typed(f)) = <<"image", "jpeg">>
    BY <1>6, <1>10, <2>1
  <2>3. Typed(f) \in {<<"image", "jpeg">>, <<"image", "jpg">>}
    BY <1>5, <2>2
  <2> QED BY <1>4, <1>11, <2>3
<1>12. CASE f.ext = "png"
  <2>1. ByExtension[f.ext] = <<"image", "png">>
    BY <1>1, <1>12
  <2>2. Typed(f) = <<"image", "png">>
    BY <1>6, <1>7, <1>10, <2>1
  <2> QED BY <1>4, <1>12, <2>2
<1>13. CASE f.ext = "webp"
  <2>1. ByExtension[f.ext] = <<"image", "webp">>
    BY <1>1, <1>13
  <2>2. Typed(f) = <<"image", "webp">>
    BY <1>6, <1>7, <1>10, <2>1
  <2> QED BY <1>4, <1>13, <2>2
<1>14. CASE f.ext = "mp4"
  <2>1. ByExtension[f.ext] = <<"video", "mp4">>
    BY <1>1, <1>14
  <2>2. Typed(f) = <<"video", "mp4">>
    BY <1>6, <1>8, <1>10, <2>1
  <2> QED BY <1>4, <1>14, <2>2
<1>15. CASE f.ext = "mov"
  <2>1. ByExtension[f.ext] = <<"video", "quicktime">>
    BY <1>1, <1>15
  <2>2. Typed(f) = <<"video", "quicktime">>
    BY <1>6, <1>8, <1>10, <2>1
  <2> QED BY <1>4, <1>15, <2>2
<1>16. CASE f.ext = "mp3"
  <2>1. ByExtension[f.ext] = <<"audio", "mpeg">>
    BY <1>1, <1>16
  <2>2. Typed(f) = <<"audio", "mpeg">>
    BY <1>6, <1>9, <1>10, <2>1
  <2> QED BY <1>4, <1>16, <2>2
<1>17. CASE f.ext = "wav"
  <2>1. ByExtension[f.ext] = <<"audio", "wav">>
    BY <1>1, <1>17
  <2>2. Plain(Typed(f)) = <<"audio", "wav">>
    BY <1>6, <1>10, <2>1
  <2>3. Typed(f) \in {<<"audio", "wav">>, <<"audio", "x-wav">>}
    BY <1>5, <2>2
  <2> QED BY <1>4, <1>17, <2>3
<1> QED BY <1>11, <1>12, <1>13, <1>14, <1>15, <1>16, <1>17 DEF Named

\* What the adapters do with the named files.
LEMMA NamedTaken ==
  ASSUME NEW f \in Files, f.ext \in Named
  PROVE  /\ f.ext # "mov" => HiveTakes(Media(f))
         /\ f.ext \in {"jpg", "jpeg", "png", "webp"} /\ f.mb <= 5 => RdTakes(Media(f))
         /\ f.ext \in {"wav", "mp3"} /\ f.mb <= 3 => RdTakes(Media(f))
         /\ Typed(f)[1] = "audio" => f.ext \in {"wav", "mp3"}
         /\ Typed(f)[1] # "url"
<1>1. /\ Media(f).type = Typed(f) /\ Media(f).mb = f.mb
  BY DEF Media
<1>2. CASE f.ext \in {"jpg", "jpeg", "png", "webp"}
  <2>1. Typed(f) \in {<<"image", "jpeg">>, <<"image", "jpg">>, <<"image", "png">>, <<"image", "webp">>}
    BY <1>2, NamedType
  <2>2. Typed(f) \in Images /\ Typed(f)[1] = "image" /\ Plain(Typed(f)) \in HiveTypes
    BY <2>1 DEF Images, Plain, HiveTypes
  <2> QED BY <1>1, <1>2, <2>2 DEF HiveTakes, RdTakes
<1>3. CASE f.ext \in {"wav", "mp3"}
  <2>1. Typed(f) \in {<<"audio", "wav">>, <<"audio", "x-wav">>, <<"audio", "mpeg">>}
    BY <1>3, NamedType
  <2>2. Typed(f) \in Audios /\ Typed(f)[1] = "audio" /\ Plain(Typed(f)) \in HiveTypes
    BY <2>1 DEF Audios, Plain, HiveTypes
  <2> QED BY <1>1, <1>3, <2>2 DEF HiveTakes, RdTakes
<1>4. CASE f.ext = "mp4"
  <2>1. Typed(f) = <<"video", "mp4">> /\ Typed(f)[1] = "video"
    BY <1>4, NamedType
  <2>2. Plain(Typed(f)) \in HiveTypes
    BY <2>1 DEF Plain, HiveTypes
  <2> QED BY <1>1, <1>4, <2>1, <2>2 DEF HiveTakes
<1>5. CASE f.ext = "mov"
  <2>1. Typed(f) = <<"video", "quicktime">> /\ Typed(f)[1] = "video"
    BY <1>5, NamedType
  <2> QED BY <1>5, <2>1
<1> QED BY <1>2, <1>3, <1>4, <1>5 DEF Named

\* An edit of the form takes the last answer away.
LEMMA EditAnswers ==
  ASSUME FormInv, Edit PROVE form'.answer = "none"
<1>1. ASSUME NEW new, "answer" \in DOMAIN new, Edits(new) PROVE form'.answer = "none"
  BY <1>1 DEF Edits
<1>2. "answer" \in DOMAIN form
  BY DEF FormInv, FormType
<1>3. CASE ProvidersArrive
  BY <1>1, <1>2, <1>3 DEF ProvidersArrive
<1>4. CASE TypeUrl
  BY <1>1, <1>2, <1>4 DEF TypeUrl
<1>5. CASE Reopen
  <2>1. "answer" \in DOMAIN Opened
    BY DEF Opened
  <2> QED BY <1>1, <1>5, <2>1 DEF Reopen
<1>6. ASSUME NEW p \in Providers, Toggle(p) PROVE form'.answer = "none"
  <2>1. CASE Edits([form EXCEPT !.chosen = Append(@, p)])
    BY <1>1, <1>2, <2>1
  <2>2. ASSUME NEW i \in DOMAIN form.chosen, Edits([form EXCEPT !.chosen = RemoveAt(@, i), !.out = @ \union {p}])
        PROVE  form'.answer = "none"
    BY <1>1, <1>2, <2>2
  <2> QED BY <1>6, <2>1, <2>2 DEF Toggle
<1>7. ASSUME NEW drop \in Drops, Drop(drop) PROVE form'.answer = "none"
  <2>1. PICK at \in [1..Cardinality(Accepted(drop)) -> Accepted(drop)] :
          Edits([form EXCEPT !.files = [k \in DOMAIN at |-> drop[at[k]]]])
    BY <1>7 DEF Drop
  <2> QED BY <1>1, <1>2, <2>1
<1>8. ASSUME NEW i \in DOMAIN form.files, RemoveFile(i) PROVE form'.answer = "none"
  BY <1>1, <1>2, <1>8 DEF RemoveFile
<1>9. ASSUME NEW tab \in {"upload", "url"}, ShowTab(tab) PROVE form'.answer = "none"
  BY <1>1, <1>2, <1>9 DEF ShowTab
<1> QED BY <1>3, <1>4, <1>5, <1>6, <1>7, <1>8, <1>9 DEF Edit

\* The cases in which a named file is refused, or stored with a provider that fails on it.
Why(f, asked) ==
  \/ form'.answer = "plan"
  \/ f.mb > 20
  \/ "hive" \in asked /\ f.ext \in {"wav", "mp3"}
  \/ f.ext = "mov"
  \/ /\ RD \in asked
     /\ f.ext = "mp4" \/ f.mb > (IF f.ext \in {"wav", "mp3"} THEN 3 ELSE 5)

LEMMA WhyUnserved ==
  ASSUME NEW f \in Files, NEW chosen, Members(chosen) \subseteq Providers,
         f.ext \in Named, form'.answer \in Answers(f, chosen),
         form'.answer # "stored" \/ \E p \in Members(chosen) : ~Takes(p, Media(f))
  PROVE  Why(f, Members(chosen))
<1>0. f.mb \in Nat
  BY FilesAssumption
<1>1. Typed(f) \in Allowed
  BY NamedType
<1>2. CASE f.mb > MaxUpload
  BY <1>2 DEF MaxUpload, Why
<1>3. CASE ~(f.mb > MaxUpload)
  <2>1. form'.answer \in {"plan", IF Resolved(chosen, Typed(f)[1]) THEN "stored" ELSE "providers"}
    BY <1>1, <1>3 DEF Answers
  <2>2. CASE form'.answer = "plan"
    BY <2>2 DEF Why
  <2>3. CASE ~Resolved(chosen, Typed(f)[1])
    <3>1. PICK p \in Members(chosen) : ~Supports(p, Typed(f)[1])
      BY <2>3 DEF Resolved
    <3>2. p = "hive" /\ Typed(f)[1] = "audio"
      BY <3>1, NamedTaken DEF Supports
    <3> QED BY <3>1, <3>2, NamedTaken DEF Why
  <2>4. CASE form'.answer # "plan" /\ Resolved(chosen, Typed(f)[1])
    <3>1. form'.answer = "stored"
      BY <2>1, <2>4
    <3>2. PICK p \in Members(chosen) : ~Takes(p, Media(f))
      BY <3>1
    <3>3. CASE p = "hive"
      <4>1. ~HiveTakes(Media(f))
        BY <3>2, <3>3 DEF Takes
      <4> QED BY <4>1, NamedTaken DEF Why
    <3>4. CASE p # "hive"
      <4>1. p = RD /\ ~RdTakes(Media(f))
        BY <3>2, <3>4 DEF Takes, Providers, RD
      <4>2. /\ f.ext \in {"jpg", "jpeg", "png", "webp"} => ~(f.mb <= 5)
            /\ f.ext \in {"wav", "mp3"} => ~(f.mb <= 3)
        BY <4>1, NamedTaken
      <4>3. CASE f.ext \in {"jpg", "jpeg", "png", "webp"}
        <5>1. f.mb > 5
          BY <1>0, <4>2, <4>3
        <5> QED BY <3>2, <4>1, <4>3, <5>1 DEF Why
      <4>4. CASE f.ext \in {"wav", "mp3"}
        <5>1. f.mb > 3
          BY <1>0, <4>2, <4>4
        <5> QED BY <3>2, <4>1, <4>4, <5>1 DEF Why
      <4>5. CASE f.ext \in {"mp4", "mov"}
        BY <3>2, <4>1, <4>5 DEF Why
      <4> QED BY <4>3, <4>4, <4>5 DEF Named
    <3> QED BY <3>3, <3>4
  <2> QED BY <2>2, <2>3, <2>4
<1> QED BY <1>2, <1>3

UnservedIs ==
  CanStart /\ form'.answer # "none" /\ form.tab = "upload" =>
    LET f == Head(form.files)
    IN f.ext \in Named /\ Unserved(f) => Why(f, Members(form.chosen))
OrderIs ==
  CanStart /\ form'.answer = "stored" /\ Members(form.chosen) = Providers /\ form.chosen[1] = "hive"
    => RD \in form.out

\* Only a submission leaves an answer.
LEMMA Submits ==
  ASSUME VerdictInv, VerdictNext, form' # form, form'.answer # "none"
  PROVE  Submit(form'.answer)
<1>1. ~Edit
  BY EditAnswers DEF VerdictInv
<1>2. Create
  BY <1>1 DEF VerdictNext, Mark, Complete, Fail, Die, Load, Requeue, Retry
<1>3. PICK answer \in {"plan", "url", "type", "size", "providers", "stored"} : Submit(answer)
  BY <1>2 DEF Create
<1>4. form'.answer = answer
  BY <1>3, SubmitStep DEF VerdictInv
<1> QED BY <1>3, <1>4

LEMMA SubmissionStep ==
  VerdictInv /\ [VerdictNext]_verdictVars => [UnservedIs]_form /\ [OrderIs]_form
<1> SUFFICES ASSUME VerdictInv, VerdictNext, form' # form PROVE UnservedIs /\ OrderIs
  BY DEF verdictVars
<1>0. form.chosen \in Selections /\ form.files \in Seq(Files) /\ (RD \notin form.out /\ form.chosen # <<>> => form.chosen[1] = RD)
  BY DEF VerdictInv, FormInv, FormType
<1>1. UnservedIs
  <2> SUFFICES ASSUME CanStart, form'.answer # "none", form.tab = "upload",
                      Head(form.files).ext \in Named, Unserved(Head(form.files))
               PROVE  Why(Head(form.files), Members(form.chosen))
    BY DEF UnservedIs
  <2>1. Submit(form'.answer)
    BY Submits
  <2>2. form'.answer \in Answers(Head(form.files), form.chosen)
    BY <2>1 DEF Submit
  <2>3. Head(form.files) \in Files
    BY <1>0 DEF CanStart
  <2>4. Members(form.chosen) \subseteq Providers
    BY <1>0, Chosen DEF CanStart
  <2> QED BY <2>2, <2>3, <2>4, WhyUnserved DEF Unserved
<1>2. OrderIs
  BY <1>0 DEF OrderIs, CanStart, RD
<1> QED BY <1>1, <1>2

\* Whatever is submitted: a file the page names is refused, or stored and never answered,
\* only in the cases listed, and Hive gives the row its verdict before Reality Defender
\* only if the user has taken Reality Defender out (the page, the upload's filter,
\* resolveProviderIdsForScan and the adapters).
THEOREM SubmissionsAreExplained == VerdictSpec => SubmissionExplained
<1>1. VerdictInv /\ [VerdictNext]_verdictVars => [UnservedIs]_form /\ [OrderIs]_form
  BY SubmissionStep
<1>2. VerdictSpec => [][UnservedIs]_form /\ [][OrderIs]_form
  BY <1>1, VerdictInvariant, PTL DEF VerdictSpec
<1>3. SubmissionExplained <=> [][UnservedIs]_form /\ [][OrderIs]_form
  BY PTL DEF SubmissionExplained, UnservedExplained, OrderExplained, UnservedIs, OrderIs, Why, RD
<1> QED BY <1>2, <1>3, PTL

=============================================================================
