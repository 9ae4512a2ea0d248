----------------------------- MODULE StorageProofs -----------------------------
(***************************************************************************)
(* Proofs about StorageMigration and StorageAudit for any number of rows,  *)
(* script processes and requests and under every fault, when at most one   *)
(* run of migrate-s3-scan-keys is at work.                                 *)
(***************************************************************************)
EXTENDS StorageAudit, TLAPS, FiniteSetTheorems, WellFoundedInduction

-----------------------------------------------------------------------------
(* The row of a script's turn, and the row a retry inserts *)

\* A set of rows has a first and a last one.
LEMMA LeastOf ==
  ASSUME NEW S \in SUBSET (0..Rows), S # {}
  PROVE  \E n \in S : \A m \in S : n <= m
<1> DEFINE Below(s) == {t \in S : t < s}
           T == {Below(s) : s \in S}
<1>1. T \subseteq FiniteSubsetsOf(S) /\ T # {}
  <2>1. IsFiniteSet(S)
    <3>1. Rows \in Int /\ 0 \in Int
      BY StorageAssumption
    <3>2. IsFiniteSet(0..Rows)
      BY <3>1, FS_Interval
    <3> QED BY <3>2, FS_Subset
  <2>2. \A s \in S : Below(s) \subseteq S /\ IsFiniteSet(Below(s))
    BY <2>1, FS_Subset
  <2> QED BY <2>2 DEF FiniteSubsetsOf
<1>2. PICK A \in T : \A B \in T : <<B, A>> \notin StrictSubsetOrdering(S)
  <2> HIDE DEF T
  <2> QED BY <1>1, FS_StrictSubsetOrderingWellFounded, WFMin
<1>3. PICK s \in S : A = Below(s)
  BY <1>2
<1>4. \A n \in S : n \in Int
  <2>1. \A n \in 0..Rows : n \in Int
    OBVIOUS
  <2> QED BY <2>1
<1>5. Below(s) = {}
  <2> SUFFICES ASSUME NEW t \in Below(s) PROVE FALSE
    OBVIOUS
  <2>1. Below(t) \subseteq Below(s) /\ t \notin Below(t)
    <3>1. t \in S /\ t \in Int /\ s \in Int /\ t < s
      BY <1>4
    <3>2. (\A x \in S : x < t => x < s) /\ ~(t < t)
      BY <1>4, <3>1
    <3> QED BY <3>1, <3>2
  <2>2. <<Below(t), Below(s)>> \in StrictSubsetOrdering(S)
    BY <2>1 DEF StrictSubsetOrdering
  <2> QED BY <1>2, <1>3, <2>2
<1> QED BY <1>4, <1>5

LEMMA LeastRow ==
  ASSUME NEW S \in SUBSET Scans, S # {}
  PROVE  Min(S) \in S
<1>1. S \in SUBSET (0..Rows)
  BY StorageAssumption DEF Scans
<1>2. \E n \in S : \A m \in S : n <= m
  BY <1>1, LeastOf
<1> QED BY <1>2 DEF Min

LEMMA GreatestRow ==
  ASSUME NEW S \in SUBSET Scans, S # {}
  PROVE  Max(S) \in S /\ Max(S) + 1 \notin S
<1> DEFINE D == {Rows - x : x \in S}
<1>1. Rows \in Nat /\ S \subseteq 1..Rows
  BY StorageAssumption DEF Scans
<1>2. D \in SUBSET (0..Rows) /\ D # {}
  <2>1. \A x \in 1..Rows : Rows - x \in 0..Rows
    BY <1>1
  <2> QED BY <1>1, <2>1
<1>3. PICK n \in D : \A m \in D : n <= m
  <2> HIDE DEF D
  <2> QED BY <1>2, LeastOf
<1>4. PICK x \in S : n = Rows - x
  BY <1>3
<1>5. \A y \in S : x >= y
  <2> TAKE y \in S
  <2>1. Rows - x <= Rows - y
    BY <1>3, <1>4
  <2>2. x \in 1..Rows /\ y \in 1..Rows
    BY <1>1
  <2> QED BY <1>1, <2>1, <2>2
<1>6. Max(S) \in S /\ \A y \in S : Max(S) >= y
  BY <1>5 DEF Max
<1>7. \A y \in 1..Rows : y \in Nat
  BY <1>1
<1>8. Max(S) \in Nat
  BY <1>1, <1>6, <1>7
<1> QED BY <1>6, <1>8

-----------------------------------------------------------------------------
(* Keys and types *)

LEMMA KeyFacts ==
  /\ NoKey \notin Keys
  /\ \A s \in Scans : Flat(s) \in Keys /\ Structured(s) \in Keys
  /\ \A s \in Scans : Structured(s).layout = "structured" /\ Structured(s).of = s
  /\ \A s, t \in Scans : Structured(s) = Structured(t) => s = t
  /\ \A k \in Keys : k.layout = "structured" => k = Structured(k.of) /\ k.of \in Scans
  /\ \A k \in Keys : k.layout \in {"flat", "structured"}
  /\ NoKey.layout = "none"
<1>1. /\ NoKey \notin Keys /\ NoKey.layout = "none"
      /\ \A s \in Scans : Flat(s) \in Keys /\ Structured(s) \in Keys
      /\ \A s \in Scans : Structured(s).layout = "structured" /\ Structured(s).of = s
      /\ \A k \in Keys : k.layout \in {"flat", "structured"}
  BY DEF NoKey, Keys, Flat, Structured
<1>2. \A k \in Keys : k.layout = "structured" => k = Structured(k.of) /\ k.of \in Scans
  BY DEF Keys, Structured
<1>3. \A s, t \in Scans : Structured(s) = Structured(t) => s = t
  BY <1>1
<1> QED BY <1>1, <1>2, <1>3

LEMMA Blanks == Idle \in Run /\ NoRow \in Row /\ NoRequest \in Request
<1>1. Idle \in Run
  BY DEF Idle, Run
<1> QED BY <1>1 DEF NoRow, Row, NoRequest, Request

\* At its turn a script has a row to do.
LEMMA TurnHasRow ==
  ASSUME TypeOK, NEW p \in Runs, Todo(p) # {}
  PROVE  /\ Current(p) \in Todo(p) /\ Current(p) \in Scans
         /\ SeenKey(p) \in Keys /\ Target(p) \in Keys /\ Target(p).layout = "structured"
         /\ Target(p) = Structured(Current(p))
<1>1. Todo(p) \in SUBSET Scans
  BY DEF Todo
<1>2. Current(p) \in Todo(p)
  BY <1>1, LeastRow DEF Current
<1>3. SeenKey(p) \in Keys
  BY <1>1, <1>2 DEF Todo, SeenKey, TypeOK, Run
<1> QED BY <1>1, <1>2, <1>3, KeyFacts DEF Target

(***************************************************************************)
(* How a step of a script changes the run: it goes to another place with   *)
(* the same rows to do, or it is done with the row of its turn.            *)
(***************************************************************************)
Others(p) == \A o \in Runs \ {p} : run'[o] = run[o]

Stays(p, at) ==
  /\ run'[p].at = at /\ run'[p].script = run[p].script /\ run'[p].seen = run[p].seen
  /\ run'[p].deletes = run[p].deletes

Drops(p) ==
  /\ \/ run'[p] = Idle
     \/ run'[p].script = run[p].script /\ run'[p].at = "next"
  /\ \A s \in Scans : run'[p].seen[s] # NoKey => s # Current(p) /\ run'[p].seen[s] = run[p].seen[s]

Places == {"next", "put", "head", "copy", "verify", "update", "undo", "delete", "unlink"}

LEMMA GoToStays ==
  ASSUME TypeOK, NEW p \in Runs, NEW at \in Places,
         GoTo(p, at) \/ run' = [run EXCEPT ![p].at = at, ![p].copied = TRUE]
  PROVE  run' \in [Runs -> Run] /\ Others(p) /\ Stays(p, at)
<1>1. run[p] \in Run /\ run \in [Runs -> Run]
  BY DEF TypeOK
<1>2. [run[p] EXCEPT !.at = at] \in Run /\ [run[p] EXCEPT !.at = at, !.copied = TRUE] \in Run
  BY <1>1 DEF Run, Places
<1>3. run'[p] = [run[p] EXCEPT !.at = at] \/ run'[p] = [run[p] EXCEPT !.at = at, !.copied = TRUE]
  BY <1>1 DEF GoTo
<1>4. run' \in [Runs -> Run] /\ Others(p)
  BY <1>1, <1>2 DEF GoTo, Others
<1>5. Stays(p, at)
  BY <1>1, <1>3 DEF Run, Stays
<1> QED BY <1>4, <1>5

LEMMA RowDoneDrops ==
  ASSUME TypeOK, NEW p \in Runs, Todo(p) # {}, RowDone(p)
  PROVE  run' \in [Runs -> Run] /\ Others(p) /\ Drops(p)
<1> DEFINE c == Current(p)
           next == [run[p] EXCEPT !.seen[c] = NoKey, !.at = "next", !.copied = FALSE]
<1>1. run[p] \in Run /\ run \in [Runs -> Run] /\ c \in Scans
  BY TurnHasRow DEF TypeOK
<1>2. next \in Run
  BY <1>1 DEF Run
<1>3. run' = [run EXCEPT ![p] = IF Todo(p) = {c} THEN Idle ELSE next]
  BY DEF RowDone
<1>4. run' \in [Runs -> Run] /\ Others(p) /\ (run'[p] = Idle \/ run'[p] = next)
  BY <1>1, <1>2, <1>3, Blanks DEF Others
<1>5. CASE run'[p] = Idle
  BY <1>4, <1>5 DEF Drops, Idle
<1>6. CASE run'[p] = next
  <2>1. next.script = run[p].script /\ next.at = "next" /\ next.seen = [run[p].seen EXCEPT ![c] = NoKey]
    BY <1>1 DEF Run
  <2>2. \A s \in Scans : next.seen[s] # NoKey => s # c /\ next.seen[s] = run[p].seen[s]
    BY <1>1, <2>1 DEF Run
  <2> HIDE DEF next
  <2> QED BY <1>4, <1>6, <2>1, <2>2 DEF Drops
<1> QED BY <1>4, <1>5, <1>6

-----------------------------------------------------------------------------
(* The inductive invariant *)

\* A row on S3 names, or named before its move, the key: a file under it is a spare copy.
Taken(key) == \E t \in Inserted : row[t].provider = "s3" /\ (row[t].key = key \/ row[t].old = key)

\* The object of a flat key is there, or a row was moved away from it and has its copy.
FlatKept(key) ==
  key \in objects \/ \E t \in Inserted : row[t].old = key /\ t \notin unsure /\ row[t].key \in objects

Kept(provider, key) ==
  /\ provider = "local" => key \in files \/ Taken(key)
  /\ provider = "s3" /\ key.layout = "flat" => FlatKept(key)
  /\ provider = "s3" /\ key.layout = "structured" => key \in objects \/ key.of \in unsure

\* A structured key is the key of the row it is made of, whoever else shares it.
OwnerHas(key) == key.layout = "structured" => key.of \in Inserted /\ row[key.of].key = key

UploadKept(provider, key) ==
  provider \in {"local", "s3"} /\ key \in Keys /\ Kept(provider, key) /\ OwnerHas(key)

RowKept(s) ==
  /\ UploadKept(row[s].provider, row[s].key)
  /\ row[s].old # NoKey => FlatKept(row[s].old)
  /\ row[s].old # NoKey =>
       row[s].provider = "s3" /\ row[s].key = Structured(s) /\ row[s].old.layout = "flat"
  /\ s \in unsure => row[s].old # NoKey

MediaKept ==
  /\ \A s \in Inserted : RowKept(s)
  /\ \A q \in Requests : retry[q].at # "none" => UploadKept(retry[q].provider, retry[q].key)
  /\ unsure \subseteq Inserted

\* A run of migrate-s3-scan-keys finds the rows it has still to do as it selected
\* them, but for the row of its turn once it has updated that.
KeyRowsFound(p) ==
  \A s \in Todo(p) :
    /\ row[s].provider = "s3"
    /\ \/ row[s].key = run[p].seen[s] /\ row[s].old = NoKey
       \/ /\ s = Current(p) /\ run[p].at = "delete" /\ s \notin unsure
          /\ row[s].old = run[p].seen[s] /\ row[s].key = Target(p) /\ Target(p) \in objects
       \/ s = Current(p) /\ run[p].at = "undo" /\ s \in unsure

CleanupRowsFound(p) ==
  \A s \in Todo(p) : row[s].provider = "s3" /\ run[p].seen[s] \in {row[s].key, row[s].old}

RunKnows(p) ==
  /\ Todo(p) \subseteq Inserted
  /\ run[p].script = "keys" => KeyRowsFound(p)
  /\ At(p, "keys", "delete") => row[Current(p)].old = SeenKey(p)
  /\ run[p].script = "cleanup" => CleanupRowsFound(p)

\* What a run relies on even after the rows were deleted.
RunReady(p) ==
  /\ run[p].script = "keys" => \A s \in Todo(p) : run[p].seen[s].layout = "flat"
  /\ At(p, "local", "update") /\ row[Current(p)].provider = "local" => Target(p) \in objects
  /\ At(p, "keys", "update") => Target(p) \in objects

OneKeyRun == \A p, q \in Runs : run[p].script = "keys" /\ run[q].script = "keys" => p = q

StoreInv ==
  /\ TypeOK /\ OneKeyRun
  /\ \A p \in Runs : RunReady(p)
  /\ Inserted # {} => MediaKept /\ \A p \in Runs : RunKnows(p)

-----------------------------------------------------------------------------
(* What the scripts know of the rows *)

\* A step of anything else leaves a run what it relies on.
Calm(p) ==
  /\ \A s \in Todo(p) :
       \/ row'[s] = row[s]
       \/ row[s].provider = "local" /\ row'[s].provider = "s3"
       \/ /\ run[p].script # "keys" /\ row[s].provider = "s3" /\ row'[s].provider = "s3"
          /\ row[s].old = NoKey /\ row'[s].old = row[s].key
  /\ \A s \in Scans : Structured(s) \in objects =>
       Structured(s) \in objects' \/ (run[p].script # "keys" /\ row[s].provider # "local")
  /\ run[p].script = "keys" => unsure' = unsure
  /\ Inserted \subseteq Inserted'

LEMMA RunFrame ==
  ASSUME TypeOK, NEW p \in Runs, RunReady(p), run'[p] = run[p], Calm(p)
  PROVE  /\ RunReady(p)'
         /\ RunKnows(p) => RunKnows(p)'
<1>1. Todo(p)' = Todo(p) /\ Current(p)' = Current(p) /\ Target(p)' = Target(p) /\ SeenKey(p)' = SeenKey(p)
  BY DEF Todo, Current, Target, SeenKey
<1>2. Todo(p) # {} => Current(p) \in Todo(p) /\ Current(p) \in Scans /\ Target(p) = Structured(Current(p))
  BY TurnHasRow
<1>3. \A script, at : At(p, script, at)' <=> At(p, script, at)
  BY <1>1 DEF At
<1>4. RunReady(p)'
  <2>1. run'[p].script = "keys" => \A s \in Todo(p)' : run'[p].seen[s].layout = "flat"
    BY <1>1 DEF RunReady
  <2>2. ASSUME At(p, "local", "update"), row'[Current(p)].provider = "local"
        PROVE  Target(p) \in objects'
    <3>1. Todo(p) # {} /\ run[p].script # "keys"
      BY <2>2 DEF At
    <3>2. row'[Current(p)] = row[Current(p)]
      BY <1>2, <2>2, <3>1 DEF Calm
    <3>3. Target(p) \in objects
      BY <2>2, <3>2 DEF RunReady
    <3> QED BY <1>2, <2>2, <3>1, <3>2, <3>3 DEF Calm
  <2>3. ASSUME At(p, "keys", "update")
        PROVE  Target(p) \in objects'
    <3>1. Todo(p) # {} /\ run[p].script = "keys" /\ Target(p) \in objects
      BY <2>3 DEF At, RunReady
    <3> QED BY <1>2, <3>1 DEF Calm
  <2> QED BY <1>1, <1>3, <2>1, <2>2, <2>3 DEF RunReady
<1>5. ASSUME RunKnows(p) PROVE RunKnows(p)'
  <2>1. Todo(p)' \subseteq Inserted'
    BY <1>1, <1>5 DEF RunKnows, Calm
  <2>2. ASSUME run[p].script = "keys" PROVE KeyRowsFound(p)'
    <3>1. \A s \in Todo(p) : row'[s] = row[s]
      BY <1>5, <2>2 DEF RunKnows, KeyRowsFound, Calm
    <3>2. Todo(p) # {} => (Target(p) \in objects => Target(p) \in objects')
      BY <1>2, <2>2 DEF Calm
    <3>3. unsure' = unsure
      BY <2>2 DEF Calm
    <3> QED BY <1>1, <1>5, <2>2, <3>1, <3>2, <3>3 DEF RunKnows, KeyRowsFound
  <2>3. ASSUME At(p, "keys", "delete") PROVE row'[Current(p)].old = SeenKey(p)
    <3>1. Todo(p) # {} /\ run[p].script = "keys"
      BY <2>3 DEF At
    <3>2. row'[Current(p)] = row[Current(p)]
      BY <1>2, <1>5, <3>1 DEF RunKnows, KeyRowsFound, Calm
    <3> QED BY <1>5, <2>3, <3>2 DEF RunKnows
  <2>4. ASSUME run[p].script = "cleanup" PROVE CleanupRowsFound(p)'
    <3> SUFFICES ASSUME NEW s \in Todo(p)
                 PROVE  row'[s].provider = "s3" /\ run'[p].seen[s] \in {row'[s].key, row'[s].old}
      BY <1>1 DEF CleanupRowsFound
    <3>1. row[s].provider = "s3" /\ run[p].seen[s] \in {row[s].key, row[s].old} /\ run[p].seen[s] # NoKey
      BY <1>5, <2>4 DEF RunKnows, CleanupRowsFound, Todo
    <3> QED BY <3>1 DEF Calm
  <2> QED BY <1>1, <1>3, <2>1, <2>2, <2>3, <2>4 DEF RunKnows
<1> QED BY <1>4, <1>5

\* A run that is done with the row of its turn.
LEMMA RunDrops ==
  ASSUME TypeOK, NEW p \in Runs, RunReady(p), Drops(p), Todo(p) # {},
         \A s \in Todo(p) \ {Current(p)} : row'[s] = row[s],
         Inserted \subseteq Inserted'
  PROVE  /\ RunReady(p)'
         /\ RunKnows(p) => RunKnows(p)'
<1>1. \A s \in Todo(p)' : s \in Todo(p) \ {Current(p)} /\ run'[p].seen[s] = run[p].seen[s]
  BY DEF Drops, Todo
<1>2. (run'[p].script = run[p].script /\ run'[p].at = "next") \/ run'[p].script = "none"
  BY DEF Drops, Idle
<1>3. ~At(p, "local", "update")' /\ ~At(p, "keys", "update")' /\ ~At(p, "keys", "delete")'
  BY <1>2 DEF At
<1>4. RunReady(p)'
  BY <1>1, <1>2, <1>3 DEF RunReady
<1>5. ASSUME RunKnows(p) PROVE RunKnows(p)'
  <2>1. Todo(p)' \subseteq Inserted'
    BY <1>1, <1>5 DEF RunKnows
  <2>2. run'[p].script = "keys" => KeyRowsFound(p)'
    BY <1>1, <1>2, <1>5 DEF RunKnows, KeyRowsFound
  <2>3. run'[p].script = "cleanup" => CleanupRowsFound(p)'
    BY <1>1, <1>2, <1>5 DEF RunKnows, CleanupRowsFound
  <2> QED BY <1>3, <2>1, <2>2, <2>3 DEF RunKnows
<1> QED BY <1>4, <1>5

\* A run that goes on with the row of its turn and has changed no row.
LEMMA RunStays ==
  ASSUME TypeOK, NEW p \in Runs, RunReady(p), NEW at \in Places, Stays(p, at), Todo(p) # {},
         run[p].at \notin {"delete", "undo"}, at # "delete", UNCHANGED <<row, unsure>>,
         at = "update" => Target(p) \in objects'
  PROVE  /\ RunReady(p)'
         /\ RunKnows(p) => RunKnows(p)'
<1>1. Todo(p)' = Todo(p) /\ Current(p)' = Current(p) /\ Target(p)' = Target(p) /\ Inserted' = Inserted
  BY DEF Stays, Todo, Current, Target, Inserted
<1>2. RunReady(p)'
  BY <1>1 DEF RunReady, At, Stays
<1>3. ASSUME RunKnows(p) PROVE RunKnows(p)'
  <2>1. run'[p].script = "keys" => KeyRowsFound(p)'
    BY <1>1, <1>3 DEF RunKnows, KeyRowsFound, Stays
  <2>2. run'[p].script = "cleanup" => CleanupRowsFound(p)'
    BY <1>1, <1>3 DEF RunKnows, CleanupRowsFound, Stays
  <2>3. ~At(p, "keys", "delete")'
    BY DEF At, Stays
  <2> QED BY <1>1, <1>3, <2>1, <2>2, <2>3 DEF RunKnows
<1> QED BY <1>2, <1>3

-----------------------------------------------------------------------------
(* What is kept of the uploads *)

\* A step keeps what rows and requests rely on.
KeepsMedia ==
  /\ \A k \in Keys : k.layout = "flat" /\ FlatKept(k) => FlatKept(k)'
  /\ \A k \in Keys : k \in files \/ Taken(k) => k \in files' \/ Taken(k)'
  /\ \A k \in Keys : k.layout = "structured" /\ OwnerHas(k) /\ (k \in objects \/ k.of \in unsure) =>
                       k \in objects' \/ k.of \in unsure'
  /\ \A k \in Keys : OwnerHas(k) => OwnerHas(k)'

LEMMA UploadStaysKept ==
  ASSUME KeepsMedia, NEW provider, NEW k, UploadKept(provider, k)
  PROVE  UploadKept(provider, k)'
<1>1. provider \in {"local", "s3"} /\ k \in Keys /\ Kept(provider, k) /\ OwnerHas(k)
  BY DEF UploadKept
<1>2. OwnerHas(k)'
  BY <1>1 DEF KeepsMedia
<1>3. provider = "local" => k \in files' \/ Taken(k)'
  BY <1>1 DEF KeepsMedia, Kept
<1>4. provider = "s3" /\ k.layout = "flat" => FlatKept(k)'
  BY <1>1 DEF KeepsMedia, Kept
<1>5. provider = "s3" /\ k.layout = "structured" => k \in objects' \/ k.of \in unsure'
  BY <1>1 DEF KeepsMedia, Kept
<1> QED BY <1>1, <1>2, <1>3, <1>4, <1>5 DEF UploadKept, Kept

LEMMA MediaStaysKept ==
  ASSUME TypeOK, MediaKept, KeepsMedia, unsure' \subseteq Inserted',
         \A s \in Inserted' : \/ s \in Inserted /\ row'[s] = row[s] /\ (s \in unsure' => s \in unsure)
                              \/ RowKept(s)',
         \A q \in Requests : \/ retry'[q] \in {retry[q], NoRequest}
                             \/ retry'[q] = [retry[q] EXCEPT !.at = "insert"] /\ retry[q].at # "none"
                             \/ \E s \in Inserted : /\ retry'[q].provider = row[s].provider
                                                     /\ retry'[q].key = row[s].key
  PROVE  MediaKept'
<1>1. \A s \in Inserted' : RowKept(s)'
  <2> SUFFICES ASSUME NEW s \in Inserted', s \in Inserted, row'[s] = row[s], s \in unsure' => s \in unsure
               PROVE  RowKept(s)'
    OBVIOUS
  <2>1. RowKept(s)
    BY DEF MediaKept
  <2>2. row[s] \in Row
    BY DEF TypeOK, Inserted
  <2>3. UploadKept(row[s].provider, row[s].key)'
    BY <2>1, UploadStaysKept DEF RowKept
  <2>4. row[s].old # NoKey => FlatKept(row[s].old)'
    BY <2>1, <2>2 DEF RowKept, KeepsMedia, Row
  <2> QED BY <2>1, <2>3, <2>4 DEF RowKept
<1>2. ASSUME NEW q \in Requests, retry'[q].at # "none"
      PROVE  UploadKept(retry[q].provider, retry[q].key)'
  <2>1. PICK provider, k : UploadKept(provider, k) /\ retry'[q].provider = provider /\ retry'[q].key = k
    <3>1. retry'[q] # NoRequest /\ retry[q] \in Request
      BY <1>2 DEF NoRequest, TypeOK
    <3>2. CASE retry'[q] = retry[q]
      BY <1>2, <3>2 DEF MediaKept
    <3>3. CASE retry'[q] = [retry[q] EXCEPT !.at = "insert"] /\ retry[q].at # "none"
      <4>1. retry'[q].provider = retry[q].provider /\ retry'[q].key = retry[q].key
        BY <3>1, <3>3 DEF Request
      <4> QED BY <3>3, <4>1 DEF MediaKept
    <3>4. CASE \E s \in Inserted : retry'[q].provider = row[s].provider /\ retry'[q].key = row[s].key
      BY <3>4 DEF MediaKept, RowKept
    <3> QED BY <3>1, <3>2, <3>3, <3>4
  <2>2. UploadKept(provider, k)'
    BY <2>1, UploadStaysKept
  <2> QED BY <2>1, <2>2 DEF UploadKept, Kept, OwnerHas, FlatKept, Taken
<1> QED BY <1>1, <1>2 DEF MediaKept

-----------------------------------------------------------------------------
(* Steps of a script that change no row *)

Moves(p) ==
  \/ RowDone(p)
  \/ \E at \in Places :
       /\ GoTo(p, at) \/ run' = [run EXCEPT ![p].at = at, ![p].copied = TRUE]
       /\ at # "delete" /\ run[p].at \notin {"delete", "undo"}
       /\ at = "update" => Target(p) \in objects'

LEMMA Moved ==
  ASSUME StoreInv, NEW p \in Runs, Todo(p) # {}, Moves(p), UNCHANGED <<row, unsure>>
  PROVE  /\ run' \in [Runs -> Run] /\ Others(p)
         /\ run'[p].script \in {run[p].script, "none"}
         /\ RunReady(p)'
         /\ RunKnows(p) => RunKnows(p)'
<1>1. TypeOK /\ RunReady(p) /\ Inserted' = Inserted
  BY DEF StoreInv, Inserted
<1>2. CASE RowDone(p)
  <2>1. run' \in [Runs -> Run] /\ Others(p) /\ Drops(p)
    BY <1>1, <1>2, RowDoneDrops
  <2> QED BY <1>1, <2>1, RunDrops DEF Drops, Idle
<1>3. CASE ~RowDone(p)
  <2>1. PICK at \in Places :
          /\ GoTo(p, at) \/ run' = [run EXCEPT ![p].at = at, ![p].copied = TRUE]
          /\ at # "delete" /\ run[p].at \notin {"delete", "undo"}
          /\ at = "update" => Target(p) \in objects'
    BY <1>3 DEF Moves
  <2>2. run' \in [Runs -> Run] /\ Others(p) /\ Stays(p, at)
    BY <1>1, <2>1, GoToStays
  <2> QED BY <1>1, <2>1, <2>2, RunStays DEF Stays
<1> QED BY <1>2, <1>3

LEMMA RowsStay ==
  ASSUME StoreInv, NEW p \in Runs, Todo(p) # {}, Moves(p), UNCHANGED <<row, retry, unsure>>,
         files' \subseteq Keys, objects' \subseteq Keys,
         Inserted # {} => KeepsMedia,
         \A s \in Scans : Structured(s) \in objects =>
           Structured(s) \in objects' \/ (run[p].script = "keys" /\ row[s].provider # "local")
  PROVE  StoreInv'
<1>1. /\ run' \in [Runs -> Run] /\ Others(p) /\ run'[p].script \in {run[p].script, "none"}
      /\ RunReady(p)' /\ (RunKnows(p) => RunKnows(p)')
  BY Moved
<1>2. TypeOK' /\ TypeOK /\ Inserted' = Inserted
  BY <1>1 DEF StoreInv, TypeOK, Inserted
<1>3. OneKeyRun'
  BY <1>1 DEF StoreInv, OneKeyRun, Others
<1>4. \A o \in Runs \ {p} : run'[o] = run[o] /\ Calm(o)
  BY <1>1, <1>2 DEF Others, Calm, StoreInv, OneKeyRun
<1>5. \A o \in Runs \ {p} : RunReady(o)' /\ (RunKnows(o) => RunKnows(o)')
  BY <1>2, <1>4, RunFrame DEF StoreInv
<1>6. ASSUME Inserted # {} PROVE MediaKept'
  <2>1. \A s \in Inserted' : s \in Inserted /\ row'[s] = row[s] /\ (s \in unsure' => s \in unsure)
    BY <1>2
  <2>2. \A q \in Requests : retry'[q] \in {retry[q], NoRequest}
    OBVIOUS
  <2>3. MediaKept /\ unsure' \subseteq Inserted'
    BY <1>2, <1>6 DEF StoreInv, MediaKept
  <2> QED BY <1>2, <1>6, <2>1, <2>2, <2>3, MediaStaysKept
<1> QED BY <1>1, <1>2, <1>3, <1>5, <1>6 DEF StoreInv

\* Objects are added, at most.
LEMMA ObjectsGrow ==
  ASSUME StoreInv, NEW p \in Runs, Todo(p) # {}, Moves(p), UNCHANGED <<row, files, retry, unsure>>,
         objects \subseteq objects', objects' \subseteq Keys
  PROVE  StoreInv'
<1>1. Inserted' = Inserted
  BY DEF Inserted
<1>2. KeepsMedia
  BY <1>1 DEF KeepsMedia, FlatKept, Taken, OwnerHas
<1>3. files' \subseteq Keys
  BY DEF StoreInv, TypeOK
<1> QED BY <1>2, <1>3, RowsStay

LEMMA LocalSteps ==
  ASSUME StoreInv, NEW p \in Runs, ReadLocal(p) \/ PutObject(p) \/ VerifyPut(p)
  PROVE  StoreInv'
<1>1. TypeOK /\ Todo(p) # {} /\ Target(p) \in Keys
  <2>1. TypeOK /\ Todo(p) # {}
    BY DEF StoreInv, ReadLocal, PutObject, VerifyPut, At
  <2> QED BY <2>1, TurnHasRow
<1>2. /\ Moves(p) /\ UNCHANGED <<row, files, retry, unsure>>
      /\ objects \subseteq objects' /\ objects' \subseteq Keys
  <2>1. CASE ReadLocal(p)
    BY <1>1, <2>1 DEF ReadLocal, At, Moves, Places, TypeOK
  <2>2. CASE PutObject(p)
    BY <1>1, <2>2 DEF PutObject, At, Moves, Places, TypeOK
  <2>3. CASE VerifyPut(p)
    BY <1>1, <2>3 DEF VerifyPut, At, Moves, Places, TypeOK
  <2> QED BY <2>1, <2>2, <2>3
<1> QED BY <1>1, <1>2, ObjectsGrow

LEMMA KeySteps ==
  ASSUME StoreInv, NEW p \in Runs, HeadOld(p) \/ HeadNew(p) \/ CopyObject(p) \/ VerifyCopy(p)
  PROVE  StoreInv'
<1>1. TypeOK /\ Todo(p) # {} /\ Target(p) \in Keys
  <2>1. TypeOK /\ Todo(p) # {}
    BY DEF StoreInv, HeadOld, HeadNew, CopyObject, VerifyCopy, At
  <2> QED BY <2>1, TurnHasRow
<1>2. /\ Moves(p) /\ UNCHANGED <<row, files, retry, unsure>>
      /\ objects \subseteq objects' /\ objects' \subseteq Keys
  <2>1. CASE HeadOld(p)
    BY <1>1, <2>1 DEF HeadOld, At, Moves, Places, TypeOK
  <2>2. CASE HeadNew(p)
    BY <1>1, <2>2 DEF HeadNew, At, Moves, Places, TypeOK
  <2>3. CASE CopyObject(p)
    BY <1>1, <2>3 DEF CopyObject, At, Moves, Places, TypeOK
  <2>4. CASE VerifyCopy(p)
    BY <1>1, <2>4 DEF VerifyCopy, Fail, At, Moves, Places, TypeOK
  <2> QED BY <2>1, <2>2, <2>3, <2>4
<1> QED BY <1>1, <1>2, ObjectsGrow

LEMMA CleanupSteps ==
  ASSUME StoreInv, NEW p \in Runs, StatLocal(p) \/ HeadObject(p)
  PROVE  StoreInv'
<1>1. TypeOK /\ Todo(p) # {}
  BY DEF StoreInv, StatLocal, HeadObject, At
<1>2. /\ Moves(p) /\ UNCHANGED <<row, files, retry, unsure>>
      /\ objects \subseteq objects' /\ objects' \subseteq Keys
  <2>1. CASE StatLocal(p)
    BY <1>1, <2>1 DEF StatLocal, At, Moves, Places, TypeOK
  <2>2. CASE HeadObject(p)
    BY <1>1, <2>2 DEF HeadObject, At, Moves, Places, TypeOK
  <2> QED BY <2>1, <2>2
<1> QED BY <1>1, <1>2, ObjectsGrow

-----------------------------------------------------------------------------
(* Steps that take an object or a file away *)

\* The flat object goes only after its row was moved to the copy, which is there.
LEMMA DeleteOldKeeps == ASSUME StoreInv, NEW p \in Runs, DeleteOld(p) PROVE StoreInv'
<1> DEFINE c == Current(p)
<1>1. TypeOK /\ Todo(p) # {} /\ run[p].script = "keys" /\ At(p, "keys", "delete")
  BY DEF StoreInv, DeleteOld, At
<1>2. c \in Todo(p) /\ c \in Scans /\ SeenKey(p) \in Keys /\ SeenKey(p).layout = "flat"
  <2>1. RunReady(p)
    BY DEF StoreInv
  <2> QED BY <1>1, <2>1, TurnHasRow DEF RunReady, SeenKey
<1>3. objects \ {SeenKey(p)} \subseteq objects' /\ objects' \subseteq objects
  BY DEF DeleteOld
<1>4. \A k \in objects : k.layout = "structured" => k \in objects'
  BY <1>2, <1>3
<1>5. ASSUME Inserted # {} PROVE KeepsMedia
  <2>1. RunKnows(p) /\ MediaKept
    BY <1>5 DEF StoreInv
  <2>2. /\ c \in Inserted /\ row[c].old = SeenKey(p) /\ c \notin unsure
        /\ row[c].key = Structured(c) /\ Structured(c) \in objects
    <3>1. c \in Inserted /\ row[c].old = SeenKey(p) /\ KeyRowsFound(p) /\ run[p].at = "delete"
      BY <1>1, <1>2, <2>1 DEF RunKnows, At
    <3>2. SeenKey(p) # NoKey /\ Target(p) = Structured(c)
      BY <1>2, KeyFacts DEF Target
    <3> QED BY <1>2, <3>1, <3>2 DEF KeyRowsFound
  <2>3. Inserted' = Inserted /\ UNCHANGED <<row, files, unsure>>
    BY DEF DeleteOld, Inserted
  <2>4. ASSUME NEW k \in Keys, k.layout = "flat", FlatKept(k) PROVE FlatKept(k)'
    <3>1. CASE k \in objects /\ k # SeenKey(p)
      BY <1>3, <3>1 DEF FlatKept
    <3>2. CASE k = SeenKey(p)
      <4>1. row[c].key \in objects'
        BY <1>2, <1>4, <2>2, KeyFacts
      <4> QED BY <2>2, <2>3, <3>2, <4>1 DEF FlatKept
    <3>3. CASE k \notin objects
      <4>1. PICK t \in Inserted : row[t].old = k /\ t \notin unsure /\ row[t].key \in objects
        BY <2>4, <3>3 DEF FlatKept
      <4>2. row[t].key.layout = "structured"
        BY <2>1, <4>1, KeyFacts DEF MediaKept, RowKept, Inserted
      <4> QED BY <1>4, <2>3, <4>1, <4>2 DEF FlatKept
    <3> QED BY <3>1, <3>2, <3>3
  <2> QED BY <1>4, <2>3, <2>4 DEF KeepsMedia, Taken, OwnerHas
<1>6. Moves(p) /\ UNCHANGED <<row, retry, unsure>> /\ files' \subseteq Keys /\ objects' \subseteq Keys
  BY <1>1, <1>3 DEF DeleteOld, Moves, TypeOK
<1>7. \A s \in Scans : Structured(s) \in objects => Structured(s) \in objects'
  BY <1>4, KeyFacts
<1> QED BY <1>1, <1>5, <1>6, <1>7, RowsStay

\* The copy goes only while its row is at the flat key, unless the update was committed unseen.
LEMMA UndoKeeps == ASSUME StoreInv, NEW p \in Runs, Undo(p) PROVE StoreInv'
<1> DEFINE c == Current(p)
<1>1. TypeOK /\ Todo(p) # {} /\ run[p].script = "keys" /\ run[p].at = "undo"
  BY DEF StoreInv, Undo, At
<1>2. c \in Todo(p) /\ c \in Scans /\ Target(p) = Structured(c) /\ SeenKey(p).layout = "flat"
  <2>1. RunReady(p)
    BY DEF StoreInv
  <2> QED BY <1>1, <2>1, TurnHasRow DEF RunReady, SeenKey
<1>3. objects \ {Structured(c)} \subseteq objects' /\ objects' \subseteq objects
  BY <1>2 DEF Undo
<1>4. \A k \in objects : k # Structured(c) => k \in objects'
  BY <1>3
<1>5. ASSUME Inserted # {} PROVE /\ KeepsMedia
                                 /\ row[c].provider = "s3"
  <2>1. RunKnows(p) /\ MediaKept
    BY <1>5 DEF StoreInv
  <2>2. c \in Inserted /\ row[c].provider = "s3" /\ (row[c].key = SeenKey(p) \/ c \in unsure)
    BY <1>1, <1>2, <2>1 DEF RunKnows, KeyRowsFound, SeenKey
  <2>3. Inserted' = Inserted /\ UNCHANGED <<row, files, unsure>>
    BY DEF Undo, Inserted
  <2>4. ASSUME NEW k \in Keys, k.layout = "flat", FlatKept(k) PROVE FlatKept(k)'
    <3>1. CASE k \in objects
      <4>1. k # Structured(c)
        BY <1>2, <2>4, KeyFacts
      <4> QED BY <1>4, <3>1, <4>1 DEF FlatKept
    <3>2. CASE k \notin objects
      <4>1. PICK t \in Inserted : row[t].old = k /\ t \notin unsure /\ row[t].key \in objects
        BY <2>4, <3>2 DEF FlatKept
      <4>2. row[t].key = Structured(t) /\ t \in Scans
        BY <2>1, <4>1, KeyFacts DEF MediaKept, RowKept, Inserted
      <4>3. t # c
        BY <1>2, <2>2, <4>1, <4>2, KeyFacts
      <4>4. row[t].key \in objects'
        BY <1>2, <1>4, <4>1, <4>2, <4>3, KeyFacts
      <4> QED BY <2>3, <4>1, <4>4 DEF FlatKept
    <3> QED BY <3>1, <3>2
  <2>5. ASSUME NEW k \in Keys, k.layout = "structured", OwnerHas(k), k \in objects \/ k.of \in unsure
        PROVE  k \in objects' \/ k.of \in unsure'
    <3>1. CASE k # Structured(c)
      BY <1>4, <2>3, <2>5, <3>1
    <3>2. CASE k = Structured(c)
      BY <1>2, <2>2, <2>3, <2>5, <3>2, KeyFacts DEF OwnerHas
    <3> QED BY <3>1, <3>2
  <2> QED BY <2>2, <2>3, <2>4, <2>5 DEF KeepsMedia, Taken, OwnerHas
<1>6. Moves(p) /\ UNCHANGED <<row, retry, unsure>> /\ files' \subseteq Keys /\ objects' \subseteq Keys
  BY <1>1, <1>3 DEF Undo, Moves, TypeOK
<1>7. ASSUME NEW s \in Scans, Structured(s) \in objects
      PROVE  Structured(s) \in objects' \/ (run[p].script = "keys" /\ row[s].provider # "local")
  <2>1. CASE s # c
    BY <1>2, <1>4, <1>7, <2>1, KeyFacts
  <2>2. CASE s = c /\ Inserted # {}
    BY <1>1, <1>5, <2>2
  <2>3. CASE s = c /\ Inserted = {}
    BY <1>1, <1>2, <2>3 DEF Inserted
  <2> QED BY <2>1, <2>2, <2>3
<1>8. Inserted # {} => KeepsMedia
  BY <1>5
<1> QED BY <1>1, <1>6, <1>7, <1>8, RowsStay

\* The file goes only while a row on S3 names its key.
LEMMA UnlinkKeeps == ASSUME StoreInv, NEW p \in Runs, Unlink(p) PROVE StoreInv'
<1> DEFINE c == Current(p)
<1>1. TypeOK /\ Todo(p) # {} /\ run[p].script = "cleanup"
  BY DEF StoreInv, Unlink, At
<1>2. c \in Todo(p) /\ c \in Scans
  BY <1>1, TurnHasRow
<1>3. files \ {SeenKey(p)} \subseteq files' /\ files' \subseteq files
  BY DEF Unlink
<1>4. ASSUME Inserted # {} PROVE KeepsMedia
  <2>1. Taken(SeenKey(p))
    BY <1>1, <1>2, <1>4 DEF StoreInv, RunKnows, CleanupRowsFound, Taken, SeenKey
  <2>2. Inserted' = Inserted /\ UNCHANGED <<row, objects, unsure>>
    BY DEF Unlink, Inserted
  <2>3. \A k \in Keys : Taken(k)' <=> Taken(k)
    BY <2>2 DEF Taken
  <2>4. \A k \in Keys : k \in files \/ Taken(k) => k \in files' \/ Taken(k)'
    BY <1>3, <2>1, <2>3
  <2> QED BY <2>2, <2>4 DEF KeepsMedia, FlatKept, OwnerHas
<1>5. Moves(p) /\ UNCHANGED <<row, retry, unsure>> /\ files' \subseteq Keys /\ objects' \subseteq Keys
  BY <1>1, <1>3 DEF Unlink, Moves, TypeOK
<1>6. \A s \in Scans : Structured(s) \in objects => Structured(s) \in objects'
  BY DEF Unlink
<1> QED BY <1>1, <1>4, <1>5, <1>6, RowsStay

-----------------------------------------------------------------------------
(* Steps of a script that change a row, and where a script starts and ends *)

LEMMA RowsChange ==
  ASSUME StoreInv, NEW p \in Runs, TypeOK', Others(p), OneKeyRun', RunReady(p)', Inserted' = Inserted,
         \A o \in Runs \ {p} : Calm(o),
         Inserted # {} => MediaKept' /\ RunKnows(p)'
  PROVE  StoreInv'
<1>1. \A o \in Runs \ {p} : RunReady(o)' /\ (RunKnows(o) => RunKnows(o)')
  BY RunFrame DEF StoreInv, Others
<1> QED BY <1>1 DEF StoreInv

LEMMA UpdateLocalKeeps == ASSUME StoreInv, NEW p \in Runs, UpdateLocal(p) PROVE StoreInv'
<1>0. PICK c : c = Current(p)
  OBVIOUS
<1> DEFINE moved == [row EXCEPT ![c].provider = "s3", ![c].key = Target(p)]
<1>1. TypeOK /\ Todo(p) # {} /\ At(p, "local", "update") /\ run[p].script = "local" /\ RunReady(p) /\ RowDone(p)
  BY DEF StoreInv, UpdateLocal, At
<1>2. c \in Todo(p) /\ c \in Scans /\ Target(p) = Structured(c) /\ Target(p) \in Keys
  BY <1>0, <1>1, TurnHasRow
<1>3. UNCHANGED <<files, objects, retry, unsure>> /\ (row' = row \/ (row[c].provider = "local" /\ row' = moved))
  BY <1>0 DEF UpdateLocal
<1>4. CASE row' = row
  <2>1. Moves(p) /\ objects' \subseteq Keys
    BY <1>1, <1>3 DEF Moves, TypeOK
  <2> QED BY <1>1, <1>3, <1>4, <2>1, ObjectsGrow
<1>5. CASE row[c].provider = "local" /\ row' = moved
  <2>1. /\ row'[c].provider = "s3" /\ row'[c].key = Structured(c) /\ row'[c].old = row[c].old
        /\ row' \in [Scans -> Row] /\ c \in Inserted /\ \A s \in Scans \ {c} : row'[s] = row[s]
    BY <1>1, <1>2, <1>5 DEF TypeOK, Row, Inserted
  <2>2. Inserted' = Inserted
    BY <2>1 DEF Inserted
  <2>3. run' \in [Runs -> Run] /\ Others(p) /\ Drops(p)
    BY <1>1, RowDoneDrops
  <2>4. TypeOK'
    BY <1>1, <1>3, <2>1, <2>3 DEF TypeOK
  <2>5. OneKeyRun'
    BY <2>3 DEF StoreInv, OneKeyRun, Others, Drops, Idle
  <2>6. \A s \in Todo(p) \ {c} : row'[s] = row[s]
    BY <2>1 DEF Todo
  <2>7. RunReady(p)' /\ (RunKnows(p) => RunKnows(p)')
    BY <1>0, <1>1, <2>2, <2>3, <2>6, RunDrops
  <2>8. \A o \in Runs \ {p} : Calm(o)
    BY <1>3, <1>5, <2>1, <2>2 DEF Calm, Todo
  <2>9. MediaKept /\ Structured(c) \in objects /\ RowKept(c)
    BY <1>0, <1>1, <1>2, <1>5, <2>1 DEF StoreInv, RunReady, MediaKept
  <2>10. row[c].old = NoKey
    BY <1>5, <2>9 DEF RowKept
  <2>11. KeepsMedia
    <3>1. \A t \in Inserted \ {c} : t \in Inserted' /\ row'[t] = row[t]
      BY <2>1, <2>2 DEF Inserted
    <3>2. \A k \in Keys : FlatKept(k) => FlatKept(k)'
      BY <1>3, <2>10, <3>1, KeyFacts DEF FlatKept
    <3>3. \A k \in Keys : k \in files \/ Taken(k) => k \in files' \/ Taken(k)'
      BY <1>3, <1>5, <3>1 DEF Taken
    <3>4. ASSUME NEW k \in Keys, OwnerHas(k) PROVE OwnerHas(k)'
      <4>1. CASE k.layout = "structured"
        <5>1. k.of \in Inserted /\ row[k.of].key = k /\ k = Structured(k.of)
          BY <3>4, <4>1, KeyFacts DEF OwnerHas
        <5>2. row'[k.of].key = k
          BY <2>1, <3>1, <5>1
        <5> QED BY <2>2, <5>1, <5>2 DEF OwnerHas
      <4> QED BY <4>1 DEF OwnerHas
    <3> QED BY <1>3, <3>2, <3>3, <3>4 DEF KeepsMedia
  <2>12. RowKept(c)'
    <3>1. UploadKept("s3", Structured(c))'
      BY <1>2, <1>3, <2>1, <2>2, <2>9, KeyFacts DEF UploadKept, Kept, OwnerHas
    <3>2. c \notin unsure'
      BY <1>3, <2>9, <2>10 DEF RowKept
    <3> QED BY <2>1, <2>10, <3>1, <3>2 DEF RowKept, UploadKept, Kept, OwnerHas, FlatKept, Taken, Structured
  <2>13. MediaKept'
    <3>1. /\ unsure' \subseteq Inserted'
          /\ \A s \in Inserted' : \/ s \in Inserted /\ row'[s] = row[s] /\ (s \in unsure' => s \in unsure)
                                  \/ RowKept(s)'
      BY <1>3, <2>1, <2>2, <2>9, <2>12 DEF MediaKept, Inserted
    <3>2. \A q \in Requests : retry'[q] \in {retry[q], NoRequest}
      BY <1>3
    <3> QED BY <1>1, <2>9, <2>11, <3>1, <3>2, MediaStaysKept
  <2> QED BY <2>1, <2>2, <2>3, <2>4, <2>5, <2>7, <2>8, <2>13, RowsChange DEF StoreInv
<1> QED BY <1>3, <1>4, <1>5

\* The row moves from the flat key to its own, and remembers the flat one.
LEMMA UpdateKeyMoves ==
  ASSUME StoreInv, NEW p \in Runs, NEW c, c = Current(p), At(p, "keys", "update"), Inserted # {},
         row[c].provider = "s3", row[c].key = SeenKey(p),
         row' = [row EXCEPT ![c].old = row[c].key, ![c].key = Target(p)],
         UNCHANGED <<files, objects, retry>>, unsure' \in {unsure, unsure \union {c}}
  PROVE  /\ row' \in [Scans -> Row] /\ unsure' \subseteq Scans /\ Inserted' = Inserted
         /\ c \in Inserted /\ \A s \in Scans \ {c} : row'[s] = row[s]
         /\ row'[c].provider = "s3" /\ row'[c].key = Structured(c) /\ row'[c].old = SeenKey(p)
         /\ row[c].old = NoKey /\ c \notin unsure /\ Structured(c) \in objects
         /\ MediaKept'
<1>1. TypeOK /\ Todo(p) # {} /\ MediaKept /\ Target(p) \in objects
  BY DEF StoreInv, At, RunReady
<1>2. c \in Scans /\ SeenKey(p) \in Keys /\ SeenKey(p).layout = "flat" /\ Target(p) = Structured(c)
      /\ Target(p) \in Keys
  <2>1. RunReady(p) /\ run[p].script = "keys"
    BY DEF StoreInv, At
  <2> QED BY <1>1, <2>1, TurnHasRow DEF RunReady, SeenKey
<1>3. /\ row'[c].provider = "s3" /\ row'[c].key = Structured(c) /\ row'[c].old = row[c].key
      /\ row' \in [Scans -> Row] /\ c \in Inserted /\ \A s \in Scans \ {c} : row'[s] = row[s]
  BY <1>1, <1>2 DEF TypeOK, Row, Inserted
<1>4. Inserted' = Inserted
  BY <1>3 DEF Inserted
<1>5. row[c].old = NoKey /\ c \notin unsure
  BY <1>1, <1>2, <1>3, KeyFacts DEF MediaKept, RowKept
<1>6. \A t \in Inserted \ {c} : t \in Inserted' /\ row'[t] = row[t]
  BY <1>3, <1>4 DEF Inserted
<1>7. KeepsMedia
  <2>1. ASSUME NEW k \in Keys, FlatKept(k) PROVE FlatKept(k)'
    <3>1. CASE k \in objects
      BY <3>1 DEF FlatKept
    <3>2. CASE k \notin objects
      <4>1. PICK t \in Inserted : row[t].old = k /\ t \notin unsure /\ row[t].key \in objects
        BY <2>1, <3>2 DEF FlatKept
      <4>2. t # c
        BY <1>5, <4>1, KeyFacts
      <4>3. t \in Inserted' /\ row'[t] = row[t]
        BY <1>6, <4>1, <4>2
      <4>4. row'[t].old = k /\ row'[t].key \in objects'
        <5>1. objects' = objects
          OBVIOUS
        <5>2. row'[t].old = row[t].old /\ row'[t].key = row[t].key
          BY <4>3, Zenon
        <5> QED BY <4>1, <5>1, <5>2, Zenon
      <4>5. t \notin unsure'
        BY <4>1, <4>2
      <4> QED BY <4>3, <4>4, <4>5 DEF FlatKept
    <3> QED BY <3>1, <3>2
  <2>2. ASSUME NEW k \in Keys, Taken(k) PROVE Taken(k)'
    <3>1. PICK t \in Inserted : row[t].provider = "s3" /\ (row[t].key = k \/ row[t].old = k)
      BY <2>2 DEF Taken
    <3>2. t \in Inserted' /\ row'[t].provider = "s3" /\ (row'[t].key = k \/ row'[t].old = k)
      BY <1>3, <1>4, <1>5, <1>6, <3>1, KeyFacts
    <3> QED BY <3>2 DEF Taken
  <2>3. ASSUME NEW k \in Keys, OwnerHas(k) PROVE OwnerHas(k)'
    <3>1. CASE k.layout = "structured"
      <4>1. k.of \in Inserted /\ row[k.of].key = k
        BY <2>3, <3>1 DEF OwnerHas
      <4>2. k.of # c
        BY <1>2, <3>1, <4>1
      <4> QED BY <1>6, <4>1, <4>2 DEF OwnerHas
    <3> QED BY <3>1 DEF OwnerHas
  <2> QED BY <2>1, <2>2, <2>3 DEF KeepsMedia
<1>8. FlatKept(row[c].key)
  BY <1>1, <1>2, <1>3 DEF MediaKept, RowKept, UploadKept, Kept
<1>9. RowKept(c)'
  <2>1. PICK k : k = row[c].key /\ k = row'[c].old /\ k \in Keys /\ k.layout = "flat" /\ FlatKept(k)
    BY <1>2, <1>3, <1>8
  <2>2. (row[c].key)' \in Keys /\ (row[c].key)'.layout = "structured" /\ (row[c].key)'.of = c
    BY <1>2, <1>3, KeyFacts
  <2>3. UploadKept(row[c].provider, row[c].key)'
    BY <1>1, <1>2, <1>3, <1>4, <2>2 DEF UploadKept, Kept, OwnerHas
  <2>4. FlatKept(row[c].old)'
    <3>1. FlatKept(k)'
      BY <1>7, <2>1 DEF KeepsMedia
    <3> QED BY <2>1, <3>1 DEF FlatKept
  <2>5. (row[c].old)'.layout = "flat"
    BY <1>2, <1>3
  <2> QED BY <1>2, <1>3, <2>3, <2>4, <2>5 DEF RowKept, Structured, NoKey
<1>10. MediaKept'
  <2>1. /\ unsure' \subseteq Inserted'
        /\ \A s \in Inserted' : \/ s \in Inserted /\ row'[s] = row[s] /\ (s \in unsure' => s \in unsure)
                                \/ RowKept(s)'
    BY <1>1, <1>3, <1>4, <1>6, <1>9 DEF MediaKept
  <2>2. \A q \in Requests : retry'[q] \in {retry[q], NoRequest}
    OBVIOUS
  <2> QED BY <1>1, <1>7, <2>1, <2>2, MediaStaysKept
<1>11. unsure' \subseteq Scans
  BY <1>1, <1>2 DEF TypeOK
<1> QED BY <1>1, <1>2, <1>3, <1>4, <1>5, <1>10, <1>11

LEMMA UpdateKeyKeeps == ASSUME StoreInv, NEW p \in Runs, UpdateKey(p) PROVE StoreInv'
<1>0. PICK c : c = Current(p)
  OBVIOUS
<1>1. TypeOK /\ Todo(p) # {} /\ At(p, "keys", "update") /\ RunReady(p)
      /\ run[p].script = "keys" /\ run[p].at = "update" /\ UNCHANGED <<files, objects, retry>>
  BY DEF StoreInv, UpdateKey, At
<1>2. c \in Todo(p) /\ c \in Scans /\ Target(p) = Structured(c) /\ SeenKey(p) = run[p].seen[c]
  BY <1>0, <1>1, TurnHasRow DEF SeenKey
<1>3. CASE UNCHANGED <<row, unsure>> /\ Fail(p)
  <2>1. Moves(p) /\ objects' \subseteq Keys /\ objects \subseteq objects'
    BY <1>1, <1>3 DEF Fail, Moves, Places, TypeOK
  <2> QED BY <1>1, <1>3, <2>1, ObjectsGrow
<1>4. ASSUME row[c].provider = "s3", row[c].key = SeenKey(p),
             row' = [row EXCEPT ![c].old = row[c].key, ![c].key = Target(p)],
             \/ unsure' = unsure /\ (GoTo(p, "delete") \/ RowDone(p))
             \/ unsure' = unsure \union {c} /\ (GoTo(p, "undo") \/ RowDone(p))
      PROVE  StoreInv'
  <2>1. Inserted # {}
    BY <1>2, <1>4 DEF Inserted
  <2>2. /\ row' \in [Scans -> Row] /\ unsure' \subseteq Scans /\ Inserted' = Inserted
        /\ c \in Inserted /\ \A s \in Scans \ {c} : row'[s] = row[s]
        /\ row'[c].provider = "s3" /\ row'[c].key = Structured(c) /\ row'[c].old = SeenKey(p)
        /\ row[c].old = NoKey /\ c \notin unsure /\ Structured(c) \in objects
        /\ MediaKept'
    BY <1>0, <1>1, <1>4, <2>1, UpdateKeyMoves
  <2>3. RunKnows(p) /\ KeyRowsFound(p)
    BY <1>1, <2>1 DEF StoreInv, RunKnows
  <2>4. run' \in [Runs -> Run] /\ Others(p) /\ (Drops(p) \/ Stays(p, "delete") \/ Stays(p, "undo"))
    <3>1. ASSUME RowDone(p)
          PROVE  run' \in [Runs -> Run] /\ Others(p) /\ Drops(p)
      BY <1>1, <3>1, RowDoneDrops
    <3>2. ASSUME NEW at \in {"delete", "undo"}, GoTo(p, at)
          PROVE  run' \in [Runs -> Run] /\ Others(p) /\ Stays(p, at)
      <4>1. at \in Places
        BY DEF Places
      <4> QED BY <1>1, <3>2, <4>1, GoToStays
    <3> QED BY <1>4, <3>1, <3>2
  <2>5. TypeOK'
    BY <1>1, <2>2, <2>4 DEF TypeOK
  <2>6. OneKeyRun'
    BY <2>4 DEF StoreInv, OneKeyRun, Others, Drops, Stays, Idle
  <2>7. \A o \in Runs \ {p} : Calm(o)
    <3>1. \A o \in Runs \ {p} : run[o].script # "keys"
      BY <1>1 DEF StoreInv, OneKeyRun
    <3>2. row'[c].old = row[c].key
      BY <1>4, <2>2
    <3>3. objects' = objects
      BY <1>1
    <3> QED BY <1>4, <2>2, <3>1, <3>2, <3>3 DEF Calm, Todo
  <2>8. RunReady(p)' /\ RunKnows(p)'
    <3>1. CASE Drops(p)
      <4>1. \A s \in Todo(p) \ {Current(p)} : row'[s] = row[s]
        BY <1>0, <2>2 DEF Todo
      <4> QED BY <1>1, <2>2, <2>3, <3>1, <4>1, RunDrops
    <3>2. CASE Stays(p, "delete") \/ Stays(p, "undo")
      <4>1. /\ Todo(p)' = Todo(p) /\ Current(p)' = c /\ Target(p)' = Structured(c) /\ SeenKey(p)' = SeenKey(p)
            /\ run'[p].seen = run[p].seen /\ run'[p].script = "keys" /\ run'[p].at \in {"delete", "undo"}
        BY <1>0, <1>1, <1>2, <3>2 DEF Stays, Todo, Current, Target, SeenKey
      <4>2. RunReady(p)'
        BY <1>1, <4>1 DEF RunReady, At
      <4>3. \A s \in Todo(p) \ {c} : row'[s] = row[s]
        BY <2>2 DEF Todo
      <4>4. KeyRowsFound(p)'
        <5> SUFFICES ASSUME NEW s \in Todo(p)
                     PROVE  /\ row'[s].provider = "s3"
                            /\ \/ row'[s].key = run'[p].seen[s] /\ row'[s].old = NoKey
                               \/ /\ s = c /\ run'[p].at = "delete" /\ s \notin unsure'
                                  /\ row'[s].old = run'[p].seen[s] /\ row'[s].key = Structured(c)
                                  /\ Structured(c) \in objects'
                               \/ s = c /\ run'[p].at = "undo" /\ s \in unsure'
          BY <4>1 DEF KeyRowsFound
        <5>1. CASE s # c
          BY <1>0, <1>1, <2>3, <4>1, <4>3, <5>1 DEF KeyRowsFound
        <5>2. CASE s = c /\ run'[p].at = "delete"
          <6>1. unsure' = unsure /\ objects' = objects
            <7>1. ~RowDone(p) /\ ~GoTo(p, "undo")
              BY <1>1, <5>2, <2>5, <4>1, RowDoneDrops DEF GoTo, Drops, TypeOK, Run, Idle
            <7> QED BY <1>1, <1>4, <7>1
          <6> QED BY <1>2, <2>2, <4>1, <5>2, <6>1
        <5>3. CASE s = c /\ run'[p].at = "undo"
          <6>1. unsure' = unsure \union {c}
            <7>1. ~RowDone(p) /\ ~GoTo(p, "delete")
              BY <1>1, <5>3, <2>5, <4>1, RowDoneDrops DEF GoTo, Drops, TypeOK, Run, Idle
            <7> QED BY <1>4, <7>1
          <6> QED BY <2>2, <5>3, <6>1
        <5> QED BY <4>1, <5>1, <5>2, <5>3
      <4>5. Todo(p)' \subseteq Inserted'
        BY <2>2, <2>3, <4>1 DEF RunKnows
      <4>6. (row[Current(p)].old = SeenKey(p))'
        BY <2>2, <4>1
      <4> QED BY <4>1, <4>2, <4>4, <4>5, <4>6 DEF RunKnows
    <3> QED BY <2>4, <3>1, <3>2
  <2> QED BY <2>2, <2>4, <2>5, <2>6, <2>7, <2>8, RowsChange
<1>5. QED
  BY <1>0, <1>1, <1>3, <1>4 DEF UpdateKey, Fail

\* One run of migrate-s3-scan-keys at most: another starts only while there is none.
LEMMA StartKeeps ==
  ASSUME KeyRuns <= 1, StoreInv, NEW p \in Runs, NEW script \in {"local", "keys", "cleanup"}, Start(p, script)
  PROVE  StoreInv'
<1>1. TypeOK /\ run[p] = Idle /\ UNCHANGED <<row, files, objects, retry, unsure>>
  BY DEF StoreInv, Start
<1>2. PICK chosen \in Narrowed(script), deletes \in Deletes(script) :
        run' = [run EXCEPT ![p] = [Idle EXCEPT
                 !.script = script, !.deletes = deletes,
                 !.seen = [s \in Scans |-> IF s \in chosen THEN row[s].key ELSE NoKey]]]
  BY DEF Start
<1>3. chosen \subseteq Candidates(script) /\ deletes \in BOOLEAN
  BY DEF Narrowed, Deletes
<1> DEFINE started == [Idle EXCEPT
                 !.script = script, !.deletes = deletes,
                 !.seen = [s \in Scans |-> IF s \in chosen THEN row[s].key ELSE NoKey]]
<1>4. /\ started \in Run /\ started.script = script /\ started.at = "next"
      /\ \A s \in Scans : started.seen[s] = IF s \in chosen THEN row[s].key ELSE NoKey
  <2>1. [s \in Scans |-> IF s \in chosen THEN row[s].key ELSE NoKey] \in [Scans -> Keys \union {NoKey}]
    BY <1>1 DEF TypeOK, Row
  <2> QED BY <1>3, <2>1 DEF Idle, Run
<1> HIDE DEF started
<1>5. run' \in [Runs -> Run] /\ Others(p) /\ run'[p] = started
  BY <1>1, <1>2, <1>4 DEF TypeOK, Others, started
<1>6. TypeOK' /\ Inserted' = Inserted
  BY <1>1, <1>5 DEF TypeOK, Inserted
<1>7. \A s \in Todo(p)' : s \in chosen /\ s \in Inserted /\ run'[p].seen[s] = row[s].key
  BY <1>3, <1>4, <1>5 DEF Todo, Candidates, LocalCandidates, KeyCandidates, CleanupCandidates
<1>8. OneKeyRun'
  <2>1. CASE script = "keys"
    <3> DEFINE K == {o \in Runs : run[o].script = "keys"}
    <3>1. IsFiniteSet(K) /\ Cardinality(K) < KeyRuns /\ Cardinality(K) \in Nat /\ KeyRuns \in Nat
      BY <2>1, StorageAssumption, FS_Subset, FS_CardinalityType DEF Start
    <3>2. K = {}
      <4>1. Cardinality(K) = 0
        BY <3>1
      <4> QED BY <3>1, <4>1, FS_EmptySet
    <3> QED BY <1>5, <3>2 DEF OneKeyRun, Others
  <2>2. CASE script # "keys"
    BY <1>4, <1>5, <2>2 DEF StoreInv, OneKeyRun, Others
  <2> QED BY <2>1, <2>2
<1>9. RunReady(p)'
  BY <1>3, <1>4, <1>5, <1>7 DEF RunReady, At, Candidates, KeyCandidates
<1>10. Inserted # {} => MediaKept' /\ RunKnows(p)'
  <2>1. Inserted # {} => MediaKept'
    BY <1>1, <1>6 DEF StoreInv, MediaKept, RowKept, UploadKept, Kept, OwnerHas, FlatKept, Taken
  <2>2. Todo(p)' \subseteq Inserted' /\ ~At(p, "keys", "delete")'
    BY <1>4, <1>5, <1>6, <1>7 DEF At
  <2>3. run'[p].script = "keys" => KeyRowsFound(p)'
    BY <1>1, <1>3, <1>4, <1>5, <1>7 DEF KeyRowsFound, Candidates, KeyCandidates
  <2>4. run'[p].script = "cleanup" => CleanupRowsFound(p)'
    BY <1>1, <1>3, <1>4, <1>5, <1>7 DEF CleanupRowsFound, Candidates, CleanupCandidates
  <2> QED BY <2>1, <2>2, <2>3, <2>4 DEF RunKnows
<1>11. \A o \in Runs \ {p} : Calm(o)
  BY <1>1, <1>6 DEF Calm
<1> QED BY <1>5, <1>6, <1>8, <1>9, <1>10, <1>11, RowsChange

LEMMA CrashKeeps == ASSUME StoreInv, NEW p \in Runs, Crash(p) PROVE StoreInv'
<1>1. TypeOK /\ UNCHANGED <<row, files, objects, retry, unsure>> /\ run' = [run EXCEPT ![p] = Idle]
  BY DEF StoreInv, Crash
<1>2. run' \in [Runs -> Run] /\ Others(p) /\ run'[p] = Idle
  BY <1>1, Blanks DEF TypeOK, Others
<1>3. TypeOK' /\ Inserted' = Inserted /\ Todo(p)' = {} /\ run'[p].script = "none"
  BY <1>1, <1>2 DEF TypeOK, Inserted, Todo, Idle
<1>4. OneKeyRun'
  BY <1>2, <1>3 DEF StoreInv, OneKeyRun, Others
<1>5. RunReady(p)'
  BY <1>3 DEF RunReady, At
<1>6. Inserted # {} => MediaKept' /\ RunKnows(p)'
  <2>1. Inserted # {} => MediaKept'
    BY <1>1, <1>3 DEF StoreInv, MediaKept, RowKept, UploadKept, Kept, OwnerHas, FlatKept, Taken
  <2>2. RunKnows(p)'
    BY <1>3 DEF RunKnows, At
  <2> QED BY <2>1, <2>2
<1>7. \A o \in Runs \ {p} : Calm(o)
  BY <1>1, <1>3 DEF Calm
<1> QED BY <1>2, <1>3, <1>4, <1>5, <1>6, <1>7, RowsChange

-----------------------------------------------------------------------------
(* The API's steps *)

LEMMA RunsUntouched ==
  ASSUME StoreInv, run' = run, \A p \in Runs : Calm(p)
  PROVE  OneKeyRun' /\ \A p \in Runs : RunReady(p)' /\ (RunKnows(p) => RunKnows(p)')
<1>1. \A p \in Runs : RunReady(p)' /\ (RunKnows(p) => RunKnows(p)')
  BY RunFrame DEF StoreInv
<1> QED BY <1>1 DEF StoreInv, OneKeyRun

LEMMA RequestReads ==
  ASSUME StoreInv, NEW q \in Requests, (\E s \in Scans : LoadScan(q, s)) \/ CheckMedia(q)
  PROVE  StoreInv'
<1>1. TypeOK /\ UNCHANGED <<row, files, objects, run, unsure>> /\ Inserted' = Inserted
  BY DEF StoreInv, LoadScan, CheckMedia, Inserted
<1>2. /\ retry' \in [Requests -> Request]
      /\ \A o \in Requests : \/ retry'[o] \in {retry[o], NoRequest}
                             \/ retry'[o] = [retry[o] EXCEPT !.at = "insert"] /\ retry[o].at # "none"
                             \/ \E s \in Inserted : /\ retry'[o].provider = row[s].provider
                                                    /\ retry'[o].key = row[s].key
  <2>1. retry \in [Requests -> Request] /\ NoRequest \in Request
    BY <1>1, Blanks DEF TypeOK
  <2>2. ASSUME NEW s \in Scans, LoadScan(q, s)
        PROVE  /\ retry' \in [Requests -> Request] /\ s \in Inserted
               /\ retry'[q].provider = row[s].provider /\ retry'[q].key = row[s].key
               /\ \A o \in Requests \ {q} : retry'[o] = retry[o]
    <3>1. [at |-> "check", provider |-> row[s].provider, key |-> row[s].key] \in Request
      BY <1>1 DEF TypeOK, Row, Request
    <3> QED BY <2>1, <2>2, <3>1 DEF LoadScan
  <2>3. ASSUME CheckMedia(q)
        PROVE  /\ retry' \in [Requests -> Request] /\ retry[q].at = "check"
               /\ retry'[q] = NoRequest \/ retry'[q] = [retry[q] EXCEPT !.at = "insert"]
               /\ \A o \in Requests \ {q} : retry'[o] = retry[o]
    <3>1. [retry[q] EXCEPT !.at = "insert"] \in Request
      BY <2>1 DEF Request
    <3> QED BY <2>1, <2>3, <3>1 DEF CheckMedia
  <2> QED BY <2>2, <2>3
<1>3. TypeOK'
  BY <1>1, <1>2 DEF TypeOK
<1>4. \A p \in Runs : Calm(p)
  BY <1>1 DEF Calm
<1>5. OneKeyRun' /\ \A p \in Runs : RunReady(p)' /\ (RunKnows(p) => RunKnows(p)')
  BY <1>1, <1>4, RunsUntouched
<1>6. ASSUME Inserted # {} PROVE MediaKept'
  <2>1. KeepsMedia
    BY <1>1 DEF KeepsMedia, FlatKept, Taken, OwnerHas
  <2>2. MediaKept /\ unsure' \subseteq Inserted'
    BY <1>1, <1>6 DEF StoreInv, MediaKept
  <2> QED BY <1>1, <1>2, <2>1, <2>2, MediaStaysKept
<1> QED BY <1>1, <1>3, <1>5, <1>6 DEF StoreInv

LEMMA InsertKeeps == ASSUME StoreInv, NEW q \in Requests, InsertRetry(q) PROVE StoreInv'
<1>1. TypeOK /\ UNCHANGED <<files, objects, run, unsure>> /\ retry[q].at = "insert"
      /\ retry' \in [Requests -> Request] /\ \A o \in Requests : retry'[o] \in {retry[o], NoRequest}
  BY Blanks DEF StoreInv, InsertRetry, TypeOK
<1>2. CASE Inserted = {} /\ UNCHANGED row
  <2>1. TypeOK' /\ Inserted' = Inserted
    BY <1>1, <1>2 DEF TypeOK, Inserted
  <2>2. \A p \in Runs : Calm(p)
    BY <1>1, <1>2, <2>1 DEF Calm
  <2> QED BY <1>1, <1>2, <2>1, <2>2, RunsUntouched DEF StoreInv
<1>3. CASE /\ Inserted # {} /\ Inserted # Scans
           /\ row' = [row EXCEPT ![Max(Inserted) + 1] =
                        [provider |-> retry[q].provider, key |-> retry[q].key, old |-> NoKey]]
  <2>1. PICK n : n = Max(Inserted) + 1
    OBVIOUS
  <2>2. n \notin Inserted
    BY <1>3, <2>1, GreatestRow DEF Inserted
  <2>3. MediaKept /\ (\A p \in Runs : RunKnows(p)) /\ UploadKept(retry[q].provider, retry[q].key)
    BY <1>1, <1>3 DEF StoreInv, MediaKept
  <2>4. retry[q] \in Request /\ retry[q].provider \in {"local", "s3"}
    BY <1>1, <2>3 DEF TypeOK, UploadKept
  <2>5. /\ row' \in [Scans -> Row] /\ \A s \in Scans \ {n} : row'[s] = row[s]
        /\ n \in Scans => row'[n] = [provider |-> retry[q].provider, key |-> retry[q].key, old |-> NoKey]
    <3>1. [provider |-> retry[q].provider, key |-> retry[q].key, old |-> NoKey] \in Row
      BY <2>4 DEF Request, Row
    <3> QED BY <1>1, <1>3, <2>1, <3>1 DEF TypeOK
  <2>6. /\ \A s \in Inserted : s \in Inserted' /\ row'[s] = row[s]
        /\ \A s \in Inserted' : s \in Inserted \/ s = n
    BY <2>2, <2>5 DEF Inserted
  <2>7. TypeOK'
    BY <1>1, <2>5 DEF TypeOK
  <2>8. \A p \in Runs : Calm(p)
    BY <1>1, <2>3, <2>6 DEF Calm, RunKnows
  <2>9. KeepsMedia
    BY <1>1, <2>6 DEF KeepsMedia, FlatKept, Taken, OwnerHas
  <2>10. n \in Scans => RowKept(n)'
    <3> SUFFICES ASSUME n \in Scans PROVE RowKept(n)'
      OBVIOUS
    <3>1. PICK provider, k : provider = retry[q].provider /\ k = retry[q].key
      OBVIOUS
    <3>2. UploadKept(provider, k)'
      BY <2>3, <2>9, <3>1, UploadStaysKept
    <3>3. (row[n].provider)' = provider /\ (row[n].key)' = k /\ (row[n].old)' = NoKey
      BY <2>5, <3>1
    <3>4. UploadKept(row[n].provider, row[n].key)'
      BY <3>2, <3>3 DEF UploadKept, Kept, OwnerHas, FlatKept, Taken
    <3>5. n \notin unsure'
      BY <1>1, <2>2, <2>3 DEF MediaKept
    <3> QED BY <3>3, <3>4, <3>5 DEF RowKept, NoKey
  <2>11. MediaKept'
    <3>1. /\ unsure' \subseteq Inserted'
          /\ \A s \in Inserted' : \/ s \in Inserted /\ row'[s] = row[s] /\ (s \in unsure' => s \in unsure)
                                  \/ RowKept(s)'
      BY <1>1, <2>3, <2>6, <2>10 DEF MediaKept, Inserted
    <3> QED BY <1>1, <2>3, <2>9, <3>1, MediaStaysKept
  <2> QED BY <1>1, <2>3, <2>7, <2>8, <2>11, RunsUntouched DEF StoreInv
<1> QED BY <1>2, <1>3 DEF InsertRetry

LEMMA DeleteKeeps == ASSUME StoreInv, DeleteRows PROVE StoreInv'
<1>1. TypeOK /\ UNCHANGED <<files, objects, run, retry, unsure>> /\ row' = [s \in Scans |-> NoRow]
  BY DEF StoreInv, DeleteRows
<1>2. TypeOK' /\ Inserted' = {} /\ \A s \in Scans : row'[s].provider = "none"
  BY <1>1, Blanks DEF TypeOK, Inserted, NoRow
<1>3. OneKeyRun'
  BY <1>1 DEF StoreInv, OneKeyRun
<1>4. ASSUME NEW p \in Runs PROVE RunReady(p)'
  <2>1. Todo(p)' = Todo(p) /\ Current(p)' = Current(p) /\ Target(p)' = Target(p)
    BY <1>1 DEF Todo, Current, Target
  <2>2. Todo(p) # {} => Current(p) \in Scans
    BY <1>1, TurnHasRow
  <2> QED BY <1>1, <1>2, <2>1, <2>2 DEF StoreInv, RunReady, At
<1> QED BY <1>2, <1>3, <1>4 DEF StoreInv

-----------------------------------------------------------------------------
(* The theorems of StorageMigration *)

LEMMA StoreInit == ASSUME Init PROVE StoreInv
<1>1. PICK key \in {Flat(1), Structured(1)}, provider \in {"local", "s3"}, copy \in BOOLEAN :
        /\ row = [s \in Scans |-> IF s = 1 THEN [provider |-> provider, key |-> key, old |-> NoKey]
                                  ELSE NoRow]
        /\ objects = IF provider = "s3" THEN {key} ELSE {}
        /\ files = IF provider = "local" \/ copy THEN {key} ELSE {}
        /\ run = [p \in Runs |-> Idle]
        /\ retry = [q \in Requests |-> NoRequest]
        /\ unsure = {}
  BY DEF Init
<1>2. 1 \in Scans /\ key \in Keys /\ (key.layout = "structured" => key = Structured(1) /\ key.of = 1)
  <2>1. 1 \in Scans
    BY StorageAssumption DEF Scans
  <2> QED BY <2>1, KeyFacts DEF Flat, Structured
<1>3. /\ row[1].provider = provider /\ row[1].key = key /\ row[1].old = NoKey
      /\ Inserted = {1} /\ row \in [Scans -> Row]
  <2>1. [provider |-> provider, key |-> key, old |-> NoKey] \in Row
    BY <1>2 DEF Row
  <2>2. row[1].provider = provider /\ row[1].key = key /\ row[1].old = NoKey /\ row \in [Scans -> Row]
    BY <1>1, <1>2, <2>1, Blanks
  <2>3. \A s \in Scans \ {1} : row[s].provider = "none"
    BY <1>1 DEF NoRow
  <2> QED BY <1>2, <2>2, <2>3 DEF Inserted
<1>4. TypeOK
  BY <1>1, <1>2, <1>3, Blanks DEF TypeOK
<1>5. \A p \in Runs : Todo(p) = {} /\ run[p].script = "none"
  BY <1>1 DEF Todo, Idle
<1>6. OneKeyRun /\ \A p \in Runs : RunReady(p) /\ RunKnows(p)
  BY <1>5 DEF OneKeyRun, RunReady, RunKnows, At
<1>7. MediaKept
  <2>1. UploadKept(row[1].provider, row[1].key)
    BY <1>1, <1>2, <1>3 DEF UploadKept, Kept, OwnerHas, FlatKept
  <2>2. \A q \in Requests : retry[q].at = "none"
    BY <1>1 DEF NoRequest
  <2> QED BY <1>1, <1>3, <2>1, <2>2 DEF MediaKept, RowKept
<1> QED BY <1>4, <1>6, <1>7 DEF StoreInv

LEMMA StoreNext == ASSUME KeyRuns <= 1, StoreInv, [Next]_vars PROVE StoreInv'
<1>1. ASSUME NEW p \in Runs, ScriptStep(p) PROVE StoreInv'
  BY <1>1, StartKeeps, LocalSteps, KeySteps, CleanupSteps, DeleteOldKeeps, UndoKeeps, UnlinkKeeps,
     UpdateLocalKeeps, UpdateKeyKeeps, CrashKeeps DEF ScriptStep
<1>2. ASSUME NEW q \in Requests, (\E s \in Scans : LoadScan(q, s)) \/ CheckMedia(q) \/ InsertRetry(q)
      PROVE  StoreInv'
  BY <1>2, RequestReads, InsertKeeps
<1>3. CASE UNCHANGED vars
  <2>1. UNCHANGED <<row, files, objects, run, retry, unsure>> /\ Inserted' = Inserted
    BY <1>3 DEF vars, Inserted
  <2>2. TypeOK' /\ \A p \in Runs : Calm(p)
    BY <2>1 DEF StoreInv, TypeOK, Calm
  <2>3. MediaKept => MediaKept'
    BY <2>1 DEF MediaKept, RowKept, UploadKept, Kept, OwnerHas, FlatKept, Taken
  <2> QED BY <2>1, <2>2, <2>3, RunsUntouched DEF StoreInv
<1> QED BY <1>1, <1>2, <1>3, DeleteKeeps DEF Next

LEMMA StoreAlways == ASSUME KeyRuns <= 1 PROVE Spec => []StoreInv
<1>1. Init => StoreInv
  BY StoreInit
<1>2. StoreInv /\ [Next]_vars => StoreInv'
  BY StoreNext
<1> QED BY <1>1, <1>2, PTL DEF Spec

\* With at most one run of migrate-s3-scan-keys at a time, the types and what the scripts
\* rely on between their calls hold for any number of rows, processes and requests and
\* under every fault: a row moved within S3 is at its own key, a row is pointed only at
\* an object that is there, and the old object goes only after its row has left it.
THEOREM ScriptsRely == ASSUME KeyRuns <= 1 PROVE Spec => []StorageInv
<1>1. ASSUME StoreInv PROVE StorageInv
  <2>1. TypeOK
    BY <1>1 DEF StoreInv
  <2>2. MovedToOwnKey
    BY <1>1 DEF StoreInv, MediaKept, RowKept, MovedToOwnKey
  <2>3. CopyBeforeUpdate
    BY <1>1 DEF StoreInv, RunReady, CopyBeforeUpdate
  <2>4. ASSUME NEW p \in Runs, At(p, "keys", "delete"), Current(p) \in Inserted
        PROVE  /\ row[Current(p)].old = SeenKey(p) /\ row[Current(p)].key = Target(p)
               /\ Target(p) \in objects
    <3>1. RunKnows(p) /\ Todo(p) # {} /\ run[p].script = "keys" /\ run[p].at = "delete"
      BY <1>1, <2>4 DEF StoreInv, At
    <3>2. row[Current(p)].old = SeenKey(p) /\ KeyRowsFound(p)
      BY <2>4, <3>1 DEF RunKnows
    <3>3. Current(p) \in Todo(p) /\ SeenKey(p) # NoKey
      BY <2>1, <3>1, TurnHasRow, KeyFacts
    <3> QED BY <3>1, <3>2, <3>3 DEF KeyRowsFound
  <2> QED BY <2>1, <2>2, <2>3, <2>4 DEF StorageInv, DeleteAfterUpdate
<1> QED BY <1>1, StoreAlways, PTL

\* Whatever fails and whenever a script is killed, some row of the group can be read or
\* the object it had before the migration is still there (OPERATIONS.md, "Rollback").
THEOREM UploadsSurvive == ASSUME KeyRuns <= 1 PROVE Spec => []MediaSurvives
<1>1. ASSUME StoreInv PROVE MediaSurvives
  <2> SUFFICES ASSUME Inserted # {} PROVE \E s \in Inserted : Stored(s) \/ row[s].old \in objects
    BY DEF MediaSurvives
  <2>1. MediaKept
    BY <1>1 DEF StoreInv
  <2>2. ASSUME NEW key, key # NoKey, FlatKept(key), key \notin objects
        PROVE  \E s \in Inserted : Stored(s)
    BY <2>1, <2>2 DEF FlatKept, MediaKept, RowKept, Stored
  <2>3. CASE \A s \in Inserted : row[s].provider = "local"
    BY <2>1, <2>3 DEF MediaKept, RowKept, UploadKept, Kept, Taken, Stored
  <2>4. CASE \E t \in Inserted : row[t].provider # "local"
    <3>1. PICK t \in Inserted : row[t].provider # "local"
      BY <2>4
    <3>2. /\ row[t].provider = "s3" /\ row[t].key \in Keys
          /\ row[t].key.layout = "flat" => FlatKept(row[t].key)
          /\ row[t].key.layout = "structured" => row[t].key \in objects \/ row[t].key.of \in unsure
      BY <2>1, <3>1 DEF MediaKept, RowKept, UploadKept, Kept
    <3>3. CASE row[t].key \in objects
      BY <3>2, <3>3 DEF Stored
    <3>4. CASE row[t].key.layout = "flat" /\ row[t].key \notin objects
      BY <2>2, <3>2, <3>4, KeyFacts
    <3>5. CASE row[t].key.layout = "structured" /\ row[t].key \notin objects
      <4>1. PICK u \in Inserted : row[u].old # NoKey /\ FlatKept(row[u].old)
        BY <2>1, <3>2, <3>5 DEF MediaKept, RowKept
      <4> QED BY <2>2, <4>1
    <3> QED BY <3>2, <3>3, <3>4, <3>5, KeyFacts
  <2> QED BY <2>3, <2>4
<1> QED BY <1>1, StoreAlways, PTL

\* A row whose upload is missing comes about in two ways only: another row of the group
\* shared its key and was moved, or the reply to the UPDATE of the keys was lost.
THEOREM MissingExplained == ASSUME KeyRuns <= 1 PROVE Spec => []MissingMediaExplained
<1>1. ASSUME StoreInv PROVE MissingMediaExplained
  <2> SUFFICES ASSUME NEW s \in Inserted, ~Stored(s) PROVE SharedKeyMoved(s) \/ CopyUndone(s)
    BY DEF MissingMediaExplained
  <2>1. RowKept(s) /\ unsure \subseteq Inserted
    BY <1>1 DEF StoreInv, MediaKept
  <2>2. CASE row[s].provider = "local"
    BY <2>1, <2>2 DEF RowKept, UploadKept, Kept, Taken, Stored, SharedKeyMoved
  <2>3. CASE row[s].provider = "s3" /\ row[s].key.layout = "flat"
    <3>1. PICK t \in Inserted : row[t].old = row[s].key
      BY <2>1, <2>3 DEF RowKept, UploadKept, Kept, FlatKept, Stored
    <3>2. t # s
      BY <2>1, <2>3, <3>1, KeyFacts DEF RowKept, UploadKept, Inserted
    <3> QED BY <3>1, <3>2 DEF SharedKeyMoved
  <2>4. CASE row[s].provider = "s3" /\ row[s].key.layout = "structured"
    BY <2>1, <2>4, KeyFacts DEF RowKept, UploadKept, Kept, Stored, CopyUndone
  <2> QED BY <2>1, <2>2, <2>3, <2>4, KeyFacts DEF RowKept, UploadKept
<1> QED BY <1>1, StoreAlways, PTL

-----------------------------------------------------------------------------
(* The types, whatever the number of runs of migrate-s3-scan-keys *)

LEMMA TypeNext == ASSUME TypeOK, [Next]_vars PROVE TypeOK'
<1>1. ASSUME NEW p \in Runs, Todo(p) # {},
             \/ RowDone(p)
             \/ \E at \in Places : GoTo(p, at) \/ run' = [run EXCEPT ![p].at = at, ![p].copied = TRUE]
      PROVE  run' \in [Runs -> Run]
  BY <1>1, RowDoneDrops, GoToStays
<1>2. ASSUME NEW p \in Runs, NEW script \in {"local", "keys", "cleanup"}, Start(p, script) PROVE TypeOK'
  <2>1. PICK chosen \in Narrowed(script), deletes \in Deletes(script) :
          run' = [run EXCEPT ![p] = [Idle EXCEPT
                   !.script = script, !.deletes = deletes,
                   !.seen = [s \in Scans |-> IF s \in chosen THEN row[s].key ELSE NoKey]]]
    BY <1>2 DEF Start
  <2>2. [s \in Scans |-> IF s \in chosen THEN row[s].key ELSE NoKey] \in [Scans -> Keys \union {NoKey}]
        /\ deletes \in BOOLEAN
    BY DEF TypeOK, Row, Deletes
  <2>3. [Idle EXCEPT !.script = script, !.deletes = deletes,
                     !.seen = [s \in Scans |-> IF s \in chosen THEN row[s].key ELSE NoKey]] \in Run
    BY <2>2 DEF Idle, Run
  <2>4. run' \in [Runs -> Run]
    BY <2>1, <2>3 DEF TypeOK
  <2> QED BY <1>2, <2>4 DEF Start, TypeOK
<1>3. ASSUME NEW p \in Runs,
             ReadLocal(p) \/ VerifyPut(p) \/ HeadOld(p) \/ HeadNew(p) \/ VerifyCopy(p) \/ StatLocal(p)
               \/ HeadObject(p)
      PROVE  TypeOK'
  <2>1. run' \in [Runs -> Run] /\ UNCHANGED <<row, files, objects, retry, unsure>>
    BY <1>1, <1>3 DEF ReadLocal, VerifyPut, HeadOld, HeadNew, VerifyCopy, StatLocal, HeadObject, Fail,
       At, Places
  <2> QED BY <2>1 DEF TypeOK
<1>4. ASSUME NEW p \in Runs, PutObject(p) \/ CopyObject(p) \/ DeleteOld(p) \/ Undo(p) \/ Unlink(p)
      PROVE  TypeOK'
  <2>1. Todo(p) # {}
    BY <1>4 DEF PutObject, CopyObject, DeleteOld, Undo, Unlink, At
  <2>2. Target(p) \in Keys
    BY <2>1, TurnHasRow
  <2>3. run' \in [Runs -> Run]
    BY <1>1, <1>4, <2>1 DEF PutObject, CopyObject, DeleteOld, Undo, Unlink, Places
  <2>4. objects' \subseteq Keys /\ files' \subseteq Keys /\ UNCHANGED <<row, retry, unsure>>
    BY <1>4, <2>2 DEF PutObject, CopyObject, DeleteOld, Undo, Unlink, TypeOK
  <2> QED BY <2>3, <2>4 DEF TypeOK
<1>5. ASSUME NEW p \in Runs, UpdateLocal(p) \/ UpdateKey(p) PROVE TypeOK'
  <2>1. Todo(p) # {}
    BY <1>5 DEF UpdateLocal, UpdateKey, At
  <2>2. Target(p) \in Keys /\ Current(p) \in Scans
    BY <2>1, TurnHasRow
  <2>3. run' \in [Runs -> Run]
    BY <1>1, <1>5, <2>1 DEF UpdateLocal, UpdateKey, Fail, Places
  <2>4. /\ row' \in [Scans -> Row] /\ unsure' \subseteq Scans
        /\ UNCHANGED <<files, objects, retry>>
    <3>1. CASE UpdateLocal(p)
      BY <2>2, <3>1 DEF UpdateLocal, TypeOK, Row
    <3>2. CASE UpdateKey(p)
      <4>1. [row EXCEPT ![Current(p)].old = row[Current(p)].key, ![Current(p)].key = Target(p)] \in [Scans -> Row]
        BY <2>2 DEF TypeOK, Row
      <4> QED BY <2>2, <3>2, <4>1 DEF UpdateKey, TypeOK
    <3> QED BY <1>5, <3>1, <3>2
  <2> QED BY <2>3, <2>4 DEF TypeOK
<1>6. ASSUME NEW p \in Runs, Crash(p) PROVE TypeOK'
  BY <1>6, Blanks DEF Crash, TypeOK
<1>7. ASSUME NEW q \in Requests, NEW s \in Scans, LoadScan(q, s) PROVE TypeOK'
  <2>1. [at |-> "check", provider |-> row[s].provider, key |-> row[s].key] \in Request
    BY DEF TypeOK, Row, Request
  <2> QED BY <1>7, <2>1 DEF LoadScan, TypeOK
<1>8. ASSUME NEW q \in Requests, CheckMedia(q) PROVE TypeOK'
  <2>1. [retry[q] EXCEPT !.at = "insert"] \in Request
    BY DEF TypeOK, Request
  <2> QED BY <1>8, <2>1, Blanks DEF CheckMedia, TypeOK
<1>9. ASSUME NEW q \in Requests, InsertRetry(q) PROVE TypeOK'
  <2>1. [provider |-> retry[q].provider, key |-> retry[q].key, old |-> NoKey] \in Row
    BY DEF TypeOK, Request, Row
  <2> QED BY <1>9, <2>1, Blanks DEF InsertRetry, TypeOK
<1>10. ASSUME DeleteRows PROVE TypeOK'
  BY <1>10, Blanks DEF DeleteRows, TypeOK
<1>11. CASE UNCHANGED vars
  BY <1>11 DEF vars, TypeOK
<1> QED BY <1>2, <1>3, <1>4, <1>5, <1>6, <1>7, <1>8, <1>9, <1>10, <1>11 DEF Next, ScriptStep

\* What becomes of the rows: they are deleted together, a row inserted stays until then,
\* and a local row that stays local keeps its key.
RowsEvolve ==
  Inserted' # {} =>
    /\ Inserted \subseteq Inserted' /\ Inserted # {}
    /\ \A s \in Inserted : row'[s].provider = "local" => row[s].provider = "local" /\ row'[s].key = row[s].key

LEMMA NextEvolves == ASSUME TypeOK, Next PROVE RowsEvolve
<1>1. CASE UNCHANGED row
  BY <1>1 DEF RowsEvolve, Inserted
<1>2. ASSUME NEW p \in Runs, UpdateLocal(p) \/ UpdateKey(p) PROVE RowsEvolve
  <2>1. Current(p) \in Scans
    BY <1>2, TurnHasRow DEF UpdateLocal, UpdateKey, At
  <2>2. \A s \in Scans : row'[s] = row[s] \/ (row[s].provider # "none" /\ row'[s].provider = "s3")
    <3>1. CASE UpdateLocal(p)
      BY <2>1, <3>1 DEF UpdateLocal, TypeOK, Row
    <3>2. CASE UpdateKey(p)
      BY <2>1, <3>2 DEF UpdateKey, TypeOK, Row
    <3> QED BY <1>2, <3>1, <3>2
  <2> QED BY <2>2 DEF RowsEvolve, Inserted
<1>3. ASSUME NEW q \in Requests, InsertRetry(q) PROVE RowsEvolve
  <2>1. PICK n : n = Max(Inserted) + 1
    OBVIOUS
  <2>2. Inserted # {} => n \notin Inserted
    BY <2>1, GreatestRow DEF Inserted
  <2>3. CASE Inserted # {}
    <3>1. \A s \in Scans \ {n} : row'[s] = row[s]
      BY <1>3, <2>1, <2>3 DEF InsertRetry, TypeOK
    <3> QED BY <2>2, <2>3, <3>1 DEF RowsEvolve, Inserted
  <2>4. CASE Inserted = {}
    BY <1>1, <1>3, <2>4 DEF InsertRetry
  <2> QED BY <2>3, <2>4
<1>4. ASSUME DeleteRows PROVE RowsEvolve
  <2>1. Inserted' = {}
    BY <1>4 DEF DeleteRows, Inserted, NoRow
  <2> QED BY <2>1 DEF RowsEvolve
<1>5. ASSUME NEW p \in Runs, ScriptStep(p), ~UpdateLocal(p), ~UpdateKey(p) PROVE UNCHANGED row
  BY <1>5 DEF ScriptStep, Start, ReadLocal, PutObject, VerifyPut, HeadOld, HeadNew, CopyObject, VerifyCopy,
     DeleteOld, Undo, StatLocal, HeadObject, Unlink, Crash
<1>6. ASSUME NEW q \in Requests, (\E s \in Scans : LoadScan(q, s)) \/ CheckMedia(q) PROVE UNCHANGED row
  BY <1>6 DEF LoadScan, CheckMedia
<1> QED BY <1>1, <1>2, <1>3, <1>4, <1>5, <1>6 DEF Next

-----------------------------------------------------------------------------
(* The reports *)

Headings == Fine \union Missing \union Doubtful

Report ==
  [tool : {"none", "audit", "verify", "cleanup"}, at : {"idle", "rows", "walk", "done"},
   seen : [Scans -> Row], s3 : BOOLEAN, local : BOOLEAN,
   known : SUBSET (Keys \union {NoKey}), knew : SUBSET Scans, counts : BOOLEAN,
   critical : BOOLEAN, failed : BOOLEAN, doubtful : BOOLEAN,
   blind : BOOLEAN, whole : BOOLEAN, wrong : BOOLEAN]

\* What the lists of a report contain.
ReportLists ==
  /\ report.at = "rows" => report.tool # "none" /\ report.known = {} /\ report.knew = {} /\ ~report.whole
  /\ \A s \in Left :
       /\ report.seen[s].provider \in {"local", "s3"}
       /\ report.tool = "verify" => report.seen[s].provider = "local"
       /\ report.tool = "cleanup" => report.seen[s].provider = "s3"
  /\ report.tool \in {"verify", "cleanup"} => report.local /\ (report.tool = "cleanup" <=> report.s3)
  /\ report.at = "walk" =>
       \A s \in report.knew \intersect Inserted : row[s].provider = "local" => row[s].key \in report.known
  /\ report.at = "done" =>
       \A s \in report.knew \intersect Inserted : row[s].provider = "local" => row[s].key \notin report.known
  /\ Inserted # {} => report.knew \subseteq Inserted

Strict == report.critical \/ report.failed \/ report.doubtful
AllNamed == files \subseteq {row[s].key : s \in Inserted}
AllStored == \A s \in Inserted : Stored(s)

\* How far the flags of an audit that has the system to itself have come.
CountsTell ==
  report.counts =>
    /\ report.tool = "audit"
    /\ report.at = "rows" => \A s \in Left : report.seen[s] = row[s]
    /\ ~Strict => \A s \in Inserted \ Left : Stored(s)
    /\ report.blind => Strict
    /\ report.s3 /\ report.local /\ AllStored /\ (report.at = "done" => AllNamed)
         => (report.critical => report.blind) /\ ~report.doubtful
    /\ report.at = "walk" => report.known = {row[s].key : s \in Inserted} /\ Left = {}
    /\ report.at = "done" => Left = {} /\ (~report.doubtful /\ report.whole => AllNamed)

ReportInv == TypeOK /\ report \in Report /\ ~report.wrong /\ ReportLists /\ CountsTell

\* What stat says is true of a file it found; else there is none, or the stat failed.
LEMMA StatsTell ==
  ASSUME NEW r, NEW found \in Stats(r)
  PROVE  found \in BOOLEAN /\ (found => r.key \in files)
BY DEF Stats

\* Each heading tells of the row as it was seen.
LEMMA HeadingOf ==
  ASSUME NEW s \in Scans, NEW found \in Stats(row[s]), TypeOK, report \in Report, report.tool # "none",
         row[s] = report.seen[s],
         row[s].provider \in {"local", "s3"},
         report.tool = "verify" => row[s].provider = "local",
         report.tool = "cleanup" => row[s].provider = "s3",
         report.tool \in {"verify", "cleanup"} => report.local
  PROVE  /\ Heading(row[s], found) \in Headings
         /\ Heading(row[s], found) \in Fine => Stored(s)
         /\ Heading(row[s], found) \in Missing => ~Stored(s) \/ StatFailed(row[s], found)
         /\ StatFailed(row[s], found) => Heading(row[s], found) \in Missing
         /\ Heading(row[s], found) \in Doubtful => ~(report.s3 /\ report.local)
<1> DEFINE r == row[s]
<1>0. report.local \in BOOLEAN /\ report.s3 \in BOOLEAN /\ found \in BOOLEAN /\ (found => r.key \in files)
  BY StatsTell DEF Report
<1>1. CASE report.tool = "audit"
  <2>1. Heading(r, found) = AuditHeading(r, found)
    BY <1>1 DEF Heading
  <2>2. CASE r.provider = "local"
    <3>1. Heading(r, found) = IF ~report.local THEN "local_file_unverified"
                       ELSE IF ~found THEN "missing_local_but_db_local"
                       ELSE IF report.s3 /\ r.key \in objects THEN "local_and_s3" ELSE "local_only"
      BY <1>0, <2>1, <2>2 DEF AuditHeading
    <3> QED BY <1>0, <2>2, <3>1 DEF Headings, Fine, Missing, Doubtful, Stored, StatFailed
  <2>3. CASE r.provider = "s3"
    <3>1. Heading(r, found) = IF report.s3 /\ r.key \notin objects THEN "db_s3_but_missing_in_s3"
                       ELSE IF report.local /\ found
                            THEN IF report.s3 THEN "local_and_s3" ELSE "s3_db_local_file_present_unverified"
                       ELSE IF report.s3 THEN "s3_only" ELSE "s3_unverified"
      BY <1>0, <2>1, <2>3 DEF AuditHeading
    <3> QED BY <2>3, <3>1 DEF Headings, Fine, Missing, Doubtful, Stored, StatFailed
  <2> QED BY <2>2, <2>3
<1>2. CASE report.tool = "verify"
  <2>1. Heading(r, found) = IF found THEN "local_ok" ELSE "local_missing"
    BY <1>2 DEF Heading
  <2>2. Stored(s) <=> r.key \in files
    BY <1>2 DEF Stored
  <2>3. StatFailed(r, found) <=> r.key \in files /\ ~found
    BY <1>2 DEF StatFailed
  <2> QED BY <1>0, <2>1, <2>2, <2>3 DEF Headings, Fine, Missing, Doubtful
<1>3. CASE report.tool = "cleanup"
  <2>1. Heading(r, found) = CleanupHeading(r, found)
    BY <1>3 DEF Heading
  <2> QED BY <1>3, <2>1 DEF CleanupHeading, Headings, Fine, Missing, Doubtful, Stored, StatFailed
<1> QED BY <1>1, <1>2, <1>3 DEF Report

LEMMA QuietFacts ==
  /\ Quiet \in Report /\ ~Quiet.wrong /\ ~Quiet.counts /\ Quiet.at = "idle" /\ Quiet.tool = "none"
  /\ Quiet.knew = {} /\ \A s \in Scans : Quiet.seen[s] = NoRow
<1>1. [s \in Scans |-> NoRow] \in [Scans -> Row]
  BY Blanks
<1>2. Quiet \in Report
  BY <1>1 DEF Quiet, Report
<1>3. /\ ~Quiet.wrong /\ ~Quiet.counts /\ Quiet.at = "idle" /\ Quiet.tool = "none" /\ Quiet.knew = {}
      /\ Quiet.seen = [s \in Scans |-> NoRow]
  BY DEF Quiet
<1> QED BY <1>2, <1>3

LEMMA ReportInit == ASSUME InitWithReports PROVE ReportInv
<1>1. TypeOK /\ report = Quiet
  BY StoreInit DEF InitWithReports, StoreInv
<1> QED BY <1>1, QuietFacts DEF ReportInv, ReportLists, CountsTell, Left

\* A script, a retry or a deletion while a report is taken.
LEMMA ReportOvertaken ==
  ASSUME ReportInv, Next,
         report' = IF report.counts /\ <<row, files, objects>>' # <<row, files, objects>>
                   THEN [report EXCEPT !.counts = FALSE, !.critical = FALSE, !.failed = FALSE,
                                       !.doubtful = FALSE, !.blind = FALSE, !.whole = FALSE]
                   ELSE report
  PROVE  ReportInv'
<1>1. TypeOK' /\ RowsEvolve
  BY TypeNext, NextEvolves DEF ReportInv
<1>2. /\ report' \in Report /\ ~report'.wrong
      /\ report'.tool = report.tool /\ report'.at = report.at /\ report'.seen = report.seen
      /\ report'.s3 = report.s3 /\ report'.local = report.local
      /\ report'.known = report.known /\ report'.knew = report.knew
      /\ (report'.whole => report.whole)
  BY DEF ReportInv, Report
<1>3. ReportLists'
  <2>1. Left' = Left
    BY <1>2 DEF Left
  <2>2. ASSUME NEW s \in report.knew \intersect Inserted', row'[s].provider = "local"
        PROVE  s \in report.knew \intersect Inserted /\ row[s].provider = "local" /\ row'[s].key = row[s].key
    BY <1>1, <2>2 DEF RowsEvolve, ReportInv, ReportLists
  <2>3. Inserted' # {} => report.knew \subseteq Inserted'
    BY <1>1 DEF RowsEvolve, ReportInv, ReportLists
  <2> QED BY <1>2, <2>1, <2>2, <2>3 DEF ReportInv, ReportLists
<1>4. CountsTell'
  <2>1. CASE report'.counts
    <3>1. report' = report /\ row' = row /\ files' = files /\ objects' = objects /\ report.counts
      BY <2>1 DEF ReportInv, Report
    <3>2. Left' = Left /\ Inserted' = Inserted /\ \A s \in Scans : Stored(s)' <=> Stored(s)
      BY <3>1 DEF Left, Inserted, Stored
    <3> QED BY <3>1, <3>2 DEF ReportInv, CountsTell, Strict, AllNamed, AllStored, Inserted
  <2>2. CASE ~report'.counts
    BY <2>2 DEF CountsTell
  <2> QED BY <2>1, <2>2
<1> QED BY <1>1, <1>2, <1>3, <1>4 DEF ReportInv

LEMMA QueryTells == ASSUME ReportInv, NEW tool \in Tools, Query(tool) PROVE ReportInv'
<1>1. PICK o \in Options(tool) :
        report' = [Quiet EXCEPT
          !.tool = tool, !.at = "rows", !.local = o[1], !.s3 = o[2], !.counts = (tool = "audit"),
          !.seen = [s \in Scans |-> IF s \in Selected(tool) THEN row[s] ELSE NoRow]]
  BY DEF Query
<1>2. TypeOK /\ UNCHANGED <<row, files, objects, run, retry, unsure>> /\ tool \in {"audit", "verify", "cleanup"}
  BY AuditAssumption DEF ReportInv, Query, vars
<1>3. TypeOK' /\ Inserted' = Inserted
  BY <1>2 DEF TypeOK, Inserted
<1>4. /\ o[1] \in BOOLEAN /\ o[2] \in BOOLEAN
      /\ tool \in {"verify", "cleanup"} => o[1] /\ (tool = "cleanup" <=> o[2])
  <2>1. CASE tool = "audit"
    BY <2>1 DEF Options
  <2>2. CASE tool = "verify"
    <3>1. o = <<TRUE, FALSE>>
      <4>1. Options(tool) = {<<TRUE, FALSE>>}
        BY <2>2 DEF Options
      <4> QED BY <4>1
    <3> QED BY <2>2, <3>1
  <2>3. CASE tool = "cleanup"
    <3>1. o = <<TRUE, TRUE>>
      <4>1. Options(tool) = {<<TRUE, TRUE>>}
        BY <2>3 DEF Options
      <4> QED BY <4>1
    <3> QED BY <2>3, <3>1
  <2> QED BY <1>2, <2>1, <2>2, <2>3
<1>5. [s \in Scans |-> IF s \in Selected(tool) THEN row[s] ELSE NoRow] \in [Scans -> Row]
  BY <1>2, Blanks DEF TypeOK
<1>6. /\ report'.tool = tool /\ report'.at = "rows" /\ report'.local = o[1] /\ report'.s3 = o[2]
      /\ report'.counts = (tool = "audit") /\ report'.knew = {} /\ report'.known = {}
      /\ ~report'.wrong /\ ~report'.whole
      /\ ~report'.critical /\ ~report'.doubtful /\ ~report'.failed /\ ~report'.blind /\ report' \in Report
      /\ \A s \in Scans : report'.seen[s] = IF s \in Selected(tool) THEN row[s] ELSE NoRow
  BY <1>1, <1>2, <1>4, <1>5 DEF Quiet, Report
<1>7. /\ Selected(tool) \subseteq Inserted /\ (tool = "audit" => Selected(tool) = Inserted)
      /\ tool = "verify" => \A s \in Selected(tool) : row[s].provider = "local"
      /\ tool = "cleanup" => \A s \in Selected(tool) : row[s].provider = "s3"
  BY <1>2 DEF Selected, Candidates, LocalCandidates, CleanupCandidates
<1>8. \A s \in Scans : s \in Inserted => row[s] # NoRow /\ row[s].provider \in {"local", "s3"}
  BY <1>2 DEF TypeOK, Row, Inserted, NoRow
<1>9. Left' = Selected(tool)
  BY <1>6, <1>7, <1>8 DEF Left, Inserted
<1>10. ReportLists'
  BY <1>2, <1>3, <1>4, <1>6, <1>7, <1>8, <1>9 DEF ReportLists, Inserted
<1>11. CountsTell'
  <2>1. \A s \in Left' : row'[s] = report'.seen[s]
    BY <1>2, <1>6, <1>7, <1>9 DEF Inserted
  <2>2. report'.counts => report'.tool = "audit" /\ Inserted' \ Left' = {}
    BY <1>3, <1>6, <1>7, <1>9
  <2>3. ~report'.critical /\ ~report'.doubtful /\ ~report'.blind /\ report'.at = "rows"
    BY <1>6
  <2> QED BY <2>1, <2>2, <2>3 DEF CountsTell
<1> QED BY <1>3, <1>6, <1>10, <1>11 DEF ReportInv

LEMMA Flagged ==
  ASSUME NEW r \in Report, NEW seen \in [Scans -> Row], NEW wrong \in BOOLEAN, NEW blind \in BOOLEAN,
         NEW critical \in BOOLEAN, NEW failed \in BOOLEAN, NEW doubtful \in BOOLEAN
  PROVE  [r EXCEPT !.seen = seen, !.wrong = wrong, !.blind = blind, !.critical = critical,
                   !.failed = failed, !.doubtful = doubtful] \in Report
BY DEF Report

LEMMA RowTells == ASSUME ReportInv, ReportRow PROVE ReportInv'
<1>0. PICK s : s = Min(Left)
  OBVIOUS
<1>1. PICK found \in Stats(report.seen[s]) : \E under \in Said(report.seen[s], found) : TellRow(s, found, under)
  BY <1>0 DEF ReportRow
<1>a. PICK under \in Said(report.seen[s], found) : TellRow(s, found, under)
  BY <1>1
<1>2. /\ TypeOK /\ report \in Report /\ ReportLists /\ CountsTell /\ report.at = "rows" /\ report.tool # "none"
      /\ UNCHANGED <<row, files, objects, run, retry, unsure>>
  BY DEF ReportInv, ReportLists, ReportRow, vars
<1>3. s \in Left /\ s \in Scans
  <2>1. Left \in SUBSET Scans /\ Left # {}
    BY DEF Left, ReportRow
  <2> QED BY <1>0, <2>1, LeastRow
<1>4. TypeOK' /\ Inserted' = Inserted /\ \A t \in Scans : Stored(t)' <=> Stored(t)
  BY <1>2 DEF TypeOK, Inserted, Stored
<1>5. ASSUME row[s] = report.seen[s]
      PROVE  /\ under \in Fine => Stored(s)
             /\ under \in Missing => ~Stored(s) \/ StatFailed(row[s], found)
             /\ StatFailed(row[s], found) => under \in Missing \union {"s3_probe_error"}
             /\ under \in Doubtful => ~(report.s3 /\ report.local)
             /\ under \in Headings \union {"s3_probe_error"}
  <2>1. /\ row[s].provider \in {"local", "s3"}
        /\ report.tool = "verify" => row[s].provider = "local"
        /\ report.tool = "cleanup" => row[s].provider = "s3"
        /\ report.tool \in {"verify", "cleanup"} => report.local
        /\ found \in Stats(row[s])
    BY <1>2, <1>3, <1>5 DEF ReportLists
  <2>2. CASE under = Heading(row[s], found)
    BY <1>2, <1>3, <1>5, <2>1, <2>2, HeadingOf
  <2>3. CASE under = "s3_probe_error"
    BY <2>3 DEF Fine, Missing, Doubtful
  <2> QED BY <1>a, <1>5, <2>2, <2>3 DEF Said
<1>6. ~TellsWrong(s, under, found)
  <2> SUFFICES ASSUME row[s] = report.seen[s]
               PROVE  under \notin IF ~Stored(s) THEN Fine ELSE IF StatFailed(row[s], found) THEN {} ELSE Missing
    BY DEF TellsWrong
  <2> QED BY <1>5
<1> DEFINE blind == StatFailed(report.seen[s], found)
           wrong == TellsWrong(s, under, found)
<1>b. blind \in BOOLEAN /\ wrong = FALSE
  BY <1>6 DEF StatFailed, TellsWrong
<1>c. report' = [report EXCEPT
          !.seen[s] = NoRow, !.wrong = @ \/ wrong, !.blind = @ \/ (report.counts /\ blind),
          !.critical = @ \/ (report.counts /\ under \in Missing),
          !.failed = @ \/ (report.counts /\ under = "s3_probe_error"),
          !.doubtful = @ \/ (report.counts /\ under \in Doubtful)]
  BY <1>a DEF TellRow
<1>d. row[s] = report.seen[s] => (blind => under \in Missing \union {"s3_probe_error"})
                                 /\ (under \in Missing => ~Stored(s) \/ blind)
  BY <1>5
<1> HIDE DEF blind, wrong
<1>7. /\ report' \in Report /\ ~report'.wrong
      /\ report'.tool = report.tool /\ report'.at = "rows" /\ report'.counts = report.counts
      /\ report'.s3 = report.s3 /\ report'.local = report.local
      /\ report'.known = report.known /\ report'.knew = report.knew
      /\ report'.seen = [report.seen EXCEPT ![s] = NoRow]
      /\ report'.critical = (report.critical \/ (report.counts /\ under \in Missing))
      /\ report'.failed = (report.failed \/ (report.counts /\ under = "s3_probe_error"))
      /\ report'.doubtful = (report.doubtful \/ (report.counts /\ under \in Doubtful))
      /\ report'.blind = (report.blind \/ (report.counts /\ blind)) /\ report'.whole = report.whole
  <2>1. report.wrong = FALSE /\ (report.wrong \/ wrong) = FALSE
    BY <1>2, <1>b DEF ReportInv, Report
  <2>2. [report.seen EXCEPT ![s] = NoRow] \in [Scans -> Row]
    BY <1>2, Blanks DEF Report
  <2> DEFINE critical == report.critical \/ (report.counts /\ under \in Missing)
             failed == report.failed \/ (report.counts /\ under = "s3_probe_error")
             doubtful == report.doubtful \/ (report.counts /\ under \in Doubtful)
             unseen == report.blind \/ (report.counts /\ blind)
             seen == [report.seen EXCEPT ![s] = NoRow]
  <2>3. critical \in BOOLEAN /\ failed \in BOOLEAN /\ doubtful \in BOOLEAN /\ unseen \in BOOLEAN
    OBVIOUS
  <2>4. report' = [report EXCEPT !.seen = seen, !.wrong = FALSE, !.blind = unseen, !.critical = critical,
                                 !.failed = failed, !.doubtful = doubtful]
    BY <1>2, <1>c, <2>1 DEF Report
  <2>5. seen \in [Scans -> Row]
    BY <2>2
  <2> HIDE DEF critical, failed, doubtful, unseen, seen
  <2>6. /\ report' \in Report /\ ~report'.wrong
        /\ report'.tool = report.tool /\ report'.at = "rows" /\ report'.counts = report.counts
        /\ report'.s3 = report.s3 /\ report'.local = report.local
        /\ report'.known = report.known /\ report'.knew = report.knew /\ report'.whole = report.whole
        /\ report'.seen = seen /\ report'.critical = critical /\ report'.failed = failed
        /\ report'.doubtful = doubtful /\ report'.blind = unseen
    <3>1. report \in Report /\ report.at = "rows"
      BY <1>2
    <3>2. report' \in Report
      BY <2>3, <2>4, <2>5, <3>1, Flagged
    <3>3. /\ report'.tool = report.tool /\ report'.at = report.at /\ report'.counts = report.counts
          /\ report'.s3 = report.s3 /\ report'.local = report.local
          /\ report'.known = report.known /\ report'.knew = report.knew /\ report'.whole = report.whole
      BY <2>4, <3>1 DEF Report
    <3>4. /\ ~report'.wrong /\ report'.seen = seen /\ report'.critical = critical /\ report'.failed = failed
          /\ report'.doubtful = doubtful /\ report'.blind = unseen
      BY <2>4, <3>1 DEF Report
    <3> QED BY <3>1, <3>2, <3>3, <3>4
  <2> QED BY <2>6 DEF critical, failed, doubtful, unseen, seen
<1>8. Left' = Left \ {s} /\ \A t \in Left' : report'.seen[t] = report.seen[t]
  BY <1>2, <1>3, <1>7 DEF Left, Report
<1>9. ReportLists'
  BY <1>2, <1>4, <1>7, <1>8 DEF ReportLists
<1>10. CountsTell'
  <2> SUFFICES ASSUME report.counts PROVE CountsTell'
    BY <1>7 DEF CountsTell
  <2>1. row[s] = report.seen[s]
    BY <1>2, <1>3 DEF CountsTell
  <2>2. ~Strict' => \A t \in Inserted \ Left' : Stored(t)
    <3> SUFFICES ASSUME ~Strict', NEW t \in Inserted \ Left' PROVE Stored(t)
      OBVIOUS
    <3>1. ~Strict /\ under \in Fine
      BY <1>5, <1>7, <2>1 DEF Strict, Headings
    <3>2. CASE t = s
      BY <1>5, <2>1, <3>1, <3>2
    <3>3. CASE t # s
      BY <1>2, <1>8, <3>1, <3>3 DEF CountsTell
    <3> QED BY <3>2, <3>3
  <2>3. ASSUME report.s3, report.local, AllStored
        PROVE  (report'.critical => report'.blind) /\ ~report'.doubtful
    <3>1. s \in Inserted /\ Stored(s)
      BY <1>2, <1>3, <2>1, <2>3 DEF ReportLists, Inserted, AllStored
    <3>2. (report.critical => report.blind) /\ ~report.doubtful
      BY <1>2, <2>3 DEF CountsTell
    <3>3. (under \in Missing => blind) /\ under \notin Doubtful
      BY <1>5, <1>d, <2>1, <2>3, <3>1
    <3> QED BY <1>7, <3>2, <3>3
  <2>4. \A t \in Left' : report'.seen[t] = row'[t]
    BY <1>2, <1>8 DEF CountsTell
  <2>5. report'.blind => Strict'
    <3>1. report.blind => Strict
      BY <1>2 DEF CountsTell
    <3>2. CASE report.blind
      BY <1>7, <3>1, <3>2 DEF Strict
    <3>3. CASE blind
      BY <1>7, <1>d, <2>1, <3>3 DEF Strict
    <3> QED BY <1>7, <3>2, <3>3
  <2>6. AllStored' <=> AllStored
    BY <1>4 DEF AllStored, Inserted
  <2>7. report.tool = "audit"
    BY <1>2 DEF CountsTell
  <2> QED BY <1>2, <1>4, <1>7, <2>2, <2>3, <2>4, <2>5, <2>6, <2>7 DEF CountsTell, Inserted
<1> QED BY <1>4, <1>7, <1>9, <1>10 DEF ReportInv

\* What is left of the flags when the rows are done is what they were, or nothing.
LEMMA RowsDoneFacts ==
  ASSUME report \in Report, ~report.wrong, Left = {}, report.tool = "audit",
         report.known = {}, report.knew = {}, ~report.whole
  PROVE  /\ RowsDone \in Report /\ RowsDone.tool = "audit" /\ ~RowsDone.wrong
         /\ RowsDone.counts => report.counts /\ RowsDone = report
         /\ RowsDone.known = {} /\ RowsDone.knew = {} /\ ~RowsDone.whole
         /\ \A s \in Scans : RowsDone.seen[s] = NoRow
<1>1. CASE report.counts
  <2>1. RowsDone = [report EXCEPT !.wrong = report.wrong]
    BY <1>1 DEF RowsDone
  <2>2. RowsDone = report
    BY <2>1 DEF Report
  <2> QED BY <1>1, <2>2 DEF Left
<1>2. CASE ~report.counts
  <2>1. RowsDone = [[Quiet EXCEPT !.tool = "audit"] EXCEPT !.wrong = report.wrong]
    BY <1>2 DEF RowsDone
  <2>2. report.wrong = FALSE
    BY DEF Report
  <2>3. Quiet.known = {} /\ Quiet.whole = FALSE
    BY DEF Quiet
  <2> QED BY <2>1, <2>2, <2>3, QuietFacts DEF Report
<1> QED BY <1>1, <1>2

\* The rows are done: the audit goes on, with the names or without them.
LEMMA RowsDoneTell ==
  ASSUME ReportInv, report.at = "rows", Left = {}, report.tool = "audit",
         UNCHANGED <<row, files, objects, run, retry, unsure>>,
         NEW at \in {"walk", "done"}, NEW known \in SUBSET (Keys \union {NoKey}), NEW knew \in SUBSET Scans,
         NEW from, from = RowsDone,
         report' = [from EXCEPT !.at = at, !.known = known, !.knew = knew],
         at = "walk" => known = {row[s].key : s \in Inserted},
         at = "done" => known = {},
         Inserted # {} => knew \subseteq Inserted
  PROVE  ReportInv'
<1>1. TypeOK /\ report \in Report /\ ~report.wrong /\ ReportLists /\ CountsTell
  BY DEF ReportInv
<1>2. TypeOK' /\ Inserted' = Inserted /\ \A t \in Scans : Stored(t)' <=> Stored(t)
  BY <1>1 DEF TypeOK, Inserted, Stored
<1>3. /\ from \in Report /\ from.tool = "audit" /\ ~from.wrong /\ (from.counts => report.counts /\ from = report)
      /\ ~from.whole /\ \A s \in Scans : from.seen[s] = NoRow
  <2>1. report.known = {} /\ report.knew = {} /\ ~report.whole
    BY <1>1 DEF ReportLists
  <2> QED BY <1>1, <2>1, RowsDoneFacts
<1>4. /\ report' \in Report /\ ~report'.wrong /\ report'.at = at /\ report'.known = known
      /\ report'.knew = knew /\ report'.tool = from.tool /\ report'.seen = from.seen
      /\ report'.counts = from.counts /\ report'.critical = from.critical
      /\ report'.failed = from.failed /\ report'.doubtful = from.doubtful
      /\ report'.blind = from.blind /\ report'.whole = from.whole
      /\ report'.s3 = from.s3 /\ report'.local = from.local
  BY <1>3 DEF Report
<1>5. Left' = {}
  BY <1>3, <1>4 DEF Left
<1>6. ReportLists'
  BY <1>1, <1>2, <1>3, <1>4, <1>5 DEF ReportLists
<1>7. CountsTell'
  <2> SUFFICES ASSUME from.counts PROVE CountsTell'
    BY <1>4 DEF CountsTell
  <2>1. from = report /\ report.counts
    BY <1>3
  <2>2. AllStored' <=> AllStored
    BY <1>2 DEF AllStored, Inserted
  <2>3. ~Strict' => \A s \in Inserted' \ Left' : Stored(s)'
    BY <1>1, <1>2, <1>4, <1>5, <2>1 DEF CountsTell, Strict, Inserted
  <2>4. report'.s3 /\ report'.local /\ AllStored' => (report'.critical => report'.blind) /\ ~report'.doubtful
    BY <1>1, <1>4, <2>1, <2>2 DEF CountsTell
  <2>5. report'.blind => Strict'
    BY <1>1, <1>4, <2>1 DEF CountsTell, Strict
  <2>6. report'.at = "walk" => report'.known = {row'[s].key : s \in Inserted'}
    BY <1>2, <1>4
  <2>7. report'.at # "rows" /\ (report'.at = "done" => ~report'.whole)
    BY <1>3, <1>4
  <2> QED BY <1>3, <1>4, <1>5, <2>3, <2>4, <2>5, <2>6, <2>7 DEF CountsTell
<1> QED BY <1>2, <1>4, <1>6, <1>7 DEF ReportInv

LEMMA KeysReadTell == ASSUME ReportInv, LoadReferenced PROVE ReportInv'
<1> DEFINE keys == {row[s].key : s \in Inserted}
<1>1. /\ report.at = "rows" /\ Left = {} /\ report.tool = "audit"
      /\ UNCHANGED <<row, files, objects, run, retry, unsure>>
      /\ report' = [RowsDone EXCEPT !.at = "walk", !.known = keys, !.knew = Inserted]
  BY DEF LoadReferenced, vars
<1>2. keys \in SUBSET (Keys \union {NoKey}) /\ Inserted \in SUBSET Scans
  BY DEF ReportInv, TypeOK, Row, Inserted
<1>3. keys = {row[s].key : s \in Inserted}
  OBVIOUS
<1> HIDE DEF keys
<1> QED BY <1>1, <1>2, <1>3, RowsDoneTell

LEMMA SkippedTell == ASSUME ReportInv, SkipOrphans PROVE ReportInv'
<1>1. /\ TypeOK /\ report \in Report /\ ~report.wrong /\ ReportLists /\ report.at = "rows" /\ Left = {}
      /\ UNCHANGED <<row, files, objects, run, retry, unsure>>
  BY DEF ReportInv, SkipOrphans, vars
<1>2. CASE report.tool = "audit"
  <2>1. report' = [RowsDone EXCEPT !.at = "done"]
    BY <1>2 DEF SkipOrphans
  <2>2. RowsDone \in Report /\ RowsDone.known = {} /\ RowsDone.knew = {}
    <3>1. report.known = {} /\ report.knew = {} /\ ~report.whole
      BY <1>1 DEF ReportLists
    <3> QED BY <1>1, <1>2, <3>1, RowsDoneFacts
  <2>3. report' = [RowsDone EXCEPT !.at = "done", !.known = {}, !.knew = {}]
    BY <2>1, <2>2 DEF Report
  <2> QED BY <1>1, <1>2, <2>3, RowsDoneTell
<1>3. CASE report.tool # "audit"
  <2>1. report' = Quiet
    BY <1>3 DEF SkipOrphans
  <2>2. Left' = {} /\ ReportLists' /\ CountsTell'
    BY <2>1, QuietFacts DEF Left, ReportLists, CountsTell
  <2>3. TypeOK'
    BY <1>1 DEF TypeOK
  <2> QED BY <2>1, <2>2, <2>3, QuietFacts DEF ReportInv
<1> QED BY <1>2, <1>3

LEMMA WalkTells == ASSUME ReportInv, Walk PROVE ReportInv'
<1>1. /\ TypeOK /\ report \in Report /\ ~report.wrong /\ ReportLists /\ CountsTell
      /\ report.at = "walk" /\ UNCHANGED <<row, files, objects, run, retry, unsure>>
  BY DEF ReportInv, Walk, vars
<1>2. TypeOK' /\ Inserted' = Inserted /\ \A t \in Scans : Stored(t)' <=> Stored(t)
  BY <1>1 DEF TypeOK, Inserted, Stored
<1>3. PICK read \in SUBSET files :
        report' = [report EXCEPT !.at = "done", !.known = Orphans(read),
                                 !.whole = report.counts /\ read = files,
                                 !.doubtful = @ \/ (report.counts /\ Orphans(read) # {})]
  BY DEF Walk
<1>a. Orphans(read) \subseteq Keys \union {NoKey}
  BY <1>1 DEF TypeOK, Orphans
<1>4. /\ report' \in Report /\ ~report'.wrong /\ report'.at = "done" /\ report'.known = Orphans(read)
      /\ report'.knew = report.knew /\ report'.tool = report.tool /\ report'.seen = report.seen
      /\ report'.counts = report.counts /\ report'.critical = report.critical /\ report'.blind = report.blind
      /\ report'.failed = report.failed /\ report'.s3 = report.s3 /\ report'.local = report.local
      /\ report'.whole = (report.counts /\ read = files)
      /\ report'.doubtful = (report.doubtful \/ (report.counts /\ Orphans(read) # {}))
  BY <1>1, <1>3, <1>a DEF Report
<1>5. Left' = Left
  BY <1>4 DEF Left
<1>6. ReportLists'
  BY <1>1, <1>2, <1>4, <1>5 DEF ReportLists, Orphans
<1>7. CountsTell'
  <2> SUFFICES ASSUME report.counts PROVE CountsTell'
    BY <1>4 DEF CountsTell
  <2>1. report.known = {row[s].key : s \in Inserted} /\ Left = {} /\ report.tool = "audit"
    BY <1>1 DEF CountsTell
  <2>2. (AllNamed => Orphans(read) = {}) /\ (read = files /\ Orphans(read) = {} => AllNamed)
    BY <2>1 DEF Orphans, AllNamed
  <2>3. (AllNamed' <=> AllNamed) /\ (AllStored' <=> AllStored)
    BY <1>1, <1>2 DEF AllNamed, AllStored, Inserted
  <2>4. ~Strict' => \A s \in Inserted' \ Left' : Stored(s)'
    BY <1>1, <1>2, <1>4, <1>5 DEF CountsTell, Strict, Inserted
  <2>5. report'.s3 /\ report'.local /\ AllStored' /\ AllNamed' =>
          (report'.critical => report'.blind) /\ ~report'.doubtful
    BY <1>1, <1>4, <2>2, <2>3 DEF CountsTell
  <2>6. ~report'.doubtful /\ report'.whole => AllNamed'
    BY <1>4, <2>2, <2>3
  <2>7. report'.blind => Strict'
    BY <1>1, <1>4 DEF CountsTell, Strict
  <2> QED BY <1>4, <1>5, <2>1, <2>4, <2>5, <2>6, <2>7 DEF CountsTell
<1> QED BY <1>2, <1>4, <1>6, <1>7 DEF ReportInv

LEMMA ReportNext == ASSUME ReportInv, [NextWithReports]_auditVars PROVE ReportInv'
<1>1. ASSUME Exit PROVE ReportInv'
  <2>1. TypeOK' /\ report' = Quiet
    BY <1>1 DEF Exit, ReportInv, TypeOK, vars
  <2>2. Left' = {} /\ ReportLists' /\ CountsTell'
    BY <2>1, QuietFacts DEF Left, ReportLists, CountsTell
  <2> QED BY <2>1, <2>2, QuietFacts DEF ReportInv
<1>2. CASE UNCHANGED auditVars
  <2>1. UNCHANGED <<row, files, objects, run, retry, unsure, report>>
    BY <1>2 DEF auditVars
  <2>2. Inserted' = Inserted /\ Left' = Left /\ \A s \in Scans : Stored(s)' <=> Stored(s)
    BY <2>1 DEF Inserted, Left, Stored
  <2>3. TypeOK' /\ ReportLists' /\ report' \in Report /\ ~report'.wrong
    BY <2>1, <2>2 DEF ReportInv, TypeOK, ReportLists
  <2>4. CountsTell'
    BY <2>1, <2>2 DEF ReportInv, CountsTell, Strict, AllNamed, AllStored, Inserted
  <2> QED BY <2>3, <2>4 DEF ReportInv
<1> QED BY <1>1, <1>2, ReportOvertaken, QueryTells, RowTells, KeysReadTell, SkippedTell, WalkTells
        DEF NextWithReports, ReportStep

\* A row reported fine could be read and one reported missing could not, unless it was
\* changed since the query or its file could not be looked at; an orphan is the upload of
\* no local row that was there when the keys were read; and the exit code of an audit that
\* had the system to itself tells whether every upload can be read and, of the files the
\* walk came past, whether every one belongs to a row.  Whatever else runs or fails.
THEOREM ReportsTold == SpecWithReports => []ReportsTell
<1>1. InitWithReports => ReportInv
  BY ReportInit
<1>2. ReportInv /\ [NextWithReports]_auditVars => ReportInv'
  BY ReportNext
<1>3. ASSUME ReportInv PROVE ReportsTell
  <2>1. report \in Report /\ ReportLists /\ CountsTell /\ HeadingsTell
    BY <1>3 DEF ReportInv, HeadingsTell
  <2>2. OrphansTell
    BY <2>1 DEF ReportLists, OrphansTell
  <2>3. ASSUME report.at = "done", report.counts
        PROVE  LET stored == \A s \in Inserted : Stored(s)
                   named == files \subseteq {row[s].key : s \in Inserted}
                   strict == report.critical \/ report.failed \/ report.doubtful IN
               /\ ~strict => stored /\ (report.whole => named)
               /\ report.s3 /\ report.local /\ stored /\ named => strict = (report.failed \/ report.blind)
    <3>1. ~Strict => AllStored /\ (report.whole => AllNamed)
      BY <2>1, <2>3 DEF CountsTell, Strict, AllStored
    <3>2. report.s3 /\ report.local /\ AllStored /\ AllNamed =>
            (report.critical => report.blind) /\ ~report.doubtful
      BY <2>1, <2>3 DEF CountsTell
    <3>3. /\ report.failed \in BOOLEAN /\ report.critical \in BOOLEAN /\ report.doubtful \in BOOLEAN
          /\ report.blind \in BOOLEAN /\ report.whole \in BOOLEAN
      BY <2>1 DEF Report
    <3>4. report.blind => Strict
      BY <2>1, <2>3 DEF CountsTell
    <3> QED BY <3>1, <3>2, <3>3, <3>4 DEF Strict, AllNamed, AllStored
  <2> QED BY <2>1, <2>2, <2>3 DEF ReportsTell, ExitTells
<1> QED BY <1>1, <1>2, <1>3, PTL DEF SpecWithReports

================================================================================
