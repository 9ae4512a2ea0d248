------------------------------- MODULE WebScans -------------------------------
(***************************************************************************)
(* The scan pages of one browser tab in the foreground: the form that      *)
(* submits a scan (_app.scan.tsx), the page that waits for its outcome     *)
(* (_app.scans.$id.tsx, useScanByIdQuery) and previews the media           *)
(* (ScanMediaPreview), and the history (HistorySearch), with the cached    *)
(* answers they share (scanKeys).                                          *)
(*                                                                         *)
(* A submission goes on after its form is gone, a request after its page.  *)
(* An answer says what the API knew when it was asked.                     *)
(***************************************************************************)
EXTENDS HistoryWords

CONSTANTS
  Scans,
  Slots,          \* submissions under way
  MaxEvents       \* what the user does, requests lost and requeues: a bound

ASSUME WebScansAssumption == MaxEvents \in Nat

VARIABLES
  row,     \* the API's rows: none, pending (or processing) or ended (completed or failed)
  cache,   \* queries "scan detail": the data, whether it is stale, whether the last fetch failed
  got,     \* their fetches in flight, with the answer
  list,    \* query "history" without a search: the scans it lists, and whether it is stale
  listGot, \* its fetch in flight
  page,    \* the page shown
  form,    \* the submission the form shown is busy with
  sub,     \* submissions
  preview, \* the preview on the page: of which scan, and what it shows
  media,   \* requests for media in flight
  left,    \* how many events may still happen
  heard, overtaken,  \* history: scans whose reply has come; of those, with an older history in flight
  draft, debounced, url, going, wish, crossed

History == INSTANCE HistorySearch

search == <<draft, debounced, url, going, wish, crossed>>
answers == <<cache, got>>
lists == <<list, listGot>>
looks == <<preview, media>>
vars == <<row, answers, lists, page, form, sub, looks, left, heard, overtaken, search>>

-----------------------------------------------------------------------------
Nothing == "none"
Statuses == {Nothing, "pending", "ended"}
At(path) == [path |-> path, scan |-> Nothing]
Detail(s) == [path |-> "detail", scan |-> s]
Pages == {At(path) : path \in {"home", "list", "scan"}} \union {Detail(s) : s \in Scans}
Answer(data) == [data |-> data, stale |-> FALSE, error |-> FALSE]
NoAnswer == [data |-> Nothing, stale |-> TRUE, error |-> FALSE]
NoList == [there |-> FALSE, known |-> {}, stale |-> TRUE]
NotAsked == [on |-> FALSE, known |-> {}]
Idle == [step |-> "idle", scan |-> Nothing]

There == {s \in Scans : row[s] # Nothing}
Fetching(s) == got[s] # Nothing
\* The dashboard shows the first page of the history, the history page what is searched.
Lists == page.path = "home" \/ (page.path = "list" /\ History!Queried = History!Everything)

\* What the page of a scan shows: loading, the error of the last fetch, or the data.
Shown(answer) ==
  IF answer.error THEN "error" ELSE IF answer.data = Nothing THEN "loading" ELSE answer.data

Init ==
  /\ row \in [Scans -> Statuses]
  /\ cache = [s \in Scans |-> NoAnswer] /\ got = [s \in Scans |-> Nothing]
  /\ list = NoList /\ listGot = NotAsked
  /\ page \in {At("home")} \union {Detail(s) : s \in There} /\ form = Nothing
  /\ sub = [f \in Slots |-> Idle]
  /\ preview = [of |-> Nothing, shows |-> Nothing] /\ media = {}
  /\ left = MaxEvents
  /\ heard = {} /\ overtaken = {}
  /\ History!Opened(History!Everything)

-----------------------------------------------------------------------------
(* The media preview. *)

\* The effect runs again when the scan shown changes or the preview leaves the page: it aborts
\* the request of the run before it and asks for the media of the scan that is there now.
Previewed(where, answered) ==
  IF where.path = "detail" /\ Shown(answered[where.scan]) \notin {"error", "loading"}
  THEN where.scan ELSE Nothing
Abort == {[r EXCEPT !.aborted = TRUE] : r \in media}
Preview(where, answered) ==
  LET s == Previewed(where, answered) IN
  IF s = preview.of THEN UNCHANGED looks
  ELSE /\ preview' = [of |-> s, shows |-> Nothing]
       /\ media' = Abort \union (IF s = Nothing THEN {} ELSE {[scan |-> s, aborted |-> FALSE]})

\* An answer, of the media or of an error.
Media(r, shows) ==
  /\ r \in media
  /\ media' = media \ {r}
  /\ preview' = IF r.aborted THEN preview ELSE [preview EXCEPT !.shows = shows]
  /\ UNCHANGED <<row, answers, lists, page, form, sub, left, heard, overtaken, search>>

-----------------------------------------------------------------------------
(* The queries. *)

\* A fetch of a query without data puts it back to loading.
Asked(s) == IF cache[s].data = Nothing THEN [cache EXCEPT ![s].error = FALSE] ELSE cache
Ask(s) ==
  /\ ~Fetching(s) /\ row[s] # Nothing
  /\ got' = [got EXCEPT ![s] = row[s]]
  /\ cache' = Asked(s)
  /\ Preview(page, cache')
  /\ UNCHANGED <<row, lists, page, form, sub, left, heard, overtaken, search>>

\* On opening its page, on focus and on reconnection.
Observe(s) == page = Detail(s) /\ cache[s].stale /\ Ask(s)
PollHealthy(s) == page = Detail(s) /\ cache[s].data = "pending" /\ ~cache[s].error /\ Ask(s)
\* Every 2.5 s while there is data and it says pending, whether or not the last fetch failed.
Poll(s) == page = Detail(s) /\ cache[s].data = "pending" /\ Ask(s)

Answered(s) ==
  /\ Fetching(s)
  /\ cache' = [cache EXCEPT ![s] = Answer(got[s])]
  /\ got' = [got EXCEPT ![s] = Nothing]
  /\ Preview(page, cache')
  /\ UNCHANGED <<row, lists, page, form, sub, left, heard, overtaken, search>>

\* The request and its one retry fail.
Unanswered(s) ==
  /\ Fetching(s)
  /\ cache' = [cache EXCEPT ![s].error = TRUE, ![s].stale = TRUE]
  /\ got' = [got EXCEPT ![s] = Nothing]
  /\ Preview(page, cache')
  /\ UNCHANGED <<row, lists, page, form, sub, left, heard, overtaken, search>>

ListAsks ==
  /\ Lists /\ list.stale /\ ~listGot.on
  /\ listGot' = [on |-> TRUE, known |-> There]
  /\ UNCHANGED <<row, answers, list, page, form, sub, looks, left, heard, overtaken, search>>

ListAnswered ==
  /\ listGot.on
  /\ list' = [there |-> TRUE, known |-> listGot.known, stale |-> FALSE]
  /\ listGot' = NotAsked
  /\ UNCHANGED <<row, answers, page, form, sub, looks, left, heard, overtaken, search>>

ListUnanswered ==
  /\ listGot.on
  /\ listGot' = NotAsked
  /\ UNCHANGED <<row, answers, list, page, form, sub, looks, left, heard, overtaken, search>>

\* Five minutes pass.
Age ==
  /\ left > 0 /\ left' = left - 1
  /\ cache' = [s \in Scans |-> [cache[s] EXCEPT !.stale = TRUE]]
  /\ list' = [list EXCEPT !.stale = TRUE]
  /\ UNCHANGED <<row, got, listGot, page, form, sub, looks, heard, overtaken, search>>

-----------------------------------------------------------------------------
(* The form. *)

Leave(f) == form' = IF form = f THEN Nothing ELSE form

Submit(f) ==
  /\ left > 0 /\ left' = left - 1
  /\ page = At("scan") /\ form = Nothing /\ sub[f] = Idle
  /\ sub' = [sub EXCEPT ![f].step = "posting"]
  /\ form' = f
  /\ UNCHANGED <<row, answers, lists, page, looks, heard, overtaken, search>>

\* The API stores the scan, even of a request the tab has given up.
Insert(f, s) ==
  /\ sub[f].step \in {"posting", "given up"} /\ sub[f].scan = Nothing /\ row[s] = Nothing
  /\ row' = [row EXCEPT ![s] = "pending"]
  /\ sub' = [sub EXCEPT ![f] = IF @.step = "posting" THEN [@ EXCEPT !.scan = s] ELSE Idle]
  /\ UNCHANGED <<answers, lists, page, form, looks, left, heard, overtaken, search>>

\* The plan does not allow a scan, the file is refused, or a request given up never arrived.
Refuse(f) ==
  /\ sub[f].step \in {"posting", "given up"} /\ sub[f].scan = Nothing
  /\ sub' = [sub EXCEPT ![f] = Idle]
  /\ Leave(f)
  /\ UNCHANGED <<row, answers, lists, page, looks, left, heard, overtaken, search>>

\* The network fails, or the request takes longer than it may (SCAN_UPLOAD_MS, SCAN_URL_MS).
Lose(f) ==
  /\ left > 0 /\ left' = left - 1
  /\ sub[f].step = "posting"
  /\ sub' = [sub EXCEPT ![f] = IF @.scan = Nothing THEN [@ EXCEPT !.step = "given up"] ELSE Idle]
  /\ Leave(f)
  /\ UNCHANGED <<row, answers, lists, page, looks, heard, overtaken, search>>

\* Every scan query is invalidated.  The ones on the page are fetched again, unless their first
\* fetch is still in flight; one that nobody looks at keeps the fetch it has.
KeepsList == listGot.on /\ (~Lists \/ ~list.there)
InvalidateDetails ==
  /\ cache' = [x \in Scans |-> [cache[x] EXCEPT !.stale = TRUE]]
  /\ UNCHANGED <<got, lists>>
Invalidate ==
  /\ list' = [list EXCEPT !.stale = TRUE]
  /\ listGot' = IF Lists /\ ~KeepsList THEN [on |-> TRUE, known |-> There] ELSE listGot
  /\ LET s == page.scan IN
     IF page.path = "detail" /\ (Fetching(s) => cache[s].data # Nothing)
     THEN /\ got' = [got EXCEPT ![s] = row[s]]
          /\ cache' = [x \in Scans |-> [Asked(s)[x] EXCEPT !.stale = TRUE]]
     ELSE /\ cache' = [x \in Scans |-> [cache[x] EXCEPT !.stale = TRUE]]
          /\ UNCHANGED got

Reply(f) ==
  /\ sub[f].step = "posting" /\ sub[f].scan # Nothing
  /\ sub' = [sub EXCEPT ![f].step = "refetching"]
  /\ Invalidate
  /\ heard' = heard \union {sub[f].scan}
  /\ overtaken' = IF KeepsList /\ sub[f].scan \notin listGot.known
                  THEN overtaken \union {sub[f].scan} ELSE overtaken
  /\ UNCHANGED <<row, page, form, looks, left, search>>

\* Promise.all waits for those fetches, and does not mind how they end.
Refetched(f) ==
  /\ sub[f].step = "refetching"
  /\ Lists => ~listGot.on
  /\ \A s \in Scans : page = Detail(s) => ~Fetching(s)
  /\ sub' = [sub EXCEPT ![f].step = "me"]
  /\ UNCHANGED <<row, answers, lists, page, form, looks, left, heard, overtaken, search>>

\* fetchFreshMe; "Scan queued".
MeFresh(f) ==
  /\ sub[f].step = "me"
  /\ sub' = [sub EXCEPT ![f].step = "leaving"]
  /\ UNCHANGED <<row, answers, lists, page, form, looks, left, heard, overtaken, search>>

\* The scan is queued and the form says it failed.
MeFails(f) ==
  /\ left > 0 /\ left' = left - 1
  /\ sub[f].step = "me"
  /\ sub' = [sub EXCEPT ![f] = Idle]
  /\ Leave(f)
  /\ UNCHANGED <<row, answers, lists, page, looks, heard, overtaken, search>>

-----------------------------------------------------------------------------
(* The pages. *)

Show(where) ==
  /\ page' = where
  /\ History!Reopen(History!Everything)
  /\ UNCHANGED cache
  /\ Preview(where, cache)

Go(where) ==
  /\ left > 0 /\ left' = left - 1
  /\ where # page
  /\ where.path = "detail" => row[where.scan] # Nothing
  /\ Show(where)
  /\ form' = Nothing
  /\ UNCHANGED <<row, got, lists, sub, heard, overtaken>>

\* Half a second later the tab goes to the scan, wherever the user has gone.
Pull(f) ==
  /\ sub[f].step = "leaving"
  /\ Show(Detail(sub[f].scan))
  /\ form' = Nothing
  /\ sub' = [sub EXCEPT ![f] = Idle]
  /\ UNCHANGED <<row, got, lists, left, heard, overtaken>>

Search ==
  /\ page.path = "list"
  /\ History!Act /\ left > 0 /\ left' = left - 1
  /\ UNCHANGED <<row, answers, lists, page, form, sub, looks, heard, overtaken>>

Searching ==
  /\ page.path = "list"
  /\ History!React
  /\ UNCHANGED <<row, answers, lists, page, form, sub, looks, left, heard, overtaken>>

\* The worker ends a scan; an operator puts one back.
End(s) ==
  /\ row[s] = "pending"
  /\ row' = [row EXCEPT ![s] = "ended"]
  /\ UNCHANGED <<answers, lists, page, form, sub, looks, left, heard, overtaken, search>>

Requeue(s) ==
  /\ left > 0 /\ left' = left - 1
  /\ row[s] = "ended"
  /\ row' = [row EXCEPT ![s] = "pending"]
  /\ UNCHANGED <<answers, lists, page, form, sub, looks, heard, overtaken, search>>

Next ==
  \/ \E s \in Scans : Observe(s) \/ Poll(s) \/ Answered(s) \/ Unanswered(s) \/ End(s) \/ Requeue(s)
  \/ \E r \in media, shows \in {"media", "error"} :
       Media(r, IF shows = "media" THEN r.scan ELSE "error")
  \/ ListAsks \/ ListAnswered \/ ListUnanswered \/ Age
  \/ \E f \in Slots : Submit(f) \/ Refuse(f) \/ Lose(f) \/ Reply(f) \/ Refetched(f)
  \/ \E f \in Slots : MeFresh(f) \/ MeFails(f) \/ Pull(f)
  \/ \E f \in Slots, s \in Scans : Insert(f, s)
  \/ \E where \in Pages : Go(where)
  \/ Search \/ Searching

\* The timer of the polls ticks in a tab in the foreground; requests that are made again and
\* again are answered in the end, and every request for media ends.
Fairness ==
  /\ \A s \in Scans : WF_vars(Poll(s)) /\ SF_vars(Answered(s))
  /\ \A s \in Scans, aborted \in BOOLEAN :
       LET r == [scan |-> s, aborted |-> aborted] IN WF_vars(Media(r, s) \/ Media(r, "error"))
Spec == Init /\ [][Next]_vars /\ Fairness

-----------------------------------------------------------------------------
TypeOK ==
  /\ row \in [Scans -> Statuses]
  /\ cache \in [Scans -> [data : Statuses, stale : BOOLEAN, error : BOOLEAN]]
  /\ got \in [Scans -> Statuses]
  /\ list \in [there : BOOLEAN, known : SUBSET Scans, stale : BOOLEAN]
  /\ listGot \in [on : BOOLEAN, known : SUBSET Scans]
  /\ page \in Pages /\ form \in Slots \union {Nothing}
  /\ sub \in [Slots -> [step : {"idle", "posting", "given up", "refetching", "me", "leaving"},
                        scan : Scans \union {Nothing}]]
  /\ preview \in [of : Scans \union {Nothing}, shows : Scans \union {Nothing, "error"}]
  /\ media \subseteq [scan : Scans, aborted : BOOLEAN]
  /\ left \in 0 .. MaxEvents /\ heard \subseteq Scans /\ overtaken \subseteq heard
  /\ History!TypeOK

\* The box and the filters of the history show what was asked for (HistorySearch).
SearchHonoured == page.path = "list" => History!SearchHonoured

\* A history taken for fresh leaves a scan of the user out only if the reply to its submission
\* has never come, or if it was asked for before the scan and arrived after it, as the
\* first answer or with no page showing the history (startScan's invalidateQueries).
HistoryExplained ==
  ~list.stale /\ ~listGot.on =>
    \A s \in There \ list.known : s \notin heard \/ s \in overtaken

\* Whoever stays on the page of a scan that has ended, once it has loaded, comes to an outcome
\* with that scan's media or the notice that there is none; failed polls, late answers and
\* another scan's media do not prevent it (useScanByIdQuery, ScanMediaPreview).
Stays(s) == page = Detail(s) /\ row[s] = "ended" /\ cache[s].data # Nothing
Settled(s) ==
  /\ cache[s].data = "ended"
  /\ Shown(cache[s]) = "ended" => preview.shows \in {s, "error"}
DetailSettles == \A s \in Scans : []([]Stays(s) => <>Settled(s))

-----------------------------------------------------------------------------
(* Why the history is explained *)

\* A submission that names a scan names one the API has stored.
SubmissionsStored ==
  /\ \A f \in Slots :
       /\ sub[f].scan # Nothing => sub[f].scan \in There
       /\ sub[f].step \in {"refetching", "me", "leaving"} => sub[f].scan # Nothing
  /\ heard \subseteq There

\* A list of scans, in the cache or in an answer on its way, that may be taken for fresh.
Covers(known) == \A s \in There \ known : s \notin heard \/ s \in overtaken

ListsCover == (listGot.on => Covers(listGot.known)) /\ (~list.stale => Covers(list.known))

ScansInv == TypeOK /\ SubmissionsStored /\ ListsCover

=============================================================================
