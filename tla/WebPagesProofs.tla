---------------------------- MODULE WebPagesProofs ----------------------------
(***************************************************************************)
(* Proofs about HistorySearch for any words and any number of pages, about *)
(* WebScans for any number of scans, submissions and events, about the     *)
(* replies its media requests get, for files of any size and any header    *)
(* (MediaReply), and about the requests of TeamPlans for any users,        *)
(* requests and connections, and what the pages then offer (PlanOffers).   *)
(***************************************************************************)
EXTENDS WebScans, MediaReply, PlanOffers, FiniteSetTheorems, WellFoundedInduction, TLAPS

\* HistorySearch once more, by a shorter name; SameDefinitions shows it to be the tab's own.
H == INSTANCE HistorySearch

-----------------------------------------------------------------------------
(* Texts and searches *)

Trimmed == {H!Trim(t) : t \in H!Texts}

LEMMA Trims ==
  /\ H!Empty \in H!Texts /\ H!Trim(H!Empty) = H!Empty /\ H!Empty \in Trimmed /\ Trimmed \subseteq H!Texts
  /\ \A t \in H!Texts : /\ H!Trim(t) \in Trimmed /\ H!Trim(H!Trim(t)) = H!Trim(t)
                        /\ H!Trim(t) = H!Empty => t = H!Empty
  /\ \A q \in Trimmed : H!Trim(q) = q
<1>0. MaxPage \in Nat \ {0} /\ "" \notin Words
  BY HistorySearchAssumption
<1>1. H!Empty \in H!Texts /\ H!Trim(H!Empty) = H!Empty
  <2>1. H!Empty \in H!Texts
    BY DEF H!Texts
  <2>2. H!Trim(H!Empty) = H!Empty
    <3>1. H!Empty \in [word : {""}, space : BOOLEAN] /\ H!Empty.space = FALSE
      BY DEF H!Empty
    <3>2. H!Trim(H!Empty) \in [word : {""}, space : BOOLEAN] /\ H!Trim(H!Empty).space = FALSE
      BY <3>1 DEF H!Trim
    <3>3. ASSUME NEW r \in [word : {""}, space : BOOLEAN]
          PROVE  r = [word |-> "", space |-> r.space]
      <4>1. r = [word |-> r.word, space |-> r.space]
        OBVIOUS
      <4>2. r.word = ""
        OBVIOUS
      <4> QED BY <4>1, <4>2
    <3> QED BY <3>1, <3>2, <3>3
  <2> QED BY <2>1, <2>2
<1>2. ASSUME NEW t \in [word : Words, space : BOOLEAN]
      PROVE  /\ H!Trim(t) \in [word : Words, space : BOOLEAN] /\ H!Trim(H!Trim(t)) = H!Trim(t)
             /\ H!Trim(t) # H!Empty
  <2>1. t.word \in Words /\ H!Trim(t) \in [word : Words, space : BOOLEAN] /\ H!Trim(t).word = t.word
    BY DEF H!Trim
  <2>2. H!Trim(t).space = FALSE
    BY DEF H!Trim
  <2>3. H!Trim(H!Trim(t)) = H!Trim(t)
    BY <2>1, <2>2 DEF H!Trim
  <2>4. H!Trim(t).word # H!Empty.word
    BY <1>0, <2>1 DEF H!Empty
  <2> QED BY <2>1, <2>3, <2>4
<1>4. ASSUME NEW t \in H!Texts
      PROVE  H!Trim(t) \in H!Texts /\ H!Trim(H!Trim(t)) = H!Trim(t) /\ (H!Trim(t) = H!Empty => t = H!Empty)
  <2>1. CASE t = H!Empty
    BY <1>1, <2>1
  <2>2. CASE t \in [word : Words, space : BOOLEAN]
    BY <1>2, <2>2 DEF H!Texts
  <2> QED BY <2>1, <2>2 DEF H!Texts
<1> QED BY <1>1, <1>4 DEF Trimmed

LEMMA SearchFields ==
  /\ \A q \in Trimmed, f \in H!Filters, p \in 1 .. MaxPage :
       /\ H!Search(q, f, p) \in H!Searches
       /\ H!Search(q, f, p).q = q /\ H!Search(q, f, p).filter = f /\ H!Search(q, f, p).page = p
  /\ \A s \in H!Searches :
       /\ s.q \in Trimmed /\ s.filter \in H!Filters /\ s.page \in 1 .. MaxPage
       /\ s = H!Search(s.q, s.filter, s.page)
       /\ \A p \in 1 .. MaxPage : [s EXCEPT !.page = p] = H!Search(s.q, s.filter, p)
  /\ 1 \in 1 .. MaxPage /\ "all" \in H!Filters /\ H!Everything \in H!Searches
  /\ H!Everything.q = H!Empty /\ H!Everything.filter = "all" /\ H!Everything.page = 1
<1>0. MaxPage \in Nat /\ MaxPage # 0
  BY HistorySearchAssumption
<1>1. 1 \in 1 .. MaxPage /\ "all" \in H!Filters /\ H!Empty \in Trimmed
  <2>1. 1 \in 1 .. MaxPage
    BY <1>0
  <2>2. "all" \in H!Filters
    BY DEF H!Filters
  <2> QED BY <2>1, <2>2, Trims
<1>2. ASSUME NEW q \in Trimmed, NEW f \in H!Filters, NEW p \in 1 .. MaxPage
      PROVE  /\ H!Search(q, f, p) \in H!Searches
             /\ H!Search(q, f, p).q = q /\ H!Search(q, f, p).filter = f /\ H!Search(q, f, p).page = p
  BY DEF H!Search, H!Searches, Trimmed
<1>3. ASSUME NEW s \in H!Searches
      PROVE  /\ s.q \in Trimmed /\ s.filter \in H!Filters /\ s.page \in 1 .. MaxPage
             /\ s = H!Search(s.q, s.filter, s.page)
             /\ \A p \in 1 .. MaxPage : [s EXCEPT !.page = p] = H!Search(s.q, s.filter, p)
  BY DEF H!Search, H!Searches, Trimmed
<1> QED BY <1>1, <1>2, <1>3 DEF H!Everything

Navigations == [on : BOOLEAN, to : H!Searches]

LEMMA SearchMoves ==
  /\ H!Still \in Navigations /\ ~H!Still.on
  /\ \A s \in H!Searches : H!To(s) \in Navigations /\ H!To(s).on /\ H!To(s).to = s
  /\ \A g \in Navigations : g.on \in BOOLEAN /\ g.to \in H!Searches
BY SearchFields DEF H!Still, H!To, Navigations

-----------------------------------------------------------------------------
(* The invariant *)

LEMMA SearchTypes ==
  ASSUME H!TypeOK
  PROVE  /\ draft \in H!Texts /\ debounced \in H!Texts
         /\ H!Trim(draft) \in Trimmed /\ H!Trim(debounced) \in Trimmed
         /\ url \in H!Searches /\ wish \in H!Searches /\ going \in Navigations /\ crossed \in BOOLEAN
         /\ url.q \in Trimmed /\ url.filter \in H!Filters /\ url.page \in 1 .. MaxPage
         /\ wish.q \in Trimmed /\ wish.filter \in H!Filters /\ wish.page \in 1 .. MaxPage
         /\ going.to \in H!Searches /\ going.on \in BOOLEAN /\ going.to.q \in Trimmed
         /\ H!Seen \in H!Searches /\ H!Base \in H!Searches
         /\ H!Seen.q = H!Trim(draft) /\ H!Seen.filter = url.filter /\ H!Seen.page = url.page
<1>1. /\ draft \in H!Texts /\ debounced \in H!Texts /\ url \in H!Searches /\ wish \in H!Searches
      /\ going \in Navigations /\ crossed \in BOOLEAN
  BY DEF H!TypeOK, Navigations
<1>2. H!Trim(draft) \in Trimmed /\ H!Trim(debounced) \in Trimmed
  BY <1>1, Trims
<1>3. going.to \in H!Searches /\ going.on \in BOOLEAN
  BY <1>1, SearchMoves
<1>4. /\ url.q \in Trimmed /\ url.filter \in H!Filters /\ url.page \in 1 .. MaxPage
      /\ wish.q \in Trimmed /\ wish.filter \in H!Filters /\ wish.page \in 1 .. MaxPage
      /\ going.to.q \in Trimmed
  BY <1>1, <1>3, SearchFields
<1>5. H!Seen \in H!Searches /\ H!Seen.q = H!Trim(draft) /\ H!Seen.filter = url.filter /\ H!Seen.page = url.page
  BY <1>2, <1>4, SearchFields DEF H!Seen
<1> QED BY <1>1, <1>2, <1>3, <1>4, <1>5 DEF H!Base

\* Wherever a text and a search lead: to no navigation, or to one for the text.
LEMMA SearchFollows ==
  ASSUME NEW t \in H!Texts, NEW at \in H!Searches
  PROVE  /\ H!Follow(t, at) \in Navigations
         /\ H!Trim(t) = at.q => H!Follow(t, at) = H!Still
         /\ H!Trim(t) # at.q => H!Follow(t, at).on /\ H!Follow(t, at).to = H!Search(H!Trim(t), at.filter, 1)
BY Trims, SearchFields, SearchMoves DEF H!Follow

LEMMA SearchTypeStep == H!TypeOK /\ H!Next => H!TypeOK'
<1> SUFFICES ASSUME H!TypeOK, H!Next PROVE H!TypeOK'
  OBVIOUS
<1> USE SearchTypes
<1> DEFINE Good == /\ draft' \in H!Texts /\ debounced' \in H!Texts /\ url' \in H!Searches /\ wish' \in H!Searches
                   /\ going' \in Navigations /\ crossed' \in BOOLEAN
<1>g. Good => H!TypeOK'
  BY DEF H!TypeOK, Navigations
<1>c. \A s, c : H!Asks(s, c) => wish' = s /\ crossed' \in BOOLEAN
  BY DEF H!Asks
<1>1. CASE H!Settle
  BY <1>1, <1>g, SearchFollows DEF H!Settle
<1>2. CASE H!Arrive
  <2>1. H!Follow(debounced, going.to) \in Navigations /\ Trimmed \subseteq H!Texts
    BY SearchFollows, Trims
  <2> QED BY <1>2, <1>g, <2>1, SearchMoves DEF H!Arrive
<1>3. CASE \E text \in H!Texts : H!Type(text)
  <2>1. PICK text \in H!Texts : H!Type(text)
    BY <1>3
  <2>2. H!Base.filter \in H!Filters /\ H!Trim(text) \in Trimmed
    BY SearchFields, Trims
  <2>3. wish' \in H!Searches
    <3>1. wish' = H!Search(H!Trim(text), H!Base.filter, IF H!Trim(text) = url.q THEN url.page ELSE 1)
      BY <2>1 DEF H!Type, H!Asks
    <3>2. (IF H!Trim(text) = url.q THEN url.page ELSE 1) \in 1 .. MaxPage
      BY SearchFields
    <3> QED BY <2>2, <3>1, <3>2, SearchFields
  <2> QED BY <1>c, <1>g, <2>1, <2>3 DEF H!Type
<1>4. CASE \E filter \in H!Filters : H!Select(filter)
  <2>1. PICK filter \in H!Filters : H!Select(filter)
    BY <1>4
  <2>2. H!Base.q \in Trimmed
    BY SearchFields
  <2>3. wish' \in H!Searches /\ going' \in Navigations
    <3>1. wish' = H!Search(H!Base.q, filter, 1) /\ going' = H!To(H!Search(H!Trim(debounced), filter, 1))
      BY <1>c, <2>1 DEF H!Select
    <3> QED BY <2>2, <3>1, SearchFields, SearchMoves
  <2> QED BY <1>c, <1>g, <2>1, <2>3 DEF H!Select
<1>5. CASE \E n \in 1 .. MaxPage : H!Turn(n)
  <2>1. PICK n \in 1 .. MaxPage : H!Turn(n)
    BY <1>5
  <2>2. [H!Base EXCEPT !.page = n] \in H!Searches /\ H!Search(H!Trim(debounced), url.filter, n) \in H!Searches
    BY SearchFields
  <2>3. wish' \in H!Searches /\ going' \in Navigations
    BY <1>c, <2>1, <2>2, SearchMoves DEF H!Turn
  <2> QED BY <1>c, <1>g, <2>1, <2>3 DEF H!Turn
<1>6. CASE H!Clear
  BY <1>c, <1>g, <1>6, SearchFields, SearchMoves, Trims DEF H!Clear
<1>7. CASE H!Link
  BY <1>c, <1>g, <1>7, SearchFields, SearchMoves DEF H!Link
<1> QED BY <1>1, <1>2, <1>3, <1>4, <1>5, <1>6, <1>7 DEF H!Next, H!React, H!Act

\* What a request of the user starts from, as long as nothing was crossed.
LEMMA BaseIsWish ==
  ASSUME H!TypeOK, H!LeadsToWish, ~going.on, ~(crossed /\ ~H!Agreed)
  PROVE  /\ url.q = H!Trim(debounced)
         /\ H!Base.q = H!Trim(draft) /\ H!Base.filter = url.filter
         /\ draft = debounced => H!Base = H!Search(H!Trim(draft), url.filter, url.page)
<1> USE SearchTypes
<1>1. CASE H!Agreed
  BY <1>1 DEF H!Agreed, H!AtRest, H!Base, H!Seen
<1>2. CASE ~H!Agreed
  <2>1. url.q = H!Trim(debounced)
        /\ wish = H!Search(H!Trim(draft), url.filter, IF H!Trim(draft) = url.q THEN url.page ELSE 1)
    BY <1>2 DEF H!LeadsToWish
  <2>2. wish.q = H!Trim(draft) /\ wish.filter = url.filter
    <3>1. (IF H!Trim(draft) = url.q THEN url.page ELSE 1) \in 1 .. MaxPage
      BY SearchFields
    <3> QED BY <2>1, <3>1, SearchFields
  <2> QED BY <1>2, <2>1, <2>2 DEF H!Base
<1> QED BY <1>1, <1>2

LEMMA LeadsStep == H!SearchInv /\ H!Next => H!LeadsToWish'
<1> SUFFICES ASSUME H!TypeOK, H!LeadsToWish, H!Next, ~crossed' PROVE H!LeadsToWish'
  BY DEF H!SearchInv, H!LeadsToWish
<1> USE SearchTypes
<1>1. CASE H!Settle
  <2>1. ~crossed /\ ~going.on
    BY <1>1 DEF H!Settle
  <2>2. /\ draft' = draft /\ debounced' = draft /\ url' = url /\ wish' = wish
        /\ wish = H!Search(H!Trim(draft), url.filter, IF H!Trim(draft) = url.q THEN url.page ELSE 1)
    BY <1>1, <2>1 DEF H!Settle, H!LeadsToWish
  <2>3. CASE H!Trim(draft) = url.q
    <3>1. ~going'.on
      BY <1>1, <2>1, <2>3, SearchFollows, SearchMoves DEF H!Settle
    <3> QED BY <2>2, <2>3, <3>1 DEF H!LeadsToWish
  <2>4. CASE H!Trim(draft) # url.q
    <3>1. going'.on /\ going'.to = wish /\ wish.q = H!Trim(draft)
      BY <1>1, <2>2, <2>4, SearchFollows, SearchFields DEF H!Settle
    <3> QED BY <2>2, <3>1 DEF H!LeadsToWish
  <2> QED BY <2>3, <2>4
<1>2. CASE H!Arrive
  <2>1. ~crossed /\ going.on /\ going.to.q = H!Trim(debounced) /\ url' = going.to /\ debounced' = debounced
        /\ wish' = wish
    BY <1>2 DEF H!Arrive, H!LeadsToWish
  <2>2. going' = H!Still
    BY <1>2, <2>1, SearchFollows DEF H!Arrive
  <2>3. wish = H!Search(H!Trim(draft'), going.to.filter,
                      IF H!Trim(draft') = going.to.q THEN going.to.page ELSE 1)
    <3>1. CASE draft = debounced
      <4>1. H!Trim(draft') = going.to.q /\ wish = going.to
        BY <1>2, <2>1, <3>1, Trims DEF H!Arrive, H!LeadsToWish
      <4> QED BY <4>1, SearchFields
    <3>2. CASE draft # debounced
      BY <1>2, <2>1, <3>2 DEF H!Arrive, H!LeadsToWish
    <3> QED BY <3>1, <3>2
  <2> QED BY <2>1, <2>2, <2>3, SearchMoves DEF H!LeadsToWish
<1>3. ASSUME NEW s, NEW c, H!Asks(s, c) PROVE ~going.on /\ ~c /\ wish' = s /\ ~(crossed /\ ~H!Agreed)
  BY <1>3 DEF H!Asks
<1>4. CASE \E text \in H!Texts : H!Type(text)
  <2>1. PICK text \in H!Texts : H!Type(text)
    BY <1>4
  <2> QED BY <1>3, <2>1, BaseIsWish DEF H!Type, H!LeadsToWish
<1>5. CASE \E filter \in H!Filters : H!Select(filter)
  <2>1. PICK filter \in H!Filters : H!Select(filter)
    BY <1>5
  <2>2. /\ ~going.on /\ wish' = H!Search(H!Base.q, filter, 1) /\ ~(crossed /\ ~H!Agreed)
        /\ going'.on /\ going'.to = H!Search(H!Trim(debounced), filter, 1)
        /\ going'.to.q = H!Trim(debounced) /\ going'.to.filter = filter /\ going'.to.page = 1
    <3>1. /\ H!Asks(H!Search(H!Base.q, filter, 1), FALSE)
          /\ going' = H!To(H!Search(H!Trim(debounced), filter, 1))
      BY <2>1 DEF H!Select
    <3>2. ~going.on /\ wish' = H!Search(H!Base.q, filter, 1) /\ ~(crossed /\ ~H!Agreed)
      BY <1>3, <3>1
    <3>3. H!Search(H!Trim(debounced), filter, 1) \in H!Searches
      BY SearchFields
    <3> QED BY <3>1, <3>2, <3>3, SearchFields, SearchMoves
  <2> QED BY <2>1, <2>2, BaseIsWish DEF H!Select, H!LeadsToWish
<1>6. CASE \E n \in 1 .. MaxPage : H!Turn(n)
  <2>1. PICK n \in 1 .. MaxPage : H!Turn(n)
    BY <1>6
  <2>2. /\ ~going.on /\ draft = debounced /\ ~(crossed /\ ~H!Agreed)
        /\ wish' = [H!Base EXCEPT !.page = n]
        /\ going'.on /\ going'.to = H!Search(H!Trim(debounced), url.filter, n)
        /\ going'.to.q = H!Trim(debounced)
    BY <1>3, <2>1, SearchFields, SearchMoves DEF H!Turn
  <2>3. wish' = H!Search(H!Trim(draft), url.filter, n)
    BY <2>2, BaseIsWish, SearchFields
  <2> QED BY <2>1, <2>2, <2>3 DEF H!Turn, H!LeadsToWish
<1>7. CASE H!Clear
  <2>1. H!Trim(debounced) = H!Empty /\ wish' = H!Everything /\ going'.on /\ going'.to = H!Everything
    BY <1>3, <1>7, SearchFields, SearchMoves DEF H!Clear
  <2> QED BY <1>7, <2>1, SearchFields, Trims DEF H!Clear, H!LeadsToWish
<1>8. CASE H!Link
  <2>1. /\ H!Trim(debounced) = H!Empty /\ draft = debounced /\ wish' = H!Everything
        /\ going'.on /\ going'.to = H!Everything
    BY <1>3, <1>8, SearchFields, SearchMoves DEF H!Link
  <2> QED BY <1>8, <2>1, SearchFields DEF H!Link, H!LeadsToWish
<1> QED BY <1>1, <1>2, <1>4, <1>5, <1>6, <1>7, <1>8 DEF H!Next, H!React, H!Act

LEMMA SearchOpened == ASSUME NEW s \in H!Searches, H!Opened(s) PROVE H!SearchInv
<1>1. s.q \in Trimmed /\ s.q \in H!Texts /\ H!Trim(s.q) = s.q /\ s = H!Search(s.q, s.filter, s.page)
  BY SearchFields, Trims
<1>2. H!TypeOK
  BY <1>1, SearchMoves DEF H!Opened, H!TypeOK, Navigations
<1>3. H!LeadsToWish
  BY <1>1, SearchMoves DEF H!Opened, H!LeadsToWish
<1> QED BY <1>2, <1>3 DEF H!SearchInv

LEMMA SearchReopened == ASSUME NEW s \in H!Searches, H!Reopen(s) PROVE H!SearchInv'
<1>1. s.q \in Trimmed /\ s.q \in H!Texts /\ H!Trim(s.q) = s.q /\ s = H!Search(s.q, s.filter, s.page)
  BY SearchFields, Trims
<1>2. H!TypeOK'
  BY <1>1, SearchMoves DEF H!Reopen, H!TypeOK, Navigations
<1>3. H!LeadsToWish'
  BY <1>1, SearchMoves DEF H!Reopen, H!LeadsToWish
<1> QED BY <1>2, <1>3 DEF H!SearchInv

LEMMA SearchNextInv == H!SearchInv /\ H!Next => H!SearchInv'
BY SearchTypeStep, LeadsStep DEF H!SearchInv

LEMMA SearchInvHonours == H!SearchInv => H!SearchHonoured
<1> SUFFICES ASSUME H!TypeOK, H!LeadsToWish, H!AtRest, ~crossed PROVE H!Agreed /\ H!Seen = wish /\ H!Queried = wish
  BY DEF H!SearchInv, H!SearchHonoured
<1>1. url.q = H!Trim(debounced) /\ H!Trim(draft) = url.q /\ wish = H!Search(H!Trim(draft), url.filter, url.page)
  BY DEF H!LeadsToWish, H!AtRest
<1>2. debounced = draft
  BY DEF H!AtRest
<1> QED BY <1>1, <1>2 DEF H!Agreed, H!Seen, H!Queried

\* The history page, for any words and any number of pages: once nothing is under way,
\* box, list and URL agree on what was asked for, unless something was crossed.
THEOREM SearchIsHonoured == H!Spec => []H!SearchHonoured
<1>1. H!Init => H!SearchInv
  BY SearchOpened DEF H!Init
<1>2. H!SearchInv /\ [H!Next]_(H!vars) => H!SearchInv'
  <2>1. H!SearchInv /\ UNCHANGED H!vars => H!SearchInv'
    BY DEF H!vars, H!SearchInv, H!TypeOK, H!LeadsToWish
  <2> QED BY <2>1, SearchNextInv
<1> QED BY <1>1, <1>2, SearchInvHonours, PTL DEF H!Spec

-----------------------------------------------------------------------------
(* The history page is that of HistorySearch *)

LEMMA SameDefinitions ==
  /\ History!Everything = H!Everything
  /\ H!SearchHonoured = History!SearchHonoured
  /\ H!TypeOK = History!TypeOK
  /\ History!React = H!React
  /\ History!Act = H!Act
  /\ \A s : History!Reopen(s) = H!Reopen(s) /\ History!Opened(s) = H!Opened(s)
<1> USE DEF H!Empty, History!Empty, H!Trim, History!Trim, H!Search, History!Search, H!Still, History!Still,
            H!Everything, History!Everything, H!To, History!To
<1>1. History!Everything = H!Everything
  OBVIOUS
<1>2. H!SearchHonoured = History!SearchHonoured
  BY DEF H!SearchHonoured, History!SearchHonoured, H!AtRest, History!AtRest, H!Agreed, History!Agreed,
         H!Seen, History!Seen, H!Queried, History!Queried
<1>3. H!TypeOK = History!TypeOK
  BY DEF H!TypeOK, History!TypeOK, H!Texts, History!Texts, H!Searches, History!Searches, H!Filters, History!Filters
<1>4. \A s : History!Reopen(s) = H!Reopen(s) /\ History!Opened(s) = H!Opened(s)
  BY DEF H!Reopen, History!Reopen, H!Opened, History!Opened
<1>5. History!React = H!React
  BY DEF H!React, History!React, H!Settle, History!Settle, H!Arrive, History!Arrive, H!Follow, History!Follow
<1>6. History!Act = H!Act
  BY DEF H!Act, History!Act, H!Type, History!Type, H!Select, History!Select, H!Turn, History!Turn,
         H!Clear, History!Clear, H!Link, History!Link, H!Asks, History!Asks, H!Base, History!Base,
         H!Seen, History!Seen, H!Agreed, History!Agreed, H!AtRest, History!AtRest,
         H!Texts, History!Texts, H!Filters, History!Filters
<1> QED BY <1>1, <1>2, <1>3, <1>4, <1>5, <1>6

-----------------------------------------------------------------------------
(* Types *)

CacheTypes == [data : Statuses, stale : BOOLEAN, error : BOOLEAN]
ListTypes == [there : BOOLEAN, known : SUBSET Scans, stale : BOOLEAN]
FetchTypes == [on : BOOLEAN, known : SUBSET Scans]
Steps == {"idle", "posting", "given up", "refetching", "me", "leaving"}
SubTypes == [step : Steps, scan : Scans \union {Nothing}]
PreviewTypes == [of : Scans \union {Nothing}, shows : Scans \union {Nothing, "error"}]
MediaTypes == [scan : Scans, aborted : BOOLEAN]

LEMMA Types ==
  TypeOK <=>
    /\ row \in [Scans -> Statuses] /\ cache \in [Scans -> CacheTypes] /\ got \in [Scans -> Statuses]
    /\ list \in ListTypes /\ listGot \in FetchTypes
    /\ page \in Pages /\ form \in Slots \union {Nothing} /\ sub \in [Slots -> SubTypes]
    /\ preview \in PreviewTypes /\ media \subseteq MediaTypes
    /\ left \in 0 .. MaxEvents /\ heard \subseteq Scans /\ overtaken \subseteq heard
    /\ History!TypeOK
BY DEF TypeOK, CacheTypes, ListTypes, FetchTypes, Steps, SubTypes, PreviewTypes, MediaTypes

\* What an answer, an error and a question make of a cached answer.
LEMMA CacheShapes ==
  /\ Nothing \in Statuses /\ "pending" \in Statuses /\ "ended" \in Statuses
  /\ \A d \in Statuses : Answer(d) \in CacheTypes
  /\ \A c \in CacheTypes :
       /\ c.data \in Statuses
       /\ [c EXCEPT !.stale = TRUE] \in CacheTypes /\ [c EXCEPT !.error = FALSE] \in CacheTypes
       /\ [c EXCEPT !.error = TRUE, !.stale = TRUE] \in CacheTypes
  /\ \A l \in ListTypes : [l EXCEPT !.stale = TRUE] \in ListTypes /\ [l EXCEPT !.stale = TRUE].stale
  /\ NotAsked \in FetchTypes /\ ~NotAsked.on
BY DEF Statuses, Answer, CacheTypes, ListTypes, FetchTypes, NotAsked, Nothing

LEMMA SubShapes ==
  /\ Idle \in SubTypes /\ Idle.scan = Nothing /\ Idle.step = "idle"
  /\ \A b \in SubTypes :
       /\ b.step \in Steps /\ b.scan \in Scans \union {Nothing}
       /\ \A st \in Steps :
            /\ [b EXCEPT !.step = st] \in SubTypes
            /\ [b EXCEPT !.step = st].step = st /\ [b EXCEPT !.step = st].scan = b.scan
       /\ \A s \in Scans :
            /\ [b EXCEPT !.scan = s] \in SubTypes
            /\ [b EXCEPT !.scan = s].step = b.step /\ [b EXCEPT !.scan = s].scan = s
<1>1. Idle \in SubTypes /\ Idle.scan = Nothing /\ Idle.step = "idle"
  BY DEF Idle, SubTypes, Steps
<1>2. ASSUME NEW b \in SubTypes
      PROVE  b.step \in Steps /\ b.scan \in Scans \union {Nothing}
  BY DEF SubTypes
<1>3. ASSUME NEW b \in SubTypes, NEW st \in Steps
      PROVE  /\ [b EXCEPT !.step = st] \in SubTypes
             /\ [b EXCEPT !.step = st].step = st /\ [b EXCEPT !.step = st].scan = b.scan
  BY DEF SubTypes
<1>4. ASSUME NEW b \in SubTypes, NEW s \in Scans
      PROVE  /\ [b EXCEPT !.scan = s] \in SubTypes
             /\ [b EXCEPT !.scan = s].step = b.step /\ [b EXCEPT !.scan = s].scan = s
  BY DEF SubTypes
<1> QED BY <1>1, <1>2, <1>3, <1>4

LEMMA PageShapes ==
  \A where \in Pages : where.path = "detail" => where.scan \in Scans
BY DEF Pages, At, Detail

LEMMA PreviewTyped ==
  ASSUME preview \in PreviewTypes, media \subseteq MediaTypes, NEW where \in Pages, NEW answered,
         Preview(where, answered)
  PROVE  preview' \in PreviewTypes /\ media' \subseteq MediaTypes
<1> DEFINE s == Previewed(where, answered)
<1>1. s \in Scans \union {Nothing}
  BY PageShapes DEF Previewed
<1>2. Abort \subseteq MediaTypes
  BY DEF Abort, MediaTypes
<1>3. CASE s = preview.of
  BY <1>3 DEF Preview, looks
<1>4. CASE s # preview.of
  <2>1. /\ preview' = [of |-> s, shows |-> Nothing]
        /\ media' = Abort \union (IF s = Nothing THEN {} ELSE {[scan |-> s, aborted |-> FALSE]})
    BY <1>4 DEF Preview
  <2>2. preview' \in PreviewTypes
    BY <1>1, <2>1 DEF PreviewTypes
  <2>3. s # Nothing => [scan |-> s, aborted |-> FALSE] \in MediaTypes
    BY <1>1 DEF MediaTypes
  <2> QED BY <1>2, <2>1, <2>2, <2>3
<1> QED BY <1>3, <1>4

Bound == 0 .. MaxEvents
LEMMA Events == \A n \in Bound : n > 0 => n - 1 \in Bound
<1>1. MaxEvents \in Nat
  BY WebScansAssumption
<1> QED BY <1>1 DEF Bound

LEMMA InvalidateTyped ==
  ASSUME row \in [Scans -> Statuses], cache \in [Scans -> CacheTypes], got \in [Scans -> Statuses],
         list \in ListTypes, listGot \in FetchTypes, page \in Pages, Invalidate
  PROVE  /\ cache' \in [Scans -> CacheTypes] /\ got' \in [Scans -> Statuses]
         /\ list' \in ListTypes /\ list'.stale /\ listGot' \in FetchTypes
         /\ listGot' = listGot \/ (listGot'.on /\ listGot'.known = There)
         /\ listGot'.on => (KeepsList /\ listGot' = listGot) \/ listGot'.known = There
<1>1. list' \in ListTypes /\ list'.stale
  BY CacheShapes DEF Invalidate
<1>2. There \subseteq Scans
  BY DEF There
<1>3. [on |-> TRUE, known |-> There] \in FetchTypes
  BY <1>2 DEF FetchTypes
<1>4. /\ listGot' \in FetchTypes
      /\ listGot' = listGot \/ (listGot'.on /\ listGot'.known = There)
      /\ listGot'.on => (KeepsList /\ listGot' = listGot) \/ listGot'.known = There
  BY <1>3 DEF Invalidate, KeepsList
<1> DEFINE s == page.scan
<1>5. CASE page.path = "detail" /\ (Fetching(s) => cache[s].data # Nothing)
  <2>1. s \in Scans
    BY <1>5, PageShapes
  <2>2. Asked(s) \in [Scans -> CacheTypes]
    BY <2>1, CacheShapes DEF Asked
  <2>3. \A x \in Scans : [Asked(s)[x] EXCEPT !.stale = TRUE] \in CacheTypes
    BY <2>2, CacheShapes
  <2>4. got' = [got EXCEPT ![s] = row[s]] /\ cache' = [x \in Scans |-> [Asked(s)[x] EXCEPT !.stale = TRUE]]
    BY <1>5 DEF Invalidate
  <2>5. cache' \in [Scans -> CacheTypes]
    <3> HIDE DEF s
    <3> QED BY <2>3, <2>4
  <2> QED BY <1>1, <1>4, <2>1, <2>4, <2>5
<1>6. CASE ~(page.path = "detail" /\ (Fetching(s) => cache[s].data # Nothing))
  <2>1. got' = got /\ cache' = [x \in Scans |-> [cache[x] EXCEPT !.stale = TRUE]]
    BY <1>6 DEF Invalidate
  <2>2. cache' \in [Scans -> CacheTypes]
    BY <2>1, CacheShapes
  <2> QED BY <1>1, <1>4, <2>1, <2>2
<1> QED BY <1>5, <1>6

LEMMA TypeStep == TypeOK /\ SubmissionsStored /\ [Next]_vars /\ History!TypeOK' => TypeOK'
<1> SUFFICES ASSUME TypeOK, SubmissionsStored, [Next]_vars, History!TypeOK' PROVE TypeOK'
  OBVIOUS
<1>1. /\ row \in [Scans -> Statuses] /\ cache \in [Scans -> CacheTypes] /\ got \in [Scans -> Statuses]
      /\ list \in ListTypes /\ listGot \in FetchTypes
      /\ page \in Pages /\ form \in Slots \union {Nothing} /\ sub \in [Slots -> SubTypes]
      /\ preview \in PreviewTypes /\ media \subseteq MediaTypes
      /\ left \in Bound /\ heard \subseteq Scans /\ overtaken \subseteq heard
  BY Types DEF Bound
<1> DEFINE Good == /\ row' \in [Scans -> Statuses] /\ cache' \in [Scans -> CacheTypes] /\ got' \in [Scans -> Statuses]
                   /\ list' \in ListTypes /\ listGot' \in FetchTypes
                   /\ page' \in Pages /\ form' \in Slots \union {Nothing} /\ sub' \in [Slots -> SubTypes]
                   /\ preview' \in PreviewTypes /\ media' \subseteq MediaTypes
                   /\ left' \in Bound /\ heard' \subseteq Scans /\ overtaken' \subseteq heard'
<1>g. Good => TypeOK'
  BY DEF TypeOK, CacheTypes, ListTypes, FetchTypes, Steps, SubTypes, PreviewTypes, MediaTypes, Bound
<1>p. ASSUME NEW where \in Pages, NEW answered, Preview(where, answered)
      PROVE  preview' \in PreviewTypes /\ media' \subseteq MediaTypes
  BY <1>1, <1>p, PreviewTyped
<1>e. left > 0 /\ left' = left - 1 => left' \in Bound
  BY <1>1, Events
<1>l. ASSUME NEW f \in Slots, Leave(f) PROVE form' \in Slots \union {Nothing}
  BY <1>1, <1>l DEF Leave
<1>i. \A f \in Slots : [sub EXCEPT ![f] = Idle] \in [Slots -> SubTypes]
  BY <1>1, SubShapes
<1>s. \A f \in Slots, st \in Steps : [sub EXCEPT ![f].step = st] \in [Slots -> SubTypes]
  BY <1>1, SubShapes
<1>k. \A s \in Scans : Asked(s) \in [Scans -> CacheTypes]
  BY <1>1, CacheShapes DEF Asked
<1> USE DEF answers, lists, looks
<1>2. ASSUME NEW s \in Scans, Observe(s) \/ Poll(s) PROVE TypeOK'
  <2>1. got' \in [Scans -> Statuses] /\ cache' \in [Scans -> CacheTypes] /\ Preview(page, cache')
    BY <1>1, <1>2, <1>k DEF Observe, Poll, Ask
  <2> QED BY <1>1, <1>2, <1>g, <1>p, <2>1 DEF Observe, Poll, Ask
<1>3. ASSUME NEW s \in Scans, Answered(s) \/ Unanswered(s) PROVE TypeOK'
  <2>1. got' \in [Scans -> Statuses] /\ Preview(page, cache')
    BY <1>1, <1>3, CacheShapes DEF Answered, Unanswered
  <2>2. cache' \in [Scans -> CacheTypes]
    <3>1. CASE cache' = [cache EXCEPT ![s] = Answer(got[s])]
      BY <1>1, <3>1, CacheShapes
    <3>2. CASE cache' = [cache EXCEPT ![s].error = TRUE, ![s].stale = TRUE]
      BY <1>1, <3>2, CacheShapes
    <3> QED BY <1>3, <3>1, <3>2 DEF Answered, Unanswered
  <2> QED BY <1>1, <1>3, <1>g, <1>p, <2>1, <2>2 DEF Answered, Unanswered
<1>4. CASE ListAsks \/ ListAnswered \/ ListUnanswered
  <2>1. There \subseteq Scans /\ listGot.known \subseteq Scans
    BY <1>1 DEF There, FetchTypes
  <2>2. /\ [on |-> TRUE, known |-> There] \in FetchTypes /\ NotAsked \in FetchTypes
        /\ [there |-> TRUE, known |-> listGot.known, stale |-> FALSE] \in ListTypes
    BY <2>1, CacheShapes DEF FetchTypes, ListTypes
  <2>3. list' \in ListTypes /\ listGot' \in FetchTypes
    BY <1>1, <1>4, <2>2 DEF ListAsks, ListAnswered, ListUnanswered
  <2> QED BY <1>1, <1>4, <1>g, <2>3 DEF ListAsks, ListAnswered, ListUnanswered
<1>5. CASE Age
  <2>1. cache' \in [Scans -> CacheTypes] /\ list' \in ListTypes
    BY <1>1, <1>5, CacheShapes DEF Age
  <2> QED BY <1>1, <1>5, <1>e, <1>g, <2>1 DEF Age
<1>6. ASSUME NEW r \in media, NEW shows \in {"media", "error"},
             Media(r, IF shows = "media" THEN r.scan ELSE "error")
      PROVE  TypeOK'
  <2> DEFINE shown == IF shows = "media" THEN r.scan ELSE "error"
  <2>1. shown \in Scans \union {Nothing, "error"}
    BY <1>1 DEF MediaTypes
  <2>2. [preview EXCEPT !.shows = shown] \in PreviewTypes
    BY <1>1, <2>1 DEF PreviewTypes
  <2>3. preview' \in PreviewTypes /\ media' \subseteq MediaTypes
    BY <1>1, <1>6, <2>2 DEF Media
  <2> QED BY <1>1, <1>6, <1>g, <2>3 DEF Media
<1>7. ASSUME NEW f \in Slots, Submit(f) PROVE TypeOK'
  <2>1. sub' \in [Slots -> SubTypes]
    BY <1>7, <1>s DEF Submit, Steps
  <2> QED BY <1>1, <1>7, <1>e, <1>g, <2>1 DEF Submit
<1>8. ASSUME NEW f \in Slots, Refuse(f) \/ Lose(f) \/ MeFails(f) PROVE TypeOK'
  <2>1. sub' \in [Slots -> SubTypes]
    <3>1. CASE sub' = [sub EXCEPT ![f] = Idle]
      BY <1>i, <3>1
    <3>2. CASE sub' = [sub EXCEPT ![f] = IF @.scan = Nothing THEN [@ EXCEPT !.step = "given up"] ELSE Idle]
      <4>1. [sub[f] EXCEPT !.step = "given up"] \in SubTypes /\ Idle \in SubTypes
        BY <1>1, SubShapes DEF Steps
      <4> QED BY <1>1, <3>2, <4>1
    <3> QED BY <1>8, <3>1, <3>2 DEF Refuse, Lose, MeFails
  <2>2. form' \in Slots \union {Nothing} /\ left' \in Bound
    BY <1>1, <1>8, <1>e, <1>l DEF Refuse, Lose, MeFails
  <2> QED BY <1>1, <1>8, <1>g, <2>1, <2>2 DEF Refuse, Lose, MeFails
<1>9. ASSUME NEW f \in Slots, Reply(f) PROVE TypeOK'
  <2>1. sub' \in [Slots -> SubTypes]
    BY <1>9, <1>s DEF Reply, Steps
  <2>2. sub[f].scan \in Scans
    BY <1>1, <1>9, SubShapes DEF Reply
  <2>3. heard' \subseteq Scans /\ overtaken' \subseteq heard'
    BY <1>1, <1>9, <2>2 DEF Reply
  <2>4. /\ cache' \in [Scans -> CacheTypes] /\ got' \in [Scans -> Statuses]
        /\ list' \in ListTypes /\ listGot' \in FetchTypes
    BY <1>1, <1>9, InvalidateTyped DEF Reply
  <2> QED BY <1>1, <1>9, <1>g, <2>1, <2>3, <2>4 DEF Reply
<1>10. ASSUME NEW f \in Slots, Refetched(f) \/ MeFresh(f) PROVE TypeOK'
  <2>1. sub' \in [Slots -> SubTypes]
    BY <1>10, <1>s DEF Refetched, MeFresh, Steps
  <2> QED BY <1>1, <1>10, <1>g, <2>1 DEF Refetched, MeFresh
<1>11. ASSUME NEW f \in Slots, Pull(f) PROVE TypeOK'
  <2>1. sub[f].scan \in Scans
    BY <1>1, <1>11, SubShapes DEF Pull, SubmissionsStored
  <2>2. Detail(sub[f].scan) \in Pages
    BY <2>1 DEF Pages
  <2>3. sub' \in [Slots -> SubTypes] /\ page' \in Pages /\ cache' = cache
    BY <1>11, <1>i, <2>2 DEF Pull, Show
  <2>4. preview' \in PreviewTypes /\ media' \subseteq MediaTypes
    BY <1>11, <1>p, <2>2 DEF Pull, Show
  <2> QED BY <1>1, <1>11, <1>g, <2>3, <2>4 DEF Pull
<1>12. ASSUME NEW f \in Slots, NEW s \in Scans, Insert(f, s) PROVE TypeOK'
  <2>1. sub' \in [Slots -> SubTypes]
    BY <1>1, <1>12, SubShapes DEF Insert
  <2>2. row' \in [Scans -> Statuses]
    BY <1>1, <1>12, CacheShapes DEF Insert
  <2> QED BY <1>1, <1>12, <1>g, <2>1, <2>2 DEF Insert
<1>13. ASSUME NEW where \in Pages, Go(where) PROVE TypeOK'
  <2>1. page' \in Pages /\ cache' = cache /\ left' \in Bound
    BY <1>13, <1>e DEF Go, Show
  <2>2. preview' \in PreviewTypes /\ media' \subseteq MediaTypes
    BY <1>13, <1>p DEF Go, Show
  <2> QED BY <1>1, <1>13, <1>g, <2>1, <2>2 DEF Go
<1>14. CASE Search \/ Searching
  <2>1. left' \in Bound
    BY <1>1, <1>14, <1>e DEF Search, Searching
  <2> QED BY <1>1, <1>14, <1>g, <2>1 DEF Search, Searching
<1>15. ASSUME NEW s \in Scans, End(s) \/ Requeue(s) PROVE TypeOK'
  <2>1. row' \in [Scans -> Statuses] /\ left' \in Bound
    BY <1>1, <1>15, <1>e, CacheShapes DEF End, Requeue
  <2> QED BY <1>1, <1>15, <1>g, <2>1 DEF End, Requeue
<1>16. CASE UNCHANGED vars
  BY <1>1, <1>16, <1>g DEF vars
<1> QED
  BY <1>2, <1>3, <1>4, <1>5, <1>6, <1>7, <1>8, <1>9, <1>10, <1>11, <1>12, <1>13, <1>14, <1>15, <1>16
     DEF Next

-----------------------------------------------------------------------------
(* What the lists leave out *)

LEMMA StoredStep == TypeOK /\ SubmissionsStored /\ [Next]_vars => SubmissionsStored' /\ There \subseteq There'
<1> SUFFICES ASSUME TypeOK, SubmissionsStored, [Next]_vars
             PROVE  SubmissionsStored' /\ There \subseteq There'
  OBVIOUS
<1> USE DEF There, answers, lists, looks
<1>1. row \in [Scans -> Statuses] /\ sub \in [Slots -> SubTypes]
  BY Types
<1>2. ASSUME row' = row, sub' = sub, heard' = heard PROVE SubmissionsStored' /\ There \subseteq There'
  BY <1>2 DEF SubmissionsStored
\* A submission that moves on without a scan, or with the scan it has.
<1>3. ASSUME row' = row, heard' = heard, NEW f \in Slots, NEW b \in SubTypes, sub' = [sub EXCEPT ![f] = b],
             b.scan \in {Nothing, sub[f].scan}, b.step \in {"refetching", "me", "leaving"} => b.scan # Nothing
      PROVE  SubmissionsStored' /\ There \subseteq There'
  BY <1>1, <1>3 DEF SubmissionsStored
<1>4. ASSUME NEW s \in Scans, Observe(s) \/ Poll(s) \/ Answered(s) \/ Unanswered(s)
      PROVE  SubmissionsStored' /\ There \subseteq There'
  BY <1>2, <1>4 DEF Observe, Poll, Ask, Answered, Unanswered
<1>5. ASSUME NEW r \in media, NEW shows, Media(r, shows)
      PROVE  SubmissionsStored' /\ There \subseteq There'
  BY <1>2, <1>5 DEF Media
<1>6. CASE ListAsks \/ ListAnswered \/ ListUnanswered \/ Age \/ Search \/ Searching
  BY <1>2, <1>6 DEF ListAsks, ListAnswered, ListUnanswered, Age, Search, Searching
<1>7. ASSUME NEW f \in Slots, Submit(f) \/ Refuse(f) \/ Lose(f) \/ MeFails(f) \/ Refetched(f) \/ MeFresh(f) \/ Pull(f)
      PROVE  SubmissionsStored' /\ There \subseteq There'
  <2>1. row' = row /\ heard' = heard /\ sub[f] \in SubTypes
    BY <1>1, <1>7 DEF Submit, Refuse, Lose, MeFails, Refetched, MeFresh, Pull
  <2>2. \/ sub' = [sub EXCEPT ![f] = Idle]
        \/ sub' = [sub EXCEPT ![f] = [sub[f] EXCEPT !.step = "posting"]]
        \/ sub' = [sub EXCEPT ![f] = [sub[f] EXCEPT !.step = "given up"]]
        \/ /\ sub[f].scan # Nothing
           /\ \/ sub' = [sub EXCEPT ![f] = [sub[f] EXCEPT !.step = "me"]]
              \/ sub' = [sub EXCEPT ![f] = [sub[f] EXCEPT !.step = "leaving"]]
    BY <1>7 DEF Submit, Refuse, Lose, MeFails, Refetched, MeFresh, Pull, SubmissionsStored
  <2>3. PICK b \in SubTypes : /\ sub' = [sub EXCEPT ![f] = b] /\ b.scan \in {Nothing, sub[f].scan}
                              /\ b.step \in {"refetching", "me", "leaving"} => b.scan # Nothing
    <3>1. ASSUME NEW st \in {"posting", "given up", "me", "leaving"}
          PROVE  /\ [sub[f] EXCEPT !.step = st] \in SubTypes
                 /\ [sub[f] EXCEPT !.step = st].step = st /\ [sub[f] EXCEPT !.step = st].scan = sub[f].scan
      <4>1. st \in Steps
        BY DEF Steps
      <4> QED BY <2>1, <4>1, SubShapes
    <3>2. CASE sub' = [sub EXCEPT ![f] = Idle]
      BY <3>2, SubShapes
    <3>3. CASE sub' = [sub EXCEPT ![f] = [sub[f] EXCEPT !.step = "posting"]]
      BY <3>1, <3>3
    <3>4. CASE sub' = [sub EXCEPT ![f] = [sub[f] EXCEPT !.step = "given up"]]
      BY <3>1, <3>4
    <3>5. CASE sub[f].scan # Nothing /\ sub' = [sub EXCEPT ![f] = [sub[f] EXCEPT !.step = "me"]]
      BY <3>1, <3>5
    <3>6. CASE sub[f].scan # Nothing /\ sub' = [sub EXCEPT ![f] = [sub[f] EXCEPT !.step = "leaving"]]
      BY <3>1, <3>6
    <3> QED BY <2>2, <3>2, <3>3, <3>4, <3>5, <3>6
  <2> QED BY <1>3, <2>1, <2>3
<1>8. ASSUME NEW f \in Slots, Reply(f) PROVE SubmissionsStored' /\ There \subseteq There'
  <2>1. /\ row' = row /\ heard' = heard \union {sub[f].scan} /\ sub[f] \in SubTypes /\ sub[f].scan # Nothing
        /\ sub' = [sub EXCEPT ![f] = [sub[f] EXCEPT !.step = "refetching"]]
    BY <1>1, <1>8 DEF Reply
  <2>2. sub[f].scan \in There
    BY <2>1 DEF SubmissionsStored
  <2>3. \A g \in Slots : sub'[g].scan = sub[g].scan
    <3>1. [sub[f] EXCEPT !.step = "refetching"].scan = sub[f].scan
      BY <2>1, SubShapes DEF Steps
    <3> QED BY <1>1, <2>1, <3>1
  <2>4. \A g \in Slots : sub'[g].step \in {"refetching", "me", "leaving"} => sub'[g].scan # Nothing
    BY <1>1, <2>1, <2>3 DEF SubmissionsStored
  <2> QED BY <2>1, <2>2, <2>3, <2>4 DEF SubmissionsStored
<1>9. ASSUME NEW f \in Slots, NEW s \in Scans, Insert(f, s) PROVE SubmissionsStored' /\ There \subseteq There'
  <2>1. /\ row[s] = Nothing /\ row' = [row EXCEPT ![s] = "pending"] /\ heard' = heard /\ sub[f] \in SubTypes
        /\ \/ sub' = [sub EXCEPT ![f] = [sub[f] EXCEPT !.scan = s]] /\ sub[f].step = "posting"
           \/ sub' = [sub EXCEPT ![f] = Idle]
    BY <1>1, <1>9 DEF Insert
  <2>2. There \subseteq There' /\ s \in There'
    BY <1>1, <2>1 DEF Nothing
  <2>3. \A g \in Slots : \/ sub'[g] = sub[g]
                          \/ sub'[g] = Idle
                          \/ (sub'[g].scan = s /\ sub'[g].step = "posting")
    <3>1. [sub[f] EXCEPT !.scan = s].scan = s /\ [sub[f] EXCEPT !.scan = s].step = sub[f].step
      BY <2>1, SubShapes
    <3> QED BY <1>1, <2>1, <3>1
  <2>4. \A g \in Slots : /\ sub'[g].scan # Nothing => sub'[g].scan \in There'
                         /\ sub'[g].step \in {"refetching", "me", "leaving"} => sub'[g].scan # Nothing
    <3> HIDE DEF There
    <3> QED BY <2>2, <2>3, SubShapes DEF SubmissionsStored
  <2> QED BY <2>1, <2>2, <2>4 DEF SubmissionsStored
<1>10. ASSUME NEW where \in Pages, Go(where) PROVE SubmissionsStored' /\ There \subseteq There'
  BY <1>2, <1>10 DEF Go
<1>11. ASSUME NEW s \in Scans, End(s) \/ Requeue(s) PROVE SubmissionsStored' /\ There \subseteq There'
  <2>1. sub' = sub /\ heard' = heard /\ \A x \in Scans : (row'[x] = Nothing) <=> (row[x] = Nothing)
    BY <1>1, <1>11 DEF End, Requeue, Nothing
  <2> QED BY <2>1 DEF SubmissionsStored
<1>12. CASE UNCHANGED vars
  BY <1>2, <1>12 DEF vars
<1> QED
  BY <1>4, <1>5, <1>6, <1>7, <1>8, <1>9, <1>10, <1>11, <1>12 DEF Next

\* Scans may become known, and fetched lists may come and go: what covers goes on to.
LEMMA CoversOn ==
  ASSUME TypeOK, SubmissionsStored, heard' = heard, overtaken' = overtaken, There \subseteq There',
         NEW known, Covers(known)
  PROVE  \A s \in There' \ known : s \notin heard' \/ s \in overtaken'
BY DEF Covers, SubmissionsStored

LEMMA CoverStep == TypeOK /\ SubmissionsStored /\ ListsCover /\ [Next]_vars => ListsCover'
<1> SUFFICES ASSUME TypeOK, SubmissionsStored, ListsCover, [Next]_vars PROVE ListsCover'
  OBVIOUS
<1> USE DEF answers, lists, looks
<1>1. list \in ListTypes /\ listGot \in FetchTypes /\ There \subseteq There'
  BY Types, StoredStep
<1>2. ASSUME heard' = heard, overtaken' = overtaken,
             ~listGot'.on \/ listGot' = listGot \/ listGot'.known = There,
             list'.stale \/ list' = list \/ (listGot.on /\ list'.known = listGot.known)
      PROVE  ListsCover'
  <2>1. Covers(There)
    BY DEF Covers
  <2>2. listGot'.on => Covers(listGot'.known)
    BY <1>2, <2>1 DEF ListsCover
  <2>3. ~list'.stale => Covers(list'.known)
    BY <1>2 DEF ListsCover
  <2> QED BY <1>1, <1>2, <2>2, <2>3, CoversOn DEF ListsCover, Covers
<1>3. ASSUME NEW s \in Scans, Observe(s) \/ Poll(s) \/ Answered(s) \/ Unanswered(s) \/ End(s) \/ Requeue(s)
      PROVE  ListsCover'
  BY <1>2, <1>3 DEF Observe, Poll, Ask, Answered, Unanswered, End, Requeue
<1>4. ASSUME NEW r \in media, NEW shows, Media(r, shows) PROVE ListsCover'
  BY <1>2, <1>4 DEF Media
<1>5. CASE ListAsks \/ ListAnswered \/ ListUnanswered
  <2>1. ~listGot'.on \/ listGot' = listGot \/ listGot'.known = There
    <3>1. CASE ListAsks
      BY <3>1 DEF ListAsks
    <3>2. CASE listGot' = NotAsked
      BY <3>2, CacheShapes
    <3> QED BY <1>5, <3>1, <3>2 DEF ListAnswered, ListUnanswered
  <2>2. list' = list \/ (listGot.on /\ list'.known = listGot.known)
    BY <1>5 DEF ListAsks, ListAnswered, ListUnanswered
  <2>3. heard' = heard /\ overtaken' = overtaken
    BY <1>5 DEF ListAsks, ListAnswered, ListUnanswered
  <2> QED BY <1>2, <2>1, <2>2, <2>3
<1>6. CASE Age
  BY <1>1, <1>2, <1>6, CacheShapes DEF Age
<1>7. CASE Search \/ Searching
  BY <1>2, <1>7 DEF Search, Searching
<1>8. ASSUME NEW f \in Slots, Submit(f) \/ Refuse(f) \/ Lose(f) \/ MeFails(f) \/ Refetched(f) \/ MeFresh(f) \/ Pull(f)
      PROVE  ListsCover'
  BY <1>2, <1>8 DEF Submit, Refuse, Lose, MeFails, Refetched, MeFresh, Pull
<1>9. ASSUME NEW f \in Slots, Reply(f) PROVE ListsCover'
  <2>1. list'.stale
    BY <1>1, <1>9, CacheShapes DEF Reply, Invalidate
  <2>2. row' = row /\ heard' = heard \union {sub[f].scan}
        /\ overtaken' = IF KeepsList /\ sub[f].scan \notin listGot.known
                        THEN overtaken \union {sub[f].scan} ELSE overtaken
    BY <1>9 DEF Reply
  <2>3. There' = There
    BY <2>2 DEF There
  <2>4. CASE Lists /\ ~KeepsList
    <3>1. listGot'.known = There
      BY <1>9, <2>4 DEF Reply, Invalidate
    <3> QED BY <2>1, <2>3, <3>1 DEF ListsCover, Covers
  <2>5. CASE ~(Lists /\ ~KeepsList)
    <3>1. listGot' = listGot /\ (listGot.on => KeepsList)
      BY <1>9, <2>5 DEF Reply, Invalidate, KeepsList
    <3>2. listGot.on => \A s \in There \ listGot.known : s \notin heard' \/ s \in overtaken'
      BY <2>2, <3>1 DEF ListsCover, Covers
    <3> QED BY <2>1, <2>3, <3>1, <3>2 DEF ListsCover, Covers
  <2> QED BY <2>4, <2>5
<1>10. ASSUME NEW f \in Slots, NEW s \in Scans, Insert(f, s) PROVE ListsCover'
  BY <1>2, <1>10 DEF Insert
<1>11. ASSUME NEW where \in Pages, Go(where) PROVE ListsCover'
  BY <1>2, <1>11 DEF Go
<1>12. CASE UNCHANGED vars
  BY <1>2, <1>12 DEF vars
<1> QED
  BY <1>3, <1>4, <1>5, <1>6, <1>7, <1>8, <1>9, <1>10, <1>11, <1>12 DEF Next

-----------------------------------------------------------------------------
(* The search of the history page *)

LEMMA SearchStep == H!SearchInv /\ [Next]_vars => H!SearchInv'
<1> SUFFICES ASSUME H!SearchInv, [Next]_vars PROVE H!SearchInv'
  OBVIOUS
<1> USE DEF answers, lists, looks
<1>1. ASSUME UNCHANGED search PROVE H!SearchInv'
  BY <1>1 DEF search, H!SearchInv, H!TypeOK, H!LeadsToWish
<1>2. ASSUME History!Reopen(History!Everything) PROVE H!SearchInv'
  <2>1. H!Everything \in H!Searches
    BY SearchFields
  <2>2. H!Reopen(H!Everything)
    BY <1>2, SameDefinitions
  <2> QED BY <2>1, <2>2, SearchReopened
<1>3. ASSUME History!Act \/ History!React PROVE H!SearchInv'
  <2>1. H!Next
    BY <1>3, SameDefinitions DEF H!Next
  <2> QED BY <2>1, SearchNextInv
<1>4. CASE Next
  <2>1. \/ UNCHANGED search
        \/ History!Reopen(History!Everything)
        \/ History!Act \/ History!React
    BY <1>4 DEF Next, Observe, Poll, Ask, Answered, Unanswered, End, Requeue, Media, ListAsks, ListAnswered,
                ListUnanswered, Age, Submit, Refuse, Lose, Reply, Refetched, MeFresh, MeFails, Pull, Insert,
                Go, Show, Search, Searching
  <2> QED BY <1>1, <1>2, <1>3, <2>1
<1> QED BY <1>1, <1>4 DEF vars

-----------------------------------------------------------------------------
LEMMA InitScans == Init => ScansInv /\ H!SearchInv
<1> SUFFICES ASSUME Init PROVE ScansInv /\ H!SearchInv
  OBVIOUS
<1>1. H!SearchInv
  <2>1. H!Everything \in H!Searches
    BY SearchFields
  <2>2. H!Opened(H!Everything)
    BY SameDefinitions DEF Init
  <2> QED BY <2>1, <2>2, SearchOpened
<1>2. History!TypeOK
  BY <1>1, SameDefinitions DEF H!SearchInv
<1>3. TypeOK
  <2>1. /\ cache \in [Scans -> CacheTypes] /\ got \in [Scans -> Statuses] /\ list \in ListTypes
        /\ preview \in PreviewTypes /\ sub \in [Slots -> SubTypes] /\ listGot \in FetchTypes
    BY SubShapes, CacheShapes DEF Init, NoAnswer, NoList, CacheTypes, ListTypes, PreviewTypes, Statuses
  <2>2. page \in Pages
    BY DEF Init, Pages, There
  <2>3. left \in 0 .. MaxEvents
    <3>1. MaxEvents \in Nat
      BY WebScansAssumption
    <3> QED BY <3>1 DEF Init
  <2> QED BY <1>2, <2>1, <2>2, <2>3, Types DEF Init
<1>4. SubmissionsStored
  BY SubShapes DEF Init, SubmissionsStored
<1>5. ListsCover
  BY DEF Init, ListsCover, NoList, NotAsked
<1> QED BY <1>1, <1>3, <1>4, <1>5 DEF ScansInv

\* The lists of the tab and its submissions stay as ScansInv says, with any number of both.
THEOREM ScansInvariant == Spec => [](ScansInv /\ H!SearchInv)
<1>1. ScansInv /\ H!SearchInv /\ [Next]_vars => ScansInv' /\ H!SearchInv'
  <2> SUFFICES ASSUME ScansInv, H!SearchInv, [Next]_vars PROVE ScansInv' /\ H!SearchInv'
    OBVIOUS
  <2>1. H!SearchInv'
    BY SearchStep
  <2>2. History!TypeOK'
    BY <2>1 DEF H!SearchInv, H!TypeOK, History!TypeOK, H!Texts, History!Texts, H!Searches, History!Searches,
                H!Filters, History!Filters, H!Empty, History!Empty, H!Trim, History!Trim
  <2> QED BY <2>1, <2>2, TypeStep, StoredStep, CoverStep DEF ScansInv
<1> QED BY <1>1, InitScans, PTL DEF Spec

\* A history taken for fresh leaves out only scans whose reply never came, or which an
\* older answer overtook, however many scans are submitted at once.
THEOREM HistoryIsExplained == Spec => []HistoryExplained
<1>1. ScansInv => HistoryExplained
  BY DEF ScansInv, ListsCover, Covers, HistoryExplained
<1> QED BY <1>1, ScansInvariant, PTL

\* On the history page the search is that of SearchIsHonoured, with the rest of the tab around it.
THEOREM TabHonoursSearch == Spec => []SearchHonoured
<1>1. H!SearchInv => SearchHonoured
  BY SearchInvHonours, SameDefinitions DEF SearchHonoured
<1> QED BY <1>1, ScansInvariant, PTL

-----------------------------------------------------------------------------
(* A request for media is answered with the bytes it asks for *)

\* A part is never empty and lies in the file.
LEMMA PartInFile ==
  ASSUME NEW h \in Header, NEW size \in Nat \ {0}, ParseBytesRange(h, size).kind = "partial"
  PROVE  LET p == ParseBytesRange(h, size) IN
         p.first \in 0..p.last /\ p.last \in Nat /\ p.last < size
<1>1. CASE h.form = "suffix"
  BY <1>1 DEF ParseBytesRange, SuffixRange, Full, Unsatisfiable, Partial, Header, Value, Bad, Absent
<1>2. CASE h.form = "from"
  <2>1. LastByte(h.last, size) \in Int /\ LastByte(h.last, size) < size
    BY DEF LastByte, Header, Value, Bad, Absent
  <2>2. h.first \in Nat /\ h.first <= LastByte(h.last, size)
    BY <1>2, <2>1 DEF ParseBytesRange, FromRange, Unsatisfiable, Full, Header, Value, Bad
  <2>3. ParseBytesRange(h, size) = Partial(h.first, LastByte(h.last, size))
    BY <1>2, <2>2 DEF ParseBytesRange, FromRange, Unsatisfiable, Full
  <2>. QED  BY <2>1, <2>2, <2>3 DEF Partial
<1>3. CASE h.form = "none"
  BY <1>3 DEF ParseBytesRange, Full
<1>. QED  BY <1>1, <1>2, <1>3 DEF Header

\* What a well-formed header is answered with holds the bytes it asked for.
LEMMA PartAsAsked ==
  ASSUME NEW h \in Header, NEW size \in Nat \ {0}, WellFormed(h)
  PROVE  LET p == ParseBytesRange(h, size) IN
         /\ p.kind = "full" => AskedFor(h, size) = 0..size - 1
         /\ p.kind = "partial" => AskedFor(h, size) = p.first..p.last
         /\ p.kind = "unsatisfiable" => AskedFor(h, size) = {}
<1>1. CASE h.form = "none"
  BY <1>1 DEF ParseBytesRange, Full, AskedFor
<1>2. CASE h.form = "suffix"
  <2>1. h.last \in Nat
    BY <1>2 DEF WellFormed
  <2>2. AskedFor(h, size) = {b \in 0..size - 1 : b >= size - h.last}
    BY <1>2 DEF AskedFor
  <2>3. ParseBytesRange(h, size) = SuffixRange(h.last, size)
    BY <1>2 DEF ParseBytesRange
  <2>4. CASE h.last < 1
    BY <2>1, <2>2, <2>3, <2>4 DEF SuffixRange, Unsatisfiable, Full
  <2>5. CASE h.last >= size
    BY <2>1, <2>2, <2>3, <2>5 DEF SuffixRange, Full
  <2>6. CASE h.last \in 1..size - 1
    BY <2>1, <2>2, <2>3, <2>6 DEF SuffixRange, Partial
  <2>. QED  BY <2>1, <2>4, <2>5, <2>6
<1>3. CASE h.form = "from"
  <2>. DEFINE last == LastByte(h.last, size)
  <2>1. h.first \in Nat /\ h.last \in Nat \union {Absent}
    BY <1>3 DEF WellFormed, Header, Value
  <2>2. last \in Int /\ last < size
    BY <2>1 DEF LastByte, Absent
  <2>3. AskedFor(h, size) = {b \in 0..size - 1 : h.first <= b /\ b <= last}
    BY <1>3, <2>1 DEF AskedFor, LastByte, Absent
  <2>4. ParseBytesRange(h, size) =
          IF h.first > last THEN Unsatisfiable ELSE Partial(h.first, last)
    BY <1>3, <2>1 DEF ParseBytesRange, FromRange, Bad, Absent
  <2>. HIDE DEF last
  <2>5. CASE h.first > last
    BY <2>1, <2>2, <2>3, <2>4, <2>5 DEF Unsatisfiable, Full
  <2>6. CASE h.first <= last
    BY <2>1, <2>2, <2>3, <2>4, <2>6 DEF Partial
  <2>. QED  BY <2>1, <2>2, <2>5, <2>6
<1>. QED  BY <1>1, <1>2, <1>3 DEF Header

\* The reply to any header is made of one of the three answers to it.
LEMMA ReplyByRange ==
  ASSUME NEW stored \in MediaRow, NEW object \in Object, NEW h \in Header,
         object.size # 0, GetScanMedia(stored, object, h).status \in {200, 206, 416}
  PROVE  GetScanMedia(stored, object, h) = Served(ParseBytesRange(h, object.size), object.size)
  BY DEF GetScanMedia, Status, TotalSize, MediaRow, Object

\* Whatever the file and the header, what is sent is what was asked for and as long as the
\* reply says, and only a header that asks for nothing of the file is refused.
THEOREM EveryHeaderAnswered ==
  \A stored \in MediaRow, object \in Object, h \in Header : AnswersHeader(stored, object, h)
<1>. SUFFICES ASSUME NEW stored \in MediaRow, NEW object \in Object, NEW h \in Header, object.size # 0
              PROVE  AnswersHeader(stored, object, h)
  BY DEF AnswersHeader
<1>. DEFINE reply == GetScanMedia(stored, object, h)
            parsed == ParseBytesRange(h, object.size)
<1>0. object.size \in Nat \ {0}
  BY DEF Object
<1>1. parsed.kind \in {"full", "partial", "unsatisfiable"}
  BY DEF ParseBytesRange, SuffixRange, FromRange, Full, Partial, Unsatisfiable
<1>2. ASSUME HasBody(reply)
      PROVE  /\ reply.first \in 0..reply.last /\ reply.last < object.size
             /\ Streamed(reply, object) = reply.first..reply.last
             /\ WellFormed(h) => Streamed(reply, object) = AskedFor(h, object.size)
  <2>1. reply = Served(parsed, object.size)
    BY <1>2, ReplyByRange DEF HasBody
  <2>2. CASE parsed.kind = "full"
    <3>1. reply = [status |-> 200, first |-> 0, last |-> object.size - 1, total |-> object.size]
      BY <2>1, <2>2 DEF Served
    <3>2. Streamed(reply, object) = 0..object.size - 1
      BY <3>1, <1>0 DEF Streamed
    <3>. QED  BY <3>1, <3>2, <2>2, <1>0, PartAsAsked
  <2>3. CASE parsed.kind = "partial"
    <3>1. reply = [status |-> 206, first |-> parsed.first, last |-> parsed.last, total |-> object.size]
      BY <2>1, <2>3 DEF Served
    <3>2. parsed.first \in 0..parsed.last /\ parsed.last \in Nat /\ parsed.last < object.size
      BY <2>3, <1>0, PartInFile
    <3>. HIDE DEF parsed, reply
    <3>3. Streamed(reply, object) = parsed.first..parsed.last
      BY <3>1, <3>2, <1>0 DEF Streamed
    <3>4. WellFormed(h) => AskedFor(h, object.size) = parsed.first..parsed.last
      BY <2>3, <1>0, PartAsAsked DEF parsed
    <3>. QED  BY <3>1, <3>2, <3>3, <3>4
  <2>4. CASE parsed.kind = "unsatisfiable"
    BY <2>1, <2>4, <1>2 DEF Served, Status, HasBody
  <2>. QED  BY <1>1, <2>2, <2>3, <2>4
<1>3. ASSUME reply.status = 416, WellFormed(h)
      PROVE  AskedFor(h, object.size) = {}
  <2>1. reply = Served(parsed, object.size)
    BY <1>3, ReplyByRange
  <2>2. parsed.kind = "unsatisfiable"
    BY <1>1, <1>3, <2>1 DEF Served
  <2>. QED  BY <2>2, <1>3, <1>0, PartAsAsked
<1>. QED  BY <1>2, <1>3 DEF AnswersHeader

-----------------------------------------------------------------------------
(* Plans and teams: what a request of TeamPlans acknowledged                *)
(*                                                                          *)
(* A request whose statements and transaction stayed together (it is not in *)
(* mixed) holds one connection from its BEGIN to its COMMIT or ROLLBACK,    *)
(* writes there and nowhere else, and if that connection's transaction goes *)
(* before it has sent COMMIT, it will meet another one: it is mixed by its  *)
(* next statement, and so by the time it answers.  This needs the shape of  *)
(* the programs: refusals before BEGIN, one BEGIN, one end after it.        *)

Statements == Writing \union
  {"readPlan", "findInvite", "findTarget", "findUser", "readBack", "listTeams", "deleteTeam",
   "insertTeam", "BEGIN", "COMMIT", "ROLLBACK"}
Closing == {"COMMIT", "ROLLBACK"}
\* With the statements t to come, a request is between its BEGIN and the end.
Inside(t) == "BEGIN" \notin Range(t) /\ Range(t) \intersect Closing # {}

\* The statements after the i-th, and what every handler's list of them keeps to.
After(t, i) == {t[j] : j \in i + 1..Len(t)}
Shaped(t) ==
  /\ t \in Seq(Statements)
  /\ \A i \in 1..Len(t) :
       /\ t[i] = "BEGIN" => "COMMIT" \in After(t, i) /\ "BEGIN" \notin After(t, i)
       /\ t[i] \in Closing => After(t, i) \intersect (Closing \union {"BEGIN"}) = {}
       /\ t[i] \in {"readPlan", "findInvite", "findTarget"} => "BEGIN" \in After(t, i)
       /\ t[i] = "findUser" => "COMMIT" \in After(t, i)
       /\ t[i] = "listTeams" => i < Len(t) /\ t[i + 1] = "deleteTeam"

\* Connections and requests are records, and what belongs together in them.
ConnFields(x) == [tx |-> x.tx, pending |-> x.pending, refs |-> x.refs, holder |-> x.holder, by |-> x.by]
ReqFields(q) == [work |-> q.work, todo |-> q.todo, on |-> q.on, teams |-> q.teams,
                 team |-> q.team, verdict |-> q.verdict]
ConnOK(x) ==
  /\ x = ConnFields(x) /\ x.tx \in {"none", "open", "aborted"}
  /\ x.tx = "none" <=> x.holder = None
  /\ x.tx # "open" => x.by = {}
  /\ x.by \subseteq Requests
ReqOK(q) ==
  /\ q = ReqFields(q)
  /\ q.on \in Conns \union {None}
  /\ Shaped(q.todo)
  /\ Range(q.todo) \intersect (Closing \union {"BEGIN"}) # {} => q.work.kind # "scan"
  /\ "ROLLBACK" \in Range(q.todo) => q.verdict # "ok"
PlansShape ==
  /\ conn = [c \in Conns |-> conn[c]] /\ \A c \in Conns : ConnOK(conn[c])
  /\ req = [r \in Requests |-> req[r]] /\ \A r \in Requests : ReqOK(req[r])
  /\ idle \in Seq(Conns)

\* Request r writes only in the transaction it holds, holds one at most, between BEGIN
\* and the end; if writes of it are lost, it failed, or has lost its transaction too.
TransactionKept(r) ==
  /\ \A c \in Conns : r \in conn[c].by => conn[c].holder = r
  /\ \A c \in Conns : conn[c].holder = r => Inside(req[r].todo)
  /\ \A c, d \in Conns : conn[c].holder = r /\ conn[d].holder = r => c = d
  /\ r \in lost => \/ req[r].verdict # "ok"
                   \/ Inside(req[r].todo) /\ \A c \in Conns : conn[c].holder # r

\* The inductive invariant.
PlansInv ==
  /\ PlansShape
  /\ lost \subseteq Requests
  /\ \A r \in Requests \ mixed : TransactionKept(r)

-----------------------------------------------------------------------------
(* The programs *)

\* No statement to come, or only ROLLBACK.
LEMMA EmptyShaped == Shaped(<<>>) /\ Range(<<>>) = {}
BY DEF Shaped, Range

LEMMA RollbackShaped ==
  LET t == <<"ROLLBACK">> IN Shaped(t) /\ Range(t) = {"ROLLBACK"} /\ Inside(t)
<1> DEFINE t == <<"ROLLBACK">>
<1>1. t \in Seq(Statements) /\ Len(t) = 1 /\ t[1] = "ROLLBACK" /\ DOMAIN t = 1..1
  BY DEF Statements
<1>2. Range(t) = {"ROLLBACK"}
  BY <1>1 DEF Range
<1>3. \A i \in 1..Len(t) : After(t, i) = {}
  BY <1>1 DEF After
<1>4. Shaped(t)
  <2> HIDE DEF t
  <2> QED BY <1>1, <1>3 DEF Shaped, Closing
<1> QED BY <1>2, <1>4 DEF Inside, Closing

\* What follows the statements of a list whose first was taken off.
LEMMA TailAfter ==
  ASSUME NEW t \in Seq(Statements), t # <<>>, NEW u, u = Tail(t)
  PROVE  /\ Len(t) \in Nat /\ 1 \in 1..Len(t) /\ DOMAIN t = 1..Len(t) /\ Head(t) = t[1]
         /\ u \in Seq(Statements) /\ Len(u) = Len(t) - 1 /\ \A i \in 1..Len(u) : u[i] = t[i + 1]
         /\ \A i \in 1..Len(u) : After(u, i) = After(t, i + 1)
         /\ Range(u) = After(t, 1) /\ Range(t) = {t[1]} \union After(t, 1)
<1>1. /\ Len(t) \in Nat /\ Len(t) >= 1 /\ Head(t) = t[1]
      /\ u \in Seq(Statements) /\ Len(u) = Len(t) - 1 /\ \A i \in 1..Len(u) : u[i] = t[i + 1]
  OBVIOUS
<1>3. \A i \in 1..Len(u) : After(u, i) = After(t, i + 1)
  <2> SUFFICES ASSUME NEW i \in 1..Len(u) PROVE After(u, i) = After(t, i + 1)
    OBVIOUS
  <2>1. ASSUME NEW j \in i + 1..Len(u) PROVE u[j] \in After(t, i + 1)
    <3>1. j + 1 \in (i + 1) + 1..Len(t) /\ u[j] = t[j + 1]
      BY <1>1
    <3> QED BY <3>1 DEF After
  <2>2. ASSUME NEW j \in (i + 1) + 1..Len(t) PROVE t[j] \in After(u, i)
    <3>1. j - 1 \in i + 1..Len(u) /\ u[j - 1] = t[(j - 1) + 1] /\ (j - 1) + 1 = j
      BY <1>1
    <3> QED BY <3>1 DEF After
  <2> QED BY <2>1, <2>2 DEF After
<1>4. Range(u) = After(t, 1)
  <2>1. DOMAIN u = 1..Len(u)
    BY <1>1
  <2>2. ASSUME NEW j \in 1..Len(u) PROVE u[j] \in After(t, 1)
    <3>1. j + 1 \in 1 + 1..Len(t) /\ u[j] = t[j + 1]
      BY <1>1
    <3> QED BY <3>1 DEF After
  <2>3. ASSUME NEW j \in 1 + 1..Len(t) PROVE t[j] \in Range(u)
    <3>1. j - 1 \in 1..Len(u) /\ u[j - 1] = t[(j - 1) + 1] /\ (j - 1) + 1 = j
      BY <1>1
    <3> QED BY <2>1, <3>1 DEF Range
  <2> QED BY <2>1, <2>2, <2>3 DEF After, Range
<1>6. 1 \in 1..Len(t) /\ DOMAIN t = 1..Len(t)
  BY <1>1
<1>7. Range(t) = {t[1]} \union After(t, 1)
  <2>1. ASSUME NEW j \in 1..Len(t), j # 1 PROVE t[j] \in After(t, 1)
    <3>1. j \in 1 + 1..Len(t)
      BY <1>1, <2>1
    <3> QED BY <3>1 DEF After
  <2>2. ASSUME NEW j \in 1 + 1..Len(t) PROVE t[j] \in Range(t)
    <3>1. j \in 1..Len(t)
      BY <1>1
    <3> QED BY <1>6, <3>1 DEF Range
  <2> QED BY <1>6, <2>1, <2>2 DEF Range, After
<1> QED BY <1>1, <1>3, <1>4, <1>6, <1>7

\* The next statement is taken off.
LEMMA TailShaped ==
  ASSUME NEW t, Shaped(t), t # <<>>
  PROVE  /\ Shaped(Tail(t))
         /\ Range(Tail(t)) \subseteq Range(t)
         /\ Head(t) \in Range(t)
         /\ Head(t) = "BEGIN" => "BEGIN" \notin Range(Tail(t)) /\ "COMMIT" \in Range(Tail(t))
         /\ Head(t) \in Closing => Range(Tail(t)) \intersect (Closing \union {"BEGIN"}) = {}
         /\ Head(t) \in {"readPlan", "findInvite", "findTarget"} => "BEGIN" \in Range(t)
         /\ Head(t) = "findUser" => "COMMIT" \in Range(t)
         /\ Head(t) = "listTeams" => Tail(t) # <<>> /\ Head(Tail(t)) = "deleteTeam"
         /\ Inside(t) /\ Head(t) \notin Closing => Inside(Tail(t))
<1>1. PICK u : u = Tail(t)
  OBVIOUS
<1>2. t \in Seq(Statements)
  BY DEF Shaped
<1>3. /\ Len(t) \in Nat /\ 1 \in 1..Len(t) /\ Head(t) = t[1]
      /\ u \in Seq(Statements) /\ Len(u) = Len(t) - 1 /\ \A i \in 1..Len(u) : u[i] = t[i + 1]
      /\ \A i \in 1..Len(u) : After(u, i) = After(t, i + 1)
  BY <1>1, <1>2, TailAfter
<1>4. Range(u) = After(t, 1) /\ Range(t) = {t[1]} \union After(t, 1)
  BY <1>1, <1>2, TailAfter
<1>5. Shaped(u)
  <2> SUFFICES ASSUME NEW i \in 1..Len(u)
               PROVE  /\ u[i] = "BEGIN" => "COMMIT" \in After(u, i) /\ "BEGIN" \notin After(u, i)
                      /\ u[i] \in Closing => After(u, i) \intersect (Closing \union {"BEGIN"}) = {}
                      /\ u[i] \in {"readPlan", "findInvite", "findTarget"} => "BEGIN" \in After(u, i)
                      /\ u[i] = "findUser" => "COMMIT" \in After(u, i)
                      /\ u[i] = "listTeams" => i < Len(u) /\ u[i + 1] = "deleteTeam"
    BY <1>3 DEF Shaped
  <2>1. i + 1 \in 1..Len(t) /\ u[i] = t[i + 1] /\ After(u, i) = After(t, i + 1)
    BY <1>3
  <2>2. u[i] = "listTeams" => i < Len(u) /\ u[i + 1] = "deleteTeam"
    <3> SUFFICES ASSUME u[i] = "listTeams" PROVE i < Len(u) /\ u[i + 1] = "deleteTeam"
      OBVIOUS
    <3>1. i + 1 < Len(t) /\ t[(i + 1) + 1] = "deleteTeam"
      BY <2>1 DEF Shaped
    <3>2. i + 1 \in 1..Len(u)
      BY <1>3, <3>1
    <3> QED BY <1>3, <3>1, <3>2
  <2> QED BY <2>1, <2>2 DEF Shaped
<1>6. Head(t) = "listTeams" => u # <<>> /\ Head(u) = "deleteTeam"
  <2> SUFFICES ASSUME t[1] = "listTeams" PROVE u # <<>> /\ Head(u) = "deleteTeam"
    BY <1>3
  <2>1. 1 < Len(t) /\ t[1 + 1] = "deleteTeam"
    BY <1>3 DEF Shaped
  <2>2. Len(u) >= 1 /\ u[1] = "deleteTeam"
    BY <1>3, <2>1
  <2> QED BY <1>3, <2>2
<1>7. /\ t[1] = "BEGIN" => "COMMIT" \in After(t, 1) /\ "BEGIN" \notin After(t, 1)
      /\ t[1] \in Closing => After(t, 1) \intersect (Closing \union {"BEGIN"}) = {}
      /\ t[1] \in {"readPlan", "findInvite", "findTarget"} => "BEGIN" \in After(t, 1)
      /\ t[1] = "findUser" => "COMMIT" \in After(t, 1)
  BY <1>3 DEF Shaped
<1>8. Inside(t) /\ t[1] \notin Closing => Inside(u)
  BY <1>4 DEF Inside
<1> QED BY <1>1, <1>3, <1>4, <1>5, <1>6, <1>7, <1>8

\* Two lists of statements, one after the other.
LEMMA Concatenated ==
  ASSUME NEW s \in Seq(Statements), NEW t \in Seq(Statements)
  PROVE  /\ s \o t \in Seq(Statements) /\ Len(s \o t) = Len(s) + Len(t)
         /\ \A i \in 1..Len(s) : (s \o t)[i] = s[i]
         /\ \A i \in Len(s) + 1..Len(s) + Len(t) : (s \o t)[i] = t[i - Len(s)]
OBVIOUS

\* selectPlan, whatever plan is chosen.
LEMMA SelectIs ==
  ASSUME NEW w, NEW u, u = SelectProgram(w)
  PROVE  /\ u \in Seq(Statements) /\ Len(u) \in Nat /\ Len(u) > 6 /\ u[Len(u)] = "COMMIT"
         /\ u[1] = "readPlan" /\ u[2] = "BEGIN" /\ u[3] = "listTeams" /\ u[4] = "deleteTeam"
         /\ u[5] = "deleteMemberships" /\ u[6] = "updatePlan"
         /\ \A i \in 7..Len(u) - 1 :
              u[i] \in (IF w.plan = "team" THEN {"insertTeam", "insertTeamSub"} ELSE {"insertUserSub"})
<1> DEFINE inserts == IF w.plan = "team" THEN {"insertTeam", "insertTeamSub"} ELSE {"insertUserSub"}
<1>1. /\ Cleared \in Seq(Statements) /\ Len(Cleared) = 6
      /\ Cleared[1] = "readPlan" /\ Cleared[2] = "BEGIN" /\ Cleared[3] = "listTeams"
      /\ Cleared[4] = "deleteTeam" /\ Cleared[5] = "deleteMemberships" /\ Cleared[6] = "updatePlan"
  BY DEF Cleared, Statements, Writing
<1>2. PICK n : n = NewPlan(w)
  OBVIOUS
<1>3. n \in Seq(Statements) /\ \A i \in 1..Len(n) : n[i] \in inserts
  <2>1. CASE w.plan = "free"
    <3>1. n = <<>>
      BY <1>2, <2>1 DEF NewPlan
    <3> QED BY <3>1
  <2>2. CASE w.plan = "team"
    BY <1>2, <2>2 DEF NewPlan, Statements, Writing
  <2>3. CASE w.plan \notin {"free", "team"}
    BY <1>2, <2>3 DEF NewPlan, Statements, Writing
  <2> QED BY <2>1, <2>2, <2>3
<1>4. <<"COMMIT">> \in Seq(Statements) /\ Len(<<"COMMIT">>) = 1 /\ <<"COMMIT">>[1] = "COMMIT"
  BY DEF Statements
<1>5. PICK v : v = Cleared \o n
  OBVIOUS
<1> HIDE DEF inserts
<1>6. /\ v \in Seq(Statements) /\ Len(v) = 6 + Len(n) /\ Len(n) \in Nat
      /\ \A i \in 1..6 : v[i] = Cleared[i]
      /\ \A i \in 7..Len(v) : v[i] = n[i - 6]
  <2>1. /\ Cleared \o n \in Seq(Statements) /\ Len(Cleared \o n) = Len(Cleared) + Len(n)
        /\ \A i \in 1..Len(Cleared) : (Cleared \o n)[i] = Cleared[i]
        /\ \A i \in Len(Cleared) + 1..Len(Cleared) + Len(n) : (Cleared \o n)[i] = n[i - Len(Cleared)]
    BY <1>1, <1>3, Concatenated, Zenon
  <2>2. Len(n) \in Nat
    BY <1>3
  <2> QED BY <1>1, <1>5, <2>1, <2>2
<1>7. ASSUME NEW i \in 7..Len(v) PROVE v[i] \in inserts
  <2>1. i - 6 \in 1..Len(n)
    BY <1>6
  <2> QED BY <1>3, <1>6, <2>1
<1>8. u = v \o <<"COMMIT">>
  BY <1>2, <1>5 DEF SelectProgram
<1>9. u \in Seq(Statements) /\ Len(u) = Len(v) + 1 /\ u[Len(u)] = "COMMIT" /\ \A i \in 1..Len(v) : u[i] = v[i]
  BY <1>4, <1>6, <1>8
<1>10. /\ u[1] = "readPlan" /\ u[2] = "BEGIN" /\ u[3] = "listTeams" /\ u[4] = "deleteTeam"
       /\ u[5] = "deleteMemberships" /\ u[6] = "updatePlan"
       /\ Len(u) \in Nat /\ Len(u) > 6
  BY <1>1, <1>6, <1>9
<1>11. ASSUME NEW i \in 7..Len(u) - 1 PROVE u[i] \in inserts
  <2>1. i \in 7..Len(v) /\ i \in 1..Len(v)
    BY <1>6, <1>9
  <2> QED BY <1>7, <1>9, <2>1
<1> QED BY <1>9, <1>10, <1>11 DEF inserts

LEMMA SelectShaped ==
  ASSUME NEW w
  PROVE  Shaped(SelectProgram(w)) /\ "ROLLBACK" \notin Range(SelectProgram(w))
<1>1. PICK u : u = SelectProgram(w)
  OBVIOUS
<1> DEFINE inserts == IF w.plan = "team" THEN {"insertTeam", "insertTeamSub"} ELSE {"insertUserSub"}
<1>2. /\ u \in Seq(Statements) /\ Len(u) \in Nat /\ Len(u) > 6 /\ u[Len(u)] = "COMMIT"
      /\ u[1] = "readPlan" /\ u[2] = "BEGIN" /\ u[3] = "listTeams" /\ u[4] = "deleteTeam"
      /\ u[5] = "deleteMemberships" /\ u[6] = "updatePlan"
      /\ \A i \in 7..Len(u) - 1 : u[i] \in inserts
  BY <1>1, SelectIs
<1>3. \A i \in 1..Len(u) : \/ i = 1 \/ i = 2 \/ i = 3 \/ i = 4 \/ i = 5 \/ i = 6
                           \/ i \in 7..Len(u) - 1 \/ i = Len(u)
  BY <1>2
<1>4. \A x \in inserts : x \notin {"BEGIN", "COMMIT", "ROLLBACK", "readPlan", "findInvite",
                                   "findTarget", "findUser", "listTeams"}
  OBVIOUS
<1> HIDE DEF inserts
<1>5. \A i \in 7..Len(u) - 1 : u[i] \notin {"BEGIN", "COMMIT", "ROLLBACK", "readPlan", "findInvite",
                                            "findTarget", "findUser", "listTeams"}
  BY <1>2, <1>4
<1>6. ASSUME NEW i \in 1..Len(u)
       PROVE  /\ u[i] = "BEGIN" <=> i = 2
              /\ u[i] \in Closing <=> i = Len(u)
              /\ u[i] = "ROLLBACK" => FALSE
              /\ u[i] \in {"readPlan", "findInvite", "findTarget"} => i = 1
              /\ u[i] = "findUser" => FALSE
              /\ u[i] = "listTeams" => i = 3
  BY <1>2, <1>3, <1>5 DEF Closing
<1>7. ASSUME NEW i \in 1..Len(u)
       PROVE  /\ u[i] = "BEGIN" => "COMMIT" \in After(u, i) /\ "BEGIN" \notin After(u, i)
              /\ u[i] \in Closing => After(u, i) \intersect (Closing \union {"BEGIN"}) = {}
              /\ u[i] \in {"readPlan", "findInvite", "findTarget"} => "BEGIN" \in After(u, i)
              /\ u[i] = "findUser" => "COMMIT" \in After(u, i)
              /\ u[i] = "listTeams" => i < Len(u) /\ u[i + 1] = "deleteTeam"
  <2>1. CASE u[i] = "BEGIN"
    <3>1. i = 2 /\ Len(u) \in 2 + 1..Len(u) /\ u[i] \notin Closing
      BY <1>2, <1>6, <2>1 DEF Closing
    <3>2. "COMMIT" \in After(u, i)
      BY <1>2, <3>1 DEF After
    <3>3. \A j \in 3..Len(u) : u[j] # "BEGIN"
      BY <1>2, <1>6
    <3>4. "BEGIN" \notin After(u, i)
      BY <3>1, <3>3 DEF After
    <3> QED BY <2>1, <3>1, <3>2, <3>4
  <2>2. CASE u[i] \in Closing
    <3>1. i = Len(u) /\ i + 1..Len(u) = {}
      BY <1>2, <1>6, <2>2
    <3>2. After(u, i) = {}
      BY <3>1 DEF After
    <3> QED BY <2>2, <3>2 DEF Closing
  <2>3. CASE u[i] \in {"readPlan", "findInvite", "findTarget"}
    <3>1. i = 1 /\ 2 \in 1 + 1..Len(u)
      BY <1>2, <1>6, <2>3
    <3> QED BY <1>2, <2>3, <3>1 DEF After, Closing
  <2>4. CASE u[i] = "listTeams"
    BY <1>2, <1>6, <2>4 DEF Closing
  <2> QED BY <1>6, <2>1, <2>2, <2>3, <2>4
<1>8. Shaped(u)
  BY <1>2, <1>7 DEF Shaped
<1>9. "ROLLBACK" \notin Range(u)
  <2>1. DOMAIN u = 1..Len(u)
    BY <1>2
  <2> QED BY <1>6, <2>1 DEF Range
<1> QED BY <1>1, <1>8, <1>9

\* All five requests.
LEMMA ProgramShaped ==
  ASSUME NEW w, w.kind \in {"select", "accept", "transfer", "delete", "scan"}
  PROVE  /\ Shaped(Program(w)) /\ "ROLLBACK" \notin Range(Program(w))
         /\ Range(Program(w)) \intersect (Closing \union {"BEGIN"}) # {} => w.kind # "scan"
<1>1. CASE w.kind = "select"
  <2>1. Program(w) = SelectProgram(w)
    BY <1>1 DEF Program
  <2> QED BY <1>1, <2>1, SelectShaped
<1>2. CASE w.kind = "accept"
  <2>1. PICK t : t = <<"findInvite", "BEGIN", "upsertMember", "acceptInvite", "COMMIT", "readBack">>
    OBVIOUS
  <2>2. t \in Seq(Statements) /\ Len(t) = 6 /\ DOMAIN t = 1..6
    BY <2>1 DEF Statements, Writing
  <2>3. /\ t[1] = "findInvite" /\ t[2] = "BEGIN" /\ t[3] = "upsertMember" /\ t[4] = "acceptInvite"
        /\ t[5] = "COMMIT" /\ t[6] = "readBack"
    BY <2>1
  <2>4. After(t, 1) = {t[2], t[3], t[4], t[5], t[6]} /\ After(t, 2) = {t[3], t[4], t[5], t[6]} /\ After(t, 5) = {t[6]}
    BY <2>2 DEF After
  <2>5. Shaped(t) /\ "ROLLBACK" \notin Range(t)
    BY <2>2, <2>3, <2>4 DEF Shaped, Closing, Range
  <2>6. Program(w) = t
    BY <1>2, <2>1 DEF Program
  <2> QED BY <1>2, <2>5, <2>6
<1>3. CASE w.kind = "transfer"
  <2>1. PICK t : t = <<"readPlan", "findTarget", "BEGIN", "setOwner", "formerOwnerAdmin", "targetMember", "COMMIT">>
    OBVIOUS
  <2>2. t \in Seq(Statements) /\ Len(t) = 7 /\ DOMAIN t = 1..7
    BY <2>1 DEF Statements, Writing
  <2>3. /\ t[1] = "readPlan" /\ t[2] = "findTarget" /\ t[3] = "BEGIN" /\ t[4] = "setOwner"
        /\ t[5] = "formerOwnerAdmin" /\ t[6] = "targetMember" /\ t[7] = "COMMIT"
    BY <2>1
  <2>4. /\ After(t, 1) = {t[2], t[3], t[4], t[5], t[6], t[7]} /\ After(t, 2) = {t[3], t[4], t[5], t[6], t[7]}
        /\ After(t, 3) = {t[4], t[5], t[6], t[7]} /\ After(t, 7) = {}
    BY <2>2 DEF After
  <2>5. Shaped(t) /\ "ROLLBACK" \notin Range(t)
    BY <2>2, <2>3, <2>4 DEF Shaped, Closing, Range
  <2>6. Program(w) = t
    BY <1>3, <2>1 DEF Program
  <2> QED BY <1>3, <2>5, <2>6
<1>4. CASE w.kind = "delete"
  <2>1. PICK t : t = <<"BEGIN", "findUser", "deleteScans", "deleteSubs", "deleteMemberships", "deleteUser", "COMMIT">>
    OBVIOUS
  <2>2. t \in Seq(Statements) /\ Len(t) = 7 /\ DOMAIN t = 1..7
    BY <2>1 DEF Statements, Writing
  <2>3. /\ t[1] = "BEGIN" /\ t[2] = "findUser" /\ t[3] = "deleteScans" /\ t[4] = "deleteSubs"
        /\ t[5] = "deleteMemberships" /\ t[6] = "deleteUser" /\ t[7] = "COMMIT"
    BY <2>1
  <2>4. /\ After(t, 1) = {t[2], t[3], t[4], t[5], t[6], t[7]} /\ After(t, 2) = {t[3], t[4], t[5], t[6], t[7]}
        /\ After(t, 7) = {}
    BY <2>2 DEF After
  <2>5. Shaped(t) /\ "ROLLBACK" \notin Range(t)
    BY <2>2, <2>3, <2>4 DEF Shaped, Closing, Range
  <2>6. Program(w) = t
    BY <1>4, <2>1 DEF Program
  <2> QED BY <1>4, <2>5, <2>6
<1>5. CASE w.kind = "scan"
  <2>1. PICK t : t = <<"insertScan">>
    OBVIOUS
  <2>2. t \in Seq(Statements) /\ Len(t) = 1 /\ DOMAIN t = 1..1 /\ t[1] = "insertScan"
    BY <2>1 DEF Statements, Writing
  <2>3. Shaped(t) /\ Range(t) = {"insertScan"}
    BY <2>2 DEF Shaped, Closing, Range
  <2>4. Program(w) = t
    BY <1>5, <2>1 DEF Program
  <2> QED BY <1>5, <2>3, <2>4 DEF Closing
<1> QED BY <1>1, <1>2, <1>3, <1>4, <1>5

-----------------------------------------------------------------------------
(* The steps *)

LEMMA PlansStart == PlansInit => PlansInv
<1> SUFFICES ASSUME PlansInit PROVE PlansInv
  OBVIOUS
<1>1. PICK w \in Scenarios :
        /\ db = w.rows
        /\ req = [r \in Requests |->
                    [work |-> w.work[r], todo |-> Program(w.work[r]), on |-> None,
                     teams |-> {}, team |-> w.work[r].team, verdict |-> "ok"]]
  BY DEF PlansInit
<1>2. conn = [c \in Conns |-> Closed] /\ idle = <<>> /\ mixed = {} /\ lost = {}
  BY DEF PlansInit
<1>3. \A c \in Conns : conn[c] = ConnFields(conn[c]) /\ conn[c].tx = "none" /\ conn[c].holder = None /\ conn[c].by = {}
  BY <1>2 DEF Closed, ConnFields
<1>4. conn = [c \in Conns |-> conn[c]] /\ \A c \in Conns : ConnOK(conn[c])
  BY <1>2, <1>3 DEF ConnOK
<1>5. \A r \in Requests : /\ req[r] = ReqFields(req[r]) /\ req[r].on = None /\ req[r].work = w.work[r]
                          /\ req[r].todo = Program(w.work[r])
  BY <1>1 DEF ReqFields
<1>6. req = [r \in Requests |-> req[r]]
  BY <1>1
<1>7. \A r \in Requests : w.work[r].kind \in {"select", "accept", "transfer", "delete", "scan"}
  BY TeamPlansAssumption
<1>8. \A r \in Requests : ReqOK(req[r])
  BY <1>5, <1>7, ProgramShaped DEF ReqOK
<1>9. PlansShape
  BY <1>2, <1>4, <1>6, <1>8 DEF PlansShape
<1>10. \A r \in Requests : TransactionKept(r)
  BY <1>2, <1>3, TeamPlansAssumption DEF TransactionKept, None
<1> QED BY <1>2, <1>9, <1>10 DEF PlansInv

LEMMA InsideIsInTransaction ==
  ASSUME PlansShape, NEW r \in Requests
  PROVE  InTransaction(r) <=> Inside(req[r].todo)
BY DEF PlansShape, ReqOK, InTransaction, InTry, Inside, Closing

\* A step of request r on connection c leaves q of the one and x of the other.
LEMMA ShapeStep ==
  ASSUME PlansShape, NEW r \in Requests, NEW c \in Conns, NEW x, NEW q, ConnOK(x), ReqOK(q),
         conn' = [conn EXCEPT ![c] = x], req' = [req EXCEPT ![r] = q], idle' \in Seq(Conns)
  PROVE  /\ PlansShape'
         /\ conn'[c] = x /\ \A d \in Conns \ {c} : conn'[d] = conn[d]
         /\ req'[r] = q /\ \A p \in Requests \ {r} : req'[p] = req[p]
<1>1. /\ conn'[c] = x /\ (\A d \in Conns \ {c} : conn'[d] = conn[d])
      /\ conn' = [d \in Conns |-> conn'[d]]
  BY DEF PlansShape
<1>2. /\ req'[r] = q /\ (\A p \in Requests \ {r} : req'[p] = req[p])
      /\ req' = [p \in Requests |-> req'[p]]
  BY DEF PlansShape
<1>3. \A d \in Conns : ConnOK(conn'[d])
  BY <1>1 DEF PlansShape
<1>4. \A p \in Requests : ReqOK(req'[p])
  BY <1>2 DEF PlansShape
<1>5. PlansShape'
  BY <1>1, <1>2, <1>3, <1>4 DEF PlansShape, ConnOK, ConnFields, ReqOK, ReqFields
<1> QED BY <1>1, <1>2, <1>5

\* Any statement but BEGIN.
LEMMA StepKeeps ==
  ASSUME PlansInv, NEW r \in Requests, NEW c \in Conns, NEW x, NEW q, req[r].on = c,
         ConnOK(x), ReqOK(q),
         conn' = [conn EXCEPT ![c] = x], req' = [req EXCEPT ![r] = q], idle' \in Seq(Conns),
         mixed' = mixed \union Mixing(r),
         x.holder \in {conn[c].holder, None}, x.by \subseteq conn[c].by \union {r},
         lost' \in {lost, lost \union conn[c].by},
         lost' # lost => q.verdict # "ok",
         q.verdict = "ok" => req[r].verdict = "ok",
         x.holder # None /\ Inside(req[r].todo) => Inside(q.todo)
  PROVE  PlansInv'
<1>1. /\ PlansShape'
      /\ conn'[c] = x /\ \A d \in Conns \ {c} : conn'[d] = conn[d]
      /\ req'[r] = q /\ \A p \in Requests \ {r} : req'[p] = req[p]
  <2>1. PlansShape
    BY DEF PlansInv
  <2>2. PlansShape'
    BY <2>1, ShapeStep
  <2>3. conn'[c] = x /\ \A d \in Conns \ {c} : conn'[d] = conn[d]
    BY <2>1 DEF PlansShape
  <2>4. req'[r] = q /\ \A p \in Requests \ {r} : req'[p] = req[p]
    BY <2>1 DEF PlansShape
  <2> QED BY <2>2, <2>3, <2>4
<1>2. /\ conn[c].tx = "none" <=> conn[c].holder = None
      /\ conn[c].tx # "open" => conn[c].by = {}
  BY DEF PlansInv, PlansShape, ConnOK
<1>3. /\ conn[c].holder = r \/ (conn[c].tx = "none" /\ ~Inside(req[r].todo)) \/ r \in mixed'
      /\ conn[c].holder \in Requests \ {r} => conn[c].holder \in mixed'
  BY <1>2, InsideIsInTransaction, TeamPlansAssumption DEF PlansInv, Mixing, None
<1>4. ASSUME NEW p \in Requests \ mixed', p # r PROVE TransactionKept(p)'
  <2>1. TransactionKept(p) /\ conn[c].holder # p
    BY <1>3, <1>4 DEF PlansInv
  <2>2. p \notin conn[c].by /\ p \notin x.by /\ (p \in lost' => p \in lost) /\ x.holder # p
    BY <1>4, <2>1, TeamPlansAssumption DEF TransactionKept, None
  <2>3. req'[p] = req[p]
    BY <1>1, <1>4
  <2> QED BY <1>1, <2>1, <2>2, <2>3 DEF TransactionKept
<1>5. ASSUME r \notin mixed' PROVE TransactionKept(r)'
  <2>1. TransactionKept(r) /\ (conn[c].holder = r \/ (conn[c].tx = "none" /\ ~Inside(req[r].todo)))
    BY <1>3, <1>5 DEF PlansInv
  <2>2. r # None
    BY TeamPlansAssumption DEF None
  <2>3. ASSUME NEW d \in Conns, r \in conn'[d].by PROVE conn'[d].holder = r
    <3>1. CASE d # c
      BY <1>1, <2>1, <2>3, <3>1 DEF TransactionKept
    <3>2. CASE d = c
      BY <1>1, <1>2, <2>1, <2>2, <2>3, <3>2 DEF ConnOK
    <3> QED BY <3>1, <3>2
  <2>4. ASSUME NEW d \in Conns, conn'[d].holder = r PROVE d = c /\ Inside(q.todo)
    <3>1. conn[d].holder = r /\ Inside(req[r].todo)
      BY <1>1, <2>1, <2>2, <2>4 DEF TransactionKept
    <3>2. d = c
      BY <2>1, <3>1 DEF TransactionKept
    <3> QED BY <1>1, <2>2, <2>4, <3>1, <3>2
  <2>5. r \in lost' => q.verdict # "ok"
    BY <1>2, <2>1, <2>2 DEF TransactionKept
  <2> QED BY <1>1, <2>3, <2>4, <2>5 DEF TransactionKept
<1>6. lost' \subseteq Requests
  BY DEF PlansInv, PlansShape, ConnOK
<1> QED BY <1>1, <1>4, <1>5, <1>6 DEF PlansInv

\* What a statement leaves of the request, if it goes through or is refused.
LEMMA RequestFields ==
  ASSUME PlansShape, NEW r \in Requests, req[r].todo # <<>>
  PROVE  /\ Goes(r) = ReqFields(Goes(r)) /\ Goes(r).todo = Tail(req[r].todo)
         /\ Goes(r).verdict = req[r].verdict /\ Goes(r).work = req[r].work
         /\ Goes(r).on = req[r].on
         /\ Refuses(r) = ReqFields(Refuses(r)) /\ Refuses(r).todo = <<>> /\ Refuses(r).verdict = "refused"
<1>1. req[r] = ReqFields(req[r])
  BY DEF PlansShape, ReqOK
<1>2. PICK t : t = Tail(req[r].todo)
  OBVIOUS
<1>3. Goes(r) = [req[r] EXCEPT !.todo = t]
  BY <1>2 DEF Goes
<1>4. /\ Goes(r) = ReqFields(Goes(r)) /\ Goes(r).todo = t
      /\ Goes(r).verdict = req[r].verdict /\ Goes(r).work = req[r].work
      /\ Goes(r).on = req[r].on
  BY <1>1, <1>3 DEF ReqFields
<1>5. PICK q : q = Refuses(r)
  OBVIOUS
<1>6. q = ReqFields(q) /\ q.todo = <<>> /\ q.verdict = "refused"
  BY <1>1, <1>5 DEF Refuses, ReqFields
<1> QED BY <1>2, <1>4, <1>5, <1>6

\* A statement that goes through.
LEMMA SucceedKeeps ==
  ASSUME PlansInv, NEW r \in Requests, NEW q, Succeed(r, q), req[r].on # None, ReqOK(q),
         q.verdict = "ok" => req[r].verdict = "ok",
         Inside(req[r].todo) => Inside(q.todo)
  PROVE  PlansInv'
<1>1. PICK c \in Conns : c = req[r].on
  BY DEF PlansInv, PlansShape, ReqOK
<1>2. PICK written, parents, y :
        /\ written = Writes(req[r], Head(req[r].todo), View(c))
        /\ parents = Parents(req[r], Head(req[r].todo), View(c))
        /\ y = Extended(conn[c], r, written, parents)
  OBVIOUS
<1>7. ConnOK(conn[c]) /\ conn[c] = ConnFields(conn[c])
  BY DEF PlansInv, PlansShape, ConnOK
<1>8. /\ y = ConnFields(y) /\ y.tx = conn[c].tx /\ y.holder = conn[c].holder
      /\ y.by \subseteq conn[c].by \union {r}
  <2>1. PICK pending, refs, by :
          /\ pending = Join(written, conn[c].pending) /\ refs = conn[c].refs \union parents
          /\ by = IF written = Empty THEN conn[c].by ELSE conn[c].by \union {r}
    OBVIOUS
  <2>2. y = [conn[c] EXCEPT !.pending = pending, !.refs = refs, !.by = by]
    BY <1>2, <1>7, <2>1 DEF Extended, ConnFields
  <2>3. y = ConnFields(y) /\ y.tx = conn[c].tx /\ y.holder = conn[c].holder /\ y.by = by
    BY <1>7, <2>2 DEF ConnFields
  <2> QED BY <2>1, <2>3
<1>10. PICK x : x = IF conn[c].tx = "open" THEN y ELSE conn[c]
  OBVIOUS
<1>11. conn' = [conn EXCEPT ![c] = x]
  <2>1. CASE conn[c].tx = "open"
    <3>1. conn' = [conn EXCEPT ![c] = y]
      BY <1>1, <1>2, <2>1, Zenon DEF Succeed
    <3> QED BY <1>10, <2>1, <3>1
  <2>2. CASE conn[c].tx # "open"
    <3>1. conn' = conn
      BY <1>1, <2>2 DEF Succeed
    <3>2. conn = [conn EXCEPT ![c] = conn[c]]
      BY DEF PlansInv, PlansShape
    <3> QED BY <1>10, <2>2, <3>1, <3>2
  <2> QED BY <2>1, <2>2
<1>12. PICK p : p = [q EXCEPT !.on = None]
  OBVIOUS
<1>13. p = ReqFields(p) /\ p.on = None /\ p.todo = q.todo /\ p.verdict = q.verdict /\ p.work = q.work
  <2>1. q = ReqFields(q)
    BY DEF ReqOK
  <2> QED BY <1>12, <2>1 DEF ReqFields
<1>14. ReqOK(p)
  BY <1>13 DEF ReqOK
<1>15. ConnOK(x) /\ x.holder = conn[c].holder /\ x.by \subseteq conn[c].by \union {r}
  BY <1>7, <1>8, <1>10 DEF ConnOK
<1>16. /\ req' = [req EXCEPT ![r] = p] /\ mixed' = mixed \union Mixing(r) /\ lost' = lost
       /\ idle' = Append(idle, c)
  BY <1>1, <1>12 DEF Succeed, Release
<1>17. idle' \in Seq(Conns)
  BY <1>16 DEF PlansInv, PlansShape
<1> QED BY <1>1, <1>11, <1>13, <1>14, <1>15, <1>16, <1>17, StepKeeps

\* The request goes on to its next statement; something else of it may have changed.
Moved(r, q) ==
  /\ q = ReqFields(q) /\ q.todo = Tail(req[r].todo) /\ q.verdict = req[r].verdict
  /\ q.work = req[r].work /\ q.on = req[r].on

LEMMA GoesKeeps ==
  ASSUME PlansInv, NEW r \in Requests, NEW q, Succeed(r, q), Moved(r, q), req[r].on # None,
         req[r].todo # <<>>, Head(req[r].todo) \notin Closing \union {"BEGIN"}
  PROVE  PlansInv'
<1>1. ReqOK(req[r])
  BY DEF PlansInv, PlansShape
<1>2. /\ Shaped(q.todo) /\ Range(q.todo) \subseteq Range(req[r].todo)
      /\ Inside(req[r].todo) => Inside(q.todo)
  BY <1>1, TailShaped DEF ReqOK, Moved
<1>3. ReqOK(q)
  BY <1>1, <1>2 DEF ReqOK, Moved
<1> QED BY <1>2, <1>3, SucceedKeeps DEF Moved

\* Refusals come before BEGIN.
LEMMA RefusesKeeps ==
  ASSUME PlansInv, NEW r \in Requests, Succeed(r, Refuses(r)), req[r].on # None,
         req[r].todo # <<>>, Head(req[r].todo) \in {"readPlan", "findInvite", "findTarget"}
  PROVE  PlansInv'
<1>1. PlansShape /\ ReqOK(req[r])
  BY DEF PlansInv, PlansShape
<1>2. PICK q : q = Refuses(r)
  OBVIOUS
<1>3. q = ReqFields(q) /\ q.todo = <<>> /\ q.verdict = "refused" /\ q.on = req[r].on
  <2>1. req[r] = ReqFields(req[r])
    BY <1>1 DEF ReqOK
  <2> QED BY <1>2, <2>1 DEF Refuses, ReqFields
<1>4. ~Inside(req[r].todo)
  BY <1>1, TailShaped DEF ReqOK, Inside
<1>5. Shaped(q.todo) /\ Range(q.todo) = {}
  BY <1>3, EmptyShaped
<1>6. ReqOK(q)
  BY <1>1, <1>3, <1>5 DEF ReqOK
<1> QED BY <1>2, <1>3, <1>4, <1>6, SucceedKeeps

LEMMA SentFacts ==
  ASSUME PlansInv, NEW r \in Requests, NEW s, Sent(r, s)
  PROVE  /\ req[r].on # None /\ req[r].on \in Conns /\ req[r].todo # <<>> /\ Head(req[r].todo) = s
         /\ PlansShape /\ ReqOK(req[r]) /\ req[r] = ReqFields(req[r]) /\ Shaped(req[r].todo)
BY DEF Sent, PlansInv, PlansShape, ReqOK

LEMMA WriteKeeps == ASSUME PlansInv, NEW r \in Requests, Write(r) PROVE PlansInv'
<1>1. PICK s \in Writing : Sent(r, s)
  BY DEF Write
<1>2. s \notin Closing \union {"BEGIN"}
  BY DEF Writing, Closing
<1>3. PICK q : q = Goes(r)
  OBVIOUS
<1>4. Moved(r, q)
  BY <1>1, <1>3, SentFacts, RequestFields DEF Moved
<1>5. Succeed(r, q)
  BY <1>3 DEF Write
<1> QED BY <1>1, <1>2, <1>4, <1>5, SentFacts, GoesKeeps

LEMMA ChangedGoes ==
  ASSUME PlansInv, NEW r \in Requests, req[r].todo # <<>>, NEW x
  PROVE  Moved(r, [Goes(r) EXCEPT !.team = x]) /\ Moved(r, [Goes(r) EXCEPT !.teams = x])
<1>1. PICK g : g = Goes(r)
  OBVIOUS
<1>2. g = ReqFields(g) /\ Moved(r, g)
  BY <1>1, RequestFields DEF PlansInv, Moved
<1>3. ASSUME NEW q, q = [g EXCEPT !.team = x] \/ q = [g EXCEPT !.teams = x]
      PROVE  Moved(r, q)
  <2>1. q = ReqFields(q) /\ q.todo = g.todo /\ q.verdict = g.verdict /\ q.work = g.work /\ q.on = g.on
    <3>1. CASE q = [g EXCEPT !.team = x]
      BY <1>2, <3>1 DEF ReqFields
    <3>2. CASE q = [g EXCEPT !.teams = x]
      BY <1>2, <3>2 DEF ReqFields
    <3> QED BY <1>3, <3>1, <3>2
  <2> QED BY <1>2, <2>1 DEF Moved
<1> QED BY <1>1, <1>3

LEMMA ReadPlanKeeps == ASSUME PlansInv, NEW r \in Requests, ReadPlan(r) PROVE PlansInv'
<1>1. Sent(r, "readPlan") /\ "readPlan" \notin Closing \union {"BEGIN"}
  BY DEF ReadPlan, Closing
<1>2. PICK q : q = Goes(r)
  OBVIOUS
<1>3. Moved(r, q)
  BY <1>1, <1>2, SentFacts, RequestFields DEF Moved
<1>4. CASE Succeed(r, Refuses(r))
  BY <1>1, <1>4, SentFacts, RefusesKeeps
<1>5. CASE Succeed(r, q)
  BY <1>1, <1>3, <1>5, SentFacts, GoesKeeps
<1>6. ASSUME NEW t, Succeed(r, [Goes(r) EXCEPT !.team = t]) PROVE PlansInv'
  <2>1. PICK p : p = [Goes(r) EXCEPT !.team = t]
    OBVIOUS
  <2>2. req[r].todo # <<>> /\ req[r].on # None /\ Head(req[r].todo) = "readPlan"
    BY <1>1, SentFacts
  <2>3. Moved(r, p)
    BY <2>1, <2>2, ChangedGoes
  <2> QED BY <1>1, <1>6, <2>1, <2>2, <2>3, GoesKeeps
<1> QED BY <1>2, <1>4, <1>5, <1>6 DEF ReadPlan

LEMMA ListTeamsKeeps == ASSUME PlansInv, NEW r \in Requests, ListTeams(r) PROVE PlansInv'
<1>1. Sent(r, "listTeams") /\ "listTeams" \notin Closing \union {"BEGIN"}
  BY DEF ListTeams, Closing
<1>2. PICK owned : owned = Owned(req[r].work.user, View(req[r].on))
  OBVIOUS
<1>3. CASE owned # {}
  <2>1. PICK p : p = [Goes(r) EXCEPT !.teams = owned]
    OBVIOUS
  <2>2. Succeed(r, p)
    BY <1>2, <1>3, <2>1 DEF ListTeams
  <2>3. req[r].todo # <<>> /\ req[r].on # None /\ Head(req[r].todo) = "listTeams"
    BY <1>1, SentFacts
  <2>4. Moved(r, p)
    BY <2>1, <2>3, ChangedGoes
  <2> QED BY <1>1, <2>2, <2>3, <2>4, GoesKeeps
<1>4. CASE owned = {}
  <2>1. PICK t, q : t = Tail(Tail(req[r].todo)) /\ q = [req[r] EXCEPT !.todo = t]
    OBVIOUS
  <2>2. Succeed(r, q)
    BY <1>2, <1>4, <2>1 DEF ListTeams
  <2>3. /\ q = ReqFields(q) /\ q.todo = t /\ q.verdict = req[r].verdict
        /\ q.work = req[r].work /\ q.on = req[r].on
    <3>1. req[r] = ReqFields(req[r])
      BY <1>1, SentFacts
    <3> QED BY <2>1, <3>1 DEF ReqFields
  <2>4. PICK u : u = Tail(req[r].todo)
    OBVIOUS
  <2>5. /\ Shaped(u) /\ Range(u) \subseteq Range(req[r].todo) /\ u # <<>> /\ Head(u) = "deleteTeam"
        /\ Inside(req[r].todo) => Inside(u)
    BY <1>1, <2>4, SentFacts, TailShaped
  <2>6. /\ Shaped(t) /\ Range(t) \subseteq Range(req[r].todo)
        /\ Inside(req[r].todo) => Inside(t)
    <3>1. t = Tail(u) /\ "deleteTeam" \notin Closing
      BY <2>1, <2>4 DEF Closing
    <3> QED BY <2>5, <3>1, TailShaped
  <2>7. ReqOK(q)
    BY <1>1, <2>3, <2>6, SentFacts DEF ReqOK
  <2> QED BY <1>1, <2>2, <2>3, <2>6, <2>7, SentFacts, SucceedKeeps
<1> QED BY <1>3, <1>4

\* The last team deleted, or one of several: the DELETE stays to come.
LEMMA DeleteTeamKeeps == ASSUME PlansInv, NEW r \in Requests, DeleteTeam(r) PROVE PlansInv'
<1>1. Sent(r, "deleteTeam") /\ "deleteTeam" \notin Closing \union {"BEGIN"}
  BY DEF DeleteTeam, Closing
<1>2. PICK others : others = req[r].teams \ {FirstOf(req[r].teams)}
  OBVIOUS
<1>3. CASE others = {}
  <2>1. PICK p : p = [Goes(r) EXCEPT !.teams = others]
    OBVIOUS
  <2>2. Succeed(r, p)
    BY <1>2, <1>3, <2>1 DEF DeleteTeam
  <2>3. req[r].todo # <<>> /\ req[r].on # None /\ Head(req[r].todo) = "deleteTeam"
    BY <1>1, SentFacts
  <2>4. Moved(r, p)
    BY <2>1, <2>3, ChangedGoes
  <2> QED BY <1>1, <2>2, <2>3, <2>4, GoesKeeps
<1>4. CASE others # {}
  <2>1. PICK q : q = [req[r] EXCEPT !.teams = others]
    OBVIOUS
  <2>2. Succeed(r, q)
    BY <1>2, <1>4, <2>1 DEF DeleteTeam
  <2>3. /\ q = ReqFields(q) /\ q.todo = req[r].todo /\ q.verdict = req[r].verdict
        /\ q.work = req[r].work /\ q.on = req[r].on
    <3>1. req[r] = ReqFields(req[r])
      BY <1>1, SentFacts
    <3> QED BY <2>1, <3>1 DEF ReqFields
  <2>4. ReqOK(q)
    BY <1>1, <2>3, SentFacts DEF ReqOK
  <2> QED BY <1>1, <2>2, <2>3, <2>4, SentFacts, SucceedKeeps
<1> QED BY <1>3, <1>4

LEMMA FindKeeps ==
  ASSUME PlansInv, NEW r \in Requests, FindInvite(r) \/ FindTarget(r) \/ ReadBack(r)
  PROVE  PlansInv'
<1>1. PICK s \in {"findInvite", "findTarget", "readBack"} :
        /\ Sent(r, s)
        /\ Succeed(r, Goes(r)) \/ (s # "readBack" /\ Succeed(r, Refuses(r)))
  BY DEF FindInvite, FindTarget, ReadBack
<1>2. s \notin Closing \union {"BEGIN"}
  BY DEF Closing
<1>3. PICK q : q = Goes(r)
  OBVIOUS
<1>4. Moved(r, q)
  BY <1>1, <1>3, SentFacts, RequestFields DEF Moved
<1>5. CASE Succeed(r, q)
  BY <1>1, <1>2, <1>4, <1>5, SentFacts, GoesKeeps
<1>6. CASE s # "readBack" /\ Succeed(r, Refuses(r))
  BY <1>1, <1>6, SentFacts, RefusesKeeps
<1> QED BY <1>1, <1>3, <1>5, <1>6

LEMMA FindUserKeeps == ASSUME PlansInv, NEW r \in Requests, FindUser(r) PROVE PlansInv'
<1>1. Sent(r, "findUser") /\ "findUser" \notin Closing \union {"BEGIN"}
  BY DEF FindUser, Closing
<1>2. PICK q : q = Goes(r)
  OBVIOUS
<1>3. Moved(r, q)
  BY <1>1, <1>2, SentFacts, RequestFields DEF Moved
<1>4. CASE Succeed(r, q)
  BY <1>1, <1>3, <1>4, SentFacts, GoesKeeps
<1>5. PICK t, p : t = <<"ROLLBACK">> /\ p = [req[r] EXCEPT !.todo = t, !.verdict = "refused"]
  OBVIOUS
<1>6. CASE Succeed(r, p)
  <2>1. p = ReqFields(p) /\ p.todo = t /\ p.verdict = "refused" /\ p.work = req[r].work /\ p.on = req[r].on
    <3>1. req[r] = ReqFields(req[r])
      BY <1>1, SentFacts
    <3> QED BY <1>5, <3>1 DEF ReqFields
  <2>2. Shaped(t) /\ Range(t) = {"ROLLBACK"} /\ Inside(t)
    BY <1>5, RollbackShaped
  <2>3. "COMMIT" \in Range(req[r].todo)
    BY <1>1, SentFacts, TailShaped
  <2>4. ReqOK(p)
    BY <1>1, <2>1, <2>2, <2>3, SentFacts DEF ReqOK, Closing
  <2> QED BY <1>1, <1>6, <2>1, <2>2, <2>4, SentFacts, SucceedKeeps
<1> QED BY <1>2, <1>4, <1>5, <1>6 DEF FindUser

LEMMA InsertTeamKeeps == ASSUME PlansInv, NEW r \in Requests, InsertTeam(r) PROVE PlansInv'
<1>1. Sent(r, "insertTeam") /\ "insertTeam" \notin Closing \union {"BEGIN"}
  BY DEF InsertTeam, Closing
<1>2. PICK n : n = born + 1
  OBVIOUS
<1>3. PICK p : p = [Goes(r) EXCEPT !.team = n]
  OBVIOUS
<1>4. Succeed(r, p)
  BY <1>2, <1>3 DEF InsertTeam
<1>5. req[r].todo # <<>> /\ req[r].on # None /\ Head(req[r].todo) = "insertTeam"
  BY <1>1, SentFacts
<1>6. Moved(r, p)
  BY <1>3, <1>5, ChangedGoes
<1> QED BY <1>1, <1>4, <1>5, <1>6, GoesKeeps

LEMMA ClosedOK == ConnOK(Closed) /\ Closed.holder = None /\ Closed.by = {}
BY DEF Closed, ConnOK, ConnFields

\* A request that leaves its connection.
LEMMA LeavesOK ==
  ASSUME NEW q, q = ReqFields(q)
  PROVE  LET p == [q EXCEPT !.on = None] IN
         /\ p = ReqFields(p) /\ p.on = None /\ p.todo = q.todo /\ p.verdict = q.verdict /\ p.work = q.work
BY DEF ReqFields

LEMMA ReturnedIdle == ASSUME PlansShape, NEW c \in Conns PROVE Append(idle, c) \in Seq(Conns)
BY DEF PlansShape

LEMMA BeginKeeps == ASSUME PlansInv, NEW r \in Requests, Begin(r) PROVE PlansInv'
<1>1. Sent(r, "BEGIN") /\ Head(req[r].todo) = "BEGIN" /\ req[r].todo # <<>>
  BY SentFacts DEF Begin
<1>2. PICK c \in Conns : c = req[r].on
  BY <1>1, SentFacts
<1>3. PlansShape /\ ConnOK(conn[c]) /\ conn[c] = ConnFields(conn[c]) /\ DOMAIN conn = Conns
  BY DEF PlansInv, PlansShape, ConnOK
<1>4. PICK y : y = [conn[c] EXCEPT !.tx = "open", !.holder = r]
  OBVIOUS
<1>5. y = ConnFields(y) /\ y.tx = "open" /\ y.holder = r /\ y.by = conn[c].by
  BY <1>3, <1>4 DEF ConnFields
<1>6. PICK x : x = IF conn[c].tx = "open" THEN conn[c] ELSE y
  OBVIOUS
<1>7. conn[c].tx # "aborted" /\ ConnOK(x)
  <2>1. r # None
    BY TeamPlansAssumption DEF None
  <2> QED BY <1>2, <1>3, <1>5, <1>6, <2>1 DEF Begin, ConnOK
<1>8. conn' = [conn EXCEPT ![c] = x]
  <2>1. CASE conn[c].tx = "open"
    BY <1>2, <1>3, <1>6, <2>1 DEF Begin, PlansShape
  <2>2. CASE conn[c].tx # "open"
    <3>1. conn' = [conn EXCEPT ![c].tx = "open", ![c].holder = r]
      BY <1>2, <2>2 DEF Begin
    <3>2. conn' = [conn EXCEPT ![c] = y]
      BY <1>3, <1>4, <3>1
    <3> QED BY <1>6, <2>2, <3>2
  <2> QED BY <2>1, <2>2
<1>9. PICK g, q : g = Goes(r) /\ q = [g EXCEPT !.on = None]
  OBVIOUS
<1>10. g = ReqFields(g) /\ g.todo = Tail(req[r].todo) /\ g.verdict = req[r].verdict /\ g.work = req[r].work
  BY <1>1, <1>3, <1>9, RequestFields
<1>11. /\ q = ReqFields(q) /\ q.on = None /\ q.todo = Tail(req[r].todo)
       /\ q.verdict = req[r].verdict /\ q.work = req[r].work
  BY <1>9, <1>10, LeavesOK
<1>12. ReqOK(req[r]) /\ Shaped(req[r].todo)
  BY <1>1, SentFacts
<1>13. /\ Shaped(q.todo) /\ Range(q.todo) \subseteq Range(req[r].todo)
       /\ Inside(q.todo) /\ ~Inside(req[r].todo)
  <2>1. /\ Shaped(q.todo) /\ Range(q.todo) \subseteq Range(req[r].todo) /\ "BEGIN" \in Range(req[r].todo)
        /\ "BEGIN" \notin Range(q.todo) /\ "COMMIT" \in Range(q.todo)
    BY <1>1, <1>11, <1>12, TailShaped
  <2> QED BY <2>1 DEF Inside, Closing
<1>14. ReqOK(q)
  BY <1>11, <1>12, <1>13 DEF ReqOK
<1>15. /\ req' = [req EXCEPT ![r] = q] /\ idle' \in Seq(Conns) /\ lost' = lost
       /\ mixed' = mixed \union (IF conn[c].tx = "open" THEN {r, conn[c].holder} ELSE {})
  BY <1>2, <1>3, <1>9, ReturnedIdle DEF Begin, Release
<1>16. /\ PlansShape'
       /\ conn'[c] = x /\ \A d \in Conns \ {c} : conn'[d] = conn[d]
       /\ req'[r] = q /\ \A p \in Requests \ {r} : req'[p] = req[p]
  BY <1>3, <1>7, <1>8, <1>14, <1>15, ShapeStep
<1>17. ASSUME NEW p \in Requests \ mixed', p # r PROVE TransactionKept(p)'
  <2>1. TransactionKept(p) /\ req'[p] = req[p]
    BY <1>15, <1>16, <1>17 DEF PlansInv
  <2>2. \A d \in Conns : conn'[d].by = conn[d].by /\ (p \in conn[d].by => conn'[d].holder = conn[d].holder)
    <3>1. conn[c].tx # "open" => conn[c].by = {}
      BY <1>3 DEF ConnOK
    <3> QED BY <1>5, <1>6, <1>16, <3>1
  <2>3. \A d \in Conns : conn'[d].holder = p => conn[d].holder = p
    BY <1>5, <1>6, <1>16, <1>17
  <2> QED BY <1>15, <2>1, <2>2, <2>3 DEF TransactionKept
<1>18. ASSUME r \notin mixed' PROVE TransactionKept(r)'
  <2>1. TransactionKept(r) /\ conn[c].tx # "open" /\ x = y
    BY <1>6, <1>15, <1>18 DEF PlansInv
  <2>2. \A d \in Conns : conn[d].holder # r /\ r \notin conn[d].by
    BY <1>13, <2>1 DEF TransactionKept
  <2>3. r \in lost' => q.verdict # "ok"
    BY <1>11, <1>13, <1>15, <2>1 DEF TransactionKept
  <2>4. \A d \in Conns : r \notin conn'[d].by /\ (conn'[d].holder = r => d = c)
    BY <1>5, <1>16, <2>1, <2>2
  <2> QED BY <1>13, <1>16, <2>3, <2>4 DEF TransactionKept
<1> QED BY <1>15, <1>16, <1>17, <1>18 DEF PlansInv

LEMMA CommitKeeps == ASSUME PlansInv, NEW r \in Requests, Commit(r) \/ Rollback(r) PROVE PlansInv'
<1>1. PICK s \in Closing : /\ Sent(r, s)
                           /\ s = "COMMIT" => Commit(r)
                           /\ s = "ROLLBACK" => Rollback(r)
  <2>1. CASE Commit(r)
    <3>1. Sent(r, "COMMIT") /\ "COMMIT" \in Closing
      BY <2>1 DEF Commit, Closing
    <3> QED BY <2>1, <3>1
  <2>2. CASE Rollback(r)
    <3>1. Sent(r, "ROLLBACK") /\ "ROLLBACK" \in Closing
      BY <2>2 DEF Rollback, Closing
    <3> QED BY <2>2, <3>1
  <2> QED BY <2>1, <2>2
<1>2. PICK c \in Conns : c = req[r].on
  BY <1>1, SentFacts
<1>3. PlansShape /\ ReqOK(req[r]) /\ Shaped(req[r].todo) /\ req[r].todo # <<>> /\ Head(req[r].todo) = s
  BY <1>1, SentFacts
<1>4. PICK g, q : g = Goes(r) /\ q = [g EXCEPT !.on = None]
  OBVIOUS
<1>5. g = ReqFields(g) /\ g.todo = Tail(req[r].todo) /\ g.verdict = req[r].verdict /\ g.work = req[r].work
  BY <1>3, <1>4, RequestFields
<1>6. /\ q = ReqFields(q) /\ q.on = None /\ q.todo = Tail(req[r].todo)
      /\ q.verdict = req[r].verdict /\ q.work = req[r].work
  BY <1>4, <1>5, LeavesOK
<1>7. Shaped(q.todo) /\ Range(q.todo) \subseteq Range(req[r].todo) /\ s \in Range(req[r].todo)
  BY <1>3, <1>6, TailShaped
<1>8. ReqOK(q)
  BY <1>3, <1>6, <1>7 DEF ReqOK
<1>9. PICK x : x = Closed
  OBVIOUS
<1>10. ConnOK(x) /\ x.holder = None /\ x.by = {}
  BY <1>9, ClosedOK
<1>11. /\ conn' = [conn EXCEPT ![c] = x] /\ req' = [req EXCEPT ![r] = q] /\ idle' = Append(idle, c)
       /\ mixed' = mixed \union Mixing(r)
       /\ lost' = lost \/ (s = "ROLLBACK" /\ lost' = lost \union conn[c].by)
  <2>1. CASE s = "COMMIT"
    BY <1>1, <1>2, <1>4, <1>9, <2>1 DEF Commit, Release
  <2>2. CASE s = "ROLLBACK"
    BY <1>1, <1>2, <1>4, <1>9, <2>2 DEF Rollback, Release
  <2> QED BY <2>1, <2>2 DEF Closing
<1>12. s = "ROLLBACK" => q.verdict # "ok"
  BY <1>3, <1>6, <1>7 DEF ReqOK
<1>13. idle' \in Seq(Conns)
  BY <1>3, <1>11, ReturnedIdle
<1> QED BY <1>2, <1>6, <1>8, <1>10, <1>11, <1>12, <1>13, StepKeeps

LEMMA RejectKeeps == ASSUME PlansInv, NEW r \in Requests, Reject(r) PROVE PlansInv'
<1>1. req[r].on # None /\ req[r].todo # <<>>
  BY DEF Reject
<1>2. PICK c \in Conns : c = req[r].on
  BY <1>1 DEF PlansInv, PlansShape, ReqOK
<1>3. PlansShape /\ ReqOK(req[r]) /\ ConnOK(conn[c]) /\ req[r] = ReqFields(req[r])
  BY DEF PlansInv, PlansShape, ReqOK
<1>4. PICK t, q : /\ t = IF InTry(r) THEN <<"ROLLBACK">> ELSE <<>>
                  /\ q = [req[r] EXCEPT !.on = None, !.verdict = "error", !.todo = t]
  OBVIOUS
<1>5. q = ReqFields(q) /\ q.on = None /\ q.verdict = "error" /\ q.todo = t /\ q.work = req[r].work
  BY <1>3, <1>4 DEF ReqFields
<1>6. Shaped(t) /\ (InTry(r) => Inside(t)) /\ (~InTry(r) => Range(t) = {})
  BY <1>4, EmptyShaped, RollbackShaped
<1>7. InTry(r) => req[r].work.kind # "scan"
  BY DEF InTry
<1>8. Inside(req[r].todo) => InTry(r)
  BY <1>3, InsideIsInTransaction DEF InTransaction
<1>9. ReqOK(q)
  BY <1>5, <1>6, <1>7 DEF ReqOK
<1>10. PICK y : y = [Closed EXCEPT !.tx = "aborted", !.holder = conn[c].holder]
  OBVIOUS
<1>11. y = ConnFields(y) /\ y.tx = "aborted" /\ y.holder = conn[c].holder /\ y.by = {}
  BY <1>10 DEF Closed, ConnFields
<1>12. conn = [conn EXCEPT ![c] = conn[c]]
  BY <1>3 DEF PlansShape
<1>13. /\ req' = [req EXCEPT ![r] = q] /\ idle' = Append(idle, c) /\ mixed' = mixed \union Mixing(r)
       /\ \/ conn[c].tx = "open" /\ conn' = [conn EXCEPT ![c] = y] /\ lost' = lost \union conn[c].by
          \/ conn' = [conn EXCEPT ![c] = conn[c]] /\ lost' = lost
  BY <1>2, <1>4, <1>10, <1>12 DEF Reject, Release
<1>14. idle' \in Seq(Conns)
  BY <1>3, <1>13, ReturnedIdle
<1>15. CASE conn[c].tx = "open" /\ conn' = [conn EXCEPT ![c] = y] /\ lost' = lost \union conn[c].by
  <2>1. ConnOK(y)
    BY <1>3, <1>11, <1>15 DEF ConnOK
  <2> QED BY <1>2, <1>5, <1>6, <1>8, <1>9, <1>11, <1>13, <1>14, <1>15, <2>1, StepKeeps
<1>16. CASE conn' = [conn EXCEPT ![c] = conn[c]] /\ lost' = lost
  <2>1. PICK x : x = conn[c]
    OBVIOUS
  <2> QED BY <1>2, <1>3, <1>5, <1>6, <1>8, <1>9, <1>13, <1>14, <1>16, <2>1, StepKeeps
<1> QED BY <1>13, <1>15, <1>16

LEMMA AcquireKeeps == ASSUME PlansInv, NEW r \in Requests, Acquire(r) PROVE PlansInv'
<1>1. PlansShape /\ ReqOK(req[r]) /\ req[r] = ReqFields(req[r]) /\ idle \in Seq(Conns)
  BY DEF PlansInv, PlansShape, ReqOK
<1>2. PICK c \in Conns : req' = [req EXCEPT ![r].on = c] /\ idle' \in Seq(Conns)
  <2>1. CASE idle # <<>>
    <3>1. Len(idle) \in Nat /\ Len(idle) # 0
      BY <1>1, <2>1
    <3>2. Last(idle) \in Conns /\ Front(idle) \in Seq(Conns)
      BY <1>1, <3>1 DEF Last, Front
    <3> QED BY <2>1, <3>2 DEF Acquire
  <2>2. CASE idle = <<>>
    BY <1>1, <2>2 DEF Acquire
  <2> QED BY <2>1, <2>2
<1>3. PICK q : q = [req[r] EXCEPT !.on = c]
  OBVIOUS
<1>4. q = ReqFields(q) /\ q.on = c /\ q.todo = req[r].todo /\ q.verdict = req[r].verdict /\ q.work = req[r].work
  BY <1>1, <1>3 DEF ReqFields
<1>5. ReqOK(q)
  BY <1>1, <1>4 DEF ReqOK
<1>6. req' = [req EXCEPT ![r] = q] /\ conn' = conn /\ mixed' = mixed /\ lost' = lost
  BY <1>2, <1>3 DEF Acquire
<1>7. conn' = [conn EXCEPT ![c] = conn[c]] /\ ConnOK(conn[c])
  BY <1>1, <1>6 DEF PlansShape
<1>8. PICK x : x = conn[c]
  OBVIOUS
<1>9. PlansShape' /\ req'[r] = q /\ \A p \in Requests \ {r} : req'[p] = req[p]
  <2>1. conn' = [conn EXCEPT ![c] = x] /\ ConnOK(x)
    BY <1>7, <1>8
  <2>2. PlansShape'
    BY <1>1, <1>2, <1>5, <1>6, <2>1, ShapeStep
  <2> QED BY <1>1, <1>6, <2>2 DEF PlansShape
<1>10. \A p \in Requests : req'[p].todo = req[p].todo /\ req'[p].verdict = req[p].verdict
  BY <1>4, <1>9
<1>11. \A p \in Requests \ mixed' : TransactionKept(p)'
  BY <1>6, <1>10 DEF PlansInv, TransactionKept
<1> QED BY <1>6, <1>9, <1>11 DEF PlansInv

LEMMA IdleTimeoutKeeps == ASSUME PlansInv, NEW c \in Conns, IdleTimeout(c) PROVE PlansInv'
<1>1. PlansShape /\ idle \in Seq(Conns)
  BY DEF PlansInv, PlansShape
<1>2. /\ conn' = [conn EXCEPT ![c] = Closed] /\ lost' = lost \union conn[c].by
      /\ req' = req /\ mixed' = mixed /\ idle' \in Seq(Conns)
  BY <1>1 DEF IdleTimeout
<1>3. conn'[c] = Closed /\ (\A d \in Conns \ {c} : conn'[d] = conn[d]) /\ conn' = [d \in Conns |-> conn'[d]]
  BY <1>1, <1>2 DEF PlansShape
<1>4. \A d \in Conns : ConnOK(conn'[d])
  BY <1>1, <1>3, ClosedOK DEF PlansShape
<1>5. req' = [p \in Requests |-> req'[p]] /\ \A p \in Requests : ReqOK(req'[p])
  BY <1>1, <1>2 DEF PlansShape
<1>6. PlansShape'
  BY <1>2, <1>3, <1>4, <1>5 DEF PlansShape, ConnOK, ConnFields, ReqOK, ReqFields
<1>7. ASSUME NEW p \in Requests \ mixed' PROVE TransactionKept(p)'
  <2>1. TransactionKept(p) /\ p # None
    BY <1>2, <1>7, TeamPlansAssumption DEF PlansInv, None
  <2>2. \A d \in Conns : /\ conn'[d].holder = p => d # c /\ conn[d].holder = p
                         /\ p \in conn'[d].by => d # c /\ p \in conn[d].by
    BY <1>3, <2>1, ClosedOK
  <2>3. \A d \in Conns : p \in conn'[d].by => conn'[d].holder = p
    BY <1>3, <2>1, <2>2 DEF TransactionKept
  <2>4. p \in lost' \ lost => Inside(req[p].todo) /\ \A d \in Conns : conn'[d].holder # p
    BY <1>2, <2>1, <2>2 DEF TransactionKept
  <2>5. \A d, e \in Conns : conn'[d].holder = p /\ conn'[e].holder = p => d = e
    BY <2>1, <2>2 DEF TransactionKept
  <2>6. \A d \in Conns : conn'[d].holder = p => Inside(req'[p].todo)
    BY <1>2, <2>1, <2>2 DEF TransactionKept
  <2>7. p \in lost => \/ req'[p].verdict # "ok"
                      \/ Inside(req'[p].todo) /\ \A d \in Conns : conn'[d].holder # p
    BY <1>2, <2>1, <2>2 DEF TransactionKept
  <2> QED BY <1>2, <2>3, <2>4, <2>5, <2>6, <2>7 DEF TransactionKept
<1>8. lost' \subseteq Requests
  BY <1>1, <1>2 DEF PlansInv, PlansShape, ConnOK
<1> QED BY <1>6, <1>7, <1>8 DEF PlansInv

LEMMA PlansStep == PlansInv /\ [PlansNext]_plansVars => PlansInv'
<1> SUFFICES ASSUME PlansInv, [PlansNext]_plansVars PROVE PlansInv'
  OBVIOUS
<1>1. ASSUME NEW r \in Requests, Acquire(r) PROVE PlansInv'
  BY <1>1, AcquireKeeps
<1>2. ASSUME NEW r \in Requests, Execute(r) PROVE PlansInv'
  BY <1>2, WriteKeeps, ReadPlanKeeps, ListTeamsKeeps, DeleteTeamKeeps, FindKeeps, FindUserKeeps,
     InsertTeamKeeps, BeginKeeps, CommitKeeps, RejectKeeps DEF Execute
<1>3. ASSUME NEW c \in Conns, IdleTimeout(c) PROVE PlansInv'
  BY <1>3, IdleTimeoutKeeps
<1>4. CASE UNCHANGED plansVars
  BY <1>4 DEF plansVars, PlansInv, PlansShape, TransactionKept, ConnOK, ConnFields, ReqOK, ReqFields
<1> QED BY <1>1, <1>2, <1>3, <1>4 DEF PlansNext

\* Any number of requests over any number of connections: the requests that kept to
\* one connection have the transaction they opened for themselves until they end it.
THEOREM PlansInvariant == PlansSpec => []PlansInv
BY PlansStart, PlansStep, PTL DEF PlansSpec

\* What a request of selectPlan, acceptTeamInvite, transferTeamOwnership or deleteMe
\* acknowledged is lost only if its statements and its transaction were mixed up with
\* those of another one, or ended up on different connections: the shape BEGIN .. COMMIT
\* with ROLLBACK in catch never answers "ok" over a transaction that was rolled back.
THEOREM LossIsExplained == PlansSpec => []LossExplained
<1>1. PlansInv => LossExplained
  <2> SUFFICES ASSUME PlansInv, NEW r \in lost, Replied(r), req[r].verdict = "ok", r \notin mixed
               PROVE  FALSE
    BY DEF LossExplained
  <2>1. ~Inside(req[r].todo)
    BY EmptyShaped DEF Replied, Inside
  <2> QED BY <2>1 DEF PlansInv, TransactionKept
<1> QED BY <1>1, PlansInvariant, PTL

-----------------------------------------------------------------------------
(* A change to a plan without team: who keeps a team all the same           *)
(*                                                                          *)
(* As long as nobody else gives the user a team, no write under way does,   *)
(* so what he owns or belongs to only ever shrinks; and the request, on its *)
(* own connection, sees nothing left of what it has deleted.                *)

\* The order of selectPlan's statements: from the list of the teams to their DELETEs, the
\* memberships after BEGIN too, and COMMIT the last.
Ordered(t) ==
  /\ t # <<>> => t[Len(t)] \in Closing
  /\ \A i \in 1..Len(t) :
       /\ t[i] = "BEGIN" => {"listTeams", "deleteMemberships"} \subseteq After(t, i)
       /\ t[i] = "COMMIT" => After(t, i) = {}
       /\ t[i] = "deleteTeam" => After(t, i) \intersect {"listTeams", "deleteTeam"} = {}

\* Only these requests have statements that give somebody a team.
Belongs(q) ==
  /\ "insertTeam" \in Range(q.todo) => q.work.kind = "select" /\ q.work.plan = "team"
  /\ "upsertMember" \in Range(q.todo) => q.work.kind = "accept"
  /\ \A s \in {"setOwner", "formerOwnerAdmin", "targetMember"} :
       s \in Range(q.todo) => q.work.kind = "transfer"
  /\ q.work.kind = "select" => Ordered(q.todo)

\* A request for w may give user u a team.
Gives(w, u) ==
  \/ w.user = u /\ (w.kind \in {"accept", "transfer"} \/ (w.kind = "select" /\ w.plan = "team"))
  \/ w.to = u /\ w.kind = "transfer"

\* Request r changes to a plan without team, and nobody gives its user one.
Downgrades(r) == req[r].work.kind = "select" /\ req[r].work.plan # "team" /\ ~GivenMeanwhile(r)

\* The writes w make u neither an owner nor a member.
GivesNothing(w, u) ==
  \A t \in Teams : /\ TeamRow(t) \in DOMAIN w => w[TeamRow(t)] # u
                   /\ Member(t, u) \in DOMAIN w => w[Member(t, u)] = None

\* What r sees on its connection c of its user's teams, once it has listed them, has
\* deleted them, and has deleted the memberships.
Clearing(r, c) ==
  LET T == Range(req[r].todo)
      u == req[r].work.user IN
  /\ conn[c].tx = "open"
  /\ "listTeams" \notin T => Owned(u, View(c)) \subseteq (IF "deleteTeam" \in T THEN req[r].teams ELSE {})
  /\ "deleteMemberships" \notin T => Joined(u, View(c)) = {}

ClearInv ==
  /\ \A r \in Requests : Belongs(req[r]) /\ req[r].work.user \in Users
  /\ \A r \in Requests : Downgrades(r) => \A c \in Conns : GivesNothing(conn[c].pending, req[r].work.user)
  /\ \A r \in Requests \ mixed : \A c \in Conns :
       Downgrades(r) /\ req[r].verdict = "ok" /\ conn[c].holder = r => Clearing(r, c)

\* The programs.
LEMMA EmptyOrdered == Ordered(<<>>) /\ Ordered(<<"ROLLBACK">>)
<1>1. Ordered(<<>>)
  BY DEF Ordered
<1>2. PICK t : t = <<"ROLLBACK">>
  OBVIOUS
<1>3. Len(t) = 1 /\ t[1] = "ROLLBACK"
  BY <1>2
<1>4. Ordered(t)
  BY <1>3 DEF Ordered, Closing
<1> QED BY <1>1, <1>2, <1>4

\* The next statement is taken off.
LEMMA TailOrdered ==
  ASSUME NEW t \in Seq(Statements), t # <<>>, Ordered(t)
  PROVE  /\ Ordered(Tail(t))
         /\ Head(t) = "BEGIN" => {"listTeams", "deleteMemberships"} \subseteq Range(Tail(t))
         /\ Head(t) = "COMMIT" => Range(Tail(t)) = {}
         /\ Head(t) = "deleteTeam" => Range(Tail(t)) \intersect {"listTeams", "deleteTeam"} = {}
         /\ Head(t) \notin Closing => Tail(t) # <<>>
<1>1. PICK u : u = Tail(t)
  OBVIOUS
<1>2. /\ Len(t) \in Nat /\ 1 \in 1..Len(t) /\ Head(t) = t[1]
      /\ u \in Seq(Statements) /\ Len(u) = Len(t) - 1 /\ \A i \in 1..Len(u) : u[i] = t[i + 1]
      /\ \A i \in 1..Len(u) : After(u, i) = After(t, i + 1)
      /\ Range(u) = After(t, 1)
  BY <1>1, TailAfter
<1>3. u = <<>> => Head(t) \in Closing
  <2> SUFFICES ASSUME u = <<>> PROVE t[1] \in Closing
    BY <1>2
  <2>1. Len(t) = 1
    BY <1>2
  <2> QED BY <2>1 DEF Ordered
<1>4. u # <<>> => u[Len(u)] \in Closing
  <2> SUFFICES ASSUME u # <<>> PROVE u[Len(u)] \in Closing
    OBVIOUS
  <2>1. Len(u) \in 1..Len(u) /\ Len(u) + 1 = Len(t)
    BY <1>2
  <2>2. u[Len(u)] = t[Len(t)]
    BY <1>2, <2>1
  <2> QED BY <2>2 DEF Ordered
<1>5. Ordered(u)
  <2> SUFFICES ASSUME NEW i \in 1..Len(u)
               PROVE  /\ u[i] = "BEGIN" => {"listTeams", "deleteMemberships"} \subseteq After(u, i)
                      /\ u[i] = "COMMIT" => After(u, i) = {}
                      /\ u[i] = "deleteTeam" => After(u, i) \intersect {"listTeams", "deleteTeam"} = {}
    BY <1>4 DEF Ordered
  <2>1. i + 1 \in 1..Len(t) /\ u[i] = t[i + 1] /\ After(u, i) = After(t, i + 1)
    BY <1>2
  <2> QED BY <2>1 DEF Ordered
<1> QED BY <1>1, <1>2, <1>3, <1>5 DEF Ordered

\* selectPlan, whatever plan is chosen.
LEMMA SelectOrdered ==
  ASSUME NEW w
  PROVE  LET u == SelectProgram(w) IN
         /\ Ordered(u)
         /\ Range(u) \intersect {"upsertMember", "setOwner", "formerOwnerAdmin", "targetMember"} = {}
         /\ "insertTeam" \in Range(u) => w.plan = "team"
<1>1. PICK u : u = SelectProgram(w)
  OBVIOUS
<1> DEFINE inserts == IF w.plan = "team" THEN {"insertTeam", "insertTeamSub"} ELSE {"insertUserSub"}
<1>2. /\ u \in Seq(Statements) /\ Len(u) \in Nat /\ Len(u) > 6 /\ u[Len(u)] = "COMMIT"
      /\ u[1] = "readPlan" /\ u[2] = "BEGIN" /\ u[3] = "listTeams" /\ u[4] = "deleteTeam"
      /\ u[5] = "deleteMemberships" /\ u[6] = "updatePlan"
      /\ \A i \in 7..Len(u) - 1 : u[i] \in inserts
  BY <1>1, SelectIs
<1>3. \A i \in 1..Len(u) : \/ i = 1 \/ i = 2 \/ i = 3 \/ i = 4 \/ i = 5 \/ i = 6
                           \/ i \in 7..Len(u) - 1 \/ i = Len(u)
  BY <1>2
<1>4. \A x \in inserts : x \in {"insertTeam", "insertTeamSub", "insertUserSub"} /\ (x = "insertTeam" => w.plan = "team")
  OBVIOUS
<1> HIDE DEF inserts
<1>5. ASSUME NEW i \in 7..Len(u) - 1
      PROVE  u[i] \in {"insertTeam", "insertTeamSub", "insertUserSub"} /\ (u[i] = "insertTeam" => w.plan = "team")
  BY <1>2, <1>4
<1>6. ASSUME NEW i \in 1..Len(u)
      PROVE  /\ u[i] = "BEGIN" => i = 2
             /\ u[i] = "COMMIT" => i = Len(u)
             /\ u[i] = "deleteTeam" => i = 4
             /\ u[i] = "listTeams" => i = 3
             /\ u[i] \notin {"upsertMember", "setOwner", "formerOwnerAdmin", "targetMember"}
             /\ u[i] = "insertTeam" => w.plan = "team"
  <2>1. CASE i \in 7..Len(u) - 1
    BY <1>5, <2>1
  <2>2. CASE i \notin 7..Len(u) - 1
    BY <1>2, <1>3, <2>2
  <2> QED BY <2>1, <2>2
<1>7. Ordered(u)
  <2>1. u[Len(u)] \in Closing
    BY <1>2 DEF Closing
  <2>2. {u[3], u[5]} \subseteq After(u, 2)
    <3>1. 3 \in 2 + 1..Len(u) /\ 5 \in 2 + 1..Len(u)
      BY <1>2
    <3> QED BY <3>1 DEF After
  <2>3. After(u, Len(u)) = {}
    <3>1. Len(u) + 1..Len(u) = {}
      BY <1>2
    <3> QED BY <3>1 DEF After
  <2>4. After(u, 4) \intersect {"listTeams", "deleteTeam"} = {}
    <3>1. ASSUME NEW j \in 4 + 1..Len(u) PROVE u[j] \notin {"listTeams", "deleteTeam"}
      <4>1. j \in 1..Len(u) /\ j # 3 /\ j # 4
        BY <1>2
      <4> QED BY <1>6, <4>1
    <3> QED BY <3>1 DEF After
  <2> QED BY <1>2, <1>6, <2>1, <2>2, <2>3, <2>4 DEF Ordered
<1>8. DOMAIN u = 1..Len(u)
  BY <1>2
<1> QED BY <1>1, <1>6, <1>7, <1>8 DEF Range

\* All five requests.
LEMMA ProgramBelongs ==
  ASSUME NEW q, q.work.kind \in {"select", "accept", "transfer", "delete", "scan"},
         q.todo = Program(q.work)
  PROVE  Belongs(q)
<1>1. CASE q.work.kind = "select"
  <2>1. q.todo = SelectProgram(q.work)
    BY <1>1 DEF Program
  <2>2. PICK u : u = SelectProgram(q.work)
    OBVIOUS
  <2> QED BY <1>1, <2>1, SelectOrdered DEF Belongs
<1>2. CASE q.work.kind = "accept"
  <2>1. q.todo = <<"findInvite", "BEGIN", "upsertMember", "acceptInvite", "COMMIT", "readBack">>
    BY <1>2 DEF Program
  <2>2. Range(q.todo) = {"findInvite", "BEGIN", "upsertMember", "acceptInvite", "COMMIT", "readBack"}
    BY <2>1 DEF Range
  <2> QED BY <1>2, <2>2 DEF Belongs
<1>3. CASE q.work.kind = "transfer"
  <2>1. q.todo = <<"readPlan", "findTarget", "BEGIN", "setOwner", "formerOwnerAdmin", "targetMember", "COMMIT">>
    BY <1>3 DEF Program
  <2>2. Range(q.todo) = {"readPlan", "findTarget", "BEGIN", "setOwner", "formerOwnerAdmin", "targetMember", "COMMIT"}
    BY <2>1 DEF Range
  <2> QED BY <1>3, <2>2 DEF Belongs
<1>4. CASE q.work.kind = "delete"
  <2>1. q.todo = <<"BEGIN", "findUser", "deleteScans", "deleteSubs", "deleteMemberships", "deleteUser", "COMMIT">>
    BY <1>4 DEF Program
  <2>2. Range(q.todo) = {"BEGIN", "findUser", "deleteScans", "deleteSubs", "deleteMemberships", "deleteUser", "COMMIT"}
    BY <2>1 DEF Range
  <2> QED BY <1>4, <2>2 DEF Belongs
<1>5. CASE q.work.kind = "scan"
  <2>1. q.todo = <<"insertScan">>
    BY <1>5 DEF Program
  <2>2. Range(q.todo) = {"insertScan"}
    BY <2>1 DEF Range
  <2> QED BY <1>5, <2>2 DEF Belongs
<1> QED BY <1>1, <1>2, <1>3, <1>4, <1>5

\* Fewer statements, in the same order.
LEMMA BelongsLess ==
  ASSUME NEW p, NEW q, Belongs(p), q.work = p.work,
         Range(q.todo) \subseteq Range(p.todo) \union {"ROLLBACK"}, Ordered(p.todo) => Ordered(q.todo)
  PROVE  Belongs(q)
BY DEF Belongs

-----------------------------------------------------------------------------
(* The writes *)

\* The table and the columns of a key.
LEMMA Tags ==
  ASSUME NEW t, NEW u
  PROVE  /\ TeamRow(t)[1] = "teams" /\ TeamRow(t)[2] = t
         /\ Member(t, u)[1] = "team_members" /\ Member(t, u)[2] = t /\ Member(t, u)[3] = u
         /\ PlanOf(u)[1] = "users" /\ Invite(t, u)[1] = "team_member_invites"
         /\ Sub(u)[1] = "subscriptions" /\ Scan(u)[1] = "scans"
BY DEF TeamRow, Member, PlanOf, Invite, Sub, Scan

LEMMA KeysOfTeams ==
  ASSUME NEW t \in Teams, NEW u \in Users PROVE TeamRow(t) \in Keys /\ Member(t, u) \in Keys
BY DEF Keys

\* Rows deleted, rows of other tables, a team's row for somebody else, somebody else's
\* membership.
LEMMA SetGivesNothing ==
  ASSUME NEW K, NEW x, NEW u, NEW k,
         \/ x = None /\ u # None
         \/ K \subseteq {k} /\ k[1] \notin {"teams", "team_members"}
         \/ K \subseteq {k} /\ k[1] = "teams" /\ x # u
         \/ K \subseteq {k} /\ k[1] = "team_members" /\ k[3] # u
  PROVE  GivesNothing(Set(K, x), u)
<1>1. DOMAIN Set(K, x) = K /\ \A j \in K : Set(K, x)[j] = x
  BY DEF Set
<1>2. SUFFICES ASSUME NEW t \in Teams
               PROVE  /\ TeamRow(t) \in K => x # u
                      /\ Member(t, u) \in K => x = None
  BY <1>1 DEF GivesNothing
<1>3. CASE x = None /\ u # None
  BY <1>3
<1>4. CASE ~(x = None /\ u # None)
  <2>1. K \subseteq {k} /\ k[1] = "teams" => x # u
    BY <1>4
  <2>2. TeamRow(t) \in K => k[1] = "teams" /\ x # u
    <3> SUFFICES ASSUME TeamRow(t) \in K PROVE k[1] = "teams" /\ x # u
      OBVIOUS
    <3>1. k = TeamRow(t)
      BY <1>4
    <3>2. k[1] = "teams"
      BY <3>1, Tags
    <3> QED BY <1>4, <3>2
  <2>3. Member(t, u) \in K => FALSE
    <3> SUFFICES ASSUME Member(t, u) \in K PROVE FALSE
      OBVIOUS
    <3>1. k = Member(t, u)
      BY <1>4
    <3>2. k[1] = "team_members" /\ k[3] = u
      BY <3>1, Tags
    <3> QED BY <1>4, <3>2
  <2> QED BY <2>2, <2>3
<1> QED BY <1>3, <1>4

LEMMA ChangeGivesNothing ==
  ASSUME NEW K, NEW x, NEW u, NEW k, NEW v,
         \/ x = None /\ u # None
         \/ K \subseteq {k} /\ k[1] \notin {"teams", "team_members"}
         \/ K \subseteq {k} /\ k[1] = "teams" /\ x # u
         \/ K \subseteq {k} /\ k[1] = "team_members" /\ k[3] # u
  PROVE  GivesNothing(Change(K, x, v), u)
<1>1. PICK L : L = {j \in K : v[j] # None}
  OBVIOUS
<1>2. L \subseteq K /\ Change(K, x, v) = Set(L, x)
  BY <1>1 DEF Change
<1>3. \/ x = None /\ u # None
      \/ L \subseteq {k} /\ k[1] \notin {"teams", "team_members"}
      \/ L \subseteq {k} /\ k[1] = "teams" /\ x # u
      \/ L \subseteq {k} /\ k[1] = "team_members" /\ k[3] # u
  BY <1>2
<1> QED BY <1>2, <1>3, SetGivesNothing

LEMMA JoinGivesNothing ==
  ASSUME NEW f, NEW g, NEW u, GivesNothing(f, u), GivesNothing(g, u)
  PROVE  GivesNothing(Join(f, g), u)
<1>1. /\ DOMAIN Join(f, g) = DOMAIN f \union DOMAIN g
      /\ \A k \in DOMAIN f \union DOMAIN g : Join(f, g)[k] = IF k \in DOMAIN f THEN f[k] ELSE g[k]
  BY DEF Join
<1> QED BY <1>1 DEF GivesNothing

\* A request that gives u nothing writes nothing that would.
LEMMA WritesGiveNothing ==
  ASSUME NEW q, Belongs(q), NEW s \in Range(q.todo), NEW v, NEW u, u # None, ~Gives(q.work, u)
  PROVE  GivesNothing(Writes(q, s, v), u)
<1>1. CASE s = "deleteTeam"
  <2>1. Writes(q, s, v) = Set(TeamCascade(FirstOf(q.teams), v), None)
    BY <1>1 DEF Writes
  <2> QED BY <2>1, SetGivesNothing
<1>2. CASE s = "deleteMemberships"
  <2>1. Writes(q, s, v) = Change({Member(t, q.work.user) : t \in Teams}, None, v)
    BY <1>2 DEF Writes
  <2> QED BY <2>1, ChangeGivesNothing
<1>3. CASE s = "deleteSubs"
  <2>1. Writes(q, s, v) = Change({Sub(q.work.user)}, None, v)
    BY <1>3 DEF Writes
  <2> QED BY <2>1, ChangeGivesNothing
<1>4. CASE s \in {"updatePlan", "acceptInvite", "deleteScans"}
  <2>1. ASSUME NEW k, k[1] \notin {"teams", "team_members"}, NEW x, Writes(q, s, v) = Change({k}, x, v)
        PROVE  GivesNothing(Writes(q, s, v), u)
    BY <2>1, ChangeGivesNothing
  <2>2. CASE s = "updatePlan"
    <3>1. Writes(q, s, v) = Change({PlanOf(q.work.user)}, q.work.plan, v)
      BY <2>2 DEF Writes
    <3>2. PlanOf(q.work.user)[1] = "users"
      BY DEF PlanOf
    <3> QED BY <2>1, <3>1, <3>2
  <2>3. CASE s = "acceptInvite"
    <3>1. Writes(q, s, v) = Change({Invite(q.team, q.work.user)}, "accepted", v)
      BY <2>3 DEF Writes
    <3>2. Invite(q.team, q.work.user)[1] = "team_member_invites"
      BY DEF Invite
    <3> QED BY <2>1, <3>1, <3>2
  <2>4. CASE s = "deleteScans"
    <3>1. Writes(q, s, v) = Change({Scan(q.work.user)}, None, v)
      BY <2>4 DEF Writes
    <3>2. Scan(q.work.user)[1] = "scans"
      BY DEF Scan
    <3> QED BY <2>1, <3>1, <3>2
  <2> QED BY <1>4, <2>2, <2>3, <2>4
<1>5. CASE s \in {"insertTeamSub", "insertUserSub", "insertScan"}
  <2>1. ASSUME NEW k, k[1] \notin {"teams", "team_members"}, NEW x, Writes(q, s, v) = Set({k}, x)
        PROVE  GivesNothing(Writes(q, s, v), u)
    BY <2>1, SetGivesNothing
  <2>2. CASE s = "insertTeamSub"
    <3>1. Writes(q, s, v) = Set({Sub(q.team)}, "active")
      BY <2>2 DEF Writes
    <3>2. Sub(q.team)[1] = "subscriptions"
      BY DEF Sub
    <3> QED BY <2>1, <3>1, <3>2
  <2>3. CASE s = "insertUserSub"
    <3>1. Writes(q, s, v) = Set({Sub(q.work.user)}, "active")
      BY <2>3 DEF Writes
    <3>2. Sub(q.work.user)[1] = "subscriptions"
      BY DEF Sub
    <3> QED BY <2>1, <3>1, <3>2
  <2>4. CASE s = "insertScan"
    <3>1. Writes(q, s, v) = Set({Scan(q.work.user)}, "owned")
      BY <2>4 DEF Writes
    <3>2. Scan(q.work.user)[1] = "scans"
      BY DEF Scan
    <3> QED BY <2>1, <3>1, <3>2
  <2> QED BY <1>5, <2>2, <2>3, <2>4
<1>6. CASE s = "insertTeam"
  <2>1. Writes(q, s, v) = Set({TeamRow(born + 1)}, q.work.user)
    BY <1>6 DEF Writes
  <2>2. q.work.user # u
    BY <1>6 DEF Belongs, Gives
  <2>3. PICK k : k = TeamRow(born + 1)
    OBVIOUS
  <2>4. k[1] = "teams"
    BY <2>3, Tags
  <2> QED BY <2>1, <2>2, <2>3, <2>4, SetGivesNothing
<1>7. CASE s = "setOwner"
  <2>1. Writes(q, s, v) = Change({TeamRow(q.team)}, q.work.to, v)
    BY <1>7 DEF Writes
  <2>2. q.work.to # u
    BY <1>7 DEF Belongs, Gives
  <2>3. PICK k : k = TeamRow(q.team)
    OBVIOUS
  <2>4. k[1] = "teams"
    BY <2>3, Tags
  <2> QED BY <2>1, <2>2, <2>3, <2>4, ChangeGivesNothing
<1>8. CASE s = "targetMember"
  <2>1. Writes(q, s, v) = Change({Member(q.team, q.work.to)}, "member", v)
    BY <1>8 DEF Writes
  <2>2. q.work.to # u
    BY <1>8 DEF Belongs, Gives
  <2>3. PICK k : k = Member(q.team, q.work.to)
    OBVIOUS
  <2>4. k[1] = "team_members" /\ k[3] # u
    BY <2>2, <2>3, Tags
  <2> QED BY <2>1, <2>3, <2>4, ChangeGivesNothing
<1>9. CASE s \in {"upsertMember", "formerOwnerAdmin"}
  <2>1. PICK x : Writes(q, s, v) = Set({Member(q.team, q.work.user)}, x)
    BY <1>9 DEF Writes
  <2>2. q.work.user # u
    BY <1>9 DEF Belongs, Gives
  <2>3. PICK k : k = Member(q.team, q.work.user)
    OBVIOUS
  <2>4. k[1] = "team_members" /\ k[3] # u
    BY <2>2, <2>3, Tags
  <2> QED BY <2>1, <2>3, <2>4, SetGivesNothing
<1>10. CASE s = "deleteUser"
  <2>1. PICK K, k : /\ K = UserCascade(q.work.user, v) /\ k = Scan(q.work.user)
                    /\ Writes(q, s, v) = Join(Change({k}, "orphan", v), Set(K, None))
    BY <1>10 DEF Writes
  <2>2. GivesNothing(Set(K, None), u)
    BY SetGivesNothing
  <2>3. k[1] \notin {"teams", "team_members"}
    BY <2>1, Tags
  <2>4. GivesNothing(Change({k}, "orphan", v), u)
    BY <2>3, ChangeGivesNothing
  <2> QED BY <2>1, <2>2, <2>4, JoinGivesNothing
<1>11. CASE s \notin {"deleteTeam", "deleteMemberships", "updatePlan", "insertTeam", "insertTeamSub",
                      "insertUserSub", "upsertMember", "acceptInvite", "setOwner", "formerOwnerAdmin",
                      "targetMember", "deleteScans", "deleteSubs", "deleteUser", "insertScan"}
  <2>1. Writes(q, s, v) = Empty
    BY <1>11 DEF Writes
  <2>2. DOMAIN Empty = {}
    BY DEF Empty
  <2> QED BY <2>1, <2>2 DEF GivesNothing
<1> QED BY <1>1, <1>2, <1>3, <1>4, <1>5, <1>6, <1>7, <1>8, <1>9, <1>10, <1>11

\* What a connection sees of u's teams while its own writes give u none.
LEMMA Seen ==
  ASSUME NEW c \in Conns, NEW u \in Users, u # None, GivesNothing(conn[c].pending, u)
  PROVE  /\ Owned(u, View(c)) = {t \in Teams : TeamRow(t) \notin DOMAIN conn[c].pending /\ db[TeamRow(t)] = u}
         /\ Joined(u, View(c)) =
              {t \in Teams : Member(t, u) \notin DOMAIN conn[c].pending /\ db[Member(t, u)] # None}
<1>1. ASSUME NEW t \in Teams
      PROVE  /\ View(c)[TeamRow(t)] = u <=> TeamRow(t) \notin DOMAIN conn[c].pending /\ db[TeamRow(t)] = u
             /\ View(c)[Member(t, u)] # None <=>
                  Member(t, u) \notin DOMAIN conn[c].pending /\ db[Member(t, u)] # None
  <2>1. TeamRow(t) \in Keys /\ Member(t, u) \in Keys
    BY KeysOfTeams
  <2> QED BY <2>1 DEF View, GivesNothing
<1> QED BY <1>1 DEF Owned, Joined

\* No team more for u in the committed rows.
Shrinks(u) ==
  \A t \in Teams : /\ db'[TeamRow(t)] = u => db[TeamRow(t)] = u
                   /\ db'[Member(t, u)] # None => db[Member(t, u)] # None

LEMMA AppliedShrinks ==
  ASSUME NEW w, NEW u \in Users, u # None, GivesNothing(w, u),
         db' = [k \in Keys |-> IF k \in DOMAIN w THEN w[k] ELSE db[k]]
  PROVE  Shrinks(u)
<1> SUFFICES ASSUME NEW t \in Teams
             PROVE  /\ db'[TeamRow(t)] = u => db[TeamRow(t)] = u
                    /\ db'[Member(t, u)] # None => db[Member(t, u)] # None
  BY DEF Shrinks
<1>1. TeamRow(t) \in Keys /\ Member(t, u) \in Keys
  BY KeysOfTeams
<1> QED BY <1>1 DEF GivesNothing

\* Another connection's step makes r see less on its own.
LEMMA ClearingStays ==
  ASSUME NEW r \in Requests, NEW c \in Conns, Clearing(r, c), conn'[c] = conn[c],
         req'[r].todo = req[r].todo, req'[r].work = req[r].work, req'[r].teams = req[r].teams,
         req[r].work.user \in Users, req[r].work.user # None,
         GivesNothing(conn[c].pending, req[r].work.user), Shrinks(req[r].work.user)
  PROVE  Clearing(r, c)'
<1>1. PICK u \in Users : u = req[r].work.user /\ u # None
  OBVIOUS
<1>2. /\ Owned(u, View(c)) = {t \in Teams : TeamRow(t) \notin DOMAIN conn[c].pending /\ db[TeamRow(t)] = u}
      /\ Joined(u, View(c)) =
           {t \in Teams : Member(t, u) \notin DOMAIN conn[c].pending /\ db[Member(t, u)] # None}
  BY <1>1, Seen
<1>3. ASSUME NEW t \in Teams
      PROVE  /\ View(c)'[TeamRow(t)] = u => TeamRow(t) \notin DOMAIN conn[c].pending /\ db'[TeamRow(t)] = u
             /\ View(c)'[Member(t, u)] # None =>
                  Member(t, u) \notin DOMAIN conn[c].pending /\ db'[Member(t, u)] # None
  <2>1. TeamRow(t) \in Keys /\ Member(t, u) \in Keys
    BY KeysOfTeams
  <2>2. GivesNothing(conn[c].pending, u)
    BY <1>1
  <2> QED BY <2>1, <2>2 DEF View, GivesNothing
<1>4. Owned(u, View(c))' \subseteq Owned(u, View(c)) /\ Joined(u, View(c))' \subseteq Joined(u, View(c))
  BY <1>1, <1>2, <1>3 DEF Owned, Joined, Shrinks
<1> QED BY <1>1, <1>4 DEF Clearing

-----------------------------------------------------------------------------
(* The steps *)

LEMMA DowngradesGives ==
  ASSUME NEW r \in Requests, Downgrades(r), NEW q \in Requests
  PROVE  ~Gives(req[q].work, req[r].work.user)
<1>1. CASE q = r
  BY <1>1 DEF Downgrades, Gives
<1>2. CASE q # r
  BY <1>2 DEF Downgrades, Gives, GivenMeanwhile
<1> QED BY <1>1, <1>2

LEMMA UserIsSome == \A u \in Users : u # None
BY TeamPlansAssumption DEF None

LEMMA DowngradesStays ==
  ASSUME NEW r \in Requests, \A q \in Requests : req'[q].work = req[q].work
  PROVE  Downgrades(r)' <=> Downgrades(r)
BY DEF Downgrades, GivenMeanwhile

\* Any step of request p on connection c.
LEMMA ClearStep ==
  ASSUME ClearInv, NEW p \in Requests, NEW c \in Conns,
         \A d \in Conns \ {c} : conn'[d] = conn[d],
         \A q \in Requests \ {p} : req'[q] = req[q],
         req'[p].work = req[p].work, Belongs(req'[p]), mixed \subseteq mixed',
         \A r \in Requests : Downgrades(r) =>
           Shrinks(req[r].work.user) /\ GivesNothing(conn'[c].pending, req[r].work.user),
         \A r \in Requests \ {p} : r \notin mixed' => conn'[c].holder # r,
         p \notin mixed' => \A d \in Conns \ {c} : conn[d].holder # p,
         p \notin mixed' /\ Downgrades(p) /\ req'[p].verdict = "ok" /\ conn'[c].holder = p => Clearing(p, c)'
  PROVE  ClearInv'
<1>1. \A q \in Requests : req'[q].work = req[q].work
  OBVIOUS
<1>2. \A r \in Requests : Downgrades(r)' <=> Downgrades(r)
  BY <1>1, DowngradesStays
<1>3. \A r \in Requests : Belongs(req'[r]) /\ req'[r].work.user \in Users
  BY <1>1 DEF ClearInv
<1>4. ASSUME NEW r \in Requests, Downgrades(r), NEW d \in Conns
      PROVE  GivesNothing(conn'[d].pending, req'[r].work.user)
  BY <1>1, <1>4 DEF ClearInv
<1>5. ASSUME NEW r \in Requests \ mixed', NEW d \in Conns, Downgrades(r),
             req'[r].verdict = "ok", conn'[d].holder = r
      PROVE  Clearing(r, d)'
  <2>1. CASE r = p
    <3>1. d = c
      BY <1>5, <2>1
    <3> QED BY <1>5, <2>1, <3>1
  <2>2. CASE r # p
    <3>1. d # c /\ conn'[d] = conn[d] /\ req'[r] = req[r] /\ r \notin mixed
      BY <1>5, <2>2
    <3>2. Clearing(r, d) /\ GivesNothing(conn[d].pending, req[r].work.user) /\ req[r].work.user \in Users
      BY <1>5, <3>1 DEF ClearInv
    <3>3. Shrinks(req[r].work.user) /\ req[r].work.user # None
      BY <1>5, <3>2, UserIsSome
    <3> QED BY <3>1, <3>2, <3>3, ClearingStays
  <2> QED BY <2>1, <2>2
<1>6. \A r \in Requests : Downgrades(r)' => \A d \in Conns : GivesNothing(conn[d].pending, req[r].work.user)'
  BY <1>2, <1>4 DEF GivesNothing
<1>7. \A r \in Requests \ mixed' : \A d \in Conns :
        Downgrades(r)' /\ req'[r].verdict = "ok" /\ conn'[d].holder = r => Clearing(r, d)'
  BY <1>2, <1>5
<1>8. \A r \in Requests : Belongs(req[r])' /\ req'[r].work.user \in Users
  BY <1>3 DEF Belongs
<1> QED BY <1>6, <1>7, <1>8 DEF ClearInv

\* A request that meets the transaction of another on its connection mixes it up, and its
\* own if that is elsewhere.
LEMMA MixingTells ==
  ASSUME PlansInv, NEW p \in Requests, NEW c \in Conns, req[p].on = c, mixed' = mixed \union Mixing(p)
  PROVE  /\ mixed \subseteq mixed'
         /\ \A r \in Requests \ {p} : r \notin mixed' => conn[c].holder # r
         /\ p \notin mixed' => \/ conn[c].holder = p
                               \/ conn[c].tx = "none" /\ ~Inside(req[p].todo)
         /\ p \notin mixed' => \A d \in Conns \ {c} : conn[d].holder # p
<1>1. conn[c].tx = "none" <=> conn[c].holder = None
  BY DEF PlansInv, PlansShape, ConnOK
<1>2. \A r \in Requests : r # None
  BY TeamPlansAssumption DEF None
<1>3. InTransaction(p) <=> Inside(req[p].todo)
  BY InsideIsInTransaction DEF PlansInv
<1>4. \A r \in Requests \ {p} : r \notin mixed' => conn[c].holder # r
  BY <1>1, <1>2 DEF Mixing
<1>5. p \notin mixed' => conn[c].holder = p \/ (conn[c].tx = "none" /\ ~Inside(req[p].todo))
  BY <1>3 DEF Mixing
<1>6. ASSUME p \notin mixed', NEW d \in Conns \ {c}, conn[d].holder = p PROVE FALSE
  <2>1. TransactionKept(p)
    BY <1>6 DEF PlansInv
  <2>2. Inside(req[p].todo)
    BY <1>6, <2>1 DEF TransactionKept
  <2>3. conn[c].holder = p
    BY <1>5, <1>6, <2>2
  <2> QED BY <1>6, <2>1, <2>3 DEF TransactionKept
<1> QED BY <1>4, <1>5, <1>6

\* What a statement that goes through changes.
LEMMA SucceedIs ==
  ASSUME PlansInv, NEW p \in Requests, NEW q, q = ReqFields(q), Succeed(p, q),
         NEW c \in Conns, req[p].on = c, NEW w, w = Writes(req[p], Head(req[p].todo), View(c))
  PROVE  /\ \A r \in Requests \ {p} : req'[r] = req[r]
         /\ req'[p].todo = q.todo /\ req'[p].work = q.work /\ req'[p].teams = q.teams /\ req'[p].verdict = q.verdict
         /\ \A d \in Conns \ {c} : conn'[d] = conn[d]
         /\ conn'[c].tx = conn[c].tx /\ conn'[c].holder = conn[c].holder
         /\ conn[c].tx = "open" => conn'[c].pending = Join(w, conn[c].pending) /\ db' = db
         /\ conn[c].tx # "open" =>
              conn' = conn /\ db' = [k \in Keys |-> IF k \in DOMAIN w THEN w[k] ELSE db[k]]
         /\ mixed' = mixed \union Mixing(p)
<1>1. conn = [d \in Conns |-> conn[d]] /\ req = [r \in Requests |-> req[r]] /\ conn[c] = ConnFields(conn[c])
  BY DEF PlansInv, PlansShape, ConnOK
<1>2. PICK y : y = [q EXCEPT !.on = None]
  OBVIOUS
<1>3. y.todo = q.todo /\ y.work = q.work /\ y.teams = q.teams /\ y.verdict = q.verdict
  BY <1>2 DEF ReqFields
<1>4. req' = [req EXCEPT ![p] = y] /\ mixed' = mixed \union Mixing(p)
  BY <1>2 DEF Succeed
<1>5. (\A r \in Requests \ {p} : req'[r] = req[r]) /\ req'[p] = y
  BY <1>1, <1>4
<1>6. CASE conn[c].tx = "open"
  <2>1. PICK parents : parents = Parents(req[p], Head(req[p].todo), View(c))
    OBVIOUS
  <2>2. PICK x : x = Extended(conn[c], p, w, parents)
    OBVIOUS
  <2>3. conn' = [conn EXCEPT ![c] = x] /\ db' = db
    BY <1>6, <2>1, <2>2 DEF Succeed
  <2>4. x.tx = conn[c].tx /\ x.holder = conn[c].holder /\ x.pending = Join(w, conn[c].pending)
    <3>1. PICK pending, refs, by :
            /\ pending = Join(w, conn[c].pending) /\ refs = conn[c].refs \union parents
            /\ by = IF w = Empty THEN conn[c].by ELSE conn[c].by \union {p}
      OBVIOUS
    <3>2. x = [conn[c] EXCEPT !.pending = pending, !.refs = refs, !.by = by]
      BY <1>1, <2>2, <3>1 DEF Extended, ConnFields
    <3>3. x.tx = conn[c].tx /\ x.holder = conn[c].holder /\ x.pending = pending
      BY <1>1, <3>2 DEF ConnFields
    <3> QED BY <3>1, <3>3
  <2>5. conn'[c] = x /\ \A d \in Conns \ {c} : conn'[d] = conn[d]
    BY <1>1, <2>3
  <2> QED BY <1>3, <1>4, <1>5, <1>6, <2>3, <2>4, <2>5
<1>7. CASE conn[c].tx # "open"
  <2>1. conn' = conn /\ db' = [k \in Keys |-> IF k \in DOMAIN w THEN w[k] ELSE db[k]]
    BY <1>7 DEF Succeed
  <2> QED BY <1>3, <1>4, <1>5, <1>7, <2>1
<1> QED BY <1>6, <1>7

\* A statement that goes through, if what its request has still to delete is what it sees.
LEMMA SucceedClears ==
  ASSUME PlansInv, ClearInv, NEW p \in Requests, NEW q, q = ReqFields(q), Succeed(p, q),
         NEW c \in Conns, req[p].on = c, NEW w, w = Writes(req[p], Head(req[p].todo), View(c)),
         req[p].todo # <<>>, Belongs(q), q.work = req[p].work, q.verdict = "ok" => req[p].verdict = "ok",
         NEW u, u = req[p].work.user,
         Downgrades(p) /\ q.verdict = "ok" /\ Clearing(p, c) =>
           /\ "listTeams" \notin Range(q.todo) => \A t \in Owned(u, View(c)) :
                TeamRow(t) \in DOMAIN w \/ ("deleteTeam" \in Range(q.todo) /\ t \in q.teams)
           /\ "deleteMemberships" \notin Range(q.todo) => \A t \in Joined(u, View(c)) : Member(t, u) \in DOMAIN w
  PROVE  ClearInv'
<1>1. /\ \A r \in Requests \ {p} : req'[r] = req[r]
      /\ req'[p].todo = q.todo /\ req'[p].work = q.work /\ req'[p].teams = q.teams /\ req'[p].verdict = q.verdict
      /\ \A d \in Conns \ {c} : conn'[d] = conn[d]
      /\ conn'[c].tx = conn[c].tx /\ conn'[c].holder = conn[c].holder
      /\ conn[c].tx = "open" => conn'[c].pending = Join(w, conn[c].pending) /\ db' = db
      /\ conn[c].tx # "open" =>
           conn' = conn /\ db' = [k \in Keys |-> IF k \in DOMAIN w THEN w[k] ELSE db[k]]
      /\ mixed' = mixed \union Mixing(p)
  BY SucceedIs
<1>2. /\ mixed \subseteq mixed'
      /\ \A r \in Requests \ {p} : r \notin mixed' => conn'[c].holder # r
      /\ p \notin mixed' => \A d \in Conns \ {c} : conn[d].holder # p
  BY <1>1, MixingTells
<1>3. Head(req[p].todo) \in Range(req[p].todo)
  BY TailShaped DEF PlansInv, PlansShape, ReqOK
<1>4. ASSUME NEW r \in Requests, Downgrades(r)
      PROVE  /\ req[r].work.user \in Users /\ req[r].work.user # None
             /\ GivesNothing(w, req[r].work.user) /\ GivesNothing(conn[c].pending, req[r].work.user)
  <2>1. req[r].work.user \in Users /\ req[r].work.user # None /\ Belongs(req[p])
    BY UserIsSome DEF ClearInv
  <2>2. ~Gives(req[p].work, req[r].work.user)
    BY <1>4, DowngradesGives
  <2>3. GivesNothing(w, req[r].work.user)
    BY <1>3, <2>1, <2>2, WritesGiveNothing
  <2> QED BY <1>4, <2>1, <2>3 DEF ClearInv
<1>5. ASSUME NEW r \in Requests, Downgrades(r)
      PROVE  Shrinks(req[r].work.user) /\ GivesNothing(conn'[c].pending, req[r].work.user)
  <2>1. CASE conn[c].tx = "open"
    <3>1. Shrinks(req[r].work.user)
      BY <1>1, <2>1 DEF Shrinks
    <3>2. GivesNothing(Join(w, conn[c].pending), req[r].work.user)
      BY <1>4, <1>5, JoinGivesNothing
    <3> QED BY <1>1, <2>1, <3>1, <3>2
  <2>2. CASE conn[c].tx # "open"
    <3>1. Shrinks(req[r].work.user)
      BY <1>1, <1>4, <1>5, <2>2, AppliedShrinks
    <3> QED BY <1>1, <1>4, <1>5, <2>2, <3>1
  <2> QED BY <2>1, <2>2
<1>6. ASSUME p \notin mixed', Downgrades(p), req'[p].verdict = "ok", conn'[c].holder = p
      PROVE  Clearing(p, c)'
  <2>1. Clearing(p, c) /\ conn[c].tx = "open"
    <3>1. p \in Requests \ mixed /\ req[p].verdict = "ok" /\ conn[c].holder = p
      BY <1>1, <1>2, <1>6
    <3> QED BY <1>6, <3>1 DEF ClearInv, Clearing
  <2>2. /\ "listTeams" \notin Range(q.todo) => \A t \in Owned(u, View(c)) :
             TeamRow(t) \in DOMAIN w \/ ("deleteTeam" \in Range(q.todo) /\ t \in q.teams)
        /\ "deleteMemberships" \notin Range(q.todo) => \A t \in Joined(u, View(c)) : Member(t, u) \in DOMAIN w
    BY <1>1, <1>6, <2>1
  <2>3. u \in Users /\ u # None /\ GivesNothing(w, u) /\ GivesNothing(conn[c].pending, u)
        /\ GivesNothing(conn'[c].pending, u)
    BY <1>4, <1>5, <1>6
  <2>4. /\ Owned(u, View(c)) = {t \in Teams : TeamRow(t) \notin DOMAIN conn[c].pending /\ db[TeamRow(t)] = u}
        /\ Joined(u, View(c)) =
             {t \in Teams : Member(t, u) \notin DOMAIN conn[c].pending /\ db[Member(t, u)] # None}
    BY <2>3, Seen
  <2>5. DOMAIN conn'[c].pending = DOMAIN w \union DOMAIN conn[c].pending /\ db' = db
    BY <1>1, <2>1 DEF Join
  <2>6. ASSUME NEW t \in Teams
        PROVE  /\ View(c)'[TeamRow(t)] = u => t \in Owned(u, View(c)) /\ TeamRow(t) \notin DOMAIN w
               /\ View(c)'[Member(t, u)] # None => t \in Joined(u, View(c)) /\ Member(t, u) \notin DOMAIN w
    <3>1. TeamRow(t) \in Keys /\ Member(t, u) \in Keys
      BY <2>3, KeysOfTeams
    <3>2. /\ View(c)'[TeamRow(t)] = u => TeamRow(t) \notin DOMAIN conn'[c].pending /\ db'[TeamRow(t)] = u
          /\ View(c)'[Member(t, u)] # None => Member(t, u) \notin DOMAIN conn'[c].pending /\ db'[Member(t, u)] # None
      BY <2>3, <3>1 DEF View, GivesNothing
    <3> QED BY <2>4, <2>5, <3>2
  <2>7. /\ Owned(u, View(c))' \subseteq {t \in Owned(u, View(c)) : TeamRow(t) \notin DOMAIN w}
        /\ Joined(u, View(c))' \subseteq {t \in Joined(u, View(c)) : Member(t, u) \notin DOMAIN w}
    BY <2>6 DEF Owned, Joined
  <2>8. /\ "listTeams" \notin Range(q.todo) =>
             Owned(u, View(c))' \subseteq (IF "deleteTeam" \in Range(q.todo) THEN q.teams ELSE {})
        /\ "deleteMemberships" \notin Range(q.todo) => Joined(u, View(c))' = {}
    BY <2>2, <2>7
  <2>9. req'[p].work.user = u
    BY <1>1
  <2> QED BY <1>1, <2>1, <2>8, <2>9 DEF Clearing
<1>7. Belongs(req'[p]) /\ req'[p].work = req[p].work
  BY <1>1 DEF Belongs
<1> QED BY <1>1, <1>2, <1>5, <1>6, <1>7, ClearStep

\* A statement that neither lists nor deletes teams.
LEMMA OtherStatements ==
  ASSUME PlansInv, ClearInv, NEW p \in Requests, NEW q, Succeed(p, q), req[p].on # None,
         req[p].todo # <<>>, Moved(p, q), q.teams = req[p].teams,
         Head(req[p].todo) \notin {"listTeams", "deleteTeam"}
  PROVE  ClearInv'
<1>1. PICK c \in Conns : c = req[p].on
  BY DEF PlansInv, PlansShape, ReqOK
<1>2. PICK w, u : w = Writes(req[p], Head(req[p].todo), View(c)) /\ u = req[p].work.user
  OBVIOUS
<1>3. PICK t : t = req[p].todo
  OBVIOUS
<1>4. /\ t \in Seq(Statements) /\ t # <<>> /\ Shaped(t) /\ q.todo = Tail(t) /\ q.work = req[p].work
      /\ q.verdict = req[p].verdict /\ q = ReqFields(q) /\ Belongs(req[p])
  BY <1>3 DEF Moved, PlansInv, PlansShape, ReqOK, Shaped, ClearInv
<1>5. Range(t) = {Head(t)} \union Range(q.todo)
  BY <1>4, TailAfter
<1>6. Belongs(q)
  <2>1. Ordered(t) => Ordered(q.todo)
    BY <1>4, TailOrdered
  <2> QED BY <1>3, <1>4, <1>5, <2>1, BelongsLess
<1>7. ASSUME Clearing(p, c), "listTeams" \notin Range(q.todo), NEW o \in Owned(u, View(c))
      PROVE  "deleteTeam" \in Range(q.todo) /\ o \in q.teams
  <2>1. "listTeams" \notin Range(t)
    BY <1>3, <1>5, <1>7
  <2>2. Owned(u, View(c)) \subseteq (IF "deleteTeam" \in Range(t) THEN req[p].teams ELSE {})
    BY <1>2, <1>3, <1>7, <2>1 DEF Clearing
  <2> QED BY <1>3, <1>5, <1>7, <2>2
<1>8. ASSUME Clearing(p, c), "deleteMemberships" \notin Range(q.todo), NEW o \in Joined(u, View(c))
      PROVE  Member(o, u) \in DOMAIN w
  <2>1. CASE "deleteMemberships" \notin Range(t)
    BY <1>2, <1>3, <1>8, <2>1 DEF Clearing
  <2>2. CASE "deleteMemberships" \in Range(t)
    <3>1. Head(t) = "deleteMemberships"
      BY <1>5, <1>8, <2>2
    <3>2. w = Change({Member(x, u) : x \in Teams}, None, View(c))
      BY <1>2, <1>3, <3>1 DEF Writes
    <3>3. o \in Teams /\ View(c)[Member(o, u)] # None
      BY <1>8 DEF Joined
    <3> QED BY <3>2, <3>3 DEF Change, Set
  <2> QED BY <2>1, <2>2
<1> QED BY <1>1, <1>2, <1>3, <1>4, <1>6, <1>7, <1>8, SucceedClears

\* The teams listed are those to delete; after the last, none is left.
LEMMA ListTeamsClears == ASSUME PlansInv, ClearInv, NEW p \in Requests, ListTeams(p) PROVE ClearInv'
<1>0. Sent(p, "listTeams")
  BY DEF ListTeams
<1>1. /\ req[p].on # None /\ req[p].on \in Conns /\ req[p].todo # <<>> /\ Head(req[p].todo) = "listTeams"
      /\ PlansShape /\ req[p] = ReqFields(req[p]) /\ Shaped(req[p].todo)
  BY <1>0, SentFacts
<1>2. PICK c, u, t, w, owned :
        /\ c \in Conns /\ c = req[p].on /\ u = req[p].work.user /\ t = req[p].todo
        /\ w = Writes(req[p], Head(req[p].todo), View(c)) /\ owned = Owned(u, View(c))
  BY <1>1
<1>3. t \in Seq(Statements) /\ Tail(t) \in Seq(Statements) /\ Tail(t) # <<>> /\ Head(Tail(t)) = "deleteTeam"
      /\ Shaped(Tail(t)) /\ Belongs(req[p])
  BY <1>1, <1>2, TailShaped DEF Shaped, ClearInv
<1>4. /\ Range(t) = {"listTeams"} \union Range(Tail(t))
      /\ Range(Tail(t)) = {"deleteTeam"} \union Range(Tail(Tail(t)))
      /\ Ordered(t) => Ordered(Tail(t)) /\ Ordered(Tail(Tail(t)))
  <2>1. Range(t) = {"listTeams"} \union Range(Tail(t)) /\ (Ordered(t) => Ordered(Tail(t)))
    BY <1>1, <1>2, <1>3, TailAfter, TailOrdered
  <2>2. PICK v : v = Tail(t)
    OBVIOUS
  <2>3. Range(v) = {"deleteTeam"} \union Range(Tail(v)) /\ (Ordered(v) => Ordered(Tail(v)))
    BY <1>3, <2>2, TailAfter, TailOrdered
  <2> QED BY <2>1, <2>2, <2>3
<1>5. ASSUME Clearing(p, c), NEW S, "deleteMemberships" \notin S,
             Range(t) \ {"listTeams", "deleteTeam"} \subseteq S, NEW o \in Joined(u, View(c))
      PROVE  FALSE
  BY <1>2, <1>5 DEF Clearing
<1>6. CASE owned # {}
  <2>1. PICK q : q = [Goes(p) EXCEPT !.teams = owned]
    OBVIOUS
  <2>2. Succeed(p, q)
    BY <1>2, <1>6, <2>1 DEF ListTeams
  <2>3. Moved(p, q)
    BY <1>1, <2>1, ChangedGoes
  <2>4. q.teams = owned /\ q.todo = Tail(t) /\ q.work = req[p].work /\ q.verdict = req[p].verdict /\ q = ReqFields(q)
    <3>1. PICK g : g = Goes(p)
      OBVIOUS
    <3>2. g = ReqFields(g)
      BY <1>1, <3>1, RequestFields
    <3>3. q.teams = owned
      BY <2>1, <3>1, <3>2 DEF ReqFields
    <3> QED BY <1>2, <2>3, <3>3 DEF Moved
  <2>5. Belongs(q)
    BY <1>2, <1>3, <1>4, <2>4, BelongsLess
  <2>6. "deleteTeam" \in Range(q.todo) /\ Range(t) \ {"listTeams", "deleteTeam"} \subseteq Range(q.todo)
    BY <1>4, <2>4
  <2> QED BY <1>1, <1>2, <1>5, <2>2, <2>4, <2>5, <2>6, SucceedClears
<1>7. CASE owned = {}
  <2>1. PICK s, q : s = Tail(Tail(t)) /\ q = [req[p] EXCEPT !.todo = s]
    OBVIOUS
  <2>2. Succeed(p, q)
    BY <1>2, <1>7, <2>1 DEF ListTeams
  <2>4. q.todo = s /\ q.work = req[p].work /\ q.verdict = req[p].verdict /\ q = ReqFields(q)
    BY <1>1, <2>1 DEF ReqFields
  <2>5. Belongs(q)
    BY <1>2, <1>3, <1>4, <2>1, <2>4, BelongsLess
  <2>6. Range(t) \ {"listTeams", "deleteTeam"} \subseteq Range(q.todo)
    BY <1>4, <2>1, <2>4
  <2> QED BY <1>1, <1>2, <1>5, <1>7, <2>2, <2>4, <2>5, <2>6, SucceedClears
<1> QED BY <1>6, <1>7

\* A DELETE of the loop removes the team it is at from what is left to delete.
LEMMA DeleteTeamClears == ASSUME PlansInv, ClearInv, NEW p \in Requests, DeleteTeam(p) PROVE ClearInv'
<1>0. Sent(p, "deleteTeam")
  BY DEF DeleteTeam
<1>1. /\ req[p].on # None /\ req[p].on \in Conns /\ req[p].todo # <<>> /\ Head(req[p].todo) = "deleteTeam"
      /\ PlansShape /\ req[p] = ReqFields(req[p]) /\ Shaped(req[p].todo)
  BY <1>0, SentFacts
<1>2. PICK c, u, t, w, one, others :
        /\ c \in Conns /\ c = req[p].on /\ u = req[p].work.user /\ t = req[p].todo
        /\ w = Writes(req[p], Head(req[p].todo), View(c))
        /\ one = FirstOf(req[p].teams) /\ others = req[p].teams \ {one}
  BY <1>1
<1>3. t \in Seq(Statements) /\ Belongs(req[p])
  BY <1>2, <1>1 DEF Shaped, ClearInv
<1>4. /\ Range(t) = {"deleteTeam"} \union Range(Tail(t))
      /\ Ordered(t) => Ordered(Tail(t)) /\ Range(Tail(t)) \intersect {"listTeams", "deleteTeam"} = {}
  BY <1>1, <1>2, <1>3, TailAfter, TailOrdered
<1>5. ASSUME Clearing(p, c), NEW S, "deleteMemberships" \notin S,
             Range(t) \ {"deleteTeam"} \subseteq S, NEW o \in Joined(u, View(c))
      PROVE  FALSE
  BY <1>2, <1>5 DEF Clearing
<1>6. ASSUME NEW o \in Owned(u, View(c)), o = one PROVE TeamRow(o) \in DOMAIN w
  <2>1. w = Set(TeamCascade(one, View(c)), None)
    BY <1>1, <1>2 DEF Writes
  <2>2. View(c)[TeamRow(one)] # None
    <3>1. View(c)[TeamRow(one)] = u
      BY <1>6 DEF Owned
    <3> QED BY <1>2, <3>1, UserIsSome DEF ClearInv
  <2>3. TeamRow(one) \in TeamCascade(one, View(c))
    BY <2>2 DEF TeamCascade
  <2> QED BY <1>6, <2>1, <2>3 DEF Set
<1>7. ASSUME Downgrades(p), Clearing(p, c), NEW o \in Owned(u, View(c))
      PROVE  TeamRow(o) \in DOMAIN w \/ o \in others
  <2>1. "listTeams" \notin Range(t)
    <3>1. Ordered(t)
      BY <1>2, <1>3, <1>7 DEF Downgrades, Belongs
    <3> QED BY <1>4, <3>1
  <2>2. Owned(u, View(c)) \subseteq req[p].teams
    BY <1>2, <1>7, <2>1 DEF Clearing
  <2> QED BY <1>2, <1>6, <2>2
<1>8. CASE others = {}
  <2>1. PICK q : q = [Goes(p) EXCEPT !.teams = others]
    OBVIOUS
  <2>2. Succeed(p, q)
    BY <1>2, <1>8, <2>1 DEF DeleteTeam
  <2>3. Moved(p, q)
    BY <1>1, <2>1, ChangedGoes
  <2>4. q.todo = Tail(t) /\ q.work = req[p].work /\ q.verdict = req[p].verdict /\ q = ReqFields(q)
    BY <1>2, <2>3 DEF Moved
  <2>5. Belongs(q)
    BY <1>2, <1>3, <1>4, <2>4, BelongsLess
  <2>6. Range(t) \ {"deleteTeam"} \subseteq Range(q.todo)
    BY <1>4, <2>4
  <2> QED BY <1>1, <1>2, <1>5, <1>7, <1>8, <2>2, <2>4, <2>5, <2>6, SucceedClears
<1>9. CASE others # {}
  <2>1. PICK q : q = [req[p] EXCEPT !.teams = others]
    OBVIOUS
  <2>2. Succeed(p, q)
    BY <1>2, <1>9, <2>1 DEF DeleteTeam
  <2>4. q.teams = others /\ q.todo = t /\ q.work = req[p].work /\ q.verdict = req[p].verdict /\ q = ReqFields(q)
    BY <1>1, <1>2, <2>1 DEF ReqFields
  <2>5. Belongs(q)
    BY <1>2, <1>3, <2>4, BelongsLess
  <2>6. "deleteTeam" \in Range(q.todo) /\ Range(t) \ {"deleteTeam"} \subseteq Range(q.todo)
    BY <1>4, <2>4
  <2> QED BY <1>1, <1>2, <1>5, <1>7, <2>2, <2>4, <2>5, <2>6, SucceedClears
<1> QED BY <1>8, <1>9

\* A statement after which the request fails.
LEMMA FailureClears ==
  ASSUME PlansInv, ClearInv, NEW p \in Requests, NEW q, q = ReqFields(q), Succeed(p, q),
         req[p].on # None, req[p].todo # <<>>, q.todo \in {<<>>, <<"ROLLBACK">>},
         q.work = req[p].work, q.verdict # "ok"
  PROVE  ClearInv'
<1>1. PICK c, w, u :
        c \in Conns /\ c = req[p].on /\ w = Writes(req[p], Head(req[p].todo), View(c)) /\ u = req[p].work.user
  BY DEF PlansInv, PlansShape, ReqOK
<1>2. Range(q.todo) \subseteq {"ROLLBACK"} /\ Ordered(q.todo)
  BY EmptyShaped, RollbackShaped, EmptyOrdered
<1>3. Belongs(q)
  BY <1>2, BelongsLess DEF ClearInv
<1> QED BY <1>1, <1>3, SucceedClears

\* The request goes on to the next statement.
LEMMA GoesClears ==
  ASSUME PlansInv, ClearInv, NEW p \in Requests, NEW s, Sent(p, s), s \notin {"listTeams", "deleteTeam"},
         NEW x, NEW q, q \in {Goes(p), [Goes(p) EXCEPT !.team = x]}, Succeed(p, q)
  PROVE  ClearInv'
<1>1. req[p].on # None /\ req[p].todo # <<>> /\ Head(req[p].todo) = s /\ PlansShape /\ req[p] = ReqFields(req[p])
  BY SentFacts
<1>2. PICK g : g = Goes(p)
  OBVIOUS
<1>3. g = ReqFields(g) /\ Moved(p, g) /\ g.teams = req[p].teams
  <2>1. g = ReqFields(g) /\ Moved(p, g)
    BY <1>1, <1>2, RequestFields DEF Moved
  <2>2. PICK t : t = Tail(req[p].todo)
    OBVIOUS
  <2>3. g = [req[p] EXCEPT !.todo = t]
    BY <1>2, <2>2 DEF Goes
  <2> QED BY <1>1, <2>1, <2>3 DEF ReqFields
<1>4. CASE q = g
  BY <1>1, <1>3, <1>4, OtherStatements
<1>5. CASE q = [g EXCEPT !.team = x]
  <2>1. Moved(p, q)
    BY <1>1, <1>2, <1>5, ChangedGoes
  <2>2. q.teams = g.teams
    BY <1>3, <1>5 DEF ReqFields
  <2> QED BY <1>1, <1>3, <2>1, <2>2, OtherStatements
<1> QED BY <1>2, <1>4, <1>5

\* A refusal.
LEMMA RefusesClears ==
  ASSUME PlansInv, ClearInv, NEW p \in Requests, NEW s, Sent(p, s), Succeed(p, Refuses(p))
  PROVE  ClearInv'
<1>1. req[p].on # None /\ req[p].todo # <<>> /\ PlansShape /\ req[p] = ReqFields(req[p])
  BY SentFacts
<1>2. PICK q : q = Refuses(p)
  OBVIOUS
<1>3. q = ReqFields(q) /\ q.todo = <<>> /\ q.verdict = "refused" /\ q.work = req[p].work
  BY <1>1, <1>2 DEF Refuses, ReqFields
<1> QED BY <1>1, <1>2, <1>3, FailureClears

LEMMA StatementsClear ==
  ASSUME PlansInv, ClearInv, NEW p \in Requests,
         Write(p) \/ ReadPlan(p) \/ FindInvite(p) \/ FindTarget(p) \/ ReadBack(p) \/ InsertTeam(p)
  PROVE  ClearInv'
<1>1. CASE Write(p)
  <2>1. PICK s \in Writing : Sent(p, s)
    BY <1>1 DEF Write
  <2>2. s \notin {"listTeams", "deleteTeam"}
    BY DEF Writing
  <2> QED BY <1>1, <2>1, <2>2, GoesClears DEF Write
<1>2. CASE ReadPlan(p)
  <2>1. Sent(p, "readPlan")
    BY <1>2 DEF ReadPlan
  <2>2. CASE Succeed(p, Refuses(p))
    BY <2>1, <2>2, RefusesClears
  <2>3. CASE Succeed(p, Goes(p))
    BY <2>1, <2>3, GoesClears
  <2>4. ASSUME NEW t, Succeed(p, [Goes(p) EXCEPT !.team = t]) PROVE ClearInv'
    BY <2>1, <2>4, GoesClears
  <2> QED BY <1>2, <2>2, <2>3, <2>4 DEF ReadPlan
<1>3. CASE FindInvite(p) \/ FindTarget(p) \/ ReadBack(p)
  <2>1. PICK s \in {"findInvite", "findTarget", "readBack"} :
          Sent(p, s) /\ (Succeed(p, Goes(p)) \/ Succeed(p, Refuses(p)))
    BY <1>3 DEF FindInvite, FindTarget, ReadBack
  <2> QED BY <2>1, GoesClears, RefusesClears
<1>4. CASE InsertTeam(p)
  BY <1>4, GoesClears DEF InsertTeam
<1> QED BY <1>1, <1>2, <1>3, <1>4

LEMMA FindUserClears == ASSUME PlansInv, ClearInv, NEW p \in Requests, FindUser(p) PROVE ClearInv'
<1>1. Sent(p, "findUser")
  BY DEF FindUser
<1>2. CASE Succeed(p, Goes(p))
  BY <1>1, <1>2, GoesClears
<1>3. PICK t, q : t = <<"ROLLBACK">> /\ q = [req[p] EXCEPT !.todo = t, !.verdict = "refused"]
  OBVIOUS
<1>4. CASE Succeed(p, q)
  <2>1. req[p].on # None /\ req[p].todo # <<>> /\ req[p] = ReqFields(req[p])
    BY <1>1, SentFacts
  <2>2. q = ReqFields(q) /\ q.todo = t /\ q.verdict = "refused" /\ q.work = req[p].work
    BY <1>3, <2>1 DEF ReqFields
  <2> QED BY <1>3, <1>4, <2>1, <2>2, FailureClears
<1> QED BY <1>2, <1>3, <1>4 DEF FindUser

\* BEGIN comes before what the request deletes: nothing is promised yet.
LEMMA BeginClears == ASSUME PlansInv, ClearInv, NEW p \in Requests, Begin(p) PROVE ClearInv'
<1>0. Sent(p, "BEGIN")
  BY DEF Begin
<1>1. /\ req[p].on # None /\ req[p].on \in Conns /\ req[p].todo # <<>> /\ Head(req[p].todo) = "BEGIN"
      /\ PlansShape /\ req[p] = ReqFields(req[p]) /\ Shaped(req[p].todo)
  BY <1>0, SentFacts
<1>2. PICK c, t : c \in Conns /\ c = req[p].on /\ t = req[p].todo
  BY <1>1
<1>3. PICK g, q : g = Goes(p) /\ q = [g EXCEPT !.on = None]
  OBVIOUS
<1>4. q.todo = Tail(t) /\ q.work = req[p].work /\ q.verdict = req[p].verdict
  <2>1. g = ReqFields(g) /\ g.todo = Tail(t) /\ g.verdict = req[p].verdict /\ g.work = req[p].work
    BY <1>1, <1>2, <1>3, RequestFields
  <2> QED BY <1>3, <2>1, LeavesOK
<1>5. (\A r \in Requests \ {p} : req'[r] = req[r]) /\ req'[p] = q
  <2>1. req' = [req EXCEPT ![p] = q]
    BY <1>3 DEF Begin
  <2> QED BY <1>1, <2>1 DEF PlansShape
<1>6. PICK y : y = [conn[c] EXCEPT !.tx = "open", !.holder = p]
  OBVIOUS
<1>7. y.tx = "open" /\ y.holder = p /\ y.pending = conn[c].pending
  <2>1. conn[c] = ConnFields(conn[c])
    BY <1>1, <1>2 DEF PlansShape, ConnOK
  <2> QED BY <1>6, <2>1 DEF ConnFields
<1>8. /\ conn[c].tx = "open" => conn' = conn
      /\ conn[c].tx # "open" => conn' = [conn EXCEPT ![c] = y]
      /\ mixed' = mixed \union (IF conn[c].tx = "open" THEN {p, conn[c].holder} ELSE {})
      /\ db' = db
  <2>1. CASE conn[c].tx = "open"
    BY <1>2, <2>1 DEF Begin
  <2>2. CASE conn[c].tx # "open"
    <3>1. conn' = [conn EXCEPT ![c].tx = "open", ![c].holder = p]
      BY <1>2, <2>2 DEF Begin
    <3>2. DOMAIN conn = Conns
      BY <1>1 DEF PlansShape
    <3> QED BY <1>2, <1>6, <2>2, <3>1, <3>2 DEF Begin
  <2> QED BY <2>1, <2>2
<1>9. /\ \A d \in Conns \ {c} : conn'[d] = conn[d]
      /\ conn'[c].pending = conn[c].pending
      /\ conn[c].tx = "open" => conn'[c].holder = conn[c].holder
      /\ conn[c].tx # "open" => conn'[c].holder = p /\ conn'[c].tx = "open"
  BY <1>1, <1>2, <1>7, <1>8 DEF PlansShape
<1>10. t \in Seq(Statements) /\ t # <<>> /\ Belongs(req[p]) /\ Head(t) = "BEGIN" /\ "BEGIN" \in Range(t)
  BY <1>1, <1>2, TailShaped DEF Shaped, ClearInv
<1>11. Range(t) = {"BEGIN"} \union Range(Tail(t)) /\ (Ordered(t) => Ordered(Tail(t)))
  BY <1>10, TailAfter, TailOrdered
<1>12. Belongs(q)
  BY <1>2, <1>4, <1>10, <1>11, BelongsLess
<1>13. \A r \in Requests : Downgrades(r) =>
         Shrinks(req[r].work.user) /\ GivesNothing(conn'[c].pending, req[r].work.user)
  BY <1>2, <1>8, <1>9 DEF Shrinks, ClearInv
<1>14. \A r \in Requests \ {p} : r \notin mixed' => conn'[c].holder # r
  BY <1>8, <1>9
<1>15. p \notin mixed' => \A d \in Conns : conn[d].holder # p
  <2> SUFFICES ASSUME p \notin mixed', NEW d \in Conns, conn[d].holder = p PROVE FALSE
    OBVIOUS
  <2>1. TransactionKept(p)
    BY <1>8 DEF PlansInv
  <2> QED BY <1>2, <1>10, <2>1 DEF TransactionKept, Inside
<1>16. ASSUME p \notin mixed', Downgrades(p), conn'[c].holder = p PROVE Clearing(p, c)'
  <2>1. conn[c].tx # "open"
    BY <1>8, <1>16
  <2>2. {"listTeams", "deleteMemberships"} \subseteq Range(q.todo)
    <3>1. Ordered(t)
      BY <1>2, <1>10, <1>16 DEF Downgrades, Belongs
    <3> QED BY <1>4, <1>10, <3>1, TailOrdered
  <2> QED BY <1>5, <1>9, <2>1, <2>2 DEF Clearing
<1>17. Belongs(req'[p]) /\ req'[p].work = req[p].work /\ mixed \subseteq mixed'
  BY <1>4, <1>5, <1>8, <1>12 DEF Belongs
<1> QED BY <1>2, <1>5, <1>9, <1>13, <1>14, <1>15, <1>16, <1>17, ClearStep

LEMMA EmptyGivesNothing == ASSUME NEW u PROVE GivesNothing(Closed.pending, u)
BY DEF GivesNothing, Closed, Empty

\* COMMIT writes what the connection saw.
LEMMA CommitWrites ==
  ASSUME NEW p \in Requests, Commit(p), NEW c \in Conns, req[p].on = c, conn[c].tx = "open"
  PROVE  db' = View(c)
BY DEF Commit, View

\* COMMIT publishes what the connection saw, ROLLBACK nothing.
LEMMA EndClears == ASSUME PlansInv, ClearInv, NEW p \in Requests, Commit(p) \/ Rollback(p) PROVE ClearInv'
<1>1. PICK s \in Closing : /\ Sent(p, s)
                           /\ s = "COMMIT" => Commit(p)
                           /\ s = "ROLLBACK" => Rollback(p)
  <2>1. CASE Commit(p)
    <3>1. Sent(p, "COMMIT") /\ "COMMIT" \in Closing
      BY <2>1 DEF Commit, Closing
    <3> QED BY <2>1, <3>1
  <2>2. CASE Rollback(p)
    <3>1. Sent(p, "ROLLBACK") /\ "ROLLBACK" \in Closing
      BY <2>2 DEF Rollback, Closing
    <3> QED BY <2>2, <3>1
  <2> QED BY <2>1, <2>2
<1>2. /\ req[p].on \in Conns /\ req[p].todo # <<>>
      /\ PlansShape /\ Shaped(req[p].todo)
  BY <1>1, SentFacts
<1>3. PICK c, t : c \in Conns /\ c = req[p].on /\ t = req[p].todo
  BY <1>2
<1>4. PICK g, q : g = Goes(p) /\ q = [g EXCEPT !.on = None]
  OBVIOUS
<1>5. q.todo = Tail(t) /\ q.work = req[p].work
  <2>1. g = ReqFields(g) /\ g.todo = Tail(t) /\ g.work = req[p].work
    BY <1>2, <1>3, <1>4, RequestFields
  <2> QED BY <1>4, <2>1, LeavesOK
<1>6. /\ conn' = [conn EXCEPT ![c] = Closed] /\ req' = [req EXCEPT ![p] = q]
      /\ mixed' = mixed \union Mixing(p)
      /\ \/ db' = db
         \/ db' = [k \in Keys |-> IF conn[c].tx = "open" /\ k \in DOMAIN conn[c].pending
                                  THEN conn[c].pending[k] ELSE db[k]]
  <2>1. CASE s = "COMMIT"
    BY <1>1, <1>3, <1>4, <2>1 DEF Commit
  <2>2. CASE s = "ROLLBACK"
    BY <1>1, <1>3, <1>4, <2>2 DEF Rollback
  <2> QED BY <2>1, <2>2 DEF Closing
<1>7. /\ conn'[c] = Closed /\ \A d \in Conns \ {c} : conn'[d] = conn[d]
      /\ req'[p] = q /\ \A r \in Requests \ {p} : req'[r] = req[r]
  BY <1>2, <1>3, <1>6 DEF PlansShape
<1>8. Belongs(q)
  <2>1. t \in Seq(Statements) /\ t # <<>> /\ Belongs(req[p])
    BY <1>2, <1>3 DEF Shaped, ClearInv
  <2>2. Range(t) = {t[1]} \union Range(Tail(t)) /\ (Ordered(t) => Ordered(Tail(t)))
    BY <2>1, TailAfter, TailOrdered
  <2> QED BY <1>3, <1>5, <2>1, <2>2, BelongsLess
<1>9. ASSUME NEW r \in Requests, Downgrades(r)
      PROVE  Shrinks(req[r].work.user) /\ GivesNothing(conn'[c].pending, req[r].work.user)
  <2>1. /\ req[r].work.user \in Users /\ req[r].work.user # None
        /\ GivesNothing(conn[c].pending, req[r].work.user)
    BY <1>3, <1>9, UserIsSome DEF ClearInv
  <2>2. CASE db' = db
    BY <1>7, <2>2, EmptyGivesNothing DEF Shrinks
  <2>3. CASE db' = [k \in Keys |-> IF conn[c].tx = "open" /\ k \in DOMAIN conn[c].pending
                                   THEN conn[c].pending[k] ELSE db[k]]
    <3>1. ASSUME NEW m \in Teams
          PROVE  /\ db'[TeamRow(m)] = req[r].work.user => db[TeamRow(m)] = req[r].work.user
                 /\ db'[Member(m, req[r].work.user)] # None => db[Member(m, req[r].work.user)] # None
      <4>1. TeamRow(m) \in Keys /\ Member(m, req[r].work.user) \in Keys
        BY <2>1, KeysOfTeams
      <4> QED BY <2>1, <2>3, <4>1 DEF GivesNothing
    <3> QED BY <1>7, <3>1, EmptyGivesNothing DEF Shrinks
  <2> QED BY <1>6, <2>2, <2>3
<1>10. \A r \in Requests : conn'[c].holder # r
  BY <1>7, ClosedOK, TeamPlansAssumption DEF None
<1>11. /\ mixed \subseteq mixed'
       /\ p \notin mixed' => \A d \in Conns \ {c} : conn[d].holder # p
  BY <1>3, <1>6, MixingTells
<1>12. Belongs(req'[p]) /\ req'[p].work = req[p].work
  BY <1>5, <1>7, <1>8 DEF Belongs
<1> QED BY <1>3, <1>7, <1>9, <1>10, <1>11, <1>12, ClearStep

\* A request that failed promises nothing any more.
LEMMA RejectClears == ASSUME PlansInv, ClearInv, NEW p \in Requests, Reject(p) PROVE ClearInv'
<1>1. req[p].on # None /\ req[p].todo # <<>> /\ db' = db
  BY DEF Reject
<1>2. PICK c \in Conns : c = req[p].on
  BY <1>1 DEF PlansInv, PlansShape, ReqOK
<1>3. PlansShape /\ ReqOK(req[p]) /\ ConnOK(conn[c]) /\ req[p] = ReqFields(req[p]) /\ Belongs(req[p])
  BY DEF PlansInv, PlansShape, ReqOK, ClearInv
<1>4. PICK t, q : /\ t = IF InTry(p) THEN <<"ROLLBACK">> ELSE <<>>
                  /\ q = [req[p] EXCEPT !.on = None, !.verdict = "error", !.todo = t]
  OBVIOUS
<1>5. q.verdict = "error" /\ q.todo = t /\ q.work = req[p].work
  BY <1>3, <1>4 DEF ReqFields
<1>6. PICK y : y = [Closed EXCEPT !.tx = "aborted", !.holder = conn[c].holder]
  OBVIOUS
<1>7. y.holder = conn[c].holder /\ y.pending = Closed.pending
  BY <1>6 DEF Closed
<1>8. /\ req' = [req EXCEPT ![p] = q] /\ mixed' = mixed \union Mixing(p)
      /\ conn' = [conn EXCEPT ![c] = y] \/ conn' = conn
  BY <1>2, <1>4, <1>6 DEF Reject
<1>9. /\ req'[p] = q /\ \A r \in Requests \ {p} : req'[r] = req[r]
      /\ \A d \in Conns \ {c} : conn'[d] = conn[d]
      /\ conn'[c] \in {y, conn[c]}
  BY <1>3, <1>8 DEF PlansShape
<1>10. conn'[c].holder = conn[c].holder /\ conn'[c].pending \in {Closed.pending, conn[c].pending}
  BY <1>7, <1>9
<1>11. Belongs(q)
  <2>1. Range(t) \subseteq {"ROLLBACK"} /\ Ordered(t)
    BY <1>4, EmptyShaped, RollbackShaped, EmptyOrdered
  <2> QED BY <1>3, <1>5, <2>1, BelongsLess
<1>12. \A r \in Requests : Downgrades(r) =>
         Shrinks(req[r].work.user) /\ GivesNothing(conn'[c].pending, req[r].work.user)
  BY <1>1, <1>10, EmptyGivesNothing DEF Shrinks, ClearInv
<1>13. /\ mixed \subseteq mixed'
       /\ \A r \in Requests \ {p} : r \notin mixed' => conn[c].holder # r
       /\ p \notin mixed' => \A d \in Conns \ {c} : conn[d].holder # p
  BY <1>2, <1>8, MixingTells
<1>14. Belongs(req'[p]) /\ req'[p].work = req[p].work /\ req'[p].verdict # "ok"
  BY <1>5, <1>9, <1>11 DEF Belongs
<1> QED BY <1>9, <1>10, <1>12, <1>13, <1>14, ClearStep

\* The committed rows and what the requests have to do stay as they are; a connection may
\* be ended.
LEMMA SameClears ==
  ASSUME ClearInv, db' = db, mixed' = mixed,
         \A r \in Requests : /\ req'[r].todo = req[r].todo /\ req'[r].work = req[r].work
                             /\ req'[r].teams = req[r].teams /\ req'[r].verdict = req[r].verdict,
         \A d \in Conns : conn'[d] = conn[d] \/ (conn'[d].holder = None /\ conn'[d].pending = Closed.pending)
  PROVE  ClearInv'
<1>1. \A r \in Requests : Downgrades(r)' <=> Downgrades(r)
  BY DowngradesStays
<1>2. \A r \in Requests : Belongs(req'[r]) /\ req'[r].work.user \in Users
  BY DEF ClearInv, Belongs
<1>3. ASSUME NEW r \in Requests, Downgrades(r), NEW d \in Conns
      PROVE  GivesNothing(conn'[d].pending, req'[r].work.user)
  <2>1. GivesNothing(conn[d].pending, req[r].work.user) /\ req'[r].work.user = req[r].work.user
    BY <1>3 DEF ClearInv
  <2>2. conn'[d].pending \in {conn[d].pending, Closed.pending}
    OBVIOUS
  <2> QED BY <2>1, <2>2, EmptyGivesNothing
<1>4. ASSUME NEW r \in Requests \ mixed', NEW d \in Conns, Downgrades(r),
             req'[r].verdict = "ok", conn'[d].holder = r
      PROVE  Clearing(r, d)'
  <2>1. r # None /\ req[r].work.user \in Users /\ req[r].work.user # None
    BY TeamPlansAssumption, UserIsSome DEF None, ClearInv
  <2>2. conn'[d] = conn[d]
    BY <1>4, <2>1
  <2>3. Clearing(r, d) /\ GivesNothing(conn[d].pending, req[r].work.user)
    BY <1>4, <2>2 DEF ClearInv
  <2>4. Shrinks(req[r].work.user)
    BY DEF Shrinks
  <2> QED BY <2>1, <2>2, <2>3, <2>4, ClearingStays
<1>5. \A r \in Requests : Downgrades(r)' => \A d \in Conns : GivesNothing(conn[d].pending, req[r].work.user)'
  BY <1>1, <1>3 DEF GivesNothing
<1>6. \A r \in Requests \ mixed' : \A d \in Conns :
        Downgrades(r)' /\ req'[r].verdict = "ok" /\ conn'[d].holder = r => Clearing(r, d)'
  BY <1>1, <1>4
<1>7. \A r \in Requests : Belongs(req[r])' /\ req'[r].work.user \in Users
  BY <1>2 DEF Belongs
<1> QED BY <1>5, <1>6, <1>7 DEF ClearInv

\* A connection is lent: nothing else changes.
LEMMA AcquireIs ==
  ASSUME PlansInv, NEW p \in Requests, Acquire(p)
  PROVE  /\ \A r \in Requests : /\ req'[r].todo = req[r].todo /\ req'[r].work = req[r].work
                                /\ req'[r].teams = req[r].teams /\ req'[r].verdict = req[r].verdict
         /\ conn' = conn /\ db' = db /\ mixed' = mixed
<1>1. req[p] = ReqFields(req[p]) /\ req = [r \in Requests |-> req[r]]
  BY DEF PlansInv, PlansShape, ReqOK
<1>2. PICK c, q : q = [req[p] EXCEPT !.on = c] /\ req' = [req EXCEPT ![p] = q]
  <2>1. PICK c : req' = [req EXCEPT ![p].on = c]
    BY DEF Acquire
  <2>2. PICK q : q = [req[p] EXCEPT !.on = c]
    OBVIOUS
  <2> QED BY <1>1, <2>1, <2>2
<1>3. q.todo = req[p].todo /\ q.work = req[p].work /\ q.teams = req[p].teams /\ q.verdict = req[p].verdict
  BY <1>1, <1>2 DEF ReqFields
<1>4. req'[p] = q /\ \A r \in Requests \ {p} : req'[r] = req[r]
  BY <1>1, <1>2
<1> QED BY <1>3, <1>4 DEF Acquire

LEMMA AcquireClears == ASSUME PlansInv, ClearInv, NEW p \in Requests, Acquire(p) PROVE ClearInv'
BY AcquireIs, SameClears

\* A connection is ended: nobody holds it any more.
LEMMA IdleTimeoutClears == ASSUME PlansInv, ClearInv, NEW c \in Conns, IdleTimeout(c) PROVE ClearInv'
<1>1. conn' = [conn EXCEPT ![c] = Closed] /\ db' = db /\ req' = req /\ mixed' = mixed
  BY DEF IdleTimeout
<1>2. conn'[c] = Closed /\ \A d \in Conns \ {c} : conn'[d] = conn[d]
  BY <1>1 DEF PlansInv, PlansShape
<1>3. \A d \in Conns : conn'[d] = conn[d] \/ (conn'[d].holder = None /\ conn'[d].pending = Closed.pending)
  BY <1>2, ClosedOK
<1> QED BY <1>1, <1>3, SameClears

LEMMA ClearStart == PlansInit => ClearInv
<1> SUFFICES ASSUME PlansInit PROVE ClearInv
  OBVIOUS
<1>1. PICK w \in Scenarios :
        req = [r \in Requests |->
                 [work |-> w.work[r], todo |-> Program(w.work[r]), on |-> None,
                  teams |-> {}, team |-> w.work[r].team, verdict |-> "ok"]]
  BY DEF PlansInit
<1>2. \A c \in Conns : conn[c].holder = None /\ conn[c].pending = Closed.pending
  BY ClosedOK DEF PlansInit
<1>3. \A r \in Requests : /\ req[r].work = w.work[r] /\ req[r].todo = Program(req[r].work)
                          /\ req[r].work.kind \in {"select", "accept", "transfer", "delete", "scan"}
                          /\ req[r].work.user \in Users
  BY <1>1, TeamPlansAssumption
<1>4. \A r \in Requests : Belongs(req[r])
  BY <1>3, ProgramBelongs
<1>5. \A r \in Requests : r # None
  BY TeamPlansAssumption DEF None
<1> QED BY <1>2, <1>3, <1>4, <1>5, EmptyGivesNothing DEF ClearInv

LEMMA ClearNext == PlansInv /\ ClearInv /\ [PlansNext]_plansVars => ClearInv'
<1> SUFFICES ASSUME PlansInv, ClearInv, [PlansNext]_plansVars PROVE ClearInv'
  OBVIOUS
<1>1. ASSUME NEW p \in Requests, Acquire(p) PROVE ClearInv'
  BY <1>1, AcquireClears
<1>2. ASSUME NEW p \in Requests, Execute(p) PROVE ClearInv'
  BY <1>2, StatementsClear, ListTeamsClears, DeleteTeamClears, FindUserClears, BeginClears, EndClears,
     RejectClears DEF Execute
<1>3. ASSUME NEW c \in Conns, IdleTimeout(c) PROVE ClearInv'
  BY <1>3, IdleTimeoutClears
<1>4. CASE UNCHANGED plansVars
  BY <1>4, SameClears DEF plansVars
<1> QED BY <1>1, <1>2, <1>3, <1>4 DEF PlansNext

-----------------------------------------------------------------------------
(* The end of a request *)

\* A step of request p's, which ends a request of selectPlan with "ok" only by COMMIT.
EndsByCommit(p) ==
  /\ \A r \in Requests \ {p} : req'[r] = req[r]
  /\ req'[p].work = req[p].work
  /\ Ordered(req[p].todo) /\ req'[p].todo = <<>> /\ req'[p].verdict = "ok" => Commit(p)

\* A statement that leaves others to come, or fails, does not end its request.
LEMMA SucceedGoesOn ==
  ASSUME PlansInv, NEW p \in Requests, NEW q, q = ReqFields(q), Succeed(p, q), req[p].on # None,
         q.work = req[p].work, Ordered(req[p].todo) => q.todo # <<>> \/ q.verdict # "ok"
  PROVE  EndsByCommit(p)
<1>1. PICK c, w : c \in Conns /\ c = req[p].on /\ w = Writes(req[p], Head(req[p].todo), View(c))
  BY DEF PlansInv, PlansShape, ReqOK
<1>2. /\ \A r \in Requests \ {p} : req'[r] = req[r]
      /\ req'[p].todo = q.todo /\ req'[p].work = q.work /\ req'[p].verdict = q.verdict
  BY <1>1, SucceedIs
<1> QED BY <1>2 DEF EndsByCommit

LEMMA MovedGoesOn ==
  ASSUME PlansInv, NEW p \in Requests, NEW s, Sent(p, s), s \notin Closing, NEW q, Moved(p, q), Succeed(p, q)
  PROVE  EndsByCommit(p)
<1>1. req[p].on # None /\ req[p].todo # <<>> /\ Head(req[p].todo) = s /\ req[p].todo \in Seq(Statements)
  BY SentFacts DEF Shaped
<1>2. PICK t : t = req[p].todo
  OBVIOUS
<1>3. Ordered(t) => Tail(t) # <<>>
  BY <1>1, <1>2, TailOrdered
<1> QED BY <1>1, <1>2, <1>3, SucceedGoesOn DEF Moved

LEMMA GoesGoesOn ==
  ASSUME PlansInv, NEW p \in Requests, NEW s, Sent(p, s), s \notin Closing, NEW x,
         NEW q, q \in {Goes(p), [Goes(p) EXCEPT !.team = x], [Goes(p) EXCEPT !.teams = x]}, Succeed(p, q)
  PROVE  EndsByCommit(p)
<1>1. req[p].todo # <<>> /\ PlansShape
  BY SentFacts
<1>2. Moved(p, q)
  <2>1. CASE q = Goes(p)
    BY <1>1, <2>1, RequestFields DEF Moved
  <2>2. CASE q # Goes(p)
    BY <1>1, <2>2, ChangedGoes
  <2> QED BY <2>1, <2>2
<1> QED BY <1>2, MovedGoesOn

LEMMA RefusesEnds ==
  ASSUME PlansInv, NEW p \in Requests, NEW s, Sent(p, s), Succeed(p, Refuses(p))
  PROVE  EndsByCommit(p)
<1>1. req[p].on # None /\ req[p].todo # <<>> /\ req[p] = ReqFields(req[p])
  BY SentFacts
<1>2. PICK q : q = Refuses(p)
  OBVIOUS
<1>3. q = ReqFields(q) /\ q.verdict = "refused" /\ q.work = req[p].work
  BY <1>1, <1>2 DEF Refuses, ReqFields
<1> QED BY <1>1, <1>2, <1>3, SucceedGoesOn

LEMMA PlainGoesOn ==
  ASSUME PlansInv, NEW p \in Requests,
         Write(p) \/ ReadPlan(p) \/ FindInvite(p) \/ FindTarget(p) \/ ReadBack(p) \/ InsertTeam(p)
  PROVE  EndsByCommit(p)
<1>1. CASE Write(p)
  <2>1. PICK s \in Writing : Sent(p, s)
    BY <1>1 DEF Write
  <2>2. s \notin Closing
    BY DEF Writing, Closing
  <2> QED BY <1>1, <2>1, <2>2, GoesGoesOn DEF Write
<1>2. CASE ReadPlan(p)
  <2>1. Sent(p, "readPlan") /\ "readPlan" \notin Closing
    BY <1>2 DEF ReadPlan, Closing
  <2>2. CASE Succeed(p, Refuses(p))
    BY <2>1, <2>2, RefusesEnds
  <2>3. CASE Succeed(p, Goes(p))
    BY <2>1, <2>3, GoesGoesOn
  <2>4. ASSUME NEW t, Succeed(p, [Goes(p) EXCEPT !.team = t]) PROVE EndsByCommit(p)
    BY <2>1, <2>4, GoesGoesOn
  <2> QED BY <1>2, <2>2, <2>3, <2>4 DEF ReadPlan
<1>3. CASE FindInvite(p) \/ FindTarget(p) \/ ReadBack(p)
  <2>1. PICK s \in {"findInvite", "findTarget", "readBack"} :
          Sent(p, s) /\ (Succeed(p, Goes(p)) \/ Succeed(p, Refuses(p)))
    BY <1>3 DEF FindInvite, FindTarget, ReadBack
  <2>2. s \notin Closing
    BY DEF Closing
  <2> QED BY <2>1, <2>2, GoesGoesOn, RefusesEnds
<1>4. CASE InsertTeam(p)
  <2>1. "insertTeam" \notin Closing
    BY DEF Closing
  <2> QED BY <1>4, <2>1, GoesGoesOn DEF InsertTeam
<1> QED BY <1>1, <1>2, <1>3, <1>4

LEMMA TeamsGoOn ==
  ASSUME PlansInv, NEW p \in Requests, ListTeams(p) \/ DeleteTeam(p)
  PROVE  EndsByCommit(p)
<1>1. PICK s \in {"listTeams", "deleteTeam"} : Sent(p, s)
  BY DEF ListTeams, DeleteTeam
<1>2. /\ req[p].on # None /\ req[p].todo # <<>> /\ Head(req[p].todo) = s
      /\ req[p] = ReqFields(req[p]) /\ Shaped(req[p].todo)
  BY <1>1, SentFacts
<1>3. {"listTeams", "deleteTeam"} \intersect Closing = {}
  BY DEF Closing
<1>4. PICK t : t = req[p].todo
  OBVIOUS
<1>5. CASE ListTeams(p)
  <2>1. PICK owned : owned = Owned(req[p].work.user, View(req[p].on))
    OBVIOUS
  <2>2. CASE owned # {}
    <3>1. Succeed(p, [Goes(p) EXCEPT !.teams = owned])
      BY <1>5, <2>1, <2>2 DEF ListTeams
    <3> QED BY <1>1, <1>3, <3>1, GoesGoesOn
  <2>3. CASE owned = {}
    <3>1. PICK v, q : v = Tail(t) /\ q = [req[p] EXCEPT !.todo = Tail(v)]
      OBVIOUS
    <3>2. Succeed(p, q)
      BY <1>4, <1>5, <2>1, <2>3, <3>1 DEF ListTeams
    <3>3. q.todo = Tail(v) /\ q.work = req[p].work /\ q = ReqFields(q)
      <4>1. PICK s2 : s2 = Tail(v)
        OBVIOUS
      <4>2. q = [req[p] EXCEPT !.todo = s2]
        BY <3>1, <4>1
      <4> QED BY <1>2, <4>1, <4>2 DEF ReqFields
    <3>4. t \in Seq(Statements) /\ v \in Seq(Statements) /\ v # <<>> /\ Head(v) = "deleteTeam"
      <4>1. Head(t) = "listTeams"
        BY <1>4, <1>5, SentFacts DEF ListTeams
      <4> QED BY <1>2, <1>4, <3>1, <4>1, TailShaped DEF Shaped
    <3>5. Ordered(t) => Ordered(v)
      BY <1>2, <1>4, <3>1, <3>4, TailOrdered
    <3>6. Ordered(v) => Tail(v) # <<>>
      BY <1>3, <3>4, TailOrdered
    <3> QED BY <1>2, <1>4, <3>2, <3>3, <3>5, <3>6, SucceedGoesOn
  <2> QED BY <2>2, <2>3
<1>6. CASE DeleteTeam(p)
  <2>1. PICK others : others = req[p].teams \ {FirstOf(req[p].teams)}
    OBVIOUS
  <2>2. CASE others = {}
    <3>1. Succeed(p, [Goes(p) EXCEPT !.teams = others])
      BY <1>6, <2>1, <2>2 DEF DeleteTeam
    <3> QED BY <1>1, <1>3, <3>1, GoesGoesOn
  <2>3. CASE others # {}
    <3>1. PICK q : q = [req[p] EXCEPT !.teams = others]
      OBVIOUS
    <3>2. Succeed(p, q)
      BY <1>6, <2>1, <2>3, <3>1 DEF DeleteTeam
    <3>3. q.todo = req[p].todo /\ q.work = req[p].work /\ q = ReqFields(q)
      BY <1>2, <3>1 DEF ReqFields
    <3> QED BY <1>2, <3>2, <3>3, SucceedGoesOn
  <2> QED BY <2>2, <2>3
<1> QED BY <1>5, <1>6

LEMMA FindUserEnds == ASSUME PlansInv, NEW p \in Requests, FindUser(p) PROVE EndsByCommit(p)
<1>1. Sent(p, "findUser") /\ "findUser" \notin Closing
  BY DEF FindUser, Closing
<1>2. CASE Succeed(p, Goes(p))
  BY <1>1, <1>2, GoesGoesOn
<1>3. PICK t, q : t = <<"ROLLBACK">> /\ q = [req[p] EXCEPT !.todo = t, !.verdict = "refused"]
  OBVIOUS
<1>4. CASE Succeed(p, q)
  <2>1. req[p].on # None /\ req[p] = ReqFields(req[p])
    BY <1>1, SentFacts
  <2>2. q = ReqFields(q) /\ q.verdict = "refused" /\ q.work = req[p].work
    BY <1>3, <2>1 DEF ReqFields
  <2> QED BY <1>4, <2>1, <2>2, SucceedGoesOn
<1> QED BY <1>2, <1>3, <1>4 DEF FindUser

LEMMA FramesEnd ==
  ASSUME PlansInv, NEW p \in Requests, Begin(p) \/ Commit(p) \/ Rollback(p) \/ Reject(p)
  PROVE  EndsByCommit(p)
<1>1. CASE Reject(p)
  <2>1. PICK t, q : /\ t = IF InTry(p) THEN <<"ROLLBACK">> ELSE <<>>
                    /\ q = [req[p] EXCEPT !.on = None, !.verdict = "error", !.todo = t]
    OBVIOUS
  <2>2. q.verdict = "error" /\ q.work = req[p].work
    BY <2>1 DEF PlansInv, PlansShape, ReqOK, ReqFields
  <2>3. req' = [req EXCEPT ![p] = q]
    BY <1>1, <2>1 DEF Reject
  <2>4. req'[p] = q /\ \A r \in Requests \ {p} : req'[r] = req[r]
    BY <2>3 DEF PlansInv, PlansShape
  <2> QED BY <2>2, <2>4 DEF EndsByCommit
<1>2. CASE Begin(p) \/ Commit(p) \/ Rollback(p)
  <2>1. PICK s \in {"BEGIN", "COMMIT", "ROLLBACK"} :
          Sent(p, s) /\ (s = "BEGIN" => Begin(p)) /\ (s = "COMMIT" => Commit(p)) /\ (s = "ROLLBACK" => Rollback(p))
    <3>1. CASE Begin(p)
      <4>1. Sent(p, "BEGIN")
        BY <3>1 DEF Begin
      <4> QED BY <3>1, <4>1
    <3>2. CASE Commit(p)
      <4>1. Sent(p, "COMMIT")
        BY <3>2 DEF Commit
      <4> QED BY <3>2, <4>1
    <3>3. CASE Rollback(p)
      <4>1. Sent(p, "ROLLBACK")
        BY <3>3 DEF Rollback
      <4> QED BY <3>3, <4>1
    <3> QED BY <1>2, <3>1, <3>2, <3>3
  <2>2. /\ req[p].todo # <<>> /\ Head(req[p].todo) = s /\ req[p] = ReqFields(req[p])
        /\ PlansShape /\ ReqOK(req[p]) /\ Shaped(req[p].todo)
    BY <2>1, SentFacts
  <2>3. PICK g, q : g = Goes(p) /\ q = [g EXCEPT !.on = None]
    OBVIOUS
  <2>4. q.todo = Tail(req[p].todo) /\ q.work = req[p].work /\ q.verdict = req[p].verdict
    <3>1. g = ReqFields(g) /\ g.todo = Tail(req[p].todo) /\ g.verdict = req[p].verdict /\ g.work = req[p].work
      BY <2>2, <2>3, RequestFields
    <3> QED BY <2>3, <3>1, LeavesOK
  <2>5. req' = [req EXCEPT ![p] = q]
    BY <2>1, <2>3 DEF Begin, Commit, Rollback
  <2>6. req'[p] = q /\ \A r \in Requests \ {p} : req'[r] = req[r]
    BY <2>2, <2>5 DEF PlansShape
  <2>7. CASE s = "COMMIT"
    BY <2>1, <2>4, <2>6, <2>7 DEF EndsByCommit
  <2>8. CASE s = "ROLLBACK"
    <3>1. req[p].verdict # "ok"
      BY <2>2, <2>8, TailShaped DEF ReqOK
    <3> QED BY <2>4, <2>6, <3>1 DEF EndsByCommit
  <2>9. CASE s = "BEGIN"
    <3>1. PICK t : t = req[p].todo
      OBVIOUS
    <3>2. Tail(t) # <<>>
      <4>1. "COMMIT" \in Range(Tail(t))
        BY <2>2, <2>9, <3>1, TailShaped
      <4> QED BY <4>1, EmptyShaped
    <3> QED BY <2>4, <2>6, <3>1, <3>2 DEF EndsByCommit
  <2> QED BY <2>7, <2>8, <2>9
<1> QED BY <1>1, <1>2

\* Every step of a request on its connection.
LEMMA ExecuteEnds == ASSUME PlansInv, NEW p \in Requests, Execute(p) PROVE EndsByCommit(p)
BY PlainGoesOn, TeamsGoOn, FindUserEnds, FramesEnd DEF Execute

\* COMMIT is sent between BEGIN and the end, and is the end.
LEMMA TailOfCommit ==
  ASSUME NEW t, Shaped(t), t # <<>>, Head(t) = "COMMIT" PROVE Inside(t)
<1>1. /\ t \in Seq(Statements) /\ Head(t) = t[1] /\ 1 \in 1..Len(t) /\ Range(t) = {t[1]} \union After(t, 1)
  <2>1. t \in Seq(Statements)
    BY DEF Shaped
  <2> QED BY <2>1, TailAfter
<1>2. After(t, 1) \intersect (Closing \union {"BEGIN"}) = {}
  BY <1>1 DEF Shaped, Closing
<1> QED BY <1>1, <1>2 DEF Inside, Closing

\* COMMIT leaves the answer as it is.
LEMMA CommitKeepsVerdict ==
  ASSUME PlansInv, NEW p \in Requests, Commit(p) PROVE req'[p].verdict = req[p].verdict
<1>1. PlansShape /\ req[p].todo # <<>>
  BY SentFacts DEF Commit
<1>2. PICK g, q : g = Goes(p) /\ q = [g EXCEPT !.on = None]
  OBVIOUS
<1>3. q.verdict = req[p].verdict
  <2>1. g = ReqFields(g) /\ g.verdict = req[p].verdict
    BY <1>1, <1>2, RequestFields
  <2> QED BY <1>2, <2>1, LeavesOK
<1>4. req' = [req EXCEPT ![p] = q]
  BY <1>2 DEF Commit
<1> QED BY <1>1, <1>3, <1>4 DEF PlansShape

\* A COMMIT in the transaction of a request that nobody disturbed leaves its user no team.
LEMMA CommitLeavesNone ==
  ASSUME PlansInv, ClearInv, NEW r \in Requests, Commit(r), Downgrades(r), req[r].verdict = "ok", r \notin mixed'
  PROVE  Owned(req[r].work.user, db') = {} /\ Joined(req[r].work.user, db') = {}
<1>1. Sent(r, "COMMIT")
  BY DEF Commit
<1>2. /\ req[r].on \in Conns /\ req[r].todo # <<>> /\ Head(req[r].todo) = "COMMIT"
      /\ Shaped(req[r].todo) /\ PlansShape
  BY <1>1, SentFacts
<1>3. PICK c, t : c \in Conns /\ c = req[r].on /\ t = req[r].todo
  BY <1>2
<1>4. Inside(t)
  BY <1>2, <1>3, TailOfCommit
<1>5. conn[c].holder = r /\ r \notin mixed
  <2>1. mixed' = mixed \union Mixing(r)
    BY DEF Commit
  <2> QED BY <1>3, <1>4, <2>1, MixingTells
<1>6. Clearing(r, c)
  BY <1>3, <1>5 DEF ClearInv
<1>7. Range(t) = {"COMMIT"}
  <2>1. Ordered(t) /\ t \in Seq(Statements)
    BY <1>2, <1>3 DEF ClearInv, Belongs, Downgrades, Shaped
  <2>2. Range(t) = {t[1]} \union After(t, 1) /\ Head(t) = t[1] /\ Range(Tail(t)) = After(t, 1)
    BY <1>2, <1>3, <2>1, TailAfter
  <2>3. Range(Tail(t)) = {}
    BY <1>2, <1>3, <2>1, TailOrdered
  <2> QED BY <1>2, <1>3, <2>2, <2>3
<1>8. db' = View(c)
  BY <1>3, <1>6, CommitWrites DEF Clearing
<1>9. Owned(req[r].work.user, View(c)) = {} /\ Joined(req[r].work.user, View(c)) = {}
  BY <1>3, <1>6, <1>7 DEF Clearing
<1> QED BY <1>8, <1>9

\* A change to a plan without team that selectPlan acknowledged leaves its user no team,
\* neither owned nor joined, unless another request gives the user one meanwhile or the
\* statements of several requests met on one connection: the list of the teams and the
\* DELETEs that follow it are in one transaction, so nothing comes between them.
THEOREM StaleTeamsAreExplained == PlansSpec => StaleTeamExplained
<1>1. ASSUME PlansInv, ClearInv, ClearInv', [PlansNext]_plansVars, NEW r \in Requests,
             ~Switched(r), Switched(r)', r \notin mixed', ~GivenMeanwhile(r)
      PROVE  Owned(req[r].work.user, db') = {} /\ Joined(req[r].work.user, db') = {}
  <2>1. req'[r] # req[r] /\ req'[r].todo = <<>> /\ req'[r].verdict = "ok"
    BY <1>1 DEF Switched, Replied
  <2>2. CASE Execute(r)
    <3>1. EndsByCommit(r)
      BY <1>1, <2>2, ExecuteEnds
    <3>2. req'[r].work = req[r].work
      BY <3>1 DEF EndsByCommit
    <3>3. Downgrades(r)
      BY <1>1, <3>2 DEF Switched, Downgrades
    <3>4. Ordered(req[r].todo)
      BY <1>1, <3>3 DEF ClearInv, Belongs, Downgrades
    <3>5. Commit(r)
      BY <2>1, <3>1, <3>4 DEF EndsByCommit
    <3>6. req[r].verdict = "ok"
      BY <1>1, <2>1, <3>5, CommitKeepsVerdict
    <3> QED BY <1>1, <3>3, <3>5, <3>6, CommitLeavesNone
  <2>3. ~Execute(r) => req'[r].todo = req[r].todo /\ req'[r].work = req[r].work /\ req'[r].verdict = req[r].verdict
    <3>1. ASSUME NEW p \in Requests \ {r}, Execute(p) PROVE req'[r] = req[r]
      BY <1>1, <3>1, ExecuteEnds DEF EndsByCommit
    <3>2. ASSUME NEW p \in Requests, Acquire(p)
          PROVE  req'[r].todo = req[r].todo /\ req'[r].work = req[r].work /\ req'[r].verdict = req[r].verdict
      BY <1>1, <3>2, AcquireIs
    <3>3. ASSUME NEW c \in Conns, IdleTimeout(c) PROVE req'[r] = req[r]
      BY <3>3 DEF IdleTimeout
    <3>4. CASE UNCHANGED plansVars
      BY <3>4 DEF plansVars
    <3> QED BY <1>1, <3>1, <3>2, <3>3, <3>4 DEF PlansNext
  <2>4. CASE ~Execute(r)
    <3>1. req'[r].todo = req[r].todo /\ req'[r].work = req[r].work /\ req'[r].verdict = req[r].verdict
      BY <2>3, <2>4
    <3> QED BY <1>1, <3>1 DEF Switched, Replied
  <2> QED BY <2>2, <2>4
<1>2. PlansInv /\ ClearInv /\ ClearInv' /\ [PlansNext]_plansVars =>
        [\A r \in Requests : ~Switched(r) /\ Switched(r)' =>
           LET u == req[r].work.user IN
           \/ Owned(u, db') = {} /\ Joined(u, db') = {}
           \/ r \in mixed' \/ GivenMeanwhile(r)]_plansVars
  BY <1>1
<1>3. PlansSpec => []ClearInv
  BY ClearStart, ClearNext, PlansInvariant, PTL DEF PlansSpec
<1> QED BY <1>2, <1>3, PlansInvariant, PTL DEF PlansSpec, StaleTeamExplained

-----------------------------------------------------------------------------
-----------------------------------------------------------------------------
(* The rows that transactions leave: types and foreign keys                 *)

\* What the columns of row k may hold, by its table.
ValueOK(k, a) ==
  /\ k[1] = "users" => a \in Plans \union {None}
  /\ k[1] = "teams" => a \in Users \union {None}
  /\ k[1] = "team_members" => a \in Roles \union {None}
  /\ k[1] = "subscriptions" => a \in {"active", None}
RowsOK(w) == DOMAIN w \subseteq Keys /\ \A k \in DOMAIN w : ValueOK(k, w[k])
\* The rows v after the writes w.
Over(w, v) == [k \in Keys |-> IF k \in DOMAIN w THEN w[k] ELSE v[k]]
Deleted(w, k) == k \in DOMAIN w /\ w[k] = None
Put(w, k) == k \in DOMAIN w /\ w[k] # None

Linked(v) == \A k, x \in Keys : Refers(k, x) /\ v[k] # None => v[x] # None
\* Rows in which b team ids have been drawn.
Orderly(v, b) ==
  /\ DOMAIN v = Keys /\ RowsOK(v) /\ Linked(v)
  /\ \A t \in Teams : t > b => v[TeamRow(t)] = None /\ v[Sub(t)] = None

\* The writes w of a transaction that relies on the rows R, over the committed rows v: a
\* row it puts is there already or it holds the parent; whoever deletes a team's
\* subscription deletes the team; no user is made; nothing about ids not yet drawn.
Sound(w, R, b, v) ==
  /\ RowsOK(w)
  /\ Linked(Over(w, v))
  /\ \A k, x \in Keys : Refers(k, x) /\ Put(w, k) => x \in R \/ v[k] # None
  /\ \A t \in Teams : Deleted(w, Sub(t)) => Deleted(w, TeamRow(t))
  /\ \A t \in Teams : t > b => TeamRow(t) \notin DOMAIN w /\ Sub(t) \notin DOMAIN w
  /\ \A u \in Users : Put(w, PlanOf(u)) => v[PlanOf(u)] # None

\* What the locks keep apart: two transactions write no row both, and none deletes a
\* row the other relies on.
Apart(w, R, o, S) ==
  /\ DOMAIN w \intersect DOMAIN o = {}
  /\ \A k \in R : ~Deleted(o, k)
  /\ \A k \in S : ~Deleted(w, k)

\* The writes w of one statement that relies on the rows R, on the rows v it sees; b ids
\* have been drawn before, n afterwards.
Honest(w, R, b, n, v) ==
  /\ RowsOK(w)
  /\ \A k, x \in Keys : Refers(k, x) =>
       /\ Put(w, k) => x \in R \/ v[k] # None
       /\ Deleted(w, x) => Deleted(w, k) \/ (k \notin DOMAIN w /\ v[k] = None)
  /\ \A t \in Teams :
       /\ Deleted(w, Sub(t)) => Deleted(w, TeamRow(t))
       /\ Put(w, TeamRow(t)) => v[TeamRow(t)] # None \/ t > b
       /\ t > n => TeamRow(t) \notin DOMAIN w /\ Sub(t) \notin DOMAIN w
  /\ \A u \in Users : Put(w, PlanOf(u)) => v[PlanOf(u)] # None

\* Tables and columns of the other keys.
LEMMA MoreTags ==
  ASSUME NEW t, NEW u, NEW x
  PROVE  /\ PlanOf(u)[2] = u /\ Sub(x)[2] = x /\ Len(TeamRow(t)) = 2 /\ Len(Member(t, u)) = 3
         /\ Len(PlanOf(u)) = 2 /\ Len(Sub(x)) = 2
BY DEF TeamRow, Member, PlanOf, Sub

LEMMA KeysOfUsers ==
  ASSUME NEW u \in Users, NEW x \in Users \union Teams
  PROVE  PlanOf(u) \in Keys /\ Sub(x) \in Keys /\ Scan(u) \in Keys
BY DEF Keys

LEMMA KeysOfInvites == ASSUME NEW t \in Teams, NEW u \in Users PROVE Invite(t, u) \in Keys
BY DEF Keys

\* Users and teams are different things, each row refers to one other at most, and only
\* subscriptions and memberships do.
LEMMA ApartIds == \A u \in Users : u \notin Teams
BY TeamPlansAssumption DEF Teams

LEMMA RefersIs ==
  ASSUME NEW k, NEW x, Refers(k, x)
  PROVE  /\ k[1] \in {"subscriptions", "team_members"} /\ x[1] \in {"users", "teams"}
         /\ k[2] = x[2]
         /\ x[1] = "teams" => x[2] \in Teams /\ x = TeamRow(x[2])
         /\ x[1] = "users" => x[2] \in Users /\ x = PlanOf(x[2]) /\ k = Sub(x[2])
         /\ k \in Keys /\ x \in Keys
<1>1. CASE \E t \in Teams : x = TeamRow(t) /\ k \in {Sub(t)} \union {Member(t, u) : u \in Users}
  <2>1. PICK t \in Teams : x = TeamRow(t) /\ (k = Sub(t) \/ \E u \in Users : k = Member(t, u))
    BY <1>1
  <2>2. x[1] = "teams" /\ x[2] = t /\ x \in Keys
    BY <2>1, Tags DEF Keys
  <2>3. CASE k = Sub(t)
    BY <2>1, <2>2, <2>3, Tags, MoreTags DEF Keys
  <2>4. CASE \E u \in Users : k = Member(t, u)
    <3>1. PICK u \in Users : k = Member(t, u)
      BY <2>4
    <3>2. k[1] = "team_members" /\ k[2] = t /\ k \in Keys
      BY <3>1, Tags DEF Keys
    <3> QED BY <2>1, <2>2, <3>2
  <2> QED BY <2>1, <2>3, <2>4
<1>2. CASE \E u \in Users : x = PlanOf(u) /\ k = Sub(u)
  <2>1. PICK u \in Users : x = PlanOf(u) /\ k = Sub(u)
    BY <1>2
  <2>2. x[1] = "users" /\ x[2] = u /\ x \in Keys /\ k[1] = "subscriptions" /\ k[2] = u /\ k \in Keys
    BY <2>1, Tags, MoreTags DEF Keys
  <2> QED BY <2>1, <2>2
<1> QED BY <1>1, <1>2 DEF Refers

LEMMA RefersTo ==
  ASSUME NEW t \in Teams, NEW u \in Users
  PROVE  Refers(Sub(t), TeamRow(t)) /\ Refers(Member(t, u), TeamRow(t)) /\ Refers(Sub(u), PlanOf(u))
BY DEF Refers

\* Writes upon writes.
LEMMA JoinPuts ==
  ASSUME NEW w, NEW p, NEW k
  PROVE  /\ Deleted(Join(w, p), k) <=> Deleted(w, k) \/ (k \notin DOMAIN w /\ Deleted(p, k))
         /\ Put(Join(w, p), k) <=> Put(w, k) \/ (k \notin DOMAIN w /\ Put(p, k))
<1>1. PICK j : j = Join(w, p)
  OBVIOUS
<1>2. DOMAIN j = DOMAIN w \union DOMAIN p /\ \A i \in DOMAIN j : j[i] = IF i \in DOMAIN w THEN w[i] ELSE p[i]
  BY <1>1 DEF Join
<1>3. /\ Deleted(j, k) <=> Deleted(w, k) \/ (k \notin DOMAIN w /\ Deleted(p, k))
      /\ Put(j, k) <=> Put(w, k) \/ (k \notin DOMAIN w /\ Put(p, k))
  BY <1>2 DEF Deleted, Put
<1> QED BY <1>1, <1>3

LEMMA OverIs ==
  ASSUME NEW w, NEW v
  PROVE  /\ DOMAIN Over(w, v) = Keys
         /\ \A k \in Keys : Over(w, v)[k] = IF k \in DOMAIN w THEN w[k] ELSE v[k]
         /\ \A k \in Keys : Over(w, v)[k] = None <=> Deleted(w, k) \/ (k \notin DOMAIN w /\ v[k] = None)
         /\ \A k \in Keys : Over(w, v)[k] # None <=> Put(w, k) \/ (k \notin DOMAIN w /\ v[k] # None)
BY DEF Over, Deleted, Put

LEMMA OverJoin ==
  ASSUME NEW w, NEW p, NEW v PROVE Over(Join(w, p), v) = Over(w, Over(p, v))
<1>1. PICK n, o : n = Join(w, p) /\ o = Over(p, v)
  OBVIOUS
<1>2. ASSUME NEW k \in Keys
      PROVE  (IF k \in DOMAIN n THEN n[k] ELSE v[k]) = (IF k \in DOMAIN w THEN w[k] ELSE o[k])
  <2>1. o[k] = IF k \in DOMAIN p THEN p[k] ELSE v[k]
    BY <1>1, OverIs
  <2>2. /\ DOMAIN n = DOMAIN w \union DOMAIN p
        /\ \A j \in DOMAIN w : n[j] = w[j]
        /\ \A j \in DOMAIN p : j \notin DOMAIN w => n[j] = p[j]
    BY <1>1 DEF Join
  <2> QED BY <2>1, <2>2
<1>3. Over(n, v) = Over(w, o)
  BY <1>2 DEF Over
<1> QED BY <1>1, <1>3

LEMMA OverOK ==
  ASSUME NEW w, NEW v, RowsOK(w), RowsOK(v), DOMAIN v = Keys
  PROVE  RowsOK(Over(w, v))
BY OverIs DEF RowsOK

LEMMA EmptyIs == DOMAIN Empty = {} /\ \A k : ~Deleted(Empty, k) /\ ~Put(Empty, k)
BY DEF Empty, Deleted, Put

\* A transaction sees orderly rows, and before its first write the committed ones.
LEMMA SoundSees ==
  ASSUME NEW w, NEW R, NEW b, NEW v, Orderly(v, b), Sound(w, R, b, v)
  PROVE  Orderly(Over(w, v), b)
<1>1. DOMAIN Over(w, v) = Keys /\ RowsOK(Over(w, v)) /\ Linked(Over(w, v))
  BY OverIs, OverOK DEF Orderly, Sound
<1>2. ASSUME NEW t \in Teams, t > b PROVE Over(w, v)[TeamRow(t)] = None /\ Over(w, v)[Sub(t)] = None
  <2>1. TeamRow(t) \in Keys /\ Sub(t) \in Keys
    BY DEF Keys
  <2>2. TeamRow(t) \notin DOMAIN w /\ Sub(t) \notin DOMAIN w /\ v[TeamRow(t)] = None /\ v[Sub(t)] = None
    BY <1>2 DEF Orderly, Sound
  <2> QED BY <2>1, <2>2 DEF Over
<1> QED BY <1>1, <1>2 DEF Orderly

LEMMA OverEmpty == ASSUME NEW v, v = [k \in Keys |-> v[k]] PROVE Over(Empty, v) = v
BY EmptyIs DEF Over

LEMMA SoundEmpty ==
  ASSUME NEW R, NEW b, NEW v, Orderly(v, b), v = [k \in Keys |-> v[k]] PROVE Sound(Empty, R, b, v)
<1>1. RowsOK(Empty)
  BY EmptyIs DEF RowsOK
<1>2. Linked(Over(Empty, v))
  BY OverEmpty DEF Orderly
<1> QED BY <1>1, <1>2, EmptyIs DEF Sound

\* A statement more.
LEMMA JoinSound ==
  ASSUME NEW w, NEW p, NEW R, NEW S, NEW b \in Nat, NEW n \in Nat, b <= n, NEW v, NEW o, o = Over(p, v),
         Sound(p, R, b, v), Honest(w, S, b, n, o), \A x \in S : o[x] # None
  PROVE  Sound(Join(w, p), R \union S, n, v)
<1>1. PICK j : j = Join(w, p)
  OBVIOUS
<1>2. DOMAIN j = DOMAIN w \union DOMAIN p /\ \A i \in DOMAIN j : j[i] = IF i \in DOMAIN w THEN w[i] ELSE p[i]
  BY <1>1 DEF Join
<1>0. Over(j, v) = Over(w, o)
  BY <1>1, OverJoin
<1>3. \A k \in Keys : /\ Deleted(j, k) <=> Deleted(w, k) \/ (k \notin DOMAIN w /\ Deleted(p, k))
                      /\ Put(j, k) <=> Put(w, k) \/ (k \notin DOMAIN w /\ Put(p, k))
  BY <1>1, JoinPuts
<1>4. \A k \in Keys : /\ o[k] = None <=> Deleted(p, k) \/ (k \notin DOMAIN p /\ v[k] = None)
                      /\ o[k] # None <=> Put(p, k) \/ (k \notin DOMAIN p /\ v[k] # None)
                      /\ Over(w, o)[k] = None <=> Deleted(w, k) \/ (k \notin DOMAIN w /\ o[k] = None)
                      /\ Over(w, o)[k] # None <=> Put(w, k) \/ (k \notin DOMAIN w /\ o[k] # None)
  BY OverIs
<1>5. RowsOK(j)
  <2>1. DOMAIN j \subseteq Keys
    BY <1>2 DEF Sound, Honest, RowsOK
  <2>2. ASSUME NEW k \in DOMAIN j PROVE ValueOK(k, j[k])
    <3>1. CASE k \in DOMAIN w
      BY <1>2, <3>1 DEF Honest, RowsOK
    <3>2. CASE k \notin DOMAIN w
      BY <1>2, <2>2, <3>2 DEF Sound, RowsOK
    <3> QED BY <3>1, <3>2
  <2> QED BY <2>1, <2>2 DEF RowsOK
<1>6. Linked(Over(w, o))
  <2> SUFFICES ASSUME NEW k \in Keys, NEW x \in Keys, Refers(k, x), Over(w, o)[k] # None
               PROVE  Over(w, o)[x] # None
    BY DEF Linked
  <2>1. o[k] # None => o[x] # None
    BY DEF Sound, Linked
  <2>2. Put(w, k) \/ (k \notin DOMAIN w /\ o[k] # None)
    BY <1>4
  <2>3. o[x] # None
    BY <2>1, <2>2 DEF Honest
  <2>4. ~Deleted(w, x)
    BY <2>2 DEF Honest, Put, Deleted
  <2> QED BY <1>4, <2>3, <2>4
<1>7. ASSUME NEW k \in Keys, NEW x \in Keys, Refers(k, x), Put(j, k) PROVE x \in R \union S \/ v[k] # None
  <2>1. CASE Put(w, k)
    BY <1>4, <1>7, <2>1 DEF Honest, Sound
  <2>2. CASE Put(p, k)
    BY <1>7, <2>2 DEF Sound
  <2> QED BY <1>3, <1>7, <2>1, <2>2
<1>8. ASSUME NEW t \in Teams, Deleted(j, Sub(t)) PROVE Deleted(j, TeamRow(t))
  <2>1. TeamRow(t) \in Keys /\ Sub(t) \in Keys
    BY DEF Keys
  <2>2. CASE Deleted(w, Sub(t))
    BY <1>3, <2>1, <2>2 DEF Honest
  <2>3. CASE Deleted(p, Sub(t))
    <3>1. Deleted(p, TeamRow(t)) /\ ~(t > b) /\ o[TeamRow(t)] = None
      BY <1>4, <2>1, <2>3 DEF Sound, Deleted
    <3>2. ~Put(w, TeamRow(t))
      BY <3>1 DEF Honest
    <3> QED BY <1>3, <2>1, <3>1, <3>2 DEF Put, Deleted
  <2> QED BY <1>3, <1>8, <2>1, <2>2, <2>3
<1>9. ASSUME NEW t \in Teams, t > n PROVE TeamRow(t) \notin DOMAIN j /\ Sub(t) \notin DOMAIN j
  <2>1. t > b
    BY <1>9 DEF Teams
  <2> QED BY <1>2, <1>9, <2>1 DEF Honest, Sound
<1>10. ASSUME NEW u \in Users, Put(j, PlanOf(u)) PROVE v[PlanOf(u)] # None
  <2>1. PlanOf(u) \in Keys
    BY DEF Keys
  <2> QED BY <1>3, <1>4, <1>10, <2>1 DEF Honest, Sound
<1> QED BY <1>0, <1>1, <1>2, <1>5, <1>6, <1>7, <1>8, <1>9, <1>10 DEF Sound

\* A transaction that commits leaves the others sound.
LEMMA ApplySound ==
  ASSUME NEW p, NEW R, NEW d, NEW S, NEW b, NEW v, NEW o, o = Over(p, v),
         Sound(p, R, b, v), Sound(d, S, b, v), Apart(p, R, d, S)
  PROVE  Sound(d, S, b, o)
<1>1. \A k \in Keys : /\ o[k] = None <=> Deleted(p, k) \/ (k \notin DOMAIN p /\ v[k] = None)
                      /\ o[k] # None <=> Put(p, k) \/ (k \notin DOMAIN p /\ v[k] # None)
                      /\ Over(d, v)[k] = None <=> Deleted(d, k) \/ (k \notin DOMAIN d /\ v[k] = None)
                      /\ Over(d, v)[k] # None <=> Put(d, k) \/ (k \notin DOMAIN d /\ v[k] # None)
                      /\ Over(d, o)[k] # None <=> Put(d, k) \/ (k \notin DOMAIN d /\ o[k] # None)
  BY OverIs
<1>2. \A k : ~(k \in DOMAIN p /\ k \in DOMAIN d)
  BY DEF Apart
<1>3. ASSUME NEW k \in Keys, NEW x \in Keys, Refers(k, x), Over(d, o)[k] # None
      PROVE  Over(d, o)[x] # None
  <2>1. /\ o[k] # None => o[x] # None
        /\ Over(d, v)[k] # None => Over(d, v)[x] # None
    BY <1>3 DEF Sound, Linked
  <2>2. CASE Put(d, k)
    <3>1. Over(d, v)[x] # None /\ k \notin DOMAIN p
      BY <1>1, <1>2, <2>1, <2>2 DEF Put
    <3>2. ~Deleted(p, x)
      <4>1. CASE x \in S
        BY <4>1 DEF Apart
      <4>2. CASE v[k] # None
        BY <1>1, <2>1, <3>1, <4>2
      <4> QED BY <1>3, <2>2, <4>1, <4>2 DEF Sound
    <3> QED BY <1>1, <3>1, <3>2 DEF Deleted, Put
  <2>3. CASE k \notin DOMAIN d /\ o[k] # None
    <3>1. o[x] # None
      BY <2>1, <2>3
    <3>2. ~Deleted(d, x)
      <4>1. CASE x \in R
        BY <4>1 DEF Apart
      <4>2. CASE v[k] # None
        BY <1>1, <2>1, <2>3, <4>2
      <4> QED BY <1>1, <1>3, <2>3, <4>1, <4>2 DEF Sound
    <3> QED BY <3>1, <3>2, <1>1 DEF Deleted, Put
  <2> QED BY <1>1, <1>3, <2>2, <2>3
<1>4. ASSUME NEW k \in Keys, NEW x \in Keys, Refers(k, x), Put(d, k) PROVE x \in S \/ o[k] # None
  BY <1>1, <1>2, <1>4 DEF Sound, Put
<1>5. ASSUME NEW u \in Users, Put(d, PlanOf(u)) PROVE o[PlanOf(u)] # None
  <2>1. PlanOf(u) \in Keys
    BY DEF Keys
  <2> QED BY <1>1, <1>2, <1>5, <2>1 DEF Sound, Put
<1> QED BY <1>3, <1>4, <1>5 DEF Sound, Linked

LEMMA ApartSwaps == ASSUME NEW w, NEW R, NEW o, NEW S, Apart(w, R, o, S) PROVE Apart(o, S, w, R)
BY DEF Apart

\* More ids drawn.
LEMMA SoundLater ==
  ASSUME NEW w, NEW R, NEW b \in Nat, NEW n \in Nat, b <= n, NEW v, Sound(w, R, b, v)
  PROVE  Sound(w, R, n, v)
<1>1. \A t \in Teams : t > n => t > b
  BY DEF Teams
<1> QED BY <1>1 DEF Sound

-----------------------------------------------------------------------------
(* What each statement writes *)

\* A set of team ids, or none at all, has a first and a last.
LEMMA LeastId ==
  ASSUME NEW S \in SUBSET (0..MaxTeams), S # {}
  PROVE  \E n \in S : \A m \in S : n <= m
<1> DEFINE Below(s) == {t \in S : t < s}
           T == {Below(s) : s \in S}
<1>1. T \subseteq FiniteSubsetsOf(S) /\ T # {}
  <2>1. IsFiniteSet(S)
    <3>1. MaxTeams \in Int /\ 0 \in Int
      BY TeamPlansAssumption
    <3>2. IsFiniteSet(0..MaxTeams)
      BY <3>1, FS_Interval
    <3> QED BY <3>2, FS_Subset
  <2>2. \A s \in S : Below(s) \subseteq S /\ IsFiniteSet(Below(s))
    BY <2>1, FS_Subset
  <2> QED BY <2>2 DEF FiniteSubsetsOf
<1>2. PICK A \in T : \A B \in T : <<B, A>> \notin StrictSubsetOrdering(S)
  <2> HIDE DEF T
  <2> QED BY <1>1, FS_StrictSubsetOrderingWellFounded, WFMin
<1>3. PICK s \in S : A = Below(s)
  BY <1>2
<1>4. \A n \in S : n \in Int
  <2>1. \A n \in 0..MaxTeams : n \in Int
    OBVIOUS
  <2> QED BY <2>1
<1>5. Below(s) = {}
  <2> SUFFICES ASSUME NEW t \in Below(s) PROVE FALSE
    OBVIOUS
  <2>1. t \in S /\ t \in Int /\ s \in Int /\ t < s
    BY <1>4
  <2>2. (\A x \in S : x < t => x < s) /\ ~(t < t)
    BY <1>4, <2>1
  <2>3. Below(t) \subseteq Below(s) /\ t \notin Below(t)
    BY <2>1, <2>2
  <2>4. <<Below(t), Below(s)>> \in StrictSubsetOrdering(S)
    BY <2>3 DEF StrictSubsetOrdering
  <2> QED BY <1>2, <1>3, <2>4
<1> QED BY <1>4, <1>5

LEMMA FirstOfIs == ASSUME NEW T, T \subseteq Teams, T # {} PROVE FirstOf(T) \in T
<1>1. T \in SUBSET (0..MaxTeams)
  BY TeamPlansAssumption DEF Teams
<1>2. \E t \in T : \A o \in T : t <= o
  BY <1>1, LeastId
<1> QED BY <1>2 DEF FirstOf

LEMMA GreatestId ==
  ASSUME NEW S \in SUBSET (0..MaxTeams), S # {}
  PROVE  Max(S) \in S /\ \A y \in S : y <= Max(S)
<1> DEFINE D == {MaxTeams - x : x \in S}
<1>1. MaxTeams \in Nat /\ S \subseteq 0..MaxTeams
  BY TeamPlansAssumption
<1>2. D \in SUBSET (0..MaxTeams) /\ D # {}
  <2>1. \A x \in 0..MaxTeams : MaxTeams - x \in 0..MaxTeams
    BY <1>1
  <2> QED BY <1>1, <2>1
<1>3. PICK n \in D : \A m \in D : n <= m
  <2> HIDE DEF D
  <2> QED BY <1>2, LeastId
<1>4. PICK x \in S : n = MaxTeams - x
  BY <1>3
<1>5. \A y \in S : x >= y
  <2> SUFFICES ASSUME NEW y \in S PROVE x >= y
    OBVIOUS
  <2>1. MaxTeams - x <= MaxTeams - y
    BY <1>3, <1>4
  <2>2. x \in Int /\ y \in Int /\ MaxTeams \in Int
    BY <1>1
  <2> QED BY <2>1, <2>2
<1>6. Max(S) \in S /\ \A y \in S : Max(S) >= y
  BY <1>5 DEF Max
<1>7. \A y \in S : y \in Int
  BY <1>1
<1> QED BY <1>6, <1>7

LEMMA SetIs == ASSUME NEW K, NEW a PROVE DOMAIN Set(K, a) = K /\ \A k \in K : Set(K, a)[k] = a
BY DEF Set

\* Tables whose rows nobody refers to and which refer to none (that the models rely on).
Aside(k) == k[1] \notin {"users", "teams", "team_members", "subscriptions"}

\* Rows deleted with all that refer to them, and a team's subscription with the team.
LEMMA DeletionHonest ==
  ASSUME NEW w, NEW R, NEW b, NEW n \in Nat, b \in Nat, b <= n, NEW v, Orderly(v, b), DOMAIN w \subseteq Keys,
         \A k \in DOMAIN w : Aside(k) \/ (v[k] # None /\ w[k] = None),
         \A k, x \in Keys : Refers(k, x) /\ x \in DOMAIN w => k \in DOMAIN w \/ v[k] = None,
         \A t \in Teams : Sub(t) \in DOMAIN w => TeamRow(t) \in DOMAIN w
  PROVE  /\ Honest(w, R, b, n, v)
         /\ \A t \in Teams : ~Put(w, TeamRow(t))
<1>1. ASSUME NEW k \in DOMAIN w PROVE ValueOK(k, w[k])
  BY DEF ValueOK, Aside
<1>2. ASSUME NEW k, NEW x, Refers(k, x), k \in Keys, x \in Keys
      PROVE  /\ ~Put(w, k)
             /\ Deleted(w, x) => Deleted(w, k) \/ (k \notin DOMAIN w /\ v[k] = None)
  <2>1. k[1] \in {"subscriptions", "team_members"}
    BY <1>2, RefersIs
  <2>2. ~Aside(k)
    BY <2>1 DEF Aside
  <2>3. k \in DOMAIN w => w[k] = None
    BY <2>2
  <2>4. x \in DOMAIN w => k \in DOMAIN w \/ v[k] = None
    BY <1>2
  <2> QED BY <2>3, <2>4 DEF Put, Deleted
<1>3. ASSUME NEW t \in Teams
      PROVE  /\ ~Aside(TeamRow(t)) /\ ~Aside(Sub(t))
             /\ Deleted(w, Sub(t)) => Deleted(w, TeamRow(t))
             /\ ~Put(w, TeamRow(t))
             /\ t > n => TeamRow(t) \notin DOMAIN w /\ Sub(t) \notin DOMAIN w
  <2>1. ~Aside(TeamRow(t)) /\ ~Aside(Sub(t))
    BY Tags DEF Aside
  <2>2. /\ TeamRow(t) \in DOMAIN w => v[TeamRow(t)] # None /\ w[TeamRow(t)] = None
        /\ Sub(t) \in DOMAIN w => v[Sub(t)] # None /\ w[Sub(t)] = None
    BY <2>1
  <2>3. t > n => v[TeamRow(t)] = None /\ v[Sub(t)] = None
    <3>1. t > n => t > b
      BY DEF Teams
    <3> QED BY <3>1 DEF Orderly
  <2>4. Deleted(w, Sub(t)) => Deleted(w, TeamRow(t))
    BY <2>2 DEF Deleted
  <2> QED BY <2>1, <2>2, <2>3, <2>4 DEF Put
<1>4. ASSUME NEW u \in Users PROVE ~Put(w, PlanOf(u))
  <2>1. ~Aside(PlanOf(u))
    BY Tags DEF Aside
  <2> QED BY <2>1 DEF Put
<1> QED BY <1>1, <1>2, <1>3, <1>4 DEF Honest, RowsOK

\* One row put: it was there, or it refers to rows the statement relies on.
LEMMA PutHonest ==
  ASSUME NEW w, NEW R, NEW b \in Nat, NEW n, NEW v, NEW k \in Keys, NEW a, a # None,
         DOMAIN w \subseteq {k}, k \in DOMAIN w => w[k] = a, ValueOK(k, a),
         \A x : Refers(k, x) /\ k \in DOMAIN w => x \in R \/ v[k] # None,
         \A t \in Teams : k = TeamRow(t) /\ k \in DOMAIN w => (v[k] # None \/ t > b) /\ ~(t > n),
         \A t \in Teams : k = Sub(t) /\ k \in DOMAIN w => ~(t > n),
         \A u \in Users : k = PlanOf(u) /\ k \in DOMAIN w => v[k] # None
  PROVE  Honest(w, R, b, n, v) /\ \A x : ~Deleted(w, x)
<1>1. \A x : ~Deleted(w, x) /\ (Put(w, x) <=> x = k /\ k \in DOMAIN w)
  BY DEF Deleted, Put
<1>2. RowsOK(w)
  BY DEF RowsOK
<1> QED BY <1>1, <1>2 DEF Honest

\* What goes with a team.
LEMMA CascadeIs ==
  ASSUME NEW t \in Teams, NEW v
  PROVE  /\ TeamCascade(t, v) \subseteq Keys
         /\ \A k \in TeamCascade(t, v) : v[k] # None
         /\ \A o \in Teams : (TeamRow(o) \in TeamCascade(t, v) \/ Sub(o) \in TeamCascade(t, v)) => o = t
         /\ \A u \in Users : PlanOf(u) \notin TeamCascade(t, v) /\ Sub(u) \notin TeamCascade(t, v)
         /\ \A k : Refers(k, TeamRow(t)) /\ v[k] # None => k \in TeamCascade(t, v)
         /\ v[TeamRow(t)] # None => TeamRow(t) \in TeamCascade(t, v)
<1> DEFINE mem == {Member(t, u) : u \in Users}
           inv == {Invite(t, u) : u \in Users}
<1>1. TeamCascade(t, v) = {k \in {TeamRow(t), Sub(t)} \union mem \union inv : v[k] # None}
  BY DEF TeamCascade
<1>2. /\ \A k \in mem : k \in Keys /\ k[1] = "team_members"
      /\ \A k \in inv : k \in Keys /\ k[1] = "team_member_invites"
  BY Tags, KeysOfTeams, KeysOfInvites
<1>3. TeamRow(t) \in Keys /\ Sub(t) \in Keys
  BY DEF Keys
<1>4. \A k : Refers(k, TeamRow(t)) => k = Sub(t) \/ k \in mem
  <2> SUFFICES ASSUME NEW k, Refers(k, TeamRow(t)) PROVE k = Sub(t) \/ k \in mem
    OBVIOUS
  <2>1. \A u \in Users : TeamRow(t) # PlanOf(u)
    BY Tags
  <2>2. PICK o \in Teams : TeamRow(t) = TeamRow(o) /\ (k = Sub(o) \/ \E u \in Users : k = Member(o, u))
    BY <2>1 DEF Refers
  <2>3. o = t
    BY <2>2, Tags
  <2> QED BY <2>2, <2>3
<1>5. TeamCascade(t, v) \subseteq Keys
  BY <1>1, <1>2, <1>3
<1> HIDE DEF mem, inv
<1>6. ASSUME NEW o \in Teams, TeamRow(o) \in TeamCascade(t, v) \/ Sub(o) \in TeamCascade(t, v) PROVE o = t
  <2>1. TeamRow(o)[1] = "teams" /\ TeamRow(o)[2] = o /\ Sub(o)[1] = "subscriptions" /\ Sub(o)[2] = o
    BY Tags, MoreTags
  <2>2. TeamRow(t)[1] = "teams" /\ TeamRow(t)[2] = t /\ Sub(t)[1] = "subscriptions" /\ Sub(t)[2] = t
    BY Tags, MoreTags
  <2> QED BY <1>1, <1>2, <1>6, <2>1, <2>2
<1>7. ASSUME NEW u \in Users PROVE PlanOf(u) \notin TeamCascade(t, v) /\ Sub(u) \notin TeamCascade(t, v)
  <2>1. PlanOf(u)[1] = "users" /\ Sub(u)[1] = "subscriptions" /\ Sub(u)[2] = u
    BY Tags, MoreTags
  <2>2. TeamRow(t)[1] = "teams" /\ Sub(t)[1] = "subscriptions" /\ Sub(t)[2] = t
    BY Tags, MoreTags
  <2>3. u # t
    BY ApartIds
  <2> QED BY <1>1, <1>2, <2>1, <2>2, <2>3
<1>8. \A k : Refers(k, TeamRow(t)) /\ v[k] # None => k \in TeamCascade(t, v)
  BY <1>1, <1>4
<1> QED BY <1>1, <1>5, <1>6, <1>7, <1>8

-----------------------------------------------------------------------------
(* Every statement is honest *)

\* What follows some statements, up to the end of the list.
Followed(t) ==
  \A i \in 1..Len(t) :
    /\ t[i] = "insertTeam" => Len(t) = i + 2 /\ t[i + 1] = "insertTeamSub" /\ t[i + 2] = "COMMIT"
    /\ t[i] = "deleteSubs" =>
         Len(t) = i + 3 /\ t[i + 1] = "deleteMemberships" /\ t[i + 2] = "deleteUser" /\ t[i + 3] = "COMMIT"
    /\ t[i] = "deleteTeam" /\ i > 1 => t[i - 1] = "listTeams"
\* What a request asks for, and the teams it works on.
Asks(q) ==
  /\ q.work.user \in Users /\ q.work.to \in Users /\ q.work.plan \in Plans
  /\ q.team \in Teams /\ q.teams \subseteq Teams
AtWork(q) ==
  /\ Asks(q)
  /\ Followed(q.todo)
  /\ q.todo # <<>> /\ Head(q.todo) = "deleteTeam" => q.teams # {}
  /\ "deleteSubs" \in Range(q.todo) => q.work.kind = "delete"

DrawnAfter(s) == IF s = "insertTeam" THEN born + 1 ELSE born

\* The writes w of request q's statement s on the rows v, relying on the rows R: honest,
\* teams are made by insertTeam only, a user loses his subscription in deleteSubs only
\* or with himself.
Lawful(q, s, w, R, v) ==
  /\ Honest(w, R, born, DrawnAfter(s), v)
  /\ \A t \in Teams : Put(w, TeamRow(t)) => v[TeamRow(t)] # None \/ (s = "insertTeam" /\ t = born + 1)
  /\ \A u \in Users :
       Deleted(w, Sub(u)) => Over(w, v)[PlanOf(u)] = None \/ (s = "deleteSubs" /\ u = q.work.user)
  /\ s = "deleteUser" => Over(w, v)[PlanOf(q.work.user)] = None
  /\ s = "insertTeamSub" => Put(w, Sub(q.team))

LEMMA NoneIsOther ==
  /\ \A p \in Plans : p # None
  /\ "active" # None /\ "member" # None /\ "admin" # None /\ "accepted" # None
  /\ \A u \in Users : u # None
BY TeamPlansAssumption DEF Plans, None

\* No row, or rows that nothing refers to.
LEMMA AsideLawful ==
  ASSUME NEW q, NEW s, s \notin {"insertTeam", "deleteUser", "insertTeamSub"}, NEW w, NEW R, NEW v,
         Orderly(v, born), born \in Nat, DOMAIN w \subseteq Keys, \A k \in DOMAIN w : Aside(k)
  PROVE  Lawful(q, s, w, R, v)
<1>1. \A k, x \in Keys : Refers(k, x) => x \notin DOMAIN w
  BY RefersIs DEF Aside
<1>2. \A t : Sub(t) \notin DOMAIN w
  BY Tags DEF Aside
<1>3. /\ Honest(w, R, born, born, v)
      /\ \A t \in Teams : ~Put(w, TeamRow(t))
  BY <1>1, <1>2, DeletionHonest DEF Teams
<1> QED BY <1>2, <1>3 DEF Lawful, DrawnAfter, Deleted

LEMMA DeleteTeamLawful ==
  ASSUME NEW q, Asks(q), q.teams # {}, NEW v, Orderly(v, born), born \in Nat, NEW w,
         w = Writes(q, "deleteTeam", v), NEW R
  PROVE  Lawful(q, "deleteTeam", w, R, v)
<1>1. PICK t \in Teams : t = FirstOf(q.teams)
  BY FirstOfIs DEF Asks
<1>2. PICK K : K = TeamCascade(t, v)
  OBVIOUS
<1>3. w = Set(K, None)
  BY <1>1, <1>2 DEF Writes
<1>4. DOMAIN w = K /\ \A k \in K : w[k] = None
  BY <1>3, SetIs
<1>5. /\ K \subseteq Keys
      /\ \A k \in K : v[k] # None
      /\ \A o \in Teams : (TeamRow(o) \in K \/ Sub(o) \in K) => o = t
      /\ \A u \in Users : PlanOf(u) \notin K /\ Sub(u) \notin K
      /\ \A k : Refers(k, TeamRow(t)) /\ v[k] # None => k \in K
      /\ v[TeamRow(t)] # None => TeamRow(t) \in K
  BY <1>2, CascadeIs
<1>6. ASSUME NEW k \in Keys, NEW x \in Keys, Refers(k, x), x \in K PROVE k \in K \/ v[k] = None
  <2>1. x[1] = "teams" => x[2] \in Teams /\ x = TeamRow(x[2])
    BY <1>6, RefersIs
  <2>2. x[1] = "users" => x[2] \in Users /\ x = PlanOf(x[2])
    BY <1>6, RefersIs
  <2>3. x[1] \in {"users", "teams"}
    BY <1>6, RefersIs
  <2>4. x = TeamRow(t)
    BY <1>5, <1>6, <2>1, <2>2, <2>3
  <2> QED BY <1>5, <1>6, <2>4
<1>7. ASSUME NEW o \in Teams, Sub(o) \in K PROVE TeamRow(o) \in K
  <2>1. o = t /\ v[Sub(t)] # None /\ Refers(Sub(t), TeamRow(t))
    BY <1>5, <1>7 DEF Refers
  <2>2. v[TeamRow(t)] # None
    BY <2>1, KeysOfUsers DEF Orderly, Linked, Keys
  <2> QED BY <1>5, <2>1, <2>2
<1>8. /\ Honest(w, R, born, born, v)
      /\ \A o \in Teams : ~Put(w, TeamRow(o))
  BY <1>4, <1>5, <1>6, <1>7, DeletionHonest
<1> QED BY <1>4, <1>5, <1>8 DEF Lawful, DrawnAfter, Deleted

LEMMA DeleteMembershipsLawful ==
  ASSUME NEW q, Asks(q), NEW v, Orderly(v, born), born \in Nat, NEW w,
         w = Writes(q, "deleteMemberships", v), NEW R
  PROVE  Lawful(q, "deleteMemberships", w, R, v)
<1>1. PICK K : K = {Member(t, q.work.user) : t \in Teams}
  OBVIOUS
<1>2. w = Change(K, None, v)
  BY <1>1 DEF Writes
<1>3. DOMAIN w = {k \in K : v[k] # None} /\ \A k \in DOMAIN w : w[k] = None
  BY <1>2 DEF Change, Set
<1>4. \A k \in K : k \in Keys /\ k[1] = "team_members"
  BY <1>1, Tags, KeysOfTeams DEF Asks
<1>5. ASSUME NEW k \in Keys, NEW x \in Keys, Refers(k, x), x \in DOMAIN w PROVE FALSE
  <2>1. x[1] \in {"users", "teams"}
    BY <1>5, RefersIs
  <2> QED BY <1>3, <1>4, <1>5, <2>1
<1>6. \A t \in Teams \union Users : Sub(t) \notin DOMAIN w
  BY <1>3, <1>4, Tags
<1>7. /\ Honest(w, R, born, born, v)
      /\ \A o \in Teams : ~Put(w, TeamRow(o))
  <2>1. DOMAIN w \subseteq Keys /\ \A k \in DOMAIN w : v[k] # None /\ w[k] = None
    BY <1>3, <1>4
  <2> QED BY <1>5, <1>6, <2>1, DeletionHonest
<1> QED BY <1>6, <1>7 DEF Lawful, DrawnAfter, Deleted

LEMMA DeleteSubsLawful ==
  ASSUME NEW q, Asks(q), NEW v, Orderly(v, born), born \in Nat, NEW w,
         w = Writes(q, "deleteSubs", v), NEW R
  PROVE  Lawful(q, "deleteSubs", w, R, v)
<1>1. PICK k, u : k = Sub(u) /\ u = q.work.user
  OBVIOUS
<1>2. k \in Keys /\ k[1] = "subscriptions" /\ k[2] = u /\ u \in Users
  <2>1. u \in Users
    BY <1>1 DEF Asks
  <2>2. k \in Keys
    BY <1>1, <2>1, KeysOfUsers
  <2>3. k[1] = "subscriptions"
    BY <1>1, Tags
  <2>4. k[2] = u
    BY <1>1, MoreTags
  <2> QED BY <2>1, <2>2, <2>3, <2>4
<1>3. w = Change({k}, None, v)
  BY <1>1 DEF Writes
<1>4. DOMAIN w = {j \in {k} : v[j] # None} /\ \A j \in DOMAIN w : w[j] = None
  BY <1>3 DEF Change, Set
<1>5. ASSUME NEW j \in Keys, NEW x \in Keys, Refers(j, x), x \in DOMAIN w PROVE FALSE
  <2>1. x[1] \in {"users", "teams"}
    BY <1>5, RefersIs
  <2> QED BY <1>2, <1>4, <1>5, <2>1
<1>6. ASSUME NEW t, Sub(t) \in DOMAIN w PROVE t = u
  BY <1>2, <1>4, <1>6, MoreTags
<1>7. \A t \in Teams : Sub(t) \notin DOMAIN w
  BY <1>2, <1>6, ApartIds
<1>8. /\ Honest(w, R, born, born, v)
      /\ \A o \in Teams : ~Put(w, TeamRow(o))
  BY <1>2, <1>4, <1>5, <1>7, DeletionHonest
<1> QED BY <1>1, <1>6, <1>8 DEF Lawful, DrawnAfter, Deleted

LEMMA DeleteUserLawful ==
  ASSUME NEW q, Asks(q), NEW v, Orderly(v, born), born \in Nat, NEW w,
         w = Writes(q, "deleteUser", v), NEW R
  PROVE  Lawful(q, "deleteUser", w, R, v)
<1>1. PICK u \in Users : u = q.work.user
  BY DEF Asks
<1>2. PICK K, f, g : /\ K = UserCascade(u, v)
                     /\ f = Change({Scan(u)}, "orphan", v) /\ g = Set(K, None)
  OBVIOUS
<1>3. w = Join(f, g)
  BY <1>1, <1>2 DEF Writes
<1>4. DOMAIN f \subseteq {Scan(u)} /\ DOMAIN g = K /\ \A k \in K : g[k] = None
  BY <1>2 DEF Change, Set
<1>5. DOMAIN w = DOMAIN f \union K /\ \A k \in K : k \notin DOMAIN f => w[k] = None
  BY <1>3, <1>4 DEF Join
<1> DEFINE mem == {Member(t, u) : t \in Teams}
           teams == UNION {TeamCascade(t, v) : t \in Owned(u, v)}
<1>6. K = {k \in {PlanOf(u), Sub(u)} \union mem : v[k] # None} \union teams
  BY <1>2 DEF UserCascade
<1>7. \A k \in mem : k \in Keys /\ k[1] = "team_members"
  BY Tags, KeysOfTeams
<1>8. \A k \in teams : \E t \in Teams : t \in Owned(u, v) /\ k \in TeamCascade(t, v)
  BY DEF Owned
<1>9. \A t \in Owned(u, v) : t \in Teams /\ v[TeamRow(t)] # None /\ TeamCascade(t, v) \subseteq teams
  BY NoneIsOther DEF Owned
<1>10. \A t \in Teams : v[Member(t, u)] # None => Member(t, u) \in K
  BY <1>6
<1> HIDE DEF mem, teams
<1>11. Scan(u) \in Keys /\ Scan(u)[1] = "scans" /\ PlanOf(u) \in Keys /\ PlanOf(u)[1] = "users"
       /\ PlanOf(u)[2] = u /\ Sub(u) \in Keys /\ Sub(u)[1] = "subscriptions" /\ Sub(u)[2] = u
  BY KeysOfUsers, Tags, MoreTags
<1>12. \A k \in teams : k \in Keys /\ v[k] # None
  BY <1>8, CascadeIs
<1>13. DOMAIN w \subseteq Keys
  BY <1>4, <1>5, <1>6, <1>7, <1>11, <1>12
<1>14. ASSUME NEW k \in DOMAIN w PROVE Aside(k) \/ (v[k] # None /\ w[k] = None)
  <2>1. CASE k = Scan(u)
    BY <1>11, <2>1 DEF Aside
  <2>2. CASE k # Scan(u)
    BY <1>4, <1>5, <1>6, <1>12, <1>14, <2>2
  <2> QED BY <2>1, <2>2
<1>15. ASSUME NEW t \in Teams, TeamRow(t) \in DOMAIN w \/ Sub(t) \in DOMAIN w
       PROVE  t \in Owned(u, v)
  <2>1. TeamRow(t)[1] = "teams" /\ Sub(t)[1] = "subscriptions" /\ Sub(t)[2] = t /\ u # t
    BY Tags, MoreTags, ApartIds
  <2>2. TeamRow(t) \in teams \/ Sub(t) \in teams
    BY <1>4, <1>5, <1>6, <1>7, <1>11, <1>15, <2>1
  <2>3. PICK o \in Teams : o \in Owned(u, v) /\ (TeamRow(t) \in TeamCascade(o, v) \/ Sub(t) \in TeamCascade(o, v))
    BY <1>8, <2>2
  <2>4. o = t
    BY <2>3, CascadeIs
  <2> QED BY <2>3, <2>4
<1>16. ASSUME NEW t \in Owned(u, v) PROVE TeamRow(t) \in DOMAIN w
  <2>1. TeamRow(t) \in TeamCascade(t, v)
    BY <1>9, CascadeIs
  <2> QED BY <1>5, <1>6, <1>9, <2>1
<1>17. ASSUME NEW o \in Users, PlanOf(o) \in DOMAIN w PROVE o = u
  <2>1. PlanOf(o)[1] = "users" /\ PlanOf(o)[2] = o
    BY Tags, MoreTags
  <2>2. PlanOf(o) \notin teams
    BY <1>8, CascadeIs
  <2> QED BY <1>4, <1>5, <1>6, <1>7, <1>11, <1>17, <2>1, <2>2
<1>18. ASSUME NEW k \in Keys, NEW x \in Keys, Refers(k, x), x \in DOMAIN w PROVE k \in DOMAIN w \/ v[k] = None
  <2>1. x[1] = "teams" => x[2] \in Teams /\ x = TeamRow(x[2])
    BY <1>18, RefersIs
  <2>2. x[1] = "users" => x[2] \in Users /\ x = PlanOf(x[2]) /\ k = Sub(x[2])
    BY <1>18, RefersIs
  <2>3. x[1] \in {"users", "teams"}
    BY <1>18, RefersIs
  <2>4. CASE x[1] = "users"
    <3>1. k = Sub(u)
      BY <1>17, <1>18, <2>2, <2>4
    <3> QED BY <1>5, <1>6, <3>1
  <2>5. CASE x[1] = "teams"
    <3>1. PICK t \in Owned(u, v) : x = TeamRow(t)
      BY <1>15, <1>18, <2>1, <2>5
    <3>2. v[k] # None => k \in TeamCascade(t, v)
      BY <1>9, <1>18, <3>1, CascadeIs
    <3> QED BY <1>5, <1>6, <1>9, <3>1, <3>2
  <2> QED BY <2>3, <2>4, <2>5
<1>19. /\ Honest(w, R, born, born, v)
       /\ \A o \in Teams : ~Put(w, TeamRow(o))
  <2>1. \A k, x \in Keys : Refers(k, x) /\ x \in DOMAIN w => k \in DOMAIN w \/ v[k] = None
    BY <1>18
  <2>2. \A t \in Teams : Sub(t) \in DOMAIN w => TeamRow(t) \in DOMAIN w
    BY <1>15, <1>16
  <2>3. DOMAIN w \subseteq Keys /\ \A k \in DOMAIN w : Aside(k) \/ (v[k] # None /\ w[k] = None)
    BY <1>13, <1>14
  <2>4. born \in Nat /\ born <= born /\ Orderly(v, born)
    OBVIOUS
  <2> QED BY <2>1, <2>2, <2>3, <2>4, DeletionHonest
<1>20. Over(w, v)[PlanOf(u)] = None
  <2>1. CASE PlanOf(u) \in DOMAIN w
    <3>1. w[PlanOf(u)] = None
      BY <1>11, <1>14, <2>1 DEF Aside
    <3> QED BY <1>11, <2>1, <3>1, OverIs DEF Deleted
  <2>2. CASE PlanOf(u) \notin DOMAIN w
    BY <1>5, <1>6, <1>11, <2>2, OverIs
  <2> QED BY <2>1, <2>2
<1>21. ASSUME NEW o \in Users, Deleted(w, Sub(o)) PROVE o = u
  <2>1. Sub(o)[1] = "subscriptions" /\ Sub(o)[2] = o
    BY Tags, MoreTags
  <2>2. Sub(o) \notin teams
    BY <1>8, CascadeIs
  <2> QED BY <1>4, <1>5, <1>6, <1>7, <1>11, <1>21, <2>1, <2>2 DEF Deleted
<1> QED BY <1>1, <1>19, <1>20, <1>21 DEF Lawful, DrawnAfter

LEMMA PutLawful ==
  ASSUME NEW q, NEW s, s # "deleteUser", NEW w, NEW R, NEW v, Orderly(v, born), born \in Nat,
         NEW k \in Keys, NEW a, a # None, ValueOK(k, a),
         DOMAIN w \subseteq {k}, k \in DOMAIN w => w[k] = a,
         \A x : Refers(k, x) /\ k \in DOMAIN w => x \in R \/ v[k] # None,
         \A t \in Teams : k = TeamRow(t) /\ k \in DOMAIN w => v[k] # None \/ (s = "insertTeam" /\ t = born + 1),
         \A t \in Teams : k = Sub(t) /\ k \in DOMAIN w => v[TeamRow(t)] # None,
         \A u \in Users : k = PlanOf(u) /\ k \in DOMAIN w => v[k] # None,
         s = "insertTeamSub" => k = Sub(q.team) /\ k \in DOMAIN w
  PROVE  Lawful(q, s, w, R, v)
<1>1. PICK n \in Nat : n = DrawnAfter(s) /\ (s # "insertTeam" => n = born) /\ (s = "insertTeam" => n = born + 1)
  BY DEF DrawnAfter
<1>2. ASSUME NEW t \in Teams, k = TeamRow(t), k \in DOMAIN w PROVE (v[k] # None \/ t > born) /\ ~(t > n)
  <2>1. t > born => v[k] = None
    BY <1>2 DEF Orderly
  <2> QED BY <1>1, <1>2, <2>1 DEF Teams
<1>3. ASSUME NEW t \in Teams, k = Sub(t), k \in DOMAIN w PROVE ~(t > n)
  <2>1. ~(t > born)
    BY <1>3 DEF Orderly
  <2> QED BY <1>1, <2>1 DEF Teams
<1>4. Honest(w, R, born, n, v) /\ \A x : ~Deleted(w, x)
  BY <1>2, <1>3, PutHonest
<1>5. \A x : Put(w, x) <=> x = k /\ k \in DOMAIN w
  BY DEF Put
<1> QED BY <1>1, <1>4, <1>5 DEF Lawful

LEMMA SetOne ==
  ASSUME NEW k, NEW a, NEW w, w = Set({k}, a)
  PROVE  DOMAIN w \subseteq {k} /\ k \in DOMAIN w /\ w[k] = a
BY DEF Set

\* What the rows put refer to.
LEMMA RefersOf ==
  ASSUME NEW t \in Teams, NEW u \in Users, NEW x
  PROVE  /\ ~Refers(PlanOf(u), x) /\ ~Refers(TeamRow(t), x)
         /\ Refers(Sub(t), x) => x = TeamRow(t)
         /\ Refers(Sub(u), x) => x = PlanOf(u)
         /\ Refers(Member(t, u), x) => x = TeamRow(t)
<1>1. u \notin Teams /\ t \notin Users
  BY ApartIds
<1>2. PlanOf(u)[1] = "users" /\ TeamRow(t)[1] = "teams"
  BY Tags
<1>3. Sub(t)[2] = t /\ Sub(u)[2] = u /\ Member(t, u)[2] = t /\ Member(t, u)[1] = "team_members"
  BY Tags, MoreTags
<1>4. ~Refers(PlanOf(u), x) /\ ~Refers(TeamRow(t), x)
  BY <1>2, RefersIs
<1>5. ASSUME Refers(Sub(t), x) PROVE x = TeamRow(t)
  <2>1. x[2] = t /\ (x[1] = "teams" => x = TeamRow(x[2])) /\ (x[1] = "users" => x[2] \in Users)
        /\ x[1] \in {"users", "teams"}
    BY <1>3, <1>5, RefersIs
  <2> QED BY <1>1, <2>1
<1>6. ASSUME Refers(Sub(u), x) PROVE x = PlanOf(u)
  <2>1. x[2] = u /\ (x[1] = "teams" => x[2] \in Teams) /\ (x[1] = "users" => x = PlanOf(x[2]))
        /\ x[1] \in {"users", "teams"}
    BY <1>3, <1>6, RefersIs
  <2> QED BY <1>1, <2>1
<1>7. ASSUME Refers(Member(t, u), x) PROVE x = TeamRow(t)
  <2>1. x[2] = t /\ (x[1] = "teams" => x = TeamRow(x[2])) /\ x[1] \in {"users", "teams"}
        /\ (x[1] = "users" => Member(t, u) = Sub(x[2]))
    BY <1>3, <1>7, RefersIs
  <2>2. Sub(x[2])[1] = "subscriptions"
    BY Tags
  <2> QED BY <1>3, <2>1, <2>2
<1> QED BY <1>4, <1>5, <1>6, <1>7

\* INSERT, UPDATE and upsert of one row.
LEMMA PutStatements ==
  ASSUME NEW q, Asks(q), NEW s, NEW v, Orderly(v, born), born \in Nat, NEW w, w = Writes(q, s, v),
         NEW R, R = Parents(q, s, v), \A x \in R : v[x] # None, DrawnAfter(s) <= MaxTeams,
         s \in {"updatePlan", "insertTeam", "insertTeamSub", "insertUserSub", "upsertMember",
                "setOwner", "formerOwnerAdmin", "targetMember"}
  PROVE  Lawful(q, s, w, R, v)
<1>1. PICK u \in Users, o \in Users, t \in Teams, p \in Plans :
        u = q.work.user /\ o = q.work.to /\ t = q.team /\ p = q.work.plan
  BY DEF Asks
<1>2. /\ PlanOf(u) \in Keys /\ TeamRow(t) \in Keys /\ Sub(t) \in Keys /\ Sub(u) \in Keys
      /\ Member(t, u) \in Keys /\ Member(t, o) \in Keys
  BY KeysOfUsers, KeysOfTeams
<1>3. /\ PlanOf(u)[1] = "users" /\ Sub(t)[1] = "subscriptions" /\ Sub(u)[1] = "subscriptions" /\ Sub(t)[2] = t
      /\ Sub(u)[2] = u /\ TeamRow(t)[1] = "teams" /\ TeamRow(t)[2] = t
      /\ Member(t, u)[1] = "team_members" /\ Member(t, o)[1] = "team_members"
  BY Tags, MoreTags
<1>4. /\ \A i \in Teams : TeamRow(i)[1] = "teams" /\ Sub(i)[1] = "subscriptions" /\ Sub(i)[2] = i /\ TeamRow(i)[2] = i
      /\ \A i \in Users : PlanOf(i)[1] = "users" /\ i \notin Teams
  BY Tags, MoreTags, ApartIds
<1>5. CASE s = "updatePlan"
  <2>1. w = Change({PlanOf(u)}, p, v)
    BY <1>1, <1>5 DEF Writes
  <2>2. ValueOK(PlanOf(u), p) /\ p # None
    BY <1>3, NoneIsOther DEF ValueOK
  <2>3. \A x : ~Refers(PlanOf(u), x)
    BY RefersOf
  <2>4. DOMAIN w \subseteq {PlanOf(u)} /\ (PlanOf(u) \in DOMAIN w => w[PlanOf(u)] = p /\ v[PlanOf(u)] # None)
    BY <2>1 DEF Change, Set
  <2> QED BY <1>2, <1>3, <1>4, <1>5, <2>2, <2>3, <2>4, PutLawful
<1>6. CASE s = "insertTeam"
  <2>1. PICK n \in Teams : n = born + 1
    BY <1>6, TeamPlansAssumption DEF DrawnAfter, Teams
  <2>2. w = Set({TeamRow(n)}, u)
    BY <1>1, <1>6, <2>1 DEF Writes
  <2>3. TeamRow(n) \in Keys /\ TeamRow(n)[1] = "teams" /\ TeamRow(n)[2] = n
    BY KeysOfTeams, <1>4
  <2>4. ValueOK(TeamRow(n), u) /\ u # None
    BY <2>3, NoneIsOther DEF ValueOK
  <2>5. \A x : ~Refers(TeamRow(n), x)
    BY RefersOf
  <2>6. DOMAIN w \subseteq {TeamRow(n)} /\ (TeamRow(n) \in DOMAIN w => w[TeamRow(n)] = u)
    BY <2>2, SetOne
  <2> QED BY <1>4, <1>6, <2>1, <2>3, <2>4, <2>5, <2>6, PutLawful
<1>7. CASE s = "insertTeamSub"
  <2>1. w = Set({Sub(t)}, "active") /\ R = {TeamRow(t)}
    BY <1>1, <1>7 DEF Writes, Parents
  <2>2. ValueOK(Sub(t), "active") /\ "active" # None
    BY <1>3, NoneIsOther DEF ValueOK
  <2>3. \A x : Refers(Sub(t), x) => x = TeamRow(t)
    BY RefersOf
  <2>4. DOMAIN w \subseteq {Sub(t)} /\ w[Sub(t)] = "active" /\ Sub(t) \in DOMAIN w
    BY <2>1, SetOne
  <2>5. v[TeamRow(t)] # None
    BY <2>1
  <2> QED BY <1>1, <1>2, <1>3, <1>4, <1>7, <2>1, <2>2, <2>3, <2>4, <2>5, PutLawful
<1>8. CASE s = "insertUserSub"
  <2>1. w = Set({Sub(u)}, "active") /\ R = {PlanOf(u)}
    BY <1>1, <1>8 DEF Writes, Parents
  <2>2. ValueOK(Sub(u), "active") /\ "active" # None
    BY <1>3, NoneIsOther DEF ValueOK
  <2>3. \A x : Refers(Sub(u), x) => x = PlanOf(u)
    BY RefersOf
  <2>4. DOMAIN w \subseteq {Sub(u)} /\ (Sub(u) \in DOMAIN w => w[Sub(u)] = "active")
    BY <2>1, SetOne
  <2>5. u \notin Teams
    BY ApartIds
  <2> QED BY <1>2, <1>3, <1>4, <1>8, <2>1, <2>2, <2>3, <2>4, <2>5, PutLawful
<1>9. ASSUME NEW i \in Users, NEW a \in {"member", "admin"}, s \in {"upsertMember", "formerOwnerAdmin", "targetMember"},
             \/ w = Set({Member(t, i)}, a) /\ TeamRow(t) \in R
             \/ w = Change({Member(t, i)}, a, v)
      PROVE  Lawful(q, s, w, R, v)
  <2>1. PICK k \in Keys : k = Member(t, i) /\ k[1] = "team_members"
    BY KeysOfTeams, Tags
  <2>2. ValueOK(k, a) /\ a # None
    BY <2>1, NoneIsOther DEF ValueOK, Roles
  <2>3. \A x : Refers(k, x) => x = TeamRow(t)
    BY <2>1, RefersOf
  <2>4. DOMAIN w \subseteq {k} /\ (k \in DOMAIN w => w[k] = a)
    BY <1>9, <2>1 DEF Change, Set
  <2>5. k \in DOMAIN w => TeamRow(t) \in R \/ v[k] # None
    BY <1>9, <2>1 DEF Change, Set
  <2> QED BY <1>4, <1>9, <2>1, <2>2, <2>3, <2>4, <2>5, PutLawful
<1>10. CASE s = "upsertMember"
  <2>1. w = Set({Member(t, u)}, "member") /\ TeamRow(t) \in R
    BY <1>1, <1>10 DEF Writes, Parents
  <2> QED BY <1>9, <1>10, <2>1
<1>11. CASE s = "formerOwnerAdmin"
  <2>1. w = Set({Member(t, u)}, "admin") /\ TeamRow(t) \in R
    BY <1>1, <1>11 DEF Writes, Parents
  <2> QED BY <1>9, <1>11, <2>1
<1>12. CASE s = "targetMember"
  <2>1. w = Change({Member(t, o)}, "member", v)
    BY <1>1, <1>12 DEF Writes
  <2> QED BY <1>9, <1>12, <2>1
<1>13. CASE s = "setOwner"
  <2>1. w = Change({TeamRow(t)}, o, v)
    BY <1>1, <1>13 DEF Writes
  <2>2. ValueOK(TeamRow(t), o) /\ o # None
    BY <1>3, NoneIsOther DEF ValueOK
  <2>3. \A x : ~Refers(TeamRow(t), x)
    BY RefersOf
  <2>4. DOMAIN w \subseteq {TeamRow(t)} /\ (TeamRow(t) \in DOMAIN w => w[TeamRow(t)] = o /\ v[TeamRow(t)] # None)
    BY <2>1 DEF Change, Set
  <2> QED BY <1>2, <1>3, <1>4, <1>13, <2>2, <2>3, <2>4, PutLawful
<1> QED BY <1>5, <1>6, <1>7, <1>8, <1>10, <1>11, <1>12, <1>13

\* All of them.
LEMMA StatementLawful ==
  ASSUME NEW q, AtWork(q), q.todo # <<>>, NEW s, s = Head(q.todo), NEW v, Orderly(v, born), born \in Nat,
         NEW w, w = Writes(q, s, v), NEW R, R = Parents(q, s, v), \A x \in R : v[x] # None,
         DrawnAfter(s) <= MaxTeams
  PROVE  Lawful(q, s, w, R, v)
<1>0. Asks(q) /\ (s = "deleteTeam" => q.teams # {})
  BY DEF AtWork
<1>1. PICK u \in Users, t \in Teams : u = q.work.user /\ t = q.team
  BY <1>0 DEF Asks
<1>2. CASE s \in {"acceptInvite", "deleteScans", "insertScan"}
  <2>1. PICK k \in {Invite(t, u), Scan(u)} : \E a : w = Set({k}, a) \/ w = Change({k}, a, v)
    BY <1>1, <1>2 DEF Writes
  <2>2. k \in Keys /\ Aside(k)
    BY <2>1, KeysOfUsers, KeysOfInvites, Tags DEF Aside
  <2>3. DOMAIN w \subseteq {k}
    BY <2>1 DEF Change, Set
  <2> QED BY <1>2, <2>2, <2>3, AsideLawful
<1>3. CASE s \in {"updatePlan", "insertTeam", "insertTeamSub", "insertUserSub", "upsertMember",
                  "setOwner", "formerOwnerAdmin", "targetMember"}
  BY <1>0, <1>3, PutStatements
<1>4. CASE s \in {"deleteTeam", "deleteMemberships", "deleteSubs", "deleteUser"}
  BY <1>0, <1>4, DeleteTeamLawful, DeleteMembershipsLawful, DeleteSubsLawful, DeleteUserLawful
<1>5. CASE s \notin {"acceptInvite", "deleteScans", "insertScan", "updatePlan", "insertTeam", "insertTeamSub",
                     "insertUserSub", "upsertMember", "setOwner", "formerOwnerAdmin", "targetMember",
                     "deleteTeam", "deleteMemberships", "deleteSubs", "deleteUser"}
  <2>1. w = Empty
    BY <1>5 DEF Writes
  <2>2. DOMAIN w = {}
    BY <2>1, EmptyIs
  <2> QED BY <1>5, <2>2, AsideLawful
<1> QED BY <1>2, <1>3, <1>4, <1>5

-----------------------------------------------------------------------------
(* The steps *)

\* What is left of a deletion of the account once its subscription is gone, and of a
\* change to the team plan once the team is there.
Halves == {<<"deleteMemberships", "deleteUser", "COMMIT">>, <<"deleteUser", "COMMIT">>}
HalfGone(r, u, c) ==
  /\ req[r].work.kind = "delete" /\ req[r].work.user = u
  /\ r \in mixed \/ (conn[c].holder = r /\ req[r].todo \in Halves)
HalfMade(r, t, c) == conn[c].holder = r /\ req[r].todo = <<"insertTeamSub", "COMMIT">> /\ req[r].team = t

\* The transaction on c takes a user's subscription with the user, and makes a team with
\* its own, but for what its request has still to send.
Kept(c) ==
  /\ \A u \in Users : Deleted(conn[c].pending, Sub(u)) =>
       \/ Over(conn[c].pending, db)[PlanOf(u)] = None
       \/ \E r \in Requests : HalfGone(r, u, c)
  /\ mixed = {} => \A t \in Teams : Put(conn[c].pending, TeamRow(t)) =>
       \/ db[TeamRow(t)] # None
       \/ Put(conn[c].pending, Sub(t))
       \/ \E r \in Requests : HalfMade(r, t, c)

Relying(c) ==
  /\ conn[c].tx # "open" => conn[c].pending = Empty /\ conn[c].refs = {}
  /\ Sound(conn[c].pending, conn[c].refs, born, db)

Separate(c, d) == Apart(conn[c].pending, conn[c].refs, conn[d].pending, conn[d].refs)

TeamsPaid == \A t \in Teams : db[TeamRow(t)] # None => db[Sub(t)] # None

RowsInv ==
  /\ db = [k \in Keys |-> db[k]] /\ born \in 0..MaxTeams /\ Orderly(db, born)
  /\ mixed = {} => TeamsPaid
  /\ \A c \in Conns : Relying(c) /\ Kept(c)
  /\ \A c \in Conns : \A d \in Conns \ {c} : Separate(c, d)
  /\ \A r \in Requests : AtWork(req[r])

\* A step takes a subscription from a team only with the team, and from a user only with
\* the user or by a deletion of the account that is split.
SubsStay ==
  /\ \A t \in Teams : db[Sub(t)] # None /\ db'[Sub(t)] = None => db'[TeamRow(t)] = None
  /\ \A u \in Users : db[Sub(u)] # None /\ db'[Sub(u)] = None => db'[PlanOf(u)] = None \/ u \in SplitDeletions'

LEMMA SameSubs == db' = db => SubsStay
BY DEF SubsStay

\* A step of request p on connection c.
LEMMA RowsStep ==
  ASSUME RowsInv, NEW p \in Requests, NEW c \in Conns,
         \A d \in Conns \ {c} : conn'[d] = conn[d],
         \A q \in Requests \ {p} : req'[q] = req[q],
         req'[p].work = req[p].work, mixed \subseteq mixed', AtWork(req'[p]),
         p \notin mixed' => \A d \in Conns \ {c} : conn[d].holder # p,
         born' \in 0..MaxTeams, db' = [k \in Keys |-> db'[k]], Orderly(db', born'),
         mixed' = {} => TeamsPaid', Relying(c)', Kept(c)',
         \A d \in Conns \ {c} : Apart(conn'[c].pending, conn'[c].refs, conn[d].pending, conn[d].refs),
         \A d \in Conns \ {c} : Sound(conn[d].pending, conn[d].refs, born', db'),
         \A u \in Users : db[PlanOf(u)] = None => db'[PlanOf(u)] = None,
         \A d \in Conns \ {c} : \A k \in DOMAIN conn[d].pending : db'[k] = db[k]
  PROVE  RowsInv'
<1>1. \A r \in Requests : req'[r].work = req[r].work
  OBVIOUS
<1>2. ASSUME NEW d \in Conns \ {c} PROVE Relying(d)'
  <2>1. conn'[d] = conn[d] /\ (conn[d].tx # "open" => conn[d].pending = Empty /\ conn[d].refs = {})
    BY DEF RowsInv, Relying
  <2>2. Sound(conn[d].pending, conn[d].refs, born', db')
    OBVIOUS
  <2>3. Sound(conn'[d].pending, conn'[d].refs, born', db')
    BY <2>1, <2>2
  <2>4. Sound(conn[d].pending, conn[d].refs, born, db)'
    BY <2>3 DEF Sound, Linked, Over
  <2> QED BY <2>1, <2>4 DEF Relying
<1>3. ASSUME NEW d \in Conns \ {c}, NEW u \in Users, Deleted(conn[d].pending, Sub(u))
      PROVE  \/ Over(conn[d].pending, db')[PlanOf(u)] = None
             \/ \E r \in Requests : HalfGone(r, u, d)'
  <2>1. CASE Over(conn[d].pending, db)[PlanOf(u)] = None
    <3>1. PlanOf(u) \in Keys
      BY KeysOfUsers
    <3>2. Deleted(conn[d].pending, PlanOf(u)) \/ (PlanOf(u) \notin DOMAIN conn[d].pending /\ db[PlanOf(u)] = None)
      BY <2>1, <3>1, OverIs
    <3> QED BY <3>1, <3>2, OverIs
  <2>2. ASSUME NEW r \in Requests, HalfGone(r, u, d) PROVE HalfGone(r, u, d)'
    <3>1. req'[r].work.kind = "delete" /\ req'[r].work.user = u
      BY <1>1, <2>2 DEF HalfGone
    <3>2. CASE r = p
      <4>1. p \in mixed'
        BY <2>2, <3>2 DEF HalfGone
      <4> QED BY <3>1, <3>2, <4>1 DEF HalfGone
    <3>3. CASE r # p
      <4>1. req'[r] = req[r] /\ conn'[d] = conn[d]
        BY <3>3
      <4> QED BY <2>2, <3>1, <4>1 DEF HalfGone
    <3> QED BY <3>2, <3>3
  <2>3. Kept(d)
    BY DEF RowsInv
  <2> QED BY <1>3, <2>1, <2>2, <2>3 DEF Kept
<1>4. ASSUME NEW d \in Conns \ {c}, mixed' = {}, NEW t \in Teams, Put(conn[d].pending, TeamRow(t))
      PROVE  \/ db'[TeamRow(t)] # None \/ Put(conn[d].pending, Sub(t))
             \/ \E r \in Requests : HalfMade(r, t, d)'
  <2>1. mixed = {} /\ db'[TeamRow(t)] = db[TeamRow(t)] /\ Kept(d)
    BY <1>4 DEF RowsInv, Put
  <2>2. ASSUME NEW r \in Requests, HalfMade(r, t, d) PROVE HalfMade(r, t, d)'
    <3>1. r # p
      BY <1>4, <2>2 DEF HalfMade
    <3>2. req'[r] = req[r] /\ conn'[d] = conn[d]
      BY <3>1
    <3> QED BY <2>2, <3>2 DEF HalfMade
  <2> QED BY <1>4, <2>1, <2>2 DEF Kept
<1>5. ASSUME NEW d \in Conns \ {c} PROVE Kept(d)'
  <2>1. conn'[d] = conn[d]
    OBVIOUS
  <2>2. ASSUME NEW u \in Users, Deleted(conn'[d].pending, Sub(u))
        PROVE  Over(conn'[d].pending, db')[PlanOf(u)] = None \/ \E r \in Requests : HalfGone(r, u, d)'
    BY <1>3, <2>1, <2>2
  <2>3. ASSUME mixed' = {}, NEW t \in Teams, Put(conn'[d].pending, TeamRow(t))
        PROVE  \/ db'[TeamRow(t)] # None \/ Put(conn'[d].pending, Sub(t))
               \/ \E r \in Requests : HalfMade(r, t, d)'
    BY <1>4, <2>1, <2>3
  <2> QED BY <2>2, <2>3 DEF Kept, Deleted, Put, Over
<1>6. ASSUME NEW e \in Conns, NEW d \in Conns \ {e} PROVE Separate(e, d)'
  <2>1. CASE e = c
    <3>1. Apart(conn'[c].pending, conn'[c].refs, conn[d].pending, conn[d].refs) /\ conn'[d] = conn[d]
      BY <2>1
    <3> QED BY <2>1, <3>1 DEF Separate, Apart, Deleted
  <2>2. CASE d = c
    <3>1. e \in Conns \ {c}
      BY <2>2
    <3>2. Apart(conn'[c].pending, conn'[c].refs, conn[e].pending, conn[e].refs) /\ conn'[e] = conn[e]
      BY <3>1
    <3>3. Apart(conn[e].pending, conn[e].refs, conn'[c].pending, conn'[c].refs)
      BY <3>2, ApartSwaps
    <3> QED BY <2>2, <3>2, <3>3 DEF Separate, Apart, Deleted
  <2>3. CASE e # c /\ d # c
    <3>1. Separate(e, d) /\ conn'[e] = conn[e] /\ conn'[d] = conn[d]
      BY <2>3 DEF RowsInv
    <3> QED BY <3>1 DEF Separate, Apart, Deleted
  <2> QED BY <2>1, <2>2, <2>3
<1>7. ASSUME NEW r \in Requests PROVE AtWork(req[r])'
  <2>1. AtWork(req'[r])
    BY DEF RowsInv
  <2> QED BY <2>1 DEF AtWork, Asks, Followed
<1>8. Orderly(db, born)'
  BY DEF Orderly, Linked
<1> QED BY <1>2, <1>5, <1>6, <1>7, <1>8 DEF RowsInv

\* Nothing is open on the connection.
LEMMA EmptyKept ==
  ASSUME NEW c \in Conns, conn[c].pending = Empty, conn[c].refs = {}, Orderly(db, born), db = [k \in Keys |-> db[k]]
  PROVE  Relying(c) /\ Kept(c)
<1>1. Sound(conn[c].pending, conn[c].refs, born, db)
  BY SoundEmpty
<1>2. ASSUME NEW k PROVE ~Deleted(conn[c].pending, k) /\ ~Put(conn[c].pending, k)
  BY EmptyIs
<1> QED BY <1>1, <1>2 DEF Relying, Kept

\* The writes w, of a transaction on c or of a statement by itself, are committed.
LEMMA ApplyStep ==
  ASSUME RowsInv, NEW p \in Requests, NEW c \in Conns,
         \A d \in Conns \ {c} : conn'[d] = conn[d],
         \A q \in Requests \ {p} : req'[q] = req[q],
         req'[p].work = req[p].work, mixed \subseteq mixed', AtWork(req'[p]),
         p \notin mixed' => \A d \in Conns \ {c} : conn[d].holder # p,
         born' \in 0..MaxTeams, born <= born', conn'[c].pending = Empty, conn'[c].refs = {},
         NEW w, NEW R, db' = Over(w, db), Sound(w, R, born', db),
         \A d \in Conns \ {c} : Apart(w, R, conn[d].pending, conn[d].refs),
         mixed' = {} => \A t \in Teams : Put(w, TeamRow(t)) => db[TeamRow(t)] # None \/ Put(w, Sub(t)),
         \A u \in Users : Deleted(w, Sub(u)) => Over(w, db)[PlanOf(u)] = None \/ u \in SplitDeletions'
  PROVE  RowsInv' /\ SubsStay
<1>0. born \in 0..MaxTeams /\ Orderly(db, born) /\ born \in Nat /\ born' \in Nat
  BY DEF RowsInv
<1>1. PICK o : o = Over(w, db)
  OBVIOUS
<1>2. db' = o /\ o = [k \in Keys |-> o[k]]
  BY <1>1 DEF Over
<1>3. /\ DOMAIN o = Keys
      /\ \A k \in Keys : o[k] = IF k \in DOMAIN w THEN w[k] ELSE db[k]
      /\ \A k \in Keys : o[k] = None <=> Deleted(w, k) \/ (k \notin DOMAIN w /\ db[k] = None)
      /\ \A k \in Keys : o[k] # None <=> Put(w, k) \/ (k \notin DOMAIN w /\ db[k] # None)
  BY <1>1, OverIs
<1>4. Orderly(o, born')
  <2>1. \A t \in Teams : t > born' => t > born
    BY <1>0 DEF Teams
  <2>2. Orderly(db, born')
    BY <1>0, <2>1 DEF Orderly
  <2> QED BY <1>1, <2>2, SoundSees
<1>5. Relying(c)' /\ Kept(c)'
  <2>1. PICK b : b = born'
    OBVIOUS
  <2>2. Sound(Empty, {}, b, o)
    BY <1>2, <1>4, <2>1, SoundEmpty
  <2>3. Relying(c)'
    BY <1>2, <2>1, <2>2 DEF Relying, Sound, Linked, Over
  <2>4. Kept(c)'
    BY EmptyIs DEF Kept, Deleted, Put
  <2> QED BY <2>3, <2>4
<1>6. ASSUME mixed' = {} PROVE TeamsPaid'
  <2>1. ASSUME NEW t \in Teams, o[TeamRow(t)] # None PROVE o[Sub(t)] # None
    <3>1. TeamRow(t) \in Keys /\ Sub(t) \in Keys
      BY DEF Keys
    <3>2. db[TeamRow(t)] # None => db[Sub(t)] # None
      BY <1>6 DEF RowsInv, TeamsPaid
    <3>3. ~Deleted(w, Sub(t))
      BY <1>3, <2>1, <3>1 DEF Sound, Put, Deleted
    <3>4. db[TeamRow(t)] # None \/ Put(w, Sub(t))
      BY <1>3, <1>6, <2>1, <3>1
    <3> QED BY <1>3, <3>1, <3>2, <3>3, <3>4 DEF Put, Deleted
  <2> QED BY <1>2, <2>1 DEF TeamsPaid
<1>7. ASSUME NEW d \in Conns \ {c}
      PROVE  /\ Apart(conn'[c].pending, conn'[c].refs, conn[d].pending, conn[d].refs)
             /\ Sound(conn[d].pending, conn[d].refs, born', db')
             /\ \A k \in DOMAIN conn[d].pending : db'[k] = db[k]
  <2>1. Apart(w, R, conn[d].pending, conn[d].refs) /\ Sound(conn[d].pending, conn[d].refs, born, db)
    BY DEF RowsInv, Relying
  <2>2. Sound(conn[d].pending, conn[d].refs, born', db)
    BY <1>0, <2>1, SoundLater
  <2>3. Sound(conn[d].pending, conn[d].refs, born', o)
    BY <1>1, <2>1, <2>2, ApplySound
  <2>4. \A k \in DOMAIN conn[d].pending : k \in Keys /\ k \notin DOMAIN w
    BY <2>1 DEF Apart, Sound, RowsOK
  <2>5. Apart(Empty, {}, conn[d].pending, conn[d].refs)
    BY EmptyIs DEF Apart
  <2> QED BY <1>2, <1>3, <2>3, <2>4, <2>5
<1>8. ASSUME NEW u \in Users, db[PlanOf(u)] = None PROVE db'[PlanOf(u)] = None
  <2>1. PlanOf(u) \in Keys
    BY KeysOfUsers
  <2>2. ~Put(w, PlanOf(u))
    BY <1>8 DEF Sound
  <2> QED BY <1>2, <1>3, <1>8, <2>1, <2>2
<1>9. db' = [k \in Keys |-> db'[k]] /\ Orderly(db', born')
  BY <1>2, <1>4
<1>10. ASSUME NEW x \in Users \union Teams, db[Sub(x)] # None, db'[Sub(x)] = None PROVE Deleted(w, Sub(x))
  <2>1. Sub(x) \in Keys
    BY DEF Keys
  <2> QED BY <1>2, <1>3, <1>10, <2>1
<1>11. ASSUME NEW t \in Teams, Deleted(w, Sub(t)) PROVE db'[TeamRow(t)] = None
  <2>1. Deleted(w, TeamRow(t)) /\ TeamRow(t) \in Keys
    BY <1>11 DEF Sound, Keys
  <2> QED BY <1>2, <1>3, <2>1
<1>12. SubsStay
  BY <1>10, <1>11 DEF SubsStay
<1>13. RowsInv'
  BY <1>5, <1>6, <1>7, <1>8, <1>9, RowsStep
<1> QED BY <1>12, <1>13

\* The transaction on c goes on, or is dropped; the committed rows stay.
LEMMA InsideStep ==
  ASSUME RowsInv, NEW p \in Requests, NEW c \in Conns,
         \A d \in Conns \ {c} : conn'[d] = conn[d],
         \A q \in Requests \ {p} : req'[q] = req[q],
         req'[p].work = req[p].work, mixed \subseteq mixed', AtWork(req'[p]),
         p \notin mixed' => \A d \in Conns \ {c} : conn[d].holder # p,
         born' \in 0..MaxTeams, born <= born', db' = db,
         Relying(c)', Kept(c)',
         \A d \in Conns \ {c} : Apart(conn'[c].pending, conn'[c].refs, conn[d].pending, conn[d].refs)
  PROVE  RowsInv'
<1>0. born \in 0..MaxTeams /\ Orderly(db, born) /\ born \in Nat /\ born' \in Nat
  BY DEF RowsInv
<1>1. \A t \in Teams : t > born' => t > born
  BY <1>0 DEF Teams
<1>2. db' = [k \in Keys |-> db'[k]] /\ Orderly(db', born')
  BY <1>0, <1>1 DEF RowsInv, Orderly
<1>3. ASSUME NEW d \in Conns \ {c} PROVE Sound(conn[d].pending, conn[d].refs, born', db')
  <2>1. Sound(conn[d].pending, conn[d].refs, born, db)
    BY DEF RowsInv, Relying
  <2>2. Sound(conn[d].pending, conn[d].refs, born', db)
    BY <1>0, <2>1, SoundLater
  <2> QED BY <2>2
<1>4. mixed' = {} => TeamsPaid'
  BY DEF RowsInv, TeamsPaid
<1> QED BY <1>2, <1>3, <1>4, RowsStep

\* What a connection has written and relies on stays, or is dropped.
LEMMA DropStep ==
  ASSUME PlansInv, RowsInv, NEW p \in Requests, NEW c \in Conns,
         \A d \in Conns \ {c} : conn'[d] = conn[d],
         \A q \in Requests \ {p} : req'[q] = req[q],
         req'[p].work = req[p].work, mixed \subseteq mixed', AtWork(req'[p]),
         p \notin mixed' => \A d \in Conns \ {c} : conn[d].holder # p,
         \A r \in Requests \ {p} : r \notin mixed' => conn[c].holder # r,
         born' = born, db' = db,
         \/ conn'[c].pending = Empty /\ conn'[c].refs = {}
         \/ /\ conn'[c].pending = conn[c].pending /\ conn'[c].refs = conn[c].refs /\ conn'[c].tx = conn[c].tx
            /\ Head(req[p].todo) \notin {"deleteMemberships", "deleteUser", "insertTeamSub"}
  PROVE  RowsInv'
<1>0. born' \in 0..MaxTeams /\ born <= born' /\ Orderly(db, born) /\ db = [k \in Keys |-> db[k]]
  BY DEF RowsInv
<1>1. CASE conn'[c].pending = Empty /\ conn'[c].refs = {}
  <2>1. Relying(c)' /\ Kept(c)'
    <3>1. Sound(Empty, {}, born, db)
      BY <1>0, SoundEmpty
    <3>2. Relying(c)'
      BY <1>1, <3>1 DEF Relying, Sound, Linked, Over
    <3>3. Kept(c)'
      BY <1>1, EmptyIs DEF Kept, Deleted, Put
    <3> QED BY <3>2, <3>3
  <2>2. \A d \in Conns \ {c} : Apart(conn'[c].pending, conn'[c].refs, conn[d].pending, conn[d].refs)
    BY <1>1, EmptyIs DEF Apart
  <2> QED BY <1>0, <2>1, <2>2, InsideStep
<1>2. CASE /\ conn'[c].pending = conn[c].pending /\ conn'[c].refs = conn[c].refs /\ conn'[c].tx = conn[c].tx
           /\ Head(req[p].todo) \notin {"deleteMemberships", "deleteUser", "insertTeamSub"}
  <2>1. \A d \in Conns \ {c} : Apart(conn'[c].pending, conn'[c].refs, conn[d].pending, conn[d].refs)
    BY <1>2 DEF RowsInv, Separate
  <2>2. Relying(c) /\ Kept(c)
    BY DEF RowsInv
  <2>3. Relying(c)'
    <3>1. Sound(conn'[c].pending, conn'[c].refs, born, db)
      BY <1>2, <2>2 DEF Relying
    <3> QED BY <1>2, <2>2, <3>1 DEF Relying, Sound, Linked, Over
  <2>4. \A u : <<"deleteMemberships", "deleteUser", "COMMIT">>[1] = "deleteMemberships"
               /\ Head(<<"deleteMemberships", "deleteUser", "COMMIT">>) = "deleteMemberships"
               /\ Head(<<"deleteUser", "COMMIT">>) = "deleteUser"
               /\ Head(<<"insertTeamSub", "COMMIT">>) = "insertTeamSub"
    OBVIOUS
  <2>5. req[p].todo \notin Halves /\ req[p].todo # <<"insertTeamSub", "COMMIT">>
    BY <1>2, <2>4 DEF Halves
  <2>6. ASSUME NEW r \in Requests, NEW u, HalfGone(r, u, c) PROVE HalfGone(r, u, c)'
    <3>1. req'[r].work = req[r].work
      OBVIOUS
    <3>2. r \in mixed'
      BY <2>5, <2>6 DEF HalfGone
    <3> QED BY <2>6, <3>1, <3>2 DEF HalfGone
  <2>7. ASSUME NEW r \in Requests, NEW t, HalfMade(r, t, c) PROVE mixed' # {}
    BY <2>5, <2>7 DEF HalfMade
  <2>8. Kept(c)'
    <3>1. ASSUME NEW u \in Users, Deleted(conn'[c].pending, Sub(u))
          PROVE  Over(conn'[c].pending, db')[PlanOf(u)] = None \/ \E r \in Requests : HalfGone(r, u, c)'
      BY <1>2, <2>2, <2>6, <3>1 DEF Kept
    <3>2. ASSUME mixed' = {}, NEW t \in Teams, Put(conn'[c].pending, TeamRow(t))
          PROVE  \/ db'[TeamRow(t)] # None \/ Put(conn'[c].pending, Sub(t))
                 \/ \E r \in Requests : HalfMade(r, t, c)'
      <4>1. mixed = {}
        BY <3>2
      <4> QED BY <1>2, <2>2, <2>7, <3>2, <4>1 DEF Kept
    <3> QED BY <3>1, <3>2 DEF Kept, Deleted, Put, Over
  <2> QED BY <1>0, <2>1, <2>3, <2>8, InsideStep
<1> QED BY <1>1, <1>2

\* The committed rows and what the requests have to do stay as they are; a connection may
\* be ended.
LEMMA SameRows ==
  ASSUME PlansInv, RowsInv, db' = db, mixed' = mixed, born' = born,
         \A r \in Requests : /\ req'[r].todo = req[r].todo /\ req'[r].work = req[r].work
                             /\ req'[r].teams = req[r].teams /\ req'[r].team = req[r].team,
         \A d \in Conns : conn'[d] = conn[d] \/ (conn'[d].pending = Empty /\ conn'[d].refs = {})
  PROVE  RowsInv'
<1>0. Orderly(db, born) /\ db = [k \in Keys |-> db[k]]
  BY DEF RowsInv
<1>1. ASSUME NEW d \in Conns PROVE Relying(d)' /\ Kept(d)'
  <2>1. CASE conn'[d].pending = Empty /\ conn'[d].refs = {}
    <3>1. Sound(Empty, {}, born, db)
      BY <1>0, SoundEmpty
    <3>2. Relying(d)'
      BY <2>1, <3>1 DEF Relying, Sound, Linked, Over
    <3>3. Kept(d)'
      BY <2>1, EmptyIs DEF Kept, Deleted, Put
    <3> QED BY <3>2, <3>3
  <2>2. CASE conn'[d] = conn[d]
    <3>1. Relying(d) /\ Kept(d)
      BY DEF RowsInv
    <3>2. Sound(conn'[d].pending, conn'[d].refs, born, db)
      BY <2>2, <3>1 DEF Relying
    <3>3. Relying(d)'
      BY <2>2, <3>1, <3>2 DEF Relying, Sound, Linked, Over
    <3>4. ASSUME NEW r \in Requests, NEW x
          PROVE  (HalfGone(r, x, d) => HalfGone(r, x, d)') /\ (HalfMade(r, x, d) => HalfMade(r, x, d)')
      BY <2>2 DEF HalfGone, HalfMade
    <3>5. ASSUME NEW u \in Users, Deleted(conn'[d].pending, Sub(u))
          PROVE  Over(conn'[d].pending, db')[PlanOf(u)] = None \/ \E r \in Requests : HalfGone(r, u, d)'
      BY <2>2, <3>1, <3>4, <3>5 DEF Kept
    <3>6. ASSUME mixed' = {}, NEW t \in Teams, Put(conn'[d].pending, TeamRow(t))
          PROVE  \/ db'[TeamRow(t)] # None \/ Put(conn'[d].pending, Sub(t))
                 \/ \E r \in Requests : HalfMade(r, t, d)'
      BY <2>2, <3>1, <3>4, <3>6 DEF Kept
    <3>7. Kept(d)'
      BY <3>5, <3>6 DEF Kept, Deleted, Put, Over
    <3> QED BY <3>3, <3>7
  <2> QED BY <2>1, <2>2
<1>2. ASSUME NEW e \in Conns, NEW d \in Conns \ {e} PROVE Separate(e, d)'
  <2>1. Separate(e, d)
    BY DEF RowsInv
  <2>2. /\ conn'[e] = conn[e] \/ (conn'[e].pending = Empty /\ conn'[e].refs = {})
        /\ conn'[d] = conn[d] \/ (conn'[d].pending = Empty /\ conn'[d].refs = {})
    OBVIOUS
  <2>3. Apart(conn'[e].pending, conn'[e].refs, conn'[d].pending, conn'[d].refs)
    BY <2>1, <2>2, EmptyIs DEF Separate, Apart
  <2> QED BY <2>3 DEF Separate, Apart, Deleted
<1>3. ASSUME NEW r \in Requests PROVE AtWork(req[r])'
  <2>1. AtWork(req[r])
    BY DEF RowsInv
  <2> QED BY <2>1 DEF AtWork, Asks, Followed
<1>4. (mixed = {} => TeamsPaid)' /\ Orderly(db, born)'
  BY <1>0 DEF RowsInv, TeamsPaid, Orderly, Linked
<1> QED BY <1>0, <1>1, <1>2, <1>3, <1>4 DEF RowsInv

\* The next statement is taken off.
LEMMA TailFollowed ==
  ASSUME NEW t \in Seq(Statements), t # <<>>, Followed(t)
  PROVE  /\ Followed(Tail(t))
         /\ Tail(t) # <<>> /\ Head(Tail(t)) = "deleteTeam" => Head(t) = "listTeams"
         /\ Head(t) = "insertTeam" => Tail(t) = <<"insertTeamSub", "COMMIT">> /\ Inside(t)
         /\ Head(t) = "deleteSubs" => Tail(t) = <<"deleteMemberships", "deleteUser", "COMMIT">> /\ Inside(t)
<1>1. PICK u : u = Tail(t)
  OBVIOUS
<1>2. /\ Len(t) \in Nat /\ 1 \in 1..Len(t) /\ Head(t) = t[1] /\ DOMAIN t = 1..Len(t)
      /\ u \in Seq(Statements) /\ Len(u) = Len(t) - 1 /\ \A i \in 1..Len(u) : u[i] = t[i + 1]
  BY <1>1, TailAfter
<1>3. ASSUME NEW i \in 1..Len(u)
      PROVE  /\ u[i] = "insertTeam" => Len(u) = i + 2 /\ u[i + 1] = "insertTeamSub" /\ u[i + 2] = "COMMIT"
             /\ u[i] = "deleteSubs" =>
                  Len(u) = i + 3 /\ u[i + 1] = "deleteMemberships" /\ u[i + 2] = "deleteUser" /\ u[i + 3] = "COMMIT"
             /\ u[i] = "deleteTeam" /\ i > 1 => u[i - 1] = "listTeams"
  <2>1. PICK j \in 1..Len(t) : j = i + 1 /\ u[i] = t[j] /\ j > 1
    BY <1>2
  <2>2. /\ t[j] = "insertTeam" => Len(t) = j + 2 /\ t[j + 1] = "insertTeamSub" /\ t[j + 2] = "COMMIT"
        /\ t[j] = "deleteSubs" =>
             Len(t) = j + 3 /\ t[j + 1] = "deleteMemberships" /\ t[j + 2] = "deleteUser" /\ t[j + 3] = "COMMIT"
        /\ t[j] = "deleteTeam" => t[j - 1] = "listTeams"
    BY <2>1 DEF Followed
  <2>3. CASE u[i] = "insertTeam"
    <3>4. Len(t) = j + 2
      BY <2>1, <2>2, <2>3
    <3>5. i \in Nat /\ i >= 1 /\ j = i + 1 /\ Len(u) = Len(t) - 1
      BY <1>2, <2>1
    <3>1. Len(u) = i + 2 /\ i + 1 \in 1..Len(u) /\ i + 2 \in 1..Len(u)
      BY <3>4, <3>5
    <3>2. u[i + 1] = t[(i + 1) + 1] /\ u[i + 2] = t[(i + 2) + 1]
      BY <1>2, <3>1
    <3>3. (i + 1) + 1 = j + 1 /\ (i + 2) + 1 = j + 2
      BY <2>1
    <3> QED BY <2>1, <2>2, <2>3, <3>1, <3>2, <3>3
  <2>4. CASE u[i] = "deleteSubs"
    <3>4. Len(t) = j + 3
      BY <2>1, <2>2, <2>4
    <3>5. i \in Nat /\ i >= 1 /\ j = i + 1 /\ Len(u) = Len(t) - 1
      BY <1>2, <2>1
    <3>1. Len(u) = i + 3 /\ i + 1 \in 1..Len(u) /\ i + 2 \in 1..Len(u) /\ i + 3 \in 1..Len(u)
      BY <3>4, <3>5
    <3>2. u[i + 1] = t[(i + 1) + 1] /\ u[i + 2] = t[(i + 2) + 1] /\ u[i + 3] = t[(i + 3) + 1]
      BY <1>2, <3>1
    <3>3. (i + 1) + 1 = j + 1 /\ (i + 2) + 1 = j + 2 /\ (i + 3) + 1 = j + 3
      BY <2>1
    <3> QED BY <2>1, <2>2, <2>4, <3>1, <3>2, <3>3
  <2>5. CASE u[i] = "deleteTeam" /\ i > 1
    <3>1. i - 1 \in 1..Len(u) /\ (i - 1) + 1 = j - 1
      BY <2>1, <2>5
    <3> QED BY <1>2, <2>1, <2>2, <2>5, <3>1
  <2> QED BY <2>3, <2>4, <2>5
<1>4. Followed(u)
  BY <1>3 DEF Followed
<1>5. ASSUME u # <<>>, Head(u) = "deleteTeam" PROVE Head(t) = "listTeams"
  <2>1. 1 \in 1..Len(u) /\ Head(u) = u[1] /\ 2 \in 1..Len(t)
    BY <1>2, <1>5
  <2>2. t[1 + 1] = "deleteTeam"
    BY <1>2, <1>5, <2>1
  <2>3. t[2 - 1] = "listTeams"
    BY <2>1, <2>2 DEF Followed
  <2> QED BY <1>2, <2>3
<1>6. ASSUME Head(t) = "insertTeam" PROVE u = <<"insertTeamSub", "COMMIT">> /\ Inside(t)
  <2>1. Len(t) = 1 + 2 /\ t[1 + 1] = "insertTeamSub" /\ t[1 + 2] = "COMMIT"
    BY <1>2, <1>6 DEF Followed
  <2>2. Len(u) = 2 /\ u[1] = "insertTeamSub" /\ u[2] = "COMMIT"
    BY <1>2, <2>1
  <2>3. u = <<"insertTeamSub", "COMMIT">>
    BY <1>2, <2>2
  <2>4. DOMAIN t = 1..3 /\ t[1] = "insertTeam" /\ t[2] = "insertTeamSub" /\ t[3] = "COMMIT"
    BY <1>2, <1>6, <2>1
  <2> QED BY <2>3, <2>4 DEF Inside, Range, Closing
<1>7. ASSUME Head(t) = "deleteSubs" PROVE u = <<"deleteMemberships", "deleteUser", "COMMIT">> /\ Inside(t)
  <2>1. Len(t) = 1 + 3 /\ t[1 + 1] = "deleteMemberships" /\ t[1 + 2] = "deleteUser" /\ t[1 + 3] = "COMMIT"
    BY <1>2, <1>7 DEF Followed
  <2>2. Len(u) = 3 /\ u[1] = "deleteMemberships" /\ u[2] = "deleteUser" /\ u[3] = "COMMIT"
    BY <1>2, <2>1
  <2>3. u = <<"deleteMemberships", "deleteUser", "COMMIT">>
    BY <1>2, <2>2
  <2>4. DOMAIN t = 1..4 /\ t[1] = "deleteSubs" /\ t[2] = "deleteMemberships" /\ t[3] = "deleteUser" /\ t[4] = "COMMIT"
    BY <1>2, <1>7, <2>1
  <2> QED BY <2>3, <2>4 DEF Inside, Range, Closing
<1> QED BY <1>1, <1>4, <1>5, <1>6, <1>7

\* What else a statement that goes through changes.
LEMMA SucceedMore ==
  ASSUME PlansInv, NEW p \in Requests, NEW q, q = ReqFields(q), Succeed(p, q),
         NEW c \in Conns, req[p].on = c, NEW R, R = Parents(req[p], Head(req[p].todo), View(c))
  PROVE  /\ req'[p].team = q.team
         /\ conn[c].tx = "open" => conn'[c].refs = conn[c].refs \union R
<1>1. conn = [d \in Conns |-> conn[d]] /\ req = [r \in Requests |-> req[r]] /\ conn[c] = ConnFields(conn[c])
  BY DEF PlansInv, PlansShape, ConnOK
<1>2. PICK y : y = [q EXCEPT !.on = None]
  OBVIOUS
<1>3. y.team = q.team
  BY <1>2 DEF ReqFields
<1>4. req' = [req EXCEPT ![p] = y]
  BY <1>2 DEF Succeed
<1>5. req'[p] = y
  BY <1>1, <1>4
<1>6. ASSUME conn[c].tx = "open" PROVE conn'[c].refs = conn[c].refs \union R
  <2>1. PICK w : w = Writes(req[p], Head(req[p].todo), View(c))
    OBVIOUS
  <2>2. PICK x : x = Extended(conn[c], p, w, R)
    OBVIOUS
  <2>3. conn' = [conn EXCEPT ![c] = x]
    BY <1>6, <2>1, <2>2 DEF Succeed
  <2>4. PICK pending, refs, by :
          /\ pending = Join(w, conn[c].pending) /\ refs = conn[c].refs \union R
          /\ by = IF w = Empty THEN conn[c].by ELSE conn[c].by \union {p}
    OBVIOUS
  <2>5. x = [conn[c] EXCEPT !.pending = pending, !.refs = refs, !.by = by]
    BY <1>1, <2>2, <2>4 DEF Extended, ConnFields
  <2>6. x.refs = refs
    BY <1>1, <2>5 DEF ConnFields
  <2> QED BY <1>1, <2>3, <2>4, <2>6
<1> QED BY <1>3, <1>5, <1>6

\* A statement that need not wait keeps apart from the other transactions.
LEMMA WaitsNot ==
  ASSUME NEW p \in Requests, NEW c \in Conns, req[p].on = c, req[p].todo # <<>>, conn[c].tx # "aborted", ~Blocked(c),
         NEW w, w = Writes(req[p], Head(req[p].todo), View(c)),
         NEW R, R = Parents(req[p], Head(req[p].todo), View(c)), NEW d \in Conns \ {c}
  PROVE  Apart(w, R, conn[d].pending, conn[d].refs)
<1>1. ~Waits(c, d)
  BY DEF Blocked
<1>2. ~ \/ DOMAIN w \intersect DOMAIN conn[d].pending # {}
        \/ \E k \in R : k \in DOMAIN conn[d].pending /\ conn[d].pending[k] = None
        \/ \E k \in DOMAIN w : w[k] = None /\ k \in conn[d].refs
  BY <1>1 DEF Waits
<1> QED BY <1>2 DEF Apart, Deleted

LEMMA ApartJoin ==
  ASSUME NEW w, NEW R, NEW p, NEW S, NEW o, NEW Q, Apart(w, R, o, Q), Apart(p, S, o, Q)
  PROVE  Apart(Join(w, p), S \union R, o, Q)
<1>1. PICK j : j = Join(w, p)
  OBVIOUS
<1>2. DOMAIN j = DOMAIN w \union DOMAIN p /\ \A i \in DOMAIN j : j[i] = IF i \in DOMAIN w THEN w[i] ELSE p[i]
  BY <1>1 DEF Join
<1>3. Apart(j, S \union R, o, Q)
  BY <1>2 DEF Apart, Deleted
<1> QED BY <1>1, <1>3

\* The heads of what is left half done.
LEMMA HalvesAre ==
  /\ Head(<<"deleteMemberships", "deleteUser", "COMMIT">>) = "deleteMemberships"
  /\ Tail(<<"deleteMemberships", "deleteUser", "COMMIT">>) = <<"deleteUser", "COMMIT">>
  /\ Head(<<"deleteUser", "COMMIT">>) = "deleteUser"
  /\ Head(<<"insertTeamSub", "COMMIT">>) = "insertTeamSub"
OBVIOUS

\* A statement that goes through leaves a transaction that keeps subscriptions with their
\* users and teams.
LEMMA KeptGoesOn ==
  ASSUME PlansInv, RowsInv, NEW p \in Requests, NEW c \in Conns, conn[c].tx = "open",
         NEW s, s = Head(req[p].todo), NEW v, v = Over(conn[c].pending, db), NEW w, NEW R, Lawful(req[p], s, w, R, v),
         conn'[c].pending = Join(w, conn[c].pending), conn'[c].holder = conn[c].holder, db' = db,
         req'[p].work = req[p].work, \A r \in Requests \ {p} : req'[r] = req[r], mixed \subseteq mixed',
         \A r \in Requests \ {p} : r \notin mixed' => conn[c].holder # r,
         p \notin mixed' => conn[c].holder = p,
         s \in {"deleteSubs", "deleteMemberships"} => req'[p].todo = Tail(req[p].todo),
         s = "deleteSubs" => req[p].work.kind = "delete" /\ Tail(req[p].todo) \in Halves,
         s = "insertTeam" => req'[p].todo = <<"insertTeamSub", "COMMIT">> /\ req'[p].team = born + 1
  PROVE  Kept(c)'
<1>1. PICK P, j : P = conn[c].pending /\ j = Join(w, P)
  OBVIOUS
<1>2. j = conn'[c].pending /\ Over(j, db) = Over(w, v) /\ Kept(c)
  BY <1>1, OverJoin DEF RowsInv
<1>3. \A k \in Keys : /\ Deleted(j, k) <=> Deleted(w, k) \/ (k \notin DOMAIN w /\ Deleted(P, k))
                      /\ Put(j, k) <=> Put(w, k) \/ (k \notin DOMAIN w /\ Put(P, k))
  BY <1>1, JoinPuts
<1>4. \A k \in Keys : /\ Over(w, v)[k] = None <=> Deleted(w, k) \/ (k \notin DOMAIN w /\ v[k] = None)
                      /\ v[k] # None <=> Put(P, k) \/ (k \notin DOMAIN P /\ db[k] # None)
  BY <1>1, OverIs
<1>5. ASSUME NEW r \in Requests \ {p}, NEW u, HalfGone(r, u, c) PROVE HalfGone(r, u, c)'
  <2>1. req'[r].work = req[r].work /\ r \in mixed'
    BY <1>5 DEF HalfGone
  <2> QED BY <1>5, <2>1 DEF HalfGone
<1>6. ASSUME NEW u, req[p].work.kind = "delete", req[p].work.user = u, p \in mixed' \/ req'[p].todo \in Halves
      PROVE  HalfGone(p, u, c)'
  <2>1. req'[p].work.kind = "delete" /\ req'[p].work.user = u
    BY <1>6
  <2> QED BY <1>6, <2>1 DEF HalfGone
<1>7. ASSUME NEW u \in Users, Deleted(j, Sub(u))
      PROVE  Over(w, v)[PlanOf(u)] = None \/ \E r \in Requests : HalfGone(r, u, c)'
  <2>1. PlanOf(u) \in Keys /\ Sub(u) \in Keys
    BY KeysOfUsers
  <2>2. CASE Deleted(w, Sub(u))
    <3>1. Over(w, v)[PlanOf(u)] = None \/ (s = "deleteSubs" /\ u = req[p].work.user)
      BY <2>2 DEF Lawful
    <3>2. CASE s = "deleteSubs" /\ u = req[p].work.user
      <4>1. HalfGone(p, u, c)'
        BY <1>6, <3>2
      <4> QED BY <4>1
    <3> QED BY <3>1, <3>2
  <2>3. CASE Deleted(P, Sub(u))
    <3>1. CASE v[PlanOf(u)] = None
      <4>1. ~Put(w, PlanOf(u))
        BY <3>1 DEF Lawful, Honest
      <4> QED BY <1>4, <2>1, <3>1, <4>1 DEF Put, Deleted
    <3>2. CASE HalfGone(p, u, c)
      <4>1. req[p].work.kind = "delete" /\ req[p].work.user = u /\ (p \in mixed \/ req[p].todo \in Halves)
        BY <3>2 DEF HalfGone
      <4>2. CASE p \in mixed \/ req[p].todo = <<"deleteMemberships", "deleteUser", "COMMIT">>
        <5>1. p \in mixed' \/ req'[p].todo \in Halves
          BY <4>2, HalvesAre DEF Halves
        <5> QED BY <1>6, <4>1, <5>1
      <4>3. CASE req[p].todo = <<"deleteUser", "COMMIT">>
        <5>1. s = "deleteUser"
          BY <4>3, HalvesAre
        <5> QED BY <4>1, <5>1 DEF Lawful
      <4> QED BY <4>1, <4>2, <4>3 DEF Halves
    <3>3. v[PlanOf(u)] = None \/ \E r \in Requests : HalfGone(r, u, c)
      BY <1>1, <1>2, <2>3 DEF Kept
    <3> QED BY <1>5, <3>1, <3>2, <3>3
  <2> QED BY <1>3, <1>7, <2>1, <2>2, <2>3
<1>8. ASSUME mixed' = {}, NEW t \in Teams, Put(j, TeamRow(t))
      PROVE  db[TeamRow(t)] # None \/ Put(j, Sub(t)) \/ \E r \in Requests : HalfMade(r, t, c)'
  <2>1. TeamRow(t) \in Keys /\ Sub(t) \in Keys /\ mixed = {} /\ conn[c].holder = p
    BY <1>8 DEF Keys
  <2>2. ASSUME s = "insertTeam", t = born + 1 PROVE HalfMade(p, t, c)'
    BY <2>1, <2>2 DEF HalfMade
  <2>3. v[TeamRow(t)] # None \/ Put(P, TeamRow(t)) \/ HalfMade(p, t, c)'
    BY <1>3, <1>8, <2>1, <2>2 DEF Lawful
  <2>4. CASE Put(P, TeamRow(t))
    <3>1. \/ db[TeamRow(t)] # None \/ Put(P, Sub(t)) \/ \E r \in Requests : HalfMade(r, t, c)
      BY <1>1, <1>2, <2>1, <2>4 DEF Kept
    <3>2. ~Deleted(w, Sub(t))
      BY <1>3, <1>8, <2>1 DEF Lawful, Honest, Put, Deleted
    <3>3. Put(P, Sub(t)) => Put(j, Sub(t))
      BY <1>3, <2>1, <3>2 DEF Put, Deleted
    <3>4. ASSUME NEW r \in Requests, HalfMade(r, t, c) PROVE Put(j, Sub(t))
      <4>1. r = p /\ req[p].team = t /\ s = "insertTeamSub"
        BY <1>8, <3>4, HalvesAre DEF HalfMade
      <4>2. Put(w, Sub(t))
        BY <4>1 DEF Lawful
      <4> QED BY <1>3, <2>1, <4>2
    <3> QED BY <3>1, <3>3, <3>4
  <2> QED BY <1>4, <2>1, <2>3, <2>4
<1>9. PICK b, m : b = db' /\ m = mixed'
  OBVIOUS
<1>10. ASSUME NEW u \in Users, Deleted(conn'[c].pending, Sub(u))
       PROVE  Over(conn'[c].pending, db')[PlanOf(u)] = None \/ \E r \in Requests : HalfGone(r, u, c)'
  BY <1>2, <1>7, <1>10
<1>11. ASSUME mixed' = {}, NEW t \in Teams, Put(conn'[c].pending, TeamRow(t))
       PROVE  \/ db'[TeamRow(t)] # None \/ Put(conn'[c].pending, Sub(t))
              \/ \E r \in Requests : HalfMade(r, t, c)'
  BY <1>2, <1>8, <1>11
<1> QED BY <1>10, <1>11 DEF Kept, Deleted, Put, Over

\* A statement that goes through.
LEMMA SucceedRows ==
  ASSUME PlansInv, RowsInv, NEW p \in Requests, NEW q, q = ReqFields(q), Succeed(p, q), req[p].on # None,
         req[p].todo # <<>>, q.work = req[p].work, AtWork(q),
         NEW s, s = Head(req[p].todo), born' = DrawnAfter(s), born' <= MaxTeams,
         s \in {"insertTeam", "deleteSubs", "deleteMemberships"} => q.todo = Tail(req[p].todo),
         s = "insertTeam" => q.team = born + 1
  PROVE  RowsInv' /\ SubsStay
<1>1. PICK c \in Conns : c = req[p].on
  BY DEF PlansInv, PlansShape, ReqOK
<1>2. PICK w, v, R : v = View(c) /\ w = Writes(req[p], s, View(c)) /\ R = Parents(req[p], s, View(c))
  OBVIOUS
<1>3. /\ \A r \in Requests \ {p} : req'[r] = req[r]
      /\ req'[p].todo = q.todo /\ req'[p].work = q.work /\ req'[p].teams = q.teams
      /\ \A d \in Conns \ {c} : conn'[d] = conn[d]
      /\ conn'[c].tx = conn[c].tx /\ conn'[c].holder = conn[c].holder
      /\ conn[c].tx = "open" => conn'[c].pending = Join(w, conn[c].pending) /\ db' = db
      /\ conn[c].tx # "open" =>
           conn' = conn /\ db' = [k \in Keys |-> IF k \in DOMAIN w THEN w[k] ELSE db[k]]
      /\ mixed' = mixed \union Mixing(p)
  BY <1>1, <1>2, SucceedIs
<1>4. req'[p].team = q.team /\ (conn[c].tx = "open" => conn'[c].refs = conn[c].refs \union R)
  BY <1>1, <1>2, SucceedMore
<1>5. conn[c].tx # "aborted" /\ ~Blocked(c) /\ \A x \in R : v[x] # None
  BY <1>1, <1>2 DEF Succeed
<1>6. /\ mixed \subseteq mixed'
      /\ \A r \in Requests \ {p} : r \notin mixed' => conn[c].holder # r
      /\ p \notin mixed' => \/ conn[c].holder = p
                            \/ conn[c].tx = "none" /\ ~Inside(req[p].todo)
      /\ p \notin mixed' => \A d \in Conns \ {c} : conn[d].holder # p
  BY <1>1, <1>3, MixingTells
<1>7. /\ Orderly(db, born) /\ born \in 0..MaxTeams /\ Relying(c) /\ Kept(c) /\ AtWork(req[p])
      /\ \A d \in Conns \ {c} : Separate(c, d)
  BY DEF RowsInv
<1>8. v = Over(conn[c].pending, db)
  BY <1>2 DEF View, Over
<1>9. Orderly(v, born) /\ born \in Nat
  BY <1>7, <1>8, SoundSees DEF Relying
<1>10. Lawful(req[p], s, w, R, v)
  BY <1>2, <1>5, <1>7, <1>9, StatementLawful
<1>11. born' \in 0..MaxTeams /\ born' \in Nat /\ born <= born' /\ DrawnAfter(s) = born'
  BY <1>7, TeamPlansAssumption DEF DrawnAfter
<1>12. AtWork(req'[p])
  BY <1>3, <1>4 DEF AtWork, Asks
<1>13. \A d \in Conns \ {c} : Apart(w, R, conn[d].pending, conn[d].refs)
  BY <1>1, <1>2, <1>5, WaitsNot
<1>14. PICK t : t = req[p].todo /\ t \in Seq(Statements) /\ t # <<>> /\ Followed(t) /\ Head(t) = s
  BY <1>7 DEF PlansInv, PlansShape, ReqOK, Shaped, AtWork
<1>15. /\ s = "insertTeam" => Tail(t) = <<"insertTeamSub", "COMMIT">> /\ Inside(t)
       /\ s = "deleteSubs" => Tail(t) = <<"deleteMemberships", "deleteUser", "COMMIT">> /\ Inside(t)
  BY <1>14, TailFollowed
<1>16. s = "deleteSubs" => req[p].work.kind = "delete"
  <2>1. s \in Range(req[p].todo)
    BY TailShaped DEF PlansInv, PlansShape, ReqOK
  <2> QED BY <1>7, <2>1 DEF AtWork
<1>17. Sound(conn[c].pending, conn[c].refs, born, db) /\ Honest(w, R, born, born', v)
  BY <1>7, <1>10, <1>11 DEF Relying, Lawful
<1>18. Sound(Join(w, conn[c].pending), conn[c].refs \union R, born', db)
  BY <1>5, <1>8, <1>9, <1>11, <1>17, JoinSound
<1>19. ASSUME NEW d \in Conns \ {c}
       PROVE  Apart(Join(w, conn[c].pending), conn[c].refs \union R, conn[d].pending, conn[d].refs)
  BY <1>7, <1>13, ApartJoin DEF Separate
<1>20. CASE conn[c].tx = "open"
  <2>1. p \notin mixed' => conn[c].holder = p
    BY <1>6, <1>20
  <2>2. Tail(t) = <<"deleteMemberships", "deleteUser", "COMMIT">> => Tail(t) \in Halves
    BY DEF Halves
  <2>3. Kept(c)'
    <3>1. s = "deleteSubs" => req[p].work.kind = "delete" /\ Tail(req[p].todo) \in Halves
      BY <1>14, <1>15, <1>16, <2>2
    <3>2. s = "insertTeam" => req'[p].todo = <<"insertTeamSub", "COMMIT">> /\ req'[p].team = born + 1
      BY <1>3, <1>4, <1>14, <1>15
    <3>3. s \in {"deleteSubs", "deleteMemberships"} => req'[p].todo = Tail(req[p].todo)
      BY <1>3
    <3> QED BY <1>3, <1>6, <1>8, <1>10, <1>20, <2>1, <3>1, <3>2, <3>3, KeptGoesOn
  <2>4. Relying(c)'
    <3>1. Sound(conn'[c].pending, conn'[c].refs, born', db')
      BY <1>3, <1>4, <1>18, <1>20
    <3> QED BY <1>3, <1>20, <3>1 DEF Relying, Sound, Linked, Over
  <2>5. \A d \in Conns \ {c} : Apart(conn'[c].pending, conn'[c].refs, conn[d].pending, conn[d].refs)
    BY <1>3, <1>4, <1>19, <1>20
  <2>6. RowsInv'
    BY <1>3, <1>6, <1>11, <1>12, <1>20, <2>3, <2>4, <2>5, InsideStep
  <2> QED BY <1>3, <1>20, <2>6, SameSubs
<1>21. CASE conn[c].tx # "open"
  <2>1. conn[c].pending = Empty /\ conn[c].refs = {} /\ conn' = conn /\ conn[c].tx = "none"
    BY <1>3, <1>5, <1>7, <1>21 DEF Relying, PlansInv, PlansShape, ConnOK
  <2>2. PICK j, Q : j = Join(w, conn[c].pending) /\ Q = conn[c].refs \union R
    OBVIOUS
  <2>3. db' = Over(j, db)
    <3>1. Over(j, db) = Over(w, v)
      BY <1>8, <2>2, OverJoin
    <3>2. v = db
      BY <1>8, <2>1, OverEmpty DEF RowsInv
    <3> QED BY <1>3, <1>21, <3>1, <3>2 DEF Over
  <2>4. ASSUME mixed' = {}, NEW m \in Teams, Put(j, TeamRow(m)) PROVE db[TeamRow(m)] # None
    <3>1. conn[c].holder # p
      BY <2>1, TeamPlansAssumption DEF PlansInv, PlansShape, ConnOK, None
    <3>2. s # "insertTeam"
      BY <1>6, <1>14, <1>15, <2>4, <3>1
    <3>3. Put(w, TeamRow(m))
      <4>1. ~Put(conn[c].pending, TeamRow(m))
        BY <2>1, EmptyIs
      <4> QED BY <2>2, <2>4, <4>1, JoinPuts
    <3>4. v[TeamRow(m)] # None
      BY <1>10, <3>2, <3>3 DEF Lawful
    <3>5. v = db
      BY <1>8, <2>1, OverEmpty DEF RowsInv
    <3> QED BY <3>4, <3>5
  <2>5. Sound(j, Q, born', db) /\ \A d \in Conns \ {c} : Apart(j, Q, conn[d].pending, conn[d].refs)
    BY <1>18, <1>19, <2>2
  <2>6. conn'[c].pending = Empty /\ conn'[c].refs = {}
    BY <2>1
  <2>7. ASSUME NEW u \in Users, Deleted(j, Sub(u)) PROVE Over(j, db)[PlanOf(u)] = None \/ u \in SplitDeletions'
    <3>1. Deleted(w, Sub(u))
      <4>1. ~Deleted(conn[c].pending, Sub(u))
        BY <2>1, EmptyIs
      <4> QED BY <2>2, <2>7, <4>1, JoinPuts
    <3>2. Over(j, db) = Over(w, v)
      BY <1>8, <2>2, OverJoin
    <3>3. Over(w, v)[PlanOf(u)] = None \/ (s = "deleteSubs" /\ u = req[p].work.user)
      BY <1>10, <3>1 DEF Lawful
    <3>4. CASE s = "deleteSubs" /\ u = req[p].work.user
      <4>1. conn[c].holder # p
        BY <2>1, TeamPlansAssumption DEF PlansInv, PlansShape, ConnOK, None
      <4>2. p \in mixed'
        BY <1>6, <1>14, <1>15, <3>4, <4>1
      <4>3. req'[p].work.kind = "delete" /\ req'[p].work.user = u
        BY <1>3, <1>16, <3>4
      <4> QED BY <4>2, <4>3 DEF SplitDeletions
    <3> QED BY <3>2, <3>3, <3>4
  <2> QED BY <1>3, <1>6, <1>11, <1>12, <2>3, <2>4, <2>5, <2>6, <2>7, ApplyStep
<1> QED BY <1>20, <1>21

-----------------------------------------------------------------------------
(* One lemma per step *)

\* What is left of a request works on.
LEMMA WorksOn ==
  ASSUME PlansInv, RowsInv, NEW p \in Requests, req[p].todo # <<>>, NEW q, q.work = req[p].work,
         q.team \in Teams, q.teams \subseteq Teams,
         \/ q.todo = Tail(req[p].todo) /\ (q.teams # {} \/ Head(req[p].todo) # "listTeams")
         \/ q.todo \in {<<>>, <<"ROLLBACK">>}
         \/ q.todo = req[p].todo /\ q.teams # {}
  PROVE  AtWork(q)
<1>1. PICK t : t = req[p].todo /\ t \in Seq(Statements) /\ t # <<>> /\ Shaped(t) /\ Followed(t)
  BY DEF RowsInv, AtWork, PlansInv, PlansShape, ReqOK, Shaped
<1>2. AtWork(req[p])
  BY DEF RowsInv
<1>3. Asks(q)
  BY <1>2 DEF AtWork, Asks
<1>4. CASE q.todo = Tail(t) /\ (q.teams # {} \/ Head(t) # "listTeams")
  <2>1. Followed(Tail(t)) /\ (Tail(t) # <<>> /\ Head(Tail(t)) = "deleteTeam" => Head(t) = "listTeams")
    BY <1>1, TailFollowed
  <2>2. Range(Tail(t)) \subseteq Range(t)
    BY <1>1, TailShaped
  <2> QED BY <1>1, <1>2, <1>3, <1>4, <2>1, <2>2 DEF AtWork
<1>5. CASE q.todo = <<>>
  BY <1>3, <1>5, EmptyShaped DEF AtWork, Followed
<1>6. CASE q.todo = <<"ROLLBACK">>
  <2>1. Len(<<"ROLLBACK">>) = 1 /\ <<"ROLLBACK">>[1] = "ROLLBACK" /\ Head(<<"ROLLBACK">>) = "ROLLBACK"
    OBVIOUS
  <2>2. Range(q.todo) = {"ROLLBACK"}
    BY <1>6, RollbackShaped
  <2>3. \A i \in 1..Len(q.todo) : q.todo[i] = "ROLLBACK"
    BY <1>6, <2>1
  <2> QED BY <1>3, <1>6, <2>1, <2>2, <2>3 DEF AtWork, Followed
<1>7. CASE q.todo = t /\ q.teams # {}
  BY <1>1, <1>2, <1>3, <1>7 DEF AtWork
<1> QED BY <1>1, <1>4, <1>5, <1>6, <1>7

\* The request goes on to the next statement.
LEMMA GoesRows ==
  ASSUME PlansInv, RowsInv, NEW p \in Requests, NEW s, Sent(p, s), s # "listTeams", NEW x \in Teams,
         NEW q, q \in {Goes(p), [Goes(p) EXCEPT !.team = x]}, Succeed(p, q),
         born' = DrawnAfter(s), born' <= MaxTeams,
         s = "insertTeam" => q = [Goes(p) EXCEPT !.team = x] /\ x = born + 1
  PROVE  RowsInv' /\ SubsStay
<1>1. req[p].on # None /\ req[p].todo # <<>> /\ Head(req[p].todo) = s /\ PlansShape /\ req[p] = ReqFields(req[p])
  BY SentFacts
<1>2. PICK g : g = Goes(p)
  OBVIOUS
<1>3. g = ReqFields(g) /\ Moved(p, g) /\ g.teams = req[p].teams /\ g.team = req[p].team
  <2>1. g = ReqFields(g) /\ Moved(p, g)
    BY <1>1, <1>2, RequestFields DEF Moved
  <2>2. PICK t : t = Tail(req[p].todo)
    OBVIOUS
  <2>3. g = [req[p] EXCEPT !.todo = t]
    BY <1>2, <2>2 DEF Goes
  <2> QED BY <1>1, <2>1, <2>3 DEF ReqFields
<1>4. Asks(req[p])
  BY DEF RowsInv, AtWork
<1>5. Moved(p, q) /\ q.teams = g.teams /\ q.team \in Teams /\ (s = "insertTeam" => q.team = x)
  <2>1. CASE q = g
    <3>1. [g EXCEPT !.team = x].team = x
      BY <1>3 DEF ReqFields
    <3>2. q.teams = g.teams /\ q.team \in Teams /\ Moved(p, q)
      BY <1>3, <1>4, <2>1 DEF Asks
    <3> QED BY <1>2, <3>1, <3>2
  <2>2. CASE q = [g EXCEPT !.team = x]
    <3>1. Moved(p, q)
      BY <1>1, <1>2, <2>2, ChangedGoes
    <3>2. q.teams = g.teams /\ q.team = x
      BY <1>3, <2>2 DEF ReqFields
    <3> QED BY <3>1, <3>2
  <2> QED BY <1>2, <2>1, <2>2
<1>6. q = ReqFields(q) /\ q.todo = Tail(req[p].todo) /\ q.work = req[p].work
  BY <1>5 DEF Moved
<1>7. AtWork(q)
  BY <1>1, <1>3, <1>4, <1>5, <1>6, WorksOn DEF Asks
<1> QED BY <1>1, <1>5, <1>6, <1>7, SucceedRows

\* A statement after which the request is over, but for ROLLBACK.
LEMMA FailureRows ==
  ASSUME PlansInv, RowsInv, NEW p \in Requests, NEW s, Sent(p, s), s \notin {"insertTeam", "deleteSubs", "deleteMemberships"},
         NEW q, q = ReqFields(q), Succeed(p, q), q.todo \in {<<>>, <<"ROLLBACK">>}, q.work = req[p].work,
         q.team = req[p].team, q.teams = req[p].teams, UNCHANGED born
  PROVE  RowsInv' /\ SubsStay
<1>1. req[p].on # None /\ req[p].todo # <<>> /\ Head(req[p].todo) = s
  BY SentFacts
<1>2. Asks(req[p]) /\ born <= MaxTeams
  BY TeamPlansAssumption DEF RowsInv, AtWork
<1>3. AtWork(q)
  BY <1>1, <1>2, WorksOn DEF Asks
<1>4. born' = DrawnAfter(s) /\ born' <= MaxTeams
  BY <1>2 DEF DrawnAfter
<1> QED BY <1>1, <1>3, <1>4, SucceedRows

LEMMA RefusesRows ==
  ASSUME PlansInv, RowsInv, NEW p \in Requests, NEW s, Sent(p, s), s \notin {"insertTeam", "deleteSubs", "deleteMemberships"},
         Succeed(p, Refuses(p)), UNCHANGED born
  PROVE  RowsInv' /\ SubsStay
<1>1. req[p] = ReqFields(req[p])
  BY SentFacts
<1>2. PICK q : q = Refuses(p)
  OBVIOUS
<1>3. q = ReqFields(q) /\ q.todo = <<>> /\ q.work = req[p].work /\ q.team = req[p].team /\ q.teams = req[p].teams
  BY <1>1, <1>2 DEF Refuses, ReqFields
<1> QED BY <1>2, <1>3, FailureRows

\* Statements that draw no id, and keep it so.
LEMMA PlainRows ==
  ASSUME PlansInv, RowsInv, NEW p \in Requests, NEW s, Sent(p, s), s \notin {"listTeams", "insertTeam"}, UNCHANGED born
  PROVE  /\ Succeed(p, Goes(p)) => RowsInv' /\ SubsStay
         /\ \A t \in Teams : Succeed(p, [Goes(p) EXCEPT !.team = t]) => RowsInv' /\ SubsStay
<1>1. born' = DrawnAfter(s) /\ born' <= MaxTeams
  BY TeamPlansAssumption DEF RowsInv, DrawnAfter
<1>2. PICK x \in Teams : x = 1
  BY TeamPlansAssumption DEF Teams
<1>3. ASSUME Succeed(p, Goes(p)) PROVE RowsInv' /\ SubsStay
  BY <1>1, <1>3, GoesRows
<1>4. ASSUME NEW t \in Teams, Succeed(p, [Goes(p) EXCEPT !.team = t]) PROVE RowsInv' /\ SubsStay
  BY <1>1, <1>4, GoesRows
<1> QED BY <1>3, <1>4

LEMMA StatementsRows ==
  ASSUME PlansInv, RowsInv, NEW p \in Requests,
         Write(p) \/ ReadPlan(p) \/ FindInvite(p) \/ FindTarget(p) \/ ReadBack(p) \/ InsertTeam(p)
  PROVE  RowsInv' /\ SubsStay
<1>1. CASE Write(p)
  <2>1. PICK s \in Writing : Sent(p, s)
    BY <1>1 DEF Write
  <2>2. s \notin {"listTeams", "insertTeam"}
    BY DEF Writing
  <2> QED BY <1>1, <2>1, <2>2, PlainRows DEF Write
<1>2. CASE ReadPlan(p)
  <2>1. Sent(p, "readPlan") /\ UNCHANGED born
    BY <1>2 DEF ReadPlan
  <2>2. CASE Succeed(p, Refuses(p))
    BY <2>1, <2>2, RefusesRows
  <2>3. CASE Succeed(p, Goes(p))
    BY <2>1, <2>3, PlainRows
  <2>4. ASSUME NEW t \in Teams, Succeed(p, [Goes(p) EXCEPT !.team = t]) PROVE RowsInv' /\ SubsStay
    BY <2>1, <2>4, PlainRows
  <2> QED BY <1>2, <2>2, <2>3, <2>4 DEF ReadPlan, Owned
<1>3. CASE FindInvite(p) \/ FindTarget(p) \/ ReadBack(p)
  <2>1. PICK s \in {"findInvite", "findTarget", "readBack"} :
          Sent(p, s) /\ UNCHANGED born /\ (Succeed(p, Goes(p)) \/ Succeed(p, Refuses(p)))
    BY <1>3 DEF FindInvite, FindTarget, ReadBack
  <2> QED BY <2>1, PlainRows, RefusesRows
<1>4. CASE InsertTeam(p)
  <2>1. Sent(p, "insertTeam") /\ born < MaxTeams /\ born' = born + 1 /\ born \in 0..MaxTeams
    BY <1>4 DEF InsertTeam, RowsInv
  <2>2. PICK x \in Teams : x = born + 1
    BY <2>1, TeamPlansAssumption DEF Teams
  <2>3. born' = DrawnAfter("insertTeam") /\ born' <= MaxTeams
    BY <2>1, TeamPlansAssumption DEF DrawnAfter
  <2>4. Succeed(p, [Goes(p) EXCEPT !.team = x])
    BY <1>4, <2>2 DEF InsertTeam
  <2> QED BY <2>1, <2>2, <2>3, <2>4, GoesRows
<1> QED BY <1>1, <1>2, <1>3, <1>4

LEMMA FindUserRows == ASSUME PlansInv, RowsInv, NEW p \in Requests, FindUser(p) PROVE RowsInv' /\ SubsStay
<1>1. Sent(p, "findUser") /\ UNCHANGED born
  BY DEF FindUser
<1>2. CASE Succeed(p, Goes(p))
  BY <1>1, <1>2, PlainRows
<1>3. PICK t, q : t = <<"ROLLBACK">> /\ q = [req[p] EXCEPT !.todo = t, !.verdict = "refused"]
  OBVIOUS
<1>4. CASE Succeed(p, q)
  <2>1. req[p] = ReqFields(req[p])
    BY <1>1, SentFacts
  <2>2. q = ReqFields(q) /\ q.todo = t /\ q.work = req[p].work /\ q.team = req[p].team /\ q.teams = req[p].teams
    BY <1>3, <2>1 DEF ReqFields
  <2> QED BY <1>1, <1>3, <1>4, <2>2, FailureRows
<1> QED BY <1>2, <1>3, <1>4 DEF FindUser

\* The teams to delete are listed, and deleted one by one.
LEMMA ListTeamsRows == ASSUME PlansInv, RowsInv, NEW p \in Requests, ListTeams(p) PROVE RowsInv' /\ SubsStay
<1>0. Sent(p, "listTeams") /\ born' = born
  BY DEF ListTeams
<1>1. /\ req[p].on # None /\ req[p].on \in Conns /\ req[p].todo # <<>> /\ Head(req[p].todo) = "listTeams"
      /\ PlansShape /\ req[p] = ReqFields(req[p]) /\ Shaped(req[p].todo)
  BY <1>0, SentFacts
<1>2. PICK t, owned : t = req[p].todo /\ owned = Owned(req[p].work.user, View(req[p].on))
  OBVIOUS
<1>3. born' = DrawnAfter("listTeams") /\ born' <= MaxTeams /\ owned \subseteq Teams /\ AtWork(req[p]) /\ Asks(req[p])
  BY <1>0, <1>2, TeamPlansAssumption DEF RowsInv, DrawnAfter, Owned, AtWork
<1>4. CASE owned # {}
  <2>1. PICK q : q = [Goes(p) EXCEPT !.teams = owned]
    OBVIOUS
  <2>2. Succeed(p, q) /\ Moved(p, q)
    BY <1>1, <1>2, <1>4, <2>1, ChangedGoes DEF ListTeams
  <2>3. PICK g : g = Goes(p)
    OBVIOUS
  <2>4. g = ReqFields(g) /\ g.team = req[p].team
    <3>1. g = ReqFields(g)
      BY <1>1, <2>3, RequestFields
    <3>2. PICK u : u = Tail(t)
      OBVIOUS
    <3>3. g = [req[p] EXCEPT !.todo = u]
      BY <1>2, <2>3, <3>2 DEF Goes
    <3> QED BY <1>1, <3>1, <3>3 DEF ReqFields
  <2>5. q.teams = owned /\ q.team = req[p].team
    BY <2>1, <2>3, <2>4 DEF ReqFields
  <2>6. q = ReqFields(q) /\ q.todo = Tail(req[p].todo) /\ q.work = req[p].work
    BY <2>2 DEF Moved
  <2>7. AtWork(q)
    BY <1>1, <1>3, <1>4, <2>5, <2>6, WorksOn DEF Asks
  <2> QED BY <1>1, <1>3, <2>2, <2>6, <2>7, SucceedRows
<1>5. CASE owned = {}
  <2>1. PICK s, u, q : u = Tail(t) /\ s = Tail(Tail(t)) /\ q = [req[p] EXCEPT !.todo = s]
    OBVIOUS
  <2>2. Succeed(p, q)
    BY <1>2, <1>5, <2>1 DEF ListTeams
  <2>3. q = ReqFields(q) /\ q.todo = s /\ q.work = req[p].work /\ q.team = req[p].team /\ q.teams = req[p].teams
    BY <1>1, <2>1 DEF ReqFields
  <2>4. u \in Seq(Statements) /\ u # <<>> /\ Head(u) = "deleteTeam" /\ Shaped(u) /\ Range(u) \subseteq Range(t)
    <3>1. u # <<>> /\ Head(u) = "deleteTeam" /\ Shaped(u) /\ Range(u) \subseteq Range(t)
      BY <1>1, <1>2, <2>1, TailShaped
    <3> QED BY <3>1 DEF Shaped
  <2>5. Followed(u)
    BY <1>1, <1>2, <1>3, <2>1, TailFollowed DEF AtWork, Shaped
  <2>6. s = Tail(u) /\ Range(s) \subseteq Range(u)
    BY <2>1, <2>4, TailShaped
  <2>7. Followed(s) /\ (s # <<>> => Head(s) # "deleteTeam")
    BY <2>4, <2>5, <2>6, TailFollowed
  <2>8. AtWork(q)
    BY <1>2, <1>3, <2>3, <2>4, <2>6, <2>7 DEF AtWork, Asks
  <2> QED BY <1>1, <1>3, <2>2, <2>3, <2>8, SucceedRows
<1> QED BY <1>4, <1>5

LEMMA DeleteTeamRows == ASSUME PlansInv, RowsInv, NEW p \in Requests, DeleteTeam(p) PROVE RowsInv' /\ SubsStay
<1>0. Sent(p, "deleteTeam") /\ born' = born
  BY DEF DeleteTeam
<1>1. /\ req[p].on # None /\ req[p].on \in Conns /\ req[p].todo # <<>> /\ Head(req[p].todo) = "deleteTeam"
      /\ PlansShape /\ req[p] = ReqFields(req[p]) /\ Shaped(req[p].todo)
  BY <1>0, SentFacts
<1>2. PICK others : others = req[p].teams \ {FirstOf(req[p].teams)}
  OBVIOUS
<1>3. born' = DrawnAfter("deleteTeam") /\ born' <= MaxTeams /\ AtWork(req[p]) /\ Asks(req[p]) /\ others \subseteq Teams
  BY <1>0, <1>2, TeamPlansAssumption DEF RowsInv, DrawnAfter, AtWork, Asks
<1>4. PICK g : g = IF others = {} THEN Goes(p) ELSE req[p]
  OBVIOUS
<1>5. g = ReqFields(g) /\ g.team = req[p].team /\ g.work = req[p].work
      /\ g.todo = IF others = {} THEN Tail(req[p].todo) ELSE req[p].todo
  <2>1. CASE others = {}
    <3>1. g = Goes(p) /\ g = ReqFields(g) /\ g.todo = Tail(req[p].todo) /\ g.work = req[p].work
      BY <1>1, <1>4, <2>1, RequestFields
    <3>2. PICK u : u = Tail(req[p].todo)
      OBVIOUS
    <3>3. g = [req[p] EXCEPT !.todo = u]
      BY <3>1, <3>2 DEF Goes
    <3>4. g.team = req[p].team
      BY <1>1, <3>3 DEF ReqFields
    <3> QED BY <2>1, <3>1, <3>4
  <2>2. CASE others # {}
    BY <1>1, <1>4, <2>2
  <2> QED BY <2>1, <2>2
<1>6. PICK q : q = [g EXCEPT !.teams = others]
  OBVIOUS
<1>7. Succeed(p, q)
  BY <1>2, <1>4, <1>6 DEF DeleteTeam
<1>8. q = ReqFields(q) /\ q.teams = others /\ q.team = g.team /\ q.work = g.work /\ q.todo = g.todo
  BY <1>5, <1>6 DEF ReqFields
<1>9. AtWork(q)
  BY <1>1, <1>3, <1>5, <1>8, WorksOn DEF Asks
<1> QED BY <1>1, <1>3, <1>5, <1>7, <1>8, <1>9, SucceedRows


\* A request that leaves its connection with the next statement to come.
LEMMA LeavesWith ==
  ASSUME PlansShape, NEW p \in Requests, req[p].todo # <<>>, NEW g, g = Goes(p), NEW q, q = [g EXCEPT !.on = None]
  PROVE  q.todo = Tail(req[p].todo) /\ q.work = req[p].work /\ q.teams = req[p].teams /\ q.team = req[p].team
<1>1. req[p] = ReqFields(req[p])
  BY DEF PlansShape, ReqOK
<1>2. PICK t : t = Tail(req[p].todo)
  OBVIOUS
<1>3. g = [req[p] EXCEPT !.todo = t]
  BY <1>2 DEF Goes
<1>4. q.todo = t /\ q.work = req[p].work /\ q.teams = req[p].teams /\ q.team = req[p].team
  BY <1>1, <1>3 DEF ReqFields
<1> QED BY <1>2, <1>4

LEMMA BeginRows == ASSUME PlansInv, RowsInv, NEW p \in Requests, Begin(p) PROVE RowsInv' /\ SubsStay
<1>0. Sent(p, "BEGIN")
  BY DEF Begin
<1>1. /\ req[p].on # None /\ req[p].on \in Conns /\ req[p].todo # <<>> /\ Head(req[p].todo) = "BEGIN"
      /\ PlansShape /\ req[p] = ReqFields(req[p]) /\ Shaped(req[p].todo)
  BY <1>0, SentFacts
<1>2. PICK c, t : c \in Conns /\ c = req[p].on /\ t = req[p].todo
  BY <1>1
<1>3. PICK g, q : g = Goes(p) /\ q = [g EXCEPT !.on = None]
  OBVIOUS
<1>4. q.todo = Tail(t) /\ q.work = req[p].work /\ q.teams = req[p].teams /\ q.team = req[p].team
  BY <1>1, <1>2, <1>3, LeavesWith
<1>5. (\A r \in Requests \ {p} : req'[r] = req[r]) /\ req'[p] = q
  <2>1. req' = [req EXCEPT ![p] = q]
    BY <1>3 DEF Begin
  <2> QED BY <1>1, <2>1 DEF PlansShape
<1>6. PICK y : y = [conn[c] EXCEPT !.tx = "open", !.holder = p]
  OBVIOUS
<1>7. y.pending = conn[c].pending /\ y.refs = conn[c].refs
  <2>1. conn[c] = ConnFields(conn[c])
    BY <1>1, <1>2 DEF PlansShape, ConnOK
  <2> QED BY <1>6, <2>1 DEF ConnFields
<1>8. /\ conn[c].tx = "open" => conn' = conn
      /\ conn[c].tx # "open" => conn' = [conn EXCEPT ![c] = y]
      /\ mixed' = mixed \union (IF conn[c].tx = "open" THEN {p, conn[c].holder} ELSE {})
      /\ db' = db /\ born' = born
  <2>1. CASE conn[c].tx = "open"
    BY <1>2, <2>1 DEF Begin
  <2>2. CASE conn[c].tx # "open"
    <3>1. conn' = [conn EXCEPT ![c].tx = "open", ![c].holder = p]
      BY <1>2, <2>2 DEF Begin
    <3>2. DOMAIN conn = Conns
      BY <1>1 DEF PlansShape
    <3> QED BY <1>2, <1>6, <2>2, <3>1, <3>2 DEF Begin
  <2> QED BY <2>1, <2>2
<1>9. /\ \A d \in Conns \ {c} : conn'[d] = conn[d]
      /\ conn[c].tx = "open" => conn'[c] = conn[c]
      /\ conn[c].tx # "open" => conn'[c] = y
  BY <1>1, <1>2, <1>8 DEF PlansShape
<1>10. \A r \in Requests \ {p} : r \notin mixed' => conn[c].holder # r
  <2>1. conn[c].tx # "aborted" /\ (conn[c].tx = "none" => conn[c].holder = None) /\ conn[c].tx \in {"none", "open", "aborted"}
    BY <1>1, <1>2 DEF Begin, PlansShape, ConnOK
  <2> QED BY <1>8, <2>1, TeamPlansAssumption DEF None
<1>11. p \notin mixed' => \A d \in Conns : conn[d].holder # p
  <2> SUFFICES ASSUME p \notin mixed', NEW d \in Conns, conn[d].holder = p PROVE FALSE
    OBVIOUS
  <2>1. TransactionKept(p)
    BY <1>8 DEF PlansInv
  <2>2. "BEGIN" \in Range(t)
    BY <1>1, <1>2, TailShaped
  <2> QED BY <1>2, <2>1, <2>2 DEF TransactionKept, Inside
<1>12. AtWork(req[p]) /\ (conn[c].tx # "open" => conn[c].pending = Empty /\ conn[c].refs = {})
  BY <1>2 DEF RowsInv, Relying
<1>13. AtWork(req'[p]) /\ req'[p].work = req[p].work
  <2>1. AtWork(q)
    BY <1>1, <1>2, <1>4, <1>12, WorksOn DEF AtWork, Asks
  <2> QED BY <1>4, <1>5, <2>1
<1>14. \/ conn'[c].pending = Empty /\ conn'[c].refs = {}
       \/ /\ conn'[c].pending = conn[c].pending /\ conn'[c].refs = conn[c].refs /\ conn'[c].tx = conn[c].tx
          /\ Head(req[p].todo) \notin {"deleteMemberships", "deleteUser", "insertTeamSub"}
  BY <1>1, <1>7, <1>9, <1>12
<1>15. RowsInv'
  BY <1>2, <1>5, <1>8, <1>9, <1>10, <1>11, <1>13, <1>14, DropStep
<1> QED BY <1>8, <1>15, SameSubs

LEMMA RollbackRows == ASSUME PlansInv, RowsInv, NEW p \in Requests, Rollback(p) PROVE RowsInv' /\ SubsStay
<1>0. Sent(p, "ROLLBACK") /\ db' = db /\ born' = born
  BY DEF Rollback
<1>1. /\ req[p].on \in Conns /\ req[p].todo # <<>> /\ Head(req[p].todo) = "ROLLBACK"
      /\ PlansShape /\ req[p] = ReqFields(req[p])
  BY <1>0, SentFacts
<1>2. PICK c, t : c \in Conns /\ c = req[p].on /\ t = req[p].todo
  BY <1>1
<1>3. PICK g, q : g = Goes(p) /\ q = [g EXCEPT !.on = None]
  OBVIOUS
<1>4. q.todo = Tail(t) /\ q.work = req[p].work /\ q.teams = req[p].teams /\ q.team = req[p].team
  BY <1>1, <1>2, <1>3, LeavesWith
<1>5. /\ conn' = [conn EXCEPT ![c] = Closed] /\ req' = [req EXCEPT ![p] = q]
      /\ mixed' = mixed \union Mixing(p)
  BY <1>2, <1>3 DEF Rollback
<1>6. /\ conn'[c] = Closed /\ \A d \in Conns \ {c} : conn'[d] = conn[d]
      /\ req'[p] = q /\ \A r \in Requests \ {p} : req'[r] = req[r]
  BY <1>1, <1>2, <1>5 DEF PlansShape
<1>7. AtWork(req'[p]) /\ req'[p].work = req[p].work
  <2>1. AtWork(req[p])
    BY DEF RowsInv
  <2>2. AtWork(q)
    BY <1>1, <1>2, <1>4, <2>1, WorksOn DEF AtWork, Asks
  <2> QED BY <1>4, <1>6, <2>2
<1>8. /\ mixed \subseteq mixed'
      /\ \A r \in Requests \ {p} : r \notin mixed' => conn[c].holder # r
      /\ p \notin mixed' => \A d \in Conns \ {c} : conn[d].holder # p
  BY <1>2, <1>5, MixingTells
<1>9. conn'[c].pending = Empty /\ conn'[c].refs = {}
  BY <1>6 DEF Closed
<1>10. RowsInv'
  BY <1>0, <1>2, <1>6, <1>7, <1>8, <1>9, DropStep
<1> QED BY <1>0, <1>10, SameSubs

LEMMA RejectRows == ASSUME PlansInv, RowsInv, NEW p \in Requests, Reject(p) PROVE RowsInv' /\ SubsStay
<1>1. req[p].on # None /\ req[p].todo # <<>> /\ db' = db /\ born' = born
  BY DEF Reject
<1>2. PICK c \in Conns : c = req[p].on
  BY <1>1 DEF PlansInv, PlansShape, ReqOK
<1>3. PlansShape /\ ConnOK(conn[c]) /\ req[p] = ReqFields(req[p]) /\ AtWork(req[p])
  BY DEF PlansInv, PlansShape, ReqOK, RowsInv
<1>4. PICK t, q : /\ t = IF InTry(p) THEN <<"ROLLBACK">> ELSE <<>>
                  /\ q = [req[p] EXCEPT !.on = None, !.verdict = "error", !.todo = t]
  OBVIOUS
<1>5. q.todo = t /\ q.work = req[p].work /\ q.teams = req[p].teams /\ q.team = req[p].team
  BY <1>3, <1>4 DEF ReqFields
<1>6. PICK y : y = [Closed EXCEPT !.tx = "aborted", !.holder = conn[c].holder]
  OBVIOUS
<1>7. y.pending = Empty /\ y.refs = {}
  BY <1>6 DEF Closed
<1>8. /\ req' = [req EXCEPT ![p] = q] /\ mixed' = mixed \union Mixing(p)
      /\ \/ conn' = [conn EXCEPT ![c] = y]
         \/ conn' = conn /\ (conn[c].tx = "open" => Head(req[p].todo) \in {"readPlan", "readBack"})
  BY <1>2, <1>4, <1>6 DEF Reject
<1>9. /\ req'[p] = q /\ \A r \in Requests \ {p} : req'[r] = req[r]
      /\ \A d \in Conns \ {c} : conn'[d] = conn[d]
      /\ \/ conn'[c] = y
         \/ conn'[c] = conn[c] /\ (conn[c].tx = "open" => Head(req[p].todo) \in {"readPlan", "readBack"})
  BY <1>3, <1>8 DEF PlansShape
<1>10. AtWork(req'[p]) /\ req'[p].work = req[p].work
  <2>1. AtWork(q)
    BY <1>1, <1>3, <1>4, <1>5, WorksOn DEF AtWork, Asks
  <2> QED BY <1>5, <1>9, <2>1
<1>11. /\ mixed \subseteq mixed'
       /\ \A r \in Requests \ {p} : r \notin mixed' => conn[c].holder # r
       /\ p \notin mixed' => \A d \in Conns \ {c} : conn[d].holder # p
  BY <1>2, <1>8, MixingTells
<1>12. conn[c].tx # "open" => conn[c].pending = Empty /\ conn[c].refs = {}
  BY DEF RowsInv, Relying
<1>13. \/ conn'[c].pending = Empty /\ conn'[c].refs = {}
       \/ /\ conn'[c].pending = conn[c].pending /\ conn'[c].refs = conn[c].refs /\ conn'[c].tx = conn[c].tx
          /\ Head(req[p].todo) \notin {"deleteMemberships", "deleteUser", "insertTeamSub"}
  BY <1>7, <1>9, <1>12
<1>14. RowsInv'
  BY <1>1, <1>9, <1>10, <1>11, <1>13, DropStep
<1> QED BY <1>1, <1>14, SameSubs

LEMMA AcquireRows == ASSUME PlansInv, RowsInv, NEW p \in Requests, Acquire(p) PROVE RowsInv' /\ SubsStay
<1>1. /\ \A r \in Requests : req'[r].todo = req[r].todo /\ req'[r].work = req[r].work /\ req'[r].teams = req[r].teams
      /\ conn' = conn /\ db' = db /\ mixed' = mixed
  BY AcquireIs
<1>2. \A r \in Requests : req'[r].team = req[r].team
  <2>1. req[p] = ReqFields(req[p]) /\ req = [r \in Requests |-> req[r]]
    BY DEF PlansInv, PlansShape, ReqOK
  <2>2. PICK c : req' = [req EXCEPT ![p].on = c]
    BY DEF Acquire
  <2>3. PICK q : q = [req[p] EXCEPT !.on = c]
    OBVIOUS
  <2>4. q.team = req[p].team
    BY <2>1, <2>3 DEF ReqFields
  <2>5. req'[p] = q /\ \A r \in Requests \ {p} : req'[r] = req[r]
    BY <2>1, <2>2, <2>3
  <2> QED BY <2>4, <2>5
<1>3. born' = born
  BY DEF Acquire
<1>4. RowsInv'
  BY <1>1, <1>2, <1>3, SameRows
<1> QED BY <1>1, <1>4, SameSubs

LEMMA IdleTimeoutRows == ASSUME PlansInv, RowsInv, NEW c \in Conns, IdleTimeout(c) PROVE RowsInv' /\ SubsStay
<1>1. conn' = [conn EXCEPT ![c] = Closed] /\ db' = db /\ req' = req /\ mixed' = mixed /\ born' = born
  BY DEF IdleTimeout
<1>2. conn'[c] = Closed /\ \A d \in Conns \ {c} : conn'[d] = conn[d]
  BY <1>1 DEF PlansInv, PlansShape
<1>3. \A d \in Conns : conn'[d] = conn[d] \/ (conn'[d].pending = Empty /\ conn'[d].refs = {})
  BY <1>2 DEF Closed
<1>4. RowsInv'
  BY <1>1, <1>3, SameRows
<1> QED BY <1>1, <1>4, SameSubs


\* What a transaction leaves undone at its COMMIT is another request's doing, and mixed.
LEMMA CommitRows == ASSUME PlansInv, RowsInv, NEW p \in Requests, Commit(p) PROVE RowsInv' /\ SubsStay
<1>0. Sent(p, "COMMIT") /\ born' = born
  BY DEF Commit
<1>1. /\ req[p].on \in Conns /\ req[p].todo # <<>> /\ Head(req[p].todo) = "COMMIT"
      /\ PlansShape /\ req[p] = ReqFields(req[p])
  BY <1>0, SentFacts
<1>2. PICK c, t : c \in Conns /\ c = req[p].on /\ t = req[p].todo
  BY <1>1
<1>3. PICK g, q : g = Goes(p) /\ q = [g EXCEPT !.on = None]
  OBVIOUS
<1>4. q.todo = Tail(t) /\ q.work = req[p].work /\ q.teams = req[p].teams /\ q.team = req[p].team
  BY <1>1, <1>2, <1>3, LeavesWith
<1>5. /\ conn' = [conn EXCEPT ![c] = Closed] /\ req' = [req EXCEPT ![p] = q]
      /\ mixed' = mixed \union Mixing(p)
  BY <1>2, <1>3 DEF Commit
<1>6. /\ conn'[c] = Closed /\ \A d \in Conns \ {c} : conn'[d] = conn[d]
      /\ req'[p] = q /\ \A r \in Requests \ {p} : req'[r] = req[r]
  BY <1>1, <1>2, <1>5 DEF PlansShape
<1>7. AtWork(req'[p]) /\ req'[p].work = req[p].work
  <2>1. AtWork(req[p])
    BY DEF RowsInv
  <2>2. AtWork(q)
    BY <1>1, <1>2, <1>4, <2>1, WorksOn DEF AtWork, Asks
  <2> QED BY <1>4, <1>6, <2>2
<1>8. /\ mixed \subseteq mixed'
      /\ \A r \in Requests \ {p} : r \notin mixed' => conn[c].holder # r
      /\ p \notin mixed' => \A d \in Conns \ {c} : conn[d].holder # p
  BY <1>2, <1>5, MixingTells
<1>9. conn'[c].pending = Empty /\ conn'[c].refs = {}
  BY <1>6 DEF Closed
<1>10. CASE conn[c].tx # "open"
  <2>1. db' = db
    <3>1. db' = [k \in Keys |-> db[k]]
      BY <1>2, <1>10 DEF Commit
    <3> QED BY <3>1 DEF RowsInv
  <2>2. RowsInv'
    BY <1>0, <1>2, <1>6, <1>7, <1>8, <1>9, <2>1, DropStep
  <2> QED BY <2>1, <2>2, SameSubs
<1>11. CASE conn[c].tx = "open"
  <2>1. PICK w, R : w = conn[c].pending /\ R = conn[c].refs
    OBVIOUS
  <2>2. db' = Over(w, db)
    BY <1>2, <1>11, <2>1 DEF Commit, Over
  <2>3. Relying(c) /\ Kept(c) /\ \A d \in Conns \ {c} : Separate(c, d)
    BY <1>2 DEF RowsInv
  <2>4. Sound(w, R, born', db) /\ \A d \in Conns \ {c} : Apart(w, R, conn[d].pending, conn[d].refs)
    BY <1>0, <2>1, <2>3 DEF Relying, Separate
  <2>5. req[p].todo \notin Halves /\ req[p].todo # <<"insertTeamSub", "COMMIT">>
    BY <1>1, HalvesAre DEF Halves
  <2>6. ASSUME mixed' = {}, NEW m \in Teams, Put(w, TeamRow(m)) PROVE db[TeamRow(m)] # None \/ Put(w, Sub(m))
    <3>1. ASSUME NEW r \in Requests, HalfMade(r, m, c) PROVE FALSE
      BY <1>8, <2>5, <2>6, <3>1 DEF HalfMade
    <3>2. mixed = {}
      BY <1>8, <2>6
    <3> QED BY <2>1, <2>3, <2>6, <3>1, <3>2 DEF Kept
  <2>7. ASSUME NEW u \in Users, Deleted(w, Sub(u)) PROVE Over(w, db)[PlanOf(u)] = None \/ u \in SplitDeletions'
    <3>1. ASSUME NEW r \in Requests, HalfGone(r, u, c) PROVE u \in SplitDeletions'
      <4>1. req'[r].work = req[r].work
        BY <1>6, <1>7
      <4>2. r \in mixed'
        BY <1>8, <2>5, <3>1 DEF HalfGone
      <4> QED BY <3>1, <4>1, <4>2 DEF HalfGone, SplitDeletions
    <3> QED BY <2>1, <2>3, <2>7, <3>1 DEF Kept
  <2>8. born' \in 0..MaxTeams /\ born <= born'
    BY <1>0, TeamPlansAssumption DEF RowsInv
  <2> QED BY <1>2, <1>6, <1>7, <1>8, <1>9, <2>2, <2>4, <2>6, <2>7, <2>8, ApplyStep
<1> QED BY <1>10, <1>11

LEMMA RowsNext == PlansInv /\ RowsInv /\ [PlansNext]_plansVars => RowsInv' /\ SubsStay
<1> SUFFICES ASSUME PlansInv, RowsInv, [PlansNext]_plansVars PROVE RowsInv' /\ SubsStay
  OBVIOUS
<1>1. ASSUME NEW p \in Requests, Acquire(p) PROVE RowsInv' /\ SubsStay
  BY <1>1, AcquireRows
<1>2. ASSUME NEW p \in Requests, Execute(p) PROVE RowsInv' /\ SubsStay
  BY <1>2, StatementsRows, ListTeamsRows, DeleteTeamRows, FindUserRows, BeginRows, CommitRows, RollbackRows,
     RejectRows DEF Execute
<1>3. ASSUME NEW c \in Conns, IdleTimeout(c) PROVE RowsInv' /\ SubsStay
  BY <1>3, IdleTimeoutRows
<1>4. CASE UNCHANGED plansVars
  BY <1>4, SameRows, SameSubs DEF plansVars
<1> QED BY <1>1, <1>2, <1>3, <1>4 DEF PlansNext

-----------------------------------------------------------------------------
(* The first state *)

LEMMA TeamProgram ==
  ASSUME NEW w, w.plan = "team", NEW t, t = SelectProgram(w)
  PROVE  Len(t) = 9 /\ t[7] = "insertTeam" /\ t[8] = "insertTeamSub" /\ t[9] = "COMMIT"
<1>1. PICK n, v, e : n = <<"insertTeam", "insertTeamSub">> /\ v = Cleared \o n /\ e = <<"COMMIT">>
  OBVIOUS
<1>2. t = v \o e
  BY <1>1 DEF SelectProgram, NewPlan
<1>3. /\ Cleared \in Seq(Statements) /\ Len(Cleared) = 6
      /\ n \in Seq(Statements) /\ Len(n) = 2 /\ n[1] = "insertTeam" /\ n[2] = "insertTeamSub"
      /\ e \in Seq(Statements) /\ Len(e) = 1 /\ e[1] = "COMMIT"
  BY <1>1 DEF Cleared, Statements, Writing
<1>4. /\ v \in Seq(Statements) /\ Len(v) = 6 + 2 /\ \A i \in 6 + 1..6 + 2 : v[i] = n[i - 6]
  <2>1. /\ Cleared \o n \in Seq(Statements) /\ Len(Cleared \o n) = Len(Cleared) + Len(n)
        /\ \A i \in Len(Cleared) + 1..Len(Cleared) + Len(n) : (Cleared \o n)[i] = n[i - Len(Cleared)]
    BY <1>3, Concatenated, Zenon
  <2> QED BY <1>1, <1>3, <2>1
<1>5. Len(v) = 8 /\ v[7] = n[1] /\ v[8] = n[2]
  BY <1>4
<1>6. /\ Len(t) = 8 + 1 /\ (\A i \in 1..8 : t[i] = v[i]) /\ \A i \in 8 + 1..8 + 1 : t[i] = e[i - 8]
  <2>1. /\ Len(v \o e) = Len(v) + Len(e) /\ (\A i \in 1..Len(v) : (v \o e)[i] = v[i])
        /\ \A i \in Len(v) + 1..Len(v) + Len(e) : (v \o e)[i] = e[i - Len(v)]
    BY <1>3, <1>4, Concatenated, Zenon
  <2> QED BY <1>2, <1>3, <1>5, <2>1
<1> QED BY <1>3, <1>5, <1>6

\* No program deletes a team before it has listed some, and the last statements of
\* selectPlan and of deleteMe are what they are.
LEMMA ProgramFollowed ==
  ASSUME NEW w, w.kind \in {"select", "accept", "transfer", "delete", "scan"}, NEW t, t = Program(w)
  PROVE  /\ Followed(t)
         /\ t # <<>> => Head(t) # "deleteTeam"
         /\ "deleteSubs" \in Range(t) => w.kind = "delete"
<1>1. CASE w.kind = "select"
  <2>1. t = SelectProgram(w)
    BY <1>1 DEF Program
  <2>2. /\ t \in Seq(Statements) /\ Len(t) \in Nat /\ Len(t) > 6 /\ t[Len(t)] = "COMMIT"
        /\ t[1] = "readPlan" /\ t[2] = "BEGIN" /\ t[3] = "listTeams" /\ t[4] = "deleteTeam"
        /\ t[5] = "deleteMemberships" /\ t[6] = "updatePlan"
        /\ \A i \in 7..Len(t) - 1 :
             t[i] \in (IF w.plan = "team" THEN {"insertTeam", "insertTeamSub"} ELSE {"insertUserSub"})
    BY <2>1, SelectIs
  <2>3. \A i \in 1..Len(t) : \/ i = 1 \/ i = 2 \/ i = 3 \/ i = 4 \/ i = 5 \/ i = 6
                             \/ i \in 7..Len(t) - 1 \/ i = Len(t)
    BY <2>2
  <2>4. \A i \in 7..Len(t) - 1 : t[i] \in {"insertTeam", "insertTeamSub", "insertUserSub"}
    BY <2>2
  <2>5. \A i \in 1..Len(t) : t[i] # "deleteSubs" /\ (t[i] = "deleteTeam" => i = 4)
    BY <2>2, <2>3, <2>4
  <2>6. ASSUME NEW i \in 1..Len(t), t[i] = "insertTeam"
        PROVE  Len(t) = i + 2 /\ t[i + 1] = "insertTeamSub" /\ t[i + 2] = "COMMIT"
    <3>1. w.plan = "team"
      BY <2>2, <2>3, <2>6
    <3>2. Len(t) = 9 /\ t[7] = "insertTeam" /\ t[8] = "insertTeamSub" /\ t[9] = "COMMIT"
      BY <2>1, <3>1, TeamProgram
    <3>3. i = 7
      BY <2>2, <2>3, <2>6, <3>2
    <3> QED BY <3>2, <3>3
  <2>7. Followed(t)
    <3>1. t[4 - 1] = "listTeams"
      BY <2>2
    <3> QED BY <2>5, <2>6, <3>1 DEF Followed
  <2>8. Head(t) = "readPlan" /\ DOMAIN t = 1..Len(t)
    BY <2>2
  <2> QED BY <2>5, <2>7, <2>8 DEF Range
<1>2. CASE w.kind = "delete"
  <2>1. t = <<"BEGIN", "findUser", "deleteScans", "deleteSubs", "deleteMemberships", "deleteUser", "COMMIT">>
    BY <1>2 DEF Program
  <2>2. /\ Len(t) = 7 /\ Head(t) = "BEGIN" /\ t[1] = "BEGIN" /\ t[2] = "findUser" /\ t[3] = "deleteScans" /\ t[4] = "deleteSubs"
        /\ t[5] = "deleteMemberships" /\ t[6] = "deleteUser" /\ t[7] = "COMMIT"
    BY <2>1
  <2>3. \A i \in 1..Len(t) : i = 1 \/ i = 2 \/ i = 3 \/ i = 4 \/ i = 5 \/ i = 6 \/ i = 7
    BY <2>2
  <2>4. \A i \in 1..Len(t) : t[i] \notin {"insertTeam", "deleteTeam"} /\ (t[i] = "deleteSubs" => i = 4)
    BY <2>2, <2>3
  <2> QED BY <1>2, <2>2, <2>4 DEF Followed
<1>3. CASE w.kind \in {"accept", "transfer", "scan"}
  <2>1. PICK S : S = {"findInvite", "BEGIN", "upsertMember", "acceptInvite", "COMMIT", "readBack", "readPlan",
                      "findTarget", "setOwner", "formerOwnerAdmin", "targetMember", "insertScan"}
    OBVIOUS
  <2>2. t \in Seq(S)
    <3>1. CASE w.kind = "accept"
      <4>1. t = <<"findInvite", "BEGIN", "upsertMember", "acceptInvite", "COMMIT", "readBack">>
        BY <3>1 DEF Program
      <4> QED BY <2>1, <4>1
    <3>2. CASE w.kind = "transfer"
      <4>1. t = <<"readPlan", "findTarget", "BEGIN", "setOwner", "formerOwnerAdmin", "targetMember", "COMMIT">>
        BY <3>2 DEF Program
      <4> QED BY <2>1, <4>1
    <3>3. CASE w.kind = "scan"
      <4>1. t = <<"insertScan">>
        BY <3>3 DEF Program
      <4> QED BY <2>1, <4>1
    <3> QED BY <1>3, <3>1, <3>2, <3>3
  <2>3. DOMAIN t = 1..Len(t) /\ (\A i \in 1..Len(t) : t[i] \in S) /\ (t # <<>> => Head(t) \in S)
    BY <2>2
  <2>4. "insertTeam" \notin S /\ "deleteTeam" \notin S /\ "deleteSubs" \notin S
    BY <2>1
  <2> QED BY <2>3, <2>4 DEF Followed, Range
<1> QED BY <1>1, <1>2, <1>3

LEMMA RowsStart == PlansInit => RowsInv
<1> SUFFICES ASSUME PlansInit PROVE RowsInv
  OBVIOUS
<1>1. PICK w \in Scenarios :
        /\ db = w.rows
        /\ req = [r \in Requests |->
                    [work |-> w.work[r], todo |-> Program(w.work[r]), on |-> None,
                     teams |-> {}, team |-> w.work[r].team, verdict |-> "ok"]]
  BY DEF PlansInit
<1>2. /\ db \in [Keys -> Values]
      /\ \A u \in Users : db[PlanOf(u)] \in Plans \union {None}
      /\ \A t \in Teams : db[TeamRow(t)] \in Users \union {None}
      /\ \A t \in Teams, u \in Users : db[Member(t, u)] \in Roles \union {None}
      /\ \A x \in Users \union Teams : db[Sub(x)] \in {None, "active"}
      /\ Linked(db) /\ TeamsPaid
  BY <1>1, RowsAssumption DEF Linked, TeamsPaid
<1>3. PICK S : S = {0} \union {t \in Teams : db[TeamRow(t)] # None}
  OBVIOUS
<1>4. born \in S /\ (\A y \in S : y <= born) /\ S \subseteq 0..MaxTeams
  <2>1. S \in SUBSET (0..MaxTeams) /\ S # {}
    BY <1>3, TeamPlansAssumption DEF Teams
  <2>2. born = Max(S)
    BY <1>3 DEF PlansInit
  <2> QED BY <2>1, <2>2, GreatestId
<1>5. ASSUME NEW k \in Keys PROVE ValueOK(k, db[k])
  <2>1. CASE \E u \in Users : k = PlanOf(u)
    BY <1>2, <2>1, Tags DEF ValueOK
  <2>2. CASE \E t \in Teams : k = TeamRow(t)
    BY <1>2, <2>2, Tags DEF ValueOK
  <2>3. CASE \E t \in Teams, u \in Users : k = Member(t, u)
    BY <1>2, <2>3, Tags DEF ValueOK
  <2>4. CASE \E x \in Users \union Teams : k = Sub(x)
    <3>1. PICK x \in Users \union Teams : k = Sub(x)
      BY <2>4
    <3>2. k[1] = "subscriptions" /\ db[k] \in {None, "active"}
      BY <1>2, <3>1, Tags
    <3> QED BY <3>2 DEF ValueOK
  <2>5. CASE \E t \in Teams, u \in Users : k = Invite(t, u)
    BY <2>5, Tags DEF ValueOK
  <2>6. CASE \E u \in Users : k = Scan(u)
    BY <2>6, Tags DEF ValueOK
  <2> QED BY <2>1, <2>2, <2>3, <2>4, <2>5, <2>6 DEF Keys
<1>6. Orderly(db, born)
  <2>1. ASSUME NEW t \in Teams, t > born PROVE db[TeamRow(t)] = None /\ db[Sub(t)] = None
    <3>1. Refers(Sub(t), TeamRow(t)) /\ Sub(t) \in Keys /\ TeamRow(t) \in Keys
      BY DEF Refers, Keys
    <3>2. t \in Int /\ born \in Int
      <4>1. born \in 0..MaxTeams /\ t \in 1..MaxTeams
        BY <1>4 DEF Teams
      <4> QED BY <4>1
    <3>3. t \notin S
      <4>1. ~(t <= born)
        BY <2>1, <3>2
      <4> QED BY <1>4, <4>1
    <3> QED BY <1>2, <1>3, <3>1, <3>3 DEF Linked
  <2> QED BY <1>2, <1>5, <2>1 DEF Orderly, RowsOK
<1>7. db = [k \in Keys |-> db[k]] /\ born \in 0..MaxTeams
  BY <1>2, <1>4
<1>8. ASSUME NEW c \in Conns PROVE conn[c].pending = Empty /\ conn[c].refs = {} /\ Relying(c) /\ Kept(c)
  <2>1. conn[c].pending = Empty /\ conn[c].refs = {}
    BY DEF PlansInit, Closed
  <2> QED BY <1>6, <1>7, <2>1, EmptyKept
<1>9. \A c \in Conns : \A d \in Conns \ {c} : Separate(c, d)
  BY <1>8, EmptyIs DEF Separate, Apart
<1>10. ASSUME NEW r \in Requests PROVE AtWork(req[r])
  <2>1. /\ req[r].work = w.work[r] /\ req[r].todo = Program(req[r].work) /\ req[r].teams = {}
        /\ req[r].team = req[r].work.team
        /\ req[r].work.kind \in {"select", "accept", "transfer", "delete", "scan"}
        /\ req[r].work.user \in Users /\ req[r].work.to \in Users /\ req[r].work.team \in 1..MaxTeams
        /\ req[r].work.plan \in {"free", "individual_monthly", "individual_yearly", "team"}
    BY <1>1, TeamPlansAssumption
  <2>2. /\ Followed(req[r].todo)
        /\ req[r].todo # <<>> => Head(req[r].todo) # "deleteTeam"
        /\ "deleteSubs" \in Range(req[r].todo) => req[r].work.kind = "delete"
    BY <2>1, ProgramFollowed
  <2>3. Asks(req[r])
    BY <2>1 DEF Asks, Plans, Teams
  <2> QED BY <2>2, <2>3 DEF AtWork
<1> QED BY <1>2, <1>6, <1>7, <1>8, <1>9, <1>10 DEF RowsInv

-----------------------------------------------------------------------------
(* What the pages say of orderly rows *)

LEMMA ContextIs ==
  ASSUME NEW u \in Users, NEW v, NEW b, Orderly(v, b), NEW c \in Contexts(u, v)
  PROVE  /\ c.team = 0 <=> Owned(u, v) = {} /\ Joined(u, v) = {}
         /\ c.team = 0 <=> c.role = None
         /\ c.role = "owner" <=> Owned(u, v) # {}
         /\ c.team # 0 => c.team \in Teams /\ v[TeamRow(c.team)] \in Users
         /\ c.role = "owner" => v[TeamRow(c.team)] = u
         /\ c.role \in {None, "owner"} \/ (c.role = v[Member(c.team, u)] /\ c.role \in Roles /\ v[TeamRow(c.team)] # u)
         /\ c = [team |-> c.team, role |-> c.role]
<1>1. 0 \notin Teams /\ u # None /\ "owner" # None /\ None \notin Roles /\ "owner" \notin Roles
  BY NoneIsOther DEF Teams, None, Roles
<1>2. ASSUME NEW t \in Teams
      PROVE  /\ v[TeamRow(t)] \in Users \union {None} /\ v[Member(t, u)] \in Roles \union {None}
             /\ v[Member(t, u)] # None => v[TeamRow(t)] # None
  <2>1. TeamRow(t) \in Keys /\ Member(t, u) \in Keys
    BY KeysOfTeams
  <2>2. ValueOK(TeamRow(t), v[TeamRow(t)]) /\ ValueOK(Member(t, u), v[Member(t, u)])
    BY <2>1 DEF Orderly, RowsOK
  <2>3. v[TeamRow(t)] \in Users \union {None} /\ v[Member(t, u)] \in Roles \union {None}
    BY <2>2, Tags DEF ValueOK
  <2>4. v[Member(t, u)] # None => v[TeamRow(t)] # None
    BY <2>1, RefersTo DEF Orderly, Linked
  <2> QED BY <2>3, <2>4
<1>3. CASE Owned(u, v) # {}
  <2>1. PICK t \in Owned(u, v) : c = [team |-> t, role |-> "owner"]
    BY <1>3 DEF Contexts
  <2>2. t \in Teams /\ v[TeamRow(t)] = u
    BY <2>1 DEF Owned
  <2> QED BY <1>1, <1>3, <2>1, <2>2
<1>4. CASE Owned(u, v) = {} /\ Joined(u, v) # {}
  <2>1. PICK t \in Joined(u, v) : c = [team |-> t, role |-> v[Member(t, u)]]
    BY <1>4 DEF Contexts
  <2>2. t \in Teams /\ v[Member(t, u)] # None /\ v[TeamRow(t)] # u
    BY <1>4, <2>1 DEF Joined, Owned
  <2>3. c.team = t /\ c.role = v[Member(t, u)] /\ c.role \in Roles /\ v[TeamRow(t)] \in Users
    BY <1>2, <2>1, <2>2
  <2> QED BY <1>1, <1>4, <2>1, <2>2, <2>3
<1>5. CASE Owned(u, v) = {} /\ Joined(u, v) = {}
  <2>1. c = [team |-> 0, role |-> None]
    BY <1>5 DEF Contexts
  <2> QED BY <1>1, <1>5, <2>1
<1> QED BY <1>3, <1>4, <1>5

\* One context at most, unless there are several.
LEMMA OneContext ==
  ASSUME NEW u, NEW v, NEW c \in Contexts(u, v), NEW a \in Contexts(u, v), ~Several(u, v)
  PROVE  c = a
<1>1. IsFiniteSet(Contexts(u, v))
  <2>1. IsFiniteSet(Teams)
    <3>1. MaxTeams \in Int /\ 1 \in Int
      BY TeamPlansAssumption
    <3> QED BY <3>1, FS_Interval DEF Teams
  <2>2. IsFiniteSet(Owned(u, v)) /\ IsFiniteSet(Joined(u, v))
    <3>1. Owned(u, v) \subseteq Teams /\ Joined(u, v) \subseteq Teams
      BY DEF Owned, Joined
    <3> QED BY <2>1, <3>1, FS_Subset
  <2>3. IsFiniteSet({[team |-> t, role |-> "owner"] : t \in Owned(u, v)})
    <3>1. PICK f : f = [t \in Owned(u, v) |-> [team |-> t, role |-> "owner"]]
      OBVIOUS
    <3>2. {[team |-> t, role |-> "owner"] : t \in Owned(u, v)} = {f[t] : t \in Owned(u, v)}
      BY <3>1
    <3>3. f \in Surjection(Owned(u, v), {f[t] : t \in Owned(u, v)})
      BY <3>1 DEF Surjection
    <3> QED BY <2>2, <3>2, <3>3, FS_Surjection
  <2>4. IsFiniteSet({[team |-> t, role |-> v[Member(t, u)]] : t \in Joined(u, v)})
    <3>1. PICK f : f = [t \in Joined(u, v) |-> [team |-> t, role |-> v[Member(t, u)]]]
      OBVIOUS
    <3>2. {[team |-> t, role |-> v[Member(t, u)]] : t \in Joined(u, v)} = {f[t] : t \in Joined(u, v)}
      BY <3>1
    <3>3. f \in Surjection(Joined(u, v), {f[t] : t \in Joined(u, v)})
      BY <3>1 DEF Surjection
    <3> QED BY <2>2, <3>2, <3>3, FS_Surjection
  <2>5. IsFiniteSet({[team |-> 0, role |-> None]})
    BY FS_Singleton
  <2> QED BY <2>3, <2>4, <2>5 DEF Contexts
<1>2. ASSUME c # a PROVE FALSE
  <2>1. {c, a} \subseteq Contexts(u, v)
    OBVIOUS
  <2>2. Cardinality({c, a}) <= Cardinality(Contexts(u, v)) /\ Cardinality({c, a}) = 2
    <3>1. Cardinality({a}) = 1 /\ IsFiniteSet({a})
      BY FS_Singleton
    <3>2. {a} \union {c} = {c, a} /\ c \notin {a}
      BY <1>2
    <3>3. Cardinality({a} \union {c}) = Cardinality({a}) + 1
      BY <3>1, <3>2, FS_AddElement
    <3>4. Cardinality({c, a}) = 2
      BY <3>1, <3>2, <3>3
    <3>5. Cardinality({c, a}) <= Cardinality(Contexts(u, v))
      BY <1>1, <2>1, FS_Subset
    <3> QED BY <3>4, <3>5
  <2>3. Cardinality(Contexts(u, v)) \in Nat
    BY <1>1, FS_CardinalityType
  <2> QED BY <2>2, <2>3 DEF Several
<1> QED BY <1>2

LEMMA MeIs ==
  ASSUME NEW u, NEW v, NEW k, NEW c, NEW me, me = Me(u, c, v, k), NEW e, e = getEffectivePlan(u, c, v, k)
  PROVE  /\ me.plan = v[PlanOf(u)] /\ me.organizationPlan = IF c.team # 0 THEN e.planCode ELSE None
         /\ me.planSelected = (k.selected \/ c.team # 0)
         /\ me.status = subscriptionStatusFromEffectivePlan(e, k)
         /\ me.scanLimit = e.scanLimit /\ me.history = e.hasPaidHistory /\ me.role = c.role
         /\ e.role = c.role /\ e.team = c.team /\ e.planCode = (IF c.team # 0 THEN "team" ELSE v[PlanOf(u)])
         /\ e.scanLimit = scanLimitForPlanCode(e.planCode)
         /\ e.hasPaidHistory = hadPaidPlanBefore(u, c, v)
         /\ e.accessState =
              (IF e.planCode = "free" THEN "free"
               ELSE IF c.team # 0 THEN IF isSubscriptionActive(c.team, v, k) THEN "team_active" ELSE "team_expired"
               ELSE IF isSubscriptionActive(u, v, k) THEN "paid_active" ELSE "paid_expired")
<1>1. PICK code : code = IF c.team # 0 THEN "team" ELSE v[PlanOf(u)]
  OBVIOUS
<1>2. /\ e.role = c.role /\ e.team = c.team /\ e.planCode = code
      /\ e.scanLimit = scanLimitForPlanCode(code)
      /\ e.hasPaidHistory = hadPaidPlanBefore(u, c, v)
      /\ e.accessState =
           (IF code = "free" THEN "free"
            ELSE IF c.team # 0 THEN IF isSubscriptionActive(c.team, v, k) THEN "team_active" ELSE "team_expired"
            ELSE IF isSubscriptionActive(u, v, k) THEN "paid_active" ELSE "paid_expired")
  BY <1>1 DEF getEffectivePlan
<1>3. me = fetchUserProfile(u, e, v, k)
  BY DEF Me
<1> QED BY <1>1, <1>2, <1>3 DEF fetchUserProfile


LEMMA CaseIs ==
  ASSUME NEW u, NEW v, NEW k \in Cases(u, v)
  PROVE  /\ k.selected \in BOOLEAN /\ (~k.selected => v[PlanOf(u)] = "free")
         /\ k.used \in Nat /\ k.used < Unlimited /\ Unlimited \in Nat /\ k.api \in BOOLEAN /\ k.web \in BOOLEAN
         /\ k = [late |-> k.late, selected |-> k.selected, used |-> k.used, api |-> k.api, web |-> k.web]
<1>1. /\ k.selected \in {TRUE, v[PlanOf(u)] # "free"} /\ k.used \in ScanCounts /\ k.api \in BOOLEAN /\ k.web \in BOOLEAN
      /\ k = [late |-> k.late, selected |-> k.selected, used |-> k.used, api |-> k.api, web |-> k.web]
  BY DEF Cases
<1>2. Unlimited \in Nat
  BY SMT DEF Unlimited
<1>3. k.used \in 0..Unlimited - 1
  BY <1>1, ScanCountsAssumption
<1>4. k.used \in Nat /\ k.used < Unlimited
  BY <1>2, <1>3
<1> QED BY <1>1, <1>2, <1>4

LEMMA OffersRight ==
  ASSUME NEW u \in Users, NEW v, NEW b, Orderly(v, b), NEW k \in Cases(u, v), NEW c \in Contexts(u, v), NEW a \in Contexts(u, v),
         NEW me, me = Me(u, c, v, k), NEW e, e = getEffectivePlan(u, a, v, k)
  PROVE  OffersAccepted(u, v, k, me, e)
<1> SUFFICES ASSUME NEW mode, NEW p \in Cards(me, mode, k), ~Several(u, v), me.role # "admin", k.web = k.api
             PROVE  SelectAllowed(e, p, k)
  BY DEF OffersAccepted
<1>1. c = a
  BY OneContext
<1>2. me.role = c.role /\ e.role = c.role
  BY <1>1, MeIs
<1>3. me.role # "member" /\ (p \in Paid => k.web)
  BY DEF Cards, CardEnabled
<1>4. c.role \in {None, "owner"}
  BY <1>2, <1>3, ContextIs DEF Roles
<1> QED BY <1>2, <1>3, <1>4 DEF SelectAllowed

LEMMA BillingRight ==
  ASSUME NEW u \in Users, NEW v, NEW b, Orderly(v, b), v[PlanOf(u)] \in Plans,
         NEW k \in Cases(u, v), NEW c \in Contexts(u, v), NEW a \in Contexts(u, v),
         NEW me, me = Me(u, c, v, k), NEW e, e = getEffectivePlan(u, a, v, k)
  PROVE  BillingTold(u, v, k, me, e)
<1> SUFFICES ASSUME ~Several(u, v) PROVE BillingTold(u, v, k, me, e)
  BY DEF BillingTold
<1>1. c = a
  BY OneContext
<1>2. PICK plan, code : plan = v[PlanOf(u)] /\ code = IF c.team # 0 THEN "team" ELSE plan
  OBVIOUS
<1>3. /\ me.plan = plan /\ me.organizationPlan = IF c.team # 0 THEN code ELSE None
      /\ me.status = subscriptionStatusFromEffectivePlan(e, k)
      /\ me.scanLimit = e.scanLimit /\ me.role = c.role
      /\ e.planCode = code /\ e.scanLimit = scanLimitForPlanCode(code)
      /\ e.accessState \in IF code = "free" THEN {"free"}
                           ELSE IF c.team # 0 THEN {"team_active", "team_expired"} ELSE {"paid_active", "paid_expired"}
  <2>1. /\ me.plan = plan /\ me.organizationPlan = IF c.team # 0 THEN e.planCode ELSE None
        /\ me.status = subscriptionStatusFromEffectivePlan(e, k)
        /\ me.scanLimit = e.scanLimit /\ me.role = c.role
        /\ e.planCode = code /\ e.scanLimit = scanLimitForPlanCode(e.planCode)
        /\ e.accessState =
              (IF e.planCode = "free" THEN "free"
               ELSE IF c.team # 0 THEN IF isSubscriptionActive(c.team, v, k) THEN "team_active" ELSE "team_expired"
               ELSE IF isSubscriptionActive(u, v, k) THEN "paid_active" ELSE "paid_expired")
    BY <1>1, <1>2, MeIs
  <2> QED BY <2>1
<1>4. WebPlan(me) = code
  <2>1. "team" # None
    BY DEF None
  <2> QED BY <1>2, <1>3, <2>1 DEF WebPlan
<1>5. /\ k.selected \in BOOLEAN /\ (~k.selected => plan = "free") /\ k.used \in Nat /\ k.used < Unlimited /\ Unlimited \in Nat
      /\ c.team = 0 <=> c.role = None
      /\ plan \in {"free", "individual_monthly", "individual_yearly", "team"}
  BY <1>2, CaseIs, ContextIs DEF Plans
<1>6. PICK may \in BOOLEAN, others \in BOOLEAN : (may <=> canStartScan(e, k.used) = "ok") /\ (others <=> Remaining(me, k) > 0)
  OBVIOUS
<1>7. code = "free" => (may <=> k.used < 2) /\ (others <=> k.used < 2)
  <2> SUFFICES ASSUME code = "free" PROVE (may <=> k.used < 2) /\ (others <=> k.used < 2)
    OBVIOUS
  <2>1. e.accessState = "free" /\ e.scanLimit = 2 /\ me.scanLimit = 2
    BY <1>3 DEF scanLimitForPlanCode
  <2>2. canStartScan(e, k.used) = IF k.used >= 2 THEN "free_limit_reached" ELSE "ok"
    BY <1>3, <2>1 DEF canStartScan
  <2>3. Remaining(me, k) = IF k.used >= 2 THEN 0 ELSE 2 - k.used
    BY <2>1 DEF Remaining
  <2>4. PICK n \in Nat : n = k.used
    BY <1>5
  <2>5. may <=> n < 2
    BY <1>6, <2>2, <2>4
  <2>6. others <=> n < 2
    BY <1>6, <2>3, <2>4
  <2> QED BY <2>4, <2>5, <2>6
<1>8. e.accessState \in {"team_expired", "paid_expired"} => ~may
  BY <1>6 DEF canStartScan
<1>9. code = "team" /\ e.accessState = "team_active" => may /\ others
  <2> SUFFICES ASSUME code = "team", e.accessState = "team_active" PROVE may /\ others
    OBVIOUS
  <2>1. me.scanLimit = Unlimited
    BY <1>3 DEF scanLimitForPlanCode
  <2>2. canStartScan(e, k.used) = "ok"
    BY <1>3 DEF canStartScan
  <2>3. Remaining(me, k) > 0
    BY <1>5, <2>1 DEF Remaining
  <2> QED BY <1>6, <2>2, <2>3
<1>10. code \in {"individual_monthly", "individual_yearly"} /\ e.accessState = "paid_active" => (may <=> others)
  <2> SUFFICES ASSUME code \in {"individual_monthly", "individual_yearly"}, e.accessState = "paid_active" PROVE may <=> others
    OBVIOUS
  <2>1. PICK n \in {50, 600} : e.scanLimit = n /\ me.scanLimit = n
    BY <1>3 DEF scanLimitForPlanCode
  <2>2. canStartScan(e, k.used) = IF k.used >= n THEN "individual_limit_reached" ELSE "ok"
    BY <1>3, <2>1 DEF canStartScan
  <2>3. Remaining(me, k) = IF k.used >= n THEN 0 ELSE n - k.used
    BY <2>1 DEF Remaining
  <2> QED BY <1>5, <1>6, <2>2, <2>3
<1>11. may \in BOOLEAN /\ others \in BOOLEAN
  BY <1>6
<1>12. CASE code = "free"
  <2>1. BillingLine(me) = "start"
    BY <1>4, <1>12 DEF BillingLine, isFreePlan
  <2> QED BY <1>6, <1>7, <1>11, <1>12, <2>1 DEF BillingTold
<1>13. CASE code # "free" /\ me.status = "expired"
  <2>1. BillingLine(me) = "renew"
    BY <1>4, <1>13 DEF BillingLine, isFreePlan, isExpiredPlan
  <2>2. e.accessState \in {"team_expired", "paid_expired"}
    BY <1>3, <1>13 DEF subscriptionStatusFromEffectivePlan
  <2> QED BY <1>6, <1>8, <2>1, <2>2 DEF BillingTold
<1>14. CASE code # "free" /\ me.status # "expired"
  <2>1. BillingLine(me) = "ready"
    BY <1>4, <1>14 DEF BillingLine, isFreePlan, isExpiredPlan
  <2>2. k.selected => e.accessState \in {"team_active", "paid_active"}
    BY <1>3, <1>14 DEF subscriptionStatusFromEffectivePlan
  <2>3. \/ may = others
        \/ me.role # None /\ ~k.selected
        \/ me.role = None /\ me.plan = "team"
    BY <1>2, <1>3, <1>5, <1>9, <1>10, <1>11, <1>14, <2>2
  <2> QED BY <1>6, <2>1, <2>3 DEF BillingTold
<1> QED BY <1>12, <1>13, <1>14

LEMMA ReportsRight ==
  ASSUME NEW u \in Users, NEW v, NEW b, Orderly(v, b),
         NEW k \in Cases(u, v), NEW c \in Contexts(u, v), NEW a \in Contexts(u, v),
         NEW me, me = Me(u, c, v, k), NEW e, e = getEffectivePlan(u, a, v, k),
         NEW cut, ~cut => \A t \in Teams : v[TeamRow(t)] # None => v[Sub(t)] # None
  PROVE  ReportsTold(u, v, k, me, e, cut)
<1> SUFFICES ASSUME ~Several(u, v) PROVE ReportsTold(u, v, k, me, e, cut)
  BY DEF ReportsTold
<1>1. c = a
  BY OneContext
<1>2. PICK code : code = IF c.team # 0 THEN "team" ELSE v[PlanOf(u)]
  OBVIOUS
<1>3. /\ me.plan = v[PlanOf(u)] /\ me.organizationPlan = (IF c.team # 0 THEN code ELSE None)
      /\ me.role = c.role /\ e.planCode = code
      /\ me.history = e.hasPaidHistory /\ e.hasPaidHistory = hadPaidPlanBefore(u, c, v)
  BY <1>1, <1>2, MeIs
<1>4. WebPlan(me) = code
  <2>1. "team" # None
    BY DEF None
  <2> QED BY <1>2, <1>3, <2>1 DEF WebPlan
<1>5. hadPaidPlanBefore(u, c, v) \in BOOLEAN
  BY DEF hadPaidPlanBefore
<1>6. CASE hadPaidPlanBefore(u, c, v)
  BY <1>3, <1>5, <1>6 DEF ReportsTold, ReportButton, canDownloadReport
<1>7. CASE ~hadPaidPlanBefore(u, c, v) /\ code = "free"
  BY <1>3, <1>5, <1>7 DEF ReportsTold, ReportButton, canDownloadReport
<1>8. CASE ~hadPaidPlanBefore(u, c, v) /\ code # "free"
  <2>1. c.team # 0 => cut
    <3>1. c.team # 0 => c.team \in Teams /\ v[TeamRow(c.team)] # None /\ v[Sub(c.team)] = None
      BY <1>8, ContextIs, NoneIsOther DEF hadPaidPlanBefore
    <3> QED BY <3>1
  <2>2. c.team = 0 => me.role = None
    BY <1>3, ContextIs
  <2> QED BY <1>3, <1>4, <1>8, <2>1, <2>2 DEF ReportsTold, ReportButton
<1> QED BY <1>6, <1>7, <1>8


LEMMA TeamRight ==
  ASSUME NEW u \in Users, NEW v, NEW b, Orderly(v, b), NEW k, NEW c \in Contexts(u, v), NEW a \in Contexts(u, v),
         NEW me, me = Me(u, c, v, k), NEW e, e = getEffectivePlan(u, a, v, k)
  PROVE  TeamTold(u, v, k, me, e)
<1>1. me.role = c.role /\ e.role = a.role /\ e.team = a.team
  <2>1. e.role = a.role /\ e.team = a.team
    BY MeIs
  <2> QED BY <2>1, MeIs
<1>2. WebManagesTeam(me) => canManageTeam(e)
  <2>1. c.role = "owner" => a.role = "owner"
    BY ContextIs
  <2> QED BY <1>1, <2>1 DEF WebManagesTeam, canManageTeam
<1>3. ASSUME a.team # 0
      PROVE  /\ TeamCard(e, v) = MyTeamMembers(a.team, v)
             /\ [user |-> u, role |-> a.role] \in TeamCard(e, v)
             /\ Cardinality({m \in TeamCard(e, v) : m.role = "owner"}) = 1
  <2>1. PICK t \in Teams, o \in Users : t = a.team /\ o = v[TeamRow(t)]
    BY <1>3, ContextIs
  <2>2. PICK D, M : D = DetailsMembers(t, v) /\ M = {w \in Users : v[Member(t, w)] # None}
    OBVIOUS
  <2>3. D = {[user |-> w, role |-> IF o = w THEN "owner" ELSE v[Member(t, w)]] : w \in {w \in Users : o = w \/ w \in M}}
    <3>1. D = {[user |-> w, role |-> IF v[TeamRow(t)] = w THEN "owner" ELSE v[Member(t, w)]] :
                 w \in {w \in Users : v[TeamRow(t)] = w \/ v[Member(t, w)] # None}}
      BY <2>2 DEF DetailsMembers
    <3>2. \A w \in Users : w \in M <=> v[Member(t, w)] # None
      BY <2>2
    <3> QED BY <2>1, <3>1, <3>2
  <2>4. /\ \A w \in M \union {o} : [user |-> w, role |-> IF o = w THEN "owner" ELSE v[Member(t, w)]] \in D
        /\ \A d \in D : \E w \in M \union {o} : d = [user |-> w, role |-> IF o = w THEN "owner" ELSE v[Member(t, w)]]
        /\ M \subseteq Users
    BY <2>1, <2>2, <2>3
  <2>5. TeamCard(e, v) = D
    BY <1>1, <1>3, <2>1, <2>2 DEF TeamCard
  <2>6. D = MyTeamMembers(t, v)
    <3>1. PICK A : A = {[user |-> w, role |-> IF w = o THEN "owner" ELSE v[Member(t, w)]] : w \in M}
      OBVIOUS
    <3>2. MyTeamMembers(t, v) = IF \E m \in A : m.user = o THEN A ELSE A \union {[user |-> o, role |-> "owner"]}
      BY <2>1, <2>2, <3>1 DEF MyTeamMembers
    <3>3. \A d \in D : d \in A \/ d = [user |-> o, role |-> "owner"]
      BY <2>4, <3>1
    <3>4. \A d \in A : d \in D
      BY <2>4, <3>1
    <3>5. [user |-> o, role |-> "owner"] \in D
      BY <2>4
    <3>6. ASSUME NEW m \in A, m.user = o PROVE [user |-> o, role |-> "owner"] \in A
      <4>1. PICK w \in M : m = [user |-> w, role |-> IF w = o THEN "owner" ELSE v[Member(t, w)]]
        BY <3>1
      <4>2. w = o
        BY <3>6, <4>1
      <4> QED BY <4>1, <4>2
    <3> QED BY <3>2, <3>3, <3>4, <3>5, <3>6
  <2>7. [user |-> u, role |-> a.role] \in D
    <3>1. CASE a.role = "owner"
      <4>1. u = o
        BY <2>1, <3>1, ContextIs
      <4> QED BY <2>4, <3>1, <4>1
    <3>2. CASE a.role # "owner"
      <4>1. a.role = v[Member(t, u)] /\ a.role \in Roles /\ o # u
        BY <1>3, <2>1, <3>2, ContextIs
      <4>2. u \in M
        BY <2>2, <4>1 DEF Roles, None
      <4> QED BY <2>4, <4>1, <4>2
    <3> QED BY <3>1, <3>2
  <2>8. {m \in D : m.role = "owner"} = {[user |-> o, role |-> "owner"]}
    <3>1. ASSUME NEW m \in D, m.role = "owner" PROVE m = [user |-> o, role |-> "owner"]
      <4>1. PICK w \in M \union {o} : m = [user |-> w, role |-> IF o = w THEN "owner" ELSE v[Member(t, w)]]
        BY <2>4
      <4>2. w \in M => v[Member(t, w)] \in Roles
        <5> SUFFICES ASSUME w \in M PROVE v[Member(t, w)] \in Roles
          OBVIOUS
        <5>1. w \in Users /\ v[Member(t, w)] # None /\ Member(t, w) \in Keys
          BY <2>2, KeysOfTeams
        <5>2. ValueOK(Member(t, w), v[Member(t, w)])
          BY <5>1 DEF Orderly, RowsOK
        <5> QED BY <5>1, <5>2, Tags DEF ValueOK
      <4>3. w = o
        BY <3>1, <4>1, <4>2 DEF Roles
      <4> QED BY <4>1, <4>3
    <3>2. [user |-> o, role |-> "owner"] \in D
      BY <2>4
    <3> QED BY <3>1, <3>2
  <2>9. Cardinality({[user |-> o, role |-> "owner"]}) = 1
    BY FS_Singleton
  <2> QED BY <2>1, <2>5, <2>6, <2>7, <2>8, <2>9
<1> QED BY <1>1, <1>2, <1>3 DEF TeamTold

-----------------------------------------------------------------------------
(* A way back *)

\* The rows after a click.
LEMMA AfterSelectIs ==
  ASSUME NEW u \in Users, NEW p, NEW v, SomeIdLeft(v), NEW o, o = AfterSelect(u, p, v)
  PROVE  /\ o[PlanOf(u)] = p
         /\ p = "team" => \E t \in Teams : o[TeamRow(t)] = u /\ o[Sub(t)] = "active"
         /\ p = "individual_monthly" =>
              /\ o[Sub(u)] = "active" /\ Owned(u, o) = {} /\ Joined(u, o) = {} /\ SomeIdLeft(o)
<1>1. PICK gone, others :
        /\ gone = (UNION {TeamCascade(t, v) : t \in Owned(u, v)}) \union {Member(t, u) : t \in Teams}
        /\ others = [j \in Keys |-> IF j \in gone THEN None ELSE v[j]]
  OBVIOUS
<1>2. PICK new : new = CHOOSE t \in Teams : others[TeamRow(t)] = None
  OBVIOUS
<1>3. o = [j \in Keys |->
             CASE j = PlanOf(u) -> p
               [] p = "team" /\ j = TeamRow(new) -> u
               [] p = "team" /\ j = Sub(new) -> "active"
               [] p \in Paid \ {"team"} /\ j = Sub(u) -> "active"
               [] OTHER -> others[j]]
  BY <1>1, <1>2 DEF AfterSelect
<1>4. PICK m \in Teams : v[TeamRow(m)] = None
  BY DEF SomeIdLeft
<1>5. others[TeamRow(m)] = None
  <2>1. TeamRow(m) \in Keys
    BY DEF Keys
  <2> QED BY <1>1, <1>4, <2>1
<1>6. new \in Teams
  BY <1>2, <1>5
<1>7. /\ PlanOf(u) \in Keys /\ Sub(u) \in Keys /\ TeamRow(new) \in Keys /\ Sub(new) \in Keys
      /\ \A t \in Teams : TeamRow(t) \in Keys /\ Member(t, u) \in Keys
  BY <1>6 DEF Keys
<1>8. \A t : /\ TeamRow(t) # PlanOf(u) /\ TeamRow(t) # Sub(u) /\ Member(t, u) # PlanOf(u) /\ Member(t, u) # Sub(u)
             /\ Sub(t) # PlanOf(u) /\ Sub(t) # TeamRow(new)
  BY Tags
<1>9. o[PlanOf(u)] = p
  <2>1. PlanOf(u) # TeamRow(new) /\ PlanOf(u) # Sub(new) /\ PlanOf(u) # Sub(u)
    BY <1>8, Tags
  <2> QED BY <1>3, <1>7, <2>1
<1>10. ASSUME p = "team" PROVE o[TeamRow(new)] = u /\ o[Sub(new)] = "active"
  <2>1. o[TeamRow(new)] = u
    <3>1. TeamRow(new) # PlanOf(u) /\ TeamRow(new) # Sub(new)
      BY <1>8
    <3> QED BY <1>3, <1>7, <1>10, <3>1
  <2>2. o[Sub(new)] = "active"
    <3>1. Sub(new) # PlanOf(u) /\ Sub(new) # TeamRow(new)
      BY <1>8
    <3> QED BY <1>3, <1>7, <1>10, <3>1
  <2> QED BY <2>1, <2>2
<1>11. ASSUME p = "individual_monthly"
       PROVE  o[Sub(u)] = "active" /\ Owned(u, o) = {} /\ Joined(u, o) = {} /\ SomeIdLeft(o)
  <2>1. p # "team" /\ p \in Paid \ {"team"}
    BY <1>11 DEF Paid, Codes
  <2>2. o[Sub(u)] = "active"
    <3>1. Sub(u) # PlanOf(u)
      BY <1>8
    <3> QED BY <1>3, <1>7, <2>1, <3>1
  <2>3. \A t \in Teams : o[TeamRow(t)] = others[TeamRow(t)] /\ o[Member(t, u)] = others[Member(t, u)]
    BY <1>3, <1>7, <1>8, <2>1
  <2>4. ASSUME NEW t \in Teams, v[TeamRow(t)] = u PROVE TeamRow(t) \in gone
    <3>1. t \in Owned(u, v) /\ u # None
      BY <2>4, NoneIsOther DEF Owned
    <3>2. TeamRow(t) \in TeamCascade(t, v)
      BY <2>4, <3>1 DEF TeamCascade
    <3> QED BY <1>1, <3>1, <3>2
  <2>5. \A t \in Teams : Member(t, u) \in gone
    BY <1>1
  <2>6. \A t \in Teams : others[TeamRow(t)] # u /\ others[Member(t, u)] = None
    BY <1>1, <1>7, <2>4, <2>5, NoneIsOther
  <2>7. Owned(u, o) = {} /\ Joined(u, o) = {}
    BY <2>3, <2>6 DEF Owned, Joined
  <2>8. SomeIdLeft(o)
    BY <1>5, <2>3 DEF SomeIdLeft
  <2> QED BY <2>2, <2>7, <2>8
<1> QED BY <1>6, <1>9, <1>10, <1>11


LEMMA AfterCaseIs ==
  ASSUME NEW u \in Users, NEW p, NEW k, k = [late |-> k.late, selected |-> k.selected, used |-> k.used, api |-> k.api, web |-> k.web],
         NEW o, o = AfterCase(u, p, k)
  PROVE  /\ o = [late |-> o.late, selected |-> o.selected, used |-> o.used, api |-> o.api, web |-> o.web]
         /\ o.web = k.web /\ o.used = k.used
         /\ p = "team" => o.late \intersect Teams = {}
<1>1. PICK gone, late : /\ gone = CASE p = "free" -> {} [] p = "team" -> Teams [] OTHER -> {u}
                        /\ late = k.late \ gone
  OBVIOUS
<1>2. o = [k EXCEPT !.selected = TRUE, !.late = late]
  BY <1>1 DEF AfterCase
<1>3. o = [late |-> late, selected |-> TRUE, used |-> k.used, api |-> k.api, web |-> k.web]
  BY <1>2
<1>4. p = "team" => gone = Teams
  BY <1>1
<1> QED BY <1>1, <1>3, <1>4

\* A click on a card that is offered.
LEMMA ClickIs ==
  ASSUME NEW u, NEW v, NEW k, NEW c \in Contexts(u, v), NEW p \in Paid, c.role # "member", WebPlan(Me(u, c, v, k)) # p, k.web,
         NEW x, x = <<AfterSelect(u, p, v), AfterCase(u, p, k)>>
  PROVE  x \in Clicks(u, v, k)
<1>1. PICK me : me = Me(u, c, v, k)
  OBVIOUS
<1>2. me.role = c.role
  BY <1>1, MeIs
<1>3. p \in Codes /\ p # "free"
  BY DEF Paid
<1>4. p \in Cards(me, "change", k)
  BY <1>1, <1>2, <1>3 DEF Cards, CardEnabled
<1>5. x \in {<<AfterSelect(u, q, v), AfterCase(u, q, k)>> : q \in Cards(Me(u, c, v, k), "change", k)}
  BY <1>1, <1>4
<1> QED BY <1>5 DEF Clicks

\* A click on "team" gives the user a team to scan with, whatever was before.
LEMMA TeamClick ==
  ASSUME NEW u \in Users, NEW v, NEW k, k = [late |-> k.late, selected |-> k.selected, used |-> k.used, api |-> k.api, web |-> k.web],
         NEW c \in Contexts(u, v), c.role # "member", WebPlan(Me(u, c, v, k)) # "team", k.web, SomeIdLeft(v)
  PROVE  \E x \in Clicks(u, v, k) : CanScan(u, x[1], x[2])
<1>1. PICK o, j : o = AfterSelect(u, "team", v) /\ j = AfterCase(u, "team", k)
  OBVIOUS
<1>2. PICK t \in Teams : o[TeamRow(t)] = u /\ o[Sub(t)] = "active"
  BY <1>1, AfterSelectIs
<1>3. j.late \intersect Teams = {}
  BY <1>1, AfterCaseIs
<1>4. PICK a : a = [team |-> t, role |-> "owner"]
  OBVIOUS
<1>5. t # 0 /\ a.team = t
  BY <1>4 DEF Teams
<1>6. a \in Contexts(u, o)
  <2>1. t \in Owned(u, o)
    BY <1>2 DEF Owned
  <2> QED BY <1>4, <2>1 DEF Contexts
<1>7. PICK e : e = getEffectivePlan(u, a, o, j)
  OBVIOUS
<1>8. e.planCode = "team" /\ e.accessState = "team_active"
  <2>1. isSubscriptionActive(t, o, j)
    BY <1>2, <1>3 DEF isSubscriptionActive
  <2>2. e.planCode = "team"
    BY <1>5, <1>7, MeIs
  <2>3. e.accessState = (IF e.planCode = "free" THEN "free"
               ELSE IF a.team # 0 THEN IF isSubscriptionActive(a.team, o, j) THEN "team_active" ELSE "team_expired"
               ELSE IF isSubscriptionActive(u, o, j) THEN "paid_active" ELSE "paid_expired")
    BY <1>7, MeIs
  <2> QED BY <1>5, <2>1, <2>2, <2>3
<1>9. CanScan(u, o, j)
  <2>1. May(u, a, o, j) = "ok"
    BY <1>7, <1>8 DEF May, canStartScan
  <2> QED BY <1>6, <2>1 DEF CanScan
<1>10. "team" \in Paid
  BY DEF Paid, Codes
<1>11. <<o, j>> \in Clicks(u, v, k)
  BY <1>1, <1>10, ClickIs
<1> QED BY <1>9, <1>11

LEMMA WayBackRight ==
  ASSUME NEW u \in Users, NEW v, NEW b, Orderly(v, b), NEW k \in Cases(u, v), NEW c \in Contexts(u, v),
         NEW me, me = Me(u, c, v, k), NEW e
  PROVE  WayBack(u, v, k, me, e)
<1> SUFFICES ASSUME k.web, me.role \in {None, "owner"}, SomeIdLeft(v)
             PROVE  \E x \in Clicks(u, v, k) : CanScan(u, x[1], x[2]) \/ \E y \in Clicks(u, x[1], x[2]) : CanScan(u, y[1], y[2])
  BY DEF WayBack
<1>1. k = [late |-> k.late, selected |-> k.selected, used |-> k.used, api |-> k.api, web |-> k.web]
  BY CaseIs
<1>2. c.role # "member"
  BY MeIs DEF None
<1>3. CASE WebPlan(me) # "team"
  BY <1>1, <1>2, <1>3, TeamClick
<1>4. CASE WebPlan(me) = "team"
  <2>1. PICK o, j : o = AfterSelect(u, "individual_monthly", v) /\ j = AfterCase(u, "individual_monthly", k)
    OBVIOUS
  <2>2. "individual_monthly" \in Paid /\ WebPlan(Me(u, c, v, k)) # "individual_monthly"
    BY <1>4 DEF Paid, Codes
  <2>3. <<o, j>> \in Clicks(u, v, k)
    BY <1>2, <2>1, <2>2, ClickIs
  <2>4. o[PlanOf(u)] = "individual_monthly" /\ Owned(u, o) = {} /\ Joined(u, o) = {} /\ SomeIdLeft(o)
    BY <2>1, AfterSelectIs
  <2>5. j = [late |-> j.late, selected |-> j.selected, used |-> j.used, api |-> j.api, web |-> j.web] /\ j.web
    BY <1>1, <2>1, AfterCaseIs
  <2>6. PICK a : a = [team |-> 0, role |-> None]
    OBVIOUS
  <2>7. a \in Contexts(u, o) /\ a.team = 0 /\ a.role # "member"
    BY <2>4, <2>6 DEF Contexts, None
  <2>8. WebPlan(Me(u, a, o, j)) # "team"
    <3>1. PICK m : m = Me(u, a, o, j)
      OBVIOUS
    <3>2. m.organizationPlan = None /\ m.plan = "individual_monthly"
      BY <2>4, <2>7, <3>1, MeIs
    <3> QED BY <3>1, <3>2 DEF WebPlan
  <2>9. \E y \in Clicks(u, o, j) : CanScan(u, y[1], y[2])
    BY <2>4, <2>5, <2>7, <2>8, TeamClick
  <2> QED BY <2>3, <2>9
<1> QED BY <1>3, <1>4

\* Orderly rows in which teams are paid for, unless connections were mixed up.
LEMMA PagesAreRight ==
  ASSUME NEW v, NEW b, Orderly(v, b), NEW cut, ~cut => \A t \in Teams : v[TeamRow(t)] # None => v[Sub(t)] # None
  PROVE  PagesRight(v, cut)
<1> SUFFICES ASSUME NEW u \in Users, HasUser(u, v), NEW k \in Cases(u, v), NEW c \in Contexts(u, v), NEW a \in Contexts(u, v),
                    NEW me, me = Me(u, c, v, k), NEW e, e = getEffectivePlan(u, a, v, k)
             PROVE  /\ OffersAccepted(u, v, k, me, e) /\ BillingTold(u, v, k, me, e) /\ ReportsTold(u, v, k, me, e, cut)
                    /\ TeamTold(u, v, k, me, e) /\ WayBack(u, v, k, me, e)
  BY DEF PagesRight
<1>1. v[PlanOf(u)] \in Plans
  <2>1. PlanOf(u) \in Keys /\ v[PlanOf(u)] # None
    BY DEF Keys, HasUser
  <2>2. ValueOK(PlanOf(u), v[PlanOf(u)])
    BY <2>1 DEF Orderly, RowsOK
  <2> QED BY <2>1, <2>2, Tags DEF ValueOK
<1>2. OffersAccepted(u, v, k, me, e)
  BY OffersRight
<1>3. BillingTold(u, v, k, me, e)
  BY <1>1, BillingRight
<1>4. ReportsTold(u, v, k, me, e, cut)
  BY ReportsRight
<1>5. TeamTold(u, v, k, me, e)
  BY TeamRight
<1>6. WayBack(u, v, k, me, e)
  BY WayBackRight
<1> QED BY <1>2, <1>3, <1>4, <1>5, <1>6

\* The history of paid plans goes with the subscriptions only.
LEMMA HistoryStays ==
  ASSUME NEW v, NEW w, NEW b, NEW n, Orderly(v, b), Orderly(w, n), NEW split,
         \A t \in Teams : v[Sub(t)] # None /\ w[Sub(t)] = None => w[TeamRow(t)] = None,
         \A u \in Users : v[Sub(u)] # None /\ w[Sub(u)] = None => w[PlanOf(u)] = None \/ u \in split
  PROVE  HistoryKept(v, w, split)
<1> SUFFICES ASSUME NEW u \in Users \ split, HasUser(u, w), NEW c \in Contexts(u, v), hadPaidPlanBefore(u, c, v),
                    \A d \in Contexts(u, w) : ~hadPaidPlanBefore(u, d, w)
             PROVE  c.team # 0 /\ \A d \in Contexts(u, w) : d.team # c.team
  BY DEF HistoryKept
<1>1. \E d : d \in Contexts(u, w)
  BY DEF Contexts
<1>2. w[Sub(u)] = None
  BY <1>1 DEF hadPaidPlanBefore
<1>3. v[Sub(u)] = None
  BY <1>2 DEF HasUser
<1>4. c.team # 0 /\ c.team \in Teams /\ v[Sub(c.team)] # None
  BY <1>3, ContextIs DEF hadPaidPlanBefore
<1>5. ASSUME NEW d \in Contexts(u, w), d.team = c.team PROVE FALSE
  <2>1. w[Sub(c.team)] = None
    BY <1>4, <1>5 DEF hadPaidPlanBefore
  <2>2. w[TeamRow(c.team)] = None
    BY <1>4, <2>1
  <2>3. w[TeamRow(c.team)] \in Users
    BY <1>4, <1>5, ContextIs
  <2> QED BY <2>2, <2>3, NoneIsOther
<1> QED BY <1>4, <1>5

\* The rows keep their types and foreign keys, transactions are sound and apart, and take
\* subscriptions with users and teams.
THEOREM RowsInvariant == PlansSpec => []RowsInv
BY PlansStart, RowsStart, PlansStep, RowsNext, PTL DEF PlansSpec

\* Whatever requests commit, and whatever connections were mixed up, a page loaded
\* afterwards tells each user what the API lets him do: a card that can be clicked is
\* accepted, the billing card says whether a scan would be, the report button stands for
\* a report, the team pages agree, and nobody is refused scans for good.
THEOREM PlanPagesAreExplained == PlansSpec => PlanPagesExplained
<1>1. ASSUME PlansInv, RowsInv, [PlansNext]_plansVars
      PROVE  [db' # db => PagesRight(db', mixed' # {}) /\ HistoryKept(db, db', SplitDeletions')]_plansVars
  <2>1. RowsInv' /\ SubsStay
    BY <1>1, RowsNext
  <2>2. PICK w, b, cut : w = db' /\ b = born' /\ cut = (mixed' # {})
    OBVIOUS
  <2>3. Orderly(w, b) /\ (mixed' = {} => \A t \in Teams : w[TeamRow(t)] # None => w[Sub(t)] # None)
    BY <2>1, <2>2 DEF RowsInv, TeamsPaid, Orderly, Linked
  <2>4. PagesRight(w, cut)
    BY <2>2, <2>3, PagesAreRight
  <2>5. PICK split : split = SplitDeletions'
    OBVIOUS
  <2>6. HistoryKept(db, w, split)
    BY <1>1, <2>1, <2>2, <2>3, <2>5, HistoryStays DEF RowsInv, SubsStay
  <2> QED BY <2>2, <2>4, <2>5, <2>6
<1> QED BY <1>1, PlansInvariant, RowsInvariant, PTL DEF PlansSpec, PlanPagesExplained

=============================================================================
