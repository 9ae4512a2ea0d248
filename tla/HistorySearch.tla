----------------------------- MODULE HistorySearch -----------------------------
(***************************************************************************)
(* The search box and the filters of the history page                      *)
(* (routes/_app.scans.index.tsx, hooks/useDebouncedValue.ts).  What is     *)
(* searched is kept three times: the text in the box, the same text 400 ms *)
(* later, and the URL.  One effect copies the URL into the box, another    *)
(* the debounced text into the URL; a navigation ends later than it        *)
(* starts, and the last one started wins.                                  *)
(***************************************************************************)
EXTENDS HistoryWords

VARIABLES
  draft,      \* the box
  debounced,  \* useDebouncedValue(draft, 400): what the list is asked for
  url,        \* the search parameters
  going,      \* the navigation under way
  wish,       \* history: the search the user last asked for
  crossed     \* history: since then something was asked while something else was under way

vars == <<draft, debounced, url, going, wish, crossed>>

-----------------------------------------------------------------------------
Empty == [word |-> "", space |-> FALSE]
Texts == {Empty} \union [word : Words, space : BOOLEAN]
Trim(text) == [text EXCEPT !.space = FALSE]
Filters == {"all", "chosen"}
Search(q, filter, page) == [q |-> q, filter |-> filter, page |-> page]
Searches == [q : {Trim(t) : t \in Texts}, filter : Filters, page : 1 .. MaxPage]
Everything == Search(Empty, "all", 1)
Still == [on |-> FALSE, to |-> Everything]
To(search) == [on |-> TRUE, to |-> search]

\* The page is opened at the search s.
Opened(s) ==
  /\ draft = s.q /\ debounced = s.q /\ url = s
  /\ going = Still /\ wish = s /\ crossed = FALSE
Init == \E s \in Searches : Opened(s)
Reopen(s) ==
  /\ draft' = s.q /\ debounced' = s.q /\ url' = s
  /\ going' = Still /\ wish' = s /\ crossed' = FALSE

AtRest == draft = debounced /\ ~going.on
Agreed == AtRest /\ url.q = Trim(debounced)
\* What the page shows to be searched, and the query key of the list.
Seen == Search(Trim(draft), url.filter, url.page)
Queried == Search(Trim(debounced), url.filter, url.page)

-----------------------------------------------------------------------------
\* The effect that takes the debounced text to the URL.
FollowOnPage(text, at) ==
  IF Trim(text) = at.q THEN Still ELSE To(Search(Trim(text), at.filter, at.page))
Follow(text, at) ==
  IF Trim(text) = at.q THEN Still ELSE To(Search(Trim(text), at.filter, 1))

\* The text has stayed as it is for 400 ms.
Settle ==
  /\ draft # debounced
  /\ debounced' = draft
  /\ going' = IF Follow(draft, url).on THEN Follow(draft, url) ELSE going
  /\ crossed' = (crossed \/ going.on)
  /\ UNCHANGED <<draft, url, wish>>

\* A navigation ends.  Both effects run when a parameter they read has changed.
Arrive ==
  /\ going.on
  /\ url' = going.to
  /\ draft' = IF going.to.q # url.q THEN going.to.q ELSE draft
  /\ going' = IF going.to.q # url.q \/ going.to.filter # url.filter
              THEN Follow(debounced, going.to) ELSE Still
  /\ UNCHANGED <<debounced, wish, crossed>>

React == Settle \/ Arrive

-----------------------------------------------------------------------------
\* What the user asks for next starts from what is on the page, or from what is still to come.
Base == IF Agreed THEN Seen ELSE wish
Asks(search, crossing) ==
  /\ wish' = search
  /\ crossed' = ((crossed /\ ~Agreed) \/ going.on \/ crossing)

Type(text) ==
  /\ text # draft
  /\ draft' = text
  /\ Asks(Search(Trim(text), Base.filter, IF Trim(text) = url.q THEN url.page ELSE 1), FALSE)
  /\ UNCHANGED <<debounced, url, going>>

Select(filter) ==
  /\ filter # url.filter
  /\ going' = To(Search(Trim(debounced), filter, 1))
  /\ Asks(Search(Base.q, filter, 1), FALSE)
  /\ UNCHANGED <<draft, debounced, url>>

\* Previous and Next.
Turn(page) ==
  /\ page \in {url.page - 1, url.page + 1}
  /\ going' = To(Search(Trim(debounced), url.filter, page))
  /\ Asks([Base EXCEPT !.page = page], draft # debounced)
  /\ UNCHANGED <<draft, debounced, url>>

\* clearAll empties the box, not what it was 400 ms ago.
Clear ==
  /\ Seen # Everything
  /\ draft' = Empty
  /\ going' = To(Everything)
  /\ Asks(Everything, Trim(debounced) # Empty)
  /\ UNCHANGED <<debounced, url>>

\* The link to the history in the side bar, on the page itself.
Link ==
  /\ going' = To(Everything)
  /\ Asks(Everything, Trim(debounced) # Empty \/ draft # debounced)
  /\ UNCHANGED <<draft, debounced, url>>

Act ==
  \/ \E text \in Texts : Type(text)
  \/ \E filter \in Filters : Select(filter)
  \/ \E page \in 1 .. MaxPage : Turn(page)
  \/ Clear
  \/ Link

Next == React \/ Act
Spec == Init /\ [][Next]_vars

-----------------------------------------------------------------------------
TypeOK ==
  /\ draft \in Texts /\ debounced \in Texts
  /\ url \in Searches /\ wish \in Searches
  /\ going \in [on : BOOLEAN, to : Searches]
  /\ crossed \in BOOLEAN

\* Once nothing is under way the box, the list and the URL show the search the user asked for,
\* unless it crossed something else: a navigation under way when it was asked for or when the
\* debounce ended, a text still to settle when a page was turned or the link in the side bar
\* taken, or a debounced text that was not empty when the search was cleared or that link
\* taken (ScansList: its two effects and clearAll).
SearchHonoured == AtRest /\ ~crossed => Agreed /\ Seen = wish /\ Queried = wish

-----------------------------------------------------------------------------
\* Why it does: while nothing was crossed, what is under way leads to the search asked for.
\* A navigation carries the debounced text, and a text that is still to settle asks for the
\* first page of what the URL, or the navigation, filters by.
LeadsToWish ==
  ~crossed =>
    /\ draft # debounced => url.q = Trim(debounced)
    /\ IF going.on
       THEN /\ going.to.q = Trim(debounced)
            /\ draft = debounced => wish = going.to
            /\ draft # debounced => wish = Search(Trim(draft), going.to.filter, 1) /\ going.to.page = 1
       ELSE /\ url.q = Trim(debounced)
            /\ wish = Search(Trim(draft), url.filter, IF Trim(draft) = url.q THEN url.page ELSE 1)

SearchInv == TypeOK /\ LeadsToWish

=============================================================================
