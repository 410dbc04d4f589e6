----------------------------- MODULE ShopSearch -----------------------------
(***************************************************************************)
(* Searching the shop: the panel of the header, which searches while the   *)
(* shopper types, the list of recent searches, and the search page, which  *)
(* keeps its own copy of what the address bar says.                        *)
(***************************************************************************)
EXTENDS Integers, Sequences, FiniteSets, SequencesExt

CONSTANTS LongQueries,  \* queries of at least MIN_QUERY_LEN characters
          ShortQueries, \* typed queries that are too short to search
          EmptyQuery,
          Hits(_),      \* query -> number of pages of its products, 0 for none
          RecentLimit,  \* MAX_RECENT
          MaxSearches,  \* bound: searches in flight at once
          MaxShUses     \* bound: what the shopper does

Queries == LongQueries \cup ShortQueries \cup {EmptyQuery}
ShopSearchAssumption ==
    /\ RecentLimit \in Nat /\ MaxSearches \in Nat /\ MaxShUses \in Nat
    /\ EmptyQuery \notin LongQueries \cup ShortQueries
    /\ LongQueries \cap ShortQueries = {}
    /\ \A q \in LongQueries \cup {EmptyQuery} : Hits(q) \in Nat
ASSUME ShopSearchAssumption

VARIABLES panel,    \* the panel: its query, what it shows, its timer
          lookups,  \* the panel's searches: [q, live], live unless aborted
          results,  \* the search page, or Elsewhere
          searches, \* the page's searches in flight, oldest first
          recent,   \* the stored list, newest first
          shUses    \* counts towards MaxShUses

shopSearchVars == <<panel, lookups, results, searches, recent, shUses>>
shopPanelVars == <<panel, lookups>>
shopPageVars == <<results, searches>>

NoAnswer == [found |-> "nothing"]
ShutPanel == [open |-> FALSE, query |-> EmptyQuery, shown |-> NoAnswer, active |-> FALSE,
              loading |-> FALSE, timer |-> "none"]
Elsewhere == [at |-> "elsewhere"]

ShopSearchInit ==
    /\ panel = ShutPanel /\ lookups = {} /\ results = Elsewhere
    /\ searches = <<>> /\ recent = <<>> /\ shUses = 0

ShUsed == shUses < MaxShUses /\ shUses' = shUses + 1
IsSearching(q) == q \in LongQueries
Live == {l \in lookups : l.live}

-----------------------------------------------------------------------------
(* The recent searches: trimmed, no shorter than two characters, no        *)
(* duplicates, newest first.                                               *)
Without(q) == SelectSeq(recent, LAMBDA r : r # q)
PushRecent(q) ==
    LET all == <<q>> \o Without(q)
    IN  IF IsSearching(q) THEN SubSeq(all, 1, IF Len(all) < RecentLimit THEN Len(all) ELSE RecentLimit)
        ELSE recent

-----------------------------------------------------------------------------
(* The search page.  A search is asked when one of its inputs changes.     *)
Search(q, filter, price, page) == [q |-> q, filter |-> filter, price |-> price, page |-> page]
OnPage == results.at = "search"

ResultsPage(q) ==
    [at |-> "search", input |-> q, asks |-> Search(q, FALSE, FALSE, 1), answer |-> NoAnswer,
     pages |-> 0, facets |-> FALSE, loading |-> TRUE, calm |-> TRUE]

(* The page with other inputs: a search unless they are the same ones.     *)
Researched(p, asks) ==
    IF asks = p.asks THEN /\ results' = p /\ UNCHANGED searches
    ELSE /\ Len(searches) < MaxSearches
         /\ results' = [p EXCEPT !.asks = asks, !.loading = TRUE, !.calm = @ /\ searches = <<>>]
         /\ searches' = Append(searches, asks)

(* router.push to /search?q=: opening the page reads the address, being on *)
(* it already does not.                                                    *)
GoToSearchPage(q) ==
    IF OnPage THEN UNCHANGED shopPageVars
    ELSE results' = ResultsPage(q) /\ searches' = <<results'.asks>>

LeaveSearch == results' = Elsewhere /\ searches' = <<>>

-----------------------------------------------------------------------------
(* The panel's effect on query and open: abort the search, drop the timer, *)
(* then search later or clear soon.                                        *)
Aborted == {[l EXCEPT !.live = FALSE] : l \in lookups}

Retimed(p) ==
    /\ panel' = [p EXCEPT !.timer = IF IsSearching(p.query) THEN "search" ELSE "clear"]
    /\ lookups' = Aborted

(* Closing drops the timer but lets a running search go on.                *)
ClosePanel == panel' = [panel EXCEPT !.open = FALSE, !.timer = "reset"] /\ UNCHANGED lookups

OpenPanel ==
    /\ ~panel.open /\ ShUsed /\ Retimed([panel EXCEPT !.open = TRUE])
    /\ UNCHANGED <<results, searches, recent>>

(* Typing, the clear button, or a click on a recent or suggested search.   *)
TypeQuery(q) ==
    /\ panel.open /\ q # panel.query /\ ShUsed /\ Retimed([panel EXCEPT !.query = q])
    /\ UNCHANGED <<results, searches, recent>>

Blank(p) == [p EXCEPT !.shown = NoAnswer, !.loading = FALSE, !.active = FALSE, !.timer = "none"]

ClearTimer ==
    /\ panel.timer = "clear" /\ panel' = Blank(panel)
    /\ UNCHANGED <<lookups, results, searches, recent, shUses>>
ResetTimer ==
    /\ panel.timer = "reset" /\ panel' = [Blank(panel) EXCEPT !.query = EmptyQuery]
    /\ UNCHANGED <<lookups, results, searches, recent, shUses>>
SearchTimer ==
    /\ panel.timer = "search"
    /\ panel' = [panel EXCEPT !.timer = "none", !.loading = TRUE]
    /\ lookups' = lookups \cup {[q |-> panel.query, live |-> TRUE]}
    /\ UNCHANGED <<results, searches, recent, shUses>>

(* Mutant: the answer of an aborted search is shown as well.               *)
AnyLookupAnswered(l, ok) ==
    LET found == ok /\ Hits(l.q) > 0
    IN  /\ lookups' = lookups \ {l}
        /\ panel' = [panel EXCEPT !.loading = FALSE, !.active = IF ok THEN found ELSE @,
                       !.shown = IF found THEN [found |-> "products", q |-> l.q] ELSE NoAnswer]
        /\ UNCHANGED <<results, searches, recent, shUses>>

(* An answer, or a failure, of a search that was aborted changes nothing.  *)
LookupAnswered(l, ok) ==
    LET found == ok /\ Hits(l.q) > 0
    IN  /\ lookups' = lookups \ {l}
        /\ panel' = IF ~l.live THEN panel
                    ELSE [panel EXCEPT !.loading = FALSE, !.active = IF ok THEN found ELSE @,
                          !.shown = IF found THEN [found |-> "products", q |-> l.q] ELSE NoAnswer]
        /\ UNCHANGED <<results, searches, recent, shUses>>

Previewed == panel.shown # NoAnswer
Arrow ==
    /\ panel.open /\ Previewed /\ ShUsed
    /\ panel' = [panel EXCEPT !.active = TRUE]
    /\ UNCHANGED <<lookups, results, searches, recent>>

GoToProduct ==
    /\ recent' = (IF panel.query = EmptyQuery THEN recent ELSE PushRecent(panel.query))
    /\ ClosePanel /\ LeaveSearch
SearchFor(q) == recent' = PushRecent(q) /\ ClosePanel /\ GoToSearchPage(q)

(* Enter opens the marked product, or else the search page.                *)
Enter ==
    /\ panel.open /\ ShUsed
    /\ IF panel.active /\ Previewed THEN GoToProduct
       ELSE panel.query # EmptyQuery /\ SearchFor(panel.query)

SelectRow == panel.open /\ IsSearching(panel.query) /\ Previewed /\ ShUsed /\ GoToProduct
ViewAll == panel.open /\ IsSearching(panel.query) /\ Previewed /\ ShUsed /\ SearchFor(panel.query)
SearchAgain(q) ==
    /\ panel.open /\ IsSearching(panel.query) /\ q \in ToSet(recent)
    /\ ShUsed /\ SearchFor(q)

GoToCategory == panel.open /\ ShUsed /\ ClosePanel /\ LeaveSearch /\ UNCHANGED recent
EscapePanel == panel.open /\ ShUsed /\ ClosePanel /\ UNCHANGED <<results, searches, recent>>

RemoveRecent(q) ==
    /\ panel.open /\ ~IsSearching(panel.query) /\ q \in ToSet(recent) /\ ShUsed
    /\ recent' = Without(q) /\ UNCHANGED <<panel, lookups, results, searches>>
ClearRecent ==
    /\ panel.open /\ ~IsSearching(panel.query) /\ recent # <<>> /\ ShUsed
    /\ recent' = <<>> /\ UNCHANGED <<panel, lookups, results, searches>>

-----------------------------------------------------------------------------
(* What the shopper does on the search page; the panel covers it.          *)
OnSearch == OnPage /\ ~panel.open /\ ShUsed /\ UNCHANGED <<panel, lookups, recent>>
Asks == results.asks

TypeInput(q) ==
    /\ OnSearch /\ q # results.input
    /\ results' = [results EXCEPT !.input = q] /\ UNCHANGED searches
HandleSearch == OnSearch /\ Researched(results, [Asks EXCEPT !.q = results.input, !.page = 1])

(* The clear button of the input leaves the page number as it is.          *)
ClearInput ==
    /\ OnSearch /\ results.input # EmptyQuery
    /\ Researched([results EXCEPT !.input = EmptyQuery], [Asks EXCEPT !.q = EmptyQuery])

(* Brand, stock and order: a change of one goes back to the first page.    *)
HandleBrandFilter ==
    /\ OnSearch /\ results.facets
    /\ Researched(results, [Asks EXCEPT !.filter = ~@, !.page = 1])
HandleInStock == OnSearch /\ Researched(results, [Asks EXCEPT !.filter = ~@, !.page = 1])
HandleSort(on) == OnSearch /\ Researched(results, [Asks EXCEPT !.filter = on, !.page = 1])

(* Typing a price searches at once and keeps the page; "Go" leaves it.     *)
TypeSearchPrice(v) == OnSearch /\ v # Asks.price /\ Researched(results, [Asks EXCEPT !.price = v])
HandlePriceFilter == OnSearch /\ Asks.price /\ Researched(results, [Asks EXCEPT !.page = 1])

HandlePage(p) ==
    /\ OnSearch /\ results.pages > 1 /\ p \in 1 .. results.pages
    /\ Researched(results, [Asks EXCEPT !.page = p])

ClearFilters ==
    /\ OnSearch /\ (Asks.filter \/ Asks.price)
    /\ Researched(results, Search(Asks.q, FALSE, FALSE, 1))

(* Answers arrive in any order and the last to arrive is shown.            *)
SearchAnswered(k, ok) ==
    LET asked == searches[k]
    IN  /\ k \in DOMAIN searches
        /\ searches' = RemoveAt(searches, k)
        /\ results' = [results EXCEPT !.loading = FALSE, !.facets = @ \/ ok,
              !.answer = IF ok THEN [found |-> "page", asks |-> asked] ELSE NoAnswer,
              !.pages = IF ok THEN Hits(asked.q) ELSE 0,
              !.calm = @ /\ ok]
        /\ UNCHANGED <<panel, lookups, recent, shUses>>

ShopSearchNext ==
    \/ OpenPanel \/ ClearTimer \/ ResetTimer \/ SearchTimer
    \/ \E q \in Queries : TypeQuery(q)
    \/ \E l \in lookups, ok \in BOOLEAN : LookupAnswered(l, ok)
    \/ Arrow \/ Enter \/ SelectRow \/ ViewAll \/ GoToCategory \/ EscapePanel
    \/ \E q \in LongQueries : SearchAgain(q) \/ RemoveRecent(q)
    \/ ClearRecent
    \/ \E q \in LongQueries \cup {EmptyQuery} : TypeInput(q)
    \/ HandleSearch \/ ClearInput \/ HandleBrandFilter \/ HandleInStock
    \/ \E b \in BOOLEAN : HandleSort(b) \/ TypeSearchPrice(b)
    \/ HandlePriceFilter \/ \E p \in 1 .. 2 : HandlePage(p)
    \/ ClearFilters
    \/ \E k \in 1 .. MaxSearches, ok \in BOOLEAN : SearchAnswered(k, ok)

-----------------------------------------------------------------------------
(* An open panel with no timer and no search running shows the products of *)
(* the query it holds, or none, and does not spin: no answer to an earlier *)
(* query reaches it, however the searches overtake each other.             *)
PanelShowsItsQuery ==
    panel.open /\ panel.timer = "none" /\ Live = {} =>
        /\ ~panel.loading
        /\ Previewed => panel.shown.q = panel.query

(* While no search overtook another and none failed, a search page that    *)
(* waits for nothing shows the answer to the inputs it displays.           *)
CalmResultsAreAsked ==
    OnPage /\ results.calm /\ searches = <<>> =>
        /\ ~results.loading
        /\ results.answer = [found |-> "page", asks |-> Asks]

(* Both ways to search show what was asked for, however answers arrive.    *)
SearchShowsAnswers == PanelShowsItsQuery /\ CalmResultsAreAsked
=============================================================================
