-------------------------------- MODULE Listings --------------------------------
(***************************************************************************)
(* Three pages that ask the server for rows whenever what they ask for     *)
(* changes: learn/overallReport, assessment/testDetails and learn/search.  *)
(*                                                                         *)
(* Answers come in any order. testDetails ignores all but that of its last *)
(* request; the others show whichever comes last. What is asked for is a   *)
(* filter, the rows per page and a page. The rows of a filter do not       *)
(* change here. (janv-api has no route for the details of a test yet:      *)
(* today every answer that testDetails gets is an error.)                  *)
(***************************************************************************)
EXTENDS Naturals

CONSTANTS
    Filters,   \* what may be picked or typed
    NoFilter,  \* the one that a page begins with; of learn/search, the empty query
    Sizes,     \* rows per page
    FirstSize, \* what a page begins with, and testDetails and learn/search stay with
    PagesOf,   \* the pages that the server has for a filter, by rows per page
    Slots,     \* a bound of the model on the requests under way that count
    Unlisted   \* no rows, no request

ASSUME ListingsAssumption ==
    /\ NoFilter \in Filters /\ FirstSize \in Sizes
    /\ PagesOf \in [Filters -> [Sizes -> Nat \ {0}]]
    /\ Unlisted \notin [filter : Filters, size : Sizes, page : Nat \ {0}]

VARIABLES
    listing,    \* which of the pages it is
    query,      \* what it asks for
    flights,    \* per slot: what a request that counts asks for
    rowsOf,     \* whose rows it has, and the total that came with them
    busy,       \* loading
    failed,     \* the last answer was an error
    due,        \* the 400 ms of learn/search are running
    searched,   \* hasSearched
    overlap,    \* history: the last request began while another one counted
    hasty       \* history: Next was pressed on the total of another filter, or the
                \* filter was picked that keeps the page

listingVars == <<listing, query, flights, rowsOf, busy, failed, due, searched, overlap, hasty>>

Queries == [filter : Filters, size : Sizes, page : Nat \ {0}]
Nowhere == [s \in Slots |-> Unlisted]

ListingsInit ==
    /\ listing = "none"
    /\ query = [filter |-> NoFilter, size |-> FirstSize, page |-> 1]
    /\ flights = Nowhere /\ rowsOf = Unlisted
    /\ busy = FALSE /\ failed = FALSE /\ due = FALSE /\ searched = FALSE
    /\ overlap = FALSE /\ hasty = FALSE

-----------------------------------------------------------------------------
(* Asking *)

\* Faulty: on every page a request is one more that counts.
RequestAll(k, q) ==
    /\ \E s \in Slots :
          /\ flights[s] = Unlisted
          /\ flights' = [flights EXCEPT ![s] = q]
    /\ overlap' = (flights # Nowhere)

\* A request for q leaves on page k: it is one more that counts, except that on
\* testDetails those before it are ignored from now on.
Request(k, q) ==
    \/ /\ k = "details"
       /\ \E s \in Slots : flights' = [Nowhere EXCEPT ![s] = q]
       /\ overlap' = FALSE
    \/ /\ k # "details"
       /\ \E s \in Slots :
             /\ flights[s] = Unlisted
             /\ flights' = [flights EXCEPT ![s] = q]
       /\ overlap' = (flights # Nowhere)

OpenListing(k) ==
    /\ listing = "none"
    /\ listing' = k
    /\ IF k = "search"
         THEN due' = TRUE /\ UNCHANGED <<flights, busy, overlap>>
         ELSE Request(k, query) /\ busy' = TRUE /\ UNCHANGED due
    /\ UNCHANGED <<query, rowsOf, failed, searched, hasty>>

\* The effect that follows a change of the query. testDetails leaves its table as it
\* is meanwhile.
AskFor(q) ==
    /\ listing \in {"report", "details"} /\ q # query
    /\ query' = q
    /\ Request(listing, q)
    /\ busy' = (busy \/ listing = "report")
    /\ UNCHANGED <<listing, rowsOf, failed, due, searched>>

\* Faulty: the page stays when the filter changes.
PickKeepingPage(f) == AskFor([query EXCEPT !.filter = f]) /\ hasty' = hasty

\* Batch selector of the report, search and branch of testDetails: page 1.
PickFilter(f) == AskFor([filter |-> f, size |-> query.size, page |-> 1]) /\ hasty' = FALSE

\* Rows per page of the report: page 1.
PickSize(n) ==
    /\ listing = "report"
    /\ AskFor([filter |-> query.filter, size |-> n, page |-> 1])
    /\ hasty' = FALSE

\* The filters of the report's card: the page stays.
PickCardFilter(f) ==
    /\ listing = "report"
    /\ AskFor([query EXCEPT !.filter = f])
    /\ hasty' = TRUE

\* handleSearch of the report: at once a request for the page it is on, and when that
\* is not the first, another for page 1.
SearchReport ==
    /\ listing = "report" /\ ~busy
    /\ query.page = 1
    /\ Request(listing, query)
    /\ busy' = TRUE
    /\ UNCHANGED <<listing, query, rowsOf, failed, due, searched, hasty>>

SearchFromPage1 ==
    /\ listing = "report" /\ ~busy
    /\ query.page > 1
    /\ query' = [query EXCEPT !.page = 1]
    /\ \E s, t \in Slots :
          /\ s # t /\ flights[s] = Unlisted /\ flights[t] = Unlisted
          /\ flights' = [flights EXCEPT ![s] = query, ![t] = query']
    /\ busy' = TRUE /\ overlap' = TRUE /\ hasty' = FALSE
    /\ UNCHANGED <<listing, rowsOf, failed, due, searched>>

\* The pages go by the total of the last answer, and the rows per page as they are now.
totalPages == IF rowsOf = Unlisted THEN 1 ELSE PagesOf[rowsOf.filter][query.size]

\* testDetails hides the controls when that is a single page.
PreviousPage ==
    /\ query.page > 1
    /\ listing = "details" => totalPages > 1
    /\ AskFor([query EXCEPT !.page = @ - 1])
    /\ UNCHANGED hasty

NextPage ==
    /\ query.page < totalPages
    /\ AskFor([query EXCEPT !.page = @ + 1])
    /\ hasty' = (hasty \/ rowsOf.filter # query.filter)

\* "Retry", where the error is.
RetryListing ==
    /\ listing = "details" /\ failed /\ ~busy
    /\ Request(listing, query)
    /\ UNCHANGED <<listing, query, rowsOf, busy, failed, due, searched, hasty>>

\* learn/search: a change starts the 400 ms again; after them a search, or a clear table.
TypeQuery(f) ==
    /\ listing = "search" /\ f # query.filter
    /\ query' = [query EXCEPT !.filter = f]
    /\ due' = TRUE
    /\ UNCHANGED <<listing, flights, rowsOf, busy, failed, searched, overlap, hasty>>

ClearSearch ==
    /\ query.filter = NoFilter
    /\ rowsOf' = Unlisted /\ searched' = FALSE
    /\ UNCHANGED <<flights, busy, failed, overlap>>

DoSearch ==
    /\ due
    /\ due' = FALSE
    /\ \/ ClearSearch
       \/ /\ query.filter # NoFilter
          /\ Request(listing, query)
          /\ busy' = TRUE /\ failed' = FALSE /\ searched' = TRUE
          /\ UNCHANGED rowsOf
    /\ UNCHANGED <<listing, query, hasty>>

-----------------------------------------------------------------------------
(* Answers *)

Landed(s) == flights[s] # Unlisted /\ flights' = [flights EXCEPT ![s] = Unlisted]

\* The rows that the request asked for.
Answer(s) ==
    /\ Landed(s)
    /\ rowsOf' = flights[s]
    /\ failed' = FALSE /\ busy' = FALSE
    /\ UNCHANGED <<listing, query, due, searched, overlap, hasty>>

\* An error: testDetails keeps the rows behind it, the others have none.
AnswerError(s) ==
    /\ Landed(s)
    /\ failed' = TRUE /\ busy' = FALSE
    /\ rowsOf' = IF listing = "details" THEN rowsOf ELSE Unlisted
    /\ UNCHANGED <<listing, query, due, searched, overlap, hasty>>

ListingsNext ==
    \/ \E k \in {"report", "details", "search"} : OpenListing(k)
    \/ \E f \in Filters : PickFilter(f) \/ PickCardFilter(f) \/ TypeQuery(f)
    \/ \E n \in Sizes : PickSize(n)
    \/ SearchReport \/ SearchFromPage1 \/ PreviousPage \/ NextPage \/ RetryListing \/ DoSearch
    \/ \E s \in Slots : Answer(s) \/ AnswerError(s)

ListingsSpec == ListingsInit /\ [][ListingsNext]_listingVars

-----------------------------------------------------------------------------
(* Properties *)

\* What the tables of the three pages show.
ReportTable  == IF busy THEN Unlisted ELSE rowsOf
DetailsTable == IF busy \/ failed THEN Unlisted ELSE rowsOf
SearchTable  == IF ~searched \/ busy THEN Unlisted ELSE rowsOf

Table ==
    CASE listing = "report"  -> ReportTable
      [] listing = "details" -> DetailsTable
      [] listing = "search"  -> SearchTable
      [] OTHER -> Unlisted

\* Every variable has its type.
ListingsTypeOK ==
    /\ listing \in {"none", "report", "details", "search"}
    /\ query \in Queries
    /\ flights \in [Slots -> Queries \cup {Unlisted}]
    /\ rowsOf \in Queries \cup {Unlisted}
    /\ {busy, failed, due, searched, overlap, hasty} \subseteq BOOLEAN

\* Once everything has been answered, a table shows the rows that the page asks for,
\* in whatever order the answers have come. Only testDetails makes sure of that: on
\* the other pages two requests under way at once may leave the rows of the first
\* under the filter, the page and the numbers of the second.
TableAnswersQuery ==
    flights = Nowhere /\ ~due /\ Table # Unlisted
        => Table = query \/ (overlap /\ listing # "details")

\* A page that has been asked for exists, since a filter or other rows per page go back
\* to page 1 and Next stops at the last one. Not so when Next goes by the total of another
\* filter, which stands until the answer, and by the filters of the report's card.
PageExists == ~hasty => query.page <= PagesOf[query.filter][query.size]

=============================================================================
