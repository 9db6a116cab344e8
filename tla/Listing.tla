------------------------------ MODULE Listing ------------------------------
(***************************************************************************)
(* The paginated lists of the read API (documents, the processing log and  *)
(* the LLM calls of one document, events) and a client that reads one from *)
(* its first page to its last, as the timeline does.  A page is answered   *)
(* by a COUNT and a SELECT that commit on their own, so the pipeline and   *)
(* delete requests change the table between any two statements.            *)
(***************************************************************************)
EXTENDS Integers, FiniteSets

CONSTANTS
    Lists,       \* the lists a client may read
    PerPage,     \* rows of a page: 50 for the log, else up to the client (1 .. 100)
    SortKeys,    \* values of the column that events are sorted by
    MaxFilters,  \* bound on the filters of a request: 2 for documents, 4 for events
    MaxRows      \* bound on the rows ever inserted

ASSUME ListsAssumption == Lists \subseteq {"documents", "logs", "calls", "events"}
ASSUME PerPageAssumption == PerPage \in Nat \ {0}
ASSUME SortKeysAssumption == SortKeys \subseteq Int
ASSUME BoundsAssumption == MaxFilters \in Nat /\ MaxRows \in Nat

VARIABLES
    list,      \* the list that is read, "none" at first
    filters,   \* filters the client has set
    table,     \* the rows that match, each with its place in the order
    next,      \* id of the next row
    document,  \* the document of the log or the calls is there
    scan,      \* the client: where its request is, page, pages, total
    shown,     \* rows the client got
    again,     \* rows the client got more than once
    start,     \* history: the rows when the scan began, ...
    inserted,  \* ... those inserted since, ...
    removed,   \* ... those removed since, ...
    late,      \* ... those inserted since the COUNT of the current page, ...
    fault      \* ... and whether the database failed a statement

listingVars == <<list, filters, table, next, document, scan, shown, again,
          start, inserted, removed, late, fault>>
tableVars == <<table, next, document, start, inserted, removed, late>>
answerVars == <<shown, again>>
-----------------------------------------------------------------------------
Row == [id : Nat, key : Int]

Stages == {"exists", "count", "select"}
Scanning == scan.at \in Stages

\* The routes of one document look for its row before every page.
FirstStage(l) == IF l \in {"logs", "calls"} THEN "exists" ELSE "count"

\* The id sorts a row by the time of its INSERT; an INSERT whose time was taken
\* first may be overtaken by the next one.  Documents and log entries come newest
\* first, calls oldest first; events have the key they were extracted with.
Keys(l, id) ==
    CASE l = "events" -> SortKeys
      [] l = "calls" -> {2 * id, 2 * id - 3}
      [] OTHER -> {-2 * id, -2 * id + 3}

\* Rows with equal keys come in any order, and in another one in the next SELECT.
Leading(rows) == rows \subseteq table /\ \A r \in rows, q \in table \ rows : r.key <= q.key

\* What ORDER BY ... LIMIT n OFFSET o may return.
IsSlice(rows, o, n) ==
    \E skipped, reached \in SUBSET table :
        /\ skipped \subseteq reached /\ Leading(skipped) /\ Leading(reached)
        /\ Cardinality(skipped) = IF o < Cardinality(table) THEN o ELSE Cardinality(table)
        /\ Cardinality(reached) = IF o + n < Cardinality(table) THEN o + n ELSE Cardinality(table)
        /\ rows = reached \ skipped

\* Mutant: the last page is left out when it is not full.
PagesDown(total) == IF total = 0 /\ list = "calls" THEN 1 ELSE total \div PerPage

\* An empty list has no page, but an empty list of calls has one (D-08).
Pages(total) ==
    IF total = 0 THEN IF list = "calls" THEN 1 ELSE 0
                 ELSE (total + PerPage - 1) \div PerPage

\* Mutant: the offset is counted in pages.
OffsetInPages(page) == page - 1

Offset(page) == (page - 1) * PerPage

\* Parameters of the WHERE clause, $1 onwards: the document of a log, or the filters.
WhereParams == IF list \in {"logs", "calls"} THEN 1 ELSE filters

\* Mutant: the position is a fixed one for every list.
LimitAtFixed == IF list \in {"documents", "events"} THEN 1 ELSE WhereParams + 1

\* The positions of per_page and offset in the statement text.
LimitAt == IF list = "documents" THEN 1 ELSE WhereParams + 1
OffsetAt == LimitAt + 1

\* PostgreSQL takes the statement if every parameter is referred to, and each is
\* used either as a text of WHERE or as the number of LIMIT or OFFSET.
Acceptable ==
    /\ (1 .. WhereParams) \cap {LimitAt, OffsetAt} = {}
    /\ (1 .. WhereParams) \cup {LimitAt, OffsetAt} = 1 .. WhereParams + 2

NoScan == [at |-> "idle", page |-> 1, pages |-> 1, total |-> 0]

ListingInit ==
    /\ list = "none" /\ filters = 0
    /\ table = {} /\ next = 1 /\ document = TRUE
    /\ scan = NoScan /\ shown = {} /\ again = {}
    /\ start = {} /\ inserted = {} /\ removed = {} /\ late = {} /\ fault = FALSE
-----------------------------------------------------------------------------
(* The routes, one statement a step, and the client.                       *)

\* The client opens a list, as it is by then.
Open ==
    /\ scan.at = "idle"
    /\ list' \in Lists
    /\ filters' \in IF list' \in {"logs", "calls"} THEN {0} ELSE 0 .. MaxFilters
    /\ scan' = [NoScan EXCEPT !.at = FirstStage(list')]
    /\ \E n \in 0 .. MaxRows :
          /\ next' = n + 1
          /\ \E ids \in SUBSET (1 .. n) :
                \E key \in [ids -> UNION {Keys(list', i) : i \in ids}] :
                   /\ \A i \in ids : key[i] \in Keys(list', i)
                   /\ table' = {[id |-> i, key |-> key[i]] : i \in ids}
    /\ document' \in IF list' \in {"logs", "calls"} /\ table' = {} THEN BOOLEAN ELSE {TRUE}
    /\ start' = table'
    /\ UNCHANGED <<answerVars, inserted, removed, late, fault>>

Goto(at) == scan' = [scan EXCEPT !.at = at]

\* A statement fails, on its own or for want of a connection: 502.
Fault ==
    /\ Scanning
    /\ Goto("502") /\ fault' = TRUE
    /\ UNCHANGED <<list, filters, tableVars, answerVars>>

\* SELECT id FROM document: 404 when it is gone.
CheckDocument ==
    /\ scan.at = "exists"
    /\ Goto(IF document THEN "count" ELSE "404")
    /\ UNCHANGED <<list, filters, tableVars, answerVars, fault>>

\* The next page, until there is none.
Advance(pages) ==
    scan' = [scan EXCEPT !.at = IF scan.page + 1 <= pages THEN FirstStage(list) ELSE "done",
                         !.page = @ + 1, !.pages = pages]

\* SELECT COUNT(*): a list of events that is empty is answered without a SELECT.
Count ==
    /\ scan.at = "count"
    /\ \/ /\ list = "events" /\ table = {}
          /\ Advance(Pages(0))
       \/ /\ list # "events" \/ table # {}
          /\ scan' = [scan EXCEPT !.at = "select", !.total = Cardinality(table)]
    /\ late' = {}
    /\ UNCHANGED <<list, filters, table, next, document, start, inserted, removed,
                   answerVars, fault>>

\* SELECT ... LIMIT per_page OFFSET (page - 1) * per_page; the answer says how
\* many pages there were when the rows were counted.
Select ==
    /\ scan.at = "select"
    /\ \/ /\ Acceptable
          /\ \E rows \in SUBSET table :
                /\ IsSlice(rows, Offset(scan.page), PerPage)
                /\ shown' = shown \cup rows
                /\ again' = again \cup (shown \cap rows)
          /\ Advance(Pages(scan.total))
       \/ ~Acceptable /\ Goto("502") /\ UNCHANGED answerVars
    /\ UNCHANGED <<list, filters, tableVars, fault>>
-----------------------------------------------------------------------------
(* The writers, until the scan is over.                                    *)

\* gone is taken out of the table and new put into it, in one transaction.
Write(gone, new) ==
    /\ table' = (table \ gone) \cup new
    /\ removed' = removed \cup gone
    /\ inserted' = inserted \cup new /\ late' = late \cup new

\* A document is submitted, a log entry written, a call recorded.
Insert ==
    /\ Scanning /\ list # "events" /\ document /\ next <= MaxRows
    /\ \E k \in Keys(list, next) : Write({}, {[id |-> next, key |-> k]})
    /\ next' = next + 1
    /\ UNCHANGED <<list, filters, document, scan, answerVars, start, fault>>

\* store_events_v7 replaces the events of a chunk by others, or by none.
StoreRows ==
    /\ Scanning /\ list = "events"
    /\ \E last \in next - 1 .. MaxRows :
          \E key \in [next .. last -> Keys(list, next)], gone \in SUBSET table :
             /\ gone # {} \/ last >= next
             /\ Write(gone, {[id |-> i, key |-> key[i]] : i \in next .. last})
             /\ next' = last + 1
    /\ UNCHANGED <<list, filters, document, scan, answerVars, start, fault>>

\* delete_document: one row of the list of documents, all of the log or the calls.
DeleteRows ==
    /\ Scanning /\ list # "events" /\ table # {}
    /\ \E gone \in IF list = "documents" THEN {{r} : r \in table} ELSE {table} : Write(gone, {})
    /\ UNCHANGED <<list, filters, next, document, scan, answerVars, start, fault>>

\* Its last statement: the row of the document; what refers to it goes with it.
DeleteDocument ==
    /\ Scanning /\ list \in {"logs", "calls"} /\ document
    /\ document' = FALSE
    /\ Write(table, {})
    /\ UNCHANGED <<list, filters, next, scan, answerVars, start, fault>>
-----------------------------------------------------------------------------
Respond == CheckDocument \/ Count \/ Select

ListingNext ==
    \/ Open \/ Respond \/ Fault
    \/ Insert \/ StoreRows \/ DeleteRows \/ DeleteDocument

ListingSpec == ListingInit /\ [][ListingNext]_listingVars
-----------------------------------------------------------------------------
\* Type invariant.
ListingTypeOK ==
    /\ list \in Lists \cup {"none"} /\ filters \in Nat /\ next \in Nat \ {0}
    /\ document \in BOOLEAN /\ fault \in BOOLEAN
    /\ \A rows \in {table, shown, again, start, inserted, removed, late} :
          /\ rows \subseteq Row
          /\ \A r \in rows : r.id < next
    /\ scan \in [at : Stages \cup {"idle", "done", "404", "502"}, page : Nat \ {0},
                 pages : Nat, total : Nat]

\* A row of the list with the same key as another one has no place of its own.
Tied(r) == \E q \in (start \cup inserted) \ {r} : q.key = r.key

\* "The timeline view must render ALL events matching the current filters/search"
\* (test_timeline_fetch_all.py): a row that was there throughout the scan is
\* missed only if a row in front of it was deleted, if one was inserted in front
\* of it between the COUNT and the SELECT of the last page, or if it is tied.
MissedExplained ==
    scan.at = "done" =>
        \A r \in (start \ removed) \ shown :
            \/ Tied(r)
            \/ \E q \in removed : q.key < r.key
            \/ \E q \in late : q.key < r.key

\* A row is shown twice only if another one was inserted in front of it during
\* the scan, or if it is tied: deletes never repeat a row, and a list that comes
\* oldest first repeats one only after an INSERT was overtaken.
RepeatedExplained ==
    \A r \in again : Tied(r) \/ \E q \in inserted : q.key < r.key

\* "List documents with pagination, search, and status filtering." (documents.py:830):
\* the positions of the parameters are right in every list and with every number of
\* filters but one, the list of documents with a filter, which is always refused.
ErrorsExplained == scan.at = "502" => fault \/ (list = "documents" /\ filters > 0)

\* The rows in front of r, and how many: its place in the order.
Place(r) == Cardinality({q \in table : q.key < r.key})

\* What the history says of the table.
HistoryInv ==
    /\ scan.at = "idle" => shown = {} /\ inserted = {} /\ removed = {}
    /\ again \subseteq shown /\ shown \subseteq start \cup inserted /\ late \subseteq inserted
    /\ Scanning => list \in Lists /\ table = (start \cup inserted) \ removed

\* A row that was there and is not shown yet lies beyond the pages read, and
\* within those that were counted, unless it is excused already.
UnseenInv ==
    Scanning => \A r \in (start \cap table) \ shown :
        \/ Tied(r) \/ \E q \in removed : q.key < r.key
        \/ /\ Place(r) >= Offset(scan.page)
           /\ scan.at = "select" => Place(r) < scan.total \/ \E q \in late : q.key < r.key

\* A row that is shown lies within the pages read, unless it is excused.
SeenInv ==
    Scanning => \A r \in shown \cap table :
        \/ Tied(r) \/ \E q \in inserted : q.key < r.key
        \/ Place(r) < Offset(scan.page)

\* The inductive invariant.
ListingInv ==
    /\ ListingTypeOK /\ IsFiniteSet(table)
    /\ HistoryInv /\ UnseenInv /\ SeenInv
    /\ MissedExplained /\ RepeatedExplained
=============================================================================
