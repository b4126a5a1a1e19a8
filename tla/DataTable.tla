------------------------------ MODULE DataTable ------------------------------
(***************************************************************************)
(* A table of the admin panel: hooks/useDataTable.ts and useSelection.ts,      *)
(* components/DataTable.tsx and Pagination.tsx, the pages built on them, and    *)
(* the list query of the server (utils/datatable.ts).                          *)
(*                                                                           *)
(* An event, the renders it causes and their effects are one step: JavaScript    *)
(* runs them without taking an answer in between.  Answers come in any order.   *)
(* One action on rows (delete, retry, create) is under way at a time.           *)
(***************************************************************************)
EXTENDS Naturals, FiniteSets, SequencesExt

CONSTANTS
  Ids,        \* the rows there can be, ordered by id
  FirstRows,  \* those that may be there at the start
  Value,      \* Value[r]: its value in the sortable column
  Filters,
  Closed,     \* the filters with which nothing is loaded (no device is chosen)
  Passing,    \* Passing[f]: the rows a filter lets through
  Searches,
  NoSearch,
  Found,      \* Found[s]: the rows a search finds
  PageSizes,
  MaxEvents,  \* bound: what the administrator and others do
  None

ASSUME TableAssumption ==
  /\ Ids \subseteq Nat /\ IsFiniteSet(Ids) /\ FirstRows \subseteq SUBSET Ids
  /\ PageSizes \subseteq Nat \ {0}
  /\ Value \in [Ids -> Nat] /\ Closed \subseteq Filters
  /\ NoSearch \in Searches /\ MaxEvents \in Nat

VARIABLES
  db,         \* the rows there are
  query,      \* page, size, dir (of the sort), filter and search of the table
  input,      \* what the search field holds; it settles into query.search
  loading,    \* a load is under way
  request,    \* the newest one, or None: what it asks for, the rows the server
              \* has read (or None), whether they are all still so
  older,      \* the queries of loads under way that a newer one has replaced
  rows, total,
  error,
  selected,
  action,     \* the action under way, or None: its kind, its rows, whether it
              \* is done, and the query of the table when it was called
  shownFor,   \* history: the query the rows are of
  outdated,   \* history: the newest load was the reload of such an action, and
              \* the table was at another query by then
  events,     \* what administrators have done so far, for the bound
  walk        \* history: the pages shown since the rows or the order or the
              \* filters changed, and the rows on them

vars == <<db, query, input, loading, request, older, rows, total, error, selected, action,
          shownFor, outdated, events, walk>>

Event == events < MaxEvents /\ events' = events + 1

Nothing == [pages |-> {}, rows |-> {}]

-----------------------------------------------------------------------------
(* The list query. *)

Matching(q) == db \cap Passing[q.filter] \cap Found[q.search]

\* buildOrderBy: by the column, then by id in the same direction.  Without the id
\* rows with one value come in any order, another one each time.
ByValueOnly(r, s, dir) == IF dir = "asc" THEN Value[r] <= Value[s] ELSE Value[r] >= Value[s]
ByValueThenId(r, s, dir) ==
  IF dir = "asc" THEN Value[r] < Value[s] \/ (Value[r] = Value[s] /\ r < s)
  ELSE Value[r] > Value[s] \/ (Value[r] = Value[s] /\ r > s)
Before(r, s, dir) == ByValueThenId(r, s, dir)

Orders(S, dir) ==
  {order \in SetToSeqs(S) : \A i, j \in DOMAIN order : i < j => Before(order[i], order[j], dir)}

\* skip and take
Page(order, q) ==
  SubSeq(order, (q.page - 1) * q.size + 1,
         IF q.page * q.size < Len(order) THEN q.page * q.size ELSE Len(order))

Pages(n, size) == IF n = 0 THEN 1 ELSE (n + size - 1) \div size

-----------------------------------------------------------------------------
(* Loads. *)

Asked(q) == [q |-> q, read |-> None, fresh |-> TRUE]

Replaced == IF loading THEN older \cup {request.q} ELSE older

\* What is marked once other rows are shown (it might be kept).
KeptMarks(marked) == marked
NoMarks(marked) == {}
MarksOnNewRows(marked) == NoMarks(marked)

\* load for a query, after others of the same event: nothing is asked for with a
\* closed filter.
Load(q, others) ==
  /\ older' = Replaced \cup others
  /\ IF q.filter \in Closed
     THEN /\ loading' = FALSE /\ request' = None
          /\ rows' = <<>> /\ total' = 0 /\ shownFor' = q
          /\ selected' = MarksOnNewRows(selected)
     ELSE /\ loading' = TRUE /\ request' = Asked(q)
          /\ UNCHANGED <<rows, total, shownFor, selected>>

\* The table goes to another query; the effect loads it.
SameOrder(p, q) == [p EXCEPT !.page = 1] = [q EXCEPT !.page = 1]
GoBy(q, others) ==
  /\ q # query
  /\ query' = q
  /\ Load(q, others)
  /\ outdated' = FALSE
  /\ walk' = IF SameOrder(query, q) THEN walk ELSE Nothing
  /\ UNCHANGED <<db, error, action>>
GoTo(q) == GoBy(q, {})

\* Which page another filter, search, order or page size starts with.
FirstPage(q) == [q EXCEPT !.page = 1]

TurnPage(n) ==
  /\ n \in {query.page - 1, query.page + 1}
  /\ n > query.page => n <= Pages(total, query.size)
  /\ Event /\ UNCHANGED input
  /\ GoTo([query EXCEPT !.page = n])

ToggleSort ==
  /\ Event /\ UNCHANGED input
  /\ GoTo(FirstPage([query EXCEPT !.dir = IF query.dir = "asc" THEN "desc" ELSE "asc"]))

SetPageSize(n) ==
  /\ Event /\ UNCHANGED input
  /\ GoTo(FirstPage([query EXCEPT !.size = n]))

\* The first render has the new filter and the old page, and loads that.
SetFilter(f) ==
  /\ Event /\ UNCHANGED input
  /\ f # query.filter
  /\ LET first == [query EXCEPT !.filter = f]
     IN  GoBy(FirstPage(first), IF first.page = 1 \/ f \in Closed THEN {} ELSE {first})

Type(s) ==
  /\ Event
  /\ s # input
  /\ input' = s
  /\ UNCHANGED <<db, query, loading, request, older, rows, total, error, selected, action,
                 shownFor, outdated, walk>>

\* 300 ms after the last change of the field.
SearchSettles ==
  /\ input # query.search
  /\ GoTo(FirstPage([query EXCEPT !.search = input]))
  /\ UNCHANGED <<input, events>>

\* The server reads the rows; it counts them with another statement.
ServerReads ==
  /\ loading /\ request.read = None
  /\ request.q.filter \notin Closed
  /\ \E order \in Orders(Matching(request.q), request.q.dir) :
       request' = [q |-> request.q, read |-> Page(order, request.q), fresh |-> TRUE]
  /\ UNCHANGED <<events, db, query, input, loading, older, rows, total, error, selected, action,
                 shownFor, outdated, walk>>

Show(q, answer) ==
  /\ rows' = answer /\ total' = Cardinality(Matching(q))
  /\ shownFor' = q
  /\ error' = FALSE
  /\ selected' = MarksOnNewRows(selected)

Answer ==
  /\ loading /\ request.read # None
  /\ Show(request.q, request.read)
  /\ loading' = FALSE /\ request' = None
  /\ walk' = IF request.fresh /\ request.q = query
             THEN [pages |-> walk.pages \cup {query.page},
                   rows |-> walk.rows \cup ToSet(request.read)]
             ELSE walk
  /\ UNCHANGED <<events, db, query, input, older, action, outdated>>

LoadFails ==
  /\ loading
  /\ loading' = FALSE /\ request' = None
  /\ error' = TRUE
  /\ UNCHANGED <<events, db, query, input, older, rows, total, selected, action,
                 shownFor, outdated, walk>>

\* The answer of a load a newer one has replaced (it might be shown after all).
ShownAnyway(q) ==
  \E order \in Orders(Matching(q), q.dir) : Show(q, Page(order, q))
Dropped(q) == UNCHANGED <<rows, total, shownFor, error, selected>>
OlderAnswer(q) == Dropped(q)

OlderAnswers(q) ==
  /\ q \in older
  /\ q.filter \notin Closed
  /\ OlderAnswer(q)
  /\ older' = older \ {q}
  /\ UNCHANGED <<events, db, query, input, loading, request, action, outdated, walk>>

OlderFails(q) ==
  /\ q \in older
  /\ older' = older \ {q}
  /\ UNCHANGED <<events, db, query, input, loading, request, rows, total, error, selected, action,
                 shownFor, outdated, walk>>

-----------------------------------------------------------------------------
(* Rows: marking them, acting on them, and what others do to them. *)

Mark(r) ==
  /\ Event
  /\ r \in ToSet(rows)
  /\ selected' = IF r \in selected THEN selected \ {r} ELSE selected \cup {r}
  /\ UNCHANGED <<db, query, input, loading, request, older, rows, total, error, action,
                 shownFor, outdated, walk>>

MarkAll ==
  /\ Event
  /\ LET ids == ToSet(rows)
     IN  selected' = IF ids # {} /\ ids \subseteq selected THEN {} ELSE ids
  /\ UNCHANGED <<db, query, input, loading, request, older, rows, total, error, action,
                 shownFor, outdated, walk>>

\* The handler keeps the query of the render it was made in.
Call(kind, ids) ==
  /\ Event
  /\ action = None
  /\ action' = [kind |-> kind, ids |-> ids, done |-> FALSE, q |-> query]
  /\ UNCHANGED <<db, query, input, loading, request, older, rows, total, error, selected,
                 shownFor, outdated, walk>>

DeleteOne(r) == r \in ToSet(rows) /\ Call("one", {r})
DeleteSelected == selected # {} /\ Call("marked", selected)
RetryOne(r) == r \in ToSet(rows) /\ Call("retry", {})
RetrySelected == selected # {} /\ Call("retry marked", {})
Create(r) ==
  /\ r \notin db /\ query.filter \notin Closed
  /\ Call("create", {r})

\* Rows that have come or gone: nothing read or shown earlier is all there is.
RowsChange(present) ==
  /\ db' = present
  /\ walk' = Nothing
  /\ request' = IF loading THEN [q |-> request.q, read |-> request.read, fresh |-> FALSE]
                ELSE request
  /\ UNCHANGED loading

ServerActs ==
  /\ action # None /\ ~action.done
  /\ RowsChange(IF action.kind = "create" THEN db \cup action.ids ELSE db \ action.ids)
  /\ action' = [action EXCEPT !.done = TRUE]
  /\ UNCHANGED <<events, query, input, older, rows, total, error, selected, shownFor, outdated>>

\* The answer of an action: its rows are loaded again, with the page, the order and
\* the search of the render its handler was made in and the filter of now.
Closing(q) == [q EXCEPT !.filter = query.filter]
Reload(q) ==
  /\ older' = Replaced
  /\ loading' = TRUE /\ request' = Asked(Closing(q))
  /\ outdated' = (Closing(q) # query)

\* clear() goes with the actions on the marked rows.
ActionAnswers ==
  /\ action # None /\ action.done /\ action.kind # "create"
  /\ Reload(action.q)
  /\ selected' = IF action.kind \in {"marked", "retry marked"} THEN {} ELSE selected
  /\ action' = None
  /\ UNCHANGED <<events, db, query, input, rows, total, error, shownFor, walk>>

\* A page that creates goes to page 1 first.  Its reload comes before the render:
\* a load for page 1 follows it if the table is at another page.
Created ==
  /\ action # None /\ action.done /\ action.kind = "create"
  /\ IF query.page = 1
     THEN Reload(action.q) /\ query' = query
     ELSE /\ query' = FirstPage(query)
          /\ older' = Replaced \cup {Closing(action.q)}
          /\ loading' = TRUE /\ request' = Asked(FirstPage(query))
          /\ outdated' = FALSE
  /\ action' = None
  /\ UNCHANGED <<events, db, input, rows, total, error, selected, shownFor, walk>>

\* With an error the table stays as it is, whether the server has acted or not.
ActionFails ==
  /\ action # None
  /\ action' = None
  /\ UNCHANGED <<events, db, query, input, loading, request, older, rows, total, error, selected,
                 shownFor, outdated, walk>>

\* Devices, other administrators and retention.
OthersChange ==
  /\ Event
  /\ \E r \in Ids : RowsChange(IF r \in db THEN db \ {r} ELSE db \cup {r})
  /\ UNCHANGED <<query, input, older, rows, total, error, selected, action,
                 shownFor, outdated>>

-----------------------------------------------------------------------------

Init ==
  /\ db \in FirstRows
  /\ \E f \in Filters, n \in PageSizes :
       query = [page |-> 1, size |-> n, dir |-> "desc", filter |-> f, search |-> NoSearch]
  /\ input = NoSearch
  /\ loading = (query.filter \notin Closed)
  /\ request = IF loading THEN Asked(query) ELSE None
  /\ older = {}
  /\ rows = <<>> /\ total = 0 /\ error = FALSE /\ selected = {}
  /\ action = None
  /\ shownFor = query /\ outdated = FALSE /\ events = 0 /\ walk = Nothing

Next ==
  \/ \E n \in 1 .. Cardinality(Ids) : TurnPage(n)
  \/ ToggleSort \/ SearchSettles
  \/ \E n \in PageSizes : SetPageSize(n)
  \/ \E f \in Filters : SetFilter(f)
  \/ \E s \in Searches : Type(s)
  \/ ServerReads \/ Answer \/ LoadFails
  \/ \E q \in older : OlderAnswers(q) \/ OlderFails(q)
  \/ \E r \in Ids : Mark(r) \/ DeleteOne(r) \/ RetryOne(r) \/ Create(r)
  \/ MarkAll \/ DeleteSelected \/ RetrySelected
  \/ ServerActs \/ ActionAnswers \/ Created \/ ActionFails
  \/ OthersChange

Spec == Init /\ [][Next]_vars

-----------------------------------------------------------------------------
(* Properties. *)

\* When nothing is under way the rows are those of the page, order, search and
\* filter the table shows, in whatever order the answers came: unless there is an
\* error, or the last load was the reload of an action during which the
\* administrator turned the page, sorted or searched.
RowsMatchQuery ==
  ~loading /\ input = query.search /\ ~error /\ ~outdated => shownFor = query

\* Nobody deletes or retries rows they do not see: what is marked is shown.
SelectionIsShown == selected \subseteq ToSet(rows)

\* Who has turned through all pages of rows that did not change has seen each.
WalkSeesAll ==
  walk.pages = 1 .. Pages(Cardinality(Matching(query)), query.size)
    => walk.rows = Matching(query)

\* What the repository's texts say and its code does not keep.  "The arrow tells
\* the truth" (useDataTable.ts:14): what is shown was asked for in the direction of
\* the header's arrow, unless a load is under way or has failed.
ArrowTellsTheTruth == ~loading /\ ~error => shownFor.dir = query.dir

=============================================================================
