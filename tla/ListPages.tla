----------------------------- MODULE ListPages -----------------------------
(***************************************************************************)
(* Paging through a list of the admin application while other clients add  *)
(* rows.  GET /loans takes a page and a limit and reads rows and count in  *)
(* two statements that run side by side; GET /disbursements and GET        *)
(* /repayments answer with every row.  Rows are numbered as they are       *)
(* created and listed newest first.  No loan or disbursement is ever       *)
(* deleted; that the rollback of a disbursement deletes the repayments of  *)
(* its loan is left out.                                                   *)
(***************************************************************************)
EXTENDS Integers

CONSTANTS Endpoints,   \* "paged" and "whole", as above
          PerPages,    \* page sizes the list offers
          PerPage,     \* the one it starts with
          MaxTake,     \* rows the backend returns at most
          MaxRows      \* bound: rows that are created

ASSUME PagesAssumption ==
  /\ Endpoints \subseteq {"paged", "whole"}
  /\ MaxTake \in Nat \ {0} /\ PerPages \subseteq 1..MaxTake /\ PerPage \in PerPages
  /\ MaxRows \in Nat

VARIABLES
  endpoint,  \* the list that is open
  created,   \* rows in the table
  walk,      \* the page and its size, and the rows there were at its start
  loading,   \* a page has been asked for
  reads,     \* rows and count: the rows there were when each was read, or Unread
  list,      \* the same of the page that is shown
  seen       \* rows shown since the first page was asked for

pages == <<endpoint, created, walk, loading, reads, list, seen>>

Unread == -1
Nothing == [rows |-> Unread, count |-> Unread]

PagesInit ==
  /\ endpoint \in Endpoints
  /\ created = 0
  /\ walk = [page |-> 1, perPage |-> PerPage, started |-> 0]
  /\ loading = TRUE /\ reads = Nothing /\ list = Nothing /\ seen = {}

\* What the controller makes of page and limit, and the repository of those.
SkipFromZero(page, limit) == page * limit   \* mutant: pages count from zero
Skip(page, limit) == (page - 1) * limit
Take(limit) == IF limit < MaxTake THEN limit ELSE MaxTake

\* The rows of a page, of n newest first: those at positions skip + 1 to
\* skip + take.
PageRows(n, page, limit) ==
  IF endpoint = "whole" THEN 1..n
  ELSE {r \in 1..n : n - r \in Skip(page, limit)..(Skip(page, limit) + Take(limit) - 1)}

\* The data provider counts the rows of an answer that has no total.
TotalOf(answer) == IF endpoint = "whole" THEN answer.rows ELSE answer.count

\* Some client creates a row.
CreateRow ==
  /\ created < MaxRows
  /\ created' = created + 1
  /\ UNCHANGED <<endpoint, walk, loading, reads, list, seen>>

ReadRows ==
  /\ loading /\ reads.rows = Unread
  /\ reads' = [reads EXCEPT !.rows = created]
  /\ UNCHANGED <<endpoint, created, walk, loading, list, seen>>

ReadCount ==
  /\ loading /\ reads.count = Unread
  /\ reads' = [reads EXCEPT !.count = created]
  /\ UNCHANGED <<endpoint, created, walk, loading, list, seen>>

\* The request fails and the page is asked for again.
ReadAgain ==
  /\ loading /\ reads # Nothing
  /\ reads' = Nothing
  /\ UNCHANGED <<endpoint, created, walk, loading, list, seen>>

\* The answer needs both.
ShowPage ==
  /\ loading /\ Unread \notin {reads.rows, reads.count}
  /\ list' = reads /\ reads' = Nothing /\ loading' = FALSE
  /\ seen' = seen \cup PageRows(reads.rows, walk.page, walk.perPage)
  /\ UNCHANGED <<endpoint, created, walk>>

AtEnd == ~loading /\ walk.page * walk.perPage >= TotalOf(list)

NextPage ==
  /\ ~loading /\ ~AtEnd
  /\ walk' = [walk EXCEPT !.page = @ + 1]
  /\ loading' = TRUE
  /\ UNCHANGED <<endpoint, created, reads, list, seen>>

\* The refresh button, or the window gets the focus.
Reload ==
  /\ ~loading /\ loading' = TRUE
  /\ UNCHANGED <<endpoint, created, walk, reads, list, seen>>

\* Back to the first page; another size goes there too.  An answer on its way
\* belongs to another page and is not shown.
FirstPage(perPage) ==
  /\ walk' = [page |-> 1, perPage |-> perPage, started |-> created]
  /\ loading' = TRUE /\ reads' = Nothing /\ seen' = {}
  /\ UNCHANGED <<endpoint, created, list>>

PagesNext ==
  \/ CreateRow \/ ReadRows \/ ReadCount \/ ReadAgain \/ ShowPage
  \/ NextPage \/ Reload
  \/ \E n \in PerPages : FirstPage(n)

PagesSpec == PagesInit /\ [][PagesNext]_pages
-----------------------------------------------------------------------------
\* Whoever pages to the end has seen every row there was at the start, however
\* many came in meanwhile (findAll, newest first) - unless the total on the
\* last page is older than its rows (findMany and count are two statements).
WalkMissesNothing ==
  AtEnd /\ TotalOf(list) >= list.rows => 1..walk.started \subseteq seen
=============================================================================
