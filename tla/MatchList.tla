------------------------------ MODULE MatchList ------------------------------
(***************************************************************************)
(* The paged listing of matches: GetMatches (match_service.go) and FindAll *)
(* (match_repository.go), for one client that walks once from page to page *)
(* (walks share no state) while other requests create matches and store    *)
(* new statuses.                                                           *)
(*                                                                         *)
(* FindAll is two statements, a COUNT and a SELECT with LIMIT and OFFSET,  *)
(* outside any transaction: other requests commit in between.  ORDER BY    *)
(* has no tie-breaker, so rows with equal keys come in any order, a new    *)
(* one in each SELECT.  Matches are never deleted.                         *)
(***************************************************************************)
EXTENDS Integers, FiniteSetsExt, SequencesExt

CONSTANTS Starts,       \* values of start_time
          Pages,        \* values of the query parameter page
          Limits,       \* values of the query parameter limit
          Filters,      \* values of the query parameter status
          DefaultLimit, \* 25 in code
          MaxLimit,     \* 100 in code
          IntMax,       \* the largest int of the build
          MaxRows       \* bound: rows of the table matches

ASSUME QueryAssumption == /\ Starts \subseteq Int /\ Pages \subseteq Int /\ Limits \subseteq Int
                          /\ Filters \subseteq {"all", "scheduled", "live", "finished"}
                          /\ Pages # {} /\ Limits # {} /\ Filters # {}
ASSUME LimitsAssumption == DefaultLimit \in Nat \ {0} /\ MaxLimit \in Nat \ {0}
\* COUNT is an int64: a table has no more rows.
ASSUME RowsAssumption == IntMax \in Nat /\ MaxRows \in 0 .. IntMax

VARIABLES
  rows,   \* the table matches, in the order of creation
  pc,     \* the client: "new", "count" and "select" (in a request), "failed"
          \* or "rest" (answered)
  ask,    \* its query parameters
  total,  \* the answer to its COUNT
  late,   \* history: the writes to rows since its COUNT, until its SELECT
  answer, \* the last answer: the ids of its rows and its PaginationMeta
  walk    \* history of the walk: the rows there at its start, all rows given,
          \* and whether rows were written (quiet) or the walk lost its
          \* footing (stable) since

vars == <<rows, pc, ask, total, late, answer, walk>>

Statuses == {"scheduled", "live", "finished"}
Row == [start : Starts, status : Statuses]
Query(pages) == [page : pages, limit : Limits, sort : {"date_asc", "date_desc", "status"},
                 status : Filters]
NoAnswer == [ids |-> <<>>, page |-> 1, limit |-> 1, hasNext |-> FALSE]

Init == /\ rows = <<>>
        /\ pc = "new"
        /\ ask = CHOOSE query \in Query(Pages) : TRUE
        /\ total = 0
        /\ late = 0
        /\ answer = NoAnswer
        /\ walk = [due |-> {}, given |-> <<>>, quiet |-> TRUE, stable |-> TRUE]

\* WHERE status = ?, unless the status asked for is "" or "all".
Matching(status) == {i \in DOMAIN rows : status = "all" \/ rows[i].status = status}

-----------------------------------------------------------------------------
(* Other requests.                                                         *)

\* A row is written, before the walk or during it; the walk sees a status
\* change only through its filter or its order.
Written(restated) ==
  /\ pc = "rest" => answer.hasNext
  /\ late' = IF pc = "select" THEN late + 1 ELSE late
  /\ walk' = [walk EXCEPT !.quiet = (pc = "new"),
                          !.stable = @ /\ ~(pc # "new" /\ restated /\ (ask.sort = "status" \/ ask.status # "all"))]
  /\ UNCHANGED <<pc, ask, total, answer>>

\* MatchRepository.Create.
Create(row) == /\ Len(rows) < MaxRows
               /\ rows' = Append(rows, row)
               /\ Written(FALSE)

Later(s) == CASE s = "scheduled" -> {"live", "finished"}
              [] s = "live" -> {"finished"}
              [] s = "finished" -> {}

\* MatchRepository.SaveWithTx of a commentary request stores a later status.
Restate(i) == /\ \E s \in Later(rows[i].status) : rows' = [rows EXCEPT ![i].status = s]
              /\ Written(TRUE)

-----------------------------------------------------------------------------
(* GetMatches and FindAll, which both work out the page and the limit.     *)

PageOf(page) == IF page <= 0 THEN 1 ELSE page

\* Faulty variant of LimitInQuery: the cap is only in the answer's meta.
LimitUncapped(limit) == IF limit <= 0 THEN DefaultLimit ELSE limit

\* FindAll's limit.
LimitInQuery(limit) == IF limit <= 0 THEN DefaultLimit
                       ELSE IF limit > MaxLimit THEN MaxLimit ELSE limit

\* GetMatches's limit.
LimitInMeta(limit) == IF limit <= 0 THEN DefaultLimit
                      ELSE IF limit > MaxLimit THEN MaxLimit ELSE limit

\* A result of int arithmetic.
Wrap(n) == ((n + IntMax + 1) % (2 * (IntMax + 1))) - (IntMax + 1)

\* Faulty variants of Offset: pages overlap; pages are counted from 0.
OffsetOverlaps == Wrap(PageOf(ask.page) - 1)
OffsetSkips == Wrap(PageOf(ask.page) * LimitInQuery(ask.limit))

\* FindAll's offset.
Offset == Wrap((PageOf(ask.page) - 1) * LimitInQuery(ask.limit))

\* gorm writes OFFSET only when it is positive.
Skipped == IF Offset > 0 THEN Offset ELSE 0

\* Faulty variant of TotalPages: the last, partial page is not counted.
TotalPagesDown == total \div LimitInMeta(ask.limit)

TotalPages == IF total > 0
              THEN (total + LimitInMeta(ask.limit) - 1) \div LimitInMeta(ask.limit)
              ELSE 0

\* The position of a status in ORDER BY CASE WHEN status = ...
Rank(s) == CASE s = "live" -> 1 [] s = "scheduled" -> 2 [] s = "finished" -> 3

\* Row i must come before row j.
Before(i, j) ==
  CASE ask.sort = "date_asc"  -> rows[i].start < rows[j].start
    [] ask.sort = "date_desc" -> rows[i].start > rows[j].start
    [] ask.sort = "status" ->
         \/ Rank(rows[i].status) < Rank(rows[j].status)
         \/ rows[i].status = rows[j].status /\ rows[i].start > rows[j].start

\* Every order of the matching rows that ORDER BY allows.
Orders == {o \in SetToSeqs(Matching(ask.status)) :
             \A i, j \in DOMAIN o : Before(o[i], o[j]) => i < j}

\* A first request, of a walk when it is for page 1.
Ask(query) ==
  /\ pc = "new"
  /\ pc' = "count"
  /\ ask' = query
  /\ walk' = [due |-> IF PageOf(query.page) = 1 THEN Matching(query.status) ELSE {},
              given |-> <<>>, quiet |-> TRUE, stable |-> TRUE]
  /\ UNCHANGED <<rows, total, late, answer>>

\* The client goes on to the next page.
NextPage ==
  /\ pc = "rest" /\ answer.hasNext
  /\ pc' = "count"
  /\ ask' = [ask EXCEPT !.page = answer.page + 1]
  /\ UNCHANGED <<rows, total, late, answer, walk>>

\* SELECT count(*)
Count ==
  /\ pc = "count"
  /\ pc' = "select"
  /\ total' = Cardinality(Matching(ask.status))
  /\ UNCHANGED <<rows, ask, late, answer, walk>>

\* SELECT ... ORDER BY ... LIMIT ... OFFSET ..., and the answer with its meta.
Select ==
  /\ pc = "select"
  /\ pc' = "rest"
  /\ \E o \in Orders :
       LET ids == SubSeq(o, Skipped + 1,
                         Min({Skipped + LimitInQuery(ask.limit), Len(o)})) IN
       /\ answer' = [ids |-> ids, page |-> PageOf(ask.page), limit |-> LimitInMeta(ask.limit),
                     hasNext |-> PageOf(ask.page) < TotalPages]
       /\ walk' = [walk EXCEPT !.given = @ \o ids]
  /\ late' = 0
  /\ UNCHANGED <<rows, ask, total>>

\* A statement fails, and the client may ask for the same page again.
Fail == /\ pc \in {"count", "select"}
        /\ pc' = "failed"
        /\ late' = 0
        /\ UNCHANGED <<rows, ask, total, answer, walk>>

Retry == /\ pc = "failed"
         /\ pc' = "count"
         /\ UNCHANGED <<rows, ask, total, late, answer, walk>>

Next == \/ \E row \in Row : Create(row)
        \/ \E i \in DOMAIN rows : Restate(i)
        \/ \E query \in Query(Pages) : Ask(query)
        \/ NextPage \/ Count \/ Select \/ Fail \/ Retry

Spec == Init /\ [][Next]_vars

-----------------------------------------------------------------------------
(* Properties.                                                             *)

\* Every variable has its type, and an answer never has more rows than its
\* meta says: the limit is worked out twice.
TypeOK ==
  /\ rows \in Seq(Row) /\ Len(rows) <= MaxRows
  /\ pc \in {"new", "count", "select", "failed", "rest"}
  /\ ask \in Query(Int)
  /\ total \in 0 .. MaxRows
  /\ late \in Nat
  /\ answer \in [ids : Seq(DOMAIN rows), page : Nat \ {0}, limit : Nat \ {0}, hasNext : BOOLEAN]
  /\ Len(answer.ids) <= answer.limit
  /\ walk \in [due : SUBSET DOMAIN rows, given : Seq(DOMAIN rows), quiet : BOOLEAN, stable : BOOLEAN]

Answered == pc = "select" /\ pc' = "rest"

\* The offset of the page asked for is an int.
InRange == (PageOf(ask.page) - 1) * LimitInMeta(ask.limit) <= IntMax

\* hasNext, computed from COUNT, page and limit, tells whether the SELECT leaves
\* rows over, for any page and limit asked for: exactly when nothing is written
\* between the two statements, and else up to the rows written.
HasNextIsExact ==
  [][Answered /\ InRange =>
       LET left == Cardinality(Matching(ask.status))
                     - ((answer'.page - 1) * answer'.limit + Len(answer'.ids)) IN
       IF answer'.hasNext THEN left > -late ELSE left <= late]_vars

NoTies == \A i, j \in Matching(ask.status) : i = j \/ Before(i, j) \/ Before(j, i)

\* A client that walks from page 1 until hasNext is false misses no more of the
\* matches that were there when it began than were written between the COUNT and
\* the SELECT of its last request; none, when there were no such writes.  Matches
\* are created all the time, inside the earlier requests as well; no status that
\* the walk filters or sorts by changes and no two rows have equal keys.
WalkMissesAtMostLate ==
  [][Answered /\ ~answer'.hasNext /\ walk'.stable /\ NoTies =>
       Cardinality(walk.due \ ToSet(walk'.given)) <= late]_vars

\* While no row is written, the pages of a walk follow each other in the order
\* asked for and repeat no match.
WalkIsSorted ==
  [][Answered /\ walk.quiet /\ NoTies =>
       \A i, j \in DOMAIN walk'.given :
         i < j => Before(walk'.given[i], walk'.given[j])]_vars
-----------------------------------------------------------------------------
(* The inductive invariant behind the theorems of MatchListProofs.tla.     *)

InRequest == pc \in {"count", "select", "failed"}

\* The rows of the order that the walk has gone past, when it goes on.
Passed == IF answer.hasNext THEN answer.page * LimitInQuery(ask.limit) ELSE 0

\* What COUNT answered is still so but for the rows written since; the walk
\* asks for one page after the other, of the same size, up to the rows there
\* can be.
PageInv ==
  /\ pc = "select" => Cardinality(Matching(ask.status)) \in total - late .. total + late
  /\ pc = "new" => answer = NoAnswer /\ walk.given = <<>> /\ walk.due = {}
  /\ answer.hasNext => Passed < MaxRows
  /\ InRequest /\ answer.hasNext => ask.page = answer.page + 1
  /\ InRequest /\ ~answer.hasNext =>
       walk.given = <<>> /\ (walk.due # {} => PageOf(ask.page) = 1)

Preceding(i) == {j \in Matching(ask.status) : Before(j, i)}

\* A match still due has all the rows that the walk has gone past before it:
\* rows that are created only push it further.
DueInv ==
  walk.stable /\ NoTies =>
    \A d \in walk.due \ ToSet(walk.given) :
      d \in Matching(ask.status) /\ Cardinality(Preceding(d)) >= Passed

\* The matches given are in order and, while no row is written, among those
\* that the walk has gone past.
GivenInv ==
  walk.quiet /\ NoTies =>
    /\ \A i, j \in DOMAIN walk.given : i < j => Before(walk.given[i], walk.given[j])
    /\ answer.hasNext => \A i \in DOMAIN walk.given :
         walk.given[i] \in Matching(ask.status) /\ Cardinality(Preceding(walk.given[i])) < Passed

WalkInv == TypeOK /\ PageInv /\ DueInv /\ GivenInv
=============================================================================
