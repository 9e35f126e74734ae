--------------------------- MODULE MatchListProofs ---------------------------
(***************************************************************************)
(* The walk through the pages of the listing of matches, for any start     *)
(* times, pages, limits and any number of rows.                            *)
(*                                                                         *)
(* WalkInv is inductive.  Its core is DueInv: a match that the walk has    *)
(* still to give has as many rows before it as the walk has gone past, for *)
(* a row that is created can only push it further back.                    *)
(***************************************************************************)
EXTENDS MatchList, FiniteSetTheorems, SequenceTheorems, TLAPS

-----------------------------------------------------------------------------
(* The arithmetic of pages.                                                *)

\* Go's int arithmetic is exact up to IntMax.
LEMMA NoWrap == ASSUME NEW n \in 0 .. IntMax PROVE Wrap(n) = n
<1> DEFINE m == 2 * (IntMax + 1)
<1>1. m \in Nat \ {0} /\ n + IntMax + 1 \in 0 .. m - 1
  BY RowsAssumption
<1>2. \A a \in Int, b \in Nat \ {0} : 0 <= a /\ a < b => a % b = a
  OBVIOUS
<1>3. (n + IntMax + 1) % m = n + IntMax + 1
  BY <1>1, <1>2
<1> QED
  BY <1>3, RowsAssumption DEF Wrap

\* There is a page after page p exactly when p pages do not hold all rows.
LEMMA PagesFit ==
  ASSUME NEW t \in Nat \ {0}, NEW l \in Nat \ {0}, NEW p \in Nat
  PROVE  p < (t + l - 1) \div l <=> p * l < t
<1> DEFINE q == (t + l - 1) \div l
           r == (t + l - 1) % l
<1>1. q \in Int /\ r \in 0 .. l - 1 /\ t + l - 1 = q * l + r
  OBVIOUS
<1> HIDE DEF q, r
<1>2. ASSUME p < q PROVE p * l < t
  <2>1. (p + 1) * l <= q * l
    BY <1>1, <1>2
  <2>2. (p + 1) * l = p * l + l
    OBVIOUS
  <2> QED
    BY <1>1, <2>1, <2>2
<1>3. ASSUME ~(p < q) PROVE ~(p * l < t)
  <2>1. q * l <= p * l
    BY <1>1, <1>3
  <2> QED
    BY <1>1, <2>1
<1> QED
  BY <1>2, <1>3 DEF q

\* GetMatches and FindAll come to the same limit.
LEMMA OneLimit ==
  ASSUME NEW l \in Int
  PROVE  LimitInQuery(l) \in Nat \ {0} /\ LimitInMeta(l) = LimitInQuery(l)
BY LimitsAssumption DEF LimitInQuery, LimitInMeta

\* What the request asks for, in numbers.
LEMMA AskType ==
  ASSUME TypeOK
  PROVE  /\ ask.page \in Int /\ ask.limit \in Int /\ PageOf(ask.page) \in Nat \ {0}
         /\ LimitInQuery(ask.limit) \in Nat \ {0}
         /\ LimitInMeta(ask.limit) = LimitInQuery(ask.limit)
<1>1. ask.page \in Int /\ ask.limit \in Int
  BY QueryAssumption DEF TypeOK, Query
<1> QED
  BY <1>1, OneLimit DEF PageOf

\* hasNext: the pages up to this one do not hold the rows counted.
LEMMA HasNextFits ==
  ASSUME TypeOK
  PROVE  PageOf(ask.page) < TotalPages <=> PageOf(ask.page) * LimitInQuery(ask.limit) < total
<1> DEFINE l == LimitInQuery(ask.limit)
           p == PageOf(ask.page)
<1>1. l \in Nat \ {0} /\ LimitInMeta(ask.limit) = l
  BY AskType
<1>2. p \in Nat \ {0} /\ total \in Nat
  BY AskType, RowsAssumption DEF TypeOK
<1> HIDE DEF l, p
<1>3. CASE total > 0
  BY <1>1, <1>2, <1>3, PagesFit DEF TotalPages, l, p
<1>4. CASE total = 0
  <2>1. p * l \in Nat
    BY <1>1, <1>2
  <2> QED
    BY <1>2, <1>4, <2>1 DEF TotalPages, l, p
<1> QED
  BY <1>2, <1>3, <1>4

\* While the rows to skip are an int, OFFSET skips them.
LEMMA SkippedInRange ==
  ASSUME TypeOK, (PageOf(ask.page) - 1) * LimitInQuery(ask.limit) <= IntMax
  PROVE  Skipped = (PageOf(ask.page) - 1) * LimitInQuery(ask.limit)
<1> DEFINE l == LimitInQuery(ask.limit)
           p == PageOf(ask.page)
<1>1. l \in Nat \ {0} /\ p \in Nat \ {0}
  BY AskType
<1>2. (p - 1) * l \in 0 .. IntMax
  BY <1>1, RowsAssumption
<1> HIDE DEF l, p
<1>3. Wrap((p - 1) * l) = (p - 1) * l
  BY <1>2, NoWrap
<1> QED
  BY <1>2, <1>3 DEF Skipped, Offset, l, p

-----------------------------------------------------------------------------
(* The orders of the rows.                                                 *)

LEMMA Interval ==
  ASSUME NEW n \in Nat
  PROVE  IsFiniteSet(1 .. n) /\ Cardinality(1 .. n) = n
BY FS_Interval

LEMMA MatchingIsFinite ==
  ASSUME TypeOK, NEW s
  PROVE  /\ IsFiniteSet(Matching(s)) /\ Matching(s) \subseteq DOMAIN rows
         /\ Cardinality(Matching(s)) \in 0 .. Len(rows)
<1>1. DOMAIN rows = 1 .. Len(rows) /\ Len(rows) \in Nat
  BY DEF TypeOK
<1>2. IsFiniteSet(1 .. Len(rows)) /\ Cardinality(1 .. Len(rows)) = Len(rows)
  BY <1>1, Interval
<1>3. Matching(s) \in SUBSET (1 .. Len(rows))
  BY <1>1 DEF Matching
<1>4. IsFiniteSet(Matching(s)) /\ Cardinality(Matching(s)) <= Len(rows)
  BY <1>2, <1>3, FS_Subset
<1> QED
  BY <1>1, <1>3, <1>4, FS_CardinalityType

\* An order holds every matching row, once.
LEMMA OrderIsComplete ==
  ASSUME TypeOK, NEW o \in Orders
  PROVE  /\ o \in Seq(Matching(ask.status)) /\ o \in Seq(DOMAIN rows)
         /\ DOMAIN o = 1 .. Len(o)
         /\ Len(o) = Cardinality(Matching(ask.status)) /\ Len(o) \in Nat
         /\ \A i, j \in 1 .. Len(o) : o[i] = o[j] => i = j
         /\ \A d \in Matching(ask.status) : \E i \in 1 .. Len(o) : o[i] = d
<1> DEFINE M == Matching(ask.status)
           n == Cardinality(M)
<1>1. IsFiniteSet(M) /\ n \in Nat /\ M \subseteq DOMAIN rows
  BY MatchingIsFinite
<1>2. o \in [1 .. n -> M] /\ \A i, j \in 1 .. n : i # j => o[i] # o[j]
  BY DEF Orders, SetToSeqs
<1> HIDE DEF n, M
<1>3. o \in Seq(M) /\ Len(o) = n /\ DOMAIN o = 1 .. Len(o)
  BY <1>1, <1>2
<1>4. o \in Seq(DOMAIN rows)
  BY <1>1, <1>2
<1>5. o \in Injection(1 .. n, M)
  BY <1>2 DEF Injection, IsInjective
<1>6. IsFiniteSet(1 .. n) /\ Cardinality(1 .. n) = n
  BY <1>1, Interval
<1>7. o \in Surjection(1 .. n, M)
  BY <1>1, <1>5, <1>6, FS_Injection DEF n
<1>8. \A d \in M : \E i \in 1 .. n : o[i] = d
  BY <1>7 DEF Surjection
<1> QED
  BY <1>1, <1>2, <1>3, <1>4, <1>8 DEF n, M

\* Without ties, the place of a row in an order is the number of rows that
\* must come before it, and the order is the only one.
LEMMA PlaceInOrder ==
  ASSUME TypeOK, NoTies, NEW o \in Orders, NEW i \in 1 .. Len(o)
  PROVE  /\ o[i] \in Matching(ask.status)
         /\ Cardinality(Preceding(o[i])) = i - 1
         /\ \A j \in 1 .. Len(o) : i < j => Before(o[i], o[j])
<1> DEFINE M == Matching(ask.status)
<1>1. /\ DOMAIN o = 1 .. Len(o) /\ Len(o) \in Nat
      /\ \A j \in 1 .. Len(o) : o[j] \in M
      /\ \A j, k \in 1 .. Len(o) : o[j] = o[k] => j = k
      /\ \A d \in M : \E j \in 1 .. Len(o) : o[j] = d
  BY OrderIsComplete, ElementOfSeq
<1>2. \A j, k \in 1 .. Len(o) : Before(o[j], o[k]) => j < k
  BY <1>1 DEF Orders
<1>3. \A j, k \in 1 .. Len(o) : j < k => Before(o[j], o[k])
  BY <1>1, <1>2 DEF NoTies
<1> DEFINE f == [k \in 1 .. (i - 1) |-> o[k]]
<1>4. f \in Surjection(1 .. (i - 1), Preceding(o[i]))
  <2>1. \A k \in 1 .. (i - 1) : o[k] \in Preceding(o[i])
    BY <1>1, <1>3 DEF Preceding
  <2>2. \A d \in Preceding(o[i]) : \E k \in 1 .. (i - 1) : f[k] = d
    BY <1>1, <1>2 DEF Preceding
  <2> QED
    BY <2>1, <2>2 DEF Surjection
<1>5. f \in Injection(1 .. (i - 1), Preceding(o[i]))
  <2>1. f \in [1 .. (i - 1) -> Preceding(o[i])]
    BY <1>4 DEF Surjection
  <2>2. \A j, k \in 1 .. (i - 1) : f[j] = f[k] => j = k
    BY <1>1
  <2> QED
    BY <2>1, <2>2 DEF Injection, IsInjective
<1>6. IsFiniteSet(1 .. (i - 1)) /\ Cardinality(1 .. (i - 1)) = i - 1
  <2>1. i - 1 \in Nat
    BY <1>1
  <2> QED
    BY <2>1, Interval
<1>7. Cardinality(Preceding(o[i])) = i - 1
  BY <1>4, <1>5, <1>6, FS_Surjection
<1> QED
  BY <1>1, <1>3, <1>7

-----------------------------------------------------------------------------
(* What a step does to the order of the rows.                              *)

\* While rows are only added, or restated without the walk seeing it, what
\* comes before a row still does.
LEMMA OrderIsKept ==
  ASSUME TypeOK, TypeOK',
         ask'.sort = ask.sort, ask'.status = ask.status,
         \A i \in DOMAIN rows :
           /\ i \in DOMAIN rows' /\ rows'[i].start = rows[i].start
           /\ rows'[i].status = rows[i].status \/ (ask.sort # "status" /\ ask.status = "all")
  PROVE  /\ NoTies' => NoTies
         /\ Matching(ask.status) \subseteq Matching(ask.status)'
         /\ \A i \in Matching(ask.status) :
              /\ Preceding(i) \subseteq Preceding(i)'
              /\ Cardinality(Preceding(i)) \in Nat /\ Cardinality(Preceding(i)') \in Nat
              /\ Cardinality(Preceding(i)) <= Cardinality(Preceding(i)')
<1>1. ask.sort \in {"date_asc", "date_desc", "status"}
  BY DEF TypeOK, Query
<1>2. \A i, j \in DOMAIN rows : Before(i, j)' <=> Before(i, j)
  BY <1>1 DEF Before
<1>3. Matching(ask.status) \subseteq DOMAIN rows
  BY DEF Matching
<1>4. Matching(ask.status) \subseteq Matching(ask.status)'
  BY DEF Matching
<1>5. NoTies' => NoTies
  BY <1>2, <1>3, <1>4 DEF NoTies
<1>6. ASSUME NEW i \in Matching(ask.status)
      PROVE  /\ Preceding(i) \subseteq Preceding(i)'
             /\ Cardinality(Preceding(i)) \in Nat /\ Cardinality(Preceding(i)') \in Nat
             /\ Cardinality(Preceding(i)) <= Cardinality(Preceding(i)')
  <2>1. Preceding(i) \subseteq Preceding(i)'
    BY <1>2, <1>3, <1>4 DEF Preceding
  <2>2. IsFiniteSet(Matching(ask.status)')
    <3>1. DOMAIN rows' = 1 .. Len(rows') /\ Len(rows') \in Nat
      BY DEF TypeOK
    <3>2. Matching(ask.status)' \subseteq 1 .. Len(rows')
      BY <3>1 DEF Matching
    <3> QED
      BY <3>1, <3>2, Interval, FS_Subset
  <2>3. Preceding(i)' \subseteq Matching(ask.status)'
    BY DEF Preceding
  <2>4. IsFiniteSet(Preceding(i)')
    BY <2>2, <2>3, FS_Subset
  <2> QED
    BY <2>1, <2>4, FS_Subset, FS_CardinalityType
<1> QED
  BY <1>4, <1>5, <1>6

\* What another request writes, as the walk sees it.
LEMMA WriteKeepsOrder ==
  ASSUME TypeOK, TypeOK',
         (\E row \in Row : Create(row)) \/ (\E i \in DOMAIN rows : Restate(i)),
         pc # "new", walk'.stable
  PROVE  /\ walk.stable /\ walk'.due = walk.due /\ walk'.given = walk.given
         /\ ask' = ask /\ answer' = answer
         /\ \A i \in DOMAIN rows :
              /\ i \in DOMAIN rows' /\ rows'[i].start = rows[i].start
              /\ rows'[i].status = rows[i].status \/ (ask.sort # "status" /\ ask.status = "all")
<1> USE DEF TypeOK
<1>1. CASE \E row \in Row : Create(row)
  BY <1>1 DEF Create, Written
<1>2. ASSUME NEW i \in DOMAIN rows, Restate(i)
      PROVE  /\ walk.stable /\ walk'.due = walk.due /\ walk'.given = walk.given
             /\ ask' = ask /\ answer' = answer
             /\ \A j \in DOMAIN rows :
                  /\ j \in DOMAIN rows' /\ rows'[j].start = rows[j].start
                  /\ rows'[j].status = rows[j].status \/ (ask.sort # "status" /\ ask.status = "all")
  <2>1. PICK s \in Later(rows[i].status) : rows' = [rows EXCEPT ![i].status = s]
    BY <1>2 DEF Restate
  <2>2. rows[i] \in Row /\ DOMAIN rows' = DOMAIN rows
    BY <2>1
  <2>3. \A j \in DOMAIN rows : rows'[j].start = rows[j].start
    BY <2>1, <2>2 DEF Row
  <2>4. Written(TRUE)
    BY <1>2 DEF Restate
  <2> QED
    BY <2>2, <2>3, <2>4 DEF Written
<1> QED
  BY <1>1, <1>2

\* A write changes the number of matching rows by one at most.
LEMMA WriteCounts ==
  ASSUME TypeOK, TypeOK', ask' = ask,
         (\E row \in Row : Create(row)) \/ (\E i \in DOMAIN rows : Restate(i))
  PROVE  LET n == Cardinality(Matching(ask.status)) IN n \in Nat /\ n' \in n - 1 .. n + 1
<1> DEFINE M == Matching(ask.status)
<1>1. IsFiniteSet(M) /\ IsFiniteSet(M')
  <2>1. DOMAIN rows' = 1 .. Len(rows') /\ Len(rows') \in Nat
    BY DEF TypeOK
  <2>2. M' \subseteq 1 .. Len(rows')
    BY <2>1 DEF Matching
  <2> QED
    BY <2>1, <2>2, MatchingIsFinite, Interval, FS_Subset
<1>2. \E i : M' \subseteq M \cup {i} /\ M \subseteq M' \cup {i}
  <2>1. ASSUME NEW row \in Row, Create(row) PROVE M' \subseteq M \cup {Len(rows')} /\ M \subseteq M'
    <3>1. rows \in Seq(Row) /\ rows' = Append(rows, row)
      BY <2>1 DEF TypeOK, Create
    <3>2. /\ DOMAIN rows' = DOMAIN rows \cup {Len(rows')} /\ Len(rows') \notin DOMAIN rows
          /\ \A j \in DOMAIN rows : rows'[j] = rows[j]
      BY <3>1
    <3> QED
      BY <3>2 DEF Matching
  <2>2. ASSUME NEW i \in DOMAIN rows, Restate(i) PROVE M' \subseteq M \cup {i} /\ M \subseteq M' \cup {i}
    <3>1. DOMAIN rows' = DOMAIN rows /\ \A j \in DOMAIN rows \ {i} : rows'[j] = rows[j]
      BY <2>2 DEF TypeOK, Restate
    <3> QED
      BY <3>1 DEF Matching
  <2> QED
    BY <2>1, <2>2
<1> HIDE DEF M
<1>3. ASSUME NEW A, NEW B, NEW i, IsFiniteSet(A), IsFiniteSet(B), A \subseteq B \cup {i}
      PROVE  Cardinality(A) <= Cardinality(B) + 1
  <2>1. Cardinality(A) \in Nat /\ Cardinality(B) \in Nat
    BY <1>3, FS_CardinalityType
  <2>2. /\ IsFiniteSet(B \cup {i})
        /\ Cardinality(B \cup {i}) = IF i \in B THEN Cardinality(B) ELSE Cardinality(B) + 1
    BY <1>3, FS_AddElement
  <2>3. Cardinality(A) <= Cardinality(B \cup {i}) /\ Cardinality(B \cup {i}) \in Nat
    BY <1>3, <2>2, FS_Subset, FS_CardinalityType
  <2> QED
    BY <2>1, <2>2, <2>3
<1>4. /\ Cardinality(M) \in Nat /\ Cardinality(M') \in Nat
      /\ Cardinality(M') <= Cardinality(M) + 1 /\ Cardinality(M) <= Cardinality(M') + 1
  BY <1>1, <1>2, <1>3, FS_CardinalityType
<1>5. Cardinality(M') \in Cardinality(M) - 1 .. Cardinality(M) + 1
  <2>1. \A a, b \in Nat : a <= b + 1 /\ b <= a + 1 => a \in b - 1 .. b + 1
    OBVIOUS
  <2> QED
    BY <1>4, <2>1
<1> QED
  BY <1>4, <1>5 DEF M

-----------------------------------------------------------------------------
(* What SELECT gives.                                                      *)

LEMMA MinOfTwo ==
  ASSUME NEW a \in Int, NEW b \in Int
  PROVE  Min({a, b}) = IF a <= b THEN a ELSE b
<1> DEFINE m == IF a <= b THEN a ELSE b
<1>1. m \in {a, b} /\ \A y \in {a, b} : m <= y
  OBVIOUS
<1>2. \A x \in {a, b} : (\A y \in {a, b} : x <= y) => x = m
  OBVIOUS
<1> QED
  BY <1>1, <1>2 DEF Min

\* The answer is a stretch of an order: the rows after those skipped.
LEMMA SelectGives ==
  ASSUME TypeOK, Select
  PROVE  \E o \in Orders :
           /\ answer'.ids \in Seq(DOMAIN rows)
           /\ Len(answer'.ids) <= LimitInQuery(ask.limit)
           /\ Len(answer'.ids) = IF Len(o) <= Skipped THEN 0
                                 ELSE IF Len(o) <= Skipped + LimitInQuery(ask.limit)
                                 THEN Len(o) - Skipped ELSE LimitInQuery(ask.limit)
           /\ \A k \in 1 .. Len(answer'.ids) :
                answer'.ids[k] = o[Skipped + k] /\ Skipped + k \in 1 .. Len(o)
           /\ answer'.page = PageOf(ask.page)
           /\ answer'.limit = LimitInQuery(ask.limit)
           /\ answer'.hasNext = (PageOf(ask.page) < TotalPages)
           /\ answer' \in [ids : Seq(DOMAIN rows), page : Nat \ {0}, limit : Nat \ {0}, hasNext : BOOLEAN]
           /\ walk' = [walk EXCEPT !.given = @ \o answer'.ids]
<1> DEFINE l == LimitInQuery(ask.limit)
<1>1. l \in Nat \ {0} /\ LimitInMeta(ask.limit) = l /\ PageOf(ask.page) \in Nat \ {0}
  BY AskType
<1>2. Skipped \in Nat
  <2>1. Offset \in Int
    <3>1. (PageOf(ask.page) - 1) * l \in Int
      BY <1>1
    <3>2. \A n \in Int : Wrap(n) \in Int
      BY RowsAssumption DEF Wrap
    <3> QED
      BY <3>1, <3>2 DEF Offset
  <2> QED
    BY <2>1 DEF Skipped
<1> HIDE DEF l
<1>3. PICK o \in Orders :
        LET ids == SubSeq(o, Skipped + 1, Min({Skipped + l, Len(o)})) IN
        /\ answer' = [ids |-> ids, page |-> PageOf(ask.page), limit |-> LimitInMeta(ask.limit),
                      hasNext |-> PageOf(ask.page) < TotalPages]
        /\ walk' = [walk EXCEPT !.given = @ \o ids]
  BY DEF Select, l
<1> DEFINE m == Min({Skipped + l, Len(o)})
<1>4. /\ Len(o) \in Nat
      /\ \A i \in 1 .. Len(o) : o[i] \in DOMAIN rows
  BY OrderIsComplete, ElementOfSeq
<1>5. m = IF Skipped + l <= Len(o) THEN Skipped + l ELSE Len(o)
  BY <1>1, <1>2, <1>4, MinOfTwo
<1> HIDE DEF m
<1>6. m \in Int /\ \A i \in Skipped + 1 .. m : o[i] \in DOMAIN rows /\ i \in 1 .. Len(o)
  BY <1>1, <1>2, <1>4, <1>5
<1>7. /\ answer'.ids \in Seq(DOMAIN rows)
      /\ Len(answer'.ids) = IF Skipped + 1 <= m THEN m - (Skipped + 1) + 1 ELSE 0
      /\ \A k \in 1 .. m - (Skipped + 1) + 1 : answer'.ids[k] = o[Skipped + 1 + k - 1]
  <2>1. answer'.ids = SubSeq(o, Skipped + 1, m)
    BY <1>3 DEF m
  <2> QED
    BY <1>2, <1>6, <2>1, SubSeqProperties
<1>8. Len(answer'.ids) = IF Len(o) <= Skipped THEN 0
                         ELSE IF Len(o) <= Skipped + l THEN Len(o) - Skipped ELSE l
  BY <1>1, <1>2, <1>4, <1>5, <1>7
<1>9. \A k \in 1 .. Len(answer'.ids) :
        answer'.ids[k] = o[Skipped + k] /\ Skipped + k \in 1 .. Len(o)
  <2> TAKE k \in 1 .. Len(answer'.ids)
  <2>1. k \in 1 .. m - (Skipped + 1) + 1
    BY <1>2, <1>6, <1>7
  <2>2. Skipped + 1 + k - 1 = Skipped + k
    BY <1>2, <2>1
  <2>3. answer'.ids[k] = o[Skipped + k]
    BY <1>7, <2>1, <2>2
  <2>4. Skipped + k \in Skipped + 1 .. m
    BY <1>2, <1>6, <2>1
  <2> QED
    BY <1>6, <2>3, <2>4
<1>10. (PageOf(ask.page) < TotalPages) \in BOOLEAN
  OBVIOUS
<1>11. /\ answer'.page = PageOf(ask.page) /\ answer'.limit = l
       /\ answer'.hasNext = (PageOf(ask.page) < TotalPages)
       /\ answer' \in [ids : Seq(DOMAIN rows), page : Nat \ {0}, limit : Nat \ {0}, hasNext : BOOLEAN]
       /\ walk' = [walk EXCEPT !.given = @ \o answer'.ids]
  BY <1>1, <1>3, <1>7, <1>10
<1>12. Len(answer'.ids) <= l
  BY <1>1, <1>2, <1>4, <1>8
<1> QED
  BY <1>7, <1>8, <1>9, <1>11, <1>12 DEF l

-----------------------------------------------------------------------------
(* WalkInv is inductive.                                                   *)

LEMMA InitHolds == Init => WalkInv
<1> SUFFICES ASSUME Init PROVE WalkInv
  OBVIOUS
<1> USE DEF Init, NoAnswer
<1>1. ask \in Query(Int)
  <2>1. \E query \in Query(Pages) : TRUE
    <3>1. PICK p \in Pages, l \in Limits, f \in Filters : TRUE
      BY QueryAssumption
    <3>2. [page |-> p, limit |-> l, sort |-> "status", status |-> f] \in Query(Pages)
      BY DEF Query
    <3> QED
      BY <3>2
  <2>2. ask \in Query(Pages)
    BY <2>1
  <2> QED
    BY <2>2, QueryAssumption DEF Query
<1>2. TypeOK
  <2>1. rows \in Seq(Row) /\ Len(rows) <= MaxRows /\ total \in 0 .. MaxRows
    BY RowsAssumption
  <2>2. <<>> \in Seq(DOMAIN rows) /\ Len(<<>>) = 0
    OBVIOUS
  <2>3. answer \in [ids : Seq(DOMAIN rows), page : Nat \ {0}, limit : Nat \ {0}, hasNext : BOOLEAN]
    BY <2>2
  <2>4. walk \in [due : SUBSET DOMAIN rows, given : Seq(DOMAIN rows), quiet : BOOLEAN, stable : BOOLEAN]
    BY <2>2
  <2>5. Len(answer.ids) <= answer.limit
    <3>1. answer.ids = <<>> /\ answer.limit = 1
      OBVIOUS
    <3> QED
      BY <3>1, <2>2
  <2>6. pc \in {"new", "count", "select", "failed", "rest"} /\ late \in Nat
    OBVIOUS
  <2> HIDE DEF Init, NoAnswer
  <2> QED
    BY <1>1, <2>1, <2>3, <2>4, <2>5, <2>6 DEF TypeOK
<1>3. PageInv
  BY DEF PageInv, InRequest
<1>4. DueInv /\ GivenInv
  BY DEF DueInv, GivenInv
<1> QED
  BY <1>2, <1>3, <1>4 DEF WalkInv

\* Types, action by action.
LEMMA TypeStep == ASSUME TypeOK, [Next]_vars PROVE TypeOK'
<1> USE DEF TypeOK
<1>1. CASE UNCHANGED vars
  BY <1>1 DEF vars
<1>2. ASSUME NEW row \in Row, Create(row) PROVE TypeOK'
  <2>1. rows' \in Seq(Row) /\ Len(rows') <= MaxRows /\ DOMAIN rows \subseteq DOMAIN rows'
    BY <1>2, RowsAssumption DEF Create
  <2>2. answer.ids \in Seq(DOMAIN rows') /\ walk.given \in Seq(DOMAIN rows')
    BY <2>1, SeqMonotonic
  <2>3. late' \in Nat
    BY <1>2 DEF Create, Written
  <2> QED
    BY <1>2, <2>1, <2>2, <2>3 DEF Create, Written
<1>3. ASSUME NEW i \in DOMAIN rows, Restate(i) PROVE TypeOK'
  <2>1. PICK s \in Later(rows[i].status) : rows' = [rows EXCEPT ![i].status = s]
    BY <1>3 DEF Restate
  <2>2. rows[i] \in Row
    OBVIOUS
  <2>3. s \in Statuses
    BY <2>2 DEF Row, Later, Statuses
  <2>4. [rows[i] EXCEPT !.status = s] \in Row
    BY <2>2, <2>3 DEF Row
  <2>5. rows' \in Seq(Row) /\ Len(rows') = Len(rows) /\ DOMAIN rows' = DOMAIN rows
    BY <2>1, <2>4
  <2>6. Written(TRUE)
    BY <1>3 DEF Restate
  <2>7. late' \in Nat
    BY <2>6 DEF Written
  <2> QED
    BY <2>5, <2>6, <2>7 DEF Written
<1>4. ASSUME NEW query \in Query(Pages), Ask(query) PROVE TypeOK'
  <2>1. query \in Query(Int)
    BY QueryAssumption DEF Query
  <2>2. Matching(query.status) \subseteq DOMAIN rows
    BY DEF Matching
  <2> QED
    BY <1>4, <2>1, <2>2 DEF Ask
<1>5. CASE NextPage
  <2>1. ask' \in Query(Int)
    <3>1. answer.page + 1 \in Int /\ ask \in Query(Int)
      OBVIOUS
    <3>2. ask' = [ask EXCEPT !.page = answer.page + 1]
      BY <1>5 DEF NextPage
    <3> QED
      BY <3>1, <3>2 DEF Query
  <2> QED
    BY <1>5, <2>1 DEF NextPage
<1>6. CASE Count
  <2>1. total' \in 0 .. MaxRows
    BY <1>6, MatchingIsFinite, RowsAssumption DEF Count
  <2> QED
    BY <1>6, <2>1 DEF Count
<1>7. CASE Select
  <2>1. /\ answer' \in [ids : Seq(DOMAIN rows), page : Nat \ {0}, limit : Nat \ {0}, hasNext : BOOLEAN]
        /\ Len(answer'.ids) <= answer'.limit
        /\ walk' = [walk EXCEPT !.given = @ \o answer'.ids]
    BY <1>7, SelectGives
  <2>2. walk.given \o answer'.ids \in Seq(DOMAIN rows)
    BY <2>1, ConcatProperties
  <2>3. walk' \in [due : SUBSET DOMAIN rows, given : Seq(DOMAIN rows), quiet : BOOLEAN, stable : BOOLEAN]
    BY <2>1, <2>2
  <2> QED
    BY <1>7, <2>1, <2>3 DEF Select
<1>8. CASE Fail \/ Retry
  BY <1>8 DEF Fail, Retry
<1> QED
  BY <1>1, <1>2, <1>3, <1>4, <1>5, <1>6, <1>7, <1>8 DEF Next

LEMMA PageStep == ASSUME WalkInv, [Next]_vars PROVE PageInv'
<1> USE DEF WalkInv
<1>t. TypeOK /\ TypeOK' /\ PageInv
  BY TypeStep
<1> USE DEF PageInv, InRequest, Passed
<1>1. CASE UNCHANGED vars
  BY <1>t, <1>1 DEF vars, Matching
<1>2. CASE (\E row \in Row : Create(row)) \/ (\E i \in DOMAIN rows : Restate(i))
  <2>1. Written(TRUE) \/ Written(FALSE)
    BY <1>2 DEF Create, Restate
  <2>2. pc' = "select" => late' = late + 1 /\ late \in Nat
    BY <1>t, <2>1 DEF Written, TypeOK
  <2>3. UNCHANGED <<pc, ask, total, answer>> /\ walk'.due = walk.due /\ walk'.given = walk.given
    BY <1>t, <2>1 DEF Written, TypeOK
  <2> DEFINE n == Cardinality(Matching(ask.status))
  <2>4. n \in Nat /\ n' \in n - 1 .. n + 1
    BY <1>t, <1>2, <2>3, WriteCounts
  <2>5. total \in Nat
    BY <1>t, RowsAssumption DEF TypeOK
  <2>6. pc = "select" => n \in total - late .. total + late
    BY <1>t
  <2> HIDE DEF n
  <2>7. pc' = "select" => n' \in total' - late' .. total' + late'
    BY <2>2, <2>3, <2>4, <2>5, <2>6
  <2> QED
    BY <1>t, <2>3, <2>7 DEF n
<1>3. ASSUME NEW query \in Query(Pages), Ask(query) PROVE PageInv'
  BY <1>t, <1>3 DEF Ask, NoAnswer
<1>4. CASE NextPage
  BY <1>t, <1>4 DEF NextPage, TypeOK, Query
<1>5. CASE Count
  <2>1. Matching(ask.status)' = Matching(ask.status) /\ total' = Cardinality(Matching(ask.status))
    BY <1>5 DEF Count, Matching
  <2>2. total' \in Nat /\ late' \in Nat
    BY <1>t, RowsAssumption DEF TypeOK
  <2>3. total' \in total' - late' .. total' + late'
    BY <2>2
  <2> QED
    BY <1>t, <1>5, <2>1, <2>3 DEF Count
<1>6. CASE Select
  <2>1. PageOf(ask.page) \in Nat \ {0} /\ LimitInQuery(ask.limit) \in Nat \ {0}
    BY <1>t, AskType
  <2>2. answer'.page = PageOf(ask.page) /\ answer'.hasNext = (PageOf(ask.page) < TotalPages)
    BY <1>t, <1>6, SelectGives
  <2>3. answer'.hasNext => PageOf(ask.page) * LimitInQuery(ask.limit) < total
    BY <1>t, <2>2, HasNextFits
  <2>4. total \in 0 .. MaxRows
    BY <1>t DEF TypeOK
  <2>5. answer'.hasNext => Passed' < MaxRows
    BY <1>6, <2>1, <2>2, <2>3, <2>4, RowsAssumption DEF Select
  <2> QED
    BY <1>6, <2>5 DEF Select
<1>7. CASE Fail \/ Retry
  BY <1>t, <1>7 DEF Fail, Retry, Matching
<1> QED
  BY <1>1, <1>2, <1>3, <1>4, <1>5, <1>6, <1>7 DEF Next

\* What is read only: every step but a write and the requests' own.
LEMMA SameWalk ==
  ASSUME rows' = rows, ask'.sort = ask.sort, ask'.status = ask.status, ask'.limit = ask.limit,
         answer' = answer, walk'.due = walk.due, walk'.given = walk.given,
         walk'.quiet = walk.quiet, walk'.stable = walk.stable
  PROVE  (DueInv => DueInv') /\ (GivenInv => GivenInv')
<1>1. \A i, j : Before(i, j)' <=> Before(i, j)
  BY DEF Before
<1>2. Matching(ask.status)' = Matching(ask.status)
  BY DEF Matching
<1>3. NoTies' <=> NoTies
  BY <1>1, <1>2 DEF NoTies
<1>4. \A i : Preceding(i)' = Preceding(i)
  BY <1>1, <1>2 DEF Preceding
<1>5. Passed' = Passed
  BY DEF Passed
<1>6. DueInv => DueInv'
  BY <1>2, <1>3, <1>4, <1>5 DEF DueInv
<1>7. GivenInv => GivenInv'
  BY <1>1, <1>2, <1>3, <1>4, <1>5 DEF GivenInv
<1> QED
  BY <1>6, <1>7

\* The numbers of a request: it skips what the walk has gone past.
LEMMA RequestNumbers ==
  ASSUME WalkInv, Select
  PROVE  /\ PageOf(ask.page) \in Nat \ {0} /\ LimitInQuery(ask.limit) \in Nat \ {0}
         /\ Skipped \in Nat /\ Passed \in Nat
         /\ answer.hasNext \/ walk.due # {} =>
              /\ Skipped = Passed
              /\ Skipped + LimitInQuery(ask.limit) = PageOf(ask.page) * LimitInQuery(ask.limit)
         /\ PageOf(ask.page) < TotalPages =>
              Skipped + LimitInQuery(ask.limit) = PageOf(ask.page) * LimitInQuery(ask.limit)
<1> DEFINE l == LimitInQuery(ask.limit)
           p == PageOf(ask.page)
<1>1. p \in Nat \ {0} /\ l \in Nat \ {0} /\ total \in 0 .. MaxRows
  BY AskType DEF WalkInv, TypeOK
<1>2. TypeOK /\ PageInv /\ pc = "select" /\ answer.page \in Nat \ {0}
  BY DEF WalkInv, TypeOK, Select
<1>3. Skipped \in Nat
  <2>1. (p - 1) * l \in Int
    BY <1>1
  <2>2. \A n \in Int : Wrap(n) \in Int
    BY RowsAssumption DEF Wrap
  <2>3. Offset \in Int
    BY <2>1, <2>2 DEF Offset
  <2> QED
    BY <2>3 DEF Skipped
<1>4. (p - 1) * l + l = p * l
  BY <1>1
<1>5. (p - 1) * l <= IntMax => Skipped = (p - 1) * l
  BY <1>2, SkippedInRange
<1>6. CASE answer.hasNext
  <2>1. ask.page = answer.page + 1 /\ Passed = answer.page * l /\ Passed < MaxRows
    BY <1>2, <1>6 DEF PageInv, InRequest, Passed
  <2>2. p = answer.page + 1
    BY <1>2, <2>1 DEF PageOf
  <2> HIDE DEF p, l
  <2>3. p - 1 = answer.page /\ (p - 1) * l = Passed /\ Passed \in Nat
    BY <1>1, <1>2, <2>1, <2>2
  <2>4. Skipped = Passed
    BY <1>5, <2>1, <2>3, RowsAssumption
  <2> QED
    BY <1>1, <1>3, <1>4, <2>3, <2>4 DEF p, l
<1>7. CASE ~answer.hasNext
  <2>1. Passed = 0
    BY <1>7 DEF Passed
  <2>2. walk.due # {} => p = 1
    BY <1>2, <1>7 DEF PageInv, InRequest
  <2>3. p < TotalPages => p * l < total
    BY <1>2, HasNextFits
  <2> HIDE DEF p, l
  <2>4. p = 1 => (p - 1) * l = 0 /\ 0 <= IntMax
    BY <1>1, RowsAssumption
  <2>5. p * l < total => (p - 1) * l <= IntMax
    <3>1. p * l \in Int /\ (p - 1) * l \in Int
      BY <1>1
    <3> QED
      BY <1>1, <1>4, <3>1, RowsAssumption
  <2>6. walk.due # {} => Skipped = Passed /\ Skipped + l = p * l
    BY <1>4, <1>5, <2>1, <2>2, <2>4
  <2>7. p < TotalPages => Skipped + l = p * l
    BY <1>4, <1>5, <2>3, <2>5
  <2> QED
    BY <1>1, <1>3, <1>7, <2>1, <2>6, <2>7 DEF p, l
<1> QED
  BY <1>6, <1>7

\* SELECT changes no row.
LEMMA SelectKeepsRows ==
  ASSUME Select
  PROVE  /\ rows' = rows /\ ask' = ask
         /\ Matching(ask.status)' = Matching(ask.status)
         /\ \A i : Preceding(i)' = Preceding(i)
         /\ \A i, j : Before(i, j)' <=> Before(i, j)
         /\ NoTies' <=> NoTies
<1>1. rows' = rows /\ ask' = ask
  BY DEF Select
<1>2. \A i, j : Before(i, j)' <=> Before(i, j)
  BY <1>1 DEF Before
<1>3. Matching(ask.status)' = Matching(ask.status)
  BY <1>1 DEF Matching
<1>4. \A i : Preceding(i)' = Preceding(i)
  BY <1>2, <1>3 DEF Preceding
<1>5. NoTies' <=> NoTies
  BY <1>2, <1>3 DEF NoTies
<1> QED
  BY <1>1, <1>2, <1>3, <1>4, <1>5

\* What is given after an answer.
LEMMA GivenGrows ==
  ASSUME WalkInv, Select
  PROVE  /\ Len(walk.given) \in Nat /\ Len(answer'.ids) \in Nat
         /\ DOMAIN walk'.given = 1 .. Len(walk.given) + Len(answer'.ids)
         /\ \A i \in 1 .. Len(walk.given) : walk'.given[i] = walk.given[i]
         /\ \A k \in 1 .. Len(answer'.ids) : walk'.given[Len(walk.given) + k] = answer'.ids[k]
         /\ \A i \in 1 .. Len(walk.given) + Len(answer'.ids) :
              i > Len(walk.given) =>
                \E k \in 1 .. Len(answer'.ids) : i = Len(walk.given) + k
<1>1. answer'.ids \in Seq(DOMAIN rows) /\ walk.given \in Seq(DOMAIN rows)
  BY SelectGives DEF WalkInv, TypeOK
<1>2. walk'.given = walk.given \o answer'.ids
  <2>1. walk \in [due : SUBSET DOMAIN rows, given : Seq(DOMAIN rows), quiet : BOOLEAN, stable : BOOLEAN]
    BY DEF WalkInv, TypeOK
  <2>2. walk' = [walk EXCEPT !.given = @ \o answer'.ids]
    BY SelectGives DEF WalkInv
  <2> QED
    BY <2>1, <2>2
<1> DEFINE a == walk.given
           b == answer'.ids
<1>3. /\ a \o b \in Seq(DOMAIN rows) /\ Len(a \o b) = Len(a) + Len(b)
      /\ Len(a) \in Nat /\ Len(b) \in Nat
      /\ \A i \in 1 .. Len(a) + Len(b) : (a \o b)[i] = IF i <= Len(a) THEN a[i] ELSE b[i - Len(a)]
  BY <1>1, ConcatProperties, LenProperties
<1>4. DOMAIN (a \o b) = 1 .. Len(a) + Len(b)
  BY <1>3, LenProperties
<1>5. walk'.given = a \o b
  BY <1>2
<1> HIDE DEF a, b
<1>6. \A i \in 1 .. Len(a) : walk'.given[i] = a[i]
  BY <1>3, <1>5
<1>7. \A k \in 1 .. Len(b) : walk'.given[Len(a) + k] = b[k]
  <2> TAKE k \in 1 .. Len(b)
  <2>1. Len(a) + k \in 1 .. Len(a) + Len(b) /\ ~(Len(a) + k <= Len(a)) /\ Len(a) + k - Len(a) = k
    BY <1>3
  <2> QED
    BY <1>3, <1>5, <2>1
<1>8. \A i \in 1 .. Len(a) + Len(b) : i > Len(a) => \E k \in 1 .. Len(b) : i = Len(a) + k
  <2> TAKE i \in 1 .. Len(a) + Len(b)
  <2> HAVE i > Len(a)
  <2>1. i - Len(a) \in 1 .. Len(b) /\ i = Len(a) + (i - Len(a))
    BY <1>3
  <2> QED
    BY <2>1
<1> QED
  BY <1>3, <1>4, <1>5, <1>6, <1>7, <1>8 DEF a, b

\* A match that an answer leaves due is not on this page but behind it: SELECT
\* goes on where the walk has come to.
LEMMA DueAfterSelect ==
  ASSUME WalkInv, Select, walk.stable, NoTies,
         NEW d \in walk.due, d \notin ToSet(walk'.given)
  PROVE  /\ d \in Matching(ask.status)
         /\ Cardinality(Preceding(d)) < Cardinality(Matching(ask.status))
         /\ Cardinality(Preceding(d)) >= PageOf(ask.page) * LimitInQuery(ask.limit)
<1> DEFINE l == LimitInQuery(ask.limit)
<1>1. TypeOK
  BY DEF WalkInv
<1>2. PICK o \in Orders :
        /\ Len(answer'.ids) = IF Len(o) <= Skipped THEN 0
                              ELSE IF Len(o) <= Skipped + l THEN Len(o) - Skipped ELSE l
        /\ \A k \in 1 .. Len(answer'.ids) : answer'.ids[k] = o[Skipped + k]
  BY <1>1, SelectGives
<1>3. d \notin ToSet(walk.given)
  <2> SUFFICES ASSUME d \in ToSet(walk.given) PROVE FALSE
    OBVIOUS
  <2>1. walk.given \in Seq(DOMAIN rows)
    BY <1>1 DEF TypeOK
  <2>2. PICK i \in 1 .. Len(walk.given) : walk.given[i] = d
    BY <2>1, LenProperties DEF ToSet
  <2>3. /\ Len(walk.given) \in Nat /\ Len(answer'.ids) \in Nat
        /\ DOMAIN walk'.given = 1 .. Len(walk.given) + Len(answer'.ids)
        /\ walk'.given[i] = walk.given[i]
    BY GivenGrows
  <2>4. i \in 1 .. Len(walk.given) + Len(answer'.ids)
    <3>1. \A a, b \in Nat : \A c \in 1 .. a : c \in 1 .. a + b
      OBVIOUS
    <3> QED
      BY <2>2, <2>3, <3>1
  <2> QED
    BY <2>2, <2>3, <2>4 DEF ToSet
<1>4. d \in Matching(ask.status) /\ Cardinality(Preceding(d)) >= Passed
  BY <1>3 DEF WalkInv, DueInv
<1>5. PICK i \in 1 .. Len(o) : o[i] = d
  BY <1>1, <1>4, OrderIsComplete
<1>6. Cardinality(Preceding(d)) = i - 1 /\ Len(o) = Cardinality(Matching(ask.status)) /\ Len(o) \in Nat
  BY <1>1, <1>5, PlaceInOrder, OrderIsComplete
<1>7. /\ Skipped = Passed /\ Skipped \in Nat /\ l \in Nat \ {0}
      /\ Skipped + l = PageOf(ask.page) * l
  BY RequestNumbers
<1> HIDE DEF l
<1>8. i > Skipped
  BY <1>4, <1>6, <1>7
<1>9. ~(i <= Skipped + l)
  <2> SUFFICES ASSUME i <= Skipped + l PROVE FALSE
    OBVIOUS
  <2> DEFINE k == i - Skipped
  <2>1. k \in 1 .. Len(answer'.ids) /\ Skipped + k = i
    BY <1>2, <1>6, <1>7, <1>8
  <2>2. answer'.ids[k] = d
    BY <1>2, <1>5, <2>1
  <2> HIDE DEF k
  <2>3. walk'.given[Len(walk.given) + k] = d
    BY <2>1, <2>2, GivenGrows
  <2>4. /\ Len(walk.given) \in Nat /\ Len(answer'.ids) \in Nat
        /\ DOMAIN walk'.given = 1 .. Len(walk.given) + Len(answer'.ids)
    BY GivenGrows
  <2>5. Len(walk.given) + k \in 1 .. Len(walk.given) + Len(answer'.ids)
    <3>1. \A a, b \in Nat : \A c \in 1 .. b : a + c \in 1 .. a + b
      OBVIOUS
    <3> QED
      BY <2>1, <2>4, <3>1
  <2> QED
    BY <2>3, <2>4, <2>5 DEF ToSet
<1> QED
  BY <1>4, <1>6, <1>7, <1>9 DEF l

LEMMA DueStep == ASSUME WalkInv, [Next]_vars PROVE DueInv'
<1>t. TypeOK /\ TypeOK' /\ PageInv /\ DueInv /\ PageInv'
  BY TypeStep, PageStep DEF WalkInv
<1>1. CASE UNCHANGED vars
  BY <1>t, <1>1, SameWalk DEF vars
<1>2. CASE (\E row \in Row : Create(row)) \/ (\E i \in DOMAIN rows : Restate(i))
  <2>1. CASE pc = "new"
    <3>1. pc' = "new"
      BY <1>2, <2>1 DEF Create, Restate, Written
    <3> QED
      BY <1>t, <3>1 DEF PageInv, DueInv
  <2>2. CASE pc # "new"
    <3> SUFFICES ASSUME walk'.stable, NoTies', NEW d \in walk'.due \ ToSet(walk'.given)
                 PROVE  d \in Matching(ask.status)' /\ Cardinality(Preceding(d)') >= Passed'
      BY DEF DueInv
    <3>1. /\ walk.stable /\ walk'.due = walk.due /\ walk'.given = walk.given
          /\ ask' = ask /\ answer' = answer
          /\ \A i \in DOMAIN rows :
               /\ i \in DOMAIN rows' /\ rows'[i].start = rows[i].start
               /\ rows'[i].status = rows[i].status \/ (ask.sort # "status" /\ ask.status = "all")
      BY <1>t, <1>2, <2>2, WriteKeepsOrder
    <3>2. NoTies
      BY <1>t, <3>1, OrderIsKept
    <3>3. d \in Matching(ask.status) /\ Cardinality(Preceding(d)) >= Passed
      BY <1>t, <3>1, <3>2 DEF DueInv
    <3>4. /\ Cardinality(Preceding(d)) \in Nat /\ Cardinality(Preceding(d)') \in Nat
          /\ Cardinality(Preceding(d)) <= Cardinality(Preceding(d)')
      BY <1>t, <3>1, <3>3, OrderIsKept
    <3>5. Passed' = Passed
      BY <3>1 DEF Passed
    <3>6. Passed \in Int
      <4>1. LimitInQuery(ask.limit) \in Nat /\ answer.page \in Nat
        BY <1>t, AskType DEF TypeOK
      <4> QED
        BY <4>1 DEF Passed
    <3>7. d \in Matching(ask.status)'
      BY <1>t, <3>1, <3>3, OrderIsKept
    <3> QED
      BY <3>3, <3>4, <3>5, <3>6, <3>7
  <2> QED
    BY <2>1, <2>2
<1>3. ASSUME NEW query \in Query(Pages), Ask(query) PROVE DueInv'
  <2> SUFFICES ASSUME NEW d \in walk'.due
               PROVE  d \in Matching(ask.status)' /\ Cardinality(Preceding(d)') >= Passed'
    BY DEF DueInv
  <2>1. rows' = rows /\ ask' = query /\ answer' = answer /\ d \in Matching(query.status)
    BY <1>3 DEF Ask
  <2>2. d \in Matching(ask.status)'
    BY <2>1 DEF Matching
  <2>3. Passed' = 0
    BY <1>t, <1>3 DEF Ask, PageInv, NoAnswer, Passed
  <2>4. IsFiniteSet(Preceding(d)')
    <3>1. DOMAIN rows' = 1 .. Len(rows') /\ Len(rows') \in Nat
      BY <1>t DEF TypeOK
    <3>2. Preceding(d)' \subseteq 1 .. Len(rows')
      BY <3>1 DEF Preceding, Matching
    <3> QED
      BY <3>1, <3>2, Interval, FS_Subset
  <2> QED
    BY <2>2, <2>3, <2>4, FS_CardinalityType
<1>4. CASE NextPage \/ Count \/ Fail \/ Retry
  <2>1. rows' = rows /\ answer' = answer /\ walk' = walk
    BY <1>4 DEF NextPage, Count, Fail, Retry
  <2>2. ask'.sort = ask.sort /\ ask'.status = ask.status /\ ask'.limit = ask.limit
    BY <1>t, <1>4 DEF NextPage, Count, Fail, Retry, TypeOK, Query
  <2> QED
    BY <1>t, <2>1, <2>2, SameWalk
<1>5. CASE Select
  <2> SUFFICES ASSUME walk'.stable, NoTies', NEW d \in walk'.due \ ToSet(walk'.given)
               PROVE  d \in Matching(ask.status)' /\ Cardinality(Preceding(d)') >= Passed'
    BY DEF DueInv
  <2>1. walk' = [walk EXCEPT !.given = @ \o answer'.ids]
    BY <1>t, <1>5, SelectGives
  <2>2. walk.stable /\ walk'.due = walk.due
    BY <1>t, <2>1 DEF TypeOK
  <2>3. /\ d \in Matching(ask.status)
        /\ Cardinality(Preceding(d)) < Cardinality(Matching(ask.status))
        /\ Cardinality(Preceding(d)) >= PageOf(ask.page) * LimitInQuery(ask.limit)
    BY <1>5, <2>2, SelectKeepsRows, DueAfterSelect
  <2>4. Preceding(d)' = Preceding(d) /\ Matching(ask.status)' = Matching(ask.status) /\ ask' = ask
    BY <1>5, SelectKeepsRows
  <2>5. answer'.page = PageOf(ask.page)
    BY <1>t, <1>5, SelectGives
  <2>6. PageOf(ask.page) * LimitInQuery(ask.limit) \in Nat
    <3>1. PageOf(ask.page) \in Nat /\ LimitInQuery(ask.limit) \in Nat
      BY <1>t, AskType
    <3> QED
      BY <3>1
  <2>7. Passed' \in {0, PageOf(ask.page) * LimitInQuery(ask.limit)}
    BY <2>4, <2>5 DEF Passed
  <2>8. Cardinality(Preceding(d)) \in Nat
    <3>1. IsFiniteSet(Matching(ask.status)) /\ Preceding(d) \subseteq Matching(ask.status)
      BY <1>t, MatchingIsFinite DEF Preceding
    <3> QED
      BY <3>1, FS_Subset, FS_CardinalityType
  <2> QED
    BY <2>3, <2>4, <2>6, <2>7, <2>8
<1> QED
  BY <1>1, <1>2, <1>3, <1>4, <1>5 DEF Next

\* The matches given after an answer follow each other in the order asked for,
\* while no row is written.
LEMMA GivenAfterSelect ==
  ASSUME WalkInv, Select, walk.quiet, NoTies
  PROVE  /\ \A i, j \in DOMAIN walk'.given : i < j => Before(walk'.given[i], walk'.given[j])
         /\ answer'.hasNext => \A i \in DOMAIN walk'.given :
              /\ walk'.given[i] \in Matching(ask.status)
              /\ Cardinality(Preceding(walk'.given[i])) < PageOf(ask.page) * LimitInQuery(ask.limit)
<1> DEFINE l == LimitInQuery(ask.limit)
           n == Len(walk.given)
           m == Len(answer'.ids)
           end == PageOf(ask.page) * LimitInQuery(ask.limit)
<1>1. TypeOK /\ PageInv /\ GivenInv
  BY DEF WalkInv
<1>2. PICK o \in Orders :
        /\ m <= l
        /\ \A k \in 1 .. m : answer'.ids[k] = o[Skipped + k] /\ Skipped + k \in 1 .. Len(o)
        /\ answer'.hasNext = (PageOf(ask.page) < TotalPages)
  BY <1>1, SelectGives
<1>3. /\ n \in Nat /\ m \in Nat
      /\ DOMAIN walk'.given = 1 .. n + m
      /\ \A i \in 1 .. n : walk'.given[i] = walk.given[i]
      /\ \A k \in 1 .. m : walk'.given[n + k] = answer'.ids[k]
      /\ \A i \in 1 .. n + m : i > n => \E k \in 1 .. m : i = n + k
  BY GivenGrows
<1>4. /\ l \in Nat \ {0} /\ Skipped \in Nat /\ Passed \in Nat /\ end \in Nat
      /\ answer.hasNext => Skipped = Passed /\ Skipped + l = end
      /\ answer'.hasNext => Skipped + l = end
  <2>1. PageOf(ask.page) \in Nat \ {0} /\ l \in Nat \ {0}
    BY RequestNumbers
  <2>2. end \in Nat
    BY <2>1
  <2> HIDE DEF l, end
  <2>3. Skipped \in Nat /\ Passed \in Nat
    BY RequestNumbers
  <2>4. answer.hasNext => Skipped = Passed /\ Skipped + l = end
    BY RequestNumbers DEF l, end
  <2>5. answer'.hasNext => Skipped + l = end
    BY <1>2, RequestNumbers DEF l, end
  <2> QED
    BY <2>1, <2>2, <2>3, <2>4, <2>5
<1>a. /\ \A i \in Matching(ask.status), j \in Matching(ask.status) :
           i = j \/ Before(i, j) \/ Before(j, i)
      /\ \A i \in 1 .. Len(o) : /\ o[i] \in Matching(ask.status)
                               /\ Cardinality(Preceding(o[i])) = i - 1
                               /\ \A j \in 1 .. Len(o) : i < j => Before(o[i], o[j])
      /\ \A d \in Matching(ask.status) : \E i \in 1 .. Len(o) : o[i] = d
  BY <1>1, PlaceInOrder, OrderIsComplete DEF NoTies
\* Rows of this page.
<1>5. ASSUME NEW k \in 1 .. m
      PROVE  /\ walk'.given[n + k] = o[Skipped + k] /\ Skipped + k \in 1 .. Len(o)
             /\ walk'.given[n + k] \in Matching(ask.status)
             /\ Cardinality(Preceding(walk'.given[n + k])) = Skipped + k - 1
  <2>1. walk'.given[n + k] = o[Skipped + k] /\ Skipped + k \in 1 .. Len(o)
    BY <1>2, <1>3
  <2> HIDE DEF n, m
  <2> DEFINE rank(d) == Cardinality(Preceding(d))
  <2>2. \A i \in 1 .. Len(o) : o[i] \in Matching(ask.status) /\ rank(o[i]) = i - 1
    BY <1>a
  <2> HIDE DEF rank
  <2> DEFINE i == Skipped + k
             d == walk'.given[n + k]
  <2>3. i \in 1 .. Len(o) /\ d = o[i]
    BY <2>1
  <2> HIDE DEF i, d
  <2>4. d \in Matching(ask.status) /\ rank(d) = i - 1
    BY <2>2, <2>3
  <2>5. walk'.given[n + k] \in Matching(ask.status)
    BY <2>4 DEF d
  <2>6. Cardinality(Preceding(walk'.given[n + k])) = Skipped + k - 1
    BY <1>3, <1>4, <2>4 DEF rank, i, d
  <2> HIDE DEF n, m
  <2> QED
    BY <2>1, <2>5, <2>6
\* Rows of the pages before.
<1>6. /\ \A i, j \in 1 .. n : i < j => Before(walk.given[i], walk.given[j])
      /\ n > 0 => answer.hasNext
      /\ n > 0 => \A i \in 1 .. n : /\ walk.given[i] \in Matching(ask.status)
                                   /\ Cardinality(Preceding(walk.given[i])) < Passed
  <2>1. DOMAIN walk.given = 1 .. n
    BY <1>1, LenProperties DEF TypeOK
  <2>2. walk.given = <<>> => n = 0
    BY <1>1 DEF TypeOK
  <2>3. pc = "select"
    BY DEF Select
  <2>4. n > 0 => answer.hasNext
    BY <1>1, <2>2, <2>3 DEF PageInv, InRequest
  <2> QED
    BY <1>1, <2>1, <2>4 DEF GivenInv
<1> HIDE DEF l, n, m, end
<1>8. ASSUME NEW i \in 1 .. n, NEW k \in 1 .. m
      PROVE  Before(walk'.given[i], walk'.given[n + k])
  <2>1. /\ walk.given[i] \in Matching(ask.status) /\ Skipped = Passed
        /\ Cardinality(Preceding(walk.given[i])) < Passed
    BY <1>3, <1>4, <1>6
  <2>2. PICK p \in 1 .. Len(o) : o[p] = walk.given[i]
    BY <1>a, <2>1
  <2>3. p - 1 < Skipped
    BY <1>a, <2>1, <2>2
  <2>4. p < Skipped + k
    BY <1>4, <2>3
  <2> QED
    BY <1>3, <1>5, <1>a, <2>2, <2>4
<1>9. ASSUME NEW i \in 1 .. n + m, NEW j \in 1 .. n + m, i < j
      PROVE  Before(walk'.given[i], walk'.given[j])
  <2>1. CASE j <= n
    BY <1>3, <1>6, <1>9, <2>1
  <2>2. CASE i <= n /\ j > n
    <3>1. PICK k \in 1 .. m : j = n + k
      BY <1>3, <2>2
    <3>2. i \in 1 .. n
      BY <1>3, <2>2
    <3> QED
      BY <1>8, <3>1, <3>2
  <2>3. CASE i > n
    <3>1. PICK k \in 1 .. m, h \in 1 .. m : i = n + k /\ j = n + h
      BY <1>3, <1>9, <2>3
    <3>2. Skipped + k < Skipped + h
      BY <1>3, <1>4, <1>9, <3>1
    <3> QED
      BY <1>5, <1>a, <3>1, <3>2
  <2> QED
    BY <1>3, <2>1, <2>2, <2>3
<1>10. ASSUME answer'.hasNext, NEW i \in 1 .. n + m
       PROVE  /\ walk'.given[i] \in Matching(ask.status)
              /\ Cardinality(Preceding(walk'.given[i])) < end
  <2>1. CASE i <= n
    <3>1. /\ walk.given[i] \in Matching(ask.status) /\ answer.hasNext
          /\ Cardinality(Preceding(walk.given[i])) < Passed
      BY <1>3, <1>6, <2>1
    <3>2. IsFiniteSet(Matching(ask.status)) /\ Preceding(walk.given[i]) \subseteq Matching(ask.status)
      BY <1>1, MatchingIsFinite DEF Preceding
    <3>3. Cardinality(Preceding(walk.given[i])) \in Nat
      BY <3>2, FS_Subset, FS_CardinalityType
    <3>4. walk'.given[i] = walk.given[i]
      BY <1>3, <2>1
    <3> QED
      BY <1>4, <3>1, <3>3, <3>4
  <2>2. CASE i > n
    <3>1. PICK k \in 1 .. m : i = n + k
      BY <1>3, <2>2
    <3>2. Skipped + k - 1 < end
      BY <1>2, <1>3, <1>4, <1>10
    <3> QED
      BY <1>5, <3>1, <3>2
  <2> QED
    BY <1>3, <2>1, <2>2
<1> QED
  BY <1>3, <1>9, <1>10 DEF end

LEMMA GivenStep == ASSUME WalkInv, [Next]_vars PROVE GivenInv'
<1>t. TypeOK /\ TypeOK' /\ PageInv /\ GivenInv /\ PageInv'
  BY TypeStep, PageStep DEF WalkInv
<1>1. CASE UNCHANGED vars
  BY <1>t, <1>1, SameWalk DEF vars
<1>2. CASE (\E row \in Row : Create(row)) \/ (\E i \in DOMAIN rows : Restate(i))
  <2>1. CASE pc = "new"
    <3>1. pc' = "new"
      BY <1>2, <2>1 DEF Create, Restate, Written
    <3> QED
      BY <1>t, <3>1 DEF PageInv, GivenInv
  <2>2. CASE pc # "new"
    <3>1. Written(TRUE) \/ Written(FALSE)
      BY <1>2 DEF Create, Restate
    <3>2. ~walk'.quiet
      BY <1>t, <2>2, <3>1 DEF Written, TypeOK
    <3> QED
      BY <3>2 DEF GivenInv
  <2> QED
    BY <2>1, <2>2
<1>3. ASSUME NEW query \in Query(Pages), Ask(query) PROVE GivenInv'
  BY <1>t, <1>3 DEF Ask, GivenInv, PageInv, NoAnswer
<1>4. CASE NextPage \/ Count \/ Fail \/ Retry
  <2>1. rows' = rows /\ answer' = answer /\ walk' = walk
    BY <1>4 DEF NextPage, Count, Fail, Retry
  <2>2. ask'.sort = ask.sort /\ ask'.status = ask.status /\ ask'.limit = ask.limit
    BY <1>t, <1>4 DEF NextPage, Count, Fail, Retry, TypeOK, Query
  <2> QED
    BY <1>t, <2>1, <2>2, SameWalk
<1>5. CASE Select
  <2> SUFFICES ASSUME walk'.quiet, NoTies
               PROVE  /\ \A i, j \in DOMAIN walk'.given :
                            i < j => Before(walk'.given[i], walk'.given[j])
                      /\ answer'.hasNext => \A i \in DOMAIN walk'.given :
                           /\ walk'.given[i] \in Matching(ask.status)
                           /\ Cardinality(Preceding(walk'.given[i])) < Passed'
    <3>1. rows' = rows /\ ask' = ask /\ (NoTies' <=> NoTies)
      BY <1>5, SelectKeepsRows
    <3> QED
      BY <3>1 DEF GivenInv, Before, Preceding, Matching
  <2>1. walk.quiet
    <3>1. walk' = [walk EXCEPT !.given = @ \o answer'.ids]
      BY <1>t, <1>5, SelectGives
    <3> QED
      BY <1>t, <3>1 DEF TypeOK
  <2>2. answer'.hasNext => Passed' = PageOf(ask.page) * LimitInQuery(ask.limit)
    BY <1>t, <1>5, SelectGives, SelectKeepsRows DEF Passed
  <2> QED
    BY <1>5, <2>1, <2>2, SelectKeepsRows, GivenAfterSelect
<1> QED
  BY <1>1, <1>2, <1>3, <1>4, <1>5 DEF Next

LEMMA WalkInvariant == Spec => []WalkInv
<1>1. WalkInv /\ [Next]_vars => WalkInv'
  BY TypeStep, PageStep, DueStep, GivenStep DEF WalkInv
<1> QED
  BY InitHolds, <1>1, PTL DEF Spec

-----------------------------------------------------------------------------
(* The theorems.                                                           *)

\* Every variable has its type, for any bounds; in particular an answer never
\* has more rows than the limit in its meta says, which GetMatches and FindAll
\* work out separately.
THEOREM ListTypeCorrect == Spec => []TypeOK
<1>1. WalkInv => TypeOK
  BY DEF WalkInv
<1> QED
  BY <1>1, WalkInvariant, PTL

\* hasNext tells whether rows are left over, for every page, limit and number of
\* rows: exactly, but for the rows written inside the request, unless the offset
\* is beyond an int.
THEOREM HasNextHolds == Spec => HasNextIsExact
<1> DEFINE l == LimitInQuery(ask.limit)
           p == PageOf(ask.page)
           n == Cardinality(Matching(ask.status))
           left == n - ((answer'.page - 1) * answer'.limit + Len(answer'.ids))
<1>1. ASSUME WalkInv, [Next]_vars, Answered, InRange
      PROVE  IF answer'.hasNext THEN left > -late ELSE left <= late
  <2>1. TypeOK /\ PageInv
    BY <1>1 DEF WalkInv
  <2>2. Select
    BY <1>1 DEF Answered, Next, Create, Restate, Written, Ask, NextPage, Count, Fail, Retry, vars
  <2>3. l \in Nat \ {0} /\ p \in Nat \ {0} /\ (p - 1) * l <= IntMax
    BY <1>1, <2>1, AskType DEF InRange
  <2>4. Skipped = (p - 1) * l
    BY <2>1, <2>3, SkippedInRange
  <2>5. n \in total - late .. total + late /\ n \in Nat /\ total \in Nat /\ late \in Nat
    BY <2>1, <2>2, MatchingIsFinite, FS_CardinalityType, RowsAssumption DEF PageInv, TypeOK, Select
  <2>6. PICK o \in Orders :
          /\ Len(answer'.ids) = IF Len(o) <= Skipped THEN 0
                                ELSE IF Len(o) <= Skipped + l THEN Len(o) - Skipped ELSE l
          /\ answer'.page = p /\ answer'.limit = l /\ answer'.hasNext = (p < TotalPages)
    BY <2>1, <2>2, SelectGives
  <2>7. Len(o) = n
    BY <2>1, OrderIsComplete
  <2>8. p < TotalPages <=> p * l < total
    BY <2>1, HasNextFits
  <2> HIDE DEF l, p, n
  <2>9. (p - 1) * l \in Nat /\ (p - 1) * l + l = p * l
    BY <2>3
  <2>10. (answer'.page - 1) * answer'.limit = (p - 1) * l
    BY <2>6
  <2> DEFINE s == (p - 1) * l
             e == p * l
             m == Len(answer'.ids)
  <2>11. s \in Nat /\ s + l = e
    BY <2>9
  <2>12. m = IF n <= s THEN 0 ELSE IF n <= s + l THEN n - s ELSE l
    BY <2>4, <2>6, <2>7
  <2>13. left = n - (s + m)
    BY <2>10
  <2>14. answer'.hasNext <=> e < total
    BY <2>6, <2>8
  <2> HIDE DEF s, e, m, left
  <2>15. IF e < total THEN left > -late ELSE left <= late
    BY <2>3, <2>5, <2>11, <2>12, <2>13
  <2> QED
    BY <2>14, <2>15
<1>2. WalkInv /\ [Next]_vars =>
        [Answered /\ InRange => IF answer'.hasNext THEN left > -late ELSE left <= late]_vars
  BY <1>1
<1> QED
  BY <1>2, WalkInvariant, PTL DEF Spec, HasNextIsExact

\* The matches that the last answer of a walk leaves due have places of their own
\* in the order, behind the rows that its COUNT counted.
LEMMA MissedAreLate ==
  ASSUME WalkInv, Select, ~answer'.hasNext, walk.stable, NoTies
  PROVE  Cardinality(walk.due \ ToSet(walk'.given)) <= late
<1> DEFINE D == walk.due \ ToSet(walk'.given)
           n == Cardinality(Matching(ask.status))
           rank(d) == Cardinality(Preceding(d))
           end == PageOf(ask.page) * LimitInQuery(ask.limit)
<1>1. TypeOK /\ PageInv
  BY DEF WalkInv
<1>2. n \in total - late .. total + late /\ n \in Nat /\ total \in Nat /\ late \in Nat
  BY <1>1, MatchingIsFinite, FS_CardinalityType, RowsAssumption DEF PageInv, TypeOK, Select
<1>3. end \in Nat /\ total <= end
  <2>1. PageOf(ask.page) \in Nat /\ LimitInQuery(ask.limit) \in Nat
    BY <1>1, AskType
  <2>2. end \in Nat
    BY <2>1
  <2>3. ~(end < total)
    BY <1>1, SelectGives, HasNextFits
  <2> HIDE DEF end
  <2> QED
    BY <1>2, <2>2, <2>3
<1>4. \A d \in D : d \in Matching(ask.status) /\ rank(d) < n /\ rank(d) >= end
  BY DueAfterSelect
<1>5. PICK o \in Orders : TRUE
  BY <1>1, SelectGives
<1>6. \A d \in D : \E i \in 1 .. Len(o) : o[i] = d /\ rank(d) = i - 1
  <2> TAKE d \in D
  <2>1. PICK i \in 1 .. Len(o) : o[i] = d
    BY <1>1, <1>4, OrderIsComplete
  <2>2. Cardinality(Preceding(o[i])) = i - 1
    BY <1>1, PlaceInOrder
  <2> QED
    BY <2>1, <2>2
<1>7. Len(o) \in Nat
  BY <1>1, OrderIsComplete
<1> HIDE DEF D, n, rank, end
<1> DEFINE f == [d \in D |-> rank(d)]
<1>8. f \in Injection(D, total .. n - 1)
  <2>1. \A d \in D : rank(d) \in total .. n - 1
    <3> TAKE d \in D
    <3>1. rank(d) \in Int
      BY <1>6, <1>7
    <3> QED
      BY <1>2, <1>3, <1>4, <3>1
  <2>2. \A d, e \in D : rank(d) = rank(e) => d = e
    BY <1>6, <1>7
  <2>3. f \in [D -> total .. n - 1] /\ \A d, e \in D : f[d] = f[e] => d = e
    BY <2>1, <2>2
  <2> QED
    BY <2>3 DEF Injection, IsInjective
<1>9. IsFiniteSet(total .. n - 1) /\ Cardinality(total .. n - 1) <= late
  <2>1. /\ IsFiniteSet(total .. n - 1)
        /\ Cardinality(total .. n - 1) = IF total <= n - 1 THEN (n - 1) - total + 1 ELSE 0
    <3>1. total \in Int /\ n - 1 \in Int
      BY <1>2
    <3> QED
      BY <3>1, FS_Interval
  <2> QED
    BY <1>2, <2>1
<1>10. /\ IsFiniteSet(D) /\ Cardinality(D) <= Cardinality(total .. n - 1)
       /\ Cardinality(D) \in Nat /\ Cardinality(total .. n - 1) \in Nat
  BY <1>8, <1>9, FS_Injection, FS_CardinalityType
<1>11. Cardinality(D) <= late
  BY <1>2, <1>9, <1>10
<1> QED
  BY <1>11 DEF D

\* A walk from page 1 to the end misses no more of the matches that were there
\* when it began than were written inside its last request.
THEOREM WalksMissAtMostLate == Spec => WalkMissesAtMostLate
<1>1. ASSUME WalkInv, [Next]_vars, Answered, ~answer'.hasNext, walk'.stable, NoTies
      PROVE  Cardinality(walk.due \ ToSet(walk'.given)) <= late
  <2>1. Select
    BY <1>1 DEF Answered, Next, Create, Restate, Written, Ask, NextPage, Count, Fail, Retry, vars
  <2>2. walk' = [walk EXCEPT !.given = @ \o answer'.ids]
    BY <1>1, <2>1, SelectGives DEF WalkInv
  <2>3. walk.stable
    BY <1>1, <2>2 DEF WalkInv, TypeOK
  <2> QED
    BY <1>1, <2>1, <2>3, MissedAreLate
<1>2. WalkInv /\ [Next]_vars =>
        [Answered /\ ~answer'.hasNext /\ walk'.stable /\ NoTies =>
           Cardinality(walk.due \ ToSet(walk'.given)) <= late]_vars
  BY <1>1
<1> QED
  BY <1>2, WalkInvariant, PTL DEF Spec, WalkMissesAtMostLate

\* While no row is written, the pages of a walk follow each other in the order
\* asked for and repeat no match.
THEOREM WalksAreSorted == Spec => WalkIsSorted
<1>1. ASSUME WalkInv, [Next]_vars, Answered, walk.quiet, NoTies
      PROVE  \A i, j \in DOMAIN walk'.given : i < j => Before(walk'.given[i], walk'.given[j])
  <2>1. Select
    BY <1>1 DEF Answered, Next, Create, Restate, Written, Ask, NextPage, Count, Fail, Retry, vars
  <2> QED
    BY <1>1, <2>1, GivenAfterSelect
<1>2. WalkInv /\ [Next]_vars =>
        [Answered /\ walk.quiet /\ NoTies =>
           \A i, j \in DOMAIN walk'.given :
             i < j => Before(walk'.given[i], walk'.given[j])]_vars
  BY <1>1
<1> QED
  BY <1>2, WalkInvariant, PTL DEF Spec, WalkIsSorted
=============================================================================
