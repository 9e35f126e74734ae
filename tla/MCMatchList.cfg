\* Three rows with three start times, equal ones included; walks from page 1 (an
\* out-of-range parameter), and a page whose offset overflows with limit 2 but
\* not with limit 1; limits unset and above the cap of two.
SPECIFICATION Spec
CONSTANTS
  Starts = {1, 2, 3}
  Pages = {0, 6}
  Limits = {0, 3}
  Filters = {"all", "live"}
  DefaultLimit = 1
  MaxLimit = 2
  IntMax = 7
  MaxRows = 3
INVARIANTS
  TypeOK
PROPERTIES
  HasNextIsExact
  WalkMissesAtMostLate
  WalkIsSorted
\* The client may have all pages, and the table be full.
CHECK_DEADLOCK FALSE
