------------------------------- MODULE TreePages -------------------------------
(***************************************************************************)
(* GET /api/v1/diff/tree over an assembled comparison d, internal/server:  *)
(* a directory's rows in pages that resume at a cursor, with some of the   *)
(* rows of the next level in advance; and what the web client makes of     *)
(* them, web/src/compare/fs.  A request that is refused has the answer     *)
(* None.                                                                   *)
(***************************************************************************)
EXTENDS TreeDiff

CONSTANTS
    NameRank,             \* the order of names
    DefaultTreeLimit,
    MaxTreeLimit,
    MaxEmbeddedChildren,  \* of one row
    MaxEmbeddedRows       \* of one response

ASSUME NameRankAssumption ==
    /\ NameRank \in [Path -> Nat]
    /\ \A p, q \in Path : NameRank[p] = NameRank[q] => p = q
ASSUME LimitAssumption ==
    /\ MaxTreeLimit \in Nat \ {0} /\ DefaultTreeLimit \in 1..MaxTreeLimit
    /\ MaxEmbeddedChildren \in Nat \ {0} /\ MaxEmbeddedRows \in Nat

Filter == {"all", "changed"}

\* What a cursor says, and where from.
Query == [{"leftLayers", "rightLayers", "path", "filter"} -> Nat \cup Path \cup {Root} \cup Filter]
CursorState == [section: {0, 1}, lastName: Nat, query: Query]

\* What was left out is told from what was sent.
ASSUME OmittedAssumption == None \notin Nat \cup Path \cup {Root} \cup Filter \cup CursorState

\* parseTreeParams and parseLayerCount of a query whose omitted parameters are
\* None; left and right are the layers of the two images, and a selection is a
\* count of them.
Given(raw, default) == IF raw = None THEN default ELSE raw
TreeParams(q, left, right) ==
    LET params == [leftLayers |-> Given(q.leftLayers, left),
                   rightLayers |-> Given(q.rightLayers, right),
                   path |-> Given(q.path, Root), depth |-> Given(q.depth, 1),
                   limit |-> Given(q.limit, DefaultTreeLimit), filter |-> Given(q.filter, "all")]
    IN  IF /\ params.leftLayers \in 0..left /\ params.rightLayers \in 0..right
           /\ params.depth \in 1..2 /\ params.limit \in 1..MaxTreeLimit
        THEN params ELSE None

\* findNode: from the root, name by name.
Found(d, at) == at = Root \/ Above[at] \cup {at} \subseteq DOMAIN d

\* IsDirRow: the right side says, when there is one.
IsDirRow(row) == IF row.right # None THEN row.right.kind = "dir" ELSE row.left.kind = "dir"

\* sectionOf, by rank.  Mutant: the left side says what the sort takes from
\* the right.
SectionOnLeft(row) ==
    IF (IF row.left # None THEN row.left.kind ELSE row.right.kind) = "dir" THEN 0 ELSE 1
Section(row) == IF IsDirRow(row) THEN 0 ELSE 1

\* SortDiffChildren: directories first, each group by name.
SortsBefore(d, p, q) ==
    IF IsDirRow(d[p]) # IsDirRow(d[q]) THEN IsDirRow(d[p]) ELSE NameRank[p] < NameRank[q]

\* filterRows of a directory's children, in that order.
Rows(d, at, filter) ==
    {p \in ChildrenIn(DOMAIN d, at) : filter = "changed" => d[p].status # "unchanged"}
Sorted(d, rows) == InOrder(rows, {e \in rows \X rows : SortsBefore(d, e[1], e[2])})
Listing(d, at, filter) == Sorted(d, Rows(d, at, filter))

MaxSiblingBytes(d, rows) ==
    Max({0} \cup {d[p].agg.leftBytes + d[p].agg.rightBytes : p \in ToSet(rows)})

\* cursorQuery: what a cursor is good for.  The limit may change under way.
CursorQuery(params) ==
    [f \in {"leftLayers", "rightLayers", "path", "filter"} |-> params[f]]

\* encodeCursor: where a page ended.
Cursor(d, params, p) ==
    [section |-> Section(d[p]), lastName |-> NameRank[p], query |-> CursorQuery(params)]

\* decodeCursor.
CursorFits(cur, params) == cur = None \/ cur.query = CursorQuery(params)

\* pageStart: how many rows do not sort after the cursor.
PageStart(d, rows, cur) ==
    LET After(n) == IF Section(d[rows[n]]) # cur.section THEN Section(d[rows[n]]) > cur.section
                    ELSE NameRank[rows[n]] > cur.lastName
        first == {n \in DOMAIN rows : After(n)}
    IN  IF cur = None THEN 0 ELSE IF first = {} THEN Len(rows) ELSE Min(first) - 1

\* treeRowOf at depth two, with what is left of the response's budget.
Embedded(children, limit, budget) == Min({limit, MaxEmbeddedChildren, Len(children), budget})

\* Mutant: only the caps of the row count, not the response's budget.
TruncatedByRow(children, limit, budget) == Len(children) > Min({limit, MaxEmbeddedChildren})
Truncated(children, limit, budget) == Len(children) > Embedded(children, limit, budget)

TreeRow(d, p, depth, limit, filter, budget) ==
    LET children == Listing(d, p, filter)
    IN  [path |-> p,
         childCount |-> Len(children),
         children |-> IF depth = 1 THEN <<>> ELSE SubSeq(children, 1, Embedded(children, limit, budget)),
         childrenTruncated |-> depth = 2 /\ Truncated(children, limit, budget)]

\* handleDiffTree, of good parameters and the comparison d they ask for.
TreePage(d, params, cur) ==
    LET rows == Listing(d, params.path, params.filter)
        start == PageStart(d, rows, cur)
        end == Min({start + params.limit, Len(rows)})
        \* The budget is handed out in row order.
        budget[n \in start..end] ==
            IF n = start THEN MaxEmbeddedRows
            ELSE budget[n - 1]
                 - Embedded(Listing(d, rows[n], params.filter), params.limit, budget[n - 1])
    IN  IF ~Found(d, params.path) \/ ~CursorFits(cur, params) THEN None
        ELSE [rows |-> [n \in 1..(end - start) |->
                          TreeRow(d, rows[start + n], params.depth, params.limit, params.filter,
                                  budget[start + n - 1])],
              totalRows |-> Len(rows),
              maxSiblingBytes |-> MaxSiblingBytes(d, rows),
              nextCursor |-> IF end < Len(rows) THEN Cursor(d, params, rows[end]) ELSE None]

-------------------------------------------------------------------------------
(* The client.                                                               *)

\* seedPageFromRow: an embedded level as that directory's only page, or None.
SeedPage(d, row) ==
    IF row.childrenTruncated \/ row.children = <<>> THEN None
    ELSE [rows |-> row.children, totalRows |-> row.childCount,
          maxSiblingBytes |-> MaxSiblingBytes(d, row.children)]
===============================================================================
