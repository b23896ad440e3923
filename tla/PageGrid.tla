------------------------------ MODULE PageGrid ------------------------------
(***************************************************************************)
(* The grid of a page: a dgrid OnDemandGrid over the page's store.         *)
(*                                                                         *)
(* Only the rows near the viewport are in the document, between two        *)
(* preload nodes that stand for the rows above and below; processing the   *)
(* scroll position turns parts of a preload node into rows, and rows far   *)
(* away back into a preload node.  A message is put into the store and the *)
(* grid is refreshed in one turn, so a row is named by its position in the *)
(* result of the last refresh, and the store answers at once.              *)
(*                                                                         *)
(* Lengths are pixels.  Every row is RowHeight high; the grid works with   *)
(* the average height of the first page, for which the first row counts 0. *)
(***************************************************************************)
EXTENDS Integers, Sequences, FiniteSets

CONSTANTS
    RowHeight, BodyHeight,      \* of a row, and of the viewport
    InitialHeight,              \* rowHeight, before a page has been measured
    MinRows, MaxRowsPerPage,    \* minRowsPerPage, maxRowsPerPage
    BufferRows, FarOffRemoval, Overlap,
    Sizes,                      \* bound: the sizes of the store after a message
    Places,                     \* bound: where a user scrolls to, or else to the end
    MaxMoves                    \* bound: what a user does between two messages

VARIABLES
    grid,       \* the grid: its nodes, its scroll position and the size of its store
    debounced,  \* a scroll event waits for its delay
    moves       \* what the user has done since the last message

gridVars == <<grid, debounced, moves>>

Smaller(a, b) == IF a < b THEN a ELSE b
Larger(a, b) == IF a > b THEN a ELSE b
Ceiling(a, b) == (a + b - 1) \div b

\* renderArray: the rows of a result that starts at a position.
Positions(first, n) == [k \in 1..n |-> first + k - 1]

-----------------------------------------------------------------------------
(***************************************************************************)
(* The layout.  "above" and "below" are the two preload nodes.  A preload  *)
(* node with nothing below the first page is not displayed.                *)
(***************************************************************************)

Displayed(g, p) == p = "above" \/ (p = "below" /\ g.displayed)

HeightOf(g, p) ==
    IF p = "above" THEN g.aboveHeight
    ELSE IF g.displayed THEN g.belowCount * g.rowHeight ELSE 0

TopOf(g, p) ==
    IF p = "below" /\ g.displayed THEN g.aboveHeight + Len(g.rows) * RowHeight ELSE 0

ContentHeight(g) == g.aboveHeight + Len(g.rows) * RowHeight + HeightOf(g, "below")

MaxScroll(g) == Larger(ContentHeight(g) - BodyHeight, 0)

\* A browser keeps the scroll position within the content.
Scrolled(g, y) == [g EXCEPT !.scrollTop = Larger(0, Smaller(y, MaxScroll(g)))]

\* _calcRowHeight: a row that starts where its sibling does has no height.
RowsHeight(g, first, n) ==
    n * RowHeight - (IF first = 1 /\ n > 0 /\ g.aboveHeight = 0 THEN RowHeight ELSE 0)

\* insertRow removes a row that the document has already.
Without(s, first, n) == SelectSeq(s, LAMBDA r : r \notin first..(first + n - 1))

-----------------------------------------------------------------------------
(***************************************************************************)
(* removeDistantNodes: rows next to a preload node far off the viewport    *)
(* become part of it.                                                      *)
(***************************************************************************)

\* Mutant: rows above the viewport stay.
KeptAbove(g, distance) == g

RemovedAbove(g, distance) ==
    LET far == {k \in 1..Len(g.rows) : RowsHeight(g, 1, k) + FarOffRemoval <= distance}
        k == Cardinality(far)
    IN  IF distance <= 2 * FarOffRemoval THEN g
        ELSE [g EXCEPT !.rows = SubSeq(@, k + 1, Len(@)),
                       !.aboveCount = @ + k,
                       !.aboveHeight = @ + RowsHeight(g, 1, k)]

\* Mutant: the node below forgets where it now starts.
RemovedBelowKeepsIndex(g, distance) ==
    LET n == Len(g.rows)
        far == {k \in 1..n : RowsHeight(g, n - k + 1, k) + FarOffRemoval <= distance}
    IN  IF distance <= 2 * FarOffRemoval THEN g
        ELSE [g EXCEPT !.rows = SubSeq(@, 1, n - Cardinality(far)),
                       !.belowCount = @ + Cardinality(far)]

RemovedBelow(g, distance) ==
    LET n == Len(g.rows)
        far == {k \in 1..n : RowsHeight(g, n - k + 1, k) + FarOffRemoval <= distance}
        k == Cardinality(far)
    IN  IF distance <= 2 * FarOffRemoval THEN g
        ELSE [g EXCEPT !.rows = SubSeq(@, 1, n - k),
                       !.belowCount = @ + k,
                       !.belowIndex = @ - k]

-----------------------------------------------------------------------------
(***************************************************************************)
(* _processScroll, for the preload node p that is visible or nearly so: it *)
(* gives up rows.  The scroll position is the one that the function has    *)
(* started with, "view", and the one of its last call, "last".  Fractions  *)
(* of rows are written as lengths over the row height.                     *)
(***************************************************************************)

Buffer(g) == BufferRows * g.rowHeight

Momentum(g, view, last) ==
    LET moved == (view - last) * g.rowHeight
        speed == Smaller(IF moved < 0 THEN -moved ELSE moved, MaxRowsPerPage \div 2)
    IN  Smaller(speed, 10)

\* How many rows the node gives up, and how many it keeps between them and the rows that
\* are rendered, or the top of the list if it is the node above.
Request(g, p, view, last) ==
    LET h == g.rowHeight
        wide == BodyHeight + 2 * Buffer(g) + Momentum(g, view, last) * h
        away == Larger(0, IF p = "below" THEN view - Buffer(g) - TopOf(g, p)
                          ELSE view + BodyHeight - TopOf(g, p) - wide)
        near == away < 10 * h /\ away > 0 /\ wide + away < MaxRowsPerPage * h
        have == IF p = "above" THEN g.aboveCount ELSE g.belowCount
        wanted == Larger(IF near THEN wide + away ELSE wide, MinRows * h)
        count == Smaller(Ceiling(Smaller(wanted, MaxRowsPerPage * h), h), have)
    IN  [count |-> count,
         offset |-> Smaller(IF near THEN 0 ELSE away \div h, have - count)]

\* The query for rows that follow the rendered ones, or replace them if they are all
\* far off; then the node below takes its count from the result's total.
LoadBelow(g, r, view) ==
    LET took == RemovedAbove([g EXCEPT !.belowCount = @ - r.count],
                             view - g.aboveHeight)
        fresh == r.offset > 0 /\ took.rows = <<>>
        skip == Smaller(took.belowCount, r.offset)
        placed == IF fresh
                  THEN [took EXCEPT !.aboveCount = @ + skip,
                                    !.aboveHeight = (took.aboveCount + skip) * g.rowHeight,
                                    !.belowIndex = @ + skip]
                  ELSE took
        start == placed.belowIndex - (IF fresh THEN 0 ELSE Overlap)
        n == IF fresh THEN Smaller(r.count, MaxRowsPerPage)
             ELSE Smaller(r.count + r.offset + Overlap, MaxRowsPerPage)
        found == Larger(Smaller(n, g.size - start), 0)
    IN  IF start > g.size
        THEN [placed EXCEPT !.skipped = TRUE]
        ELSE [placed EXCEPT !.rows = Without(@, start, found) \o Positions(start, found),
                            !.belowIndex = start + n,
                            !.belowCount = g.size - (start + n)]

\* The query for rows that precede the rendered ones; what the viewport shows is kept in
\* its place by the node that follows the loading node.
LoadAbove(g, r, view) ==
    LET took == RemovedBelow([g EXCEPT !.aboveCount = @ - r.count],
                             TopOf(g, "below") - (view + BodyHeight))
        fresh == took.rows = <<>>
        placed == IF fresh
                  THEN [took EXCEPT !.belowCount = @ + took.aboveCount - r.offset,
                                    !.belowIndex = r.offset + r.count,
                                    !.aboveCount = r.offset]
                  ELSE took
        start == placed.aboveCount
        n == Smaller(r.count + (IF fresh THEN 0 ELSE Overlap), MaxRowsPerPage)
        found == Larger(Smaller(n, g.size - start), 0)
        kept == Without(placed.rows, start, found)
        loaded == [placed EXCEPT !.aboveHeight = start * g.rowHeight,
                                 !.rows = Positions(start, found) \o kept]
        follows == loaded.aboveHeight + found * RowHeight
    IN  IF start > g.size
        THEN [placed EXCEPT !.aboveHeight = start * g.rowHeight, !.skipped = TRUE]
        ELSE IF fresh \/ took.aboveHeight = 0 \/ (kept = <<>> /\ ~g.displayed)
        THEN loaded
        ELSE Scrolled(loaded, Scrolled(loaded, loaded.scrollTop).scrollTop
                                  + follows - took.aboveHeight)

\* Mutant: the node above is not looked at again.
OnlyDown(g, p, down) == IF p = "above" /\ down /\ g.displayed THEN "below" ELSE "none"

\* The next preload node in a direction that is displayed.
Neighbour(g, p, down) ==
    IF p = "below" /\ ~down THEN "above"
    ELSE IF p = "above" /\ down /\ g.displayed THEN "below" ELSE "none"

RECURSIVE ProcessScroll(_), Nodes(_, _, _, _, _, _)

\* The loop over the preload nodes, until it would turn back.
Nodes(g, p, prior, down, view, last) ==
    LET here == [g EXCEPT !.preload = p]
        search == Buffer(g) - g.rowHeight
        request == Request(g, p, view, last)
        Go(new, node, onward) == Nodes(new, node, g.preload, onward, view, last)
    IN  CASE p \in {"none", prior} -> g
          [] p \notin {"none", prior} /\ view + BodyHeight + 1 + search < TopOf(g, p) ->
                Go(here, Neighbour(g, p, FALSE), FALSE)
          [] p \notin {"none", prior} /\ view - 1 - search > TopOf(g, p) + HeightOf(g, p) ->
                Go(here, Neighbour(g, p, TRUE), TRUE)
          [] OTHER ->
                IF request.count = 0 THEN Go(here, Neighbour(g, p, down), down)
                ELSE LET loaded == IF p = "below" THEN LoadBelow(here, request, view)
                                   ELSE LoadAbove(here, request, view)
                     IN  IF loaded.skipped THEN Go(loaded, p, down)
                         ELSE Go(ProcessScroll(loaded),
                                 IF p = "below" THEN "above" ELSE "none", down)

\* It starts at the node of the last time; a loaded page lets it start again.
ProcessScroll(g) ==
    LET now == Scrolled(g, g.scrollTop)
        first == IF g.preload = "below" /\ ~g.displayed THEN "above" ELSE g.preload
    IN  Nodes([now EXCEPT !.lastScrollTop = now.scrollTop], first, "undefined", TRUE,
              now.scrollTop, g.lastScrollTop)

-----------------------------------------------------------------------------
(***************************************************************************)
(* The grid's operations, each one turn of the page.                       *)
(***************************************************************************)

\* refresh() of a list: no rows, no preload nodes, scrolled to the top.
Cleared(g) ==
    [g EXCEPT !.rows = <<>>, !.aboveCount = 0, !.aboveHeight = 0,
              !.belowCount = 0, !.belowIndex = 0, !.displayed = FALSE,
              !.preload = "none", !.scrollTop = 0]

\* refresh(): the first page of the rows is rendered, and measured.
Refresh(g, size) ==
    LET n == Smaller(size, MinRows)
    IN  ProcessScroll(
            [Cleared(g) EXCEPT !.size = size,
                               !.rows = Positions(0, n),
                               !.belowCount = size - n, !.belowIndex = n,
                               !.displayed = size > n,
                               !.preload = "below",
                               !.rowHeight = IF n > 1 THEN RowsHeight(Cleared(g), 1, n) \div n
                                             ELSE @])

Empty == [size |-> 0, rows |-> <<>>, aboveCount |-> 0, aboveHeight |-> 0, belowCount |-> 0,
          belowIndex |-> 0, displayed |-> FALSE, preload |-> "none",
          rowHeight |-> InitialHeight, scrollTop |-> 0, lastScrollTop |-> 0, skipped |-> FALSE]

GridInit ==
    /\ grid = Refresh(Empty, 0)
    /\ debounced = FALSE
    /\ moves = 0

\* A change of the scroll position is an event of its own, which its delay defers.
Becomes(g) ==
    /\ grid' = g
    /\ debounced' = (debounced \/ g.scrollTop # grid.scrollTop)

Moved == moves < MaxMoves /\ moves' = moves + 1

\* onmessage: rows are added or replaced, never removed.
Message == \E size \in Sizes :
    /\ size >= grid.size
    /\ Becomes(Refresh(grid, size))
    /\ moves' = 0

Scroll == \E y \in Places \union {MaxScroll(grid)} :
    /\ y <= MaxScroll(grid) /\ y # grid.scrollTop
    /\ Moved
    /\ Becomes(Scrolled(grid, y))

\* Mutant: it always scrolls, if only to where the grid is.
Restarted ==
    /\ debounced
    /\ grid' = ProcessScroll(grid)
    /\ UNCHANGED <<debounced, moves>>

Debounced ==
    /\ debounced
    /\ grid' = ProcessScroll(grid)
    /\ debounced' = (grid'.scrollTop # grid.scrollTop)
    /\ UNCHANGED moves

\* A column is resized, or the window.
Resize == Moved /\ Becomes(ProcessScroll(grid))

\* The sort arrow is placed after the refresh, and the grid resized for it.
Sort == Moved /\ Becomes(ProcessScroll(Refresh(grid, grid.size)))

\* Weak fairness of Debounced, which can be taken exactly while a delay runs: timers fire.
DelaysEnd == []<>~debounced \/ []<><<Debounced>>_gridVars

GridNext == Message \/ Scroll \/ Debounced \/ Resize \/ Sort

-----------------------------------------------------------------------------
\* Every row of the store is in the document once and in its place, or counted once by the
\* preload node above or below: no load, removal or refresh loses or doubles a row, and
\* no query is skipped, which would leave its loading node behind.
EachRowOnce ==
    /\ ~grid.skipped
    /\ grid.rows = Positions(grid.aboveCount, Len(grid.rows))
    /\ grid.belowIndex = grid.aboveCount + Len(grid.rows)
    /\ grid.belowCount = grid.size - grid.belowIndex

\* Once the scroll position is processed the viewport shows rows only, although the grid
\* takes every row that is not rendered to be lower than it is.
Covered ==
    ~debounced =>
        /\ grid.scrollTop >= grid.aboveHeight
        /\ grid.belowCount > 0 => grid.scrollTop + BodyHeight <= TopOf(grid, "below")

\* However many rows the store has and however a user scrolls, the document keeps no more
\* than fit into the viewport, its buffers, and what is not yet far off on both sides.
FewRows ==
    Len(grid.rows) * RowHeight <= BodyHeight + 2 * Buffer(grid) + 4 * FarOffRemoval

\* Processing a scroll position, which moves it, comes to an end unless messages keep
\* coming.
Settles == []<>~debounced \/ []<><<Message>>_gridVars
=============================================================================
