--------------------------- MODULE DesktopLayout ---------------------------
(***************************************************************************)
(* Where the icons of the launcher and the desktop go.  Cells and an order *)
(* are stored in the browser and outlive the apps and the window size they *)
(* were chosen for; every drawing resolves them against the apps installed *)
(* and the grid that fits now.                                             *)
(***************************************************************************)
EXTENDS Integers, Sequences, FiniteSets, SequencesExt

CONSTANTS
    Icons,       \* the apps and folders there may be
    ColumnCounts,\* the columns that fit, by window width
    PageRows,    \* the rows that fit
    DropCells,   \* where icons are dropped
    StoredOrders \* what rumahl.launcher.order may hold from earlier

VARIABLES
    installed,   \* the icons to show, in catalog order
    storedOrder, \* rumahl.launcher.order
    storedCells, \* rumahl.launcher.cells
    columns      \* the columns that fit now

layoutVars == <<installed, storedOrder, storedCells, columns>>

Unplaced == <<-1, -1>>

LayoutInit ==
    /\ installed = << >>
    /\ storedOrder \in StoredOrders
    /\ storedCells = [i \in Icons |-> Unplaced]
    /\ columns \in ColumnCounts

----------------------------------------------------------------------------
(* The icons there still are in the stored order, each once, then the      *)
(* others.                                                                 *)
applyOrder(ids, stored) ==
    LET Add(seen, id) == IF id \in Range(seen) \/ id \notin Range(ids)
                         THEN seen ELSE Append(seen, id) IN
    FoldLeft(Add, << >>, stored \o ids)

Between(n, most) == IF n < 0 THEN 0 ELSE IF n > most THEN most ELSE n

clampCell(cell, cols, rows) ==
    <<Between(cell[1], cols - 1), Between(cell[2], rows - 1)>>

(* The cells in the order in which unplaced icons fill them. *)
FlowOrder(cols, rows, flow) ==
    [n \in 1..(cols * rows) |->
       IF flow = "row" THEN <<(n - 1) % cols, (n - 1) \div cols>>
       ELSE <<(n - 1) \div rows, (n - 1) % rows>>]

nextFree(order, occupied) ==
    LET free == SelectSeq(order, LAMBDA c : c \notin occupied) IN
    IF free = << >> THEN <<0, 0>> ELSE free[1]

Distance(c, d) == LET Abs(n) == IF n < 0 THEN -n ELSE n IN
    Abs(c[1] - d[1]) + Abs(c[2] - d[2])

(* The free cell closest to a target, the first of several. *)
nearestFree(target, order, occupied) ==
    LET free == SelectSeq(order, LAMBDA c : c \notin occupied)
        Closer(best, c) == IF Distance(c, target) < Distance(best, target)
                           THEN c ELSE best IN
    IF target \notin occupied THEN target
    ELSE IF free = << >> THEN <<0, 0>>
    ELSE FoldLeft(Closer, free[1], free)

(* Gives every id a cell: its stored one or the nearest free one, and the  *)
(* next free one to those without.                                         *)
resolveCells(ids, stored, cols, rows, flow) ==
    LET order == FlowOrder(cols, rows, flow)
        Place(done, id) ==
          LET occupied == {done[i] : i \in DOMAIN done}
              cell == IF stored[id] = Unplaced THEN nextFree(order, occupied)
                      ELSE nearestFree(clampCell(stored[id], cols, rows), order, occupied)
          IN  [i \in DOMAIN done \union {id} |-> IF i = id THEN cell ELSE done[i]] IN
    FoldLeft(Place, [i \in {} |-> Unplaced], ids)

(* The nearest free cell to the one an icon is dropped at. *)
nearestFreeCell(target, taken, cols, rows) ==
    LET start == clampCell(target, cols, rows)
        free == SelectSeq(FlowOrder(cols, rows, "column"), LAMBDA c : c \notin taken) IN
    IF start \in taken /\ free = << >> THEN start
    ELSE nearestFree(start, FlowOrder(cols, rows, "column"), taken)

(* The launcher adds pages, the desktop rows, until every icon has a cell. *)
PageCount(n) ==
    LET size == columns * PageRows
        pages == (n + size - 1) \div size IN
    IF pages < 1 THEN 1 ELSE pages

DesktopRows(n) ==
    LET needed == (n + columns - 1) \div columns IN
    IF needed > PageRows THEN needed ELSE PageRows

LauncherItems == applyOrder(installed, storedOrder)

LauncherRows == PageCount(Len(LauncherItems)) * PageRows

LauncherCells == resolveCells(LauncherItems, storedCells, columns, LauncherRows, "row")

DesktopCells ==
    resolveCells(installed, storedCells, columns, DesktopRows(Len(installed)), "column")

----------------------------------------------------------------------------
(* The catalog and the window change under what is stored. *)
InstallIcon(i) ==
    /\ i \notin Range(installed)
    /\ installed' = Append(installed, i)
    /\ UNCHANGED <<storedOrder, storedCells, columns>>

RemoveIcon(i) ==
    /\ i \in Range(installed)
    /\ installed' = SelectSeq(installed, LAMBDA j : j # i)
    /\ UNCHANGED <<storedOrder, storedCells, columns>>

ResizeWindow(n) ==
    /\ n # columns
    /\ columns' = n
    /\ UNCHANGED <<installed, storedOrder, storedCells>>

(* An icon is dropped at a cell: the nearest one no other icon is drawn in *)
(* is stored.                                                              *)
DropIcon(i, target) ==
    LET cells == LauncherCells
        taken == {cells[j] : j \in DOMAIN cells \ {i}} IN
    /\ i \in Range(installed)
    /\ storedCells' = [storedCells EXCEPT ![i] =
         nearestFreeCell(target, taken, columns, LauncherRows)]
    /\ UNCHANGED <<installed, storedOrder, columns>>

LayoutNext ==
    \/ \E i \in Icons : InstallIcon(i) \/ RemoveIcon(i)
    \/ \E n \in ColumnCounts : ResizeWindow(n)
    \/ \E i \in Icons, target \in DropCells : DropIcon(i, target)

----------------------------------------------------------------------------
(* Whatever was stored for other apps and other window sizes, every icon   *)
(* is drawn once: in a cell of the grid that no other icon has, and, in    *)
(* the launcher, on one of its pages.                                      *)
EveryIconIsDrawn ==
    /\ Len(LauncherItems) = Cardinality(Range(installed))
    /\ \A layout \in {<<LauncherCells, LauncherRows>>,
                      <<DesktopCells, DesktopRows(Len(installed))>>} :
         /\ DOMAIN layout[1] = Range(installed)
         /\ \A i \in DOMAIN layout[1] :
              /\ layout[1][i] \in (0..(columns - 1)) \X (0..(layout[2] - 1))
              /\ \A j \in DOMAIN layout[1] \ {i} : layout[1][i] # layout[1][j]
============================================================================
