----------------------------- MODULE LayoutGrid -----------------------------
(***************************************************************************)
(* The dashboard's widgets and their saved layout (components/dashboard:   *)
(* DashboardGrid.tsx, dashboardLayout.ts, dashboardLayoutStorage.ts).  The *)
(* layout keeps one list of widgets per mode; the grid holds only those on *)
(* show, and what is read back from the grid after a fit, a drag or a      *)
(* compaction becomes the list.  Every change is saved at once.            *)
(*                                                                         *)
(* Abstracted: a list is the reading order of its widgets (y, then x);     *)
(* sizes, and so the measured heights of the mobile column, are left out;  *)
(* the tablet list too, for no width selects that mode.                    *)
(***************************************************************************)
EXTENDS Naturals, Sequences, FiniteSets, SequencesExt

CONSTANTS
    Widgets,   \* DASHBOARD_WIDGET_IDS
    Events,    \* the event stream, which can be hidden
    Controls   \* the manual controls, which only an operator has

ASSUME LayoutAssumption == IsFiniteSet(Widgets) /\ Events \in Widgets /\ Controls \in Widgets \ {Events}

VARIABLES
    layout,      \* desktop, mobile order, eventsHidden
    layoutStore, \* what local storage holds under the v2 key, if anything
    v1Order,     \* the order of an earlier version, if any
    rejected,    \* DASHBOARD_LAYOUT_INVALID_KEY was written
    open,        \* the dashboard is on screen
    mode,        \* desktop or mobile
    editing,     \* Edit layout
    role         \* of this session: a viewer, an operator or an owner

layoutVars == <<layout, layoutStore, v1Order, rejected, open, mode, editing, role>>

Roles == {"viewer", "operator", "owner"}
Orders == SetToSeqs(Widgets)
Usual == CHOOSE order \in Orders : TRUE
DefaultLayout == [desktop |-> Usual, mobile |-> Usual, hidden |-> FALSE]

\* parseDashboardLayout, migrateDashboardOrder: every widget exactly once.
Complete(order) == Len(order) = Cardinality(Widgets) /\ ToSet(order) = Widgets
Parses(saved) == Complete(saved.desktop) /\ Complete(saved.mobile)

\* loadDashboardLayoutResult: the saved one, the migrated one or the default, saved again.
Loaded ==
    IF layoutStore # <<>> /\ Parses(layoutStore[1]) THEN layoutStore[1]
    ELSE IF v1Order # <<>> /\ Complete(v1Order)
         THEN [desktop |-> v1Order, mobile |-> v1Order, hidden |-> FALSE]
         ELSE DefaultLayout

LayoutInit ==
    /\ v1Order \in {<<>>, Reverse(Usual), Tail(Usual)}
    /\ layoutStore = <<>> /\ layout = DefaultLayout /\ rejected = FALSE
    /\ open = FALSE /\ mode \in {"desktop", "mobile"}
    /\ editing = FALSE /\ role \in Roles

Load ==
    /\ ~open /\ open' = TRUE /\ editing' = FALSE
    /\ layout' = Loaded /\ layoutStore' = <<Loaded>>
    /\ rejected' = (rejected \/ (layoutStore # <<>> /\ ~Parses(layoutStore[1])))
    /\ UNCHANGED <<v1Order, mode, role>>
Close ==
    /\ open /\ open' = FALSE
    /\ UNCHANGED <<layout, layoutStore, v1Order, rejected, mode, editing, role>>

-----------------------------------------------------------------------------
(* What is on the grid, and what is read back from it.                     *)

\* Only an owner edits the layout; an operator has the manual controls too.
Editing == editing /\ role = "owner"
OnShow(id) == (id = Controls => role # "viewer") /\ (id = Events => Editing \/ ~layout.hidden)
OnGrid == SelectSeq(layout.desktop, OnShow)

\* Mutant: a change is saved only with the next load.
Commit_InMemory(next) ==
    /\ layout' = next
    /\ UNCHANGED <<layoutStore, v1Order, rejected, open, mode, editing, role>>

\* commitLayout.
Commit(next) ==
    /\ layout' = next /\ layoutStore' = <<next>>
    /\ UNCHANGED <<v1Order, rejected, open, mode, editing, role>>

\* A fit finds a widget whose content needs another height: on the desktop the grid is
\* read back, on mobile the measured heights are saved with the layout as it is.
Fit ==
    /\ open
    /\ \/ mode = "desktop" /\ Commit([layout EXCEPT !.desktop = OnGrid])
       \/ mode = "mobile" /\ Commit(layout)

Compact == open /\ Editing /\ mode = "desktop" /\ Commit([layout EXCEPT !.desktop = OnGrid])

\* dragstop, resizestop: the widgets on the grid in any order.
Drag ==
    /\ open /\ Editing /\ mode = "desktop"
    /\ \E order \in SetToSeqs(ToSet(OnGrid)) : Commit([layout EXCEPT !.desktop = order])

\* moveDashboardItem: the place of the neighbour in the whole list, hidden ones included.
Swapped(order, i, j) == [order EXCEPT ![i] = order[j], ![j] = order[i]]
Neighbour(order, id, offset) ==
    {j \in 1..Len(order) : \E i \in 1..Len(order) : order[i] = id /\ j = i + offset}

\* Move earlier, Move later; the desktop is compacted right after, without the hidden ones.
MoveItem(id, offset) ==
    /\ open /\ Editing
    /\ IF mode = "mobile"
       THEN \E j \in Neighbour(layout.mobile, id, offset) :
              Commit([layout EXCEPT !.mobile = Swapped(@, j - offset, j)])
       ELSE \E j \in Neighbour(layout.desktop, id, offset) :
              Commit([layout EXCEPT !.desktop = SelectSeq(Swapped(@, j - offset, j), OnShow)])

ResetLayout == open /\ Editing /\ Commit(DefaultLayout)
ToggleEventsHidden == open /\ Editing /\ Commit([layout EXCEPT !.hidden = ~@])

Edit ==
    /\ open /\ role = "owner" /\ editing' = ~editing
    /\ UNCHANGED <<layout, layoutStore, v1Order, rejected, open, mode, role>>
Resize ==
    /\ mode' = IF mode = "desktop" THEN "mobile" ELSE "desktop"
    /\ UNCHANGED <<layout, layoutStore, v1Order, rejected, open, editing, role>>
RoleChanges ==
    /\ role' \in Roles \ {role}
    /\ UNCHANGED <<layout, layoutStore, v1Order, rejected, open, mode, editing>>

LayoutNext ==
    \/ Load \/ Close \/ Fit \/ Compact \/ Drag
    \/ \E id \in Widgets, offset \in {0 - 1, 1} : MoveItem(id, offset)
    \/ ResetLayout \/ ToggleEventsHidden \/ Edit \/ Resize \/ RoleChanges

LayoutSpec == LayoutInit /\ [][LayoutNext]_layoutVars

-----------------------------------------------------------------------------
(* Properties.                                                             *)

\* A layout that still lists every widget comes back as it was left after the dashboard
\* is closed and opened again, whatever was moved, hidden, reset or fitted in between.
WholeLayoutSurvives ==
    [][~open /\ open' /\ layoutStore # <<>> /\ Complete(layout.desktop) => layout' = layout]_layoutVars
=============================================================================
