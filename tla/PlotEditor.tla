----------------------------- MODULE PlotEditor -----------------------------
(***************************************************************************)
(* The plots of the analysis workspace (plot-layout, AnalysisPlotStack,      *)
(* AnalysisSignalPicker, PlotAssignMenu) and its list of saved views. A plot *)
(* has an id, its signals and those of them on the right axis; the order of  *)
(* signals within a plot is left out. A drag carries one signal or the       *)
(* signals of a message.                                                     *)
(***************************************************************************)
EXTENDS Naturals, Sequences, FiniteSets
LOCAL INSTANCE SequencesExt

CONSTANTS
    KnownSignals,    \* the season's sensor list
    Messages,        \* sets of known signals the picker groups
    StoredLayout,    \* the layout in localStorage at the first load
    MAX_TOTAL_SIGNALS,
    MaxViews         \* bound: saved views made in a run

NEW_PLOT == 0
NoTarget == 0

VARIABLES
    plots,       \* the layout
    pruned,      \* the sensor list is here
    storage,     \* analysis-layout in localStorage: the contents of the plots
    menu,        \* signal -> its PlotAssignMenu: open, focusIndex
    viewsThere, viewsShown, viewAnswers,   \* saved views: at the server, in the list, answers under way
    armed, confirmed, deleted              \* confirmDelete; ghosts: what the user confirmed, what was deleted
editing == <<plots, storage>>
viewList == <<viewsThere, viewsShown, viewAnswers, armed, confirmed, deleted>>
plotVars == <<editing, pruned, menu, viewList>>

-----------------------------------------------------------------------------
(* plot-layout.ts *)

SignalsOf(layout) == UNION {layout[i].sigs : i \in DOMAIN layout}
RightOf(layout) == UNION {layout[i].right : i \in DOMAIN layout}
Selected == SignalsOf(plots)
Ids(layout) == {layout[i].id : i \in DOMAIN layout}
FreshId(layout) == CHOOSE n \in 1..Len(layout) + 1 : n \notin Ids(layout)
Contents(layout) == [i \in DOMAIN layout |-> [sigs |-> layout[i].sigs, right |-> layout[i].right]]

Mapped(layout, F(_)) == [i \in DOMAIN layout |-> F(layout[i])]
PruneEmpty(layout) == SelectSeq(layout, LAMBDA g : g.sigs # {})
RemoveSignals(layout, gone) ==
    PruneEmpty(Mapped(layout, LAMBDA g : [g EXCEPT !.sigs = @ \ gone, !.right = @ \ gone]))

ToggleSignal(layout, s) ==
    IF s \in SignalsOf(layout) THEN RemoveSignals(layout, {s})
    ELSE IF Cardinality(SignalsOf(layout)) + 1 > MAX_TOTAL_SIGNALS THEN layout
    ELSE Append(layout, [id |-> FreshId(layout), sigs |-> {s}, right |-> {}])

\* Mutants: no cap, signals left where they were, the axis forgotten.
FitsAlways(layout, sigs) == TRUE
Fits(layout, sigs) == Cardinality(SignalsOf(layout) \cup sigs) <= MAX_TOTAL_SIGNALS
CopiedOut(layout, sigs) == layout
CutOut(layout, sigs) == RemoveSignals(layout, sigs)
MovedLeft(layout, sigs) == {}
MovedRight(layout, sigs) == RightOf(layout) \cap sigs

AssignSignals(layout, sigs, target) ==
    LET removed == CutOut(layout, sigs)
        right == MovedRight(layout, sigs)
    IN  IF sigs = {} \/ target \notin Ids(layout) \cup {NEW_PLOT} \/ ~Fits(layout, sigs) THEN layout
        ELSE IF target = NEW_PLOT
        THEN Append(removed, [id |-> FreshId(layout), sigs |-> sigs, right |-> right])
        ELSE Mapped(removed, LAMBDA g : IF g.id = target
                                        THEN [g EXCEPT !.sigs = @ \cup sigs, !.right = @ \cup right] ELSE g)

ClearRightAxis(layout, sigs) == Mapped(layout, LAMBDA g : [g EXCEPT !.right = @ \ sigs])
ToggleRight(g, s) == [g EXCEPT !.right = IF s \in @ THEN @ \ {s} ELSE @ \cup {s}]
ToggleRightAxis(layout, target, s) ==
    Mapped(layout, LAMBDA g : IF g.id = target /\ s \in g.sigs THEN ToggleRight(g, s) ELSE g)

\* Mutant: signals that are on the right already are toggled too.
AllToRight(g, sigs) == sigs \cap g.sigs
ToRight(g, sigs) == (sigs \cap g.sigs) \ g.right
Flipped(right, sigs) == (right \cup sigs) \ (right \cap sigs)
\* handleAssignSignalsToAxis: assigned first, then put on the axis of the drop zone.
AssignToAxis(layout, sigs, target, axis) ==
    LET next == AssignSignals(layout, sigs, target)
    IN  IF axis = "left" THEN ClearRightAxis(next, sigs)
        ELSE IF SignalsOf(next) \cap sigs = {} THEN next
        ELSE LET at == CHOOSE i \in DOMAIN next : /\ next[i].sigs \cap sigs # {}
                                                  /\ \A j \in 1..i-1 : next[j].sigs \cap sigs = {}
             IN  [next EXCEPT ![at].right = Flipped(@, ToRight(next[at], sigs))]

\* parseLayout and pruneUnknown.
Parsed(stored) ==
    Mapped([i \in DOMAIN stored |-> [id |-> i, sigs |-> stored[i].sigs, right |-> stored[i].right]],
           LAMBDA g : [g EXCEPT !.right = @ \cap g.sigs])
PruneUnknown(layout) == RemoveSignals(layout, SignalsOf(layout) \ KnownSignals)
\* Mutant: the axes are not stored.
StoresSignals(layout) == [i \in DOMAIN layout |-> [sigs |-> layout[i].sigs, right |-> {}]]
Serialized(layout) == Contents(layout)

\* setPlots with the effect that stores the layout; menus of signals that left are gone.
SetPlots(layout) ==
    /\ plots' = layout /\ storage' = Serialized(layout)
    /\ menu' = [s \in DOMAIN menu |-> IF s \in SignalsOf(layout) THEN menu[s] ELSE [open |-> FALSE, focus |-> 1]]
Keeps == UNCHANGED <<pruned, viewList>>

-----------------------------------------------------------------------------
(* Picker, plot cards and drop zones *)

SensorListArrives == ~pruned /\ pruned' = TRUE /\ SetPlots(PruneUnknown(plots)) /\ UNCHANGED viewList

\* A chip of the picker; at the cap only selected ones can be clicked.
PickSignal(s) ==
    /\ pruned /\ (s \in Selected \/ Cardinality(Selected) < MAX_TOTAL_SIGNALS)
    /\ SetPlots(ToggleSignal(plots, s)) /\ Keeps
ClearAll == Selected # {} /\ SetPlots(<<>>) /\ Keeps
\* A double click on a message puts all its signals into a new plot.
PlotMessage(m) == pruned /\ SetPlots(AssignSignals(plots, m, NEW_PLOT)) /\ Keeps

RemoveChip(s) == s \in Selected /\ SetPlots(ToggleSignal(plots, s)) /\ Keeps
\* The axis badge is there for plots of several signals.
AxisBadge(i, s) ==
    /\ s \in plots[i].sigs /\ Cardinality(plots[i].sigs) > 1
    /\ SetPlots(ToggleRightAxis(plots, plots[i].id, s)) /\ Keeps

Payloads == Messages \cup {{s} : s \in KnownSignals}
DropOnNew(sigs) == pruned /\ SetPlots(AssignSignals(plots, sigs, NEW_PLOT)) /\ Keeps
DropOnCard(sigs, i) == pruned /\ SetPlots(AssignSignals(plots, sigs, plots[i].id)) /\ Keeps
\* The zone lies within the card: its drop bubbles, and the card assigns once more.
DropOnAxis(sigs, i, axis) ==
    /\ pruned
    /\ SetPlots(AssignSignals(AssignToAxis(plots, sigs, plots[i].id, axis), sigs, plots[i].id)) /\ Keeps

-----------------------------------------------------------------------------
(* The plot menu of a selected signal: the plots in order, then a new one *)

MenuTarget(k) == IF k \in DOMAIN plots THEN plots[k].id ELSE NEW_PLOT
\* A click on a trigger: the mousedown closes any other menu first.
Triggered(s) == [t \in DOMAIN menu |-> IF t = s THEN [menu[t] EXCEPT !.open = ~@] ELSE [menu[t] EXCEPT !.open = FALSE]]
OpenMenu(s) == /\ pruned /\ s \in Selected \cap KnownSignals
               /\ menu' = Triggered(s) /\ UNCHANGED <<editing, pruned, viewList>>
\* Keys and the mouse move the focus to any item.
MenuKey(s) ==
    /\ menu[s].open
    /\ \E k \in 1..Len(plots) + 1 : menu' = [menu EXCEPT ![s].focus = k]
    /\ UNCHANGED <<editing, pruned, viewList>>
MenuEscape(s) == menu[s].open /\ menu' = [menu EXCEPT ![s].open = FALSE] /\ UNCHANGED <<editing, pruned, viewList>>
\* Enter in every open menu, or a click on an item: assigned, and closed. A focus beyond the
\* items throws before anything is assigned.
MenuEnter ==
    \E s \in {t \in DOMAIN menu : menu[t].open} :
        /\ menu[s].focus \in 1..Len(plots) + 1
        /\ plots' = AssignSignals(plots, {s}, MenuTarget(menu[s].focus)) /\ storage' = Serialized(plots')
        /\ menu' = [t \in DOMAIN menu |-> IF t = s \/ t \notin SignalsOf(plots')
                                          THEN [menu[t] EXCEPT !.open = FALSE] ELSE menu[t]]
        /\ Keeps

\* The page is loaded again: ids are made anew, the sensor list comes later.
Reload ==
    /\ plots' = Parsed(storage) /\ UNCHANGED storage
    /\ pruned' = FALSE /\ menu' = [s \in DOMAIN menu |-> [open |-> FALSE, focus |-> 1]]
    /\ viewAnswers' = {viewsThere} /\ viewsShown' = <<>> /\ armed' = NoTarget
    /\ UNCHANGED <<viewsThere, confirmed, deleted>>

-----------------------------------------------------------------------------
(* Saved views: a list at the server, shared by everyone *)

Refreshed(there) == viewAnswers' = viewAnswers \cup {there}
SaveView ==
    /\ plots # <<>> /\ Len(viewsThere) + Cardinality(deleted) < MaxViews
    /\ \/ viewsThere' = <<1 + Len(viewsThere) + Cardinality(deleted)>> \o viewsThere /\ Refreshed(viewsThere')
       \/ UNCHANGED <<viewsThere, viewAnswers>>
    /\ UNCHANGED <<editing, pruned, menu, viewsShown, armed, confirmed, deleted>>
ViewsAnswered ==
    /\ \E there \in viewAnswers : viewsShown' = there /\ viewAnswers' = viewAnswers \ {there}
    /\ UNCHANGED <<editing, pruned, menu, viewsThere, armed, confirmed, deleted>>

\* Delete asks once: the row's button is armed by the view's id.
ArmDelete(i) ==
    /\ i \in DOMAIN viewsShown /\ armed' = viewsShown[i] /\ confirmed' = viewsShown[i]
    /\ UNCHANGED <<editing, pruned, menu, viewsThere, viewsShown, viewAnswers, deleted>>
CancelDelete == armed # NoTarget /\ armed' = NoTarget
                /\ UNCHANGED <<editing, pruned, menu, viewsThere, viewsShown, viewAnswers, confirmed, deleted>>
\* Mutant: the row is remembered by its place in the list.
RowOfPlace(i) == armed # NoTarget /\ i = 1
ArmedRow(i) == viewsShown[i] = armed
\* The list is fetched again whether or not the server deleted the view.
DeleteView(i) ==
    /\ i \in DOMAIN viewsShown /\ ArmedRow(i) /\ armed' = NoTarget
    /\ \/ /\ viewsThere' = SelectSeq(viewsThere, LAMBDA v : v # viewsShown[i])
          /\ deleted' = deleted \cup {viewsShown[i]}
       \/ UNCHANGED <<viewsThere, deleted>>
    /\ Refreshed(viewsThere')
    /\ UNCHANGED <<editing, pruned, menu, viewsShown, confirmed>>

-----------------------------------------------------------------------------
PlotInit ==
    /\ plots = Parsed(StoredLayout) /\ storage = StoredLayout /\ pruned = FALSE
    /\ menu = [s \in KnownSignals |-> [open |-> FALSE, focus |-> 1]]
    /\ viewsThere = <<>> /\ viewsShown = <<>> /\ viewAnswers = {<<>>}
    /\ armed = NoTarget /\ confirmed = NoTarget /\ deleted = {}

-----------------------------------------------------------------------------
(* What must hold *)

\* Whatever is dragged, clicked and picked from menus, in any order: a signal is in one
\* plot at most, no plot is empty, and an axis holds only signals of its plot.
EachSignalOnce ==
    /\ \A i \in DOMAIN plots : plots[i].sigs # {} /\ plots[i].right \subseteq plots[i].sigs
    /\ \A i, j \in DOMAIN plots : plots[i].sigs \cap plots[j].sigs # {} => i = j

\* The total of signals the server is asked for at once stays within the cap.
CapHeld == Cardinality(Selected) <= MAX_TOTAL_SIGNALS

\* A signal that is moved keeps its axis.
MovesKeepAxis ==
    [][(\E p \in Payloads : DropOnNew(p) \/ \E i \in DOMAIN plots : DropOnCard(p, i))
       => \A s \in Selected \cap SignalsOf(plots') : s \in RightOf(plots') <=> s \in RightOf(plots)]_plots

\* A drop on an axis zone puts what it moved on that axis, although the card handles the
\* same drop a second time.
DropsReachAxis ==
    [][\A p \in Payloads, i \in DOMAIN plots :
         /\ DropOnAxis(p, i, "right") /\ Fits(plots, p) => p \cap SignalsOf(plots') \subseteq RightOf(plots')
         /\ DropOnAxis(p, i, "left") => p \cap RightOf(plots') = {}]_plots

\* The plots come back after a reload as they were left, axes included.
ReloadsAsLeft == [][Reload => Contents(plots') = Contents(plots)]_plotVars

\* What is deleted is the view whose row the user confirmed, also when the list is
\* replaced between the two clicks.
DeletesWhatWasConfirmed == [][deleted' # deleted => deleted' \ deleted = {confirmed}]_deleted

\* Plots and saved views are as the user arranged them, through drags, menus, lists of the
\* server and reloads (plot-layout, AnalysisConfigMenu).
PlotsAsArranged ==
    /\ [](EachSignalOnce /\ CapHeld)
    /\ MovesKeepAxis /\ DropsReachAxis /\ ReloadsAsLeft /\ DeletesWhatWasConfirmed
=============================================================================
