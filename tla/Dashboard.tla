----------------------------- MODULE Dashboard -----------------------------
(***************************************************************************)
(* Pecan's dashboard page: its plots and their swap for the layout of a      *)
(* replay, the copy of page settings in the user's cloud document, the       *)
(* order of the list, the tour, and the rate each row shows. Setting state   *)
(* and the effects React runs after it are one action.                       *)
(***************************************************************************)
EXTENDS Naturals, Sequences, FiniteSets
LOCAL INSTANCE SequencesExt
LOCAL INSTANCE FiniteSetsExt

CONSTANTS
    Sigs,           \* signals of the messages listed
    ReplayLayouts,  \* layouts replay files carry: sequences of [id, sigs]
    Users,
    CloudConfigs,   \* what the users' documents hold when the page is opened
    MaxReplays      \* bound: replays loaded
ASSUME DashboardAssumption == MaxReplays \in Nat

Nobody == "nobody"
NoConfig == [plots |-> <<>>, view |-> "none", method |-> "none"]
NoMenu == "closed"
Methods == {"name", "category", "id"}

VARIABLES
    onPage, plots, snapshot, applied,   \* livePlotsSnapshotRef, replayLayoutAppliedRef (0: false)
    dashPlots,                          \* localStorage dash:plots
    source, loadedAt, layouts,          \* the timeline's source and replay session
    livePlots, strayed,                 \* ghosts: the plots when replay began; the page was left or reloaded since
    menuFor                             \* plotControls: the signal it is open for
swapVars == <<onPage, plots, snapshot, applied, dashPlots, source, loadedAt, layouts, livePlots, strayed, menuFor>>
VARIABLES
    account, user,          \* signed in at Firebase; as useRemoteConfig knows it
    cloud, saving, older,   \* documents; the debounced save; saves of earlier users and mounts, oldest first
    asking, saveLost        \* users whose config was asked for; ghost: the last save failed
cloudVars == <<account, user, cloud, saving, older, asking, saveLost>>
VARIABLES view, dashView, sortMenu, method, prev, dirs, icon, listed, recent   \* recent: ghost, data came after the last click
orderVars == <<view, dashView, sortMenu, method, prev, dirs, icon, listed, recent>>
VARIABLES tourOpen, tourStep, tourSeen, tourTimer
tourVars == <<tourOpen, tourStep, tourSeen, tourTimer>>
VARIABLES unfolded,   \* the message's row, its card
          flow, hz, inView, rowMode, panel, overlay   \* a row's message arrives, its rate; trace panel, performance overlay
rateVars == <<flow, hz, inView, rowMode, panel, overlay>>
rowVars == <<unfolded, rateVars>>
dashVars == <<swapVars, cloudVars, orderVars, tourVars, rowVars>>

-----------------------------------------------------------------------------
(* Settings and the cloud *)

Config(ps, v, m) == [plots |-> ps, view |-> v, method |-> m]
\* Mutant: a sort is not saved.
SavesPlots(c) == IF user = Nobody \/ ~onPage THEN saving ELSE [by |-> user, config |-> [c EXCEPT !.method = "name"]]
SaveEffect(c) == IF user = Nobody \/ ~onPage THEN saving ELSE [by |-> user, config |-> c]
NoSave == [by |-> Nobody, config |-> NoConfig]
\* setPlots, with what is stored and saved of it.
SetPlots(ps) ==
    /\ plots' = ps /\ dashPlots' = ps
    /\ saving' = SaveEffect(Config(ps, view, method))

\* Mutant: the icon is chosen before the direction turns.
TurnsIconFirst(m) ==
    LET turned == IF prev = m THEN [dirs EXCEPT ![m] = 1 - @] ELSE dirs
    IN  dirs' = turned /\ prev' = m /\ icon' = [of |-> m, dir |-> IF m = "category" THEN 0 ELSE dirs[m]]
SortEffect(m) ==
    LET turned == IF prev = m THEN [dirs EXCEPT ![m] = 1 - @] ELSE dirs
    IN  dirs' = turned /\ prev' = m /\ icon' = [of |-> m, dir |-> IF m = "category" THEN 0 ELSE turned[m]]
Sorted(m) == [of |-> m, dir |-> dirs[m]]

\* The session changes: the config is asked for, and what is on the page is to be saved.
Retired == IF saving = NoSave THEN older ELSE Append(older, saving)
AuthArrives ==
    /\ onPage /\ user # account /\ user' = account
    /\ older' = Retired
    /\ IF account = Nobody THEN saving' = NoSave /\ UNCHANGED asking
       ELSE saving' = [by |-> account, config |-> Config(plots, view, method)] /\ asking' = asking \cup {account}
    /\ UNCHANGED <<account, cloud, saveLost, swapVars, orderVars, tourVars, rowVars>>
SignInOrOut(u) ==
    /\ u # account /\ (u = Nobody \/ account = Nobody) /\ account' = u
    /\ UNCHANGED <<user, cloud, saving, older, asking, saveLost, swapVars, orderVars, tourVars, rowVars>>
\* loadConfig: applied in one render, whoever is signed in by then; nothing stored or an error changes nothing.
ConfigArrives(u) ==
    /\ u \in asking /\ asking' = asking \ {u}
    /\ LET c == cloud[u] IN
       IF c = NoConfig THEN UNCHANGED <<swapVars, saving, orderVars>>
       ELSE /\ plots' = c.plots /\ dashPlots' = c.plots
            /\ view' = c.view /\ dashView' = c.view /\ method' = c.method
            /\ saving' = SaveEffect(c)
            /\ IF c.method = method THEN UNCHANGED <<sortMenu, prev, dirs, icon, listed>>
               ELSE SortEffect(c.method) /\ listed' = Sorted(c.method) /\ sortMenu' = FALSE
            /\ recent' = FALSE
            /\ UNCHANGED <<onPage, snapshot, applied, source, loadedAt, layouts, livePlots, strayed, menuFor>>
    /\ UNCHANGED <<account, user, cloud, older, saveLost, tourVars, rowVars>>
ConfigFails(u) ==
    /\ u \in asking /\ asking' = asking \ {u}
    /\ UNCHANGED <<account, user, cloud, saving, older, saveLost, swapVars, orderVars, tourVars, rowVars>>
\* Two seconds after the last change; timers fire in the order they were set.
SaveFires(ok) ==
    /\ older # <<>> \/ saving # NoSave
    /\ LET save == IF older # <<>> THEN Head(older) ELSE saving IN
       /\ cloud' = IF ok THEN [cloud EXCEPT ![save.by] = save.config] ELSE cloud
       /\ IF older # <<>> THEN older' = Tail(older) /\ UNCHANGED saving
          ELSE saving' = NoSave /\ UNCHANGED older
    /\ saveLost' = ~ok
    /\ UNCHANGED <<account, user, asking, swapVars, orderVars, tourVars, rowVars>>

-----------------------------------------------------------------------------
(* Plots *)

\* Mutant: ids by count.
CountOf(ps) == Len(ps) + 1
NextPlotCounter(ps) == Max({ps[i].id : i \in DOMAIN ps} \cup {0}) + 1
Usable(ps) == SelectSeq(ps, LAMBDA p : p.sigs # {})
Mapped(ps, F(_)) == [i \in DOMAIN ps |-> F(ps[i])]

OrderStays == UNCHANGED orderVars
CloudStays == UNCHANGED <<account, user, cloud, older, asking, saveLost>>
EditsPlots == /\ CloudStays /\ OrderStays
              /\ UNCHANGED <<onPage, snapshot, applied, source, loadedAt, layouts, livePlots, strayed, rowVars>>

Waits(step) == step \in {2, 3}
\* A click on a signal opens its menu, and moves the tour on.
SignalClicked(s) ==
    /\ onPage /\ menuFor' = s
    /\ tourStep' = IF tourOpen /\ tourStep = 2 THEN 3 ELSE tourStep
    /\ UNCHANGED <<onPage, plots, snapshot, applied, dashPlots, source, loadedAt, layouts, livePlots, strayed,
                   tourOpen, tourSeen, tourTimer, cloudVars, orderVars, rowVars>>
RowSignal(s) == view = "list" /\ unfolded.row /\ SignalClicked(s)
CardSignal(s) == view = "cards" /\ unfolded.card /\ SignalClicked(s)
MenuClosed ==
    /\ menuFor # NoMenu /\ menuFor' = NoMenu
    /\ UNCHANGED <<onPage, plots, snapshot, applied, dashPlots, source, loadedAt, layouts, livePlots, strayed,
                   tourVars, cloudVars, orderVars, rowVars>>
\* A choice of the menu closes it.
MenuTaken == menuFor # NoMenu /\ menuFor' = NoMenu
NewPlot ==
    /\ MenuTaken
    /\ SetPlots(Append(plots, [id |-> NextPlotCounter(plots), sigs |-> {menuFor}]))
    /\ tourStep' = IF tourOpen /\ tourStep = 3 THEN 4 ELSE tourStep
    /\ UNCHANGED <<tourOpen, tourSeen, tourTimer>> /\ EditsPlots
AddToPlot(i) ==
    /\ MenuTaken /\ i \in DOMAIN plots
    /\ SetPlots(Mapped(plots, LAMBDA p : IF p.id = plots[i].id THEN [p EXCEPT !.sigs = @ \cup {menuFor}] ELSE p))
    /\ UNCHANGED tourVars /\ EditsPlots
WithoutSignal(i, s) ==
    Usable(Mapped(plots, LAMBDA p : IF p.id = plots[i].id THEN [p EXCEPT !.sigs = @ \ {s}] ELSE p))
\* The mousedown on a plot closes the menu first.
RemoveSignal(i, s) ==
    /\ onPage /\ i \in DOMAIN plots /\ s \in plots[i].sigs
    /\ SetPlots(WithoutSignal(i, s)) /\ menuFor' = NoMenu /\ UNCHANGED tourVars /\ EditsPlots
ClosePlot(i) ==
    /\ onPage /\ i \in DOMAIN plots
    /\ SetPlots(SelectSeq(plots, LAMBDA p : p.id # plots[i].id)) /\ menuFor' = NoMenu /\ UNCHANGED tourVars /\ EditsPlots

-----------------------------------------------------------------------------
(* Replay *)

\* Mutant: every import takes a snapshot.
AlwaysSnapshot == TRUE
FirstReplay == applied = 0
\* The effect on the timeline's source: the file's layout for the live plots, once for each load.
ReplayEffect(at, ls) ==
    /\ snapshot' = IF FirstReplay THEN plots ELSE snapshot
    /\ applied' = at
    /\ IF Usable(ls) = <<>> THEN UNCHANGED <<plots, dashPlots, saving>> ELSE SetPlots(Usable(ls))
ReplayLoaded(ls) ==
    /\ loadedAt < MaxReplays /\ source' = "replay" /\ loadedAt' = loadedAt + 1 /\ layouts' = ls
    /\ IF onPage THEN ReplayEffect(loadedAt + 1, ls) ELSE UNCHANGED <<plots, dashPlots, snapshot, applied, saving>>
    /\ IF source = "live" THEN livePlots' = dashPlots /\ strayed' = FALSE ELSE UNCHANGED <<livePlots, strayed>>
    /\ CloudStays /\ OrderStays /\ UNCHANGED <<onPage, menuFor, tourVars, rowVars>>
BackToLive ==
    /\ source = "replay" /\ source' = "live" /\ layouts' = <<>>
    /\ IF applied = 0 \/ ~onPage THEN UNCHANGED <<plots, dashPlots, snapshot, applied, saving>>
       ELSE SetPlots(snapshot) /\ snapshot' = <<>> /\ applied' = 0
    /\ CloudStays /\ OrderStays /\ UNCHANGED <<onPage, loadedAt, livePlots, strayed, menuFor, tourVars, rowVars>>
\* "Import config only": stored, and taken at once by a dashboard that is there.
PlotsImported(ls) ==
    /\ Usable(ls) # <<>>
    /\ IF onPage THEN SetPlots(Usable(ls)) ELSE dashPlots' = Usable(ls) /\ UNCHANGED <<plots, saving>>
    /\ livePlots' = IF onPage THEN livePlots ELSE Usable(ls)
    /\ CloudStays /\ OrderStays
    /\ UNCHANGED <<menuFor, tourVars, onPage, snapshot, applied, source, loadedAt, layouts, strayed, rowVars>>

\* Another page, and back: component state and refs start over, a pending save still fires.
LeavePage ==
    /\ onPage /\ onPage' = FALSE
    /\ plots' = <<>> /\ snapshot' = <<>> /\ applied' = 0 /\ menuFor' = NoMenu /\ strayed' = TRUE
    /\ user' = Nobody /\ asking' = {} /\ older' = Retired /\ saving' = NoSave
    /\ tourOpen' = FALSE /\ tourStep' = 0 /\ tourTimer' = FALSE
    /\ UNCHANGED <<dashPlots, source, loadedAt, layouts, livePlots, account, cloud, saveLost, tourSeen, orderVars, rowVars>>
Remounted ==
    /\ view' = dashView /\ sortMenu' = FALSE /\ method' = "name" /\ prev' = "name" /\ dirs' = [name |-> 0, category |-> 0, id |-> 1]
    /\ icon' = [of |-> "name", dir |-> 0] /\ listed' = icon' /\ recent' = TRUE
    /\ unfolded' = [row |-> FALSE, card |-> TRUE]
\* A page load: the replay is gone, and saves that were waiting.
Reload ==
    /\ onPage /\ source' = "live" /\ layouts' = <<>>
    /\ plots' = dashPlots /\ snapshot' = <<>> /\ applied' = 0 /\ menuFor' = NoMenu /\ strayed' = TRUE
    /\ user' = Nobody /\ asking' = {} /\ older' = <<>> /\ saving' = NoSave
    /\ Remounted /\ tourOpen' = FALSE /\ tourStep' = 0 /\ tourTimer' = ~tourSeen
    /\ UNCHANGED <<onPage, dashPlots, loadedAt, livePlots, account, cloud, saveLost, dashView, tourSeen, rateVars>>
OpenPage ==
    /\ ~onPage /\ onPage' = TRUE
    /\ IF source = "live" THEN plots' = dashPlots /\ UNCHANGED <<dashPlots, snapshot, applied>>
       ELSE LET ls == Usable(layouts) IN
            /\ snapshot' = dashPlots /\ applied' = loadedAt
            /\ plots' = IF ls = <<>> THEN dashPlots ELSE ls
            /\ dashPlots' = plots'
    /\ Remounted /\ tourTimer' = ~tourSeen
    /\ UNCHANGED <<source, loadedAt, layouts, livePlots, strayed, menuFor, dashView, cloudVars, tourOpen, tourStep, tourSeen, rateVars>>

-----------------------------------------------------------------------------
(* List: order and views; tour; rows *)

\* The list is sorted while rendering, the
\* direction turns in the effect after it.
ChooseSort(m) ==
    /\ onPage /\ method' = m /\ sortMenu' = FALSE /\ listed' = Sorted(m) /\ SortEffect(m) /\ recent' = FALSE
    /\ saving' = IF m = method THEN saving ELSE SaveEffect(Config(plots, view, m))
    /\ CloudStays /\ UNCHANGED <<view, dashView, swapVars, tourVars, rowVars>>
HeaderSort(m) == view = "list" /\ ChooseSort(m)
MenuSort(m) == sortMenu /\ ChooseSort(m)
SortMenuToggled ==
    /\ onPage /\ sortMenu' = ~sortMenu
    /\ UNCHANGED <<view, dashView, method, prev, dirs, icon, listed, recent, swapVars, cloudVars, tourVars, rowVars>>
DataArrives ==
    /\ onPage /\ listed' = Sorted(method) /\ recent' = TRUE
    /\ UNCHANGED <<view, dashView, sortMenu, method, prev, dirs, icon, swapVars, cloudVars, tourVars, rowVars>>
ChooseView(v) ==
    /\ onPage /\ v # view /\ view' = v /\ dashView' = v
    /\ saving' = SaveEffect(Config(plots, v, method))
    /\ CloudStays /\ UNCHANGED <<sortMenu, method, prev, dirs, icon, listed, recent, swapVars, tourVars, rowVars>>

TourStays == UNCHANGED <<swapVars, cloudVars, orderVars, rowVars>>
\* The row the tour points at unfolds.
TourOpens ==
    /\ tourOpen' = TRUE /\ tourStep' = 0
    /\ unfolded' = IF view = "list" THEN [unfolded EXCEPT !.row = TRUE] ELSE unfolded
    /\ UNCHANGED <<tourSeen, swapVars, cloudVars, orderVars, rateVars>>
TutorialTimer == tourTimer /\ tourTimer' = FALSE /\ TourOpens
StartTour == onPage /\ UNCHANGED tourTimer /\ TourOpens
CloseTour == tourOpen /\ tourOpen' = FALSE /\ tourSeen' = TRUE /\ UNCHANGED <<tourStep, tourTimer>> /\ TourStays
HasNext(step) == ~Waits(step) /\ step < 4
TourNext == tourOpen /\ HasNext(tourStep) /\ tourStep' = tourStep + 1 /\ UNCHANGED <<tourOpen, tourSeen, tourTimer>> /\ TourStays
TourFinish == tourOpen /\ tourStep = 4 /\ tourOpen' = FALSE /\ tourSeen' = TRUE /\ UNCHANGED <<tourStep, tourTimer>> /\ TourStays
TourPrev == tourOpen /\ tourStep > 0 /\ tourStep' = tourStep - 1 /\ UNCHANGED <<tourOpen, tourSeen, tourTimer>> /\ TourStays

RowToggled == onPage /\ unfolded' = [unfolded EXCEPT !.row = ~@] /\ UNCHANGED <<rateVars, swapVars, cloudVars, orderVars, tourVars>>
CardToggled == onPage /\ unfolded' = [unfolded EXCEPT !.card = ~@] /\ UNCHANGED <<rateVars, swapVars, cloudVars, orderVars, tourVars>>
RowStays == UNCHANGED <<unfolded, swapVars, cloudVars, orderVars, tourVars>>
\* Frames of a message come or stop; the row recomputes its rate on a timer, not on frames.
MessageTurns == flow' = ~flow /\ UNCHANGED <<hz, inView, rowMode, panel, overlay>> /\ RowStays
\* Mutant: the rate is recomputed when frames come.
TicksOnFrames == inView /\ rowMode = "live" /\ flow
Ticks == inView /\ rowMode = "live"
HzTick == Ticks /\ hz # flow /\ hz' = flow /\ UNCHANGED <<flow, inView, rowMode, panel, overlay>> /\ RowStays
RowScrolled == inView' = ~inView /\ UNCHANGED <<flow, hz, rowMode, panel, overlay>> /\ RowStays
RowPaused == /\ rowMode = "live" /\ rowMode' = "paused" /\ hz' \in BOOLEAN   \* the rate at the cursor
             /\ UNCHANGED <<flow, inView, panel, overlay>> /\ RowStays
RowLive == rowMode = "paused" /\ rowMode' = "live" /\ hz' = flow /\ UNCHANGED <<flow, inView, panel, overlay>> /\ RowStays
TraceClicked == panel' = TRUE /\ UNCHANGED <<flow, hz, inView, rowMode, overlay>> /\ RowStays
TraceClosed == panel /\ panel' = FALSE /\ UNCHANGED <<flow, hz, inView, rowMode, overlay>> /\ RowStays
\* The switch in the settings: stored, and announced to the page.
PerfToggled == overlay' = [on |-> ~overlay.on, timers |-> ~overlay.on] /\ UNCHANGED <<flow, hz, inView, rowMode, panel>> /\ RowStays

DashInit ==
    /\ onPage = TRUE /\ plots = <<>> /\ snapshot = <<>> /\ applied = 0 /\ dashPlots = <<>>
    /\ source = "live" /\ loadedAt = 0 /\ layouts = <<>> /\ livePlots = <<>> /\ strayed = FALSE /\ menuFor = NoMenu
    /\ account = Nobody /\ user = Nobody /\ cloud \in [Users -> CloudConfigs]
    /\ saving = NoSave /\ older = <<>> /\ asking = {} /\ saveLost = FALSE
    /\ view = "list" /\ dashView = "list" /\ sortMenu = FALSE /\ method = "name" /\ prev = "name"
    /\ dirs = [name |-> 0, category |-> 0, id |-> 1] /\ icon = [of |-> "name", dir |-> 0] /\ listed = icon /\ recent = TRUE
    /\ tourOpen = FALSE /\ tourStep = 0 /\ tourSeen = FALSE /\ tourTimer = TRUE
    /\ unfolded = [row |-> FALSE, card |-> TRUE] /\ flow = TRUE /\ hz = TRUE /\ inView = TRUE /\ rowMode = "live" /\ panel = FALSE /\ overlay = [on |-> FALSE, timers |-> FALSE]

-----------------------------------------------------------------------------
(* Properties *)

\* Plots have ids of their own, and none is empty: nextPlotCounter, the filters, and layouts that replace them.
PlotsWellFormed ==
    /\ \A i, j \in DOMAIN plots : plots[i].id = plots[j].id => i = j
    /\ \A i \in DOMAIN plots : plots[i].sigs # {}
\* However many files were imported, leaving replay brings back the plots of before the first,
\* while the dashboard stays open.
LivePlotsReturn == [][source = "replay" /\ source' = "live" /\ onPage /\ ~strayed' => plots' = livePlots]_dashVars
\* With nothing waiting and the last save stored, a signed-in user's document is what the dashboard shows.
CloudAgrees ==
    onPage /\ user # Nobody /\ saving = NoSave /\ older = <<>> /\ ~saveLost => cloud[user] = Config(plots, view, method)
\* Once data came after the last click, the list runs the way the icon shows.
ListFollowsIcon == recent => listed.of = icon.of /\ (icon.of = "category" \/ listed.dir = icon.dir)
Stopped == ~flow /\ inView /\ rowMode = "live"
\* A message that stopped is shown as stopped while its row is in view and live.
StoppedIsSeen == Stopped ~> (~hz \/ ~Stopped)
=============================================================================
