----------------------------- MODULE TraceView -----------------------------
(***************************************************************************)
(* Pecan's trace page and the trace panel over the dashboard: both show the   *)
(* store's trace through a throttled copy of it, the page with a cursor, a    *)
(* filter and a list that follows its end, the panel with a snapshot of its   *)
(* own while paused.                                                        *)
(***************************************************************************)
EXTENDS Integers, Sequences, FiniteSets
LOCAL INSTANCE SequencesExt
LOCAL INSTANCE FiniteSetsExt

CONSTANTS
    FrameIds,
    Filters,        \* what may be typed into the filter: sets of ids it lets through; AllIds is the empty filter
    ReplayTraces,   \* traces of replay files
    MaxTrace, MaxFrames,    \* the trace's cap; bound: frames that arrive
    MaxRows,        \* rows of the panel
    Xs, ScreenWidth, Header, MinWidth   \* pointer positions; the screen; what of the panel stays on it; the least width
ASSUME TraceAssumption ==
    /\ {MaxTrace, MaxFrames, MaxRows, ScreenWidth, Header, MinWidth} \subseteq Nat /\ Xs \subseteq Nat
    /\ MaxTrace > 0 /\ Header < ScreenWidth

Latest0 == -1           \* the timeline follows what arrives
AllIds == FrameIds
Viewers == {"page", "strip"}    \* Trace, TracePanel
Margin == 1

VARIABLES
    traces, arrived,        \* the stores' traces: [id, dir, at]; frames so far
    traceSource, traceCursor,   \* of the timeline
    frames, due             \* each viewer's copy; its flush is scheduled
traceVars == <<traces, arrived, traceSource, traceCursor, frames, due>>
VARIABLES
    viewMode, filter, game, \* of the page; game: the filter spelled its name
    autoScroll, userScrolling, atBottom,    \* the list: follows; isUserScrolling; it shows its end
    exported
traceListVars == <<viewMode, filter, game, autoScroll, userScrolling, atBottom, exported>>
VARIABLES stripOpen, stripPaused, snapshotRows,     \* the panel
          stripAt, stripWidth, grip, stretch        \* its left edge and width; drag and resize: where they began
stripVars == <<stripOpen, stripPaused, snapshotRows, stripAt, stripWidth, grip, stretch>>
traceViewVars == <<traceVars, traceListVars, stripVars>>

Idle == -1

-----------------------------------------------------------------------------
(* What is shown *)

UpTo(fs, c) == IF c = Latest0 THEN fs ELSE SelectSeq(fs, LAMBDA f : f.at <= c)
FilteredFrames(fs, c, ids) == SelectSeq(UpTo(fs, c), LAMBDA f : f.id \in ids)
\* buildEnriched: rows numbered, each with the time since its id's row before.
BuildEnriched(fs) ==
    [i \in DOMAIN fs |->
        LET before == {j \in 1..(i - 1) : fs[j].id = fs[i].id} IN
        [id |-> fs[i].id, at |-> fs[i].at, index |-> i, delta |-> IF before = {} THEN -1 ELSE fs[i].at - fs[Max(before)].at]]
\* The fixed view: each id's last row, in the order the ids were first seen.
\* Mutant: its first row.
FirstRows(rows) == [k \in 1..Cardinality({rows[i].id : i \in DOMAIN rows}) |->
    LET firsts == SetToSortSeq({Min({j \in DOMAIN rows : rows[j].id = x}) : x \in {rows[i].id : i \in DOMAIN rows}}, LAMBDA a, b : a < b) IN rows[firsts[k]]]
Fixed(rows) ==
    LET of(x) == {j \in DOMAIN rows : rows[j].id = x}
        ids == SetToSortSeq({rows[i].id : i \in DOMAIN rows}, LAMBDA x, y : Min(of(x)) < Min(of(y)))
    IN  [k \in DOMAIN ids |-> rows[Max(of(ids[k]))]]
PageRows == BuildEnriched(FilteredFrames(frames["page"], traceCursor, filter))
\* Mutant: the panel pauses on what arrives.
AlwaysFrames == frames["strip"]
ActiveSource == IF stripPaused THEN snapshotRows ELSE frames["strip"]
\* The newest rows of the direction the panel is for.
Visible == LET fs == SelectSeq(UpTo(ActiveSource, traceCursor), LAMBDA f : f.dir = "tx") IN
    SubSeq(fs, Max({1, Len(fs) - MaxRows + 1}), Len(fs))

\* After a render: a list that is gone, or new, knows no scrolling; one that follows scrolls to its end
\* unless the user last scrolled up.
ListShown(v, fs, c, ids) == v = "scroll" /\ FilteredFrames(fs, c, ids) # <<>>
Renders(auto, user) ==
    LET was == ListShown(viewMode, frames["page"], traceCursor, filter)
        is == ListShown(viewMode', frames'["page"], traceCursor', filter')
        follows == auto /\ traceCursor' = Latest0
    IN  /\ autoScroll' = auto
        /\ userScrolling' = (was /\ is /\ user)
        /\ atBottom' = (is /\ ((was /\ atBottom) \/ (follows /\ ~userScrolling')))
KeepsList == UNCHANGED <<viewMode, filter, game, exported>>

-----------------------------------------------------------------------------
(* The store and the copies *)

\* The store tells both viewers; each flushes later, once.
FrameArrives(id, dir) ==
    /\ traceSource = "live" /\ arrived < MaxFrames /\ arrived' = arrived + 1
    /\ LET t == Append(traces["live"], [id |-> id, dir |-> dir, at |-> arrived']) IN
       traces' = [traces EXCEPT !["live"] = IF Len(t) > MaxTrace THEN Tail(t) ELSE t]
    /\ due' = [v \in Viewers |-> TRUE]
    /\ UNCHANGED <<traceSource, traceCursor, frames, traceListVars, stripVars>>
Flush(v) ==
    /\ due[v] /\ due' = [due EXCEPT ![v] = FALSE]
    /\ frames' = [frames EXCEPT ![v] = traces[traceSource]]
    /\ UNCHANGED <<traces, arrived, traceSource, traceCursor, stripVars>> /\ KeepsList
    /\ Renders(autoScroll, userScrolling)
\* clearTrace: the store's trace and the caller's copy; the other viewer hears of it.
Clears(v) ==
    /\ traces' = [traces EXCEPT ![traceSource] = <<>>] /\ frames' = [frames EXCEPT ![v] = <<>>]
    /\ due' = [w \in Viewers |-> TRUE]
    /\ UNCHANGED <<arrived, traceSource, traceCursor>> /\ KeepsList /\ Renders(autoScroll, userScrolling)
PageCleared == Clears("page") /\ UNCHANGED stripVars
StripCleared ==
    /\ stripOpen /\ Clears("strip") /\ snapshotRows' = <<>> /\ stripPaused' = FALSE
    /\ UNCHANGED <<stripOpen, stripAt, stripWidth, grip, stretch>>

\* Another source: both copies are read again, their timers dropped. Mutant: the copies are left.
KeepsCopy(src) == [v \in Viewers |-> frames[v]]
Resync(src) == [v \in Viewers |-> traces'[src]]
SourceIs(src, c) ==
    /\ traceSource' = src /\ traceCursor' = c
    /\ frames' = Resync(src) /\ due' = [v \in Viewers |-> FALSE]
    /\ UNCHANGED <<arrived, stripVars>> /\ KeepsList
\* Unpausing has the list follow again.
Unpauses(c) == Renders(autoScroll \/ (c = Latest0 /\ traceCursor # Latest0), userScrolling)
ReplayTraceOpens(t) ==
    /\ traces' = [traces EXCEPT !["replay"] = t]
    /\ SourceIs("replay", Max({0} \cup {t[i].at : i \in DOMAIN t})) /\ Unpauses(traceCursor')
ReplayTraceCloses ==
    /\ traceSource = "replay" /\ traces' = [traces EXCEPT !["replay"] = <<>>]
    /\ SourceIs("live", Latest0) /\ Unpauses(Latest0)
CursorMoves(c) ==
    /\ c # traceCursor /\ traceCursor' = c
    /\ UNCHANGED <<traces, arrived, traceSource, frames, due, stripVars>> /\ KeepsList /\ Unpauses(c)
TraceSeeks(c) == c \in 0..MaxFrames /\ CursorMoves(c)
\* The page's pause button is the timeline's.
PagePause == traceSource = "live" /\ CursorMoves(IF traceCursor = Latest0 THEN arrived ELSE Latest0)

-----------------------------------------------------------------------------
(* The page *)

PageOnly == UNCHANGED <<traceVars, stripVars>>
UserScrolls(up) ==
    /\ ListShown(viewMode, frames["page"], traceCursor, filter)
    /\ atBottom' = ~up /\ userScrolling' = up /\ autoScroll' = (autoScroll /\ ~up)
    /\ PageOnly /\ KeepsList
ResumeAutoScroll ==
    /\ viewMode = "scroll" /\ traceCursor = Latest0 /\ ~autoScroll
    /\ PageOnly /\ KeepsList /\ Renders(TRUE, userScrolling)
ChooseTraceView(m) ==
    /\ m # viewMode /\ viewMode' = m /\ PageOnly /\ UNCHANGED <<filter, game, exported>> /\ Renders(autoScroll, userScrolling)
TypeFilter(ids) ==
    /\ ids # filter /\ filter' = ids /\ game' = (game \/ ids = {})
    /\ PageOnly /\ UNCHANGED <<viewMode, exported>> /\ Renders(autoScroll, userScrolling)
GameClosed ==
    /\ game /\ game' = FALSE /\ filter' = AllIds
    /\ PageOnly /\ UNCHANGED <<viewMode, exported>> /\ Renders(autoScroll, userScrolling)
\* A file of the rows shown, timed from the first of them.
Exports(kind) ==
    /\ PageRows # <<>>
    /\ exported' = [kind |-> kind, rows |-> [i \in DOMAIN PageRows |-> Max({0, PageRows[i].at - PageRows[1].at})]]
    /\ PageOnly /\ UNCHANGED <<viewMode, filter, game, autoScroll, userScrolling, atBottom>>
ExportTrace == Exports("csv")
ExportPecan == Exports("pecan")

-----------------------------------------------------------------------------
(* The panel *)

StripOnly == UNCHANGED <<traceVars, traceListVars>>
StripPause ==
    /\ stripOpen /\ stripPaused' = ~stripPaused
    /\ snapshotRows' = IF stripPaused THEN snapshotRows ELSE frames["strip"]
    /\ StripOnly /\ UNCHANGED <<stripOpen, stripAt, stripWidth, grip, stretch>>
\* Without a handler of its own the panel folds into a pill.
StripFolds ==
    /\ stripOpen' = ~stripOpen /\ grip' = Idle /\ stretch' = Idle
    /\ StripOnly /\ UNCHANGED <<stripPaused, snapshotRows, stripAt, stripWidth>>
MovesStrip == stripOpen /\ StripOnly /\ UNCHANGED <<stripOpen, stripPaused, snapshotRows>>
GripTaken(x) ==
    /\ grip = Idle /\ stretch = Idle /\ x >= stripAt /\ x < stripAt + stripWidth
    /\ grip' = x - stripAt /\ MovesStrip /\ UNCHANGED <<stripAt, stripWidth, stretch>>
Clamped(x) == Max({Margin, Min({ScreenWidth - Margin - Header, x - grip})})
Dragged(x) == grip # Idle /\ stripAt' = Clamped(x) /\ MovesStrip /\ UNCHANGED <<stripWidth, grip, stretch>>
HandleTaken(x) ==
    /\ grip = Idle /\ stretch = Idle /\ x = stripAt + stripWidth
    /\ stretch' = x - stripWidth /\ MovesStrip /\ UNCHANGED <<stripAt, stripWidth, grip>>
Resized(x) ==
    /\ stretch # Idle /\ stripWidth' = Max({MinWidth, Min({x - stretch, ScreenWidth - 4 * Margin})})
    /\ MovesStrip /\ UNCHANGED <<stripAt, grip, stretch>>
PointerUp == (grip # Idle \/ stretch # Idle) /\ grip' = Idle /\ stretch' = Idle /\ MovesStrip /\ UNCHANGED <<stripAt, stripWidth>>

TraceInit ==
    /\ traces = [s \in {"live", "replay"} |-> <<>>] /\ arrived = 0 /\ traceSource = "live" /\ traceCursor = Latest0
    /\ frames = [v \in Viewers |-> <<>>] /\ due = [v \in Viewers |-> FALSE]
    /\ viewMode = "scroll" /\ filter = AllIds /\ game = FALSE
    /\ autoScroll = TRUE /\ userScrolling = FALSE /\ atBottom = FALSE /\ exported = [kind |-> "none", rows |-> <<>>]
    /\ stripOpen = TRUE /\ stripPaused = FALSE /\ snapshotRows = <<>>
    /\ stripWidth = MinWidth /\ stripAt = Max({Margin, ScreenWidth - MinWidth - 2 * Margin}) /\ grip = Idle /\ stretch = Idle

-----------------------------------------------------------------------------
(* Properties *)

\* A viewer whose copy is not what the store has will read it again: throttling loses no last frame, nor
\* a clear by the other viewer, nor a change of source.
NothingForgotten == \A v \in Viewers : frames[v] # traces[traceSource] => due[v]
\* The fixed view has one row of each id the scrolled view shows, its newest, and the delta there is the
\* time to the row of that id before it.
FixedIsNewest ==
    LET rows == PageRows
        table == Fixed(rows)
    IN  /\ {table[k].id : k \in DOMAIN table} = {rows[i].id : i \in DOMAIN rows}
        /\ \A k, l \in DOMAIN table : k # l => table[k].id # table[l].id
        /\ \A k \in DOMAIN table, i \in DOMAIN rows :
             rows[i].id = table[k].id => rows[i].index <= table[k].index /\ (rows[i].index < table[k].index => table[k].delta <= table[k].at - rows[i].at)
\* Rows under a paused panel stand still: frames, evictions and a clear by the page do not move them.
PausedStripStands ==
    [][stripPaused /\ stripPaused' /\ traceCursor' = traceCursor => Visible' = Visible]_traceViewVars
=============================================================================
