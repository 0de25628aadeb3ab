-------------------------- MODULE SensorValidator ---------------------------
(***************************************************************************)
(* Pecan's sensor validation page: a signal's live value, points captured    *)
(* against a reference by hand or by a timer, the plot drawn of them and the *)
(* table copied out. What a timer's callback reads is what the render that   *)
(* started it saw.                                                           *)
(***************************************************************************)
EXTENDS Integers, Sequences, FiniteSets
LOCAL INSTANCE SequencesExt
LOCAL INSTANCE FiniteSetsExt

CONSTANTS
    Messages,    \* the DBC: message -> its signals in order
    Levels,      \* readings; even, so that the mean of two is one
    References,  \* values typed as reference; NoRef is an empty field
    AverageWindows,  \* samples an average takes
    MaxPoints    \* bound: points captured
ASSUME ValidatorAssumption == MaxPoints \in Nat /\ \A v \in Levels : v \in Nat /\ v % 2 = 0

NoRef == -1
NoSignal == <<"none", "none">>
SignalsIn == {<<m, Messages[m][i]>> : m \in DOMAIN Messages, i \in 1..2}
Scales == {"auto", "dbc", "manual"}

VARIABLES
    selected,     \* selectedSignal
    samples,      \* what the car sent of each signal, newest last
    liveValue,    \* as the page shows it
    refInput, captureMode, averageWindow, autoOn, autoEvery,
    sweep,        \* the running timer's closure: liveValue and signalHistory of its render
    points,       \* capturedPoints: [can, ref, by, of]
    scale, xRange, drawn,   \* of the plot; what was drawn last
    clipboard
validatorVars == <<selected, samples, liveValue, refInput, captureMode, averageWindow, autoOn, autoEvery,
                   sweep, points, scale, xRange, drawn, clipboard>>

NoSweep == [on |-> FALSE, live |-> 0, past |-> <<>>, of |-> NoSignal]

-----------------------------------------------------------------------------
Newest(s) == IF s = NoSignal \/ samples[s] = <<>> THEN 0 ELSE Last(samples[s])
Window(past) == IF Len(past) <= averageWindow THEN past ELSE SubSeq(past, Len(past) - averageWindow + 1, Len(past))
PastOf(s) == IF s = NoSignal THEN <<>> ELSE samples[s]
Mean(past) == FoldLeft(LAMBDA a, b : a + b, 0, past) \div Len(past)
\* calculateStats, of what an average needs: the mean, and the bounds shown with it.
StatsOf(past) == [mean |-> Mean(past), min |-> Min(Range(past)), max |-> Max(Range(past))]

\* The plot is drawn again when points, signal or live value change; not when its scale does.
\* Mutant: it is drawn of the points there were.
DrawsOld(ps, s, live) == drawn' = [points |-> points, of |-> s, live |-> live, scale |-> scale, x |-> xRange]
Draws(ps, s, live) == drawn' = [points |-> ps, of |-> s, live |-> live, scale |-> scale, x |-> xRange]
\* The timer starts over, with what this render sees.
Sweeps(on, s) == IF on /\ s # NoSignal THEN [on |-> TRUE, live |-> liveValue, past |-> PastOf(selected), of |-> selected] ELSE NoSweep

Captured(live, past, s, v, by) ==
    LET stats == StatsOf(Window(past))
        averaged == captureMode = "average" /\ s # NoSignal /\ past # <<>>
    IN  [can |-> IF averaged THEN stats.mean ELSE live, ref |-> v, by |-> by, of |-> selected,
         low |-> IF averaged THEN stats.min ELSE live, high |-> IF averaged THEN stats.max ELSE live]
\* Mutant: points stay in the order they were captured.
AppendsPoint(ps, p) == Append(ps, p)
AddsPoint(ps, p) == SortSeq(Append(ps, p), LAMBDA a, b : a.can < b.can)
Captures(p) ==
    /\ Len(points) < MaxPoints
    /\ points' = AddsPoint(points, p) /\ Draws(points', selected, liveValue)

\* Mutant: by hand the page captures what the timer would.
CapturesSweep == IF sweep.on THEN sweep ELSE [live |-> liveValue, past |-> PastOf(selected), of |-> selected]
Shown == [live |-> liveValue, past |-> PastOf(selected), of |-> selected]
HandleCapture ==
    /\ refInput # NoRef
    /\ Captures(Captured(Shown.live, Shown.past, Shown.of, refInput, "hand"))
    /\ UNCHANGED <<selected, samples, liveValue, refInput, captureMode, averageWindow, autoOn, autoEvery, sweep, scale, xRange, clipboard>>
\* The timer: the reference typed last, the rest as its render saw it.
AutoCapture ==
    /\ sweep.on /\ refInput # NoRef
    /\ Captures(Captured(sweep.live, sweep.past, sweep.of, refInput, "sweep"))
    /\ UNCHANGED <<selected, samples, liveValue, refInput, captureMode, averageWindow, autoOn, autoEvery, sweep, scale, xRange, clipboard>>

\* A sample of a signal; the page shows it at once, if it differs.
SampleArrives(s, v) ==
    /\ Len(samples[s]) < 3      \* bound
    /\ samples' = [samples EXCEPT ![s] = Append(@, v)]
    /\ liveValue' = IF s = selected THEN v ELSE liveValue
    /\ IF liveValue' # liveValue THEN Draws(points, selected, liveValue') ELSE UNCHANGED drawn
    /\ UNCHANGED <<selected, refInput, captureMode, averageWindow, autoOn, autoEvery, sweep, points, scale, xRange, clipboard>>

\* Selecting starts the timer over before the new signal's value is read.
Selects(s) ==
    /\ selected' = s /\ sweep' = Sweeps(autoOn, s)
    /\ liveValue' = Newest(s) /\ Draws(points, s, Newest(s))
    /\ UNCHANGED <<samples, refInput, captureMode, averageWindow, autoOn, autoEvery, points, scale, xRange, clipboard>>
\* A message stands for its first signal.
ChooseMessage(m) == m # selected[1] /\ Selects(<<m, Messages[m][1]>>)
ChooseSignal(n) == selected # NoSignal /\ n \in Range(Messages[selected[1]]) /\ n # selected[2] /\ Selects(<<selected[1], n>>)

TypeReference(v) ==
    /\ v # refInput /\ refInput' = v
    /\ UNCHANGED <<selected, samples, liveValue, captureMode, averageWindow, autoOn, autoEvery, sweep, points, scale, xRange, drawn, clipboard>>
RestartsSweep(on) ==
    /\ sweep' = Sweeps(on, selected)
    /\ UNCHANGED <<selected, samples, liveValue, refInput, points, scale, xRange, drawn, clipboard>>
ChooseCapture(m) == m # captureMode /\ captureMode' = m /\ RestartsSweep(autoOn) /\ UNCHANGED <<averageWindow, autoOn, autoEvery>>
ChooseAverage(n) == captureMode = "average" /\ n # averageWindow /\ averageWindow' = n /\ RestartsSweep(autoOn) /\ UNCHANGED <<captureMode, autoOn, autoEvery>>
ToggleAuto == autoOn' = ~autoOn /\ RestartsSweep(~autoOn) /\ UNCHANGED <<captureMode, averageWindow, autoEvery>>
ChooseInterval == autoEvery' = 3 - autoEvery /\ RestartsSweep(autoOn) /\ UNCHANGED <<captureMode, averageWindow, autoOn>>

ChooseScale(c) ==
    /\ c # scale /\ scale' = c
    /\ UNCHANGED <<selected, samples, liveValue, refInput, captureMode, averageWindow, autoOn, autoEvery, sweep, points, xRange, drawn, clipboard>>
ManualRange(x) ==
    /\ scale = "manual" /\ x # xRange /\ xRange' = x
    /\ UNCHANGED <<selected, samples, liveValue, refInput, captureMode, averageWindow, autoOn, autoEvery, sweep, points, scale, drawn, clipboard>>
SetsPoints(ps) ==
    /\ points' = ps /\ Draws(ps, selected, liveValue)
    /\ UNCHANGED <<selected, samples, liveValue, refInput, captureMode, averageWindow, autoOn, autoEvery, sweep, scale, xRange, clipboard>>
DeletePoint(i) == i \in DOMAIN points /\ SetsPoints(RemoveAt(points, i))
ClearPoints == points # <<>> /\ SetsPoints(<<>>)
Copies(c) ==
    /\ clipboard' = c
    /\ UNCHANGED <<selected, samples, liveValue, refInput, captureMode, averageWindow, autoOn, autoEvery, sweep, points, scale, xRange, drawn>>
\* A file of the points, under the name of the signal selected now.
ExportFile(kind) == Copies([as |-> kind, name |-> selected, table |-> points])
ExportCode == Len(points) >= 2 /\ Copies([as |-> "C", name |-> selected, table |-> points])

ValidatorInit ==
    /\ selected = NoSignal /\ samples = [s \in SignalsIn |-> <<>>] /\ liveValue = 0
    /\ refInput = NoRef /\ captureMode = "instant" /\ averageWindow = 2 /\ autoOn = FALSE /\ autoEvery = 1
    /\ sweep = NoSweep /\ points = <<>> /\ scale = "auto" /\ xRange = 0
    /\ drawn = [points |-> <<>>, of |-> NoSignal, live |-> 0, scale |-> "auto", x |-> 0]
    /\ clipboard = [as |-> "none", name |-> NoSignal, table |-> <<>>]

-----------------------------------------------------------------------------
(* Properties *)

\* The table copied out as C runs upward in its raw value, however points were captured and deleted:
\* a lookup walks it.
TableRunsUpward ==
    clipboard.as = "C" => \A i \in 1..Len(clipboard.table) - 1 : clipboard.table[i].can <= clipboard.table[i + 1].can
\* A point captured by hand is of the signal selected, between the least and the greatest of the samples
\* it stands for, whatever the timer runs on.
HandCapturesLive ==
    [][Len(points') > Len(points) =>
        \A p \in Range(points') : p.by = "hand" /\ p \notin Range(points) /\ PastOf(selected) # <<>> =>
            p.low <= p.can /\ p.can <= p.high /\ {p.low, p.high} \subseteq Range(PastOf(selected))]_validatorVars
\* The plot shows the points and the live value there are: it is drawn by an effect that names what it reads.
PlotIsCurrent == drawn.points = points /\ drawn.live = liveValue /\ drawn.of = selected
=============================================================================
