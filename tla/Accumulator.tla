---------------------------- MODULE Accumulator ----------------------------
(***************************************************************************)
(* Pecan's accumulator page: the alert panel, the module cards with their     *)
(* cell grids and thermistor bars, the charging curve and the highlight, each *)
(* read from the store by a timer of its own while live, and at the cursor    *)
(* while paused. Time is counted in messages.                                *)
(***************************************************************************)
EXTENDS Integers, Sequences, FiniteSets
LOCAL INSTANCE SequencesExt
LOCAL INSTANCE FiniteSetsExt

CONSTANTS
    ModuleCount, Cells, PerMessage,  \* modules; cells, and thermistors, of a module; of a message
    Payloads,           \* [msgs, wide]: the accumulator's messages in a payload, [sig, data], data by the cell's index;
                        \* it is wide when all in all it has over 64 messages, or over 16 ids
    CurveWindows,       \* lengths of the charging curve
    MaxBus              \* bound: messages sent
ASSUME AccumulatorAssumption ==
    /\ {ModuleCount, Cells, PerMessage} \subseteq Nat \ {0} /\ MaxBus \in Nat
    /\ CurveWindows \subseteq Nat /\ CurveWindows # {}

Following == -1         \* the cursor in live mode
NoValue == -1           \* no reading; readings are positive
ModuleIds == 1..ModuleCount
Places == ModuleIds \X (1..Cells)
\* ALERT_THRESHOLDS, volts in hundredths.
VoltageDiff == [warning |-> 10, critical |-> 20]
OverTemp == [warning |-> 45, critical |-> 55]
ModuleImbalance == [warning |-> 30, critical |-> 50]
LowVoltage == [warning |-> 320, critical |-> 300]

VARIABLES
    bus, cursor,    \* the store's samples in order; Following, or the timeline's cursor
    pack,           \* alertData
    card,           \* stats of each module's card
    grid, gathered, \* cellStats, statsAccumulator; <<>> where the card has nothing to show yet
    bar,            \* readings
    since,          \* ghost: each cell's samples announced since its grid's last tick
    curve, curveWindow,     \* data, timeWindowMs
    highlight, clears,      \* highlightTargets; timers that will clear it
    folded, plotted         \* cards folded; plotSignal
gridVars == <<grid, gathered, bar, since>>
pageVars == <<curveWindow, highlight, clears, folded, plotted>>
accumulatorVars == <<bus, cursor, pack, card, gridVars, curve, pageVars>>

-----------------------------------------------------------------------------
(* Reading the store *)

\* getCellSignalInfo, getThermistorSignalInfo: the message a reading is in.
MessageOf(kind, p) == <<p[1], kind, (p[2] + PerMessage - 1) \div PerMessage>>
\* Mutant: the newest sample, wherever the cursor is.
NewestSample(sig, b, c) == Max({0} \cup {k \in DOMAIN b : b[k].sig = sig})
ReadLatest(sig, b, c) == Max({0} \cup {k \in DOMAIN b : b[k].sig = sig /\ (c = Following \/ k <= c)})
\* What there is to read: the places that have a value, with it.
ReadingsOf(kind, b, c) ==
    {x \in {[at |-> p, sample |-> ReadLatest(MessageOf(kind, p), b, c)] : p \in Places} : x.sample # 0 /\ x.at[2] \in DOMAIN b[x.sample].data}
Values(kind, b, c) == {[at |-> x.at, is |-> b[x.sample].data[x.at[2]]] : x \in ReadingsOf(kind, b, c)}
Volts(b, c) == Values("V", b, c)
Temps(b, c) == Values("T", b, c)
ValueIn(v, p) == IF \E x \in v : x.at = p THEN (CHOOSE x \in v : x.at = p).is ELSE NoValue
Now(b, c) == IF c = Following THEN Len(b) ELSE c
\* Mutant: the newest window, wherever the cursor is.
NewestHistory(b, c, w) == {k \in DOMAIN b : k > Len(b) - w}
ReadHistory(b, c, w) == {k \in DOMAIN b : k <= Now(b, c) /\ k > Now(b, c) - w}

Of(m, v) == {x \in v : x.at[1] = m}
Highest(v) == {x \in v : \A y \in v : x.is >= y.is}
Lowest(v) == {x \in v : \A y \in v : x.is <= y.is}
Spread(v) == Max({x.is : x \in v}) - Min({x.is : x \in v})
Below(v, limit) == {x \in v : x.is < limit}
From(v, limit) == {x \in v : x.is >= limit}
PlacesOf(v) == {x.at : x \in v}
FirstOf(v) == LET ps == PlacesOf(v) IN
    IF ps = {} THEN <<0, 0>> ELSE CHOOSE p \in ps : \A q \in ps : p[1] < q[1] \/ (p[1] = q[1] /\ p[2] <= q[2])

-----------------------------------------------------------------------------
(* The alert panel and the cards; 0 is normal, 1 a warning, 2 critical *)

Level(critical, warning) == IF critical THEN 2 ELSE IF warning THEN 1 ELSE 0
Alert(level, affected) == [level |-> level, affected |-> affected]
VoltageDiffState(v) ==
    LET level == IF Cardinality(v) <= 1 THEN 0 ELSE Level(Spread(v) >= VoltageDiff.critical, Spread(v) >= VoltageDiff.warning)
    IN  Alert(level, IF level < 2 THEN {} ELSE Highest(v) \cup Lowest(v))
OverTempState(t) ==
    LET critical == From(t, OverTemp.critical)
        warm == From(t, OverTemp.warning) \ critical
    IN  Alert(Level(critical # {}, warm # {}), IF critical # {} THEN critical ELSE warm)
\* Of the means of the modules that have a reading; x - y >= limit, of sums and counts.
ImbalanceState(v) ==
    LET means == {[m |-> m, sum |-> MapThenSumSet(LAMBDA x : x.is, Of(m, v)), n |-> Cardinality(Of(m, v))] : m \in {x.at[1] : x \in v}}
        above(x, y, limit) == x.sum * y.n >= y.sum * x.n + limit * x.n * y.n
        outer == {x \in means : (\A y \in means : above(x, y, 0)) \/ \A y \in means : above(y, x, 0)}
        level == Max({0} \cup {Level(above(x, y, ModuleImbalance.critical), above(x, y, ModuleImbalance.warning)) : x \in means, y \in means})
    IN  Alert(level, IF level < 2 THEN {} ELSE {x.m : x \in outer})
\* Mutant: a cell below the critical voltage only warns.
LowWarns(v) == LET low == Below(v, LowVoltage.warning) IN Alert(Level(FALSE, low # {}), low)
LowVoltageState(v) ==
    LET critical == Below(v, LowVoltage.critical)
        low == Below(v, LowVoltage.warning) \ critical
    IN  Alert(Level(critical # {}, low # {}), IF critical # {} THEN critical ELSE low)
\* Where the extremes are: the first of equals.
PackStats(v, t) ==
    [maxVoltage |-> FirstOf(Highest(v)), minVoltage |-> FirstOf(Lowest(v)), maxTemp |-> FirstOf(Highest(t)), minTemp |-> FirstOf(Lowest(t)),
     cellDelta |-> IF Cardinality(v) > 1 THEN Spread(v) ELSE NoValue]
AlertsOf(v, t) ==
    [voltageDiff |-> VoltageDiffState(v), overTemp |-> OverTempState(t), imbalance |-> ImbalanceState(v),
     lowVoltage |-> LowVoltageState(v), packStats |-> PackStats(v, t)]
ComputeAlerts(b, c) == AlertsOf(Volts(b, c), Temps(b, c))
OverallLevel(a) == Max({a.voltageDiff.level, a.overTemp.level, a.imbalance.level, a.lowVoltage.level})

\* A card's level, and whether it has data to show.
CardLevel(v, t) ==
    LET uneven(limit) == v # {} /\ Spread(v) >= limit
        low(limit) == Below(v, limit) # {}
        hot(limit) == From(t, limit) # {}
    IN  Level(uneven(VoltageDiff.critical) \/ low(LowVoltage.critical) \/ hot(OverTemp.critical),
              uneven(VoltageDiff.warning) \/ low(LowVoltage.warning) \/ hot(OverTemp.warning))
StatsIn(v, t) == [level |-> CardLevel(v, t), hasData |-> v \cup t # {}]
ComputeStats(b, c, m) == StatsIn(Of(m, Volts(b, c)), Of(m, Temps(b, c)))

PanelTick ==
    /\ \E v \in {Volts(bus, cursor)}, t \in {Temps(bus, cursor)} : pack' = AlertsOf(v, t)
    /\ UNCHANGED <<bus, cursor, card, gridVars, curve, pageVars>>

-----------------------------------------------------------------------------
(* Cell grids and thermistor bars, shown where the card has data *)

Empty == [i \in 1..Cells |-> {}]
\* Paused, the range is the value at the cursor.
AtCursor(b, c, m) == [i \in 1..Cells |-> LET x == ValueIn(Volts(b, c), <<m, i>>) IN [current |-> x, low |-> x, high |-> x]]
BarAt(b, c, m) == [i \in 1..Cells |-> ValueIn(Temps(b, c), <<m, i>>)]

\* A card that gets its first data mounts its grid, which reads at once only while paused.
CardTick(m) ==
    /\ card' = [card EXCEPT ![m] = ComputeStats(bus, cursor, m)]
    /\ IF ~card[m].hasData /\ card'[m].hasData /\ cursor # Following
       THEN grid' = [grid EXCEPT ![m] = AtCursor(bus, cursor, m)] /\ bar' = [bar EXCEPT ![m] = BarAt(bus, cursor, m)]
       ELSE UNCHANGED <<grid, bar>>
    /\ UNCHANGED <<bus, cursor, pack, gathered, since, curve, pageVars>>

\* The second's range is of what was gathered, and the value itself.
GridTick(m) ==
    LET live(i) == ValueIn(Volts(bus, cursor), <<m, i>>)
        got(i) == (gathered[m][i] \cup {live(i)}) \ {NoValue}
    IN  /\ cursor = Following /\ card[m].hasData
        /\ grid' = [grid EXCEPT ![m] = [i \in 1..Cells |->
             [current |-> live(i), low |-> IF got(i) = {} THEN NoValue ELSE Min(got(i)), high |-> IF got(i) = {} THEN NoValue ELSE Max(got(i))]]]
        /\ gathered' = [gathered EXCEPT ![m] = [i \in 1..Cells |-> {live(i)} \ {NoValue}]]
        /\ since' = [since EXCEPT ![m] = Empty]
        /\ UNCHANGED <<bus, cursor, pack, card, bar, curve, pageVars>>
BarTick(m) ==
    /\ cursor = Following /\ card[m].hasData
    /\ bar' = [bar EXCEPT ![m] = BarAt(bus, cursor, m)]
    /\ UNCHANGED <<bus, cursor, pack, card, grid, gathered, since, curve, pageVars>>

\* Mutant: instead of what they had.
Replaces(had, new) == new
Gathers(had, new) == had \cup new
\* A payload is stored as one batch. Then each id in it is announced once, and live grids gather its latest
\* sample; a wide one is announced without an id, which grids pass over.
Announced(p) == IF p.wide THEN {} ELSE {k \in DOMAIN p.msgs : \A j \in DOMAIN p.msgs : p.msgs[j].sig = p.msgs[k].sig => j <= k}
PayloadArrives(p) ==
    LET carries(m, i, msg) == cursor = Following /\ card[m].hasData /\ MessageOf("V", <<m, i>>) = msg.sig /\ i \in DOMAIN msg.data
        got(m, i) == {p.msgs[k].data[i] : k \in {j \in Announced(p) : carries(m, i, p.msgs[j])}}
        adds(F(_, _), f) == [m \in ModuleIds |-> [i \in 1..Cells |-> IF got(m, i) = {} THEN f[m][i] ELSE F(f[m][i], got(m, i))]]
    IN  /\ Len(bus) + Len(p.msgs) <= MaxBus
        /\ bus' = bus \o p.msgs
        /\ gathered' = adds(Gathers, gathered)
        /\ since' = adds(LAMBDA had, new : had \cup new, since)
        /\ UNCHANGED <<cursor, pack, card, grid, bar, curve, pageVars>>

-----------------------------------------------------------------------------
(* The charging curve *)

\* Two messages a bucket; a bucket's voltage and temperature are the means of what falls in it.
Bucket(k) == (k \div 2) * 2
In(b, ks, kind) == {<<k, i>> \in ks \X (1..Cells) : b[k].sig[2] = kind /\ i \in DOMAIN b[k].data}
CurveAt(b, c, w) ==
    LET ks == ReadHistory(b, c, w)
        mean(ki) == <<MapThenSumSet(LAMBDA x : b[x[1]].data[x[2]], ki), Cardinality(ki)>>
        point(t) == LET of == {k \in ks : Bucket(k) = t} IN
                    [time |-> t - Now(b, c), voltage |-> mean(In(b, of, "V")), temp |-> mean(In(b, of, "T"))]
        times == SetToSortSeq({Bucket(k) : k \in ks}, LAMBDA x, y : x < y)
    IN  [i \in DOMAIN times |-> point(times[i])]
CurveTick == curve' = CurveAt(bus, cursor, curveWindow) /\ UNCHANGED <<bus, cursor, pack, card, gridVars, pageVars>>
ChooseCurveWindow(w) ==
    /\ w # curveWindow /\ curveWindow' = w /\ curve' = CurveAt(bus, cursor, w)
    /\ UNCHANGED <<bus, cursor, pack, card, gridVars, highlight, clears, folded, plotted>>

-----------------------------------------------------------------------------
(* The timeline's cursor: all effects that name it run again *)

Rereads(c) ==
    /\ cursor' = c
    /\ pack' = ComputeAlerts(bus, c) /\ card' = [m \in ModuleIds |-> ComputeStats(bus, c, m)]
    /\ curve' = CurveAt(bus, c, curveWindow)
    /\ UNCHANGED <<bus, pageVars>>
\* A grid whose card has no data at the cursor is gone.
CursorTo(k) ==
    /\ k \in 0..Len(bus) /\ k # cursor
    /\ Rereads(k)
    /\ grid' = [m \in ModuleIds |-> IF card'[m].hasData THEN AtCursor(bus, k, m) ELSE <<>>]
    /\ bar' = [m \in ModuleIds |-> IF card'[m].hasData THEN BarAt(bus, k, m) ELSE <<>>]
    /\ gathered' = [m \in ModuleIds |-> Empty] /\ since' = gathered'
\* Grids show what they showed until their next tick.
GoLiveAgain == cursor # Following /\ Rereads(Following) /\ UNCHANGED gridVars

-----------------------------------------------------------------------------
(* Clicks *)

\* Every call with a target sets a timer; none is ever cancelled.
SetHighlightTarget(ts) ==
    /\ clears < 2     \* bound
    /\ highlight' = ts /\ clears' = clears + 1
    /\ UNCHANGED <<bus, cursor, pack, card, gridVars, curve, curveWindow, folded, plotted>>
HighlightTimer ==
    /\ clears > 0 /\ clears' = clears - 1 /\ highlight' = {}
    /\ UNCHANGED <<bus, cursor, pack, card, gridVars, curve, curveWindow, folded, plotted>>
Cell(p) == <<"cell", p>>
Thermistor(p) == <<"thermistor", p>>
DeltaClicked == SetHighlightTarget({Cell(p) : p \in {pack.packStats.minVoltage, pack.packStats.maxVoltage} \cap Places})
HandleCellClick(p) == p \in Places /\ SetHighlightTarget({Cell(p)})
HandleThermClick(p) == p \in Places /\ SetHighlightTarget({Thermistor(p)})
StatClicked ==
    \/ HandleCellClick(pack.packStats.minVoltage) \/ HandleCellClick(pack.packStats.maxVoltage)
    \/ HandleThermClick(pack.packStats.minTemp) \/ HandleThermClick(pack.packStats.maxTemp)
CardFolded(m) ==
    /\ folded' = SymDiff(folded, {m})
    /\ UNCHANGED <<bus, cursor, pack, card, gridVars, curve, curveWindow, highlight, clears, plotted>>
Plots(x) == plotted' = x /\ UNCHANGED <<bus, cursor, pack, card, gridVars, curve, curveWindow, highlight, clears, folded>>
CellPlotted(p) == card[p[1]].hasData /\ p[1] \notin folded /\ p # plotted /\ Plots(p)
CellPlotClosed == plotted # <<0, 0>> /\ Plots(<<0, 0>>)

AccumulatorInit ==
    /\ bus = <<>> /\ cursor = Following
    /\ pack = ComputeAlerts(<<>>, Following) /\ card = [m \in ModuleIds |-> ComputeStats(<<>>, Following, m)]
    /\ grid = [m \in ModuleIds |-> <<>>] /\ bar = grid
    /\ gathered = [m \in ModuleIds |-> Empty] /\ since = gathered
    /\ curveWindow = Max(CurveWindows) /\ curve = <<>>
    /\ highlight = {} /\ clears = 0 /\ folded = {} /\ plotted = <<0, 0>>

-----------------------------------------------------------------------------
(* Properties *)

\* The panel and the cards compute their levels by code of their own, and agree: where both have read
\* what there is, no card shows worse than the panel's frame.
CardsWithinPanel ==
    \A m \in ModuleIds :
        pack = ComputeAlerts(bus, cursor) /\ card[m] = ComputeStats(bus, cursor, m) => card[m].level <= OverallLevel(pack)
\* Paused, a cell and its range are what the last message sent by the cursor says, whatever arrived after it.
PausedShowsCursor ==
    cursor # Following => \A p \in Places :
        LET ks == {k \in 1..cursor : bus[k].sig = MessageOf("V", p)}
            x == IF ks = {} \/ p[2] \notin DOMAIN bus[Max(ks)].data THEN NoValue ELSE bus[Max(ks)].data[p[2]]
        IN  grid[p[1]] # <<>> => grid[p[1]][p[2]] = [current |-> x, low |-> x, high |-> x]
\* A grid's tick shows, in a cell's range, every sample announced since the tick before: a spike between
\* two ticks is not lost, unless a later sample of its message came in the same payload, or the payload was
\* wide. And the range is of nothing older than what the cell showed.
SpikesAreSeen ==
    [][\A m \in ModuleIds : since[m] # Empty /\ since'[m] = Empty /\ cursor' = Following =>
        \A i \in 1..Cells :
            LET shown == grid'[m][i] before == IF grid[m] = <<>> THEN {} ELSE {grid[m][i].current} IN
            /\ \A x \in since[m][i] : shown.low <= x /\ x <= shown.high
            /\ {shown.low, shown.high} \subseteq since[m][i] \cup before \cup {shown.current}]_accumulatorVars
\* The curve never shows what came after its right edge, the cursor.
CurveStopsAtCursor == \A i \in DOMAIN curve : curve[i].time <= 0
=============================================================================
