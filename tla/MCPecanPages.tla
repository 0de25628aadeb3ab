---------------------------- MODULE MCPecanPages ----------------------------
\* Pages of Pecan, for TLC: each in scenes of its own. What the user does is budgeted, what
\* timers, the cloud and the car do is not.
EXTENDS Dashboard, MonitorBuilder, SensorValidator, Accumulator, TraceView, ThrottleMap

CONSTANT Scenarios
VARIABLES scene, spend

MCLayouts == {<<>>, <<[id |-> 2, sigs |-> {}]>>, <<[id |-> 3, sigs |-> {"x"}]>>, <<[id |-> 7, sigs |-> {"y"}]>>}
MCCloudPresets ==
    LET p(n) == [name |-> n, blocks |-> {[id |-> 1, kind |-> "sensor", feed |-> "v", set |-> "-"]}, wires |-> <<>>] IN
    {[presets |-> <<>>, active |-> "none"], [presets |-> <<p("A")>>, active |-> "A"], [presets |-> <<p("B"), p("C")>>, active |-> "B"]}
MCMessages == [m1 |-> <<"s1", "s2">>]
MCBoards ==
    LET b(i, k, f, x) == [id |-> i, kind |-> k, feed |-> f, set |-> x] IN
    {{b(1, "sensor", "v", "-"), b(2, "sensor", "w", "-"), c} : c \in
        {b(3, "math", Calc, "sub"), b(3, "advanced", Calc, "A + B"), b(3, "average", Calc, DefaultWindow)}}
MCCloudConfigs == {NoConfig, [plots |-> <<[id |-> 4, sigs |-> {"y"}]>>, view |-> "cards", method |-> "id"]}
MCBusMessages ==
    LET msg(m, kind, d) == [sig |-> <<m, kind, 1>>, data |-> d] IN
    {msg(1, "V", <<290, 310>>), msg(1, "V", <<360, 370>>), msg(1, "V", <<290>>), msg(1, "T", <<60, 50>>), msg(1, "T", <<30, 40>>),
     msg(2, "V", <<310, 315>>), msg(2, "T", <<50, 40>>)}
\* A message by itself; two of one module in one payload; a wide payload.
MCPayloads ==
    LET volts == {msg \in MCBusMessages : msg.sig = <<1, "V", 1>>} IN
    {[msgs |-> <<msg>>, wide |-> FALSE] : msg \in MCBusMessages}
        \cup {[msgs |-> <<a, b>>, wide |-> FALSE] : a \in volts, b \in {msg \in MCBusMessages : msg.sig[1] = 1}}
        \cup {[msgs |-> <<msg>>, wide |-> TRUE] : msg \in volts}
MCReplayTraces == LET f(id, t) == [id |-> id, dir |-> "tx", at |-> t] IN {<<>>, <<f("i", 1), f("j", 2), f("i", 3)>>}

MCFrameNames == {[base |-> 16, digits |-> <<2, 0, 0>>], [base |-> 10, digits |-> <<5, 1, 3>>]}

\* Scenes, with how many budgeted steps they have.
MCScenarios == [swap |-> 5, cloud |-> 5, list |-> 5, tour |-> 7, rows |-> 5, board |-> 4, flow |-> 5, presets |-> 6, sensor |-> 7, alerts |-> 4, cells |-> 4, trace |-> 6, strip |-> 7, throttle |-> 4]

pagesVars == <<dashVars, monitorVars, validatorVars, accumulatorVars, traceViewVars, throttleVars, scene, spend>>
rest(s) ==
    /\ s \notin {"swap", "cloud", "list", "tour", "rows"} => UNCHANGED dashVars
    /\ s \notin {"board", "flow", "presets"} => UNCHANGED monitorVars
    /\ s # "sensor" => UNCHANGED validatorVars
    /\ s \notin {"alerts", "cells"} => UNCHANGED accumulatorVars
    /\ s \notin {"trace", "strip"} => UNCHANGED traceViewVars
    /\ s # "throttle" => UNCHANGED throttleVars
Step(s, A) == scene = s /\ rest(s) /\ UNCHANGED scene /\ A
Free == UNCHANGED spend
Pay == spend > 0 /\ spend' = spend - 1

PagesInit ==
    /\ scene \in DOMAIN Scenarios /\ spend = Scenarios[scene]
    /\ DashInit /\ (scene # "cloud" => cloud = CHOOSE c \in [Users -> CloudConfigs] : TRUE)
    /\ \E bs \in IF scene = "flow" THEN MCBoards ELSE {{}} : MonitorInit(bs)
    /\ ValidatorInit /\ AccumulatorInit /\ TraceInit /\ ThrottleInit
    /\ scene # "presets" => document = NothingSaved

SwapScene ==
    Pay /\ \/ NewPlot \/ BackToLive \/ LeavePage \/ OpenPage \/ Reload
           \/ \E s \in Sigs : SignalClicked(s) \/ \E i \in DOMAIN plots : RemoveSignal(i, s)
           \/ \E i \in DOMAIN plots : AddToPlot(i) \/ ClosePlot(i)
           \/ \E ls \in ReplayLayouts : ReplayLoaded(ls) \/ PlotsImported(ls)
CloudScene ==
    \/ Free /\ (AuthArrives \/ SaveFires(TRUE) \/ \E u \in asking : ConfigArrives(u))
    \/ Pay /\ \/ LeavePage \/ OpenPage \/ Reload \/ SaveFires(FALSE)
              \/ \E u \in Users \cup {Nobody} : SignInOrOut(u)
              \/ \E u \in asking : ConfigFails(u)
              \/ \E m \in Methods : HeaderSort(m)
              \/ \E v \in {"list", "cards"} : ChooseView(v)
              \/ \E ls \in ReplayLayouts : PlotsImported(ls)
ListScene ==
    \/ Free /\ DataArrives
    \/ Pay /\ (LeavePage \/ OpenPage \/ SortMenuToggled \/ (\E m \in Methods : HeaderSort(m) \/ MenuSort(m)) \/ \E v \in {"list", "cards"} : ChooseView(v))
TourScene ==
    \/ Free /\ TutorialTimer
    \/ Pay /\ \/ RowToggled \/ CardToggled \/ (\E v \in {"list", "cards"} : ChooseView(v)) \/ StartTour \/ CloseTour \/ TourNext \/ TourPrev \/ TourFinish \/ MenuClosed \/ NewPlot \/ LeavePage \/ OpenPage
              \/ \E s \in Sigs : RowSignal(s) \/ CardSignal(s)
RowsScene ==
    \/ Free /\ HzTick
    \/ Pay /\ (MessageTurns \/ RowScrolled \/ RowPaused \/ RowLive \/ TraceClicked \/ TraceClosed \/ PerfToggled)

Taps(b) == SensorTapped(b) \/ RangeTapped(b) \/ MathTapped(b) \/ AverageTapped(b) \/ AdvancedTapped(b)
BoardScene ==
    \/ Free /\ \E b \in blocks : SensorEffect(b) \/ MathEffect(b) \/ AverageShows(b) \/ AdvancedEffect(b) \/ AverageEffect(b)
    \/ Pay /\ \/ \E f \in Feeds, r \in Readings : FeedArrives(f, r)
              \/ \E k \in Kinds : ChooseMode(k)
              \/ \E f \in Feeds \cup {Calc} : Drop(f) \/ Choose(f)
              \/ PaneClick \/ ClearChoice
              \/ \E b \in blocks : Taps(b) \/ ConfirmEnds(b.id) \/ UpdateLimits(b, "max 1")
FlowScene ==
    \/ Free /\ \E b \in blocks : SensorEffect(b) \/ MathEffect(b) \/ AverageShows(b) \/ AdvancedEffect(b) \/ AverageEffect(b)
    \/ Pay /\ \/ \E f \in Feeds, r \in Readings : FeedArrives(f, r)
              \/ \E b, c \in blocks, h \in Inputs \cup {None} : Connect(b, c, h)
              \/ \E w \in {wires[i] : i \in DOMAIN wires} : WireDoubleClicked(w)
              \/ \E b \in blocks : KeyDeletes(b) \/ Taps(b)
              \/ \E b \in blocks : (\E op \in {"sum", "sub", "div"} : UpdateOp(b, op)) \/ (\E e \in {"A + B", "bad"} : UpdateExpression(b, e))
                                   \/ \E n \in Windows : UpdateWindow(b, n)
PresetScene ==
    \/ Free /\ (PresetsArrive \/ PresetSaveFires(TRUE))
    \/ Pay /\ \/ SignsIn \/ SignsOut \/ PresetsFail \/ PresetSaveFires(FALSE) \/ CloseBuilder \/ OpenBuilder
              \/ \E n \in Names : SavePreset(n) \/ LoadPreset(n) \/ DeletePreset(n)
              \/ \E f \in Feeds : Drop(f)
SensorScene ==
    \/ Free /\ AutoCapture
    \/ Pay /\ \/ \E m \in DOMAIN Messages : ChooseMessage(m)
              \/ \E n \in {"s1", "s2"} : ChooseSignal(n)
              \/ \E sig \in SignalsIn, v \in Levels : SampleArrives(sig, v)
              \/ \E v \in References \cup {NoRef} : TypeReference(v)
              \/ HandleCapture \/ ToggleAuto \/ ChooseInterval \/ ChooseCapture("average") \/ ChooseCapture("instant")
              \/ \E n \in AverageWindows : ChooseAverage(n)
              \/ \E c \in Scales : ChooseScale(c)
              \/ \E x \in {0, 1} : ManualRange(x)
              \/ \E i \in DOMAIN points : DeletePoint(i)
              \/ ClearPoints \/ ExportCode \/ ExportFile("csv") \/ ExportFile("json")
AlertScene ==
    \/ Free /\ (PanelTick \/ HighlightTimer \/ \E m \in ModuleIds : CardTick(m))
    \/ Pay /\ \/ \E p \in Payloads : Len(p.msgs) = 1 /\ ~p.wide /\ PayloadArrives(p)
              \/ DeltaClicked \/ StatClicked \/ CellPlotClosed \/ (\E p \in Places : CellPlotted(p)) \/ \E m \in ModuleIds : CardFolded(m)
CellScene ==
    \/ Free /\ (CurveTick \/ \E m \in ModuleIds : CardTick(m) \/ GridTick(m) \/ BarTick(m))
    \/ Pay /\ \/ \E p \in Payloads : p.msgs[1].sig[1] = 1 /\ PayloadArrives(p)
              \/ GoLiveAgain \/ (\E k \in 0..MaxBus : CursorTo(k)) \/ \E w \in CurveWindows : ChooseCurveWindow(w)
TraceScene ==
    \/ Free /\ Flush("page")
    \/ Pay /\ \/ \E id \in FrameIds : FrameArrives(id, "tx")
              \/ PageCleared \/ PagePause \/ ReplayTraceCloses \/ ResumeAutoScroll \/ GameClosed \/ ExportTrace \/ ExportPecan
              \/ \E t \in ReplayTraces : ReplayTraceOpens(t)
              \/ \E c \in 0..MaxFrames : TraceSeeks(c)
              \/ \E up \in BOOLEAN : UserScrolls(up)
              \/ \E m \in {"scroll", "fixed"} : ChooseTraceView(m)
              \/ \E ids \in Filters : TypeFilter(ids)
StripScene ==
    \/ Free /\ Flush("strip")
    \/ Pay /\ \/ \E dir \in {"tx", "rx"} : FrameArrives("i", dir)
              \/ PageCleared \/ StripCleared \/ StripPause \/ StripFolds \/ PointerUp \/ PagePause
              \/ \E x \in Xs : GripTaken(x) \/ Dragged(x) \/ HandleTaken(x) \/ Resized(x)
ThrottleScene ==
    \/ Free /\ (Cools \/ DecoderReady)
    \/ Pay /\ \/ (\E x \in Pedals : SetInputVal(x)) \/ (\E z \in Zones : SetDzLow(z) \/ SetDzHigh(z)) \/ (\E g \in Gammas : SetGamma(g))
              \/ (\E n \in FrameNames : TypeFrameId(n)) \/ (\E m \in {"math", "table"} : SetCodeMode(m)) \/ (\E n \in TableSizes : SetTableSize(n))
              \/ CopyCode \/ LockMoves \/ SerialMoves \/ SetDelay(0) \/ SetDelay(500) \/ TransmitClicked \/ Confirmed

PagesNext ==
    \/ Step("swap", SwapScene) \/ Step("cloud", CloudScene) \/ Step("list", ListScene) \/ Step("tour", TourScene)
    \/ Step("rows", RowsScene)
    \/ Step("board", BoardScene) \/ Step("flow", FlowScene) \/ Step("presets", PresetScene)
    \/ Step("sensor", SensorScene) \/ Step("alerts", AlertScene) \/ Step("cells", CellScene)
    \/ Step("trace", TraceScene) \/ Step("strip", StripScene) \/ Step("throttle", ThrottleScene)
PagesSpec ==
    /\ PagesInit /\ [][PagesNext]_pagesVars
    /\ WF_pagesVars(Step("rows", Free /\ HzTick))

\* Layouts and presets outlive replays, reloads and changes of the account, as they were.
SavedStands ==
    /\ [](CloudAgrees /\ PlotsWellFormed /\ PresetsWellNamed)
    /\ LivePlotsReturn /\ CloudPresetsKept

\* What a page shows at rest is computed from what it has now: the sorted list, the blocks,
\* the sensor's plot, the throttle curve and the cards of the modules; and a message that has
\* stopped shows it.
ShownIsCurrent ==
    /\ [](SettledIsCurrent /\ WindowHeld /\ ListFollowsIcon /\ PlotIsCurrent /\ CurveIsCurrent /\ CardsWithinPanel)
    /\ StoppedIsSeen

\* A pause stands still and a gap loses nothing: cells and curve stay at the cursor, the trace
\* comes back with what came in meanwhile, and a spike between two frames is drawn.
PastStandsStill ==
    /\ [](PausedShowsCursor /\ CurveStopsAtCursor /\ NothingForgotten /\ FixedIsNewest)
    /\ PausedStripStands /\ SpikesAreSeen

\* The tables a page hands over are fit for the car's code: a sensor's runs upward and holds
\* what was captured, torque rises with the pedal, and the generated code is the one simulated.
TablesAreSound == [](TableRunsUpward /\ TorqueRises /\ CodeIsSimulated) /\ HandCapturesLive
=============================================================================
