----------------------------- MODULE MCAnalysis -----------------------------
\* The server's web pages, for TLC: the data downloader's samples in view, the editing of
\* its plots and the page around them, and the file uploader, each in scenes of its own.
\* What the user does is budgeted, answers of the server are not.
EXTENDS SeriesView, PlotEditor, DownloaderPage, UploadPage

CONSTANT Scenarios
VARIABLES scene, spend

MCSeasonSignals == [a |-> {"p", "q"}, b |-> {"p", "r"}]
MCStored == [a |-> {"p"}, b |-> {"r", "old"}]
MCViews == {[season |-> "a", sigs |-> {"p", "old"}, win |-> "w1"], [season |-> "b", sigs |-> {"p"}, win |-> "w2"]}
MCStoredLayout == <<[sigs |-> {"a"}, right |-> {"a"}], [sigs |-> {"b", "old"}, right |-> {}]>>
MCMessages == {{"a", "b"}, {"c", "d"}}
MCRunStart == [r1 |-> 10, r2 |-> 20]
MCRunZone == [r1 |-> -5, r2 |-> 0]

\* Scenes, with how many budgeted steps they have.
MCScenarios == [zoom |-> 3, season |-> 5, states |-> 4, plots |-> 3, views |-> 5, load |-> 3, notes |-> 5, form |-> 5, upload |-> 3, dbc |-> 4]

analysisVars == <<seriesVars, plotVars, pageVars, uploadVars, scene, spend>>
rest(s) == /\ s \notin {"zoom", "season", "states"} => UNCHANGED seriesVars
           /\ s \notin {"plots", "views"} => UNCHANGED plotVars
           /\ s \notin {"load", "notes"} => UNCHANGED <<loadVars, scanVars>>
           /\ s # "notes" => UNCHANGED noteVars
           /\ s # "form" => UNCHANGED <<windowVars, queryVars>>
           /\ s \notin {"upload", "dbc"} => UNCHANGED uploadVars
Step(s, A) == scene = s /\ rest(s) /\ UNCHANGED scene /\ A
Free == UNCHANGED spend
Pay == spend > 0 /\ spend' = spend - 1

AnalysisInit ==
    /\ scene \in DOMAIN Scenarios /\ spend = Scenarios[scene]
    /\ SeriesInit /\ PlotInit /\ PageInit /\ UploadInit
    /\ scene # "dbc" => ~token

Answered == DebounceEnds \/ \E f \in asked : SeriesArrives(f) \/ SeriesFails(f)
ZoomScene ==
    \/ Free /\ (Answered \/ ConfirmClosed \/ ExportClicked \/ (~listed /\ SensorsListed))
    \/ Pay /\ \/ RetryClicked \/ ResetZoom \/ \E w \in RunWindows : ChooseWindow(w) \/ Zoom(w)
              \/ \E sigs \in SUBSET (sel \cup SeasonSignals[atSeason]) : ChooseSignals(sigs)
SeasonScene ==
    \/ Free /\ (Answered \/ (~listed /\ SensorsListed))
    \/ Pay /\ \/ (listed /\ SensorsListed) \/ CancelSwitch \/ ConfirmSwitch \/ \E v \in Views : ApplyView(v) \/ OtherSeasonView(v)
              \/ \E to \in DOMAIN SeasonSignals : SwitchSeason(to)
StatesScene ==
    \/ Free /\ \E w \in RunWindows : StatesArrive(w)
    \/ Pay /\ (StatesRetry \/ (\E w \in RunWindows : ChooseWindow(w) \/ SegmentClicked(w)) \/ \E v \in Views : ApplyView(v))
PlotsScene ==
    \/ Free /\ (SensorListArrives \/ ViewsAnswered)
    \/ Pay /\ \/ ClearAll \/ Reload \/ MenuEnter
              \/ \E s \in KnownSignals : \/ PickSignal(s) \/ RemoveChip(s) \/ OpenMenu(s) \/ MenuKey(s) \/ MenuEscape(s)
                                         \/ \E i \in DOMAIN plots : AxisBadge(i, s)
              \/ \E p \in Payloads : \/ DropOnNew(p)
                                     \/ \E i \in DOMAIN plots : \/ DropOnCard(p, i)
                                                                \/ \E axis \in {"left", "right"} : DropOnAxis(p, i, axis)
              \/ \E m \in Messages : PlotMessage(m)
ViewsScene ==
    \/ Free /\ ViewsAnswered
    \/ Pay /\ (SaveView \/ CancelDelete \/ \E i \in 1..MaxViews : ArmDelete(i) \/ DeleteView(i))
LoadScene ==
    \/ Free /\ \/ PrefetchArrives \/ ScanTimerFires \/ ScanAnswered \/ ScanIdles \/ ScannerEnds
               \/ \E l \in loads : SeasonsArrive(l) \/ DataArrives(l)
               \/ \E ask \in statusAsked : StatusArrives(ask)
    \/ Pay /\ \/ RefreshClicked \/ PollTicks \/ ScanClicked
              \/ \E n \in Seasons : SwitchTo(n)
              \/ \E l \in loads : LoadFails(l)
\* Notes are edited while the runs are loaded again; the rows are there once runs are.
NotesScene ==
    \/ Free /\ \E l \in loads : (SeasonsArrive(l) /\ UNCHANGED noteVars) \/ DataArrives(l)
    \/ Free /\ (\E save \in noteSaves : NoteAnswered(save)) /\ UNCHANGED <<loadVars, scanVars>>
    \/ Pay /\ RefreshClicked /\ UNCHANGED noteVars
    \/ Pay /\ shownRuns.season # None /\ UNCHANGED <<loadVars, scanVars>>
           /\ \E k \in NoteKeys : SaveNote(k) \/ \E t \in Notes : NoteChange(k, t)
FormScene ==
    \/ Free /\ (RunsReload \/ \E q \in queryAsked : QueryAnswers(q))
    \/ Pay /\ \/ ManualChosen \/ SensorPicked \/ FetchClicked
              \/ \E r \in Runs : RunChosen(r) \/ RunPicked(r) \/ StartTyped(RunStart[r])

UploadGoesOn == \E s \in {"upload", "dbc"} : Step(s, Free /\ (Server \/ Page))
UploadScene == Pay /\ (DropFiles \/ Deploy \/ PageTroubles)
\* The choice of a DBC matters up to the upload it goes with.
Unsent == tasks = <<>> /\ posts = {}
DbcScene == (Free /\ Unsent /\ DbcList) \/ (Pay /\ (Deploy \/ (Unsent /\ (DropFiles \/ DbcChoices))))

AnalysisNext ==
    \/ Step("zoom", ZoomScene) \/ Step("season", SeasonScene) \/ Step("states", StatesScene)
    \/ Step("plots", PlotsScene) \/ Step("views", ViewsScene)
    \/ Step("load", LoadScene) \/ Step("notes", NotesScene) \/ Step("form", FormScene)
    \/ UploadGoesOn \/ Step("upload", UploadScene) \/ Step("dbc", DbcScene)

AnswersEnd == \E s \in {"zoom", "season"} : Step(s, Free /\ Answered)
AnalysisSpec == AnalysisInit /\ [][AnalysisNext]_analysisVars /\ WF_analysisVars(AnswersEnd) /\ WF_analysisVars(UploadGoesOn)
=============================================================================
