--------------------------- MODULE DownloaderPage ---------------------------
(***************************************************************************)
(* The page around the analysis workspace (App) and its form for raw        *)
(* readings (data-download): seasons and their data, the prefetch of other    *)
(* seasons, the scanner and its poll, notes of runs, and the form's window in *)
(* the time zone of a run. A request is answered with what the server has     *)
(* when the answer arrives. Of a window only the start is kept, as an instant *)
(* or as the wall clock of an input.                                          *)
(***************************************************************************)
EXTENDS SeasonLists, Integers, Sequences, FiniteSets

CONSTANTS
    RunStart, RunZone,   \* run -> its start, and the offset of its time zone
    LocalOffset,         \* the browser's
    NoteKeys, Notes,     \* rows of the run table and texts typed into them
    MaxLoads, MaxScans, MaxVersions,  \* bounds on loadData calls, scans, external selections
    MaxSaves             \* bound on notes being saved

ASSUME PageAssumption ==
    /\ DOMAIN RunZone = DOMAIN RunStart /\ LocalOffset \in Int
    /\ \A r \in DOMAIN RunStart : RunStart[r] \in Int /\ RunZone[r] \in Int
    /\ {MaxLoads, MaxScans, MaxVersions, MaxSaves} \subseteq Nat

None == "none"
Seasons == DOMAIN SeasonSignals

VARIABLES
    seasonsHere, selectedSeason, pageLoading, pageError,
    loads,                 \* loadData calls under way: [id, season, stage]
    loadTurn,              \* how many were made
    shownRuns,             \* runs: the season and the scan they are from
    groupedIs, groupedFor, \* sensorsGrouped and sensorsGroupedSeason
    runsBySeason,          \* season -> who put the entry there
    prefetch,              \* the season whose prefetch is under way and not cancelled
    layouts,               \* season -> signals of its stored layout, which the workspace prunes
    scanState, scanTimer, pageScanning, statusAsked, statusFinished,
    scanRunning, scansDone,   \* the server's scanner
    noteDrafts, savingKey, noteSaves,   \* drafts; saves under way: [id, key, text]
    note, storedNote,         \* the note of each of the runs shown; the server's
    typed, overtaken,         \* ghosts: the last text typed; keys of which an older text was stored since
    formRun, formZone, startInput, lastApplied, selection, selectionSeen,
    queryAsked, queryLoading, seriesOf, lastQuery
loadVars == <<seasonsHere, selectedSeason, pageLoading, pageError, loads, loadTurn, shownRuns,
              groupedIs, groupedFor, runsBySeason, prefetch, layouts>>
scanVars == <<scanState, scanTimer, pageScanning, statusAsked, statusFinished, scanRunning, scansDone>>
noteVars == <<noteDrafts, savingKey, noteSaves, note, storedNote, typed, overtaken>>
windowVars == <<formRun, formZone, startInput, lastApplied, selection, selectionSeen>>
queryVars == <<queryAsked, queryLoading, seriesOf, lastQuery>>
pageVars == <<loadVars, scanVars, noteVars, windowVars, queryVars>>

-----------------------------------------------------------------------------
(* loadData and the effects it triggers *)

NewLoad(id, name, there) ==
    [id |-> id, season |-> name, stage |-> IF there THEN "data" ELSE "seasons", refresh |-> FALSE]
LoadStarts(name, there, refresh) ==
    /\ loadTurn < MaxLoads
    /\ loads' = loads \cup {[NewLoad(loadTurn + 1, name, there) EXCEPT !.refresh = refresh]}
    /\ loadTurn' = loadTurn + 1 /\ pageLoading' = TRUE

\* Mutant: the list on hand is given to the workspace of any season.
AnyGrouped(is, for, at) == is
\* analysisGrouped: withheld from the workspace of another season.
AnalysisGrouped(is, for, at) == IF for = at THEN is ELSE None
\* The workspace's prune effect, when it is given a list.
Prunes(is, for, at) ==
    LET given == AnalysisGrouped(is, for, at)
    IN  layouts' = IF given = None \/ at = None THEN layouts
                   ELSE [layouts EXCEPT ![at] = @ \cap SeasonSignals[given]]

\* Asking the scanner's status: plainly, or by the poll, which may load and then does so as of when it asked.
Asking(sync, name, there) == [sync |-> sync, season |-> name, there |-> there]
Plainly == Asking(FALSE, None, FALSE)
\* A season is selected: its effects load the page, ask for the status and prefetch the others.
Selects(name, left) ==
    /\ selectedSeason' = name /\ seasonsHere' = TRUE
    /\ loads' = left \cup {NewLoad(loadTurn + 1, name, TRUE)} /\ loadTurn' = loadTurn + 1
    /\ pageLoading' = TRUE /\ prefetch' = name
    /\ statusAsked' = statusAsked \cup {Plainly}
    /\ Prunes(groupedIs, groupedFor, name)

SwitchTo(name) ==
    /\ seasonsHere /\ name # selectedSeason /\ loadTurn < MaxLoads /\ Selects(name, loads)
    /\ UNCHANGED <<pageError, shownRuns, groupedIs, groupedFor, runsBySeason>>
    /\ UNCHANGED <<scanState, scanTimer, pageScanning, statusFinished, scanRunning, scansDone>>

\* The list of seasons comes: the first is selected, which starts a second load.
SeasonsArrive(l) ==
    /\ l \in loads /\ l.stage = "seasons"
    /\ LET goesOn == (loads \ {l}) \cup {[l EXCEPT !.season = FirstSeason, !.stage = "data"]}
       IN  IF selectedSeason # FirstSeason
           THEN loadTurn < MaxLoads /\ Selects(FirstSeason, goesOn)
           ELSE /\ loads' = goesOn /\ prefetch' = FirstSeason
                /\ UNCHANGED <<seasonsHere, selectedSeason, pageLoading, loadTurn, layouts, statusAsked>>
    /\ UNCHANGED <<pageError, shownRuns, groupedIs, groupedFor, runsBySeason>>
    /\ UNCHANGED <<scanState, scanTimer, pageScanning, statusFinished, scanRunning, scansDone>>

\* A refresh asks for the scanner's status once its load has ended.
ThenStatus(l) ==
    /\ statusAsked' = IF l.refresh THEN statusAsked \cup {Plainly} ELSE statusAsked
    /\ UNCHANGED <<scanState, scanTimer, pageScanning, statusFinished, scanRunning, scansDone>>

\* Runs with their notes, sensors and groups: the groups alone may be missing.
DataArrives(l) ==
    /\ l \in loads /\ l.stage = "data" /\ loads' = loads \ {l}
    /\ shownRuns' = [season |-> l.season, scan |-> scansDone]
    /\ groupedIs' \in {l.season, None} /\ groupedFor' = l.season
    /\ Prunes(groupedIs', groupedFor', selectedSeason)
    /\ runsBySeason' = [runsBySeason EXCEPT ![l.season] = "load"]
    /\ pageError' = FALSE /\ pageLoading' = FALSE /\ note' = storedNote
    /\ ThenStatus(l) /\ UNCHANGED <<seasonsHere, selectedSeason, loadTurn, prefetch, noteDrafts, savingKey, noteSaves, storedNote, typed, overtaken>>

\* Mutant: loading ends with the data only.
FailsLoading == pageLoading' = pageLoading
EndsLoading == pageLoading' = FALSE
LoadFails(l) ==
    /\ l \in loads /\ loads' = loads \ {l} /\ pageError' = TRUE /\ EndsLoading
    /\ ThenStatus(l) /\ UNCHANGED <<seasonsHere, selectedSeason, loadTurn, shownRuns, groupedIs, groupedFor,
                                   runsBySeason, prefetch, layouts>>

\* Runs of the other seasons, an empty list when that fails; entries that are there stay.
\* Mutant: all of them are put in.
PrefetchesAll == Seasons \ {prefetch}
Prefetches == {n \in Seasons \ {prefetch} : runsBySeason[n] = None}
PrefetchArrives ==
    /\ prefetch # None /\ prefetch' = None
    /\ runsBySeason' = [n \in Seasons |-> IF n \in Prefetches THEN "prefetch" ELSE runsBySeason[n]]
    /\ UNCHANGED <<seasonsHere, selectedSeason, pageLoading, pageError, loads, loadTurn, shownRuns,
                   groupedIs, groupedFor, layouts, scanVars>>

-----------------------------------------------------------------------------
(* The scanner *)

RefreshClicked ==
    /\ ~pageLoading /\ LoadStarts(selectedSeason, seasonsHere, TRUE)
    /\ UNCHANGED <<seasonsHere, selectedSeason, pageError, shownRuns, groupedIs, groupedFor, runsBySeason,
                   prefetch, layouts, scanVars>>

StatusAskedFor(ask) ==
    /\ statusAsked' = statusAsked \cup {ask}
    /\ UNCHANGED <<loadVars, scanState, pageScanning, statusFinished, scanRunning, scansDone>>
PollTicks == StatusAskedFor(Asking(TRUE, selectedSeason, seasonsHere)) /\ UNCHANGED scanTimer
ScanTimerFires == scanTimer /\ scanTimer' = FALSE /\ StatusAskedFor(Plainly)

\* The poll reloads for a finish that was not seen before.
NewFinish(ask) == ask.sync /\ ~scanRunning /\ scansDone > 0 /\ scansDone # statusFinished
StatusArrives(ask) ==
    /\ ask \in statusAsked /\ statusAsked' = statusAsked \ {ask}
    /\ pageScanning' = scanRunning /\ statusFinished' = scansDone
    /\ IF NewFinish(ask) THEN LoadStarts(ask.season, ask.there, FALSE) ELSE UNCHANGED <<loads, loadTurn, pageLoading>>
    /\ UNCHANGED <<seasonsHere, selectedSeason, pageError, shownRuns, groupedIs, groupedFor, runsBySeason,
                   prefetch, layouts, scanState, scanTimer, scanRunning, scansDone>>

ScanReady == ~pageScanning /\ scanState # "running"
ScanClicked ==
    /\ ScanReady /\ scansDone < MaxScans
    /\ scanState' = "running" /\ pageScanning' = TRUE
    /\ UNCHANGED <<loadVars, scanTimer, statusAsked, statusFinished, scanRunning, scansDone>>
ScanAnswered ==
    /\ scanState = "running"
    /\ \/ scanState' = "success" /\ scanTimer' = TRUE /\ scanRunning' = TRUE /\ UNCHANGED <<pageScanning, pageError>>
       \/ scanState' = "error" /\ pageScanning' = FALSE /\ pageError' = TRUE /\ UNCHANGED <<scanTimer, scanRunning>>
    /\ UNCHANGED <<seasonsHere, selectedSeason, pageLoading, loads, loadTurn, shownRuns, groupedIs, groupedFor,
                   runsBySeason, prefetch, layouts, statusAsked, statusFinished, scansDone>>
ScanIdles ==
    /\ scanState \in {"success", "error"} /\ scanState' = "idle"
    /\ UNCHANGED <<loadVars, scanTimer, pageScanning, statusAsked, statusFinished, scanRunning, scansDone>>
ScannerEnds ==
    /\ scanRunning /\ scanRunning' = FALSE /\ scansDone' = scansDone + 1
    /\ UNCHANGED <<loadVars, scanState, scanTimer, pageScanning, statusAsked, statusFinished>>

-----------------------------------------------------------------------------
(* Notes of runs *)

NoteChange(key, text) ==
    /\ noteDrafts' = [noteDrafts EXCEPT ![key] = text]
    /\ typed' = [typed EXCEPT ![key] = text] /\ overtaken' = overtaken \ {key}
    /\ UNCHANGED <<savingKey, noteSaves, note, storedNote>>
\* What the row shows, and saves: the draft, or the note of the run.
RowText(key) == IF noteDrafts[key] # None THEN noteDrafts[key] ELSE note[key]
\* A row's button is disabled while the last save begun is its own.
SaveReady(key) == savingKey # key
SaveNote(key) ==
    /\ SaveReady(key) /\ savingKey' = key
    /\ \E id \in (1..MaxSaves) \ {save.id : save \in noteSaves} :
           noteSaves' = noteSaves \cup {[id |-> id, key |-> key, text |-> RowText(key)]}
    /\ UNCHANGED <<noteDrafts, note, storedNote, typed, overtaken>>
\* Mutant: the draft goes in finally.
DropsDraft(key, ok) == noteDrafts' = [noteDrafts EXCEPT ![key] = None]
DraftAfter(key, ok) == noteDrafts' = IF ok THEN [noteDrafts EXCEPT ![key] = None] ELSE noteDrafts
\* Stored and answered, refused, or stored and the answer lost.
NoteAnswered(save) ==
    /\ save \in noteSaves /\ noteSaves' = noteSaves \ {save} /\ savingKey' = None
    /\ \E stored, ok \in BOOLEAN :
           /\ ok => stored
           /\ storedNote' = IF stored THEN [storedNote EXCEPT ![save.key] = save.text] ELSE storedNote
           /\ overtaken' = IF stored /\ save.text # typed[save.key] THEN overtaken \cup {save.key} ELSE overtaken
           /\ note' = IF ok THEN [note EXCEPT ![save.key] = save.text] ELSE note
           /\ DraftAfter(save.key, ok)
    /\ UNCHANGED typed

-----------------------------------------------------------------------------
(* The form *)

Runs == DOMAIN RunStart
NoTime == 1000   \* an empty input
Wall(instant, zone) == IF instant = NoTime THEN NoTime ELSE instant + zone
Instant(wall, zone) == IF wall = NoTime THEN NoTime ELSE wall - zone
FormZone == IF formZone = NoTime THEN LocalOffset ELSE formZone

\* The dropdown: a run in its zone, or back to manual with the input converted.
RunChosen(run) ==
    /\ formRun' = run /\ formZone' = RunZone[run] /\ startInput' = Wall(RunStart[run], RunZone[run])
    /\ UNCHANGED <<lastApplied, selection, selectionSeen, queryVars>>
\* Mutant: the zone goes before the conversion.
KeepsWall == startInput
Converted == Wall(Instant(startInput, FormZone), LocalOffset)
ManualChosen ==
    /\ formRun' = None /\ formZone' = NoTime /\ startInput' = Converted
    /\ UNCHANGED <<lastApplied, selection, selectionSeen, queryVars>>
StartTyped(wall) ==
    startInput' = wall /\ UNCHANGED <<formRun, formZone, lastApplied, selection, selectionSeen, queryVars>>

\* The effect that applies an external selection, once per version.
\* Mutant: it is applied whenever the runs are loaded again.
NeverSeen(sel) == FALSE
Seen(sel) == sel.version = selectionSeen
Applied(sel) ==
    IF Seen(sel) THEN UNCHANGED <<formRun, formZone, startInput, lastApplied, selectionSeen>>
    ELSE /\ selectionSeen' = sel.version
         /\ IF sel.run = None
            THEN formRun' = None /\ formZone' = NoTime /\ lastApplied' = None /\ UNCHANGED startInput
            ELSE /\ formRun' = sel.run /\ formZone' = RunZone[sel.run] /\ lastApplied' = sel.run
                 /\ startInput' = IF sel.withWindow \/ sel.run # lastApplied
                                  THEN Wall(RunStart[sel.run], RunZone[sel.run]) ELSE startInput
\* A row of the run table, and a chip of the sensor grid, which repeats the run but not its window.
Picked(run, window) ==
    /\ selection.version < MaxVersions
    /\ selection' = [run |-> run, withWindow |-> window, version |-> selection.version + 1]
    /\ Applied(selection') /\ UNCHANGED queryVars
RunPicked(run) == Picked(run, TRUE)
SensorPicked == Picked(selection.run, FALSE)
RunsReload == selection.version > 0 /\ Applied(selection) /\ UNCHANGED <<selection, queryVars>>

QueryReady == ~queryLoading
FetchClicked ==
    /\ QueryReady /\ startInput # NoTime
    /\ lastQuery' = Instant(startInput, FormZone) /\ queryAsked' = queryAsked \cup {lastQuery'}
    /\ queryLoading' = TRUE /\ UNCHANGED <<seriesOf, windowVars>>
QueryAnswers(q) ==
    /\ q \in queryAsked /\ queryAsked' = queryAsked \ {q}
    /\ seriesOf' \in {q, NoTime} /\ queryLoading' = FALSE /\ UNCHANGED <<lastQuery, windowVars>>

-----------------------------------------------------------------------------
PageInit ==
    /\ seasonsHere = FALSE /\ selectedSeason = None /\ pageLoading = TRUE /\ pageError = FALSE
    /\ loads = {NewLoad(1, None, FALSE)} /\ loadTurn = 1
    /\ shownRuns = [season |-> None, scan |-> 0] /\ groupedIs = None /\ groupedFor = None
    /\ runsBySeason = [n \in Seasons |-> None] /\ prefetch = None /\ layouts = Stored
    /\ scanState = "idle" /\ scanTimer = FALSE /\ pageScanning = FALSE /\ statusAsked = {Plainly} /\ statusFinished = 0
    /\ scanRunning = FALSE /\ scansDone = 0
    /\ noteDrafts = [k \in NoteKeys |-> None] /\ savingKey = None /\ noteSaves = {}
    /\ note = noteDrafts /\ storedNote = noteDrafts /\ typed = noteDrafts /\ overtaken = {}
    /\ formRun = None /\ formZone = NoTime /\ startInput = NoTime /\ lastApplied = None
    /\ selection = [run |-> None, withWindow |-> FALSE, version |-> 0] /\ selectionSeen = 0
    /\ queryAsked = {} /\ queryLoading = FALSE /\ seriesOf = NoTime /\ lastQuery = NoTime

-----------------------------------------------------------------------------
(* What must hold *)

\* However seasons are switched while their data is under way, in whatever order it comes:
\* the stored layout of a season keeps every signal its own list names. The comment on
\* sensorsGroupedSeason gives this as the reason for that state.
KnownSignalsSurvive ==
    \A n \in Seasons : Stored[n] \cap SeasonSignals[n] \subseteq layouts[n]

\* The page never says it is refreshing, with the button disabled, when nothing is.
PageLoadingIsReal == pageLoading => loads # {}

\* "Never let an older prefetch overwrite a fresher entry": what a load put there stays.
FresherRunsKept ==
    [][\A n \in Seasons : runsBySeason[n] = "load" => runsBySeason'[n] = "load"]_runsBySeason

\* A row shows the last text typed into it, whatever saves of this row and of others fail, lose their
\* answer or cross, and whatever is loaded again; unless an older text of the row was stored after it was
\* typed: the answer to that save drops the draft, whatever the draft says by then.
FailedSaveKeepsText == \A k \in NoteKeys : typed[k] # None /\ k \notin overtaken => RowText(k) = typed[k]

\* Going back to manual keeps the instant that was chosen.
ManualKeepsInstant ==
    [][selection' = selection /\ formRun # None /\ formRun' = None
       => Instant(startInput', LocalOffset) = Instant(startInput, FormZone)]_windowVars

\* A reload of the runs by the poll leaves the window alone that was chosen or typed.
EditsSurviveReload == [][RunsReload => UNCHANGED windowVars]_windowVars

\* What is plotted answers the last query, not an older one that came late.
SeriesIsLastAsked == ~queryLoading /\ seriesOf # NoTime => seriesOf = lastQuery

=============================================================================
