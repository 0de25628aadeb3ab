----------------------------- MODULE SeriesView -----------------------------
(***************************************************************************)
(* The analysis workspace of the data downloader (AnalysisWorkspace,        *)
(* useSeriesData, SeriesCache): which window and signals are chosen, the     *)
(* debounced request for their samples, its cache, the state timeline of the *)
(* window, the export of what is loaded, and saved views of other seasons.   *)
(* A handler and the effects React runs after it are one action. A sample    *)
(* series is the set of signals that have points; a window is a model value. *)
(***************************************************************************)
EXTENDS SeasonLists, Naturals, Sequences, FiniteSets
LOCAL INSTANCE SequencesExt

CONSTANTS
    RunWindows,      \* windows of runs, the toolbar's ranges and the timeline's segments
    Views,           \* saved views: [season, sigs, win]
    PointBudget      \* CLIENT_POINT_BUDGET, where a signal with samples counts as one point

ASSUME SeriesAssumption ==
    /\ \A v \in Views : v.season \in DOMAIN SeasonSignals /\ v.win \in RunWindows
    /\ PointBudget \in Nat

NoWindow == "no window"
NoRequest == [season |-> "none", sigs |-> {}, win |-> NoWindow]
NoView == NoRequest
NoTimer == [req |-> NoRequest, turn |-> 0]
NoSamples == [req |-> NoRequest, keys |-> {}, pts |-> {}, env |-> FALSE]

VARIABLES
    atSeason, sel, listed,       \* season; signals in the plots; the season's sensor list is here
    full, view, shared,          \* fullRange, viewRange, and whether they are one array
    awaiting, loading, failed,   \* awaitingFirstResponse, loading, error
    samples, loaded,             \* seriesBySignal, loadedRequest
    lastAsked, turn, debounce,   \* lastRequestRef, generationRef, the timer with its request and generation
    asked,                       \* requests in flight, with the generation of a mounted hook or 0
    cached, cachedPoints,        \* SeriesCache: entries, least recently used first, and its point count
    confirmOpen, crossSeason,    \* the envelope warning; the prompt to switch to a saved view's season
    states, statesLoading, statesFailed, statesAsked   \* the state timeline and its requests
querying == <<lastAsked, turn, debounce, loaded, failed>>
fetching == <<asked, cached, cachedPoints>>
timeline == <<states, statesLoading, statesFailed, statesAsked>>
choice == <<atSeason, sel, listed, full, view, shared>>
seriesVars == <<choice, awaiting, loading, samples, querying, fetching, confirmOpen, crossSeason, timeline>>

-----------------------------------------------------------------------------
(* What is shown *)

\* knownSignals filters what is asked for: a stale stored signal never reaches the API.
Wanted(sigs) == sigs \cap SeasonSignals[atSeason]
Plottable == samples.pts \cap sel # {}
LoadedMatches ==
    /\ loaded # NoRequest /\ view # NoWindow
    /\ loaded = [season |-> atSeason, sigs |-> sel, win |-> view]
    /\ sel \subseteq samples.keys
ExportDisabled == sel = {} \/ view = NoWindow \/ loading \/ awaiting \/ ~LoadedMatches \/ ~Plottable
ShowEmpty == ~failed /\ ~awaiting /\ ~loading /\ sel # {} /\ view # NoWindow /\ ~Plottable
KeepPlots == ~failed /\ sel # {} /\ view # NoWindow /\ Plottable

-----------------------------------------------------------------------------
(* useSeriesData *)

\* The effect that ends the wait for a first response; it runs when one of its four
\* dependencies changed, and wasLoadingRef is the value loading had before.
\* Mutant: only the end of a load ends the wait.
SettlesAfterLoading(waits) == awaiting' = (waits /\ (loading' \/ ~loading))
Settles(waits) ==
    awaiting' = /\ waits
                /\ \/ loading'
                   \/ <<loading, samples, failed, loaded>>' = <<loading, samples, failed, loaded>>
                   \/ ~(loading \/ samples'.keys # {} \/ failed' \/ loaded' # NoRequest)

\* requestRange: a new generation, nothing loaded any more, the timer starts again.
RequestRange(r) ==
    /\ lastAsked' = r /\ turn' = turn + 1 /\ loaded' = NoRequest /\ failed' = FALSE
    /\ debounce' = [req |-> r, turn |-> turn + 1]

\* The effect that asks for series once the window, the signals and the list are there.
Requests(sigs, win, ready, confirm) ==
    IF win # NoWindow /\ ready /\ Wanted(sigs) # {}
    THEN /\ RequestRange([season |-> atSeason, sigs |-> Wanted(sigs), win |-> win])
         /\ Settles(TRUE) /\ confirmOpen' = FALSE
    ELSE UNCHANGED <<querying, awaiting>> /\ confirmOpen' = confirm

CacheGet(r) == SelectSeq(cached, LAMBDA e : e.key = r)
Touched(r) == SelectSeq(cached, LAMBDA e : e.key # r) \o CacheGet(r)

\* set(): an answer beyond the budget is not kept; the oldest entries make room.
PointsOf(entries) == FoldLeft(LAMBDA n, e : n + Cardinality(e.val.pts), 0, entries)
Evicted(entries, points) ==
    LET left(k) == points - PointsOf(SubSeq(entries, 1, k))
        k == CHOOSE k \in 0..Len(entries) :
                 (left(k) <= PointBudget \/ k = Len(entries)) /\ \A j \in 0..k-1 : left(j) > PointBudget
    IN  <<SubSeq(entries, k + 1, Len(entries)), left(k)>>
\* Mutant: the entry that is replaced stays counted.
NoPrior(r) == 0
PriorPoints(r) == PointsOf(CacheGet(r))
CacheSet(r, val) ==
    LET points == Cardinality(val.pts)
        kept == Evicted(SelectSeq(cached, LAMBDA e : e.key # r) \o <<[key |-> r, val |-> val]>>,
                        cachedPoints - PriorPoints(r) + points)
    IN  IF points > PointBudget THEN UNCHANGED <<cached, cachedPoints>>
        ELSE cached' = kept[1] /\ cachedPoints' = kept[2]

\* Mutant: a cache hit leaves loading as it is.
CacheHitStillLoads(r) == samples' = CacheGet(r)[1].val /\ loaded' = r /\ failed' = FALSE /\ UNCHANGED loading
CacheHit(r) == samples' = CacheGet(r)[1].val /\ loaded' = r /\ loading' = FALSE /\ failed' = FALSE

\* The timer ends: executeRequest, up to its first await.
DebounceEnds ==
    /\ debounce # NoTimer
    /\ debounce' = NoTimer
    /\ LET r == debounce.req
       IN  IF CacheGet(r) # <<>>
           THEN CacheHit(r) /\ cached' = Touched(r) /\ UNCHANGED <<asked, cachedPoints>>
           ELSE /\ asked' = asked \cup {debounce} /\ loading' = TRUE
                /\ UNCHANGED <<samples, loaded, failed, cached, cachedPoints>>
    /\ Settles(awaiting)
    /\ UNCHANGED <<choice, lastAsked, turn, confirmOpen, crossSeason, timeline>>

\* The server's samples for a request: all its signals have points, or none has.
Answers(r) == [req : {r}, keys : {r.sigs}, pts : {{}, r.sigs}, env : BOOLEAN]

\* Mutants: any answer is applied, and taken for the last request; it is cached for that one.
AppliesAny(f, val) == samples' = val /\ loaded' = lastAsked /\ failed' = FALSE /\ loading' = FALSE
CacheKeyLast(f) == lastAsked
Applies(f, val) ==
    IF f.turn = turn THEN samples' = val /\ loaded' = f.req /\ failed' = FALSE /\ loading' = FALSE
    ELSE UNCHANGED <<samples, loaded, failed, loading>>
CacheKey(f) == f.req

SeriesArrives(f) ==
    /\ f \in asked /\ asked' = asked \ {f}
    /\ \E val \in Answers(f.req) : Applies(f, val) /\ CacheSet(CacheKey(f), val)
    /\ Settles(awaiting)
    /\ UNCHANGED <<choice, lastAsked, turn, debounce, confirmOpen, crossSeason, timeline>>

\* Mutant: an error leaves loading on.
FailsOnly == loaded' = NoRequest /\ failed' = TRUE /\ UNCHANGED loading
FailsNow == loaded' = NoRequest /\ failed' = TRUE /\ loading' = FALSE
SeriesFails(f) ==
    /\ f \in asked /\ asked' = asked \ {f}
    /\ IF f.turn = turn THEN FailsNow ELSE UNCHANGED <<loaded, failed, loading>>
    /\ UNCHANGED samples
    /\ Settles(awaiting)
    /\ UNCHANGED <<choice, lastAsked, turn, debounce, cached, cachedPoints, confirmOpen, crossSeason, timeline>>

RetryClicked ==
    /\ failed /\ lastAsked # NoRequest
    /\ RequestRange(lastAsked) /\ UNCHANGED <<loading, samples>> /\ Settles(awaiting)
    /\ UNCHANGED <<choice, fetching, confirmOpen, crossSeason, timeline>>

-----------------------------------------------------------------------------
(* The state timeline: one request per window, an older one is aborted. *)

\* Mutant: the effect has no cleanup.
StatesKeepOld(win) == statesAsked' = statesAsked \cup {win}
StatesRequest(win) == statesAsked' = {win}
LoadStates(win) ==
    /\ StatesRequest(win) /\ statesLoading' = TRUE /\ statesFailed' = FALSE /\ UNCHANGED states

StatesArrive(win) ==
    /\ win \in statesAsked /\ statesAsked' = statesAsked \ {win}
    /\ \/ states' = win /\ UNCHANGED statesFailed
       \/ states' = NoWindow /\ statesFailed' = TRUE
    /\ statesLoading' = FALSE
    /\ UNCHANGED <<choice, awaiting, loading, samples, querying, fetching, confirmOpen, crossSeason>>

StatesRetry ==
    /\ statesFailed /\ LoadStates(full)
    /\ UNCHANGED <<choice, awaiting, loading, samples, querying, fetching, confirmOpen, crossSeason>>

-----------------------------------------------------------------------------
(* Handlers *)

\* The sensor list comes, and with every reload of the page's data again: it prunes the
\* plots, and asks anew since its identity is a dependency of the request.
SensorsListed ==
    /\ listed' = TRUE /\ sel' = Wanted(sel)
    /\ UNCHANGED <<loading, samples>> /\ Requests(sel, view, TRUE, confirmOpen)
    /\ UNCHANGED <<atSeason, full, view, shared, fetching, crossSeason, timeline>>

\* Signals are chosen in the picker, and dropped in the picker or on a plot.
ChooseSignals(sigs) ==
    /\ sigs # sel
    /\ sigs \ sel \subseteq (IF listed THEN SeasonSignals[atSeason] ELSE {})
    /\ sel' = sigs
    /\ UNCHANGED <<loading, samples>>
    /\ IF Wanted(sigs) # Wanted(sel) THEN Requests(sigs, view, listed, confirmOpen)
       ELSE UNCHANGED <<querying, awaiting, confirmOpen>>
    /\ UNCHANGED <<atSeason, listed, full, view, shared, fetching, crossSeason, timeline>>

\* A run window or a custom range of the toolbar.
SetsRange(win) ==
    /\ full' = win /\ view' = win /\ shared' = FALSE
    /\ UNCHANGED <<loading, samples>> /\ Requests(sel, win, listed, FALSE) /\ LoadStates(win)
    /\ UNCHANGED <<atSeason, sel, listed, fetching, crossSeason>>
ChooseWindow(win) == SetsRange(win)

\* Zoom in a plot, or a click on a segment of the timeline: the view alone.
SetsView(win) ==
    /\ view' = win /\ shared' = FALSE
    /\ UNCHANGED <<loading, samples>> /\ Requests(sel, win, listed, confirmOpen)
    /\ UNCHANGED <<atSeason, sel, listed, full, fetching, crossSeason, timeline>>
Zoom(win) == KeepPlots /\ SetsView(win)
SegmentClicked(win) == full # NoWindow /\ states # NoWindow /\ ~statesFailed /\ SetsView(win)

\* A double click in a plot goes back to the window; a second one changes nothing.
ResetZoom ==
    /\ KeepPlots /\ full # NoWindow /\ ~shared
    /\ view' = full /\ shared' = TRUE
    /\ UNCHANGED <<loading, samples>> /\ Requests(sel, full, listed, confirmOpen)
    /\ UNCHANGED <<atSeason, sel, listed, full, fetching, crossSeason, timeline>>

\* applyConfig: a saved view of this season, stale signals included.
ApplyView(v) ==
    /\ v.season = atSeason
    /\ sel' = v.sigs /\ full' = v.win /\ view' = v.win /\ shared' = FALSE
    /\ UNCHANGED <<loading, samples>> /\ Requests(v.sigs, v.win, listed, confirmOpen) /\ LoadStates(v.win)
    /\ UNCHANGED <<atSeason, listed, fetching, crossSeason>>

OtherSeasonView(v) ==
    /\ v.season # atSeason /\ crossSeason' = v
    /\ UNCHANGED <<choice, awaiting, loading, samples, querying, fetching, confirmOpen, timeline>>
CancelSwitch ==
    /\ crossSeason # NoView /\ crossSeason' = NoView
    /\ UNCHANGED <<choice, awaiting, loading, samples, querying, fetching, confirmOpen, timeline>>

\* The workspace is mounted anew for a season, with its stored layout or with a saved view
\* as both ranges; what the old hook had in flight only reaches the shared cache.
\* Mutant: requests of the old season are still those of the mounted hook.
OrphansNone == asked
Orphans == {[f EXCEPT !.turn = 0] : f \in asked}
Mounts(to, layout, win) ==
    /\ atSeason' = to /\ sel' = layout /\ listed' = FALSE
    /\ full' = win /\ view' = win /\ shared' = (win # NoWindow)
    /\ awaiting' = FALSE /\ loading' = FALSE /\ failed' = FALSE
    /\ samples' = NoSamples /\ loaded' = NoRequest
    /\ lastAsked' = NoRequest /\ turn' = 1 /\ debounce' = NoTimer
    /\ asked' = Orphans /\ UNCHANGED <<cached, cachedPoints>>
    /\ confirmOpen' = FALSE /\ crossSeason' = NoView
    /\ states' = NoWindow /\ statesFailed' = FALSE
    /\ statesLoading' = (win # NoWindow) /\ statesAsked' = {win} \ {NoWindow}

SwitchSeason(to) == to # atSeason /\ Mounts(to, Stored[to], NoWindow)
ConfirmSwitch ==
    crossSeason # NoView /\ Mounts(crossSeason.season, crossSeason.sigs, crossSeason.win)

\* Export: envelope data is warned about first; the warning's button checks again.
ExportClicked ==
    /\ ~ExportDisabled /\ \E s \in sel : samples.env
    /\ confirmOpen' = TRUE
    /\ UNCHANGED <<choice, awaiting, loading, samples, querying, fetching, crossSeason, timeline>>
ConfirmClosed ==
    /\ confirmOpen /\ confirmOpen' = FALSE
    /\ UNCHANGED <<choice, awaiting, loading, samples, querying, fetching, crossSeason, timeline>>

-----------------------------------------------------------------------------
SeriesInit ==
    /\ atSeason = FirstSeason /\ sel = Stored[FirstSeason] /\ listed = FALSE
    /\ full = NoWindow /\ view = NoWindow /\ shared = FALSE
    /\ awaiting = FALSE /\ loading = FALSE /\ failed = FALSE /\ samples = NoSamples /\ loaded = NoRequest
    /\ lastAsked = NoRequest /\ turn = 1 /\ debounce = NoTimer
    /\ asked = {} /\ cached = <<>> /\ cachedPoints = 0
    /\ confirmOpen = FALSE /\ crossSeason = NoView
    /\ states = NoWindow /\ statesLoading = FALSE /\ statesFailed = FALSE /\ statesAsked = {}

SeriesStep ==
    \/ DebounceEnds \/ SensorsListed \/ RetryClicked \/ StatesRetry \/ ResetZoom \/ CancelSwitch
    \/ ConfirmSwitch \/ ExportClicked \/ ConfirmClosed
    \/ \E f \in asked : SeriesArrives(f) \/ SeriesFails(f)
    \/ \E win \in RunWindows : StatesArrive(win) \/ ChooseWindow(win) \/ Zoom(win) \/ SegmentClicked(win)
    \/ \E sigs \in SUBSET (sel \cup SeasonSignals[atSeason]) : ChooseSignals(sigs)
    \/ \E v \in Views : ApplyView(v) \/ OtherSeasonView(v)
    \/ \E to \in DOMAIN SeasonSignals : SwitchSeason(to)
SeriesFairness ==
    WF_seriesVars(DebounceEnds) /\ WF_seriesVars(\E f \in asked : SeriesArrives(f) \/ SeriesFails(f))

-----------------------------------------------------------------------------
(* What must hold *)

\* What the export button writes is what is on the screen: samples of exactly the signals
\* in the plots and of the window they are viewed in, however requests, zooms, cache hits
\* and late answers interleave.
ExportsWhatIsViewed ==
    ~ExportDisabled => samples.req = [season |-> atSeason, sigs |-> sel, win |-> view]

\* The spinner is never left on: while the hook says loading, a request of its current
\* generation is on its way, or one is about to be made.
LoadingIsReal == loading => debounce # NoTimer \/ \E f \in asked : f.turn = turn

\* The wait for a first answer, which blocks the export and hides the empty message, ends
\* with that answer: it is never left on with nothing on its way.
AwaitingIsReal == awaiting => debounce # NoTimer \/ loading

\* The cache counts what it holds, within its budget, even when two requests for the same
\* samples were in flight at once.
CacheWithinBudget == cachedPoints = PointsOf(cached) /\ cachedPoints <= PointBudget

\* An answer that was superseded is kept for the request it answers and for no other.
CacheKeepsItsOwn == \A i \in DOMAIN cached : cached[i].val.req = cached[i].key

\* The state lanes next to the plots are those of the chosen window once nothing loads.
StatesOfWindow == full # NoWindow /\ ~statesLoading /\ ~statesFailed => states = full

\* After a season switch nothing of the old season is shown or loaded.
SeriesOfSeason ==
    \A r \in {samples.req, loaded, lastAsked} : r # NoRequest => r.season = atSeason

\* Once the user rests, the last request ends in samples or in an error.
RequestsEnd == (debounce # NoTimer \/ loading) ~> (debounce = NoTimer /\ ~loading)

\* The samples, states and cache are those of the season and the window on the screen, and
\* what is loading ends (useSeriesData, SeriesCache, AnalysisWorkspace).
ViewIsTrue ==
    /\ [](ExportsWhatIsViewed /\ LoadingIsReal /\ AwaitingIsReal /\ StatesOfWindow /\ SeriesOfSeason)
    /\ [](CacheWithinBudget /\ CacheKeepsItsOwn)
    /\ RequestsEnd
=============================================================================
