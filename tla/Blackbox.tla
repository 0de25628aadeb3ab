----------------------------- MODULE Blackbox ------------------------------
(*************************************************************************)
(* The flight recorder's log (flight-recorder/src): decoded frames are     *)
(* stored in IndexedDB while recording, and later uploaded in batches and  *)
(* marked. A frame is known by its number; a DBC is the set of CAN ids it  *)
(* defines.                                                                *)
(*************************************************************************)
EXTENDS Naturals, FiniteSets, FiniteSetsExt

CONSTANTS
    CanIds, Dbcs,           \* CAN ids, and the DBC files that can be selected
    BatchSize,              \* frames per upload
    MaxFrames, MaxTroubles  \* bounds: frames recorded; reloads and failed uploads

ASSUME BlackboxAssumption ==
    /\ Dbcs \subseteq SUBSET CanIds /\ CanIds \subseteq Nat \ {0}
    /\ {BatchSize, MaxFrames, MaxTroubles} \subseteq Nat /\ BatchSize > 0

NoDbc == {0}

VARIABLES
    recording,     \* LoggingService.recording
    shownRec,      \* isRecording of the page
    log,           \* the table canFrames: number -> [can, synced]
    received,      \* frames stored so far
    activeDbc,     \* the DBC the next processor is made from
    loadingDbc,    \* the user's choice of a DBC is being fetched
    started,       \* the startup effect has fetched its DBC and connected
    syncing,       \* SyncService.syncing
    shownSync,     \* isSyncing of the page
    keptDbc,       \* the processor the sync service keeps
    syncDbc,       \* the processor the running sync has taken
    syncAt,        \* where syncToServer is: idle, begin, read, upload, mark
    batch,         \* frames read for this batch
    shownUnsynced, \* unsyncedCount of the page, refreshed every two seconds
    serverHas,     \* frames the server has stored, with how often
    skipped,       \* ghost: frames marked because the processor knew none of their signals
    troubles       \* ghost: reloads, failed and unanswered uploads
bbVars == <<recording, shownRec, log, received, activeDbc, loadingDbc, started, keptDbc, syncing, shownSync, syncDbc,
            syncAt, batch, shownUnsynced, serverHas, skipped, troubles>>
syncVars == <<syncing, shownSync, syncDbc, syncAt, batch>>

Unsynced == {n \in DOMAIN log : ~log[n].synced}
Decodable(n) == log[n].can \in syncDbc

BbInit ==
    /\ recording = FALSE /\ shownRec = FALSE
    /\ log = <<>> /\ received = 0
    /\ activeDbc \in Dbcs /\ loadingDbc = FALSE /\ started = FALSE /\ keptDbc = NoDbc
    /\ syncing = FALSE /\ shownSync = FALSE /\ syncDbc = NoDbc /\ syncAt = "idle" /\ batch = {}
    /\ shownUnsynced = 0
    /\ serverHas = [n \in 1..MaxFrames |-> 0] /\ skipped = {} /\ troubles = 0

ToggleRecording ==
    /\ recording' = ~shownRec /\ shownRec' = ~shownRec
    /\ UNCHANGED <<log, received, activeDbc, loadingDbc, started, keptDbc, syncVars, shownUnsynced, serverHas, skipped,
                   troubles>>

\* A decoded frame is stored with the time of receipt, whether or not its signals are known.
LogFrame(can) ==
    /\ started /\ recording /\ received < MaxFrames
    /\ received' = received + 1
    /\ log' = [n \in DOMAIN log \cup {received + 1} |->
                 IF n \in DOMAIN log THEN log[n] ELSE [can |-> can, synced |-> FALSE]]
    /\ UNCHANGED <<recording, shownRec, activeDbc, loadingDbc, started, keptDbc, syncVars, shownUnsynced, serverHas,
                   skipped, troubles>>

UpdateCounts ==
    /\ shownUnsynced' = Cardinality(Unsynced)
    /\ UNCHANGED <<recording, shownRec, log, received, activeDbc, loadingDbc, started, keptDbc, syncVars, serverHas,
                   skipped, troubles>>

-----------------------------------------------------------------------------
(* syncToServer *)

\* The guarded button needs frames to send; page and service each refuse a second sync.
CanSync == ~shownSync /\ shownUnsynced > 0
HandleSync ==
    /\ CanSync
    /\ ~syncing
    /\ shownSync' = TRUE /\ syncing' = TRUE /\ syncAt' = "begin"
    /\ UNCHANGED <<recording, shownRec, log, received, activeDbc, loadingDbc, started, keptDbc, syncDbc, batch,
                   shownUnsynced, serverHas, skipped, troubles>>

\* The unsynced frames are counted and the processor is made, if there is none yet.
SyncBegins ==
    /\ syncAt = "begin" /\ syncAt' = "read"
    /\ keptDbc' = (IF keptDbc = NoDbc THEN activeDbc ELSE keptDbc) /\ syncDbc' = keptDbc'
    /\ UNCHANGED <<recording, shownRec, log, received, activeDbc, loadingDbc, started, syncing, shownSync, batch,
                   shownUnsynced, serverHas, skipped, troubles>>

SyncStops ==
    /\ syncAt' = "idle" /\ syncing' = FALSE /\ shownSync' = FALSE /\ batch' = {}
    /\ shownUnsynced' = Cardinality(Unsynced)

\* The oldest unsynced frames are read and decoded; with none left the sync is complete,
\* and a batch without one known signal is marked without an upload.
FirstUnsynced == {n \in Unsynced : Cardinality({m \in Unsynced : m < n}) < BatchSize}
SyncReads ==
    /\ syncAt = "read"
    /\ IF Unsynced = {} THEN SyncStops
       ELSE /\ batch' = FirstUnsynced
            /\ syncAt' = IF \E n \in FirstUnsynced : Decodable(n) THEN "upload" ELSE "mark"
            /\ UNCHANGED <<syncing, shownSync, shownUnsynced>>
    /\ UNCHANGED <<recording, shownRec, log, received, activeDbc, loadingDbc, started, keptDbc, syncDbc, serverHas,
                   skipped, troubles>>

Stored == serverHas' = [n \in 1..MaxFrames |->
              serverHas[n] + IF n \in batch \cap DOMAIN log /\ Decodable(n) THEN 1 ELSE 0]

SyncUploads ==
    /\ syncAt = "upload" /\ Stored /\ syncAt' = "mark"
    /\ UNCHANGED <<recording, shownRec, log, received, activeDbc, loadingDbc, started, keptDbc, syncing, shownSync,
                   syncDbc, batch, shownUnsynced, skipped, troubles>>

\* Mutants: a refused batch is marked as well; the marks are not awaited and lost.
FailureMarks ==
    /\ syncAt = "upload" /\ troubles < MaxTroubles /\ troubles' = troubles + 1
    /\ syncAt' = "mark"
    /\ UNCHANGED <<recording, shownRec, log, received, activeDbc, loadingDbc, started, keptDbc, syncing, shownSync,
                   syncDbc, batch, shownUnsynced, serverHas, skipped>>
MarksLost ==
    /\ syncAt = "mark" /\ syncAt' = "read" /\ batch' = {}
    /\ UNCHANGED <<recording, shownRec, log, received, activeDbc, loadingDbc, started, keptDbc, syncing, shownSync,
                   syncDbc, shownUnsynced, serverHas, skipped, troubles>>

\* The server refuses the batch, or stores it and its answer is lost.
UploadFails ==
    /\ syncAt = "upload" /\ troubles < MaxTroubles /\ troubles' = troubles + 1
    /\ Stored \/ UNCHANGED serverHas
    /\ SyncStops
    /\ UNCHANGED <<recording, shownRec, log, received, activeDbc, loadingDbc, started, keptDbc, syncDbc, skipped>>

\* markAsSynced: every frame of the batch, sent or not.
SyncMarks ==
    /\ syncAt = "mark" /\ syncAt' = "read"
    /\ log' = [n \in DOMAIN log |-> IF n \in batch THEN [log[n] EXCEPT !.synced = TRUE] ELSE log[n]]
    /\ skipped' = skipped \cup {n \in batch \cap DOMAIN log : ~Decodable(n)}
    /\ batch' = {}
    /\ UNCHANGED <<recording, shownRec, received, activeDbc, loadingDbc, started, keptDbc, syncing, shownSync, syncDbc,
                   shownUnsynced, serverHas, troubles>>

SyncStep == SyncBegins \/ SyncReads \/ SyncUploads \/ SyncMarks

-----------------------------------------------------------------------------

\* Purge empties the table, synced or not, whatever the sync is doing.
HandlePurge ==
    /\ DOMAIN log # {} /\ log' = <<>> /\ shownUnsynced' = 0 /\ batch' = {}
    /\ UNCHANGED <<recording, shownRec, received, activeDbc, loadingDbc, started, keptDbc, syncing, shownSync, syncDbc,
                   syncAt, serverHas, skipped, troubles>>

\* The startup fetches the DBC chosen last and only then connects. It does not drop the
\* processor of a sync that was begun before.
Starts(dbc) ==
    /\ ~started /\ started' = TRUE
    /\ activeDbc' \in {dbc, activeDbc}
    /\ UNCHANGED <<recording, shownRec, log, received, loadingDbc, keptDbc, syncVars, shownUnsynced,
                   serverHas, skipped, troubles>>

\* handleSelectDBC: the new file becomes active and the kept processor is dropped.
SelectDbc ==
    /\ ~loadingDbc /\ loadingDbc' = TRUE
    /\ UNCHANGED <<recording, shownRec, log, received, activeDbc, started, keptDbc, syncVars,
                   shownUnsynced, serverHas, skipped, troubles>>
DbcFetched(dbc) ==
    /\ loadingDbc /\ loadingDbc' = FALSE
    /\ (activeDbc' = dbc /\ keptDbc' = NoDbc) \/ UNCHANGED <<activeDbc, keptDbc>>
    /\ UNCHANGED <<recording, shownRec, log, received, started, syncVars, shownUnsynced, serverHas,
                   skipped, troubles>>

\* The phone reloads the page: the table stays, everything in memory goes.
PageReloads ==
    /\ troubles < MaxTroubles /\ troubles' = troubles + 1
    /\ recording' = FALSE /\ shownRec' = FALSE /\ loadingDbc' = FALSE /\ started' = FALSE
    /\ syncing' = FALSE /\ shownSync' = FALSE /\ syncDbc' = NoDbc /\ keptDbc' = NoDbc /\ syncAt' = "idle" /\ batch' = {}
    /\ shownUnsynced' = Cardinality(Unsynced)
    /\ UNCHANGED <<log, received, activeDbc, serverHas, skipped>>

BbNext ==
    \/ ToggleRecording \/ UpdateCounts \/ HandleSync \/ SyncStep \/ UploadFails
    \/ HandlePurge \/ SelectDbc \/ PageReloads
    \/ \E can \in CanIds : LogFrame(can)
    \/ \E dbc \in Dbcs : Starts(dbc) \/ DbcFetched(dbc)

-----------------------------------------------------------------------------
(* Properties. *)

\* A frame counts as synced only when the server has it, or when the DBC of the sync knew
\* none of its signals: whatever is purged, reloaded, selected or refused between two steps.
SyncedMeansUploaded == \A n \in DOMAIN log : log[n].synced => serverHas[n] > 0 \/ n \in skipped

\* No frame reaches the server twice unless an upload failed or the page was reloaded, and
\* never more often than that.
UploadedOnce == \A n \in 1..MaxFrames : serverHas[n] <= 1 + troubles

\* Frames reach the server and are marked, each once (syncToServer, markAsSynced).
LogIsTrue == SyncedMeansUploaded /\ UploadedOnce

\* A sync that has nothing more to send stops, once no frames come in any more.
SyncEnds == syncing ~> ~syncing

BbSpec == BbInit /\ [][BbNext]_bbVars /\ WF_bbVars(SyncStep)
=============================================================================
