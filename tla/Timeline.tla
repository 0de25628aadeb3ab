------------------------------ MODULE Timeline ------------------------------
(* Pecan's timeline (context/TimelineContext.tsx, components/TimelineBar.tsx, *)
(* components/ReplayImportClipModal.tsx, pages/ReplayViewer.tsx): a cursor    *)
(* over what is in memory and in the archive, live or over a recording that   *)
(* has been imported, with checkpoints kept for each of the two, and the      *)
(* export of a range.  A handler and the effects of the state it sets are one *)
(* action; what follows an await is another.                                  *)
EXTENDS DataStore

CONSTANTS
    WindowLen, Pad,     \* windowMs, and the margin a prefetch adds
    Files,              \* recordings that can be imported
    FrameCap            \* REPLAY_FRAME_HARD_CAP

NoTime == -1

(* What an import decodes: a frame has a relative time and may have a date.   *)
Recording == [frames : SUBSET [n : Nat, rel : Int, epoch : Nat \union {NoTime}],
              checkpoints : SUBSET Int, cursor : Int]

ASSUME TimelineAssumption ==
    /\ {WindowLen, Pad, FrameCap} \subseteq Nat
    /\ \A file \in Files : file \in Recording /\ file.frames # {} /\ IsFiniteSet(file.frames)

VARIABLES
    mode,           \* "live" or "paused"
    cursor,         \* selectedTimeMs
    bounds,         \* collectionStartMs and collectionEndMs
    checkpoints,    \* those on view
    stored,         \* those in localStorage, by source
    skip,           \* skipNextCheckpointHydrationRef
    session,        \* replaySession
    clip,           \* the range set for the export: on, and its ends if there is data
    clipping,       \* a recording over the cap, in the dialog
    importing,      \* recordings being decoded
    exporting,      \* the export under way, None if there is none
    exported,       \* history: the last export, and what it was to hold
    view,           \* the samples on the Dashboard while paused, <<>> if live
    sought,         \* history: what the last seek found
    replaced        \* history: a recording was imported over a recording

viewVars == <<mode, cursor, bounds, clip, checkpoints, stored, skip, session, view, sought, replaced>>
jobVars == <<clipping, importing, exporting, exported>>
timelineVars == <<viewVars, jobVars>>
vars == <<coldVars, dataVars, timelineVars>>

Sources == {"live", "replay"}
HasData(b) == b.start # NoTime /\ b.end # NoTime
NoClip == [on |-> FALSE, start |-> NoTime, end |-> NoTime]
Clamp(t, b) == IF HasData(b) THEN Max({b.start, Min({b.end, t})}) ELSE t

TimelineInit ==
    /\ mode = "live"
    /\ cursor = 0
    /\ bounds = [start |-> NoTime, end |-> NoTime]
    /\ clip = NoClip
    /\ checkpoints = {}
    /\ stored = [s \in Sources |-> {}]
    /\ skip = FALSE
    /\ session = None
    /\ clipping = None
    /\ importing = {}
    /\ exporting = None
    /\ exported = None
    /\ view = <<>>
    /\ sought = None
    /\ replaced = FALSE

Init == ColdInit /\ DataInit /\ TimelineInit

-----------------------------------------------------------------------------
(* The live view.                                                             *)

(* updateBounds: history reaches back into the archive.                       *)
LiveBounds ==
    LET starts == (IF Buffered = {} THEN {} ELSE {OldestSample})
                     \union (IF index = {} THEN {} ELSE {Oldest.start})
    IN  [start |-> IF starts = {} THEN NoTime ELSE Min(starts),
         end |-> IF Buffered = {} THEN NoTime ELSE NewestSample]

(* The effect that keeps the ends of the clip within what there is.           *)
ClipWithin(b) ==
    IF ~clip.on \/ ~HasData(b) THEN [clip EXCEPT !.start = NoTime, !.end = NoTime]
    ELSE [clip EXCEPT !.start = IF @ = NoTime THEN b.start ELSE Clamp(@, b),
                      !.end = IF @ = NoTime THEN b.end ELSE Clamp(@, b)]

FollowLive ==
    /\ bounds' = LiveBounds
    /\ clip' = ClipWithin(bounds')
    /\ cursor' = IF Buffered # {} THEN NewestSample
                 ELSE IF LiveBounds.start = NoTime THEN now ELSE cursor

BoundsUpdated ==
    /\ active = "live" /\ mode = "live"
    /\ FollowLive
    /\ UNCHANGED <<coldVars, dataVars, mode, checkpoints, stored, skip, session, view, sought, replaced, jobVars>>

CursorFollowsClock ==
    /\ active = "live" /\ mode = "live"
    /\ cursor' = now
    /\ UNCHANGED <<coldVars, dataVars, mode, bounds, clip, checkpoints, stored, skip, session, view, sought,
                   replaced, jobVars>>

-----------------------------------------------------------------------------
(* The cursor.                                                                *)

Cold(t) == Buffered # {} /\ t < OldestSample

(* What there is to see in the archive in the window before t.                *)
Archived(t) == LoadRange(t - WindowLen, t)

PrefetchAround(c) ==
    Prefetch(Max({IF bounds.start = NoTime THEN c ELSE bounds.start, c - WindowLen - Pad}), c + Pad)

(* What is shown is read again when the cursor moves, and only then.          *)
Reread(cache, c) == IF mode = "paused" /\ c = cursor THEN view ELSE AllLatestAt(cache, c)

Seek(t) ==
    LET c == Clamp(t, bounds)
    IN  /\ cursor' = c
        /\ mode' = "paused"
        /\ IF active = "replay" THEN UNCHANGED warmVars
           ELSE IF Cold(c) THEN PrefetchAround(c)
           ELSE warm' = None /\ UNCHANGED <<loading, pending>>
        /\ view' = IF active = "replay" THEN <<>> ELSE Reread(warm', c)
        /\ sought' = [cold |-> active = "live" /\ Cold(c), frames |-> Archived(c)]
    /\ UNCHANGED <<coldVars, now, setting, retention, received, buf, trace, replayed, active, snapshot, restoring,
                   saveTimer, bounds, checkpoints, stored, skip, session, replaced, jobVars>>
SeekOnly(t) == Seek(t) /\ UNCHANGED clip

(* The slider, while there is something under it, and the button that enables *)
(* clipping; the checkpoints' own buttons; Trace's pause.                     *)
Slider == IF HasData(bounds) THEN bounds.start .. Max({bounds.end, bounds.start + 1}) ELSE {}
DragCursor == \E t \in Slider : SeekOnly(t)
JumpToCheckpoint == \E t \in checkpoints : SeekOnly(t)
Pause ==
    /\ mode = "live" /\ active = "live"
    /\ SeekOnly(IF bounds.end = NoTime THEN now ELSE bounds.end)

(* The cursor as the slider shows it.                                         *)
Shown == IF mode = "live" /\ active = "live" THEN bounds.end ELSE Clamp(cursor, bounds)

(* Set Clip pauses, with all there is in the clip; Reset Clip leaves it.      *)
SetClip ==
    /\ HasData(bounds)
    /\ IF clip.on THEN clip' = NoClip /\ UNCHANGED <<coldVars, dataVars, mode, cursor, bounds, checkpoints, stored,
                                                    skip, session, view, sought, replaced, jobVars>>
       ELSE clip' = [on |-> TRUE, start |-> bounds.start, end |-> bounds.end] /\ Seek(Shown)

(* Neither handle passes the other.                                           *)
MoveClip ==
    /\ clip.on /\ clip.start # NoTime
    /\ \E t \in Slider :
          \/ clip' = [clip EXCEPT !.start = Max({bounds.start, Min({clip.end, t})})]
          \/ clip' = [clip EXCEPT !.end = Min({bounds.end, Max({clip.start, t})})]
    /\ UNCHANGED <<coldVars, dataVars, mode, cursor, bounds, checkpoints, stored, skip, session, view, sought,
                   replaced, jobVars>>

-----------------------------------------------------------------------------
(* Checkpoints.  The effect that follows a change writes them to the storage  *)
(* of the source on view.                                                     *)

SetCheckpoints(cps) ==
    /\ checkpoints' = cps
    /\ stored' = [stored EXCEPT ![active] = cps]
    /\ UNCHANGED <<coldVars, dataVars, mode, cursor, bounds, clip, skip, session, view, sought, replaced, jobVars>>

AddCheckpoint == HasData(bounds) /\ SetCheckpoints(checkpoints \union {Clamp(cursor, bounds)})
DeleteCheckpoint == \E t \in checkpoints : SetCheckpoints(checkpoints \ {t})
ClearCheckpoints == checkpoints # {} /\ SetCheckpoints({})

-----------------------------------------------------------------------------
(* Back to the live source.                                                   *)

\* Mutant: the marks on view stay.
HydrateNothing ==
    /\ skip' = FALSE
    /\ UNCHANGED checkpoints
    /\ stored' = [stored EXCEPT !["live"] = checkpoints']

(* The effects of a change of source: the checkpoints of the new source are   *)
(* read, unless an import has set them, and are then its stored ones.         *)
HydrateLive ==
    /\ skip' = FALSE
    /\ checkpoints' = IF skip THEN checkpoints ELSE stored["live"]
    /\ stored' = [stored EXCEPT !["live"] = checkpoints']

(* Return to Live needs something to return to, Trace's pause button nothing. *)
GoLive ==
    /\ active = "live" /\ mode = "paused"
    /\ mode' = "live"
    /\ FollowLive
    /\ view' = <<>>
    /\ UNCHANGED <<coldVars, dataVars, checkpoints, stored, skip, session, sought, replaced, jobVars>>

ClearReplaySession ==
    /\ active = "replay" /\ session # None
    /\ session' = None
    /\ replayed' = <<>>
    /\ active' = "live"
    /\ mode' = "live"
    /\ FollowLive
    /\ HydrateLive
    /\ view' = <<>>
    /\ replaced' = FALSE
    /\ saveTimer' = (restoring = <<>> \/ saveTimer)
    /\ UNCHANGED <<coldVars, now, setting, retention, received, buf, trace, snapshot, restoring, warmVars, sought,
                   jobVars>>

-----------------------------------------------------------------------------
(* Import.                                                                    *)

InOrder(fs) ==
    {s \in SetToSeqs(fs) : \A j, k \in DOMAIN s :
                             j < k => s[j].rel < s[k].rel \/ (s[j].rel = s[k].rel /\ s[j].n < s[k].n)}

\* Mutant: the dates are taken as they are.
DatedOnly(sorted) ==
    [k \in DOMAIN sorted |-> [n |-> sorted[k].n,
                              t |-> IF sorted[k].epoch = NoTime THEN now + sorted[k].rel ELSE sorted[k].epoch]]

(* Times that never go back, from dates that may.                             *)
Base(sorted) ==
    LET dated == {k \in DOMAIN sorted : sorted[k].epoch # NoTime}
    IN  IF dated # {} THEN sorted[Min(dated)].epoch ELSE now - sorted[1].rel
Dated(f, base) == IF f.epoch # NoTime THEN f.epoch ELSE base + f.rel
Normalised(sorted) ==
    LET base == Base(sorted)
        time[k \in DOMAIN sorted] ==
            IF k = 1 THEN Dated(sorted[1], base)
            ELSE Max({Dated(sorted[k], base), time[k - 1], base + sorted[k].rel})
    IN  [k \in DOMAIN sorted |-> [n |-> sorted[k].n, t |-> time[k]]]

Overflows(file) == Cardinality(file.frames) > FrameCap

ImportPicked ==
    /\ clipping = None
    /\ \E file \in Files :
          IF Overflows(file) THEN clipping' = file /\ UNCHANGED importing
          ELSE importing' = importing \union {file} /\ UNCHANGED clipping
    /\ UNCHANGED <<coldVars, dataVars, viewVars, exporting, exported>>

(* The dialog lets a range through, or all of it, or is closed.               *)
ClipChosen ==
    /\ clipping # None
    /\ clipping' = None
    /\ \/ \E from, to \in {f.rel : f \in clipping.frames} :
             LET kept == {f \in clipping.frames : from <= f.rel /\ f.rel <= to}
             IN  kept # {} /\ importing' = importing \union {[clipping EXCEPT !.frames = kept]}
       \/ UNCHANGED importing
    /\ UNCHANGED <<coldVars, dataVars, viewVars, exporting, exported>>

(* The rest of loadReplayFrames, once the decoder is there.                   *)
ReplayLoaded ==
    \E file \in importing : \E sorted \in InOrder(file.frames) :
        LET fs    == Normalised(sorted)
            range == [start |-> fs[1].t, end |-> Last(fs).t]
            marks == {t \in {fs[1].t + c : c \in file.checkpoints} : range.start <= t /\ t <= range.end}
        IN  /\ importing' = importing \ {file}
            /\ active' = "replay"
            /\ replayed' = fs
            /\ session' = [range |-> range, frames |-> fs]
            /\ mode' = "paused"
            /\ checkpoints' = marks
            /\ stored' = [stored EXCEPT !["replay"] = marks]
            /\ skip' = (active = "replay")
            /\ replaced' = (active = "replay")
            /\ bounds' = range
            /\ view' = <<>>
            /\ clip' = ClipWithin(range)
            /\ cursor' = IF file.cursor = NoTime THEN range.end ELSE Clamp(fs[1].t + file.cursor, range)
            /\ saveTimer' = (restoring = <<>> \/ saveTimer)
            /\ UNCHANGED <<coldVars, now, setting, retention, received, buf, trace, snapshot, restoring, warmVars,
                           sought, clipping, exporting, exported>>

-----------------------------------------------------------------------------
(* Export.                                                                    *)

InRange(fs, from, to) == {f \in fs : from <= f.t /\ f.t <= to}

(* Of the live source: what the trace has is copied before the archive is     *)
(* read, and what moves there meanwhile is in the copy.                       *)
ExportBegins ==
    /\ HasData(bounds) /\ exporting = None
    /\ LET from == IF clip.on THEN Min({clip.start, clip.end}) ELSE bounds.start
           to   == IF clip.on THEN Max({clip.start, clip.end}) ELSE bounds.end
       IN  exporting' = [from |-> from, to |-> to, source |-> active,
                         hot |-> InRange(ToSet(IF active = "live" THEN trace ELSE session.frames), from, to),
                         keys |-> IF ready THEN Relevant(from, to) ELSE {},
                         due |-> IF active = "replay" THEN InRange(ToSet(session.frames), from, to)
                                 ELSE InRange(ToSet(trace), from, to) \union LoadRange(from, to)]
    /\ UNCHANGED <<coldVars, dataVars, viewVars, clipping, importing, exported>>

ArchivePart(e) == IF e.source = "live" THEN ReadChunks(e.keys, e.from, e.to) ELSE {}

\* Mutant: memory is copied after the archive has been read.
ExportMemoryLast ==
    /\ exporting # None
    /\ exporting' = None
    /\ exported' = [frames |-> ArchivePart(exporting) \union
                                  IF exporting.source = "replay" THEN exporting.hot
                                  ELSE InRange(ToSet(trace), exporting.from, exporting.to),
                    due |-> exporting.due]
    /\ UNCHANGED <<coldVars, dataVars, viewVars, clipping, importing>>

ExportEnds ==
    /\ exporting # None
    /\ exporting' = None
    /\ exported' = [frames |-> exporting.hot \union ArchivePart(exporting), due |-> exporting.due]
    /\ UNCHANGED <<coldVars, dataVars, viewVars, clipping, importing>>

-----------------------------------------------------------------------------
(* The end of the page, and its reload.  The stored checkpoints outlive it.   *)

TimelineDies ==
    /\ mode' = "live"
    /\ cursor' = now
    /\ bounds' = [start |-> NoTime, end |-> NoTime]
    /\ clip' = NoClip
    /\ skip' = FALSE
    /\ session' = None
    /\ view' = <<>>
    /\ sought' = None
    /\ replaced' = FALSE
    /\ clipping' = None
    /\ importing' = {}
    /\ exporting' = None
    /\ exported' = None

Reload ==
    /\ DataStoreDies
    /\ TimelineDies
    /\ checkpoints' = stored["live"]
    /\ UNCHANGED stored

(* handleClearRecoveredSession: the archive is cleared, which takes a while,  *)
(* then memory, the snapshot and the checkpoints on view, and the page loads. *)
ClearSession ==
    /\ clearing
    /\ MemoryLost(<<>>)
    /\ TimelineDies
    /\ stored' = [stored EXCEPT ![active] = {}]
    /\ checkpoints' = stored'["live"]

-----------------------------------------------------------------------------
Feed == IngestMessage \/ Tick
Restore == RestoreSnapshot \/ PersistSnapshot
Archive == Background /\ UNCHANGED dataVars
Waiting == WarmCacheLoaded /\ UNCHANGED timelineVars
Faults == \/ AppendFails /\ UNCHANGED <<dataVars, timelineVars>>
          \/ Reload
UserClears ==
    \/ SetRetention /\ UNCHANGED timelineVars
    \/ ClearFiles /\ ready /\ UNCHANGED <<dataVars, timelineVars>>
    \/ ClearData /\ UNCHANGED timelineVars
    \/ ClearTrace /\ UNCHANGED timelineVars
UserSeeks == DragCursor \/ Pause \/ GoLive
UserClips == SetClip \/ MoveClip
UserMarks == AddCheckpoint \/ DeleteCheckpoint \/ ClearCheckpoints \/ JumpToCheckpoint
UserImports == ImportPicked \/ ClipChosen \/ ClearReplaySession

Next ==
    \/ (Feed \/ Restore \/ Archive) /\ UNCHANGED timelineVars
    \/ Waiting
    \/ BoundsUpdated \/ CursorFollowsClock \/ ReplayLoaded \/ ExportBegins \/ ExportEnds
    \/ Faults \/ ClearSession
    \/ UserClears \/ UserSeeks \/ UserClips \/ UserMarks \/ UserImports

Spec == Init /\ [][Next]_vars

-----------------------------------------------------------------------------
(* TimelineContext, README.md:90: while the cursor rests in time that has     *)
(* gone from memory, the warm cache covers the window before it, whatever     *)
(* seeks and loads crossed on the way there.                                  *)
WarmServesCursor ==
    mode = "paused" /\ active = "live" /\ sought # None /\ sought.cold /\ loading = None =>
        Covers(warm, IF bounds.start = NoTime THEN cursor ELSE Max({bounds.start, cursor - WindowLen}),
               cursor)

(* TimelineBar, README.md:106: an export of a range holds every frame that    *)
(* was in memory or in the archive when it began, however many of them moved  *)
(* from one to the other meanwhile, unless the limits dropped them.           *)
ExportComplete == exported # None => exported.due \ excused \subseteq exported.frames

(* TimelineContext, loadReplayFrames: the dates of a recording may go back,   *)
(* the times of the frames the timeline searches never do.                    *)
ReplaySorted ==
    session # None =>
        \A i, j \in DOMAIN session.frames : i < j => session.frames[i].t <= session.frames[j].t

(* TimelineContext: the checkpoints of the live session come back when the    *)
(* replay is unmounted, unless one recording was imported over another (the   *)
(* skip flag is then still set and the recording's marks are stored as live). *)
LiveCheckpointsReturn ==
    [][active = "replay" /\ active' = "live" /\ ~replaced => checkpoints' = stored["live"]]_vars

(* ColdStore: what is queued for the archive is not queued for ever.          *)
QueuedFramesAreWritten == writeBuffer # <<>> ~> writeBuffer = <<>>

InSequence(s) == \A i, j \in DOMAIN s : i < j => s[i].t <= s[j].t
(* DataStore: what is shown of the past, while the cursor rests there, is the *)
(* last sample up to it in memory or in the warm cache, whichever has it, as  *)
(* long as memory has the later ones: that is what lets it be asked first.    *)
LatestIsLatest ==
    \A i \in Ids :
        LET hot   == ToSet(buf[i])
            cold  == (IF warm = None THEN {} ELSE {f \in warm.frames : f.id = i}) \ hot
            past  == {f \in hot \union cold : f.t <= cursor}
            shown == AllLatestAt(warm, cursor)[i]
        IN  /\ mode = "paused" /\ active = "live"
            /\ InSequence(buf[i]) /\ \A f \in hot, g \in cold : g.t <= f.t
            => IF past = {} THEN shown = None ELSE shown # None /\ shown.t = Max({f.t : f \in past})

(* No frame is lost on its way from memory through the queue and the chunks   *)
(* to a read, a restored page or an export (DataStore, ColdStore, handleExport). *)
FramesAreKept == NoFrameVanishes /\ ArchiveIsReadable /\ ExportComplete

(* A cursor at rest in the past is served what there is of it, live or from a *)
(* recording (prefetchWarmCache, getAllLatestAt, loadReplayFrames).           *)
PastIsServed == WarmServesCursor /\ LatestIsLatest /\ ReplaySorted

(* A long session holds what it has to: the queue is written, the limits cost *)
(* the oldest, and a replay gives the marks back (ColdStore, TimelineContext).*)
SessionLasts == QueuedFramesAreWritten /\ OldestGoFirst /\ LiveCheckpointsReturn
=============================================================================
