----------------------------- MODULE DataStore -----------------------------
(* Pecan's store of received frames, pecan/src/lib/DataStore.ts, on top of    *)
(* the archive.  A frame goes into the buffer of its message and into the     *)
(* trace; each is pruned by its own newest frame, and what leaves the trace   *)
(* is queued for the archive.  While the cursor is in the past, a warm cache  *)
(* holds frames read back from the archive.  A snapshot of the trace in       *)
(* localStorage is restored, bit by bit, when the page is loaded again.       *)
EXTENDS ColdStore

CONSTANTS
    Ids,            \* CAN identifiers
    Retentions,     \* settings of how far back memory reaches
    TraceMax,       \* cap on the trace
    MessageCap,     \* cap on the buffer of a message
    SnapshotMin,    \* a snapshot has at least so many frames
    SnapshotMax,    \*   and at most so many
    SnapshotTTL,    \* a snapshot older than this is not restored
    RestoreChunk,   \* frames of a snapshot restored at a time
    MaxFrames,      \* bounds of the model: frames received,
    MaxTime,        \*   time,
    MaxLate         \*   and how late a frame may come

ASSUME DataStoreAssumption ==
    /\ {TraceMax, MessageCap, RestoreChunk, SnapshotMin} \subseteq Nat \ {0}
    /\ {SnapshotMax, SnapshotTTL, MaxFrames, MaxTime, MaxLate} \union Retentions \subseteq Nat
    /\ IsFiniteSet(Ids)
    /\ {(t \div ChunkLen) * ChunkLen : t \in 0 .. MaxTime} \subseteq Chunks    \* every time has its chunk

VARIABLES
    now,            \* the clock
    setting,        \* the retention in the settings
    retention,      \*   and the one in force
    received,       \* number of frames received so far
    buf,            \* byMsgId of the live source
    trace,          \* trace of the live source
    replayed,       \* trace of the replay source
    active,         \* the source the reading operations default to
    snapshot,       \* the end of the trace as last persisted, when, under which retention
    restoring,      \* frames of the snapshot still to be restored
    saveTimer,      \* a snapshot is going to be saved
    warm,           \* the warm cache
    loading,        \* the range being loaded into it
    pending         \* the range asked for meanwhile

hotVars == <<received, buf, trace>>
warmVars == <<warm, loading, pending>>
dataVars == <<now, setting, retention, received, buf, trace, replayed, active, snapshot, restoring, saveTimer,
              warm, loading, pending>>

None == [none |-> TRUE]
Frame == [n : 1 .. MaxFrames, t : 0 .. MaxTime, id : Ids]
Message(n, t, i) == [n |-> n, t |-> t, id |-> i]

DataInit ==
    /\ now = 0
    /\ setting \in Retentions /\ retention = setting
    /\ received = 0
    /\ buf = [i \in Ids |-> <<>>]
    /\ trace = <<>>
    /\ replayed = <<>>
    /\ active = "live"
    /\ snapshot = None
    /\ restoring = <<>>
    /\ saveTimer = FALSE
    /\ warm = None
    /\ loading = None
    /\ pending = None

-----------------------------------------------------------------------------
(* Reading.  The searches are the code's, round by round: they take the array *)
(* to be sorted whether it is or not, and are through after Len(s) rounds.    *)

Halved(w, s, t) ==
    LET mid == (w.lo + w.hi) \div 2
    IN  IF w.lo >= w.hi THEN w
        ELSE IF s[mid + 1].t < t THEN [w EXCEPT !.lo = mid + 1] ELSE [w EXCEPT !.hi = mid]

(* The number of elements before the first one not older than t.              *)
FirstGte(s, t) ==
    LET after[k \in 0 .. Len(s)] ==
            IF k = 0 THEN [lo |-> 0, hi |-> Len(s)] ELSE Halved(after[k - 1], s, t)
    IN  after[Len(s)].lo

LatestIn(s, t) ==                     \* binarySearchLatestAt
    IF s = <<>> THEN None
    ELSE IF Last(s).t <= t THEN Last(s)
    ELSE LET k == FirstGte(s, t + 1) IN IF k > 0 THEN s[k] ELSE None

Narrowed(w, s, t) ==
    LET mid == (w.left + w.right) \div 2
    IN  IF w.left > w.right THEN w
        ELSE IF s[mid].t <= t THEN [w EXCEPT !.left = mid + 1, !.answer = mid]
        ELSE [w EXCEPT !.right = mid - 1]
LatestAt(s, t) ==                     \* getLatestAt
    LET after[k \in 0 .. Len(s)] ==
            IF k = 0 THEN [left |-> 1, right |-> Len(s), answer |-> 0] ELSE Narrowed(after[k - 1], s, t)
        found == after[Len(s)].answer
    IN  IF s = <<>> THEN None
        ELSE IF Last(s).t <= t THEN Last(s)
        ELSE IF found > 0 THEN s[found] ELSE None

Window(s, from, to) == SubSeq(s, FirstGte(s, from) + 1, FirstGte(s, to + 1))

(* loadRange sorts what it has read.                                          *)
InTimeOrder(fs) == CHOOSE s \in SetToSeqs(fs) : \A j, k \in DOMAIN s : j < k => ~ByTime(s[k], s[j])
WarmSamples(cache, i) ==
    IF cache = None THEN <<>> ELSE InTimeOrder({f \in cache.frames : f.id = i})

\* Mutant: the warm cache is asked first.
WarmFirst(cache, t) ==
    [i \in Ids |-> LET old == LatestIn(WarmSamples(cache, i), t)
                   IN  IF old # None THEN old ELSE LatestAt(buf[i], t)]

(* getHistoryAt and getAllLatestAt for the live source.                       *)
HistoryAt(i, window, to) ==
    ToSet(Window(WarmSamples(warm, i), to - window, to)) \union ToSet(Window(buf[i], to - window, to))
AllLatestAt(cache, t) ==
    [i \in Ids |-> LET hot == LatestAt(buf[i], t)
                   IN  IF hot # None THEN hot ELSE LatestIn(WarmSamples(cache, i), t)]

(* getStats: the oldest and the newest of what the messages' buffers hold.    *)
Buffered == {i \in Ids : buf[i] # <<>>}
OldestSample == Min({buf[i][1].t : i \in Buffered})
NewestSample == Max({Last(buf[i]).t : i \in Buffered})

-----------------------------------------------------------------------------
(* Ingestion.                                                                 *)

(* pruneOldSamples, by the newest frame of the message.                       *)
PrunedMessage(s) ==
    LET kept == SubSeq(s, FirstGte(s, Last(s).t - retention) + 1, Len(s))
    IN  IF Len(kept) > MessageCap THEN SubSeq(kept, Len(kept) - MessageCap + 1, Len(kept)) ELSE kept

(* pruneTraceBuffer, by the time of what has just come: how many go.          *)
Evicted(s, t) ==
    LET old == FirstGte(s, t - retention) IN Max({old, Len(s) - TraceMax})

(* The buffer of a message after the frames fs.                               *)
Fed(i, fs) ==
    LET after[k \in 0 .. Len(fs)] ==
            IF k = 0 THEN buf[i]
            ELSE IF fs[k].id = i THEN PrunedMessage(Append(after[k - 1], fs[k])) ELSE after[k - 1]
    IN  after[Len(fs)]

(* The live buffers after the frames fs, which arrive together.               *)
Ingest(fs) ==
    LET grown == trace \o fs
        out   == Evicted(grown, Max({f.t : f \in ToSet(fs)}))
        gone  == SubSeq(grown, 1, out)
    IN  /\ buf' = [i \in Ids |-> Fed(i, fs)]
        /\ trace' = SubSeq(grown, out + 1, Len(grown))
        /\ QueueFrames(gone)
        /\ excused' = IF ready THEN excused ELSE excused \union ToSet(gone)

(* A frame from the car, which may have been held up on its way.              *)
IngestMessage ==
    /\ received < MaxFrames
    /\ \E t \in {u \in 0 .. now : u >= now - MaxLate}, i \in Ids :
          Ingest(<<Message(received + 1, t, i)>>)
    /\ received' = received + 1
    /\ saveTimer' = (restoring = <<>> \/ saveTimer)
    /\ UNCHANGED <<now, setting, retention, replayed, active, snapshot, restoring, ready, index, files, savedIndex,
                   flush, clearing, warm, loading, pending>>

Tick ==
    /\ now < MaxTime
    /\ now' = now + 1
    /\ UNCHANGED <<setting, retention, received, buf, trace, replayed, active, snapshot, restoring, saveTimer,
                   warm, loading, pending, coldVars>>

(* What the user throws away is excused: everything, before a serial port is  *)
(* read (SerialService), or the trace of the source on view.                  *)
ClearData ==
    /\ buf' = [i \in Ids |-> <<>>]
    /\ trace' = <<>>
    /\ replayed' = <<>>
    /\ saveTimer' = (restoring = <<>> \/ saveTimer)
    /\ excused' = excused \union ToSet(trace)
    /\ UNCHANGED <<now, setting, retention, received, active, snapshot, restoring, warmVars, ready, index, files,
                   savedIndex, writeBuffer, flushTimer, queued, flush, clearing>>

ClearTrace ==
    /\ IF active = "live"
       THEN trace' = <<>> /\ excused' = excused \union ToSet(trace) /\ UNCHANGED replayed
       ELSE replayed' = <<>> /\ UNCHANGED <<trace, excused>>
    /\ saveTimer' = (restoring = <<>> \/ saveTimer)
    /\ UNCHANGED <<now, setting, retention, received, buf, active, snapshot, restoring, warmVars, ready, index,
                   files, savedIndex, writeBuffer, flushTimer, queued, flush, clearing>>

(* setRetentionWindow prunes everything by the new setting, the trace by the  *)
(* time of its last frame.                                                    *)
SetRetention ==
    \E w \in Retentions \ {retention} :
        LET out  == IF trace = <<>> THEN 0
                    ELSE Max({FirstGte(trace, Last(trace).t - w), Len(trace) - TraceMax})
            gone == SubSeq(trace, 1, out)
        IN  /\ retention' = w /\ setting' = w
            /\ buf' = [i \in Ids |-> IF buf[i] = <<>> THEN <<>>
                                     ELSE SubSeq(buf[i], FirstGte(buf[i], Last(buf[i]).t - w) + 1, Len(buf[i]))]
            /\ trace' = SubSeq(trace, out + 1, Len(trace))
            /\ QueueFrames(gone)
            /\ excused' = IF ready THEN excused ELSE excused \union ToSet(gone)
            /\ saveTimer' = (restoring = <<>> \/ saveTimer)
            /\ UNCHANGED <<now, received, replayed, active, snapshot, restoring, warmVars, ready, index,
                           files, savedIndex, flush, clearing>>

-----------------------------------------------------------------------------
(* The snapshot.                                                              *)

(* How many frames it may hold: as many as there are, halved while they do    *)
(* not fit into the storage left by what matters more; too few are not worth  *)
(* it and remove the one before.                                              *)
SnapshotSizes ==
    LET most == Min({SnapshotMax, Len(trace)})
    IN  {n \in {most, most \div 2} : n >= SnapshotMin}

PersistSnapshot ==
    /\ saveTimer
    /\ saveTimer' = FALSE
    /\ \/ \E n \in SnapshotSizes :
             snapshot' = [at |-> now, retention |-> retention,
                          frames |-> SubSeq(trace, Len(trace) - n + 1, Len(trace))]
       \/ SnapshotSizes = {} /\ snapshot' = None
    /\ UNCHANGED <<now, setting, retention, received, buf, trace, replayed, active, restoring, warm, loading,
                   pending, coldVars>>

(* One chunk of restoreLiveTraceFromFrames; live frames may come in between.  *)
RestoreSnapshot ==
    /\ restoring # <<>>
    /\ LET n == Min({RestoreChunk, Len(restoring)})
       IN  /\ Ingest(SubSeq(restoring, 1, n))
           /\ restoring' = SubSeq(restoring, n + 1, Len(restoring))
    /\ saveTimer' = (restoring' = <<>> \/ saveTimer)
    /\ UNCHANGED <<now, setting, retention, received, replayed, active, snapshot, ready, index, files, savedIndex,
                   flush, clearing, warm, loading, pending>>

(* The tab is closed or reloaded: memory starts from a snapshot that is not   *)
(* too old, and keeps to the retention in it rather than to the setting.      *)
Restorable == IF snapshot # None /\ now - snapshot.at <= SnapshotTTL THEN snapshot.frames ELSE <<>>

MemoryLost(kept) ==
    /\ buf' = [i \in Ids |-> <<>>]
    /\ trace' = <<>>
    /\ replayed' = <<>>
    /\ active' = "live"
    /\ restoring' = kept
    /\ snapshot' = IF kept = <<>> THEN None ELSE snapshot
    /\ retention' = IF kept = <<>> THEN setting ELSE snapshot.retention
    /\ saveTimer' = FALSE
    /\ warm' = None /\ loading' = None /\ pending' = None
    /\ ColdStoreDies((ToSet(trace) \union ToSet(restoring)) \ ToSet(kept))
    /\ UNCHANGED <<now, setting, received>>

DataStoreDies == MemoryLost(Restorable)

-----------------------------------------------------------------------------
(* The warm cache.                                                            *)

Covers(cache, from, to) == cache # None /\ cache.from <= from /\ cache.to >= to
Load(from, to) == [from |-> from, to |-> to, keys |-> Relevant(from, to)]

\* Mutant: what is asked for while a range is being loaded is forgotten.
PrefetchIfIdle(from, to) ==
    IF loading # None \/ Covers(warm, from, to) THEN UNCHANGED warmVars
    ELSE loading' = Load(from, to) /\ UNCHANGED <<warm, pending>>

(* prefetchWarmCache, part of the action that asks for a range.               *)
Prefetch(from, to) ==
    IF loading # None THEN pending' = [from |-> from, to |-> to] /\ UNCHANGED <<warm, loading>>
    ELSE IF Covers(warm, from, to) THEN UNCHANGED warmVars
    ELSE loading' = Load(from, to) /\ UNCHANGED <<warm, pending>>

(* The archive has answered; the range that was asked for last comes next.    *)
WarmCacheLoaded ==
    /\ loading # None
    /\ LET frames == IF ready THEN ReadChunks(loading.keys, loading.from, loading.to) ELSE {}
           cache  == [from |-> loading.from, to |-> loading.to, frames |-> frames]
       IN  /\ warm' = cache
           /\ loading' = IF pending # None /\ ~Covers(cache, pending.from, pending.to)
                         THEN Load(pending.from, pending.to) ELSE None
    /\ pending' = None
    /\ UNCHANGED <<now, setting, retention, received, buf, trace, replayed, active, snapshot, restoring, saveTimer,
                   coldVars>>

-----------------------------------------------------------------------------
(* Every frame received is in memory, on its way to the archive or in it,     *)
(* waiting to be restored, or excused.                                        *)
NoFrameVanishes ==
    \A n \in 1 .. received :
        \E f \in ToSet(trace) \union ToSet(restoring) \union Unwritten \union Stored \union excused : f.n = n
=============================================================================
