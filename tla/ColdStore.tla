----------------------------- MODULE ColdStore -----------------------------
(* The archive of CAN frames that Pecan keeps in the browser's private file   *)
(* system: pecan/src/lib/ColdStore.ts.  Frames evicted from memory are queued *)
(* and written by a chain of flushes, one at a time; each flush appends to    *)
(* chunk files, drops the oldest chunks beyond the limits, and saves the      *)
(* index.  An await lets anything else run, so a flush is several actions: a  *)
(* read, a clear or the end of the tab may fall between any two.              *)
EXTENDS Integers, Sequences, SequencesExt, FiniteSets, FiniteSetsExt

CONSTANTS
    ChunkLen,       \* duration of a chunk file
    MaxDuration,    \* limit on the time the archive spans
    MaxSize,        \* limit on its size, in frames
    MinFlush,       \* queued frames that make a flush start at once
    LastChunk       \* bound of the model: the start of the last chunk

ASSUME ColdStoreAssumption ==
    /\ {ChunkLen, MaxSize, MinFlush} \subseteq Nat \ {0}
    /\ {MaxDuration, LastChunk} \subseteq Nat

VARIABLES
    ready,          \* the directory is open and the index has been loaded
    index,          \* the index in memory, an entry for each chunk, sorted by their starts
    files,          \* the frames in each chunk file, {} if there is none
    savedIndex,     \* index.json
    writeBuffer,    \* frames queued for writing
    flushTimer,     \* a flush has been scheduled for later
    queued,         \* flushes chained to flushPromise that have not begun
    flush,          \* the flush under way: where it is and the frames it has to write
    clearing,       \* clear() has removed the files and not yet the index
    excused         \* history: frames that an archive of this design may hide

coldVars == <<ready, index, files, savedIndex, writeBuffer, flushTimer, queued,
              flush, clearing, excused>>

Chunks == {c \in 0 .. LastChunk : c % ChunkLen = 0}
ChunkOf(f) == (f.t \div ChunkLen) * ChunkLen
ByTime(f, g) == f.t < g.t \/ (f.t = g.t /\ f.n < g.n)
Idle == [pc |-> "idle", frames |-> {}]

ColdInit ==
    /\ ready = FALSE
    /\ index = {}
    /\ files = [c \in Chunks |-> {}]
    /\ savedIndex = {}
    /\ writeBuffer = <<>>
    /\ flushTimer = FALSE
    /\ queued = 0
    /\ flush = Idle
    /\ clearing = FALSE
    /\ excused = {}

-----------------------------------------------------------------------------
(* Limits and reads.                                                          *)

(* The first and the last entry of the index.                                 *)
Oldest == CHOOSE e \in index : \A o \in index : e.start <= o.start
Newest == CHOOSE e \in index : \A o \in index : o.start <= e.start
SessionDuration == IF index = {} THEN 0 ELSE Newest.end - Oldest.start
TotalSize == MapThenSumSet(LAMBDA e : e.n, index)
OverLimit == SessionDuration > MaxDuration \/ TotalSize > MaxSize

(* The chunks a read of the range selects; it does so before its first await. *)
Relevant(from, to) == {e.key : e \in {o \in index : o.start <= to /\ o.end >= from}}

(* What it then finds in them: a chunk removed meanwhile is passed over.      *)
ReadChunks(keys, from, to) ==
    {f \in UNION {files[k] : k \in keys} : from <= f.t /\ f.t <= to}

LoadRange(from, to) == IF ready THEN ReadChunks(Relevant(from, to), from, to) ELSE {}

-----------------------------------------------------------------------------
(* The write path.                                                            *)

\* Mutants: what is queued already is forgotten; a short queue sets no timer.
QueueOnly(fs) ==
    IF ~ready \/ fs = <<>> THEN UNCHANGED <<writeBuffer, flushTimer, queued>>
    ELSE writeBuffer' = fs /\ flushTimer' = TRUE /\ UNCHANGED queued
QueueWithoutTimer(fs) ==
    IF ~ready \/ fs = <<>> THEN UNCHANGED <<writeBuffer, flushTimer, queued>>
    ELSE /\ writeBuffer' = writeBuffer \o fs
         /\ queued' = IF Len(writeBuffer') >= MinFlush THEN queued + 1 ELSE queued
         /\ UNCHANGED flushTimer

(* queueFrames, part of the action that evicts them.                          *)
QueueFrames(fs) ==
    IF ~ready \/ fs = <<>> THEN UNCHANGED <<writeBuffer, flushTimer, queued>>
    ELSE /\ writeBuffer' = writeBuffer \o fs
         /\ IF Len(writeBuffer') >= MinFlush
            THEN queued' = queued + 1 /\ UNCHANGED flushTimer
            ELSE flushTimer' = TRUE /\ UNCHANGED queued

FlushTimerFires ==
    /\ flushTimer
    /\ flushTimer' = FALSE
    /\ queued' = queued + 1
    /\ UNCHANGED <<ready, index, files, savedIndex, writeBuffer, flush, clearing, excused>>

(* The frames are sorted by time and grouped by chunk, the oldest group first. *)
GroupKey == Min({ChunkOf(f) : f \in flush.frames})
Group == {f \in flush.frames : ChunkOf(f) = GroupKey}
Earliest(group) == Min({f.t : f \in group})
Latest(group) == Max({f.t : f \in group})

FlushBegins ==
    /\ queued > 0
    /\ flush.pc = "idle"
    /\ queued' = queued - 1
    /\ writeBuffer' = <<>>
    /\ flush' = IF writeBuffer = <<>> THEN Idle
                ELSE [pc |-> "append", frames |-> ToSet(writeBuffer)]
    /\ UNCHANGED <<ready, index, files, savedIndex, flushTimer, clearing, excused>>

AfterGroup ==
    LET rest == flush.frames \ Group
    IN  [pc |-> IF rest = {} THEN "limits" ELSE "append", frames |-> rest]

AppendFile ==
    /\ flush.pc = "append"
    /\ files' = [files EXCEPT ![GroupKey] = @ \union Group]
    /\ flush' = [flush EXCEPT !.pc = "appended"]
    /\ UNCHANGED <<ready, index, savedIndex, writeBuffer, flushTimer, queued, clearing, excused>>

(* The file system refuses: the frames of the group are given up.             *)
AppendFails ==
    /\ flush.pc = "append"
    /\ flush' = AfterGroup
    /\ excused' = excused \union Group
    /\ UNCHANGED <<ready, index, files, savedIndex, writeBuffer, flushTimer, queued, clearing>>

\* Mutant: the end of a chunk stays.
ExtendedInPlace(entry, group) == [entry EXCEPT !.n = @ + Cardinality(group)]

(* The entry of a chunk after frames have been appended to it.                *)
Extended(entry, group) ==
    [entry EXCEPT !.end = Max({@, Latest(group)}), !.n = @ + Cardinality(group)]
NewEntry(key, group) ==
    [key |-> key, start |-> Earliest(group), end |-> Latest(group), n |-> Cardinality(group)]

(* A frame that is older than all its chunk held before is excused: the entry *)
(* of the chunk goes on to say when it started.                               *)
AppendIndex ==
    /\ flush.pc = "appended"
    /\ LET own == {e \in index : e.key = GroupKey}
       IN  index' = IF own # {} THEN (index \ own) \union {Extended(e, Group) : e \in own}
                    ELSE index \union {NewEntry(GroupKey, Group)}
    /\ excused' = excused \union
           {f \in files[GroupKey] : \E e \in index' : e.key = GroupKey /\ f.t < e.start}
    /\ flush' = AfterGroup
    /\ UNCHANGED <<ready, files, savedIndex, writeBuffer, flushTimer, queued, clearing>>

\* Mutant: the newest goes.
DropNewest ==
    /\ flush.pc = "limits" /\ index # {} /\ OverLimit
    /\ files' = [files EXCEPT ![Newest.key] = {}]
    /\ index' = index \ {Newest}
    /\ excused' = excused \union files[Newest.key]
    /\ UNCHANGED <<ready, savedIndex, writeBuffer, flushTimer, queued, flush, clearing>>

(* One round of enforceLimits: the oldest chunk goes, file first.             *)
DropOldest ==
    /\ flush.pc = "limits"
    /\ index # {}
    /\ OverLimit
    /\ files' = [files EXCEPT ![Oldest.key] = {}]
    /\ index' = index \ {Oldest}
    /\ excused' = excused \union files[Oldest.key]
    /\ UNCHANGED <<ready, savedIndex, writeBuffer, flushTimer, queued, flush, clearing>>

LimitsKept ==
    /\ flush.pc = "limits"
    /\ index = {} \/ ~OverLimit
    /\ flush' = [flush EXCEPT !.pc = "save"]
    /\ UNCHANGED <<ready, index, files, savedIndex, writeBuffer, flushTimer, queued, clearing, excused>>

SaveIndex ==
    /\ flush.pc = "save"
    /\ savedIndex' = index
    /\ flush' = Idle
    /\ UNCHANGED <<ready, index, files, writeBuffer, flushTimer, queued, clearing, excused>>

-----------------------------------------------------------------------------
(* Clear, opening, and the end of the tab.                                    *)

ClearFiles ==
    /\ ~clearing
    /\ clearing' = TRUE
    /\ files' = [c \in Chunks |-> IF \E e \in index : e.key = c THEN {} ELSE files[c]]
    /\ savedIndex' = {}
    /\ excused' = excused \union UNION {files[e.key] : e \in index}
    /\ UNCHANGED <<ready, index, writeBuffer, flushTimer, queued, flush>>

ColdStoreOpens ==
    /\ ~ready
    /\ ready' = TRUE
    /\ index' = savedIndex
    /\ UNCHANGED <<files, savedIndex, writeBuffer, flushTimer, queued, flush, clearing, excused>>

(* Frames that have been handed over and are not in the archive yet.          *)
Unwritten == ToSet(writeBuffer) \union flush.frames

(* All that the chunk files hold, and what of it an index finds.              *)
Stored == UNION {files[c] : c \in Chunks}
FoundBy(entries) == UNION {{f \in files[e.key] : e.start <= f.t /\ f.t <= e.end} : e \in entries}

(* The tab goes: what was queued or half written is excused, and so is what   *)
(* was appended since the index was last saved, and what else memory held.    *)
ColdStoreDies(memory) ==
    /\ ready' = FALSE
    /\ index' = {}
    /\ writeBuffer' = <<>>
    /\ flushTimer' = FALSE
    /\ queued' = 0
    /\ flush' = Idle
    /\ clearing' = FALSE
    /\ excused' = excused \union memory \union Unwritten \union (Stored \ FoundBy(savedIndex))
    /\ UNCHANGED <<files, savedIndex>>

Background ==
    \/ ColdStoreOpens
    \/ FlushTimerFires
    \/ FlushBegins
    \/ AppendFile
    \/ AppendIndex
    \/ DropOldest
    \/ LimitsKept
    \/ SaveIndex

-----------------------------------------------------------------------------
(* A flush that has ended leaves nothing in a file that a read would not      *)
(* find, but for frames that came late into their chunk, whose flush was cut  *)
(* short, or that were to be dropped.                                         *)
ArchiveIsReadable ==
    ready /\ ~clearing /\ flush.pc = "idle" =>
        \A c \in Chunks : \A f \in files[c] \ excused : f \in LoadRange(f.t, f.t)

(* The limits cost the oldest frames: what a flush removes is from chunks     *)
(* before all those it leaves, in whichever order they were begun.           *)
OldestGoFirst ==
    [][\A c \in Chunks :
         flush'.pc = "limits" /\ ~clearing' /\ files[c] # {} /\ files'[c] = {} =>
             \A e \in index' : c < e.key]_coldVars
=============================================================================
