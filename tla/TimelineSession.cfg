SPECIFICATION MCSpec
CONSTANTS
  ChunkLen = 2
  MaxDuration = 1
  MaxSize = 3
  MinFlush = 2
  LastChunk = 4
  Ids = {a}
  Retentions = {1, 3}
  TraceMax = 2
  MessageCap = 2
  SnapshotMin = 2
  SnapshotMax = 2
  SnapshotTTL = 1
  RestoreChunk = 1
  MaxFrames = 4
  MaxTime = 4
  MaxLate = 1
  WindowLen = 1
  Pad = 1
  Files <- MCFiles
  FrameCap = 2
  Budgets <- MCBudgets
INVARIANTS FramesAreKept PastIsServed
PROPERTY SessionLasts
CHECK_DEADLOCK FALSE
