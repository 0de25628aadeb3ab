--------------------------- MODULE TimescaleBridge ---------------------------
(***************************************************************************)
(* Recording the live feed (universal-telemetry-software/src/              *)
(* timescale_bridge.py): a process subscribes to Redis, collects decoded   *)
(* frames in a batch and writes the batch to TimescaleDB when it is full   *)
(* or a second old.                                                        *)
(*                                                                         *)
(* One thread does all of it, so an action is a loop iteration, or within  *)
(* process_message the handling of a frame; the database may go down or    *)
(* come back between any two.  A frame is its position in the order of     *)
(* arrival, and a row its primary key; the signal values are left out.     *)
(***************************************************************************)
EXTENDS Integers, Sequences, SequencesExt

CONSTANTS
  Times, Names,  \* what makes a row's primary key
  BatchSize,     \* TIMESCALE_BATCH_SIZE
  MaxFrames,     \* bound: frames received
  MaxOutages,    \* bound: times the database goes down
  MaxStarts      \* bound: processes, one more than its restarts

ASSUME BridgeAssumption ==
  /\ BatchSize \in Nat \ {0} /\ MaxStarts \in Nat \ {0}
  /\ MaxFrames \in Nat /\ MaxOutages \in Nat

Key == [time : Times, name : Names]
Frames == 1 .. MaxFrames
Nothing == 0                     \* the database has no row under a key

VARIABLES
  sent,          \* history: the key of each frame received
  at,            \* where the loop is: "waiting", "processing", "checking", "down"
  inbox,         \* frames of the message under way still to be handled
  batch,         \* _batch
  known,         \* _known_signals, by message name
  due,           \* FLUSH_INTERVAL has passed since _last_flush
  starts,
  dbUp, outages,
  db,            \* the frame each row was last written from
  lost           \* history: frames given up

envVars == <<dbUp, outages>>
procVars == <<at, inbox, batch, known, due, starts>>
vars == <<sent, procVars, envVars, db, lost>>

TypeOK ==
  /\ sent \in Seq(Key) /\ Len(sent) <= MaxFrames
  /\ at \in {"waiting", "processing", "checking", "down"}
  /\ inbox \in Seq(Frames) /\ batch \in Seq(Frames)
  /\ known \in SUBSET Names /\ due \in BOOLEAN
  /\ starts \in 1 .. MaxStarts /\ dbUp \in BOOLEAN /\ outages \in 0 .. MaxOutages
  /\ db \in [Key -> {Nothing} \cup 1 .. Len(sent)] /\ lost \in SUBSET Frames

Init ==
  /\ sent = <<>> /\ db = [k \in Key |-> Nothing] /\ lost = {}
  /\ at = "waiting" /\ inbox = <<>> /\ batch = <<>> /\ known = {} /\ due = FALSE
  /\ starts = 1 /\ dbUp = TRUE /\ outages = 0

----------------------------------------------------------------------------
\* The columns a batch needs.  Mutant: the cache remembers rows, not names.
KeysOf(rows) == {sent[n] : n \in ToSet(rows)}
NamesOf(rows) == {sent[n].name : n \in ToSet(rows)}
Of(rows, k) == {n \in ToSet(rows) : sent[n] = k}

\* Of the rows of a batch under one key the last is written.
\* Mutant: the first is.
FirstOf(S) == CHOOSE n \in S : \A m \in S : n <= m
LastOf(S) == CHOOSE n \in S : \A m \in S : m <= n
Written(rows) == [k \in Key |-> IF Of(rows, k) = {} THEN db[k] ELSE LastOf(Of(rows, k))]

\* What the batch is after its insertion failed.  Mutant: it was not emptied.
PutBackTwice(rows) == rows \o rows
PutBack(rows) == rows

\* _flush_batch.  When a column cannot be added the rows taken out are gone;
\* when the insertion fails they are put back, written or not: the commit may
\* have reached the database though its answer was lost.  A database that is
\* down has gone down at some point before the call returned.
FlushSucceeds(rows) ==
  /\ dbUp
  /\ known' = known \cup NamesOf(rows)
  /\ db' = Written(rows) /\ batch' = <<>> /\ due' = FALSE
ColumnsFail(rows) ==
  /\ ~dbUp /\ ~(NamesOf(rows) \subseteq known)
  /\ batch' = <<>> /\ due' = FALSE
  /\ UNCHANGED <<known, db>>
InsertFails(rows) ==
  /\ ~dbUp
  /\ known' = known \cup NamesOf(rows)
  /\ db' \in {db, Written(rows)} /\ batch' = PutBack(rows) /\ due' = FALSE

----------------------------------------------------------------------------
\* A message of decodable frames comes in from Redis.
Receive ==
  /\ at = "waiting"
  /\ \E n \in 1 .. MaxFrames - Len(sent) : \E keys \in [1 .. n -> Key] :
       /\ sent' = sent \o keys
       /\ inbox' = [i \in 1 .. n |-> Len(sent) + i]
  /\ at' = "processing"
  /\ UNCHANGED <<batch, known, due, starts, envVars, db, lost>>

Full(rows) == Len(rows) >= BatchSize

\* process_message adds a frame to the batch and flushes a full one.  An
\* exception leaves the loop over the message's frames.
TakeFrame ==
  /\ at = "processing" /\ inbox # <<>>
  /\ LET rows == Append(batch, Head(inbox))
         rest == ToSet(Tail(inbox))
     IN \/ /\ ~Full(rows)
           /\ batch' = rows /\ inbox' = Tail(inbox)
           /\ UNCHANGED <<known, due, db, lost>>
        \/ /\ Full(rows) /\ FlushSucceeds(rows)
           /\ inbox' = Tail(inbox) /\ UNCHANGED lost
        \/ /\ Full(rows) /\ ColumnsFail(rows)
           /\ inbox' = <<>> /\ lost' = lost \cup ToSet(rows) \cup rest
        \/ /\ Full(rows) /\ InsertFails(rows)
           /\ inbox' = <<>> /\ lost' = lost \cup rest
  /\ UNCHANGED <<sent, at, starts, envVars>>

\* The message is done, or none has come for a second.
MessageDone ==
  /\ \/ at = "processing" /\ inbox = <<>>
     \/ at = "waiting"
  /\ at' = "checking"
  /\ UNCHANGED <<sent, inbox, batch, known, due, starts, envVars, db, lost>>

\* _periodic_flush swallows what the flush raises.  Mutant: only a full batch.
DueWhenFull == due /\ Full(batch)
Due == due /\ batch # <<>>
CheckInterval ==
  /\ at = "checking" /\ at' = "waiting"
  /\ \/ ~Due /\ UNCHANGED <<batch, known, due, db, lost>>
     \/ Due /\ FlushSucceeds(batch) /\ UNCHANGED lost
     \/ Due /\ ColumnsFail(batch) /\ lost' = lost \cup ToSet(batch)
     \/ Due /\ InsertFails(batch) /\ UNCHANGED lost
  /\ UNCHANGED <<sent, inbox, starts, envVars>>

IntervalPasses ==
  /\ at # "down" /\ ~due
  /\ due' = TRUE
  /\ UNCHANGED <<sent, at, inbox, batch, known, starts, envVars, db, lost>>

\* The subscription fails, or the process is told to stop: run ends, and
\* close flushes what it can.
Stop ==
  /\ at = "waiting" /\ at' = "down"
  /\ known' = {} /\ batch' = <<>> /\ due' = FALSE
  /\ \/ dbUp /\ db' = Written(batch) /\ UNCHANGED lost
     \/ ~dbUp /\ db' \in {db, Written(batch)} /\ lost' = lost \cup ToSet(batch)
  /\ UNCHANGED <<sent, inbox, starts, envVars>>

\* The process is killed.
Kill ==
  /\ at # "down" /\ at' = "down"
  /\ known' = {} /\ batch' = <<>> /\ inbox' = <<>> /\ due' = FALSE
  /\ lost' = lost \cup ToSet(batch) \cup ToSet(inbox)
  /\ UNCHANGED <<sent, starts, envVars, db>>

\* A new process opens its connection pool, or ends at once.
Start ==
  /\ at = "down" /\ dbUp /\ starts < MaxStarts
  /\ at' = "waiting" /\ starts' = starts + 1
  /\ UNCHANGED <<sent, inbox, batch, known, due, envVars, db, lost>>

DbDown ==
  /\ dbUp /\ outages < MaxOutages
  /\ dbUp' = FALSE /\ outages' = outages + 1
  /\ UNCHANGED <<sent, procVars, db, lost>>
DbBack ==
  /\ ~dbUp /\ dbUp' = TRUE
  /\ UNCHANGED <<sent, procVars, outages, db, lost>>

Loop == TakeFrame \/ MessageDone \/ CheckInterval
Next == Receive \/ Loop \/ IntervalPasses \/ Stop \/ Kill \/ Start \/ DbDown \/ DbBack

Spec == Init /\ [][Next]_vars

\* The loop goes round, time passes, and the database comes back.
Fairness == WF_vars(Loop) /\ WF_vars(IntervalPasses) /\ WF_vars(DbBack)
FairSpec == Spec /\ Fairness

----------------------------------------------------------------------------
(* Properties *)

\* Frames wait in the order they came and none twice, however often a failed
\* flush put them back: "the last row of a key" is the newest.
Waiting == batch \o inbox
ArrivalOrder == \A i, j \in 1 .. Len(Waiting) : i < j => Waiting[i] < Waiting[j]

\* A frame received is waiting, has been given up, or is what its row holds
\* unless a newer one is: no failed or repeated flush makes one disappear, and
\* none puts an old value over a new one.
Accounted ==
  \A n \in 1 .. Len(sent) : n \notin ToSet(Waiting) \cup lost => db[sent[n]] >= n

\* A frame does not stay in the batch: neither a quiet feed nor an outage that
\* ends keeps it there.
BatchIsWritten == \A n \in Frames : n \in ToSet(batch) ~> n \notin ToSet(batch)
=============================================================================
