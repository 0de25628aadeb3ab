------------------------------ MODULE CloudSync ------------------------------
(***************************************************************************)
(* Copying the base station's TimescaleDB to the cloud                     *)
(* (universal-telemetry-software/cloud-sync): a button starts a sync, which *)
(* takes MAX(time) of the cloud table as its cursor, reads the local rows  *)
(* beyond it in the order of their times and commits them to the cloud in  *)
(* batches.  Nothing but the cloud table says how far a sync has come.     *)
(*                                                                         *)
(* A row is its key; what the signal columns hold is left out, and so is   *)
(* the choice of other tables.                                             *)
(***************************************************************************)
EXTENDS Integers, FiniteSets

CONSTANTS
  Times,      \* timestamps, in the milliseconds CAN frames are stamped with
  Names,      \* message names
  Jobs,       \* requests the service's thread pool handles at once
  BatchSize   \* SYNC_BATCH_SIZE

ASSUME CloudSyncAssumption == Times \subseteq Nat /\ BatchSize \in Nat \ {0}

Row == [time : Times, name : Names]
Never == -1                                \* MAX(time) of an empty table

VARIABLES
  local,    \* the base station's table
  late,     \* history: rows that came after a row with a later time
  cloud,    \* the cloud's table
  running,  \* _sync_state["running"]
  pc,       \* where each request is
  cursor,   \* the cursor its sync has read
  todo      \* what its server-side cursor has yet to deliver

syncVars == <<running, pc, cursor, todo>>
vars == <<local, late, cloud, syncVars>>

TypeOK ==
  /\ local \in SUBSET Row /\ late \in SUBSET Row /\ cloud \in SUBSET Row
  /\ running \in BOOLEAN
  /\ pc \in [Jobs -> {"idle", "cleared", "started", "reading", "copying"}]
  /\ cursor \in [Jobs -> Times \cup {Never}]
  /\ todo \in [Jobs -> SUBSET Row]

Init ==
  /\ local = {} /\ late = {} /\ cloud = {}
  /\ running = FALSE
  /\ pc = [j \in Jobs |-> "idle"]
  /\ cursor = [j \in Jobs |-> Never] /\ todo = [j \in Jobs |-> {}]

----------------------------------------------------------------------------
\* timescale_bridge commits a row.  Rows recovered over TCP carry the time at
\* which the car read them and come after later ones.
Record(r) ==
  /\ r \notin local
  /\ local' = local \cup {r}
  /\ late' = IF \E x \in local : x.time > r.time THEN late \cup {r} ELSE late
  /\ UNCHANGED <<cloud, syncVars>>

\* t is what SELECT MAX(time) returns.
IsLatest(t, table) ==
  IF table = {} THEN t = Never
  ELSE (\E r \in table : r.time = t) /\ (\A r \in table : r.time <= t)
Newer(table, time) == {r \in table : r.time > time}

\* What fetchmany delivers next.  Mutant: the query is not ordered.
UnorderedBatch(batch, rows) ==
  Cardinality(batch) = IF Cardinality(rows) < BatchSize THEN Cardinality(rows) ELSE BatchSize
NextBatch(batch, rows) ==
  /\ Cardinality(batch) = IF Cardinality(rows) < BatchSize THEN Cardinality(rows) ELSE BatchSize
  /\ \A r \in batch, x \in rows \ batch : r.time <= x.time

At(j, here) == pc[j] = here
Goto(j, there) == pc' = [pc EXCEPT ![j] = there]

\* trigger_sync tests the flag, and sets it, in a thread of its own request.
SeeIdle(j) ==
  /\ At(j, "idle") /\ ~running
  /\ Goto(j, "cleared")
  /\ UNCHANGED <<local, late, cloud, running, cursor, todo>>
Start(j) ==
  /\ At(j, "cleared")
  /\ running' = TRUE /\ Goto(j, "started")
  /\ UNCHANGED <<local, late, cloud, cursor, todo>>

\* Mutant: the cursor steps over the last row's millisecond.
CursorAfter(t) == t + 1
CursorAt(t) == t
ReadCursor(j) ==
  /\ At(j, "started")
  /\ \E t \in Times \cup {Never} :
       IsLatest(t, cloud) /\ cursor' = [cursor EXCEPT ![j] = CursorAt(t)]
  /\ Goto(j, "reading")
  /\ UNCHANGED <<local, late, cloud, running, todo>>

\* The result of a query is fixed when it is opened; an empty one ends the sync.
OpenRead(j) ==
  /\ At(j, "reading")
  /\ LET rows == Newer(local, cursor[j]) IN
       IF rows = {} THEN /\ running' = FALSE /\ Goto(j, "idle") /\ UNCHANGED todo
       ELSE /\ todo' = [todo EXCEPT ![j] = rows] /\ Goto(j, "copying")
            /\ UNCHANGED running
  /\ UNCHANGED <<local, late, cloud, cursor>>

\* One batch is inserted, rows already there updated, and committed.
CopyBatch(j) ==
  /\ At(j, "copying") /\ todo[j] # {}
  /\ \E batch \in SUBSET todo[j] :
       /\ NextBatch(batch, todo[j])
       /\ cloud' = cloud \cup batch
       /\ todo' = [todo EXCEPT ![j] = @ \ batch]
  /\ UNCHANGED <<local, late, running, pc, cursor>>

Finish(j) ==
  /\ At(j, "copying") /\ todo[j] = {}
  /\ running' = FALSE /\ Goto(j, "idle")
  /\ UNCHANGED <<local, late, cloud, cursor, todo>>

\* Either database fails: what has been committed stays, and the rest is left
\* to the next sync.
Fail(j) ==
  /\ pc[j] \in {"started", "reading", "copying"}
  /\ running' = FALSE /\ Goto(j, "idle")
  /\ todo' = [todo EXCEPT ![j] = {}]
  /\ UNCHANGED <<local, late, cloud, cursor>>

\* The service is stopped and started again.
Restart ==
  /\ running' = FALSE
  /\ pc' = [j \in Jobs |-> "idle"] /\ todo' = [j \in Jobs |-> {}]
  /\ cursor' = [j \in Jobs |-> Never]
  /\ UNCHANGED <<local, late, cloud>>

Sync(j) ==
  \/ SeeIdle(j) \/ Start(j) \/ ReadCursor(j) \/ OpenRead(j)
  \/ CopyBatch(j) \/ Finish(j) \/ Fail(j)

Next == (\E r \in Row : Record(r)) \/ (\E j \in Jobs : Sync(j)) \/ Restart

Spec == Init /\ [][Next]_vars

----------------------------------------------------------------------------
(* Properties *)

\* A sync that failed half way, two at once and rows recorded meanwhile leave
\* no hole in the cloud: a row older than one that is there is there too,
\* unless it reached the local table out of order or shares its time with
\* another row.
HasTwin(r) == \E x \in local : x # r /\ x.time = r.time
OnlyLateOrTwinSkipped ==
  \A r \in local \ cloud :
    (\E x \in cloud : r.time <= x.time) => r \in late \/ HasTwin(r)
=============================================================================
