-------------------------- MODULE CloudSyncProofs --------------------------
(***************************************************************************)
(* For any rows, any number of simultaneous syncs and any batch size: only *)
(* rows that came late or share their time can be skipped for good.        *)
(***************************************************************************)
EXTENDS CloudSync, TLAPS

\* A row nothing excuses from being copied: it came in order and alone.
Plain(r) == r \in local /\ r \notin late /\ ~HasTwin(r)

\* The cloud and what a sync has yet to copy come from the local table.
Sources ==
  /\ cloud \subseteq local
  /\ \A j \in Jobs : todo[j] \subseteq local

\* A plain row neither in the cloud nor due in a sync is newer than all that
\* sync has to copy; the cursor is a time the cloud already has.
Covered ==
  \A j \in Jobs, r \in local :
    Plain(r) /\ r \notin cloud /\ r \notin todo[j] =>
      \A x \in todo[j] : x.time < r.time
CursorReached ==
  \A j \in Jobs :
    At(j, "reading") => cursor[j] = Never \/ \E x \in cloud : x.time = cursor[j]

\* The property itself, with the strict order the induction needs.
NoHoles == \A r \in local \ cloud, x \in cloud : Plain(r) => x.time < r.time

SyncInv == TypeOK /\ Sources /\ Covered /\ CursorReached /\ NoHoles

----------------------------------------------------------------------------
LEMMA RowTimes ==
  ASSUME NEW r \in Row
  PROVE  r.time \in Nat /\ r.time > Never
<1>1. r.time \in Times
  BY DEF Row
<1>2. r.time \in Nat
  BY <1>1, CloudSyncAssumption DEF CloudSyncAssumption
<1> QED BY <1>2 DEF Never

LEMMA SyncInit == Init => SyncInv
<1> SUFFICES ASSUME Init PROVE SyncInv
  OBVIOUS
<1>1. TypeOK
  BY DEF Init, TypeOK
<1>2. Sources /\ NoHoles
  BY DEF Init, Sources, NoHoles
<1>3. Covered
  BY DEF Init, Covered
<1>4. CursorReached
  BY DEF Init, CursorReached, At
<1> QED BY <1>1, <1>2, <1>3, <1>4 DEF SyncInv

\* What is plain was plain before more rows came.
LEMMA PlainBefore ==
  ASSUME TypeOK, NEW q \in Row, Record(q), NEW r \in Row, Plain(r)'
  PROVE  (r \in local /\ Plain(r)) \/ (r = q /\ \A x \in local : x.time < r.time)
<1>1. local' = local \cup {q} /\ late \subseteq late'
  BY DEF Record
<1>2. CASE r \in local
  BY <1>1, <1>2 DEF Plain, HasTwin
<1>3. CASE r \notin local
  <2>1. r = q
    BY <1>1, <1>3 DEF Plain
  <2>2. \A x \in local : ~(x.time > r.time) /\ x.time # r.time
    BY <1>1, <1>3, <2>1 DEF Plain, HasTwin, Record
  <2>3. \A x \in local : x.time \in Nat /\ r.time \in Nat
    BY RowTimes DEF TypeOK
  <2> QED BY <2>1, <2>2, <2>3
<1> QED BY <1>2, <1>3

LEMMA RecordStep ==
  ASSUME SyncInv, NEW q \in Row, Record(q)
  PROVE  SyncInv'
<1>1. TypeOK'
  BY DEF SyncInv, TypeOK, Record, syncVars
<1>2. UNCHANGED <<cloud, running, pc, cursor, todo>> /\ local' = local \cup {q}
  BY DEF Record, syncVars
<1>3. Sources' /\ CursorReached'
  BY <1>2 DEF SyncInv, Sources, CursorReached, At
<1>4. ASSUME NEW r \in local', Plain(r)'
      PROVE  (r \in local /\ Plain(r)) \/ (\A x \in local : x.time < r.time)
  BY <1>1, <1>4, PlainBefore DEF SyncInv, TypeOK
<1>5. Covered'
  BY <1>2, <1>4 DEF SyncInv, Covered, Sources
<1>6. NoHoles'
  BY <1>2, <1>4 DEF SyncInv, NoHoles, Sources
<1> QED BY <1>1, <1>3, <1>5, <1>6 DEF SyncInv

LEMMA OpenStep ==
  ASSUME SyncInv, NEW j \in Jobs, OpenRead(j)
  PROVE  SyncInv'
<1> DEFINE rows == Newer(local, cursor[j])
<1>1. UNCHANGED <<local, late, cloud, cursor>> /\ At(j, "reading")
  BY DEF OpenRead
<1>2. CASE rows = {}
  BY <1>1, <1>2 DEF OpenRead, SyncInv, TypeOK, Sources, Covered, CursorReached, NoHoles,
                    Plain, HasTwin, At, Goto
<1>3. CASE rows # {}
  <2>1. /\ todo' = [todo EXCEPT ![j] = rows] /\ pc' = [pc EXCEPT ![j] = "copying"]
        /\ running' = running
    BY <1>3 DEF OpenRead, Goto
  <2>2. rows \subseteq local /\ local \subseteq Row
    BY DEF Newer, SyncInv, TypeOK
  <2>3. TypeOK' /\ Sources' /\ CursorReached'
    BY <1>1, <2>1, <2>2 DEF SyncInv, TypeOK, Sources, CursorReached, At
  <2>4. NoHoles'
    BY <1>1 DEF SyncInv, NoHoles, Plain, HasTwin
  <2>5. ASSUME NEW r \in local, Plain(r), r \notin cloud, r \notin rows
        PROVE  FALSE
    <3>1. ~(r.time > cursor[j]) /\ r.time \in Nat /\ r.time > Never
      BY <2>2, <2>5, RowTimes DEF Newer
    <3>2. cursor[j] \in Nat \cup {Never}
      BY CloudSyncAssumption DEF CloudSyncAssumption, SyncInv, TypeOK
    <3>3. cursor[j] # Never
      BY <3>1
    <3>4. PICK x \in cloud : x.time = cursor[j]
      BY <1>1, <3>3 DEF SyncInv, CursorReached
    <3>5. x.time < r.time
      BY <2>5, <3>4 DEF SyncInv, NoHoles
    <3> QED BY <3>1, <3>2, <3>3, <3>4, <3>5
  <2>6. Covered'
    BY <1>1, <2>1, <2>5 DEF SyncInv, TypeOK, Covered, Plain, HasTwin
  <2> QED BY <2>3, <2>4, <2>6 DEF SyncInv
<1> QED BY <1>2, <1>3

LEMMA CopyStep ==
  ASSUME SyncInv, NEW j \in Jobs, CopyBatch(j)
  PROVE  SyncInv'
<1>1. PICK batch \in SUBSET todo[j] :
        /\ NextBatch(batch, todo[j]) /\ cloud' = cloud \cup batch
        /\ todo' = [todo EXCEPT ![j] = @ \ batch]
  BY DEF CopyBatch
<1>2. UNCHANGED <<local, late, running, pc, cursor>>
  BY DEF CopyBatch
<1>3. batch \subseteq local /\ local \subseteq Row /\ todo[j] \subseteq local
  BY DEF SyncInv, Sources, TypeOK
<1>4. todo'[j] = todo[j] \ batch /\ \A i \in Jobs : i # j => todo'[i] = todo[i]
  BY <1>1 DEF SyncInv, TypeOK
<1>5. TypeOK' /\ Sources'
  BY <1>1, <1>2, <1>3 DEF SyncInv, TypeOK, Sources
<1>6. CursorReached'
  BY <1>1, <1>2 DEF SyncInv, CursorReached, At
<1>7. ASSUME NEW r \in local, Plain(r), r \notin cloud', NEW x \in batch
      PROVE  x.time < r.time
  <2>1. CASE r \in todo[j]
    <3>1. x.time <= r.time
      BY <1>1, <1>7, <2>1 DEF NextBatch
    <3>2. x.time # r.time
      BY <1>1, <1>3, <1>7 DEF Plain, HasTwin
    <3> QED BY <1>3, <3>1, <3>2, RowTimes
  <2>2. CASE r \notin todo[j]
    BY <1>1, <1>7, <2>2 DEF SyncInv, Covered
  <2> QED BY <2>1, <2>2
<1>8. \A r \in local : Plain(r)' <=> Plain(r)
  BY <1>2 DEF Plain, HasTwin
<1>9. NoHoles'
  BY <1>1, <1>2, <1>7, <1>8 DEF SyncInv, NoHoles
<1>10. Covered'
  <2> SUFFICES ASSUME NEW i \in Jobs, NEW r \in local, Plain(r), r \notin cloud',
                      r \notin todo'[i], NEW x \in todo'[i]
               PROVE  x.time < r.time
    BY <1>2, <1>8 DEF Covered
  <2> QED BY <1>1, <1>4 DEF SyncInv, Covered
<1> QED BY <1>5, <1>6, <1>9, <1>10 DEF SyncInv

LEMMA OtherSteps ==
  ASSUME SyncInv,
         \/ \E j \in Jobs : SeeIdle(j) \/ Start(j) \/ ReadCursor(j) \/ Finish(j) \/ Fail(j)
         \/ Restart \/ UNCHANGED vars
  PROVE  SyncInv'
<1>1. ASSUME NEW j \in Jobs, SeeIdle(j) \/ Start(j) \/ Finish(j)
      PROVE  SyncInv'
  BY <1>1 DEF SeeIdle, Start, Finish, Goto, At, SyncInv, TypeOK, Sources, Covered,
              CursorReached, NoHoles, Plain, HasTwin
<1>2. ASSUME NEW j \in Jobs, ReadCursor(j) PROVE SyncInv'
  <2>1. PICK t \in Times \cup {Never} :
          IsLatest(t, cloud) /\ cursor' = [cursor EXCEPT ![j] = t]
    BY <1>2 DEF ReadCursor, CursorAt
  <2>2. t = Never \/ \E x \in cloud : x.time = t
    BY <2>1 DEF IsLatest
  <2>3. pc' = [pc EXCEPT ![j] = "reading"] /\ UNCHANGED <<local, late, cloud, running, todo>>
    BY <1>2 DEF ReadCursor, Goto
  <2>4. CursorReached'
    BY <2>1, <2>2, <2>3 DEF SyncInv, TypeOK, CursorReached, At
  <2> QED BY <2>1, <2>3, <2>4 DEF SyncInv, TypeOK, Sources, Covered, NoHoles, Plain, HasTwin
<1>3. ASSUME NEW j \in Jobs, Fail(j) PROVE SyncInv'
  BY <1>3 DEF Fail, Goto, At, SyncInv, TypeOK, Sources, Covered, CursorReached, NoHoles,
              Plain, HasTwin
<1>4. CASE Restart
  BY <1>4 DEF Restart, At, SyncInv, TypeOK, Sources, Covered, CursorReached, NoHoles,
              Plain, HasTwin
<1>5. CASE UNCHANGED vars
  BY <1>5 DEF vars, syncVars, At, SyncInv, TypeOK, Sources, Covered, CursorReached, NoHoles,
              Plain, HasTwin
<1> QED BY <1>1, <1>2, <1>3, <1>4, <1>5

LEMMA SyncInductive == Spec => []SyncInv
<1>1. SyncInv /\ [Next]_vars => SyncInv'
  BY RecordStep, OpenStep, CopyStep, OtherSteps DEF Next, Sync
<1> QED BY SyncInit, <1>1, PTL DEF Spec

\* The tables and the positions of the syncs keep their types.
THEOREM TypeCorrect == Spec => []TypeOK
<1>1. SyncInv => TypeOK
  BY DEF SyncInv
<1> QED BY SyncInductive, <1>1, PTL

\* Whatever fails, restarts or runs at once, the cursor MAX(time) leaves no
\* row behind but those that came late or share their time with another.
THEOREM NothingElseSkipped == Spec => []OnlyLateOrTwinSkipped
<1>1. SyncInv => OnlyLateOrTwinSkipped
  <2> SUFFICES ASSUME SyncInv, NEW r \in local \ cloud, NEW x \in cloud,
                      r.time <= x.time, r \notin late, ~HasTwin(r)
               PROVE  FALSE
    BY DEF OnlyLateOrTwinSkipped
  <2>1. x.time < r.time
    BY DEF SyncInv, NoHoles, Plain
  <2>2. r.time \in Nat /\ x.time \in Nat
    BY RowTimes DEF SyncInv, TypeOK
  <2> QED BY <2>1, <2>2
<1> QED BY SyncInductive, <1>1, PTL
=============================================================================
