----------------------- MODULE TimescaleBridgeProofs -----------------------
(***************************************************************************)
(* For any batch size, any rows and any outages of the database: no frame  *)
(* received disappears but where the code gives it up, and none is         *)
(* overwritten by an older one.                                            *)
(***************************************************************************)
EXTENDS TimescaleBridge, SequenceTheorems, WellFoundedInduction, TLAPS

Ordered(s) == \A i, j \in 1 .. Len(s) : i < j => s[i] < s[j]
Pending == ToSet(batch) \cup ToSet(inbox)

\* Only process_message leaves frames of its message for later.
Idle == at # "processing" => inbox = <<>>

\* The batch and the rest of the message are in order of arrival, one after
\* the other.
InOrder ==
  /\ Ordered(batch) /\ Ordered(inbox)
  /\ \A b \in ToSet(batch), q \in ToSet(inbox) : b < q
Received == Pending \subseteq 1 .. Len(sent)

\* A frame that is neither pending nor given up is older than all pending
\* ones, so that writing those cannot undo it, and its row shows it.
Behind ==
  \A n \in 1 .. Len(sent), m \in Pending : n \notin Pending \cup lost => n < m
Shown ==
  \A n \in 1 .. Len(sent) : n \notin Pending \cup lost => db[sent[n]] >= n

BridgeInv == TypeOK /\ Idle /\ InOrder /\ Received /\ Behind /\ Shown

----------------------------------------------------------------------------
(* Sequences of frames *)

\* A set of naturals below a bound has a greatest member.
LEMMA GreatestNumber ==
  ASSUME NEW N \in Nat, NEW S \in SUBSET (1 .. N), S # {}
  PROVE  \E m \in S : \A t \in S : t <= m
<1> DEFINE Under == {N - t : t \in S}
<1>1. Under \subseteq Nat /\ Under # {}
  <2>1. \A t \in S : N - t \in Nat
    OBVIOUS
  <2>2. PICK t \in S : TRUE
    OBVIOUS
  <2>3. N - t \in Under
    OBVIOUS
  <2> QED BY <2>1, <2>3
<1>2. PICK x \in Under : \A y \in Under : ~(<<y, x>> \in OpToRel(<, Nat))
  BY <1>1, NatLessThanWellFounded, WFMin
<1>3. PICK m \in S : x = N - m
  BY <1>2
<1>4. ASSUME NEW t \in S PROVE t <= m
  <2>1. N - t \in Under /\ N - t \in Nat /\ x \in Nat
    BY <1>1, <1>2
  <2>2. ~(N - t < x)
    BY <1>2, <2>1 DEF OpToRel
  <2> QED BY <1>3, <2>2
<1> QED BY <1>4

LEMMA FramesNat == Frames \subseteq Nat /\ Frames \subseteq Int
BY BridgeAssumption DEF BridgeAssumption, Frames

LEMMA ElementsIn ==
  ASSUME NEW s \in Seq(Frames)
  PROVE  ToSet(s) \subseteq Frames /\ \A i \in 1 .. Len(s) : s[i] \in ToSet(s)
BY DEF ToSet

LEMMA NoElements == ToSet(<<>>) = {} /\ Ordered(<<>>) /\ <<>> \in Seq(Frames)
BY DEF ToSet, Ordered

\* A frame moves from the message to the end of the batch.
LEMMA TakeFirst ==
  ASSUME NEW b \in Seq(Frames), NEW q \in Seq(Frames), q # <<>>,
         Ordered(b), Ordered(q), \A x \in ToSet(b), y \in ToSet(q) : x < y
  PROVE  /\ Append(b, Head(q)) \in Seq(Frames) /\ Tail(q) \in Seq(Frames)
         /\ ToSet(Append(b, Head(q))) = ToSet(b) \cup {Head(q)}
         /\ ToSet(q) = {Head(q)} \cup ToSet(Tail(q))
         /\ Ordered(Append(b, Head(q))) /\ Ordered(Tail(q))
         /\ \A x \in ToSet(Append(b, Head(q))), y \in ToSet(Tail(q)) : x < y
<1> DEFINE a == Append(b, Head(q))
           r == Tail(q)
<1>1. a \in Seq(Frames) /\ Len(a) = Len(b) + 1 /\ a[Len(b) + 1] = Head(q)
      /\ \A i \in 1 .. Len(b) : a[i] = b[i]
  BY HeadTailProperties, AppendProperties
<1>2. r \in Seq(Frames) /\ Len(r) = Len(q) - 1 /\ Head(q) = q[1] /\ Len(q) >= 1
      /\ \A i \in 1 .. Len(r) : r[i] = q[i + 1]
  BY HeadTailProperties
<1> HIDE DEF a, r
<1>3. Head(q) \in ToSet(q) /\ ToSet(r) \subseteq ToSet(q) /\ ToSet(b) \subseteq ToSet(a)
      /\ Head(q) \in ToSet(a)
  <2>1. ASSUME NEW i \in 1 .. Len(b) PROVE b[i] \in ToSet(a)
    <3>1. i \in 1 .. Len(a) /\ a[i] = b[i]
      BY <1>1
    <3> QED BY <1>1, <3>1, ElementsIn
  <2>2. ASSUME NEW i \in 1 .. Len(r) PROVE r[i] \in ToSet(q)
    <3>1. i + 1 \in 1 .. Len(q) /\ r[i] = q[i + 1]
      BY <1>2
    <3> QED BY <3>1, ElementsIn
  <2>3. 1 \in 1 .. Len(q) /\ Len(b) + 1 \in 1 .. Len(a)
    BY <1>1, <1>2
  <2>4. Head(q) \in ToSet(q) /\ Head(q) \in ToSet(a)
    BY <1>1, <1>2, <2>3, ElementsIn
  <2>5. ToSet(b) = {b[i] : i \in 1 .. Len(b)} /\ ToSet(r) = {r[i] : i \in 1 .. Len(r)}
    BY <1>2 DEF ToSet
  <2> QED BY <2>1, <2>2, <2>4, <2>5
<1>4. ASSUME NEW x \in ToSet(a) PROVE x \in ToSet(b) \cup {Head(q)}
  <2>1. PICK i \in 1 .. Len(a) : x = a[i]
    BY <1>1 DEF ToSet
  <2> QED BY <1>1, <2>1 DEF ToSet
<1>5. ASSUME NEW y \in ToSet(q) PROVE y \in {Head(q)} \cup ToSet(r)
  <2>1. PICK j \in 1 .. Len(q) : y = q[j]
    BY DEF ToSet
  <2>2. CASE j = 1
    BY <1>2, <2>1, <2>2
  <2>3. CASE j # 1
    <3>1. j - 1 \in 1 .. Len(r) /\ r[j - 1] = q[j]
      BY <1>2, <2>3
    <3> QED BY <1>2, <2>1, <3>1 DEF ToSet
  <2> QED BY <2>2, <2>3
<1>6. ASSUME NEW y \in ToSet(r) PROVE Head(q) < y
  <2>1. PICK j \in 1 .. Len(r) : y = r[j]
    BY <1>2 DEF ToSet
  <2> QED BY <1>2, <2>1 DEF Ordered
<1>7. Ordered(r)
  BY <1>2 DEF Ordered
<1>8. Ordered(a)
  <2> SUFFICES ASSUME NEW i \in 1 .. Len(a), NEW j \in 1 .. Len(a), i < j
               PROVE  a[i] < a[j]
    BY DEF Ordered
  <2>1. i \in 1 .. Len(b) /\ a[i] = b[i] /\ b[i] \in ToSet(b)
    BY <1>1 DEF ToSet
  <2>2. CASE j <= Len(b)
    BY <1>1, <2>1, <2>2 DEF Ordered
  <2>3. CASE j = Len(b) + 1
    BY <1>1, <1>3, <2>1, <2>3
  <2> QED BY <1>1, <2>2, <2>3
<1>9. \A x \in ToSet(a), y \in ToSet(r) : x < y
  BY <1>3, <1>4, <1>6
<1>10. ToSet(a) = ToSet(b) \cup {Head(q)} /\ ToSet(q) = {Head(q)} \cup ToSet(r)
  BY <1>3, <1>4, <1>5
<1> QED BY <1>1, <1>2, <1>7, <1>8, <1>9, <1>10 DEF a, r

\* A message's frames are numbered in the order they came.
LEMMA Arrivals ==
  ASSUME NEW m \in Nat, NEW n \in Nat, m + n <= MaxFrames
  PROVE  LET q == [i \in 1 .. n |-> m + i]
         IN  q \in Seq(Frames) /\ ToSet(q) = m + 1 .. m + n /\ Ordered(q)
<1> DEFINE q == [i \in 1 .. n |-> m + i]
<1>1. q \in [1 .. n -> Frames]
  BY BridgeAssumption DEF BridgeAssumption, Frames
<1>2. q \in Seq(Frames) /\ Len(q) = n /\ DOMAIN q = 1 .. n
  BY <1>1
<1>3. Ordered(q)
  BY <1>2 DEF Ordered
<1>4. ASSUME NEW x \in m + 1 .. m + n PROVE x \in ToSet(q)
  <2>1. x - m \in 1 .. n /\ q[x - m] = x
    OBVIOUS
  <2> QED BY <1>2, <2>1 DEF ToSet
<1>5. ToSet(q) \subseteq m + 1 .. m + n
  BY <1>2 DEF ToSet
<1> QED BY <1>2, <1>3, <1>4, <1>5

----------------------------------------------------------------------------
(* What a flush writes *)

\* Under each key of the batch the newest of its frames.
LEMMA WrittenRows ==
  ASSUME TypeOK, NEW rows \in Seq(Frames), ToSet(rows) \subseteq 1 .. Len(sent)
  PROVE  /\ Written(rows) \in [Key -> {Nothing} \cup 1 .. Len(sent)]
         /\ \A k \in Key :
              /\ Of(rows, k) = {} => Written(rows)[k] = db[k]
              /\ Of(rows, k) # {} => Written(rows)[k] \in Of(rows, k)
              /\ \A n \in Of(rows, k) : n <= Written(rows)[k]
<1>1. ASSUME NEW k \in Key, Of(rows, k) # {}
      PROVE  /\ LastOf(Of(rows, k)) \in Of(rows, k)
             /\ \A n \in Of(rows, k) : n <= LastOf(Of(rows, k))
  <2>1. Len(sent) \in Nat /\ Of(rows, k) \in SUBSET (1 .. Len(sent))
    BY DEF TypeOK, Of
  <2>2. \E m \in Of(rows, k) : \A t \in Of(rows, k) : t <= m
    BY <1>1, <2>1, GreatestNumber
  <2> QED BY <2>2 DEF LastOf
<1>2. \A k \in Key : Of(rows, k) \subseteq 1 .. Len(sent)
  BY DEF Of
<1>3. \A k \in Key : db[k] \in {Nothing} \cup 1 .. Len(sent)
  BY DEF TypeOK
<1> QED BY <1>1, <1>2, <1>3 DEF Written

\* What becomes of the frames in any step that receives none: each that is
\* pending stays so, is given up, or is written before any that stays.
LEMMA FramesKept ==
  ASSUME BridgeInv, NEW rows \in Seq(Frames), ToSet(rows) \subseteq Pending,
         db' \in {db, Written(rows)}, sent' = sent, lost \subseteq lost',
         Pending' \subseteq Pending,
         \A n \in Pending :
           \/ n \in Pending' \/ n \in lost'
           \/ n \in ToSet(rows) /\ db' = Written(rows) /\ \A m \in Pending' : n < m
  PROVE  /\ Received' /\ Behind' /\ Shown'
         /\ db' \in [Key -> {Nothing} \cup 1 .. Len(sent')]
<1>1. TypeOK /\ ToSet(rows) \subseteq 1 .. Len(sent) /\ Received /\ Behind /\ Shown
  BY DEF BridgeInv, Received
<1>2. db' \in [Key -> {Nothing} \cup 1 .. Len(sent')]
  BY <1>1, WrittenRows DEF TypeOK
<1>3. Received'
  BY <1>1 DEF Received
<1>4. Behind'
  BY <1>1 DEF Behind
<1>5. Shown'
  <2> SUFFICES ASSUME NEW n \in 1 .. Len(sent), n \notin Pending' \cup lost'
               PROVE  db'[sent[n]] >= n
    BY DEF Shown
  <2>1. sent[n] \in Key /\ n \in Nat
    BY <1>1 DEF TypeOK
  <2>2. CASE n \in Pending
    <3>1. n \in Of(rows, sent[n]) /\ db' = Written(rows)
      BY <2>2 DEF Of
    <3>2. n <= Written(rows)[sent[n]]
      BY <1>1, <2>1, <3>1, WrittenRows
    <3>3. Written(rows)[sent[n]] \in {Nothing} \cup 1 .. Len(sent)
      BY <1>1, <2>1, WrittenRows
    <3> QED BY <2>1, <3>1, <3>2, <3>3 DEF Nothing
  <2>3. CASE n \notin Pending
    <3>1. db[sent[n]] >= n
      BY <1>1, <2>3 DEF Shown
    <3>2. CASE db' = db \/ Of(rows, sent[n]) = {}
      BY <1>1, <2>1, <3>1, <3>2, WrittenRows
    <3>3. CASE db' = Written(rows) /\ Of(rows, sent[n]) # {}
      <4>1. Written(rows)[sent[n]] \in ToSet(rows)
        BY <1>1, <2>1, <3>3, WrittenRows DEF Of
      <4>2. n < Written(rows)[sent[n]]
        BY <1>1, <2>3, <4>1 DEF Behind
      <4>3. Written(rows)[sent[n]] \in Nat
        BY <1>1, <4>1
      <4> QED BY <2>1, <3>3, <4>2, <4>3
    <3> QED BY <3>2, <3>3
  <2> QED BY <2>2, <2>3
<1> QED BY <1>2, <1>3, <1>4, <1>5

\* A flush of all that is batched, and what it leaves in the batch.
LEMMA FlushTypes ==
  ASSUME TypeOK, NEW rows \in Seq(Frames), ToSet(rows) \subseteq 1 .. Len(sent),
         FlushSucceeds(rows) \/ ColumnsFail(rows) \/ InsertFails(rows)
  PROVE  /\ known' \in SUBSET Names /\ due' \in BOOLEAN
         /\ batch' \in {<<>>, rows} /\ db' \in {db, Written(rows)}
<1>1. NamesOf(rows) \subseteq Names
  <2>1. ASSUME NEW n \in ToSet(rows) PROVE sent[n].name \in Names
    <3>1. sent \in Seq(Key) /\ n \in 1 .. Len(sent)
      BY DEF TypeOK
    <3>2. sent[n] \in Key
      BY <3>1, ElementOfSeq
    <3> QED BY <3>2 DEF Key
  <2> QED BY <2>1 DEF NamesOf
<1>2. known \in SUBSET Names
  BY DEF TypeOK
<1>3. CASE FlushSucceeds(rows)
  BY <1>1, <1>2, <1>3 DEF FlushSucceeds
<1>4. CASE ColumnsFail(rows)
  BY <1>2, <1>4 DEF ColumnsFail
<1>5. CASE InsertFails(rows)
  BY <1>1, <1>2, <1>5 DEF InsertFails, PutBack
<1> QED BY <1>3, <1>4, <1>5

----------------------------------------------------------------------------
(* The steps *)

LEMMA BridgeInit == Init => BridgeInv
<1> SUFFICES ASSUME Init PROVE BridgeInv
  OBVIOUS
<1>1. Len(sent) = 0 /\ 1 .. Len(sent) = {} /\ Pending = {}
  BY NoElements DEF Init, Pending
<1>2. TypeOK
  <2>1. sent \in Seq(Key) /\ batch \in Seq(Frames) /\ inbox \in Seq(Frames)
    BY DEF Init
  <2>2. Len(sent) <= MaxFrames /\ starts \in 1 .. MaxStarts /\ outages \in 0 .. MaxOutages
    BY <1>1, BridgeAssumption DEF Init, BridgeAssumption
  <2>3. db \in [Key -> {Nothing} \cup 1 .. Len(sent)] /\ lost \in SUBSET Frames
    BY DEF Init
  <2> QED BY <2>1, <2>2, <2>3 DEF Init, TypeOK
<1>3. Idle /\ InOrder /\ Received /\ Behind /\ Shown
  BY <1>1, NoElements DEF Init, Idle, InOrder, Received, Behind, Shown
<1> QED BY <1>2, <1>3 DEF BridgeInv

\* The frames of a message are newer than all received before.
LEMMA ReceiveStep == ASSUME BridgeInv, Receive PROVE BridgeInv'
<1>0. PICK n \in 1 .. MaxFrames - Len(sent) : \E keys \in [1 .. n -> Key] :
        /\ sent' = sent \o keys
        /\ inbox' = [i \in 1 .. n |-> Len(sent) + i]
  BY DEF Receive
<1>1. PICK keys \in [1 .. n -> Key] :
        /\ sent' = sent \o keys
        /\ inbox' = [i \in 1 .. n |-> Len(sent) + i]
  BY <1>0
<1>2. at = "waiting" /\ at' = "processing"
      /\ UNCHANGED <<batch, known, due, starts, dbUp, outages, db, lost>>
  BY DEF Receive, envVars
<1>3. TypeOK /\ inbox = <<>> /\ InOrder /\ Received /\ Behind /\ Shown
  BY <1>2 DEF BridgeInv, Idle
<1>4. Len(sent) \in Nat /\ n \in Nat /\ Len(sent) + n <= MaxFrames /\ MaxFrames \in Nat
  BY <1>1, <1>3, BridgeAssumption DEF TypeOK, BridgeAssumption
<1>5. /\ sent' \in Seq(Key) /\ Len(sent') = Len(sent) + n
      /\ \A i \in 1 .. Len(sent) : sent'[i] = sent[i]
  <2>1. keys \in Seq(Key) /\ Len(keys) = n
    BY <1>1, <1>4
  <2>2. sent \in Seq(Key)
    BY <1>3 DEF TypeOK
  <2>3. /\ sent \o keys \in Seq(Key) /\ Len(sent \o keys) = Len(sent) + n
        /\ \A i \in 1 .. Len(sent) + n :
             (sent \o keys)[i] = IF i <= Len(sent) THEN sent[i] ELSE keys[i - Len(sent)]
    BY <2>1, <2>2, ConcatProperties
  <2> QED BY <1>1, <1>4, <2>3
<1>6. /\ inbox' \in Seq(Frames) /\ ToSet(inbox') = Len(sent) + 1 .. Len(sent) + n
      /\ Ordered(inbox')
  BY <1>1, <1>4, Arrivals
<1>7. Pending = ToSet(batch) /\ Pending' = ToSet(batch) \cup ToSet(inbox')
  BY <1>2, <1>3, NoElements DEF Pending
<1>8. TypeOK'
  BY <1>2, <1>3, <1>4, <1>5, <1>6 DEF TypeOK
<1>9. Idle'
  BY <1>2 DEF Idle
<1>10. InOrder'
  BY <1>2, <1>3, <1>4, <1>6, <1>7 DEF InOrder, Received
<1>11. Received'
  BY <1>3, <1>4, <1>5, <1>6, <1>7 DEF Received
<1>12. Behind' /\ Shown'
  <2> SUFFICES ASSUME NEW f \in 1 .. Len(sent'), f \notin Pending' \cup lost
               PROVE  db[sent'[f]] >= f /\ \A m \in Pending' : f < m
    BY <1>2 DEF Behind, Shown
  <2>1. f \in 1 .. Len(sent) /\ f \notin Pending \cup lost /\ sent'[f] = sent[f]
    BY <1>4, <1>5, <1>6, <1>7
  <2>2. db[sent'[f]] >= f
    BY <1>3, <2>1 DEF Shown
  <2>3. \A m \in Pending' : f < m
    BY <1>3, <1>4, <1>6, <1>7, <2>1 DEF Behind
  <2> QED BY <2>2, <2>3
<1> QED BY <1>8, <1>9, <1>10, <1>11, <1>12 DEF BridgeInv

\* process_message: added to the batch, or with it flushed, or given up.
LEMMA TakeStep == ASSUME BridgeInv, TakeFrame PROVE BridgeInv'
<1> DEFINE rows == Append(batch, Head(inbox))
           rest == Tail(inbox)
<1>1. /\ at = "processing" /\ inbox # <<>>
      /\ UNCHANGED <<sent, at, starts, dbUp, outages>>
  BY DEF TakeFrame, envVars
<1>2. TypeOK /\ InOrder /\ Received
  BY DEF BridgeInv
<1>3. /\ rows \in Seq(Frames) /\ rest \in Seq(Frames)
      /\ ToSet(rows) = ToSet(batch) \cup {Head(inbox)}
      /\ ToSet(inbox) = {Head(inbox)} \cup ToSet(rest)
      /\ Ordered(rows) /\ Ordered(rest)
      /\ \A x \in ToSet(rows), y \in ToSet(rest) : x < y
  BY <1>1, <1>2, TakeFirst DEF TypeOK, InOrder
<1>4. Pending = ToSet(rows) \cup ToSet(rest) /\ ToSet(rows) \subseteq 1 .. Len(sent)
  BY <1>2, <1>3 DEF Pending, Received
<1>5. \/ batch' = rows /\ inbox' = rest /\ UNCHANGED <<known, due, db, lost>>
      \/ FlushSucceeds(rows) /\ inbox' = rest /\ lost' = lost
      \/ ColumnsFail(rows) /\ inbox' = <<>> /\ lost' = lost \cup ToSet(rows) \cup ToSet(rest)
      \/ InsertFails(rows) /\ inbox' = <<>> /\ lost' = lost \cup ToSet(rest)
  BY DEF TakeFrame
<1>6. /\ batch' \in {<<>>, rows} /\ inbox' \in {<<>>, rest}
      /\ known' \in SUBSET Names /\ due' \in BOOLEAN /\ db' \in {db, Written(rows)}
  BY <1>2, <1>3, <1>4, <1>5, FlushTypes DEF TypeOK
<1> HIDE DEF rows, rest
<1>7. Pending' = ToSet(batch') \cup ToSet(inbox')
  BY DEF Pending
<1>8. /\ Pending' \subseteq Pending /\ lost \subseteq lost'
      /\ \A n \in Pending :
           \/ n \in Pending' \/ n \in lost'
           \/ n \in ToSet(rows) /\ db' = Written(rows) /\ \A m \in Pending' : n < m
  BY <1>3, <1>4, <1>5, <1>7, NoElements DEF FlushSucceeds, ColumnsFail, InsertFails, PutBack
<1>9. Received' /\ Behind' /\ Shown' /\ db' \in [Key -> {Nothing} \cup 1 .. Len(sent')]
  BY <1>1, <1>3, <1>4, <1>6, <1>8, FramesKept
<1>10. InOrder'
  BY <1>3, <1>6, NoElements DEF InOrder
<1>11. lost' \in SUBSET Frames
  BY <1>2, <1>3, <1>5, ElementsIn DEF TypeOK
<1>12. TypeOK'
  BY <1>1, <1>2, <1>3, <1>6, <1>9, <1>11, NoElements DEF TypeOK
<1>13. Idle'
  BY <1>1 DEF Idle
<1> QED BY <1>9, <1>10, <1>12, <1>13 DEF BridgeInv

\* A step that flushes the batch, gives it up or leaves it, with no message
\* under way when it is done.
LEMMA BatchStep ==
  ASSUME BridgeInv, inbox = <<>>, inbox' = <<>>, sent' = sent,
         at' \in {"waiting", "checking", "down"},
         starts' \in 1 .. MaxStarts, dbUp' \in BOOLEAN, outages' \in 0 .. MaxOutages,
         known' \in SUBSET Names, due' \in BOOLEAN,
         batch' \in {<<>>, batch}, db' \in {db, Written(batch)},
         lost' \in {lost, lost \cup ToSet(batch)},
         batch' = batch \/ db' = Written(batch) \/ lost' = lost \cup ToSet(batch)
  PROVE  BridgeInv'
<1>1. TypeOK /\ InOrder /\ Received
  BY DEF BridgeInv
<1>2. batch \in Seq(Frames) /\ ToSet(batch) \subseteq Frames
  BY <1>1, ElementsIn DEF TypeOK
<1>3. Pending = ToSet(batch) /\ Pending' = ToSet(batch')
  BY NoElements DEF Pending
<1>4. /\ Pending' \subseteq Pending /\ lost \subseteq lost'
      /\ \A n \in Pending :
           \/ n \in Pending' \/ n \in lost'
           \/ n \in ToSet(batch) /\ db' = Written(batch) /\ \A m \in Pending' : n < m
  BY <1>3, NoElements
<1>5. Received' /\ Behind' /\ Shown' /\ db' \in [Key -> {Nothing} \cup 1 .. Len(sent')]
  BY <1>2, <1>3, <1>4, FramesKept
<1>6. InOrder'
  BY <1>1, NoElements DEF InOrder
<1>7. TypeOK'
  BY <1>1, <1>2, <1>5, NoElements DEF TypeOK
<1> QED BY <1>5, <1>6, <1>7 DEF BridgeInv, Idle

LEMMA LoopStep ==
  ASSUME BridgeInv, MessageDone \/ CheckInterval \/ Stop \/ Start
  PROVE  BridgeInv'
<1>1. inbox = <<>> /\ inbox' = <<>> /\ sent' = sent /\ UNCHANGED <<dbUp, outages>>
  BY DEF BridgeInv, Idle, MessageDone, CheckInterval, Stop, Start, envVars
<1>2. TypeOK /\ batch \in Seq(Frames) /\ ToSet(batch) \subseteq 1 .. Len(sent)
  BY DEF BridgeInv, TypeOK, Received, Pending
<1>3. starts' \in 1 .. MaxStarts /\ at' \in {"waiting", "checking", "down"}
  <2>1. starts \in 1 .. MaxStarts /\ MaxStarts \in Nat
    BY <1>2, BridgeAssumption DEF TypeOK, BridgeAssumption
  <2>2. starts' = starts \/ (starts < MaxStarts /\ starts' = starts + 1)
    BY DEF MessageDone, CheckInterval, Stop, Start
  <2>3. at' \in {"waiting", "checking", "down"}
    BY DEF MessageDone, CheckInterval, Stop, Start
  <2> QED BY <2>1, <2>2, <2>3
<1>4. CASE MessageDone \/ Start
  BY <1>1, <1>2, <1>3, <1>4, BatchStep DEF MessageDone, Start, TypeOK
<1>5. CASE CheckInterval
  <2>1. CASE UNCHANGED <<batch, known, due, db, lost>>
    BY <1>1, <1>2, <1>3, <2>1, BatchStep DEF TypeOK
  <2>2. CASE \/ FlushSucceeds(batch) /\ lost' = lost
             \/ ColumnsFail(batch) /\ lost' = lost \cup ToSet(batch)
             \/ InsertFails(batch) /\ lost' = lost
    <3>1. /\ known' \in SUBSET Names /\ due' \in BOOLEAN
          /\ batch' \in {<<>>, batch} /\ db' \in {db, Written(batch)}
      BY <1>2, <2>2, FlushTypes
    <3>2. batch' = batch \/ db' = Written(batch) \/ lost' = lost \cup ToSet(batch)
      BY <2>2 DEF FlushSucceeds, InsertFails, PutBack
    <3> QED BY <1>1, <1>2, <1>3, <2>2, <3>1, <3>2, BatchStep DEF TypeOK
  <2> QED BY <1>5, <2>1, <2>2 DEF CheckInterval
<1>6. CASE Stop
  <2>1. /\ known' = {} /\ batch' = <<>> /\ due' = FALSE
        /\ \/ db' = Written(batch) /\ lost' = lost
           \/ db' \in {db, Written(batch)} /\ lost' = lost \cup ToSet(batch)
    BY <1>6 DEF Stop
  <2> QED BY <1>1, <1>2, <1>3, <2>1, BatchStep DEF TypeOK
<1> QED BY <1>4, <1>5, <1>6

\* A killed process takes all that is pending with it.
LEMMA KillStep == ASSUME BridgeInv, Kill PROVE BridgeInv'
<1>1. /\ at' = "down" /\ known' = {} /\ batch' = <<>> /\ inbox' = <<>> /\ due' = FALSE
      /\ lost' = lost \cup Pending /\ UNCHANGED <<sent, starts, dbUp, outages, db>>
  BY DEF Kill, Pending, envVars
<1>2. TypeOK /\ Pending' = {}
  BY <1>1, NoElements DEF BridgeInv, Pending
<1>3. Pending \subseteq Frames
  BY <1>2, ElementsIn DEF TypeOK, Pending
<1>4. TypeOK'
  BY <1>1, <1>2, <1>3, NoElements DEF TypeOK
<1>5. Idle' /\ InOrder' /\ Received'
  BY <1>1, <1>2, NoElements DEF Idle, InOrder, Received
<1>6. Behind' /\ Shown'
  BY <1>1, <1>2 DEF BridgeInv, Behind, Shown
<1> QED BY <1>4, <1>5, <1>6 DEF BridgeInv

LEMMA OutsideStep ==
  ASSUME BridgeInv, IntervalPasses \/ DbDown \/ DbBack \/ UNCHANGED vars
  PROVE  BridgeInv'
<1>1. UNCHANGED <<sent, at, inbox, batch, known, starts, db, lost>>
  BY DEF IntervalPasses, DbDown, DbBack, vars, procVars, envVars
<1>2. due' \in BOOLEAN /\ dbUp' \in BOOLEAN /\ outages' \in 0 .. MaxOutages
  <2>1. due \in BOOLEAN /\ dbUp \in BOOLEAN /\ outages \in 0 .. MaxOutages /\ MaxOutages \in Nat
    BY BridgeAssumption DEF BridgeInv, TypeOK, BridgeAssumption
  <2>2. due' = due \/ due' = TRUE
    BY DEF IntervalPasses, DbDown, DbBack, vars, procVars
  <2>3. dbUp' = dbUp \/ dbUp' \in BOOLEAN
    BY DEF IntervalPasses, DbDown, DbBack, vars, envVars
  <2>4. outages' = outages \/ (outages < MaxOutages /\ outages' = outages + 1)
    BY DEF IntervalPasses, DbDown, DbBack, vars, envVars
  <2>5. outages' \in 0 .. MaxOutages
    BY <2>1, <2>4
  <2>6. due' \in BOOLEAN /\ dbUp' \in BOOLEAN
    BY <2>1, <2>2, <2>3
  <2> QED BY <2>5, <2>6
<1>3. TypeOK'
  BY <1>1, <1>2 DEF BridgeInv, TypeOK
<1>4. Idle' /\ InOrder' /\ Received' /\ Behind' /\ Shown'
  BY <1>1 DEF BridgeInv, Idle, InOrder, Received, Behind, Shown, Pending
<1> QED BY <1>3, <1>4 DEF BridgeInv

LEMMA BridgeInductive == Spec => []BridgeInv
<1>1. BridgeInv /\ [Next]_vars => BridgeInv'
  BY ReceiveStep, TakeStep, LoopStep, KillStep, OutsideStep DEF Next, Loop
<1> QED BY BridgeInit, <1>1, PTL DEF Spec

----------------------------------------------------------------------------
\* The batch, the message under way, the column cache and the table keep their
\* types.
THEOREM TypeCorrect == Spec => []TypeOK
<1>1. BridgeInv => TypeOK
  BY DEF BridgeInv
<1> QED BY BridgeInductive, <1>1, PTL

\* Flushes that fail and put their rows back, kills and restarts leave the
\* frames in order of arrival and none twice.
THEOREM KeptInOrder == Spec => []ArrivalOrder
<1>1. BridgeInv => ArrivalOrder
  <2> SUFFICES ASSUME BridgeInv PROVE ArrivalOrder
    OBVIOUS
  <2>1. batch \in Seq(Frames) /\ inbox \in Seq(Frames) /\ InOrder
    BY DEF BridgeInv, TypeOK
  <2>2. /\ Len(Waiting) = Len(batch) + Len(inbox)
        /\ \A i \in 1 .. Len(Waiting) :
             Waiting[i] = IF i <= Len(batch) THEN batch[i] ELSE inbox[i - Len(batch)]
    BY <2>1, ConcatProperties DEF Waiting
  <2> SUFFICES ASSUME NEW i \in 1 .. Len(Waiting), NEW j \in 1 .. Len(Waiting), i < j
               PROVE  Waiting[i] < Waiting[j]
    BY DEF ArrivalOrder
  <2>3. CASE j <= Len(batch)
    BY <2>1, <2>2, <2>3 DEF InOrder, Ordered
  <2>4. CASE i > Len(batch)
    <3>1. i - Len(batch) \in 1 .. Len(inbox) /\ j - Len(batch) \in 1 .. Len(inbox)
      BY <2>1, <2>2, <2>4
    <3> QED BY <2>1, <2>2, <2>4, <3>1 DEF InOrder, Ordered
  <2>5. CASE i <= Len(batch) /\ j > Len(batch)
    <3>1. i \in 1 .. Len(batch) /\ j - Len(batch) \in 1 .. Len(inbox)
      BY <2>1, <2>2, <2>5
    <3>2. batch[i] \in ToSet(batch) /\ inbox[j - Len(batch)] \in ToSet(inbox)
      BY <2>1, <3>1, ElementsIn
    <3> QED BY <2>1, <2>2, <2>5, <3>2 DEF InOrder
  <2> QED BY <2>1, <2>2, <2>3, <2>4, <2>5
<1> QED BY BridgeInductive, <1>1, PTL

\* Whatever the database and the process do, a frame received is pending, was
\* given up where the code gives it up, or is what its row holds unless a
\* newer one is.
THEOREM NothingDisappears == Spec => []Accounted
<1>1. BridgeInv => Accounted
  <2> SUFFICES ASSUME BridgeInv, NEW n \in 1 .. Len(sent), n \notin ToSet(Waiting) \cup lost
               PROVE  db[sent[n]] >= n
    BY DEF Accounted
  <2>1. batch \in Seq(Frames) /\ inbox \in Seq(Frames) /\ Shown
    BY DEF BridgeInv, TypeOK
  <2>2. /\ Waiting \in Seq(Frames) /\ Len(Waiting) = Len(batch) + Len(inbox)
        /\ \A i \in 1 .. Len(Waiting) :
             Waiting[i] = IF i <= Len(batch) THEN batch[i] ELSE inbox[i - Len(batch)]
    BY <2>1, ConcatProperties DEF Waiting
  <2>3. ASSUME NEW i \in 1 .. Len(batch) PROVE batch[i] \in ToSet(Waiting)
    <3>1. i \in 1 .. Len(Waiting) /\ Waiting[i] = batch[i]
      BY <2>1, <2>2
    <3> QED BY <2>2, <3>1, ElementsIn
  <2>4. ASSUME NEW i \in 1 .. Len(inbox) PROVE inbox[i] \in ToSet(Waiting)
    <3>1. i + Len(batch) \in 1 .. Len(Waiting) /\ Waiting[i + Len(batch)] = inbox[i]
      BY <2>1, <2>2
    <3> QED BY <2>2, <3>1, ElementsIn
  <2>5. n \notin Pending
    BY <2>1, <2>3, <2>4 DEF Pending, ToSet
  <2> QED BY <2>1, <2>5 DEF Shown
<1> QED BY BridgeInductive, <1>1, PTL
=============================================================================
