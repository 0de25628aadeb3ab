------------------------ MODULE TelemetryLinkProofs ------------------------
(***************************************************************************)
(* Proofs about TelemetryLink for every value of its constants.            *)
(***************************************************************************)
EXTENDS TelemetryLink, FiniteSetTheorems, NaturalsInduction, TLAPS

USE DEF None, Absent, Missed, ByUdp, ByTcp

----------------------------------------------------------------------------
(* The sets the model counts *)

\* Batches are the pairs of a session and a number: there are finitely many,
\* so an answer can be counted.
LEMMA BatchFinite == IsFiniteSet(Batch)
<1> DEFINE Pairs == (1 .. MaxSessions) \X Seqs
           batch == [p \in Pairs |-> [sess |-> p[1], seq |-> p[2]]]
<1>1. IsFiniteSet(1 .. MaxSessions) /\ IsFiniteSet(Seqs)
  BY FS_Interval, LinkAssumption DEF LinkAssumption, Seqs
<1>2. IsFiniteSet(Pairs)
  BY <1>1, FS_Product
<1>3. batch \in [Pairs -> Batch]
  BY DEF Batch
<1>4. ASSUME NEW b \in Batch PROVE \E p \in Pairs : batch[p] = b
  <2>1. <<b.sess, b.seq>> \in Pairs BY DEF Batch
  <2>2. batch[<<b.sess, b.seq>>] = b BY <2>1 DEF Batch
  <2> QED BY <2>1, <2>2
<1>5. batch \in Surjection(Pairs, Batch)
  BY <1>3, <1>4 DEF Surjection
<1> QED BY <1>2, <1>5, FS_Surjection

LEMMA AnswerCount ==
  ASSUME NEW R \in SUBSET Batch
  PROVE  Cardinality(R) \in Nat
BY BatchFinite, FS_Subset, FS_CardinalityType

----------------------------------------------------------------------------
(* Types *)

\* A car process that is down has a successor within the bound: without this
\* CarRestart would leave the type.
TypeInv == TypeOK /\ (~carUp => session < MaxSessions)

LEMMA TypeInit == Init => TypeInv
<1> SUFFICES ASSUME Init PROVE TypeInv
  OBVIOUS
<1>1. session < MaxSessions \/ carUp
  BY DEF Init
<1>2. status \in [Seqs -> -1 .. 2] /\ pub \in [Seqs -> Nat]
  BY DEF Init
<1>3. stats \in [received : Nat, missing : Nat, recovered : Nat] /\ shown = stats
  BY DEF Init, NoStats
<1>4. session \in 1 .. MaxSessions /\ starts \in 1 .. MaxBaseStarts /\ seqNum \in 0 .. MaxSeq
      /\ dups \in 0 .. MaxDups /\ reports \in 0 .. MaxReports
  BY LinkAssumption DEF Init, LinkAssumption
<1> QED BY <1>1, <1>2, <1>3, <1>4 DEF Init, TypeInv, TypeOK

\* A datagram that is not ignored has a number from which the new expected
\* number, gap and counts are of the right type.
LEMMA AcceptedNumbers ==
  ASSUME TypeOK, NEW seq \in Seqs, ~IsDuplicate(seq)
  PROVE  /\ ExpectedFor(seq) \in 1 .. MaxSeq + 1
         /\ MissingFor(seq) \in SUBSET Seqs
         /\ ~IsLate(seq) => seq - ExpectedFor(seq) \in Nat
         /\ IsLate(seq) => Gap(seq) = {}
         /\ NextExpected(seq) \in 1 .. MaxSeq + 1
         /\ MissingAfter(seq) \in SUBSET Seqs
         /\ Gap(seq) \in SUBSET Seqs
<1>1. ExpectedFor(seq) \in 1 .. MaxSeq + 1
  BY LinkAssumption DEF LinkAssumption, TypeOK, Seqs, ExpectedFor, Adopted
<1>2. MissingFor(seq) \in SUBSET Seqs
  BY DEF TypeOK, MissingFor
<1>3. seq < ExpectedFor(seq) <=> IsLate(seq)
  BY DEF IsDuplicate, IsLate
<1>4. seq \in 1 .. MaxSeq /\ MaxSeq \in Nat
  BY LinkAssumption DEF LinkAssumption, Seqs
<1>5. ~IsLate(seq) => seq - ExpectedFor(seq) \in Nat
  BY <1>1, <1>3, <1>4
<1>6. IsLate(seq) => Gap(seq) = {}
  BY <1>1, <1>3, <1>4 DEF Gap
<1>7. NextExpected(seq) \in 1 .. MaxSeq + 1
  BY <1>1, <1>4 DEF NextExpected
<1>8. Gap(seq) \in SUBSET Seqs
  BY <1>1, <1>4 DEF Gap, Seqs
<1>9. MissingAfter(seq) \in SUBSET Seqs
  BY <1>2, <1>8 DEF MissingAfter, Newest
<1> QED BY <1>1, <1>2, <1>5, <1>6, <1>7, <1>8, <1>9

LEMMA AcceptType ==
  ASSUME TypeInv, NEW d \in net, AcceptDatagram(d)
  PROVE  TypeInv'
<1> DEFINE seq == d.seq
<1>1. d \in Batch /\ seq \in Seqs
  BY DEF TypeInv, TypeOK, Batch
<1>2. /\ ExpectedFor(seq) \in 1 .. MaxSeq + 1
      /\ MissingFor(seq) \in SUBSET Seqs
      /\ ~IsLate(seq) => seq - ExpectedFor(seq) \in Nat
      /\ NextExpected(seq) \in 1 .. MaxSeq + 1
      /\ MissingAfter(seq) \in SUBSET Seqs
      /\ Gap(seq) \in SUBSET Seqs
  BY <1>1, AcceptedNumbers DEF AcceptDatagram, TypeInv
<1>3. expected' \in 1 .. MaxSeq + 1 /\ missing' \in SUBSET Seqs
  BY <1>2 DEF AcceptDatagram
<1>4. net' \in SUBSET Batch /\ dups' \in 0 .. MaxDups
  <2>1. net' \in SUBSET Batch
    BY DEF AcceptDatagram, Take, TypeInv, TypeOK
  <2>2. dups \in 0 .. MaxDups /\ MaxDups \in Nat
    BY LinkAssumption DEF TypeInv, TypeOK, LinkAssumption
  <2> QED BY <2>1, <2>2 DEF AcceptDatagram, Take
<1>5. latest' \in {None} \cup Seqs /\ status' \in [Seqs -> -1 .. 2]
  <2>1. Marked(seq) \in [Seqs -> -1 .. 2]
    BY DEF Marked, TypeInv, TypeOK
  <2>2. Pruned(Marked(seq), seq) \in [Seqs -> -1 .. 2]
    BY <2>1 DEF Pruned
  <2> QED BY <1>1, <2>2 DEF AcceptDatagram, UpdateStatusMap, TypeInv, TypeOK
<1>6. lateBound' \in BOOLEAN
  BY DEF AcceptDatagram, IsLate
<1>7. stats' \in [received : Nat, missing : Nat, recovered : Nat]
  <2>1. CASE IsLate(seq)
    BY <2>1 DEF AcceptDatagram, CountUdp, TypeInv, TypeOK
  <2>2. CASE ~IsLate(seq)
    <3> DEFINE gap == seq - ExpectedFor(seq)
    <3>1. gap \in Nat BY <1>2, <2>2
    <3> HIDE DEF gap
    <3>2. stats' = [stats EXCEPT !.received = @ + 1, !.missing = @ + gap]
      BY <2>2 DEF AcceptDatagram, CountUdp, gap
    <3>3. stats \in [received : Nat, missing : Nat, recovered : Nat]
      BY DEF TypeInv, TypeOK
    <3>4. stats.received + 1 \in Nat /\ stats.missing + gap \in Nat
      BY <3>1, <3>3
    <3> QED BY <3>2, <3>3, <3>4
  <2> QED BY <2>1, <2>2
<1>8. first' \in {None} \cup Seqs /\ pub' \in [Seqs -> Nat]
  <2> DEFINE before == IF expected = None \/ IsReset(seq) THEN [s \in Seqs |-> 0] ELSE pub
  <2>1. before \in [Seqs -> Nat]
    BY DEF TypeInv, TypeOK
  <2> HIDE DEF before
  <2>2. [before EXCEPT ![seq] = @ + 1] \in [Seqs -> Nat]
    BY <1>1, <2>1
  <2>3. pub' = [before EXCEPT ![seq] = @ + 1]
    BY DEF AcceptDatagram, Record, before
  <2> QED BY <1>1, <2>2, <2>3 DEF AcceptDatagram, Record, TypeInv, TypeOK
<1>9. evicted' \in SUBSET Seqs
  BY <1>1, <1>2 DEF AcceptDatagram, Record, TypeInv, TypeOK
<1> QED BY <1>3, <1>4, <1>5, <1>6, <1>7, <1>8, <1>9
        DEF TypeInv, TypeOK, AcceptDatagram, carVars, tcpVars, procVars, reportVars

LEMMA FreshBaseType ==
  FreshBase => /\ expected' \in {None} \cup 1 .. MaxSeq + 1 /\ missing' \in SUBSET Seqs
               /\ latest' \in {None} \cup Seqs /\ status' \in [Seqs -> -1 .. 2]
               /\ lateBound' \in BOOLEAN
               /\ stats' \in [received : Nat, missing : Nat, recovered : Nat]
               /\ reporter' \in {"sleeping", "connecting", "reading"}
               /\ first' \in {None} \cup Seqs /\ pub' \in [Seqs -> Nat]
               /\ evicted' \in SUBSET Seqs
<1> SUFFICES ASSUME FreshBase
             PROVE  /\ status' \in [Seqs -> -1 .. 2] /\ pub' \in [Seqs -> Nat]
                    /\ stats' \in [received : Nat, missing : Nat, recovered : Nat]
  BY DEF FreshBase
<1> QED BY DEF FreshBase, NoStats

LEMMA LostCarType ==
  LoseCarState => seqNum' \in 0 .. MaxSeq /\ buffer' \in SUBSET Batch
BY LinkAssumption DEF LoseCarState, LinkAssumption

\* Types survive every step: one lemma per action with something to show.
LEMMA ReceiveType ==
  ASSUME TypeInv, NEW d \in net, IgnoreDuplicate(d) \/ ReceiverDies(d)
  PROVE  TypeInv'
<1>1. dups' \in 0 .. MaxDups /\ net' \in SUBSET Batch
  BY LinkAssumption DEF IgnoreDuplicate, ReceiverDies, Take, TypeInv, TypeOK, LinkAssumption
<1>2. CASE IgnoreDuplicate(d)
  BY <1>1, <1>2 DEF IgnoreDuplicate, TypeInv, TypeOK, carVars, tcpVars, baseVars, procVars,
     gapVars, mapVars, statVars, histVars
<1>3. CASE ReceiverDies(d)
  BY <1>1, <1>3, FreshBaseType DEF ReceiverDies, CloseConn, TypeInv, TypeOK, carVars, reportVars
<1> QED BY <1>2, <1>3

LEMMA CarType ==
  ASSUME TypeInv, Car \/ LoseDatagram
  PROVE  TypeInv'
<1> USE DEF TypeInv, TypeOK, baseVars, procVars, gapVars, mapVars, statVars, histVars
<1>1. CASE CarSend
  <2>1. seqNum + 1 \in Seqs /\ seqNum + 1 \in 0 .. MaxSeq
    BY <1>1, LinkAssumption DEF CarSend, LinkAssumption, Seqs
  <2>2. [sess |-> session, seq |-> seqNum + 1] \in Batch
    BY <2>1 DEF Batch
  <2> QED BY <1>1, <2>1, <2>2 DEF CarSend, tcpVars
<1>2. CASE CarResend
  BY <1>2 DEF CarResend, carVars, netVars
<1>3. CASE CarRejectRequest
  BY <1>3 DEF CarRejectRequest, carVars, netVars
<1>4. CASE CarCrash
  BY <1>4, LostCarType DEF CarCrash, LoseCarState, netVars
<1>5. CASE CarPowerLoss
  BY <1>5, LostCarType DEF CarPowerLoss, LoseCarState, netVars, tcpVars
<1>6. CASE CarRestart
  BY <1>6, LinkAssumption DEF CarRestart, netVars, tcpVars, LinkAssumption
<1>7. CASE LoseDatagram
  BY <1>7 DEF LoseDatagram, carVars, tcpVars
<1> QED BY <1>1, <1>2, <1>3, <1>4, <1>5, <1>6, <1>7 DEF Car

LEMMA ReporterType ==
  ASSUME TypeInv, Reporter
  PROVE  TypeInv'
<1> USE DEF TypeInv, TypeOK, procVars, gapVars, mapVars, statVars, histVars, carVars, netVars
<1>1. CASE ReporterWake
  BY <1>1 DEF ReporterWake, tcpVars
<1>2. CASE ReporterConnect
  BY <1>2 DEF ReporterConnect, Requested, Oldest
<1>3. CASE ReporterFails
  BY <1>3 DEF ReporterFails, CloseConn
<1>4. CASE ReporterReceive
  <2>1. Cardinality(response) \in Nat
    BY AnswerCount
  <2>2. stats' \in [received : Nat, missing : Nat, recovered : Nat]
    BY <1>4, <2>1 DEF ReporterReceive
  <2>3. status' \in [Seqs -> -1 .. 2] /\ pub' \in [Seqs -> Nat]
    BY <1>4 DEF ReporterReceive
  <2> QED BY <1>4, <2>2, <2>3 DEF ReporterReceive, StillMissing, CloseConn, reportVars
<1> QED BY <1>1, <1>2, <1>3, <1>4 DEF Reporter

LEMMA ProcessType ==
  ASSUME TypeInv, StatsPublish \/ BaseStop \/ BaseRestart
  PROVE  TypeInv'
<1> USE DEF TypeInv, TypeOK, gapVars, mapVars, statVars, histVars, carVars, netVars, tcpVars
<1>1. NoStats \in [received : Nat, missing : Nat, recovered : Nat]
  BY DEF NoStats
<1>2. CASE StatsPublish
  <2>1. reports' \in 0 .. MaxReports
    BY <1>2, LinkAssumption DEF StatsPublish, LinkAssumption
  <2>2. shown' \in [received : Nat, missing : Nat, recovered : Nat]
    BY <1>2 DEF StatsPublish
  <2> QED BY <1>1, <1>2, <2>1, <2>2 DEF StatsPublish, procVars
<1>3. CASE BaseStop
  BY <1>3, FreshBaseType DEF BaseStop, CloseConn, reportVars
<1>4. CASE BaseRestart
  BY <1>4, LinkAssumption DEF BaseRestart, LinkAssumption
<1> QED BY <1>2, <1>3, <1>4

LEMMA TypeStep == TypeInv /\ [Next]_vars => TypeInv'
<1> SUFFICES ASSUME TypeInv, [Next]_vars PROVE TypeInv'
  OBVIOUS
<1>1. CASE UNCHANGED vars
  BY <1>1 DEF vars, TypeInv, TypeOK, baseVars, procVars, gapVars, mapVars, statVars, histVars,
     carVars, netVars, tcpVars
<1>2. CASE Next
  BY <1>2, AcceptType, ReceiveType, CarType, ReporterType, ProcessType DEF Next, Base, Receive
<1> QED BY <1>1, <1>2

\* Whatever the network, the car and the operator do, and for whatever sizes
\* of the ring buffer's effect, the cap and the request, the state of the link
\* keeps its types.
THEOREM TypeCorrect == Spec => []TypeOK
<1>1. TypeInv => TypeOK
  BY DEF TypeInv
<1> QED BY <1>1, TypeInit, TypeStep, PTL DEF Spec

----------------------------------------------------------------------------
(* Every number passed is published once, missing, or given up *)

\* Accounting alone is not inductive: it says nothing before a number has been
\* adopted, where the sets it relates must be empty, and an action that adds
\* one to pub needs the number not to have been published yet.
LinkInv ==
  /\ Accounting
  /\ AtMostOnce
  /\ expected = None => PublishedSeqs = {} /\ missing = {} /\ evicted = {}
  /\ expected # None => first \in Seqs /\ first < expected

LEMMA LinkInit == Init => LinkInv
BY DEF Init, LinkInv, Accounting, AtMostOnce, PublishedSeqs

\* A new numbering holds its first number and nothing else.
BeginsWith(seq) ==
  /\ seq \in Seqs /\ seq \in Nat
  /\ expected' = seq + 1 /\ first' = seq
  /\ missing' = {} /\ evicted' = {}
  /\ pub' = [s \in Seqs |-> IF s = seq THEN 1 ELSE 0]
  /\ PublishedSeqs' = {seq}

LEMMA FirstEffect ==
  ASSUME TypeInv, LinkInv, NEW d \in net, AcceptDatagram(d),
         expected = None \/ IsReset(d.seq)
  PROVE  BeginsWith(d.seq)
<1> DEFINE seq == d.seq
<1>1. seq \in Seqs /\ seq \in Nat
  BY DEF TypeInv, TypeOK, Batch, Seqs
<1>2. ExpectedFor(seq) = seq /\ MissingFor(seq) = {}
  BY DEF ExpectedFor, Adopted, MissingFor, LinkInv
<1>3. Gap(seq) = {} /\ MissingAfter(seq) = {}
  BY <1>1, <1>2 DEF Gap, MissingAfter, Newest
<1>4. expected' = seq + 1 /\ missing' = {} /\ first' = seq /\ evicted' = {}
  BY <1>1, <1>2, <1>3 DEF AcceptDatagram, NextExpected, Record
<1>5. pub' = [s \in Seqs |-> IF s = seq THEN 1 ELSE 0]
  BY <1>1 DEF AcceptDatagram, Record
<1>6. PublishedSeqs' = {seq}
  BY <1>1, <1>5 DEF PublishedSeqs
<1> QED BY <1>1, <1>4, <1>5, <1>6 DEF BeginsWith

LEMMA AcceptFirst ==
  ASSUME TypeInv, LinkInv, NEW d \in net, AcceptDatagram(d),
         expected = None \/ IsReset(d.seq)
  PROVE  LinkInv'
<1>1. BeginsWith(d.seq)
  BY FirstEffect
<1>2. PassedSeqs' = {d.seq}
  BY <1>1 DEF BeginsWith, PassedSeqs, Seqs
<1>3. AtMostOnce'
  BY <1>1 DEF BeginsWith, AtMostOnce
<1> QED BY <1>1, <1>2, <1>3 DEF BeginsWith, LinkInv, Accounting

\* A number not below the expected one opens a gap and is published; what of
\* the gaps exceeds the cap is given up.  A late number only leaves the gaps.
ContinuesWith(seq) ==
  /\ seq \in Seqs /\ seq \in Nat /\ expected \in Nat
  /\ seq < expected => seq \in missing
  /\ seq \notin PublishedSeqs /\ seq \notin evicted
  /\ Gap(seq) = expected .. seq - 1 /\ Gap(seq) \subseteq Seqs
  /\ missing' = Newest(missing \cup Gap(seq), MissingCap) \ {seq}
  /\ evicted' = evicted \cup (((missing \cup Gap(seq)) \ {seq}) \ missing')
  /\ expected' = (IF expected > seq THEN expected ELSE seq + 1)
  /\ first' = first
  /\ pub' = [pub EXCEPT ![seq] = 1]
  /\ PublishedSeqs' = PublishedSeqs \cup {seq}

LEMMA NextEffect ==
  ASSUME TypeInv, LinkInv, NEW d \in net, AcceptDatagram(d),
         expected # None, ~IsReset(d.seq)
  PROVE  ContinuesWith(d.seq)
<1> DEFINE seq == d.seq
<1>1. /\ seq \in Seqs /\ seq \in Nat
      /\ expected \in Nat /\ first \in Nat /\ first < expected /\ first \in Seqs
  BY DEF TypeInv, TypeOK, Batch, Seqs, LinkInv
<1>2. ExpectedFor(seq) = expected /\ MissingFor(seq) = missing
  BY DEF ExpectedFor, Adopted, MissingFor
<1>3. Gap(seq) = expected .. seq - 1 /\ Gap(seq) \subseteq Seqs
  <2>1. MaxSeq \in Nat /\ 1 <= expected
    BY <1>1, LinkAssumption DEF LinkAssumption, Seqs
  <2>2. Gap(seq) = expected .. seq - 1
    BY <1>2 DEF Gap
  <2> QED BY <1>1, <2>1, <2>2 DEF Seqs
<1>4. missing' = Newest(missing \cup Gap(seq), MissingCap) \ {seq}
  BY <1>2 DEF AcceptDatagram, MissingAfter
<1>5. /\ evicted' = evicted \cup (((missing \cup Gap(seq)) \ {seq}) \ missing')
      /\ first' = first
  BY <1>2 DEF AcceptDatagram, Record
<1>6. pub' = [pub EXCEPT ![seq] = @ + 1]
  BY DEF AcceptDatagram, Record
<1>7. expected' = (IF expected > seq THEN expected ELSE seq + 1)
  BY <1>2 DEF AcceptDatagram, NextExpected
<1>8. seq < expected => seq \in missing
  BY <1>2 DEF AcceptDatagram, IsDuplicate
<1>9. PassedSeqs = PublishedSeqs \cup missing \cup evicted
  BY DEF LinkInv, Accounting
<1>10. seq \notin PublishedSeqs /\ seq \notin evicted
  <2>1. CASE seq < expected
    BY <1>8, <2>1 DEF LinkInv, Accounting
  <2>2. CASE ~(seq < expected)
    BY <1>1, <1>9, <2>2 DEF PassedSeqs
  <2> QED BY <2>1, <2>2
<1>11. pub[seq] = 0 /\ pub \in [Seqs -> Nat]
  BY <1>1, <1>10 DEF PublishedSeqs, TypeInv, TypeOK
<1>12. pub' = [pub EXCEPT ![seq] = 1]
  BY <1>1, <1>6, <1>11
<1>13. PublishedSeqs' = PublishedSeqs \cup {seq}
  BY <1>1, <1>11, <1>12 DEF PublishedSeqs
<1> QED BY <1>1, <1>3, <1>4, <1>5, <1>7, <1>8, <1>10, <1>12, <1>13 DEF ContinuesWith

LEMMA AcceptNext ==
  ASSUME TypeInv, LinkInv, NEW d \in net, AcceptDatagram(d),
         expected # None, ~IsReset(d.seq)
  PROVE  LinkInv'
<1> DEFINE seq == d.seq
<1>0. ContinuesWith(seq)
  BY NextEffect
<1>1. first \in Seqs /\ first < expected /\ first \in Nat
  BY DEF LinkInv, Seqs
<1>2. PassedSeqs = PublishedSeqs \cup missing \cup evicted
  BY DEF LinkInv, Accounting
<1>3. missing' \subseteq (missing \cup Gap(seq)) \ {seq}
  BY <1>0 DEF ContinuesWith, Newest
<1>4. PassedSeqs' = PassedSeqs \cup Gap(seq) \cup {seq}
  <2>1. /\ first' = first /\ expected' = (IF expected > seq THEN expected ELSE seq + 1)
        /\ Gap(seq) = expected .. seq - 1 /\ Gap(seq) \subseteq Seqs
        /\ seq \in Seqs /\ seq \in Nat /\ expected \in Nat
        /\ seq < expected => seq \in PassedSeqs
    BY <1>0, <1>2 DEF ContinuesWith
  <2> QED BY <1>1, <2>1 DEF PassedSeqs, Seqs
<1>5. Gap(seq) \cap PassedSeqs = {}
  BY <1>0, <1>1 DEF ContinuesWith, PassedSeqs
<1>6. AtMostOnce'
  BY <1>0 DEF ContinuesWith, AtMostOnce, LinkInv, TypeInv, TypeOK
<1>7. expected' \in Nat /\ first' < expected' /\ first' \in Seqs
  BY <1>0, <1>1 DEF ContinuesWith
<1>8. Accounting'
  BY <1>0, <1>2, <1>3, <1>4, <1>5 DEF ContinuesWith, LinkInv, Accounting
<1> QED BY <1>6, <1>7, <1>8 DEF LinkInv

\* An answer fills only numbers that are still missing.
LEMMA AnswerFills ==
  ASSUME TypeInv, LinkInv, ReporterReceive
  PROVE  LinkInv'
<1>1. RecoveredSeqs \subseteq missing /\ missing \subseteq Seqs /\ pub \in [Seqs -> Nat]
  BY DEF RecoveredSeqs, Recovered, TypeInv, TypeOK
<1>2. \A s \in RecoveredSeqs : pub[s] = 0
  BY <1>1 DEF LinkInv, Accounting, PublishedSeqs
<1>3. pub' = [s \in Seqs |-> IF s \in RecoveredSeqs THEN 1 ELSE pub[s]]
  BY <1>1, <1>2 DEF ReporterReceive
<1>4. PublishedSeqs' = PublishedSeqs \cup RecoveredSeqs
  BY <1>1, <1>3 DEF PublishedSeqs
<1>5. missing' = missing \ RecoveredSeqs
  BY DEF ReporterReceive, StillMissing
<1>6. expected' = expected /\ first' = first /\ evicted' = evicted /\ PassedSeqs' = PassedSeqs
  BY DEF ReporterReceive, PassedSeqs
<1>7. AtMostOnce'
  BY <1>3 DEF AtMostOnce, LinkInv
<1> QED BY <1>1, <1>4, <1>5, <1>6, <1>7 DEF LinkInv, Accounting

LEMMA ForgetAll == FreshBase => LinkInv'
BY DEF FreshBase, LinkInv, Accounting, AtMostOnce, PublishedSeqs

LEMMA LinkStep == TypeInv /\ LinkInv /\ [Next]_vars => LinkInv'
<1> SUFFICES ASSUME TypeInv, LinkInv, [Next]_vars PROVE LinkInv'
  OBVIOUS
<1>1. UNCHANGED <<gapVars, histVars>> => LinkInv'
  BY DEF gapVars, histVars, LinkInv, Accounting, AtMostOnce, PublishedSeqs, PassedSeqs
<1>2. CASE UNCHANGED vars
  BY <1>1, <1>2 DEF vars, baseVars
<1>3. CASE Car \/ LoseDatagram
  BY <1>1, <1>3 DEF Car, CarSend, CarResend, CarRejectRequest, CarCrash, CarPowerLoss,
     CarRestart, LoseDatagram, baseVars
<1>4. ASSUME NEW d \in net, Receive(d) PROVE LinkInv'
  <2>1. CASE AcceptDatagram(d)
    BY <2>1, AcceptFirst, AcceptNext
  <2>2. CASE IgnoreDuplicate(d)
    BY <1>1, <2>2 DEF IgnoreDuplicate, baseVars
  <2>3. CASE ReceiverDies(d)
    BY <2>3, ForgetAll DEF ReceiverDies
  <2> QED BY <1>4, <2>1, <2>2, <2>3 DEF Receive
<1>5. CASE Reporter
  <2>1. CASE ReporterReceive
    BY <2>1, AnswerFills
  <2>2. CASE ReporterWake \/ ReporterConnect \/ ReporterFails
    BY <1>1, <2>2 DEF ReporterWake, ReporterConnect, ReporterFails
  <2> QED BY <1>5, <2>1, <2>2 DEF Reporter
<1>6. CASE StatsPublish \/ BaseRestart
  BY <1>1, <1>6 DEF StatsPublish, BaseRestart
<1>7. CASE BaseStop
  BY <1>7, ForgetAll DEF BaseStop
<1> QED BY <1>2, <1>3, <1>4, <1>5, <1>6, <1>7 DEF Next, Base

\* udp_receiver and missing_reporter never both publish a batch of one
\* numbering, whatever is lost, reordered, copied or answered late.
THEOREM NeverPublishedTwice == Spec => []AtMostOnce
<1>1. LinkInv => AtMostOnce
  BY DEF LinkInv
<1> QED BY <1>1, TypeInit, TypeStep, LinkInit, LinkStep, PTL DEF Spec

\* missing_seqs always holds exactly the numbers passed that are neither
\* published nor given up at the cap: none is forgotten, none is asked for in
\* vain once it has arrived.
THEOREM NothingForgotten == Spec => []Accounting
<1>1. LinkInv => Accounting
  BY DEF LinkInv
<1> QED BY <1>1, TypeInit, TypeStep, LinkInit, LinkStep, PTL DEF Spec

----------------------------------------------------------------------------
(* The cap on missing_seqs *)

LEMMA SeqsFinite == IsFiniteSet(Seqs) /\ Seqs \subseteq Nat
BY FS_Interval, LinkAssumption DEF LinkAssumption, Seqs

LEMMA SeqSubset ==
  ASSUME NEW S \in SUBSET Seqs
  PROVE  S \subseteq Nat /\ IsFiniteSet(S) /\ Cardinality(S) \in Nat
BY SeqsFinite, FS_Subset, FS_CardinalityType

\* The sets of numbers below a member of S are ordered by strict inclusion,
\* and the least of them belongs to the least member.
LEMMA LeastNumber ==
  ASSUME NEW S \in SUBSET Nat, IsFiniteSet(S), S # {}
  PROVE  \E m \in S : \A t \in S : m <= t
<1> DEFINE below(x) == {t \in S : t < x}
           Belows == {below(x) : x \in S}
<1>1. IsWellFoundedOn(StrictSubsetOrdering(S), FiniteSubsetsOf(S))
  BY FS_StrictSubsetOrderingWellFounded
<1>2. Belows \subseteq FiniteSubsetsOf(S) /\ Belows # {}
  <2>1. FiniteSubsetsOf(S) = SUBSET S
    BY FS_FiniteSubsetsOfFinite
  <2>3. PICK x \in S : TRUE
    OBVIOUS
  <2>4. below(x) \in Belows
    OBVIOUS
  <2>5. Belows # {}
    BY <2>4
  <2>6. ASSUME NEW B \in Belows PROVE B \in SUBSET S
    <3>1. PICK y \in S : B = below(y)
      OBVIOUS
    <3> QED BY <3>1
  <2> HIDE DEF Belows
  <2>7. Belows \subseteq SUBSET S
    BY <2>6
  <2> QED BY <2>1, <2>5, <2>7
<1> HIDE DEF Belows
<1>3. PICK B \in Belows : \A C \in Belows : ~(<<C, B>> \in StrictSubsetOrdering(S))
  BY <1>1, <1>2, WFMin
<1> USE DEF Belows
<1>4. PICK m \in S : B = below(m)
  OBVIOUS
<1>5. ASSUME NEW t \in S, t < m PROVE FALSE
  <2>1. t \in below(m) /\ t \notin below(t) /\ below(t) \in Belows
    BY <1>5
  <2>2. ASSUME NEW u \in below(t) PROVE u \in below(m)
    BY <1>5
  <2>3. below(t) \subseteq below(m) /\ below(t) # below(m)
    BY <2>1, <2>2
  <2>4. <<below(t), below(m)>> \in StrictSubsetOrdering(S)
    BY <2>3 DEF StrictSubsetOrdering
  <2> QED BY <1>3, <1>4, <2>1, <2>4
<1> QED BY <1>5

\* Evicting the least number until no more than n remain leaves at most n.
LEMMA NewestBounded ==
  ASSUME NEW S \in SUBSET Seqs, NEW n \in Nat \ {0}
  PROVE  IsFiniteSet(Newest(S, n)) /\ Cardinality(Newest(S, n)) <= n
<1>1. IsFiniteSet(S) /\ S \subseteq Nat
  BY SeqSubset
<1>2. Newest(S, n) \subseteq S /\ IsFiniteSet(Newest(S, n))
  BY <1>1, FS_Subset DEF Newest
<1>3. CASE Newest(S, n) = {}
  BY <1>3, FS_EmptySet
<1>4. CASE Newest(S, n) # {}
  <2>1. PICK m \in Newest(S, n) : \A t \in Newest(S, n) : m <= t
    BY <1>1, <1>2, <1>4, LeastNumber
  <2> DEFINE above == {t \in S : t > m}
  <2>2. IsFiniteSet(above) /\ Cardinality(above) \in Nat /\ Cardinality(above) < n
    BY <1>1, FS_Subset, FS_CardinalityType DEF Newest
  <2>3. ASSUME NEW t \in Newest(S, n) PROVE t \in above \cup {m}
    <3>1. t \in S /\ t \in Nat /\ m \in Nat /\ m <= t
      BY <1>1, <1>2, <2>1
    <3> QED BY <3>1
  <2>4. IsFiniteSet(above \cup {m}) /\ Cardinality(above \cup {m}) <= Cardinality(above) + 1
    BY <2>2, FS_AddElement
  <2>5. Cardinality(Newest(S, n)) <= Cardinality(above \cup {m})
    BY <2>3, <2>4, FS_Subset
  <2>6. Cardinality(Newest(S, n)) \in Nat /\ Cardinality(above \cup {m}) \in Nat
    BY <1>2, <2>4, FS_CardinalityType
  <2> QED BY <1>2, <2>2, <2>4, <2>5, <2>6
<1> QED BY <1>3, <1>4

\* What the cap evicts is older than all it keeps.
LEMMA NewestAreNewer ==
  ASSUME NEW S \in SUBSET Seqs, NEW n \in Nat \ {0},
         NEW s \in S \ Newest(S, n), NEW t \in Newest(S, n)
  PROVE  s < t
<1>1. IsFiniteSet(S) /\ S \subseteq Nat
  BY SeqSubset
<1> DEFINE above(x) == {u \in S : u > x}
<1>2. s \in Nat /\ t \in S /\ t \in Nat /\ Cardinality(above(t)) < n /\ ~(Cardinality(above(s)) < n)
  BY <1>1 DEF Newest
<1>3. ASSUME t <= s PROVE FALSE
  <2>0. ASSUME NEW u \in above(s) PROVE u \in above(t)
    <3>1. u \in S /\ u \in Nat /\ s < u /\ s \in Nat /\ t \in Nat
      BY <1>1, <1>2
    <3> QED BY <1>3, <3>1
  <2>1. IsFiniteSet(above(t)) /\ above(s) \subseteq above(t)
    BY <1>1, <2>0, FS_Subset
  <2>2. Cardinality(above(s)) <= Cardinality(above(t))
    BY <2>1, FS_Subset
  <2>3. Cardinality(above(s)) \in Nat /\ Cardinality(above(t)) \in Nat
    BY <2>1, FS_Subset, FS_CardinalityType
  <2> QED BY <1>2, <2>2, <2>3
<1> QED BY <1>2, <1>3

LEMMA CapInit == Init => CapDropsOldest
BY FS_EmptySet, LinkAssumption DEF Init, CapDropsOldest, LinkAssumption

LEMMA AcceptKeepsCap ==
  ASSUME TypeInv, LinkInv, CapDropsOldest, NEW d \in net, AcceptDatagram(d)
  PROVE  CapDropsOldest'
<1> DEFINE seq == d.seq
           open == MissingFor(seq) \cup Gap(seq)
           old == IF expected = None \/ IsReset(seq) THEN {} ELSE evicted
<1>1. seq \in Seqs /\ MissingCap \in Nat \ {0}
  BY LinkAssumption DEF LinkAssumption, TypeInv, TypeOK, Batch
<1>2. open \in SUBSET Seqs /\ ExpectedFor(seq) \in Nat
  BY <1>1, AcceptedNumbers, LinkAssumption DEF AcceptDatagram, TypeInv, LinkAssumption
<1>3. missing' = Newest(open, MissingCap) \ {seq}
  BY DEF AcceptDatagram, MissingAfter
<1>4. evicted' = old \cup ((open \ {seq}) \ missing')
  BY DEF AcceptDatagram, Record
<1>5. Cardinality(missing') <= MissingCap
  <2>1. IsFiniteSet(Newest(open, MissingCap)) /\ Cardinality(Newest(open, MissingCap)) <= MissingCap
    BY <1>1, <1>2, NewestBounded
  <2>2. Cardinality(missing') <= Cardinality(Newest(open, MissingCap)) /\ IsFiniteSet(missing')
    BY <1>3, <2>1, FS_Subset
  <2>3. Cardinality(missing') \in Nat /\ Cardinality(Newest(open, MissingCap)) \in Nat
    BY <2>1, <2>2, FS_CardinalityType
  <2> QED BY <1>1, <2>1, <2>2, <2>3
<1>6. ASSUME NEW s \in evicted', NEW t \in missing' PROVE s < t
  <2>1. t \in Newest(open, MissingCap) /\ t \in open /\ t \in Nat
    BY <1>2, <1>3 DEF Newest, Seqs
  <2>2. CASE s \in old
    <3>1. s \in evicted /\ ExpectedFor(seq) = expected /\ MissingFor(seq) = missing /\ expected # None
      BY <2>2 DEF ExpectedFor, Adopted, MissingFor
    <3>2. s < expected /\ s \in Nat
      BY <3>1 DEF LinkInv, Accounting, PassedSeqs, Seqs
    <3>3. CASE t \in missing
      BY <3>1, <3>3 DEF CapDropsOldest
    <3>4. CASE t \in Gap(seq)
      <4>1. expected <= t
        BY <1>1, <1>2, <3>1, <3>4 DEF Gap, Seqs
      <4> QED BY <1>2, <2>1, <3>1, <3>2, <4>1
    <3> QED BY <2>1, <3>1, <3>3, <3>4
  <2>3. CASE s \notin old
    <3>1. s \in open \ Newest(open, MissingCap)
      BY <1>3, <1>4, <1>6, <2>3
    <3> QED BY <1>1, <1>2, <2>1, <3>1, NewestAreNewer
  <2> QED BY <2>2, <2>3
<1> QED BY <1>5, <1>6 DEF CapDropsOldest

LEMMA CapStep == TypeInv /\ LinkInv /\ CapDropsOldest /\ [Next]_vars => CapDropsOldest'
<1> SUFFICES ASSUME TypeInv, LinkInv, CapDropsOldest, [Next]_vars PROVE CapDropsOldest'
  OBVIOUS
<1>1. UNCHANGED <<missing, evicted>> => CapDropsOldest'
  BY DEF CapDropsOldest
<1>2. FreshBase => CapDropsOldest'
  BY FS_EmptySet, LinkAssumption DEF FreshBase, CapDropsOldest, LinkAssumption
<1>3. CASE UNCHANGED vars
  BY <1>1, <1>3 DEF vars, baseVars, gapVars, histVars
<1>4. CASE Car \/ LoseDatagram
  BY <1>1, <1>4 DEF Car, CarSend, CarResend, CarRejectRequest, CarCrash, CarPowerLoss,
     CarRestart, LoseDatagram, baseVars, gapVars, histVars
<1>5. ASSUME NEW d \in net, Receive(d) PROVE CapDropsOldest'
  BY <1>1, <1>2, <1>5, AcceptKeepsCap DEF Receive, IgnoreDuplicate, ReceiverDies, baseVars,
     gapVars, histVars
<1>6. CASE Reporter
  <2>1. CASE ReporterReceive
    <3>1. missing' \subseteq missing /\ evicted' = evicted
      BY <2>1 DEF ReporterReceive, StillMissing
    <3>2. IsFiniteSet(missing) /\ MissingCap \in Nat
      BY SeqSubset, LinkAssumption DEF LinkAssumption, TypeInv, TypeOK
    <3>3. Cardinality(missing') <= Cardinality(missing) /\ IsFiniteSet(missing')
      BY <3>1, <3>2, FS_Subset
    <3>4. Cardinality(missing') \in Nat /\ Cardinality(missing) \in Nat
      BY <3>2, <3>3, FS_CardinalityType
    <3> QED BY <3>1, <3>2, <3>3, <3>4 DEF CapDropsOldest
  <2>2. CASE ReporterWake \/ ReporterConnect \/ ReporterFails
    BY <1>1, <2>2 DEF ReporterWake, ReporterConnect, ReporterFails, gapVars, histVars
  <2> QED BY <1>6, <2>1, <2>2 DEF Reporter
<1>7. CASE StatsPublish \/ BaseRestart
  BY <1>1, <1>7 DEF StatsPublish, BaseRestart, gapVars, histVars
<1>8. CASE BaseStop
  BY <1>2, <1>8 DEF BaseStop
<1> QED BY <1>3, <1>4, <1>5, <1>6, <1>7, <1>8 DEF Next, Base

\* missing_seqs never exceeds its cap, and a number the cap gave up is older
\* than every number still asked for, through any sequence of gaps, late
\* arrivals and answers.
THEOREM CapGivesUpOldest == Spec => []CapDropsOldest
BY TypeInit, TypeStep, LinkInit, LinkStep, CapInit, CapStep, PTL DEF Spec

----------------------------------------------------------------------------
(* TelemetryLink implements SeqLedger *)

\* In a state that satisfies LinkInv the four kinds of entries are told apart
\* by the three sets, whichever is asked first.
EntriesAreSets ==
  /\ Entries = [s \in Seqs |-> IF s \in PublishedSeqs THEN "published"
                               ELSE IF s \in missing THEN "gap"
                               ELSE IF s \in evicted THEN "lost" ELSE "unseen"]
  /\ {s \in Seqs : Entries[s] = "gap"} = missing

LEMMA EntriesBySet == TypeInv /\ LinkInv => EntriesAreSets
<1> SUFFICES ASSUME TypeInv, LinkInv PROVE EntriesAreSets
  OBVIOUS
<1>1. ASSUME NEW s \in Seqs
      PROVE  Entry(s) = IF s \in PublishedSeqs THEN "published"
                        ELSE IF s \in missing THEN "gap"
                        ELSE IF s \in evicted THEN "lost" ELSE "unseen"
  <2>1. pub[s] \in Nat /\ pub[s] <= 1 /\ (s \in PublishedSeqs <=> pub[s] > 0)
    BY DEF TypeInv, TypeOK, LinkInv, AtMostOnce, PublishedSeqs
  <2>2. CASE pub[s] = 1
    BY <2>1, <2>2 DEF Entry
  <2>3. CASE pub[s] = 0
    BY <2>1, <2>3 DEF Entry
  <2> QED BY <2>1, <2>2, <2>3
<1>2. missing \subseteq Seqs /\ missing \cap PublishedSeqs = {}
  BY DEF TypeInv, TypeOK, LinkInv, Accounting
<1> QED BY <1>1, <1>2 DEF Entries, EntriesAreSets

LEMMA EntriesBySetNext == TypeInv' /\ LinkInv' => EntriesAreSets'
BY EntriesBySet, PTL

\* With no more than n numbers in it a set keeps all of them.
LEMMA NewestOfFew ==
  ASSUME NEW S \in SUBSET Seqs, NEW n \in Nat, Cardinality(S) <= n
  PROVE  Newest(S, n) = S
<1>1. ASSUME NEW s \in S PROVE Cardinality({t \in S : t > s}) < n
  <2> DEFINE above == {t \in S : t > s}
  <2>1. above \in SUBSET S /\ above # S
    BY SeqSubset
  <2>2. Cardinality(above) <= Cardinality(S) /\ Cardinality(above) # Cardinality(S)
    BY <2>1, SeqSubset, FS_Subset
  <2>3. Cardinality(above) \in Nat /\ Cardinality(S) \in Nat
    BY <2>1, SeqSubset
  <2> QED BY <2>2, <2>3
<1> QED BY <1>1 DEF Newest

LEMMA LedgerFirst ==
  ASSUME TypeInv, LinkInv, TypeInv', LinkInv', NEW d \in net, AcceptDatagram(d),
         expected = None \/ IsReset(d.seq)
  PROVE  Ledger!Begin(d.seq)
<1>0. BeginsWith(d.seq)
  BY FirstEffect
<1>1. Entries' = [s \in Seqs |-> IF s = d.seq THEN "published" ELSE "unseen"]
  BY <1>0, EntriesBySetNext DEF BeginsWith, EntriesAreSets
<1>2. Ledger!LedgerSeqs = Seqs
  BY DEF Ledger!LedgerSeqs, Seqs
<1>3. Entries' = [Ledger!Blank EXCEPT ![d.seq] = "published"]
  BY <1>0, <1>1, <1>2 DEF Ledger!Blank, BeginsWith
<1>4. expected = -1 \/ d.seq < expected - ResetGap
  BY DEF IsReset, Adopted
<1> QED BY <1>0, <1>3, <1>4 DEF Ledger!Begin, BeginsWith

LEMMA LedgerNextNumber ==
  ASSUME TypeInv, LinkInv, TypeInv', LinkInv', NEW d \in net, AcceptDatagram(d),
         expected # None, ~IsReset(d.seq), ~(d.seq < expected)
  PROVE  Ledger!Advance(d.seq)
<1> DEFINE seq == d.seq
           open == missing \cup expected .. seq - 1
           kept == Newest(open, MissingCap)
<1>1. Ledger!LedgerSeqs = Seqs /\ Ledger!Gaps = missing
  BY EntriesBySet DEF EntriesAreSets, Ledger!LedgerSeqs, Ledger!Gaps, Seqs
<1>2. /\ seq \in Seqs /\ seq \in Nat /\ expected \in Nat /\ seq >= expected
      /\ missing' = kept \ {seq} /\ evicted' = evicted \cup ((open \ {seq}) \ missing')
      /\ PublishedSeqs' = PublishedSeqs \cup {seq} /\ expected' = seq + 1
  <2>1. ContinuesWith(seq)
    BY NextEffect
  <2> QED BY <2>1 DEF ContinuesWith
<1>3. seq \notin open /\ open \cap PublishedSeqs = {} /\ open \cap evicted = {}
  <2>1. PassedSeqs = PublishedSeqs \cup missing \cup evicted
    BY DEF LinkInv, Accounting
  <2>2. \A s \in PassedSeqs : s < expected /\ s \in Nat
    BY DEF PassedSeqs, Seqs
  <2>3. \A s \in expected .. seq - 1 : ~(s < expected) /\ s # seq
    BY <1>2
  <2>4. missing \cap PublishedSeqs = {} /\ missing \cap evicted = {}
    BY DEF LinkInv, Accounting
  <2> QED BY <1>2, <2>1, <2>2, <2>3, <2>4
<1>4. kept \subseteq open
  BY DEF Newest
<1> HIDE DEF open, kept
<1>5. ASSUME NEW g \in Seqs
      PROVE  Entries'[g] = IF g = seq THEN "published"
                           ELSE IF g \in kept THEN "gap"
                           ELSE IF g \in open THEN "lost"
                           ELSE Entries[g]
  <2>1. Entries'[g] = IF g \in PublishedSeqs' THEN "published"
                      ELSE IF g \in missing' THEN "gap"
                      ELSE IF g \in evicted' THEN "lost" ELSE "unseen"
    BY EntriesBySetNext DEF EntriesAreSets
  <2>2. Entries[g] = IF g \in PublishedSeqs THEN "published"
                     ELSE IF g \in missing THEN "gap"
                     ELSE IF g \in evicted THEN "lost" ELSE "unseen"
    BY EntriesBySet DEF EntriesAreSets
  <2>3. g \in missing => g \in open
    BY DEF open
  <2> QED BY <1>2, <1>3, <1>4, <2>1, <2>2, <2>3
<1>6. Entries' = [g \in Seqs |-> IF g = seq THEN "published"
                                 ELSE IF g \in kept THEN "gap"
                                 ELSE IF g \in open THEN "lost"
                                 ELSE Entries[g]]
  BY <1>5, EntriesBySetNext DEF EntriesAreSets
\* The cap keeps the gaps from some number on.
<1>7. PICK oldest \in Seqs : kept = {g \in open : g >= oldest}
  <2>1. open \in SUBSET Seqs /\ kept = Newest(open, MissingCap) /\ MissingCap \in Nat \ {0}
    <3>1. ContinuesWith(seq)
      BY NextEffect
    <3> QED BY <3>1, LinkAssumption DEF LinkAssumption, ContinuesWith, open, kept, TypeInv, TypeOK
  <2>2. CASE kept = {}
    <3>0. missing \subseteq PassedSeqs
      BY DEF LinkInv, Accounting
    <3>1. ASSUME NEW g \in open PROVE ~(g >= seq)
      <4>1. CASE g \in missing
        BY <1>2, <3>0, <4>1 DEF PassedSeqs, Seqs
      <4>2. CASE g \in expected .. seq - 1
        BY <1>2, <4>2
      <4> QED BY <4>1, <4>2 DEF open
    <3> QED BY <1>2, <2>2, <3>1
  <2>3. CASE kept # {}
    <3>1. PICK m \in kept : \A t \in kept : m <= t
      BY <1>4, <2>1, <2>3, LeastNumber, SeqSubset
    <3>2. \A g \in open : g \notin kept => g < m
      BY <2>1, <3>1, NewestAreNewer
    <3>3. m \in Seqs /\ open \subseteq Nat /\ m \in Nat
      BY <1>4, <2>1, <3>1, SeqSubset
    <3>4. ASSUME NEW g \in open PROVE g \in kept <=> g >= m
      BY <3>1, <3>2, <3>3
    <3> QED BY <1>4, <3>3, <3>4
  <2> QED BY <2>2, <2>3
<1>8. Entries' = [g \in Ledger!LedgerSeqs |->
                    IF g = seq THEN "published"
                    ELSE IF g \in Ledger!Gaps \cup expected .. seq - 1
                         THEN IF g >= oldest THEN "gap" ELSE "lost"
                    ELSE Entries[g]]
  BY <1>1, <1>6, <1>7 DEF open
<1>9. expected # -1 /\ seq >= expected /\ expected' = seq + 1
  BY <1>2
<1> QED BY <1>1, <1>8, <1>9 DEF Ledger!Advance

LEMMA LedgerLate ==
  ASSUME TypeInv, LinkInv, CapDropsOldest, TypeInv', LinkInv', NEW d \in net, AcceptDatagram(d),
         expected # None, ~IsReset(d.seq), d.seq < expected
  PROVE  Ledger!Fill({d.seq}) /\ {d.seq} \subseteq Ledger!Gaps
<1> DEFINE seq == d.seq
<1>1. Ledger!LedgerSeqs = Seqs /\ Ledger!Gaps = missing
  BY EntriesBySet DEF EntriesAreSets, Ledger!LedgerSeqs, Ledger!Gaps, Seqs
<1>0. ContinuesWith(seq)
  BY NextEffect
<1>2. seq \in missing /\ seq \in Seqs /\ seq \in Nat /\ expected \in Nat
  BY <1>0 DEF ContinuesWith
<1>3. missing \cup Gap(seq) = missing
  BY <1>0, <1>2 DEF ContinuesWith
<1>4. Newest(missing, MissingCap) = missing
  BY NewestOfFew, LinkAssumption DEF LinkAssumption, CapDropsOldest, TypeInv, TypeOK
<1>5. /\ missing' = missing \ {seq} /\ evicted' = evicted /\ expected' = expected
      /\ PublishedSeqs' = PublishedSeqs \cup {seq}
  BY <1>0, <1>2, <1>3, <1>4 DEF ContinuesWith
<1>6. Entries' = [s \in Seqs |-> IF s \in {seq} THEN "published" ELSE Entries[s]]
  BY <1>5, EntriesBySet, EntriesBySetNext DEF EntriesAreSets
<1> QED BY <1>1, <1>2, <1>5, <1>6 DEF Ledger!Fill

LEMMA LedgerAnswer ==
  ASSUME TypeInv, LinkInv, TypeInv', LinkInv', ReporterReceive
  PROVE  \/ UNCHANGED <<Entries, expected>>
         \/ Ledger!Fill(RecoveredSeqs) /\ RecoveredSeqs \subseteq Ledger!Gaps
<1>1. Ledger!LedgerSeqs = Seqs /\ Ledger!Gaps = missing
  BY EntriesBySet DEF EntriesAreSets, Ledger!LedgerSeqs, Ledger!Gaps, Seqs
<1>2. RecoveredSeqs \subseteq missing /\ missing \subseteq Seqs /\ pub \in [Seqs -> Nat]
  BY DEF RecoveredSeqs, Recovered, TypeInv, TypeOK
<1>3. /\ missing' = missing \ RecoveredSeqs /\ evicted' = evicted /\ expected' = expected
      /\ PublishedSeqs' = PublishedSeqs \cup RecoveredSeqs
  BY <1>2 DEF ReporterReceive, StillMissing, PublishedSeqs
<1>4. Entries' = [s \in Seqs |-> IF s \in RecoveredSeqs THEN "published" ELSE Entries[s]]
  BY <1>3, EntriesBySet, EntriesBySetNext DEF EntriesAreSets
<1>5. CASE RecoveredSeqs = {}
  BY <1>3, <1>4, <1>5 DEF Entries
<1>6. CASE RecoveredSeqs # {}
  BY <1>1, <1>2, <1>3, <1>4, <1>6 DEF Ledger!Fill
<1> QED BY <1>5, <1>6

LEMMA LedgerForget == FreshBase => Ledger!Forget
<1> SUFFICES ASSUME FreshBase PROVE Entries' = [s \in Seqs |-> "unseen"] /\ expected' = -1
  BY DEF Ledger!Forget, Ledger!Blank, Ledger!LedgerSeqs, Seqs
<1> QED BY DEF FreshBase, Entries, Entry

LEMMA LedgerStep ==
  TypeInv /\ LinkInv /\ CapDropsOldest /\ TypeInv' /\ LinkInv' /\ [Next]_vars
    => [Ledger!LedgerNext]_(Ledger!ledgerVars)
<1> SUFFICES ASSUME TypeInv, LinkInv, CapDropsOldest, TypeInv', LinkInv', [Next]_vars
             PROVE  Ledger!LedgerNext \/ UNCHANGED <<Entries, expected>>
  BY DEF Ledger!ledgerVars
<1>1. UNCHANGED <<gapVars, histVars>> => UNCHANGED <<Entries, expected>>
  BY DEF gapVars, histVars, Entries, Entry
<1>2. Seqs = Ledger!LedgerSeqs
  BY DEF Ledger!LedgerSeqs, Seqs
<1>3. FreshBase => Ledger!LedgerNext
  BY LedgerForget DEF Ledger!LedgerNext
<1>4. CASE UNCHANGED vars
  BY <1>1, <1>4 DEF vars, baseVars
<1>5. CASE Car \/ LoseDatagram
  BY <1>1, <1>5 DEF Car, CarSend, CarResend, CarRejectRequest, CarCrash, CarPowerLoss,
     CarRestart, LoseDatagram, baseVars
<1>6. ASSUME NEW d \in net, AcceptDatagram(d) PROVE Ledger!LedgerNext
  <2>1. d.seq \in Seqs
    BY DEF TypeInv, TypeOK, Batch
  <2>2. CASE expected = None \/ IsReset(d.seq)
    BY <1>2, <1>6, <2>1, <2>2, LedgerFirst DEF Ledger!LedgerNext
  <2>3. CASE expected # None /\ ~IsReset(d.seq) /\ ~(d.seq < expected)
    BY <1>2, <1>6, <2>1, <2>3, LedgerNextNumber DEF Ledger!LedgerNext
  <2>4. CASE expected # None /\ ~IsReset(d.seq) /\ d.seq < expected
    BY <1>6, <2>4, LedgerLate DEF Ledger!LedgerNext
  <2> QED BY <2>2, <2>3, <2>4
<1>7. ASSUME NEW d \in net, Receive(d) PROVE Ledger!LedgerNext \/ UNCHANGED <<Entries, expected>>
  <2>1. CASE IgnoreDuplicate(d)
    BY <1>1, <2>1 DEF IgnoreDuplicate, baseVars
  <2>2. CASE ReceiverDies(d)
    BY <1>3, <2>2 DEF ReceiverDies
  <2> QED BY <1>6, <1>7, <2>1, <2>2 DEF Receive
<1>8. CASE Reporter
  <2>1. CASE ReporterReceive
    BY <2>1, LedgerAnswer DEF Ledger!LedgerNext
  <2>2. CASE ReporterWake \/ ReporterConnect \/ ReporterFails
    BY <1>1, <2>2 DEF ReporterWake, ReporterConnect, ReporterFails
  <2> QED BY <1>8, <2>1, <2>2 DEF Reporter
<1>9. CASE StatsPublish \/ BaseRestart
  BY <1>1, <1>9 DEF StatsPublish, BaseRestart
<1>10. CASE BaseStop
  BY <1>3, <1>10 DEF BaseStop
<1> QED BY <1>4, <1>5, <1>7, <1>8, <1>9, <1>10 DEF Next, Base

\* The two tasks of the base station, the ring buffer and the network
\* together keep the promise of SeqLedger, restarts of both ends included.
THEOREM LinkImplementsLedger == Spec => ImplementsLedger
<1>1. Init => Ledger!LedgerInit
  BY DEF Init, Ledger!LedgerInit, Ledger!Blank, Ledger!LedgerSeqs, Seqs, Entries, Entry
<1> QED BY <1>1, TypeInit, TypeStep, LinkInit, LinkStep, CapInit, CapStep, LedgerStep, PTL
        DEF Spec, ImplementsLedger, Ledger!LedgerSpec

----------------------------------------------------------------------------
(* The status page, while one numbering lasts *)

\* No batch in flight is so far below expected_seq that it would be taken for
\* a restart of the car.  The base may restart: it then forgets the numbering.
NumberingHolds == \A d \in net : ~IsReset(d.seq)

\* StatusTruthful is not inductive: that the numbers between latest_seq and a
\* new one are those of the gap needs latest_seq to be just below expected_seq.
StatusInv ==
  /\ expected = None => latest = None
  /\ expected # None => latest \in Seqs /\ expected = latest + 1
  /\ StatusTruthful

LEMMA StatusInit == Init => StatusInv
BY DEF Init, StatusInv, StatusTruthful

LEMMA StatusForgotten == FreshBase => StatusInv'
BY DEF FreshBase, StatusInv, StatusTruthful

LEMMA StatusUnchanged ==
  ASSUME StatusInv, UNCHANGED <<expected, latest, status, first, pub>>
  PROVE  StatusInv'
BY DEF StatusInv, StatusTruthful, PassedSeqs

LEMMA PrunedKeepsWindow ==
  ASSUME NEW map \in [Seqs -> -1 .. 2], NEW seq \in Seqs, NEW s \in Seqs, s > seq - StatusCap
  PROVE  Pruned(map, seq)[s] = map[s]
BY DEF Pruned

LEMMA AcceptStatus ==
  ASSUME TypeInv, LinkInv, StatusInv, NumberingHolds, NEW d \in net, AcceptDatagram(d)
  PROVE  StatusInv'
<1> DEFINE seq == d.seq
<1>0. /\ Seqs \subseteq Nat /\ StatusCap \in Nat /\ StatusCap > 0 /\ seq \in Seqs /\ seq \in Nat
      /\ status \in [Seqs -> -1 .. 2] /\ ~IsReset(seq) /\ latest \in {None} \cup Seqs
      /\ Marked(seq) \in [Seqs -> -1 .. 2] /\ pub \in [Seqs -> Nat]
  BY LinkAssumption DEF LinkAssumption, TypeInv, TypeOK, Batch, Seqs, NumberingHolds, Marked
<1>1. CASE expected = None
  <2>1. BeginsWith(seq)
    BY <1>1, FirstEffect
  <2>2. latest = None /\ seq > latest
    BY <1>0, <1>1 DEF StatusInv
  <2>3. latest' = seq /\ status' = Pruned(Marked(seq), seq)
    BY <2>2 DEF AcceptDatagram, UpdateStatusMap
  <2>4. \A s \in PassedSeqs' : s = seq
    BY <1>0, <2>1 DEF BeginsWith, PassedSeqs
  <2>5. status'[seq] = ByUdp /\ pub'[seq] = 1
    <3>1. seq > seq - StatusCap
      BY <1>0
    <3> QED BY <1>0, <2>1, <2>3, <3>1, PrunedKeepsWindow DEF BeginsWith, Marked
  <2> QED BY <1>0, <2>1, <2>3, <2>4, <2>5 DEF BeginsWith, StatusInv, StatusTruthful
<1>2. CASE expected # None
  <2>0. ContinuesWith(seq)
    BY <1>0, <1>2, NextEffect
  <2>1. /\ latest \in Seqs /\ latest \in Nat /\ expected = latest + 1
        /\ first' = first /\ first \in Nat
        /\ pub' = [pub EXCEPT ![seq] = 1]
        /\ expected' = (IF expected > seq THEN expected ELSE seq + 1)
    BY <1>0, <1>2, <2>0 DEF ContinuesWith, StatusInv, LinkInv
  <2>2. CASE seq > latest
    <3>0. UpdateStatusMap(seq)
      BY DEF AcceptDatagram
    <3>1. latest' = seq /\ status' = Pruned(Marked(seq), seq) /\ expected' = seq + 1
      BY <1>0, <2>1, <2>2, <3>0 DEF UpdateStatusMap
    <3>2. ASSUME NEW s \in PassedSeqs', s > latest' - StatusCap
          PROVE  status'[s] # Absent /\ (status'[s] = Missed <=> pub'[s] = 0)
      <4>1. s \in Seqs /\ first <= s /\ s < seq + 1 /\ s \in Nat
        BY <1>0, <2>1, <3>1 DEF PassedSeqs
      <4>2. status'[s] = Marked(seq)[s]
        BY <1>0, <3>1, <3>2, <4>1, PrunedKeepsWindow
      <4>3. CASE s = seq
        BY <1>0, <2>1, <4>1, <4>2, <4>3 DEF Marked
      <4>4. CASE s # seq /\ s > latest
        <5>1. status'[s] = Missed
          BY <1>0, <2>1, <4>1, <4>2, <4>4 DEF Marked
        <5>2. s \notin PublishedSeqs
          BY <1>0, <1>2, <2>1, <4>1, <4>4 DEF LinkInv, Accounting, PassedSeqs
        <5>3. pub'[s] = 0
          BY <1>0, <2>1, <4>1, <4>4, <5>2 DEF PublishedSeqs
        <5> QED BY <5>1, <5>3
      <4>5. CASE s # seq /\ ~(s > latest)
        <5> HIDE DEF seq
        <5>1. s \in PassedSeqs /\ s > latest - StatusCap
          BY <1>0, <2>1, <2>2, <3>1, <3>2, <4>1, <4>5 DEF PassedSeqs
        <5>2. status'[s] = status[s] /\ pub'[s] = pub[s]
          BY <1>0, <2>1, <4>1, <4>2, <4>5 DEF Marked
        <5> QED BY <1>0, <2>1, <5>1, <5>2 DEF StatusInv, StatusTruthful
      <4> QED BY <4>3, <4>4, <4>5
    <3> QED BY <1>0, <2>1, <3>1, <3>2 DEF StatusInv, StatusTruthful
  <2>3. CASE ~(seq > latest)
    <3>0. UpdateStatusMap(seq)
      BY DEF AcceptDatagram
    <3>1. expected' = expected /\ seq < expected
      <4> HIDE DEF seq
      <4> QED BY <1>0, <2>1, <2>3
    <3>2. latest' = latest
          /\ status' = [status EXCEPT ![seq] = IF @ = Missed THEN ByUdp ELSE @]
      BY <2>3, <3>0 DEF UpdateStatusMap
    <3>3. pub[seq] = 0
      BY <1>0, <2>0 DEF ContinuesWith, PublishedSeqs
    <3>4. ASSUME NEW s \in PassedSeqs', s > latest' - StatusCap
          PROVE  status'[s] # Absent /\ (status'[s] = Missed <=> pub'[s] = 0)
      <4>1. s \in PassedSeqs /\ s \in Seqs /\ s > latest - StatusCap
        BY <2>1, <3>1, <3>4, <3>2 DEF PassedSeqs
      <4>2. status[s] # Absent /\ (status[s] = Missed <=> pub[s] = 0)
        BY <1>0, <2>1, <4>1 DEF StatusInv, StatusTruthful
      <4> QED BY <1>0, <2>1, <3>1, <3>3, <3>2, <4>1, <4>2
    <3> QED BY <1>0, <2>1, <3>1, <3>4, <3>2 DEF StatusInv, StatusTruthful
  <2> QED BY <2>2, <2>3
<1> QED BY <1>1, <1>2

LEMMA AnswerStatus ==
  ASSUME TypeInv, LinkInv, StatusInv, ReporterReceive
  PROVE  StatusInv'
<1>1. /\ status \in [Seqs -> -1 .. 2] /\ pub \in [Seqs -> Nat]
      /\ RecoveredSeqs \subseteq missing
  BY DEF TypeInv, TypeOK, RecoveredSeqs, Recovered
<1>2. UNCHANGED <<expected, latest, first>> /\ PassedSeqs' = PassedSeqs
  BY DEF ReporterReceive, PassedSeqs
<1>3. ASSUME NEW s \in PassedSeqs, latest # None, s > latest - StatusCap
      PROVE  status'[s] # Absent /\ (status'[s] = Missed <=> pub'[s] = 0)
  <2>1. s \in Seqs /\ status[s] # Absent /\ (status[s] = Missed <=> pub[s] = 0)
    BY <1>3 DEF StatusInv, StatusTruthful, PassedSeqs
  <2>2. CASE s \in RecoveredSeqs
    BY <1>1, <2>1, <2>2 DEF ReporterReceive
  <2>3. CASE s \notin RecoveredSeqs
    BY <1>1, <2>1, <2>3 DEF ReporterReceive
  <2> QED BY <2>2, <2>3
<1> QED BY <1>2, <1>3 DEF StatusInv, StatusTruthful

LEMMA StatusStep ==
  TypeInv /\ LinkInv /\ StatusInv /\ NumberingHolds /\ [Next]_vars => StatusInv'
<1> SUFFICES ASSUME TypeInv, LinkInv, StatusInv, NumberingHolds, [Next]_vars PROVE StatusInv'
  OBVIOUS
<1>1. CASE UNCHANGED vars
  BY <1>1, StatusUnchanged DEF vars, baseVars, gapVars, mapVars, histVars
<1>2. CASE Car \/ LoseDatagram
  BY <1>2, StatusUnchanged DEF Car, CarSend, CarResend, CarRejectRequest, CarCrash, CarPowerLoss,
     CarRestart, LoseDatagram, baseVars, gapVars, mapVars, histVars
<1>3. ASSUME NEW d \in net, Receive(d) PROVE StatusInv'
  BY <1>3, AcceptStatus, StatusUnchanged, StatusForgotten DEF Receive, IgnoreDuplicate,
     ReceiverDies, baseVars, gapVars, mapVars, histVars
<1>4. CASE Reporter
  BY <1>4, AnswerStatus, StatusUnchanged DEF Reporter, ReporterWake, ReporterConnect,
     ReporterFails, gapVars, mapVars, histVars
<1>5. CASE StatsPublish \/ BaseStop \/ BaseRestart
  BY <1>5, StatusUnchanged, StatusForgotten DEF StatsPublish, BaseStop, BaseRestart, gapVars,
     mapVars, histVars
<1> QED BY <1>1, <1>2, <1>3, <1>4, <1>5 DEF Next, Base

\* As long as no batch is taken for a restart of the car, and whatever
\* restarts, copies, losses and answers there are meanwhile, the status map
\* shows a number in its window as missing exactly while it is unpublished.
THEOREM StatusMapIsTrue == Spec /\ []NumberingHolds => []StatusTruthful
<1>1. StatusInv => StatusTruthful
  BY DEF StatusInv
<1> QED BY <1>1, TypeInit, TypeStep, LinkInit, LinkStep, StatusInit, StatusStep, PTL DEF Spec

----------------------------------------------------------------------------
(* What the status page has added up *)

BaseLives == base = "up"

Counted == shown.received + stats.received + shown.missing + stats.missing

\* The page keeps its totals when the base restarts, so they speak of one
\* base process only.
StatsInv ==
  /\ expected = None => Counted = 0
  /\ StatsAccountForPassed

LEMMA StatsInit == Init => StatsInv
BY DEF Init, StatsInv, StatsAccountForPassed, Counted, NoStats

LEMMA StatsUnchanged ==
  ASSUME StatsInv, UNCHANGED <<expected, first, stats, shown>>
  PROVE  StatsInv'
BY DEF StatsInv, StatsAccountForPassed, Counted

LEMMA AcceptStats ==
  ASSUME TypeInv, LinkInv, StatsInv, NumberingHolds, NEW d \in net, AcceptDatagram(d)
  PROVE  StatsInv'
<1> DEFINE seq == d.seq
           gap == seq - ExpectedFor(seq)
<1>0. /\ seq \in Seqs /\ seq \in Nat /\ ~IsReset(seq)
      /\ stats \in [received : Nat, missing : Nat, recovered : Nat]
      /\ shown \in [received : Nat, missing : Nat, recovered : Nat] /\ shown' = shown
  BY DEF TypeInv, TypeOK, Batch, Seqs, NumberingHolds, AcceptDatagram, reportVars
<1>1. ~IsLate(seq) => gap \in Nat
  BY <1>0, AcceptedNumbers DEF TypeInv, AcceptDatagram
<1>2. IsLate(seq) => stats'.received = stats.received /\ stats'.missing = stats.missing
  BY <1>0 DEF AcceptDatagram, CountUdp
<1>3. ~IsLate(seq) => stats'.received = stats.received + 1
                      /\ stats'.missing = stats.missing + gap
  <2> SUFFICES ASSUME ~IsLate(seq)
               PROVE  stats'.received = stats.received + 1 /\ stats'.missing = stats.missing + gap
    OBVIOUS
  <2>1. stats' = [stats EXCEPT !.received = @ + 1, !.missing = @ + gap]
    BY DEF AcceptDatagram, CountUdp
  <2> HIDE DEF gap
  <2> QED BY <1>0, <2>1
<1>4. CASE expected = None
  <2>1. BeginsWith(seq) /\ ~IsLate(seq) /\ gap = 0
    BY <1>0, <1>4, FirstEffect DEF IsLate, ExpectedFor, Adopted, IsReset
  <2> QED BY <1>0, <1>3, <1>4, <2>1 DEF BeginsWith, StatsInv, StatsAccountForPassed, Counted
<1>5. CASE expected # None
  <2>1. ContinuesWith(seq) /\ ExpectedFor(seq) = expected /\ first \in Nat
        /\ (IsLate(seq) <=> seq < expected)
    BY <1>0, <1>5, NextEffect DEF IsLate, IsDuplicate, AcceptDatagram, ExpectedFor, Adopted,
       LinkInv, Seqs
  <2>2. Counted = expected - first
    BY <1>5 DEF StatsInv, StatsAccountForPassed, Counted
  <2> HIDE DEF gap
  <2>3. /\ expected' = (IF expected > seq THEN expected ELSE seq + 1) /\ first' = first
        /\ expected \in Nat /\ expected' # None
    BY <1>0, <2>1 DEF ContinuesWith
  <2>4. ~IsLate(seq) => gap = seq - expected
    BY <2>1 DEF gap
  <2> QED BY <1>0, <1>1, <1>2, <1>3, <2>1, <2>2, <2>3, <2>4
          DEF StatsInv, StatsAccountForPassed, Counted
<1> QED BY <1>4, <1>5

LEMMA ReportStats ==
  ASSUME TypeInv, StatsInv, StatsPublish
  PROVE  StatsInv'
<1>1. /\ stats \in [received : Nat, missing : Nat, recovered : Nat]
      /\ shown \in [received : Nat, missing : Nat, recovered : Nat]
  BY DEF TypeInv, TypeOK
<1>2. /\ shown'.received = shown.received + stats.received
      /\ shown'.missing = shown.missing + stats.missing
      /\ stats'.received = 0 /\ stats'.missing = 0
  BY <1>1 DEF StatsPublish, NoStats
<1> QED BY <1>1, <1>2 DEF StatsPublish, gapVars, histVars, StatsInv, StatsAccountForPassed, Counted

LEMMA StatsStep ==
  TypeInv /\ LinkInv /\ StatsInv /\ NumberingHolds /\ BaseLives' /\ [Next]_vars => StatsInv'
<1> SUFFICES ASSUME TypeInv, LinkInv, StatsInv, NumberingHolds, BaseLives', [Next]_vars
             PROVE  StatsInv'
  OBVIOUS
<1>1. CASE UNCHANGED vars
  BY <1>1, StatsUnchanged DEF vars, baseVars, gapVars, statVars, histVars
<1>2. CASE Car \/ LoseDatagram
  BY <1>2, StatsUnchanged DEF Car, CarSend, CarResend, CarRejectRequest, CarCrash, CarPowerLoss,
     CarRestart, LoseDatagram, baseVars, gapVars, statVars, histVars
<1>3. ASSUME NEW d \in net, Receive(d) PROVE StatsInv'
  BY <1>3, AcceptStats, StatsUnchanged DEF Receive, IgnoreDuplicate, ReceiverDies,
     BaseLives, baseVars, gapVars, statVars, histVars
<1>4. CASE ReporterReceive
  <2>1. stats'.received = stats.received /\ stats'.missing = stats.missing
    BY <1>4 DEF ReporterReceive, TypeInv, TypeOK
  <2> QED BY <1>4, <2>1 DEF ReporterReceive, reportVars, StatsInv, StatsAccountForPassed, Counted
<1>5. CASE ReporterWake \/ ReporterConnect \/ ReporterFails
  BY <1>5, StatsUnchanged DEF ReporterWake, ReporterConnect, ReporterFails, gapVars, statVars,
     histVars
<1>6. CASE StatsPublish
  BY <1>6, ReportStats
<1>7. CASE BaseStop \/ BaseRestart
  BY <1>7, StatsUnchanged DEF BaseStop, BaseRestart, BaseLives, gapVars, statVars, histVars
<1> QED BY <1>1, <1>2, <1>3, <1>4, <1>5, <1>6, <1>7 DEF Next, Base, Reporter

\* As long as no batch is taken for a restart of the car and the base process
\* lives, what the status page has added up and what is still to be sent to it
\* account for every number passed, once: a late batch and an answer count as
\* recovered only.
THEOREM TotalsAddUp == Spec /\ []NumberingHolds /\ []BaseLives => []StatsAccountForPassed
<1>1. StatsInv => StatsAccountForPassed
  BY DEF StatsInv
<1> QED BY <1>1, TypeInit, TypeStep, LinkInit, LinkStep, StatsInit, StatsStep, PTL DEF Spec

----------------------------------------------------------------------------
(* When a numbering cannot restart *)

\* A car that never numbers past the reset gap is never taken for a new one.
LEMMA FewNumbers == TypeInv /\ MaxSeq <= ResetGap => NumberingHolds
<1> SUFFICES ASSUME TypeInv, MaxSeq <= ResetGap, NEW d \in net PROVE ~IsReset(d.seq)
  BY DEF NumberingHolds
<1>1. d.seq \in 1 .. MaxSeq /\ MaxSeq \in Nat /\ ResetGap \in Nat
      /\ expected \in {None} \cup 1 .. MaxSeq + 1
  BY LinkAssumption DEF LinkAssumption, TypeInv, TypeOK, Batch, Seqs
<1> QED BY <1>1 DEF IsReset, Adopted

\* So for the first ResetGap batches of each car process the status map needs
\* no assumption about what the network delays.
THEOREM StatusMapIsTrueEarly == MaxSeq <= ResetGap => (Spec => []StatusTruthful)
<1> SUFFICES ASSUME MaxSeq <= ResetGap PROVE Spec => []StatusTruthful
  OBVIOUS
<1>1. TypeInv => NumberingHolds
  BY FewNumbers
<1>2. StatusInv => StatusTruthful
  BY DEF StatusInv
<1> QED BY <1>1, <1>2, TypeInit, TypeStep, LinkInit, LinkStep, StatusInit, StatusStep, PTL DEF Spec
============================================================================
