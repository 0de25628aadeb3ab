--------------------------- MODULE TelemetryLink ---------------------------
(***************************************************************************)
(* The radio link of the Universal Telemetry Software                      *)
(* (universal-telemetry-software/src/data.py): the car numbers batches of  *)
(* CAN frames, sends each once over UDP and keeps it for a minute in a     *)
(* ring buffer; the base station detects gaps in the numbers and every ten *)
(* seconds asks the car over TCP for what it misses.                       *)
(*                                                                         *)
(* Each action runs from one await of an asyncio task to the next, which   *)
(* is what the event loop executes without interruption.  A batch is its   *)
(* session (the car process that built it) and its sequence number; the    *)
(* CAN frames inside, wall-clock time and the per-second colour strip of   *)
(* the status page are left out.                                           *)
(***************************************************************************)
EXTENDS Integers, FiniteSets

CONSTANTS
  MaxSeq,        \* bound: batches a car process sends
  MaxSessions,   \* bound: car processes, one more than its restarts
  MaxDups,       \* bound: datagrams the network delivers twice
  MaxBaseStarts, \* bound: base processes, one more than its restarts
  MaxReports,    \* bound: seconds at whose end something was counted
  ResetGap,      \* 1000: how far below expected_seq means "car restarted"
  MissingCap,    \* 1000: most entries missing_seqs keeps
  RequestMax,    \* 100: most sequence numbers in one resend request
  StatusCap      \* 3000: most entries status_map keeps

ASSUME LinkAssumption ==
  /\ MaxSeq \in Nat /\ MaxDups \in Nat /\ MaxReports \in Nat /\ ResetGap \in Nat
  /\ MaxSessions \in Nat \ {0} /\ MaxBaseStarts \in Nat \ {0}
  /\ MissingCap \in Nat \ {0} /\ RequestMax \in Nat \ {0} /\ StatusCap \in Nat \ {0}

None == -1                       \* expected_seq is None, latest_seq is -1
Seqs == 1 .. MaxSeq
Batch == [sess : 1 .. MaxSessions, seq : Seqs]

\* status_map: a number it does not hold, a gap, arrived by UDP, by TCP.
Absent == -1
Missed == 0
ByUdp == 1
ByTcp == 2

VARIABLES
  carUp, session, seqNum, buffer,             \* the car process
  net, dups,                                  \* UDP datagrams in flight
  conn, request, response,                    \* the resend connection
  base, starts,                               \* "up", "down" or "crashed"
  expected, missing,                          \* gap detection
  latest, status, lateBound,                  \* status_map and recovered_sec
  stats, reports, shown,                      \* stats, and the page's totals
  reporter,                                   \* missing_reporter's position
  first, pub, evicted                         \* history of this numbering

carVars == <<carUp, session, seqNum, buffer>>
netVars == <<net, dups>>
tcpVars == <<conn, request, response>>
gapVars == <<expected, missing>>
mapVars == <<latest, status, lateBound>>
statVars == <<stats, reports, shown>>
reportVars == <<reports, shown>>
histVars == <<first, pub, evicted>>
procVars == <<base, starts>>
baseVars == <<procVars, gapVars, mapVars, statVars, reporter, histVars>>
vars == <<carVars, netVars, tcpVars, baseVars>>

NoStats == [received |-> 0, missing |-> 0, recovered |-> 0]

TypeOK ==
  /\ carUp \in BOOLEAN /\ session \in 1 .. MaxSessions
  /\ seqNum \in 0 .. MaxSeq /\ buffer \in SUBSET Batch
  /\ net \in SUBSET Batch /\ dups \in 0 .. MaxDups
  /\ conn \in {"none", "request", "response", "eof", "halfopen"}
  /\ request \in SUBSET Seqs /\ response \in SUBSET Batch
  /\ base \in {"up", "down", "crashed"} /\ starts \in 1 .. MaxBaseStarts
  /\ expected \in {None} \cup 1 .. MaxSeq + 1 /\ missing \in SUBSET Seqs
  /\ latest \in {None} \cup Seqs /\ status \in [Seqs -> -1 .. 2] /\ lateBound \in BOOLEAN
  /\ stats \in [received : Nat, missing : Nat, recovered : Nat]
  /\ reports \in 0 .. MaxReports
  /\ shown \in [received : Nat, missing : Nat, recovered : Nat]
  /\ reporter \in {"sleeping", "connecting", "reading"}
  /\ first \in {None} \cup Seqs /\ pub \in [Seqs -> Nat] /\ evicted \in SUBSET Seqs

----------------------------------------------------------------------------
\* The n greatest and the n least elements of a set of numbers.
Newest(S, n) == {s \in S : Cardinality({t \in S : t > s}) < n}
Oldest(S, n) == {s \in S : Cardinality({t \in S : t < s}) < n}

\* What the base process starts with, and what is left of it when it stops.
FreshBase ==
  /\ expected' = None /\ missing' = {}
  /\ latest' = None /\ status' = [s \in Seqs |-> Absent] /\ lateBound' = FALSE
  /\ stats' = NoStats /\ reporter' = "sleeping"
  /\ first' = None /\ pub' = [s \in Seqs |-> 0] /\ evicted' = {}
CloseConn == conn' = "none" /\ request' = {} /\ response' = {}

Init ==
  /\ carUp = TRUE /\ session = 1 /\ seqNum = 0 /\ buffer = {}
  /\ net = {} /\ dups = 0
  /\ conn = "none" /\ request = {} /\ response = {}
  /\ base = "up" /\ starts = 1
  /\ expected = None /\ missing = {}
  /\ latest = None /\ status = [s \in Seqs |-> Absent] /\ lateBound = FALSE
  /\ stats = NoStats /\ reports = 0 /\ shown = NoStats /\ reporter = "sleeping"
  /\ first = None /\ pub = [s \in Seqs |-> 0] /\ evicted = {}

----------------------------------------------------------------------------
\* The car

\* udp_sender flushes a batch.  sendto may fail, which is a loss.  The ring
\* buffer then drops from its left end what is over a minute old: how much
\* that is depends on time, so any prefix that spares the new batch may go.
CarSend ==
  /\ carUp /\ seqNum < MaxSeq
  /\ LET b == [sess |-> session, seq |-> seqNum + 1] IN
       /\ seqNum' = b.seq
       /\ net' \in {net, net \cup {b}}
       /\ \E oldest \in 1 .. b.seq :
            buffer' = {c \in buffer \cup {b} : c.seq >= oldest}
  /\ UNCHANGED <<carUp, session, dups, tcpVars, baseVars>>

\* handle_resend looks the requested numbers up in the ring buffer, answers
\* with the batches it holds and closes.
CarResend ==
  /\ carUp /\ conn = "request"
  /\ conn' = "response" /\ request' = {}
  /\ response' = {b \in buffer : b.seq \in request}
  /\ UNCHANGED <<carVars, netVars, baseVars>>

\* handle_resend reads once; a request split by TCP does not parse, and the
\* error path closes the connection without an answer.
CarRejectRequest ==
  /\ carUp /\ conn = "request"
  /\ conn' = "eof" /\ request' = {}
  /\ UNCHANGED <<response, carVars, netVars, baseVars>>

\* Everything the car process holds is in memory.
LoseCarState == carUp' = FALSE /\ seqNum' = 0 /\ buffer' = {} /\ UNCHANGED session

\* The process dies and its kernel closes the connection: an answer already
\* written still arrives, an unanswered request ends in end-of-file.
CarCrash ==
  /\ carUp /\ session < MaxSessions
  /\ LoseCarState
  /\ conn' = (IF conn = "request" THEN "eof" ELSE conn) /\ request' = {}
  /\ UNCHANGED <<response, netVars, baseVars>>

\* The car loses power: nobody closes the connection.  What had reached the
\* base may still be read; otherwise the base's end stays open and silent.
CarPowerLoss ==
  /\ carUp /\ session < MaxSessions
  /\ LoseCarState
  /\ \/ /\ conn \in {"request", "response", "eof"}
        /\ conn' = "halfopen" /\ request' = {} /\ response' = {}
     \/ /\ conn # "request"
        /\ UNCHANGED tcpVars
  /\ UNCHANGED <<netVars, baseVars>>

\* A new car process numbers its batches from 1 again.
CarRestart ==
  /\ ~carUp
  /\ carUp' = TRUE /\ session' = session + 1
  /\ UNCHANGED <<seqNum, buffer, netVars, tcpVars, baseVars>>

\* The network drops a datagram.
LoseDatagram ==
  /\ \E d \in net : net' = net \ {d}
  /\ UNCHANGED <<dups, carVars, tcpVars, baseVars>>

----------------------------------------------------------------------------
\* The base: udp_receiver

\* A datagram leaves the network, or a second copy of it stays.
Take(d) ==
  /\ d \in net
  /\ \/ net' = net \ {d} /\ UNCHANGED dups
     \/ dups < MaxDups /\ dups' = dups + 1 /\ UNCHANGED net

\* expected_seq and missing_seqs once a first number has been adopted and a
\* restart of the car has been recognised by a number far too small.
Adopted(seq) == IF expected = None THEN seq ELSE expected
IsReset(seq) == seq < Adopted(seq) - ResetGap
ExpectedFor(seq) == IF IsReset(seq) THEN seq ELSE Adopted(seq)
\* Mutant: the reset forgets missing_seqs.clear().
MissingForUncleared(seq) == missing
MissingFor(seq) == IF IsReset(seq) THEN {} ELSE missing

IsLate(seq) == seq < ExpectedFor(seq) /\ seq \in MissingFor(seq)
IsDuplicate(seq) == seq < ExpectedFor(seq) /\ seq \notin MissingFor(seq)

\* "recovered_sec" is bound by the first late arrival only, yet it is read
\* whenever a number already in status_map turns from missing to received.
ReadsUnbound(seq) ==
  seq <= latest /\ status[seq] = Missed /\ ~IsLate(seq) /\ ~lateBound

\* missing_seqs after the gap before seq: beyond the cap the oldest go.
Gap(seq) == ExpectedFor(seq) .. seq - 1
\* Mutant: the cap evicts the newest number.
MissingAfterNewestEvicted(seq) ==
  Oldest(MissingFor(seq) \cup Gap(seq), MissingCap) \ {seq}
MissingAfter(seq) == Newest(MissingFor(seq) \cup Gap(seq), MissingCap) \ {seq}

\* expected_seq never goes back.  Mutants: it follows a late arrival; it skips
\* one.
NextExpectedUnguarded(seq) == seq + 1
NextExpectedSkipping(seq) == IF ExpectedFor(seq) > seq THEN ExpectedFor(seq) ELSE seq + 2
NextExpected(seq) == IF ExpectedFor(seq) > seq THEN ExpectedFor(seq) ELSE seq + 1

\* status_map after seq arrived, pruned to the last StatusCap numbers.
\* Mutant: the range of the gap starts at latest_seq itself.
MarkedFromLatest(seq) ==
  [s \in Seqs |-> IF s = seq THEN ByUdp
                  ELSE IF latest # None /\ s >= latest /\ s < seq THEN Missed
                  ELSE status[s]]
Marked(seq) ==
  [s \in Seqs |-> IF s = seq THEN ByUdp
                  ELSE IF latest # None /\ s > latest /\ s < seq THEN Missed
                  ELSE status[s]]
Pruned(map, seq) ==
  IF Cardinality({s \in Seqs : map[s] # Absent}) > StatusCap
  THEN [s \in Seqs |-> IF s > seq - StatusCap THEN map[s] ELSE Absent]
  ELSE map
UpdateStatusMap(seq) ==
  IF seq > latest
  THEN latest' = seq /\ status' = Pruned(Marked(seq), seq)
  ELSE /\ UNCHANGED latest
       /\ status' = [status EXCEPT ![seq] = IF @ = Missed THEN ByUdp ELSE @]

\* Mutant: a late arrival counts as received too.
CountUdpTwice(seq) ==
  stats' = IF IsLate(seq) THEN [stats EXCEPT !.recovered = @ + 1, !.received = @ + 1]
           ELSE [stats EXCEPT !.received = @ + 1,
                              !.missing = @ + (seq - ExpectedFor(seq))]
CountUdp(seq) ==
  stats' = IF IsLate(seq) THEN [stats EXCEPT !.recovered = @ + 1]
           ELSE [stats EXCEPT !.received = @ + 1,
                              !.missing = @ + (seq - ExpectedFor(seq))]

\* History: what this numbering (since the base adopted a number or reset)
\* has published to Redis and to the CSV log, and given up at the cap.
Record(seq) ==
  LET fresh == expected = None \/ IsReset(seq)
      before == IF fresh THEN [s \in Seqs |-> 0] ELSE pub
  IN  /\ first' = IF fresh THEN seq ELSE first
      /\ pub' = [before EXCEPT ![seq] = @ + 1]
      /\ evicted' = (IF fresh THEN {} ELSE evicted)
                      \cup (((MissingFor(seq) \cup Gap(seq)) \ {seq}) \ MissingAfter(seq))

AcceptDatagram(d) ==
  /\ base = "up" /\ Take(d)
  /\ ~IsDuplicate(d.seq) /\ ~ReadsUnbound(d.seq)
  /\ expected' = NextExpected(d.seq)
  /\ missing' = MissingAfter(d.seq)
  /\ lateBound' = (lateBound \/ IsLate(d.seq))
  /\ UpdateStatusMap(d.seq) /\ CountUdp(d.seq) /\ Record(d.seq)
  /\ UNCHANGED <<carVars, tcpVars, procVars, reportVars, reporter>>

IgnoreDuplicate(d) ==
  /\ base = "up" /\ Take(d)
  /\ IsDuplicate(d.seq)
  /\ UNCHANGED <<carVars, tcpVars, baseVars>>

\* The exception leaves udp_receiver, ends the process's gather and with it
\* the process; main.py then stops the whole stack.
ReceiverDies(d) ==
  /\ base = "up" /\ Take(d)
  /\ ~IsDuplicate(d.seq) /\ ReadsUnbound(d.seq)
  /\ base' = "crashed" /\ FreshBase /\ CloseConn
  /\ UNCHANGED <<starts, reportVars, carVars>>

----------------------------------------------------------------------------
\* The base: missing_reporter, stats_publisher, the process itself

ReporterWake ==
  /\ base = "up" /\ reporter = "sleeping" /\ missing # {}
  /\ reporter' = "connecting"
  /\ UNCHANGED <<procVars, gapVars, mapVars, statVars, histVars, carVars, netVars, tcpVars>>

\* The request is built after the connection is up, from missing_seqs then.
\* Mutant: the slice starts at the second.
RequestedAfterFirst ==
  {s \in Oldest(missing, RequestMax + 1) : \E t \in missing : t < s}
Requested == Oldest(missing, RequestMax)
ReporterConnect ==
  /\ base = "up" /\ reporter = "connecting" /\ carUp
  /\ reporter' = "reading"
  /\ conn' = "request" /\ request' = Requested /\ response' = {}
  /\ UNCHANGED <<procVars, gapVars, mapVars, statVars, histVars, carVars, netVars>>

\* Refused or timed out connection, reset connection, an answer cut short, or
\* an empty one: the round ends without effect.
ReporterFails ==
  /\ base = "up"
  /\ \/ reporter = "connecting"
     \/ reporter = "reading" /\ conn \in {"request", "response", "eof"}
  /\ reporter' = "sleeping" /\ CloseConn
  /\ UNCHANGED <<procVars, gapVars, mapVars, statVars, histVars, carVars, netVars>>

\* The whole answer has been read: every batch of it counts as recovered, and
\* those still missing are published and marked.
\* Mutant: the answer is not compared with missing_seqs.
RecoveredUnchecked == response
Recovered == {b \in response : b.seq \in missing}
RecoveredSeqs == {b.seq : b \in Recovered}
StillMissing == missing \ RecoveredSeqs
ReporterReceive ==
  /\ base = "up" /\ reporter = "reading" /\ conn = "response"
  /\ stats' = [stats EXCEPT !.recovered = @ + Cardinality(response)]
  /\ missing' = StillMissing
  /\ status' = [s \in Seqs |-> IF s \in RecoveredSeqs /\ status[s] # Absent
                               THEN ByTcp ELSE status[s]]
  /\ pub' = [s \in Seqs |-> pub[s] + (IF s \in RecoveredSeqs THEN 1 ELSE 0)]
  /\ reporter' = "sleeping" /\ CloseConn
  /\ UNCHANGED <<procVars, expected, latest, lateBound, reportVars, first, evicted,
                 carVars, netVars>>

\* Each second the counts go to the status page, which adds them up, and
\* start again from zero.
StatsPublish ==
  /\ base = "up" /\ reports < MaxReports /\ stats # NoStats
  /\ reports' = reports + 1
  /\ shown' = [f \in DOMAIN shown |-> shown[f] + stats[f]]
  /\ stats' = NoStats
  /\ UNCHANGED <<procVars, gapVars, mapVars, reporter, histVars, carVars, netVars, tcpVars>>

BaseStop ==
  /\ base = "up" /\ starts < MaxBaseStarts
  /\ base' = "down" /\ FreshBase /\ CloseConn
  /\ UNCHANGED <<starts, reportVars, carVars, netVars>>

BaseRestart ==
  /\ base # "up" /\ starts < MaxBaseStarts
  /\ base' = "up" /\ starts' = starts + 1
  /\ UNCHANGED <<gapVars, mapVars, statVars, reporter, histVars, carVars, netVars, tcpVars>>

----------------------------------------------------------------------------
Car == CarSend \/ CarResend \/ CarRejectRequest \/ CarCrash \/ CarPowerLoss \/ CarRestart
Receive(d) == AcceptDatagram(d) \/ IgnoreDuplicate(d) \/ ReceiverDies(d)
Reporter == ReporterWake \/ ReporterConnect \/ ReporterFails \/ ReporterReceive
Base == (\E d \in net : Receive(d)) \/ Reporter \/ StatsPublish \/ BaseStop \/ BaseRestart

Next == Car \/ LoseDatagram \/ Base

Spec == Init /\ [][Next]_vars

\* The tasks of a running process get their turn, a car without power comes
\* back, and a network that keeps being tried lets an exchange through.  The
\* three strong conditions say the last: the code bounds none of its retries.
Fairness ==
  /\ WF_vars(CarRestart) /\ WF_vars(ReporterWake) /\ WF_vars(ReporterFails)
  /\ SF_vars(ReporterConnect) /\ SF_vars(CarResend) /\ SF_vars(ReporterReceive)
FairSpec == Spec /\ Fairness

----------------------------------------------------------------------------
(* Safety *)

\* udp_receiver's duplicate test and missing_reporter's membership test keep
\* the two tasks from both publishing a batch, whatever a late datagram, its
\* copy and an answer under way do.
AtMostOnce == \A s \in Seqs : pub[s] <= 1

\* Of the numbers passed since this numbering began each is published, still
\* asked for, or given up at the cap, and only one of the three: what a gap,
\* a late arrival, an answer and the cap do to missing_seqs adds up.
PassedSeqs == {s \in Seqs : first <= s /\ s < expected}
PublishedSeqs == {s \in Seqs : pub[s] > 0}
Accounting ==
  /\ expected # None => PassedSeqs = PublishedSeqs \cup missing \cup evicted
  /\ PublishedSeqs \cap missing = {} /\ PublishedSeqs \cap evicted = {}
  /\ missing \cap evicted = {}

\* missing_seqs keeps to its cap, and what it gave up is older than anything
\* it still holds: a resend request never skips a number worth asking for.
CapDropsOldest ==
  /\ Cardinality(missing) <= MissingCap
  /\ \A s \in evicted, t \in missing : s < t

\* While the numbering never restarts the status page's map is true: a number
\* in its window shows as missing exactly while it is unpublished.
StatusTruthful ==
  latest # None =>
    \A s \in PassedSeqs :
      s > latest - StatusCap => /\ status[s] # Absent
                                /\ status[s] = Missed <=> pub[s] = 0

\* While the numbering never restarts the totals of the status page and the
\* counts not yet sent to it account for every number passed, each once.
StatsAccountForPassed ==
  expected # None =>
    shown.received + stats.received + shown.missing + stats.missing = expected - first

\* The protocol implements SeqLedger: no interleaving of datagrams, copies,
\* answers and restarts publishes a number twice, revives one given up, or
\* lets one disappear.  A number published twice is no ledger entry at all.
Entry(s) ==
  IF pub[s] = 1 THEN "published"
  ELSE IF s \in missing THEN "gap"
  ELSE IF s \in evicted THEN "lost"
  ELSE IF pub[s] = 0 THEN "unseen" ELSE "published twice"
Entries == [s \in Seqs |-> Entry(s)]
Ledger == INSTANCE SeqLedger WITH
  ledger <- Entries,
  next <- expected
ImplementsLedger == Ledger!LedgerSpec

----------------------------------------------------------------------------
(* Liveness *)

\* The oldest missing number is asked for in every round, so while the car
\* still buffers it the base recovers it (or the process stops).
OldestMissing(s) == s \in missing /\ \A t \in missing : s <= t
Buffered(s) == \E b \in buffer : b.seq = s
OldestIsRecovered ==
  \A s \in Seqs : OldestMissing(s) /\ Buffered(s) ~> s \notin missing \/ ~Buffered(s)

----------------------------------------------------------------------------
(* What the documentation says and the code does not do *)

\* README.md: the status map serves "purely" the visualisation, and a number
\* far below expected_seq resets the numbering: neither stops the receiver.
ReceiverSurvives == base # "crashed"
============================================================================
