-------------------------- MODULE PecanFeedProofs --------------------------
(***************************************************************************)
(* For any settings, any losses and any number of sessions, what feeds     *)
(* Pecan's store, what Pecan sends and with what it decodes: the WebSocket *)
(* service has one socket at a time and never stops without having given   *)
(* up by its rules, the serial port's frames come whole and do not mix with *)
(* the WebSocket's, the transmit page tells the truth about its frames, and *)
(* the DBC in use is the one that was chosen.                              *)
(***************************************************************************)
EXTENDS PecanFeed, TxPage, DbcFiles, FiniteSetTheorems, SequenceTheorems, NaturalsInduction,
        WellFoundedInduction, TLAPS

----------------------------------------------------------------------------
(* The WebSocket service. Of its sockets only the states matter. *)

IsSock(s) == DOMAIN s = {"st", "url", "rest", "bound", "clean"}
AreSocks(seq, S) == seq \in Seq(S) /\ \A s \in S : IsSock(s)
SocketInv ==
  /\ \E S : AreSocks(socks, S)
  /\ current \in DOMAIN socks \cup {NoSocket} /\ retries \in Nat
  /\ NeverAbandoned

LEMMA Changed ==
  ASSUME NEW S, NEW s, AreSocks(s, S), NEW i \in DOMAIN s, NEW x, IsSock(x)
  PROVE  /\ AreSocks([s EXCEPT ![i] = x], S \cup {x}) /\ DOMAIN [s EXCEPT ![i] = x] = DOMAIN s
         /\ [s EXCEPT ![i] = x][i] = x
         /\ \A j \in DOMAIN s : j # i => [s EXCEPT ![i] = x][j] = s[j]
BY DEF AreSocks

LEMMA Appended ==
  ASSUME NEW S, NEW s, AreSocks(s, S), NEW x, IsSock(x)
  PROVE  /\ AreSocks(Append(s, x), S \cup {x}) /\ Len(s) \in Nat
         /\ DOMAIN s = 1 .. Len(s) /\ DOMAIN Append(s, x) = 1 .. Len(s) + 1
         /\ Append(s, x)[Len(s) + 1] = x
BY DEF AreSocks

\* A socket that is closed or asked to close is still a socket.
LEMMA ClosedSocks ==
  ASSUME SocketInv PROVE \E S : AreSocks(Closed, S) /\ DOMAIN Closed = DOMAIN socks
<1>1. PICK S : AreSocks(socks, S)
  BY DEF SocketInv
<1>2. CASE Closed = socks
  BY <1>1, <1>2
<1>3. CASE Closed # socks
  <2> DEFINE x == [socks[current] EXCEPT !.st = "closing", !.clean = (socks[current].st = "open")]
  <2>1. Closed = [socks EXCEPT ![current] = x] /\ current \in DOMAIN socks
    BY <1>3 DEF Closed, SocketInv
  <2>2. socks[current] \in S
    BY <1>1, <2>1 DEF AreSocks
  <2>3. IsSock(x)
    BY <1>1, <2>2 DEF AreSocks, IsSock
  <2> HIDE DEF x
  <2>4. AreSocks([socks EXCEPT ![current] = x], S \cup {x}) /\ DOMAIN [socks EXCEPT ![current] = x] = DOMAIN socks
    BY <1>1, <2>1, <2>3, Changed
  <2> QED BY <2>1, <2>4
<1> QED BY <1>2, <1>3

\* connect() leaves a socket that connects, or a URL the browser refuses.
LEMMA ConnectKeeps ==
  ASSUME retries' \in Nat, NEW stored, NEW socks0, NEW current0, NEW S, AreSocks(socks0, S),
         current0 \in DOMAIN socks0 \cup {NoSocket}, Connect(stored, socks0, current0)
  PROVE  SocketInv'
<1>0. CASE socks' = socks0 /\ urlRefused' = TRUE /\ current' = current0
  BY <1>0 DEF SocketInv, NeverAbandoned
<1> SUFFICES ASSUME ~(socks' = socks0 /\ urlRefused' = TRUE /\ current' = current0) PROVE SocketInv'
  BY <1>0
<1>1. PICK u, r, b : /\ socks' = Append(socks0, Sock(u, r, b))
                     /\ current' = Len(socks0) + 1 \/ current' = current0
  BY DEF Connect, Opens
<1> DEFINE x == Sock(u, r, b)
<1>2. IsSock(x) /\ x.st = "connecting"
  BY DEF Sock, IsSock
<1> HIDE DEF x
<1>3. /\ AreSocks(socks', S \cup {x}) /\ Len(socks0) \in Nat
      /\ DOMAIN socks0 = 1 .. Len(socks0) /\ DOMAIN socks' = 1 .. Len(socks0) + 1
      /\ socks'[Len(socks0) + 1] = x
  BY <1>1, <1>2, Appended DEF x
<1>4. Len(socks0) + 1 \in Alive'
  BY <1>2, <1>3 DEF Alive, With
<1>5. NeverAbandoned'
  BY <1>4 DEF NeverAbandoned
<1>6. \E T : AreSocks(socks', T)
  BY <1>3
<1>7. current' \in DOMAIN socks' \cup {NoSocket}
  <2>1. DOMAIN socks0 \subseteq DOMAIN socks' /\ Len(socks0) + 1 \in DOMAIN socks'
    BY <1>3
  <2>2. current' = Len(socks0) + 1 \/ current' = current0
    BY <1>1
  <2> QED BY <2>1, <2>2
<1> QED BY <1>5, <1>6, <1>7 DEF SocketInv

\* A socket's own events: one state changes.
LEMMA EventKeeps ==
  ASSUME SocketInv, NEW i \in DOMAIN socks, NEW x, IsSock(x), socks' = [socks EXCEPT ![i] = x],
         current' \in {current, i}, retries' \in Nat,
         \/ x.st \in {"connecting", "open"} /\ starting' = starting
         \/ retries' > 0 \/ gaveUp' = TRUE \/ urlRefused' = TRUE
         \/ i \notin Alive /\ UNCHANGED <<starting, retries, urlRefused>> /\ (gaveUp => gaveUp')
  PROVE  SocketInv'
<1>1. PICK S : AreSocks(socks, S)
  BY DEF SocketInv
<1>2. /\ AreSocks(socks', S \cup {x}) /\ DOMAIN socks' = DOMAIN socks /\ socks'[i] = x
      /\ \A j \in DOMAIN socks : j # i => socks'[j] = socks[j]
  BY <1>1, Changed
<1>3. NeverAbandoned'
  <2>1. CASE x.st \in {"connecting", "open"}
    BY <1>2, <2>1 DEF NeverAbandoned, Alive, With
  <2>2. CASE retries' > 0 \/ gaveUp' = TRUE \/ urlRefused' = TRUE
    BY <2>2 DEF NeverAbandoned
  <2>3. CASE i \notin Alive /\ UNCHANGED <<starting, retries, urlRefused>> /\ (gaveUp => gaveUp')
    <3>1. Alive \subseteq Alive'
      BY <1>2, <2>3 DEF Alive, With
    <3> QED BY <2>3, <3>1 DEF SocketInv, NeverAbandoned
  <2> QED BY <2>1, <2>2, <2>3
<1> QED BY <1>2, <1>3 DEF SocketInv

LEMMA SocketNextKeeps == ASSUME SocketInv, [SocketNext]_socketVars PROVE SocketInv'
<1>1. CASE Initialized
  <2>1. PICK S : AreSocks(Closed, S)
    BY ClosedSocks
  <2>2. CASE Connect(settings, Closed, NoSocket)
    BY <1>1, <2>1, <2>2, ConnectKeeps DEF Initialized, SocketInv
  <2>3. CASE gaveUp' = TRUE /\ current' = NoSocket /\ socks' = Closed
    BY <1>1, <2>1, <2>3 DEF Initialized, SocketInv, NeverAbandoned
  <2> QED BY <1>1, <2>2, <2>3 DEF Initialized
<1>2. CASE RetryFires
  <2>1. PICK S : AreSocks(socks, S)
    BY DEF SocketInv
  <2> QED BY <1>2, <2>1, ConnectKeeps DEF RetryFires, SocketInv
<1>3. CASE UserReconnects
  <2>1. PICK S : AreSocks(Closed, S)
    BY ClosedSocks
  <2> QED BY <1>3, <2>1, ConnectKeeps DEF UserReconnects, SocketInv
<1>4. CASE NetworkChanges \/ UNCHANGED socketVars
  BY <1>4 DEF NetworkChanges, socketVars, SocketInv, NeverAbandoned, Alive, With
<1>5. ASSUME NEW i \in DOMAIN socks, SocketOpens(i) \/ ProbeFails(i) \/ SocketCloses(i) PROVE SocketInv'
  <2>1. PICK S : AreSocks(socks, S)
    BY DEF SocketInv
  <2>2. IsSock(socks[i])
    BY <2>1 DEF AreSocks
  <2>3. CASE SocketOpens(i)
    <3> DEFINE x == [socks[i] EXCEPT !.st = "open", !.bound = TRUE]
    <3>1. socks' = [socks EXCEPT ![i] = x] /\ current' \in {current, i} /\ UNCHANGED <<retries, starting>>
      BY <2>3 DEF SocketOpens
    <3>2. IsSock(x) /\ x.st = "open"
      BY <2>2 DEF IsSock
    <3> QED BY <3>1, <3>2, EventKeeps DEF SocketInv
  <2> DEFINE x == [socks[i] EXCEPT !.st = "closed"]
             given == [socks EXCEPT ![i].st = "closed"]
  <2>4. IsSock(x) /\ given = [socks EXCEPT ![i] = x]
    BY <2>2 DEF IsSock
  <2>5. CASE ProbeFails(i)
    <3>1. UNCHANGED <<current, retries, starting>> /\ retries \in Nat
      BY <2>5 DEF ProbeFails, SocketInv
    <3>2. CASE socks[i].rest = <<>>
      <4>1. socks' = given /\ gaveUp' = TRUE
        BY <2>5, <3>2 DEF ProbeFails
      <4> QED BY <2>4, <3>1, <4>1, EventKeeps
    <3>3. CASE socks[i].rest # <<>> /\ Refused(Head(socks[i].rest))
      <4>1. socks' = given /\ urlRefused' = TRUE
        BY <2>5, <3>3 DEF ProbeFails, Opens
      <4> QED BY <2>4, <3>1, <4>1, EventKeeps
    <3>4. CASE socks[i].rest # <<>> /\ ~Refused(Head(socks[i].rest))
      <4> DEFINE y == Sock(Head(socks[i].rest), Tail(socks[i].rest), FALSE)
      <4>1. socks' = Append(given, y)
        BY <2>5, <3>4 DEF ProbeFails, Opens
      <4>2. IsSock(y) /\ y.st = "connecting"
        BY DEF Sock, IsSock
      <4> HIDE DEF y
      <4>3. AreSocks(given, S \cup {x}) /\ DOMAIN given = DOMAIN socks
        BY <2>1, <2>4, Changed
      <4> HIDE DEF given, x
      <4>4. /\ AreSocks(socks', (S \cup {x}) \cup {y}) /\ Len(given) \in Nat
            /\ DOMAIN given = 1 .. Len(given) /\ DOMAIN socks' = 1 .. Len(given) + 1
            /\ socks'[Len(given) + 1] = y
        BY <4>1, <4>2, <4>3, Appended
      <4>5. Len(given) + 1 \in Alive'
        BY <4>2, <4>4 DEF Alive, With
      <4>6. current' \in DOMAIN socks' \cup {NoSocket}
        BY <3>1, <4>3, <4>4 DEF SocketInv
      <4> QED BY <3>1, <4>4, <4>5, <4>6 DEF SocketInv, NeverAbandoned
    <3> QED BY <3>2, <3>3, <3>4
  <2>6. CASE SocketCloses(i)
    <3>1. socks' = given /\ UNCHANGED <<current, starting, urlRefused>>
      BY <2>6 DEF SocketCloses
    <3>2. \/ retries' = retries + 1
          \/ retries' = retries /\ gaveUp' = (gaveUp \/ socks[i].st # "closing")
      BY <2>6 DEF SocketCloses
    <3> DEFINE retry == retries' = retries + 1
    <3>3. CASE retry
      <4>1. retries' \in Nat /\ retries' > 0
        BY <3>3 DEF SocketInv
      <4> QED BY <2>4, <3>1, <4>1, EventKeeps DEF SocketInv
    <3>4. CASE ~retry /\ socks[i].st # "closing"
      <4>1. gaveUp' = TRUE /\ retries' \in Nat
        BY <3>2, <3>4 DEF SocketInv
      <4> QED BY <2>4, <3>1, <4>1, EventKeeps DEF SocketInv
    <3>5. CASE ~retry /\ socks[i].st = "closing"
      <4>1. i \notin Alive /\ retries' = retries /\ (gaveUp => gaveUp')
        BY <3>2, <3>5 DEF Alive, With
      <4> QED BY <2>4, <3>1, <4>1, EventKeeps DEF SocketInv
    <3> QED BY <3>3, <3>4, <3>5
  <2> QED BY <1>5, <2>3, <2>5, <2>6
<1> QED BY <1>1, <1>2, <1>3, <1>4, <1>5 DEF SocketNext

\* The page is never left without a connection and without anyone trying to get one,
\* except when the service has stopped by its own rules (retries used up, the last candidate
\* failed, a close with code 1000, no processor) or its last attempt met a URL the browser
\* refuses (tryConnectUrl, startSingleConnection, onclose of WebSocketService.ts).
THEOREM SocketNeverAbandoned == SocketSpec => []NeverAbandoned
<1>1. SocketInit => SocketInv
  <2>1. AreSocks(<<>>, {})
    BY DEF AreSocks
  <2> QED BY <2>1 DEF SocketInit, SocketInv, NeverAbandoned
<1>2. SocketInv => NeverAbandoned
  BY DEF SocketInv
<1> QED BY <1>1, <1>2, SocketNextKeeps, PTL DEF SocketSpec

\* Unless a command came too early: one socket at most connects or delivers, it is the one the
\* service remembers unless it is still a probe, and no timer runs beside it.
SoleSocket ==
  ~overlap =>
    /\ \A i \in Alive : socks[i].st = "open" \/ socks[i].bound => i = current
    /\ \A i, j \in Alive : i = j
    /\ Alive # {} => retries = 0 /\ ~starting
    /\ starting => retries = 0
    /\ retries <= 1
SoleInv == SocketInv /\ SoleSocket

AllDead(s) == \A i \in DOMAIN s : s[i].st \notin {"connecting", "open"}

\* connect() leaves one socket at most, when it finds none.
LEMMA ConnectsOne ==
  ASSUME NEW stored, NEW socks0, NEW current0, NEW S, AreSocks(socks0, S), Connect(stored, socks0, current0),
         ~overlap' => AllDead(socks0) /\ retries' = 0 /\ ~starting'
  PROVE  SoleSocket'
<1>0. CASE socks' = socks0
  <2>1. AllDead(socks0) => Alive' = {}
    BY <1>0 DEF AllDead, Alive, With
  <2> QED BY <2>1 DEF SoleSocket
<1> SUFFICES ASSUME socks' # socks0 PROVE SoleSocket'
  BY <1>0
<1>1. PICK u, r, b : /\ socks' = Append(socks0, Sock(u, r, b))
                     /\ b => current' = Len(socks0) + 1
  BY DEF Connect, Opens
<1> DEFINE x == Sock(u, r, b)
<1>2. IsSock(x) /\ x.st = "connecting" /\ x.bound = b
  BY DEF Sock, IsSock
<1> HIDE DEF x
<1>3. /\ Len(socks0) \in Nat /\ DOMAIN socks0 = 1 .. Len(socks0) /\ DOMAIN socks' = 1 .. Len(socks0) + 1
      /\ socks'[Len(socks0) + 1] = x /\ \A i \in DOMAIN socks0 : socks'[i] = socks0[i]
  BY <1>1, <1>2, Appended DEF x, AreSocks
<1>4. AllDead(socks0) => Alive' = {Len(socks0) + 1}
  BY <1>2, <1>3 DEF AllDead, Alive, With
<1>5. AllDead(socks0) => \A i \in Alive' : i = Len(socks0) + 1 /\ socks'[i] = x
  BY <1>3, <1>4
<1>6. x.st = "connecting" /\ (x.bound => current' = Len(socks0) + 1)
  BY <1>1, <1>2
<1> QED BY <1>4, <1>5, <1>6 DEF SoleSocket

\* disconnect() leaves nothing alive where only the remembered socket was.
LEMMA ClosedIsDead ==
  ASSUME SoleInv, \A i \in Alive : i = current PROVE AllDead(Closed)
<1>1. PICK S : AreSocks(socks, S)
  BY DEF SoleInv, SocketInv
<1>2. CASE current = NoSocket \/ socks[current].st \notin {"connecting", "open"}
  <2>1. Closed = socks
    BY <1>2 DEF Closed
  <2>2. NoSocket \notin DOMAIN socks
    BY <1>1 DEF AreSocks, NoSocket
  <2> QED BY <1>2, <2>1, <2>2 DEF AllDead, Alive, With
<1>3. CASE current # NoSocket /\ socks[current].st \in {"connecting", "open"}
  <2> DEFINE x == [socks[current] EXCEPT !.st = "closing", !.clean = (socks[current].st = "open")]
  <2>1. Closed = [socks EXCEPT ![current] = x] /\ current \in DOMAIN socks
    BY <1>3 DEF Closed, SoleInv, SocketInv
  <2>2. IsSock(x) /\ x.st = "closing"
    BY <1>1, <2>1 DEF AreSocks, IsSock
  <2> HIDE DEF x
  <2>3. /\ DOMAIN Closed = DOMAIN socks /\ Closed[current] = x
        /\ \A j \in DOMAIN socks : j # current => Closed[j] = socks[j]
    BY <1>1, <2>1, <2>2, Changed
  <2> QED BY <2>2, <2>3 DEF AllDead, Alive, With
<1> QED BY <1>2, <1>3

\* A socket's own events.
LEMMA EventKeepsSole ==
  ASSUME SoleInv, [SocketNext]_socketVars, NEW i \in DOMAIN socks, SocketOpens(i) \/ ProbeFails(i) \/ SocketCloses(i)
  PROVE  SoleSocket'
<1>1. PICK S : AreSocks(socks, S)
  BY DEF SoleInv, SocketInv
<1>2. IsSock(socks[i]) /\ retries \in Nat
  BY <1>1 DEF AreSocks, SoleInv, SocketInv
<1>3. CASE SocketOpens(i)
  <2> DEFINE x == [socks[i] EXCEPT !.st = "open", !.bound = TRUE]
  <2>1. /\ socks' = [socks EXCEPT ![i] = x] /\ UNCHANGED <<retries, starting, overlap>> /\ i \in Alive
        /\ IF socks[i].bound THEN UNCHANGED current ELSE current' = i
    BY <1>3 DEF SocketOpens, Alive, With
  <2>2. IsSock(x) /\ x.st = "open"
    BY <1>2 DEF IsSock
  <2> HIDE DEF x
  <2>3. /\ DOMAIN socks' = DOMAIN socks /\ socks'[i] = x
        /\ \A j \in DOMAIN socks : j # i => socks'[j] = socks[j]
    BY <1>1, <2>1, <2>2, Changed
  <2>4. Alive' = Alive
    BY <2>1, <2>2, <2>3 DEF Alive, With
  <2> QED BY <2>1, <2>2, <2>3, <2>4 DEF SoleInv, SoleSocket
<1> DEFINE x == [socks[i] EXCEPT !.st = "closed"]
           given == [socks EXCEPT ![i].st = "closed"]
<1>4. IsSock(x) /\ x.st = "closed" /\ given = [socks EXCEPT ![i] = x]
  BY <1>2 DEF IsSock
<1> HIDE DEF x
<1>5. /\ AreSocks(given, S \cup {x}) /\ DOMAIN given = DOMAIN socks /\ given[i] = x
      /\ \A j \in DOMAIN socks : j # i => given[j] = socks[j]
  BY <1>1, <1>4, Changed
<1> HIDE DEF given
<1>6. CASE ProbeFails(i)
  <2>1. /\ UNCHANGED <<current, retries, starting, overlap>> /\ i \in Alive
    BY <1>6 DEF ProbeFails, Alive, With
  <2>2. CASE socks[i].rest = <<>> \/ Refused(Head(socks[i].rest))
    <3>1. socks' = given
      BY <1>6, <2>2 DEF ProbeFails, Opens, given
    <3>2. Alive' = Alive \ {i}
      BY <1>4, <1>5, <3>1 DEF Alive, With
    <3> QED BY <1>5, <2>1, <3>1, <3>2 DEF SoleInv, SoleSocket
  <2>3. CASE socks[i].rest # <<>> /\ ~Refused(Head(socks[i].rest))
    <3> DEFINE y == Sock(Head(socks[i].rest), Tail(socks[i].rest), FALSE)
    <3>1. socks' = Append(given, y)
      BY <1>6, <2>3 DEF ProbeFails, Opens, given
    <3>2. IsSock(y) /\ y.st = "connecting" /\ ~y.bound
      BY DEF Sock, IsSock
    <3> HIDE DEF y
    <3>3. /\ Len(given) \in Nat /\ DOMAIN given = 1 .. Len(given) /\ DOMAIN socks' = 1 .. Len(given) + 1
          /\ socks'[Len(given) + 1] = y /\ \A j \in DOMAIN given : socks'[j] = given[j]
      BY <1>5, <3>1, <3>2, Appended DEF AreSocks
    <3>4. Alive' = (Alive \ {i}) \cup {Len(given) + 1}
      BY <1>4, <1>5, <3>2, <3>3 DEF Alive, With
    <3> QED BY <1>5, <2>1, <3>2, <3>3, <3>4 DEF SoleInv, SoleSocket
  <2> QED BY <2>2, <2>3
<1>7. CASE SocketCloses(i)
  <2>1. /\ socks' = given /\ UNCHANGED <<current, starting>>
        /\ retries' \in {retries, retries + 1} /\ (overlap => overlap')
        /\ socks[i].st = "closing" /\ retries' # retries => overlap'
        /\ socks[i].st \in {"connecting", "open", "closing"}
    <3>1. socks' = given /\ UNCHANGED <<current, starting>> /\ socks[i].st \in {"connecting", "open", "closing"}
      BY <1>7 DEF SocketCloses, given
    <3>2. PICK code \in {1000, 1006} :
             /\ retries' = IF code # 1000 /\ attempts < MaxReconnectAttempts THEN retries + 1 ELSE retries
             /\ overlap' = (overlap \/ (code # 1000 /\ socks[i].st = "closing"))
      BY <1>7 DEF SocketCloses
    <3> QED BY <3>1, <3>2
  <2>2. Alive' = Alive \ {i}
    BY <1>4, <1>5, <2>1 DEF Alive, With
  <2>3. CASE socks[i].st = "closing"
    <3>1. i \notin Alive /\ (~overlap' => retries' = retries)
      BY <2>1, <2>3 DEF Alive, With
    <3>2. Alive' = Alive
      BY <2>2, <3>1
    <3>3. \A j \in Alive : socks'[j] = socks[j]
      BY <1>5, <2>1, <3>1 DEF Alive, With
    <3>4. ~overlap' => ~overlap /\ UNCHANGED <<retries, starting, current>>
      BY <2>1, <3>1
    <3> QED BY <3>2, <3>3, <3>4 DEF SoleInv, SoleSocket
  <2>4. CASE socks[i].st # "closing"
    <3>1. i \in Alive
      BY <2>1, <2>4 DEF Alive, With
    <3>2. ~overlap' => Alive' = {} /\ retries = 0 /\ ~starting
      BY <2>1, <2>2, <3>1 DEF SoleInv, SoleSocket
    <3>3. ~overlap' => retries' <= 1 /\ ~starting'
      BY <2>1, <3>2
    <3> QED BY <3>2, <3>3 DEF SoleSocket
  <2> QED BY <2>3, <2>4
<1> QED BY <1>3, <1>6, <1>7

LEMMA SoleNextKeeps == ASSUME SoleInv, [SocketNext]_socketVars PROVE SoleInv'
<1>1. SocketInv'
  BY SocketNextKeeps DEF SoleInv
<1>2. SoleSocket'
  <2>1. PICK S : AreSocks(socks, S)
    BY DEF SoleInv, SocketInv
  <2>2. PICK Q : AreSocks(Closed, Q)
    BY ClosedSocks DEF SoleInv
  <2>3. CASE Initialized
    <3>1. starting /\ ~starting' /\ UNCHANGED <<retries, overlap>>
      BY <2>3 DEF Initialized
    <3>2. ~overlap => Alive = {} /\ retries = 0
      BY <3>1 DEF SoleInv, SoleSocket
    <3>3. ~overlap => AllDead(Closed)
      BY <3>2, ClosedIsDead
    <3>4. CASE Connect(settings, Closed, NoSocket)
      BY <2>2, <3>1, <3>2, <3>3, <3>4, ConnectsOne
    <3>5. CASE socks' = Closed
      <4>1. ~overlap => Alive' = {}
        BY <3>3, <3>5 DEF AllDead, Alive, With
      <4> QED BY <3>1, <3>2, <4>1 DEF SoleSocket
    <3> QED BY <2>3, <3>4, <3>5 DEF Initialized
  <2>4. CASE RetryFires
    <3>1. /\ retries > 0 /\ retries' = retries - 1 /\ Connect(settings, socks, current)
          /\ UNCHANGED <<starting, overlap>> /\ retries \in Nat
      BY <2>4 DEF RetryFires, SoleInv, SocketInv
    <3>2. ~overlap => Alive = {} /\ retries = 1 /\ ~starting
      BY <3>1 DEF SoleInv, SoleSocket
    <3>3. ~overlap => AllDead(socks)
      BY <3>2 DEF AllDead, Alive, With
    <3> QED BY <2>1, <3>1, <3>2, <3>3, ConnectsOne
  <2>5. CASE UserReconnects
    <3>1. /\ Connect(settings', Closed, NoSocket) /\ UNCHANGED <<retries, starting>> /\ retries \in Nat
          /\ ~overlap' => ~overlap /\ ~starting /\ ~(retries > 0) /\ With("connecting") = {}
      BY <2>5 DEF UserReconnects, SoleInv, SocketInv
    <3>2. ~overlap' => \A i \in Alive : i = current
      BY <3>1 DEF SoleInv, SoleSocket, Alive, With
    <3>3. ~overlap' => AllDead(Closed) /\ retries' = 0 /\ ~starting'
      BY <3>1, <3>2, ClosedIsDead
    <3> QED BY <2>2, <3>1, <3>3, ConnectsOne
  <2>6. CASE NetworkChanges \/ UNCHANGED socketVars
    <3>1. UNCHANGED <<socks, current, retries, starting, overlap>>
      BY <2>6 DEF NetworkChanges, socketVars
    <3> QED BY <3>1 DEF SoleInv, SoleSocket, Alive, With
  <2>7. ASSUME NEW i \in DOMAIN socks, SocketOpens(i) \/ ProbeFails(i) \/ SocketCloses(i) PROVE SoleSocket'
    BY <2>7, EventKeepsSole
  <2> QED BY <2>3, <2>4, <2>5, <2>6, <2>7 DEF SocketNext
<1> QED BY <1>1, <1>2 DEF SoleInv

\* One socket feeds the page (tryConnectUrl, bindSocketHandlers, onclose): unless a command came
\* while an attempt, a retry or a close was pending, there is never a second socket, or a timer
\* that will open one, beside the socket that connects or delivers.
THEOREM OneSocketAtATime == SocketSpec => []OneSocketIngests
<1>1. SocketInit => SoleInv
  <2>1. AreSocks(<<>>, {})
    BY DEF AreSocks
  <2> QED BY <2>1 DEF SocketInit, SoleInv, SocketInv, NeverAbandoned, SoleSocket, Alive, With
<1>2. SoleInv => OneSocketIngests
  <2> SUFFICES ASSUME SoleInv, ~overlap
               PROVE  Cardinality(Alive) + retries + (IF starting THEN 1 ELSE 0) <= 1
    BY DEF OneSocketIngests
  <2>0. retries \in Nat
    BY DEF SoleInv, SocketInv
  <2>1. CASE Alive = {}
    <3>1. Cardinality(Alive) = 0
      BY <2>1, FS_EmptySet
    <3> QED BY <2>0, <3>1 DEF SoleInv, SoleSocket
  <2>2. CASE Alive # {}
    <3>1. PICK i : Alive = {i}
      BY <2>2 DEF SoleInv, SoleSocket
    <3>2. Cardinality(Alive) = 1
      BY <3>1, FS_Singleton
    <3> QED BY <2>2, <3>2 DEF SoleInv, SoleSocket
  <2> QED BY <2>1, <2>2
<1> QED BY <1>1, <1>2, SoleNextKeeps, PTL DEF SocketSpec

----------------------------------------------------------------------------
(* The serial port *)

\* Nothing is connected while connect() still chooses or opens a port; connect() and
\* disconnect() under way at the same time have crossed.
PortInv ==
  /\ connecting \in {"choosing", "opening"} => ~serialConn
  /\ connecting # "idle" /\ disconnecting # "idle" => crossed
  /\ disconnecting # "idle" /\ serialConn => crossed

\* A session keeps the WebSocket out, unless it was crossed.
SessionSuppresses == serialConn /\ ~crossed => suppressed

SerialInv == PortInv /\ SuppressionOwned /\ SessionSuppresses

LEMMA BeginKeeps ==
  ASSUME SerialInv, ConnectClicked \/ PortChosen \/ PortOpened \/ SlcanReady PROVE SerialInv'
<1> USE DEF SerialInv, PortInv, SuppressionOwned, SessionSuppresses
<1>1. CASE ConnectClicked
  BY <1>1 DEF ConnectClicked
<1>2. CASE PortChosen
  <2>1. connecting = "choosing" /\ UNCHANGED <<disconnecting, suppressed, crossed>> /\ (stranded => stranded')
    BY <1>2 DEF PortChosen, ConnectFails
  <2>2. (connecting' = "opening" /\ serialConn' = serialConn) \/ (connecting' = "idle" /\ serialConn' = FALSE)
    BY <1>2 DEF PortChosen, ConnectFails
  <2> QED BY <2>1, <2>2
<1>3. CASE PortOpened
  <2>1. connecting = "opening" /\ UNCHANGED <<disconnecting, crossed>>
    BY <1>3 DEF PortOpened
  <2>2. CASE serialConn' = TRUE /\ suppressed' = TRUE /\ connecting' = "writing"
    BY <2>1, <2>2
  <2>3. CASE ConnectFails(FALSE) /\ suppressed' = suppressed
    <3>1. connecting' = "idle" /\ serialConn' = FALSE /\ (stranded => stranded')
      BY <2>3 DEF ConnectFails
    <3> QED BY <2>1, <2>3, <3>1
  <2> QED BY <1>3, <2>2, <2>3 DEF PortOpened
<1>4. CASE SlcanReady
  BY <1>4 DEF SlcanReady, ConnectFails
<1> QED BY <1>1, <1>2, <1>3, <1>4

LEMMA EndKeeps ==
  ASSUME SerialInv, DisconnectClicked \/ CloseWritten \/ ReaderCancelled \/ PortClosed \/ AdapterLost
  PROVE  SerialInv'
<1> USE DEF SerialInv, PortInv, SuppressionOwned, SessionSuppresses
<1>1. CASE DisconnectClicked
  BY <1>1 DEF DisconnectClicked, Disconnects
<1>2. CASE CloseWritten
  BY <1>2 DEF CloseWritten, DisconnectThrows
<1>3. CASE ReaderCancelled
  BY <1>3 DEF ReaderCancelled, DisconnectThrows
<1>4. CASE PortClosed
  BY <1>4 DEF PortClosed, DisconnectThrows
<1>5. CASE AdapterLost
  BY <1>5 DEF AdapterLost, Disconnects
<1> QED BY <1>1, <1>2, <1>3, <1>4, <1>5

LEMMA SerialNextKeeps == ASSUME SerialInv, [SerialNext]_serialVars PROVE SerialInv'
<1>1. CASE AdapterSends \/ SocketDelivers \/ (\E n \in 1..Len(wire), chance \in BOOLEAN : ChunkRead(n, chance))
           \/ UNCHANGED serialVars
  <2>1. UNCHANGED <<connecting, disconnecting, serialConn, suppressed, crossed, stranded>>
    BY <1>1 DEF AdapterSends, SocketDelivers, ChunkRead, serialVars
  <2> QED BY <2>1 DEF SerialInv, PortInv, SuppressionOwned, SessionSuppresses
<1> QED BY <1>1, BeginKeeps, EndKeeps DEF SerialNext

LEMMA SerialAlways == SerialSpec => []SerialInv
<1>1. SerialInit => SerialInv
  BY DEF SerialInit, SerialInv, PortInv, SuppressionOwned, SessionSuppresses
<1> QED BY <1>1, SerialNextKeeps, PTL DEF SerialSpec

\* The WebSocket is kept out of the store only for the sake of a serial session that lasts,
\* is being ended, or was left half way by an error (SerialService.ts: connect, disconnect).
THEOREM SuppressedForSession == SerialSpec => []SuppressionOwned
<1>1. SerialInv => SuppressionOwned
  BY DEF SerialInv
<1> QED BY <1>1, SerialAlways, PTL

\* And while a session lasts the WebSocket is kept out, unless connect() and disconnect()
\* overlapped: nothing of it mixes with the port's frames.
THEOREM SessionKeepsSocketOut == SerialSpec => []SessionSuppresses
<1>1. SerialInv => SessionSuppresses
  BY DEF SerialInv
<1> QED BY <1>1, SerialAlways, PTL

----------------------------------------------------------------------------
(* What the port's bytes become. The cut of a buffer at its returns is a   *)
(* recursive function: facts about it go by the least length at which they *)
(* would fail.                                                             *)

\* Induction: a set of numbers with a member has a least one.
LEMMA LeastNat ==
  ASSUME NEW T \in SUBSET Nat, T # {}
  PROVE  \E x \in T : \A y \in T : x <= y
<1>1. IsWellFoundedOn(OpToRel(<, Nat), Nat)
  BY NatLessThanWellFounded, Zenon
<1>2. PICK x \in T : \A y \in T : ~(<<y, x>> \in OpToRel(<, Nat))
  BY <1>1, WFMin, Zenon
<1>3. \A y \in T : ~(y < x)
  BY <1>2 DEF OpToRel
<1> QED BY <1>3

\* A fact that holds at 0 and passes on from each number to the next holds up to n.
LEMMA Induct ==
  ASSUME NEW n \in Nat, NEW P, 0 \in P, \A i \in 1 .. n : i - 1 \in P => i \in P
  PROVE  \A i \in 0 .. n : i \in P
<1> DEFINE T == {i \in 0 .. n : i \notin P}
<1> SUFFICES ASSUME T # {} PROVE FALSE
  OBVIOUS
<1>0. T \in SUBSET Nat
  OBVIOUS
<1>1. PICK x \in T : \A y \in T : x <= y
  <2> HIDE DEF T
  <2> QED BY <1>0, LeastNat
<1>2. x \in 1 .. n /\ x - 1 \in 0 .. n /\ ~(x <= x - 1)
  OBVIOUS
<1> QED BY <1>1, <1>2

\* A function that satisfies the recursion of Cut exists, and Cut is its last value.
CutBy(g, buf, chance, n) == g = [i \in 0 .. n |-> IF i = 0 THEN Uncut ELSE TokenRead(g[i - 1], buf[i], chance)]
LEMMA CutExists ==
  ASSUME NEW buf, NEW chance, NEW len \in Nat
  PROVE  \E g : CutBy(g, buf, chance, len)
<1> DEFINE step(g, i) == IF i = 0 THEN Uncut ELSE TokenRead(g[i - 1], buf[i], chance)
           Has(n) == \E g : CutBy(g, buf, chance, n)
           T == {n \in Nat : ~Has(n)}
<1> SUFFICES T = {}
  OBVIOUS
<1> SUFFICES ASSUME T # {} PROVE FALSE
  OBVIOUS
<1>1. PICK n \in T : \A y \in T : n <= y
  <2> HIDE DEF Has
  <2> QED BY LeastNat
<1>2. n \in Nat /\ ~Has(n)
  OBVIOUS
<1>3. n # 0
  <2> SUFFICES ASSUME n = 0 PROVE Has(n)
    BY <1>2
  <2> DEFINE g == [i \in 0 .. 0 |-> Uncut]
  <2>1. g = [i \in 0 .. 0 |-> step(g, i)]
    OBVIOUS
  <2>2. CutBy(g, buf, chance, 0)
    BY <2>1, Zenon DEF CutBy
  <2> HIDE DEF g
  <2> QED BY <2>2
<1>4. n - 1 \in Nat /\ Has(n - 1)
  <2>1. n - 1 \in Nat /\ ~(n <= n - 1)
    BY <1>2, <1>3
  <2>2. n - 1 \notin T
    BY <1>1, <2>1
  <2> HIDE DEF Has
  <2> QED BY <2>1, <2>2
<1>5. PICK g : g = [i \in 0 .. n - 1 |-> step(g, i)]
  BY <1>4 DEF CutBy
<1> DEFINE h == [i \in 0 .. n |-> IF i = n THEN step(g, n) ELSE g[i]]
<1>6. \A i \in 0 .. n : h[i] = step(h, i)
  <2> TAKE i \in 0 .. n
  <2>1. i # 0 => h[i - 1] = g[i - 1]
    BY <1>2
  <2>2. step(h, i) = step(g, i)
    BY <2>1
  <2>3. h[i] = step(g, i)
    BY <1>2, <1>5
  <2> QED BY <2>2, <2>3
<1>7. h = [i \in 0 .. n |-> h[i]]
  OBVIOUS
<1>8. h = [i \in 0 .. n |-> step(h, i)]
  <2> HIDE DEF h, step
  <2> QED BY <1>6, <1>7
<1> QED BY <1>2, <1>8 DEF CutBy

LEMMA CutByStep ==
  ASSUME NEW buf, NEW chance, Len(buf) \in Nat
  PROVE  \E g : /\ g[0] = Uncut /\ Cut(buf, chance) = g[Len(buf)]
                /\ \A i \in 1 .. Len(buf) : g[i] = TokenRead(g[i - 1], buf[i], chance)
<1>0. \E g : CutBy(g, buf, chance, Len(buf))
  BY CutExists
<1> DEFINE cut[i \in 0 .. Len(buf)] == IF i = 0 THEN Uncut ELSE TokenRead(cut[i - 1], buf[i], chance)
<1>1. Cut(buf, chance) = cut[Len(buf)]
  BY DEF Cut
<1>2. cut = [i \in 0 .. Len(buf) |-> IF i = 0 THEN Uncut ELSE TokenRead(cut[i - 1], buf[i], chance)]
  BY <1>0, Zenon DEF CutBy
<1> HIDE DEF cut
<1>3. \A i \in 0 .. Len(buf) : cut[i] = IF i = 0 THEN Uncut ELSE TokenRead(cut[i - 1], buf[i], chance)
  BY <1>2
<1> QED BY <1>1, <1>3

Tokens == [line : Nat, part : 0 .. 2]
LEMMA TokensLemma ==
  ASSUME NEW n \in Nat, NEW p \in 0 .. 2
  PROVE  Half(n, p) \in Tokens /\ Half(n, p).line = n /\ Half(n, p).part = p /\ CR \in Tokens /\ Bell \in Tokens
BY DEF Half, Tokens, CR, Bell

\* One token, of a line begun.
LEMMA ReadLemma ==
  ASSUME NEW f, NEW r, NEW t, NEW chance
  PROVE  TokenRead([frames |-> f, rest |-> r], t, chance) =
           IF t # CR THEN [frames |-> f, rest |-> Append(r, t)]
           ELSE [frames |-> IF Passes(r, chance) THEN Append(f, r) ELSE f, rest |-> <<>>]
<1> DEFINE a == Append(r, t)
           p == Passes(r, chance)
           b == Append(f, r)
           before == [frames |-> f, rest |-> r]
<1>1. before.frames = f /\ before.rest = r
  OBVIOUS
<1>2. TokenRead(before, t, chance) =
        IF t # CR THEN [before EXCEPT !.rest = a]
        ELSE [frames |-> IF p THEN b ELSE f, rest |-> <<>>]
  BY <1>1, Zenon DEF TokenRead
<1>3. [before EXCEPT !.rest = a] = [frames |-> f, rest |-> a]
  <2> HIDE DEF a
  <2> QED OBVIOUS
<1> QED BY <1>2, <1>3

Parsed == [frames : Seq(Seq(Tokens)), rest : Seq(Tokens)]
LEMMA CutTyped ==
  ASSUME NEW buf \in Seq(Tokens), NEW chance PROVE Cut(buf, chance) \in Parsed
<1>0. Len(buf) \in Nat /\ \A i \in 1 .. Len(buf) : buf[i] \in Tokens
  OBVIOUS
<1>1. PICK g : /\ g[0] = Uncut /\ Cut(buf, chance) = g[Len(buf)]
               /\ \A i \in 1 .. Len(buf) : g[i] = TokenRead(g[i - 1], buf[i], chance)
  BY <1>0, CutByStep
<1> DEFINE P == {i \in 0 .. Len(buf) : g[i] \in Parsed}
<1>2. 0 \in P
  <2> DEFINE Q == Seq(Tokens)
  <2>1. <<>> \in Q /\ <<>> \in Seq(Q)
    OBVIOUS
  <2> HIDE DEF Q
  <2>2. Uncut \in [frames : Seq(Q), rest : Q]
    BY <2>1 DEF Uncut
  <2> QED BY <1>0, <1>1, <2>2 DEF Parsed, Q
<1>3. ASSUME NEW i \in 1 .. Len(buf), i - 1 \in P PROVE i \in P
  <2> DEFINE before == g[i - 1]
             t == buf[i]
  <2>1. before \in Parsed /\ t \in Tokens /\ g[i] = TokenRead(before, t, chance)
    BY <1>0, <1>1, <1>3
  <2> HIDE DEF before, t
  <2>2. TokenRead(before, t, chance) \in Parsed
    <3> DEFINE Q == Seq(Tokens)
               f == before.frames
               r == before.rest
    <3>1. r \in Q /\ Append(r, t) \in Q /\ <<>> \in Q
      BY <2>1 DEF Parsed
    <3> HIDE DEF Q
    <3>2. before \in [frames : Seq(Q), rest : Q]
      BY <2>1 DEF Parsed, Q
    <3>3. before = [frames |-> f, rest |-> r] /\ f \in Seq(Q) /\ Append(f, r) \in Seq(Q)
      BY <3>1, <3>2
    <3> HIDE DEF f, r
    <3>4. TokenRead(before, t, chance) \in [frames : Seq(Q), rest : Q]
      <4>1. TokenRead([frames |-> f, rest |-> r], t, chance) =
              IF t # CR THEN [frames |-> f, rest |-> Append(r, t)]
              ELSE [frames |-> IF Passes(r, chance) THEN Append(f, r) ELSE f, rest |-> <<>>]
        BY ReadLemma, Zenon
      <4> DEFINE a == Append(r, t)
                 b == IF Passes(r, chance) THEN Append(f, r) ELSE f
      <4>2. f \in Seq(Q) /\ a \in Q /\ b \in Seq(Q) /\ <<>> \in Q
        BY <3>1, <3>2, <3>3
      <4>3. TokenRead(before, t, chance) \in {[frames |-> f, rest |-> a], [frames |-> b, rest |-> <<>>]}
        BY <3>3, <4>1
      <4> HIDE DEF a, b
      <4> QED BY <4>2, <4>3
    <3> QED BY <3>4 DEF Parsed, Q
  <2> QED BY <1>0, <2>1, <2>2
<1>4. \A i \in 0 .. Len(buf) : i \in P
  <2> HIDE DEF P
  <2> QED BY <1>0, <1>2, <1>3, Induct
<1>5. Len(buf) \in P
  BY <1>0, <1>4
<1> QED BY <1>1, <1>5

----------------------------------------------------------------------------
(* What the adapter sends, token by token, and what comes of it. *)

Sent(k) == IF k % 3 = 0 THEN CR ELSE Half(((k - 1) \div 3) + 1, k % 3)
LEMMA SentTokens ==
  ASSUME NEW x \in Nat
  PROVE  Sent(3 * x + 1) = Half(x + 1, 1) /\ Sent(3 * x + 2) = Half(x + 1, 2) /\ Sent(3 * x + 3) = CR
<1>1. (3 * x + 1) % 3 = 1 /\ (3 * x + 1 - 1) \div 3 = x
  OBVIOUS
<1>2. (3 * x + 2) % 3 = 2 /\ (3 * x + 2 - 1) \div 3 = x
  OBVIOUS
<1>3. (3 * x + 3) % 3 = 0
  OBVIOUS
<1> QED BY <1>1, <1>2, <1>3 DEF Sent

FrameOf(n) == <<Half(n, 1), Half(n, 2)>>
Lines(m, j) == [k \in 1 .. j |-> FrameOf(m + k)]
Begun(n, r) == IF r = 0 THEN <<>> ELSE IF r = 1 THEN <<Half(n, 1)>> ELSE FrameOf(n)

LEMMA FrameSeq ==
  ASSUME NEW n \in Nat
  PROVE  FrameOf(n) \in Seq(Tokens) /\ FrameOf(n)[1].line = n
BY TokensLemma DEF FrameOf

LEMMA LinesLemma ==
  ASSUME NEW m \in Nat, NEW j \in Nat
  PROVE  /\ Lines(m, j) \in Seq(Seq(Tokens)) /\ Len(Lines(m, j)) = j
         /\ \A k \in 1 .. j : Lines(m, j)[k] = FrameOf(m + k)
<1> DEFINE Q == Seq(Tokens)
           L == Lines(m, j)
<1>1. \A k \in 1 .. j : FrameOf(m + k) \in Q
  BY FrameSeq
<1> HIDE DEF Q
<1>2. L \in [1 .. j -> Q] /\ \A k \in 1 .. j : L[k] = FrameOf(m + k)
  BY <1>1 DEF Lines
<1> HIDE DEF L
<1>3. L \in Seq(Q) /\ Len(L) = j
  BY <1>2
<1> QED BY <1>2, <1>3 DEF Q, L

LEMMA LinesGrow ==
  ASSUME NEW m \in Nat, NEW j \in Nat
  PROVE  Append(Lines(m, j), FrameOf(m + j + 1)) = Lines(m, j + 1)
<1> DEFINE Q == Seq(Tokens)
           L == Lines(m, j)
           M == Lines(m, j + 1)
           f == FrameOf(m + j + 1)
           A == Append(L, f)
<1>1. /\ L \in Seq(Q) /\ Len(L) = j /\ \A k \in 1 .. j : L[k] = FrameOf(m + k)
      /\ M \in Seq(Q) /\ Len(M) = j + 1 /\ \A k \in 1 .. j + 1 : M[k] = FrameOf(m + k)
  <2>1. j + 1 \in Nat
    OBVIOUS
  <2> HIDE DEF L, M, Q
  <2> QED BY <2>1, LinesLemma DEF L, M, Q
<1>2. f \in Q /\ m + (j + 1) = m + j + 1
  BY FrameSeq
<1> HIDE DEF Q, L, M
<1>3. f = M[j + 1]
  BY <1>1, <1>2
<1> HIDE DEF f
<1>4. A \in Seq(Q) /\ Len(A) = j + 1 /\ \A k \in 1 .. j + 1 : A[k] = IF k = j + 1 THEN f ELSE L[k]
  BY <1>1, <1>2
<1> HIDE DEF A
<1>5. A = M
  BY <1>1, <1>3, <1>4, SeqEqual
<1> QED BY <1>5 DEF A, L, M, f

LEMMA TwoTokens ==
  ASSUME NEW a \in Tokens, NEW b \in Tokens
  PROVE  Append(<<>>, a) = <<a>> /\ Append(<<a>>, b) = <<a, b>>
<1>1. Append(<<>>, a) = <<a>> /\ <<a>> \in Seq(Tokens) /\ Len(<<a>>) = 1
  OBVIOUS
<1>2. Append(<<a>>, b) \in Seq(Tokens) /\ Len(Append(<<a>>, b)) = 2
  BY <1>1
<1>3. <<a, b>> \in Seq(Tokens) /\ Len(<<a, b>>) = 2
  OBVIOUS
<1>4. \A i \in 1 .. 2 : Append(<<a>>, b)[i] = <<a, b>>[i]
  BY <1>1
<1> QED BY <1>1, <1>2, <1>3, <1>4, SeqEqual

\* Reading one more token of the stream.
LEMMA ReadsSent ==
  ASSUME NEW m \in Nat, NEW j \in Nat, NEW r \in 0 .. 2, NEW chance, m + j < MaxLines,
         NEW before, before = [frames |-> Lines(m, j), rest |-> Begun(m + j + 1, r)]
  PROVE  TokenRead(before, Sent(3 * m + (3 * j + r + 1)), chance) =
           IF r < 2 THEN [frames |-> Lines(m, j), rest |-> Begun(m + j + 1, r + 1)]
           ELSE [frames |-> Lines(m, j + 1), rest |-> <<>>]
<1> DEFINE t == Sent(3 * m + (3 * j + r + 1))
           n == m + j + 1
<1>1. n \in Nat /\ n \in 1 .. MaxLines /\ m + j \in Nat
  BY SerialAssumption DEF SerialAssumption
<1>2. t = IF r = 0 THEN Half(n, 1) ELSE IF r = 1 THEN Half(n, 2) ELSE CR
  <2>1. 3 * m + (3 * j + r + 1) = 3 * (m + j) + r + 1
    OBVIOUS
  <2>2. Sent(3 * (m + j) + 1) = Half(n, 1) /\ Sent(3 * (m + j) + 2) = Half(n, 2) /\ Sent(3 * (m + j) + 3) = CR
    BY <1>1, SentTokens
  <2>3. CASE r = 0
    BY <2>1, <2>2, <2>3
  <2>4. CASE r = 1
    <3>1. 3 * (m + j) + r + 1 = 3 * (m + j) + 2
      BY <2>4
    <3> QED BY <2>1, <2>2, <2>4, <3>1
  <2>5. CASE r = 2
    <3>1. 3 * (m + j) + r + 1 = 3 * (m + j) + 3
      BY <2>5
    <3> QED BY <2>1, <2>2, <2>5, <3>1
  <2> QED BY <2>3, <2>4, <2>5
<1>3. Half(n, 1) # CR /\ Half(n, 2) # CR
  BY <1>1 DEF Half, CR
<1>4. Append(Begun(n, 0), Half(n, 1)) = Begun(n, 1) /\ Append(Begun(n, 1), Half(n, 2)) = Begun(n, 2)
  <2> DEFINE a == Half(n, 1)
             b == Half(n, 2)
  <2>0. a \in Tokens /\ b \in Tokens
    BY <1>1, TokensLemma
  <2> HIDE DEF a, b
  <2>1. Append(<<>>, a) = <<a>> /\ Append(<<a>>, b) = <<a, b>>
    BY <2>0, TwoTokens
  <2> QED BY <2>1 DEF a, b, Begun, FrameOf
<1>5. Passes(FrameOf(n), chance)
  BY <1>1 DEF Passes, Whole, FrameOf
<1>6. Begun(n, 2) = FrameOf(n) /\ Append(Lines(m, j), FrameOf(n)) = Lines(m, j + 1)
  BY LinesGrow DEF Begun
<1> DEFINE L == Lines(m, j)
           B == Begun(n, r)
<1>7. before = [frames |-> L, rest |-> B]
  OBVIOUS
<1> HIDE DEF n, t, L, B
<1>8. CASE r = 0 \/ r = 1
  <2>1. t # CR /\ r + 1 \in 0 .. 2
    BY <1>2, <1>3, <1>8
  <2>2. TokenRead(before, t, chance) = [frames |-> L, rest |-> Append(B, t)]
    <3>1. TokenRead([frames |-> L, rest |-> B], t, chance) =
            IF t # CR THEN [frames |-> L, rest |-> Append(B, t)]
            ELSE [frames |-> IF Passes(B, chance) THEN Append(L, B) ELSE L, rest |-> <<>>]
      BY ReadLemma, Zenon
    <3> QED BY <1>7, <2>1, <3>1
  <2>3. Append(B, t) = Begun(n, r + 1)
    BY <1>2, <1>4, <1>8 DEF B
  <2> QED BY <1>8, <2>2, <2>3 DEF n, t, L
<1>9. CASE r = 2
  <2>1. t = CR /\ B = FrameOf(n)
    BY <1>2, <1>6, <1>9 DEF B
  <2>2. TokenRead(before, t, chance) = [frames |-> Append(L, B), rest |-> <<>>]
    BY <1>5, <1>7, <2>1, ReadLemma
  <2>3. Append(L, B) = Lines(m, j + 1)
    BY <1>6, <2>1 DEF L
  <2> HIDE DEF t
  <2>4. TokenRead(before, t, chance) = [frames |-> Lines(m, j + 1), rest |-> <<>>] /\ ~(r < 2)
    BY <1>9, <2>2, <2>3
  <2> QED BY <2>4 DEF t
<1> QED BY <1>8, <1>9

\* A buffer that holds the stream from the line after m on: whole frames, and a piece.
LEMMA CutSent ==
  ASSUME NEW buf \in Seq(Tokens), NEW chance, NEW m \in Nat, 3 * m + Len(buf) <= 3 * MaxLines,
         \A k \in 1 .. Len(buf) : buf[k] = Sent(3 * m + k)
  PROVE  \E j \in Nat, r \in 0 .. 2 :
            Len(buf) = 3 * j + r /\ Cut(buf, chance) = [frames |-> Lines(m, j), rest |-> Begun(m + j + 1, r)]
<1>0. Len(buf) \in Nat /\ MaxLines \in Nat
  BY SerialAssumption DEF SerialAssumption
<1>1. PICK g : /\ g[0] = Uncut /\ Cut(buf, chance) = g[Len(buf)]
               /\ \A i \in 1 .. Len(buf) : g[i] = TokenRead(g[i - 1], buf[i], chance)
  BY <1>0, CutByStep
<1> DEFINE At(i) == \E j \in Nat, r \in 0 .. 2 :
                       i = 3 * j + r /\ g[i] = [frames |-> Lines(m, j), rest |-> Begun(m + j + 1, r)]
           P == {i \in 0 .. Len(buf) : At(i)}
<1>2. 0 \in P
  <2>1. Lines(m, 0) = <<>> /\ Begun(m + 0 + 1, 0) = <<>>
    <3>1. Len(Lines(m, 0)) = 0 /\ Lines(m, 0) \in Seq(Seq(Tokens))
      BY LinesLemma
    <3> QED BY <3>1, EmptySeq DEF Begun
  <2>2. g[0] = [frames |-> Lines(m, 0), rest |-> Begun(m + 0 + 1, 0)]
    BY <1>1, <2>1 DEF Uncut
  <2>3. 0 = 3 * 0 + 0 /\ 0 \in Nat /\ 0 \in 0 .. 2
    OBVIOUS
  <2>4. At(0)
    BY <2>2, <2>3
  <2>5. 0 \in 0 .. Len(buf)
    BY <1>0
  <2> HIDE DEF At
  <2> QED BY <2>4, <2>5
<1>3. ASSUME NEW i \in 1 .. Len(buf), i - 1 \in P PROVE i \in P
  <2>1. PICK j \in Nat, r \in 0 .. 2 :
           i - 1 = 3 * j + r /\ g[i - 1] = [frames |-> Lines(m, j), rest |-> Begun(m + j + 1, r)]
    BY <1>3
  <2>2. i = 3 * j + r + 1 /\ m + j < MaxLines /\ i \in 0 .. Len(buf) /\ j + 1 \in Nat
    BY <1>0, <2>1
  <2>3. g[i] = TokenRead(g[i - 1], Sent(3 * m + (3 * j + r + 1)), chance)
    BY <1>1, <2>2
  <2>4. g[i] = IF r < 2 THEN [frames |-> Lines(m, j), rest |-> Begun(m + j + 1, r + 1)]
               ELSE [frames |-> Lines(m, j + 1), rest |-> <<>>]
    BY <2>1, <2>2, <2>3, ReadsSent
  <2>5. CASE r < 2
    <3>1. i = 3 * j + (r + 1) /\ r + 1 \in 0 .. 2
      BY <2>2, <2>5
    <3> QED BY <2>2, <2>4, <2>5, <3>1
  <2>6. CASE ~(r < 2)
    <3>1. i = 3 * (j + 1) + 0 /\ 0 \in 0 .. 2 /\ Begun(m + (j + 1) + 1, 0) = <<>>
      BY <2>2, <2>6 DEF Begun
    <3>2. g[i] = [frames |-> Lines(m, j + 1), rest |-> Begun(m + (j + 1) + 1, 0)]
      BY <2>4, <2>6, <3>1
    <3> QED BY <2>2, <3>1, <3>2
  <2> QED BY <2>5, <2>6
<1>4. \A i \in 0 .. Len(buf) : i \in P
  <2> HIDE DEF P
  <2> QED BY <1>0, <1>2, <1>3, Induct
<1>5. Len(buf) \in P
  <2>1. Len(buf) \in 0 .. Len(buf)
    BY <1>0
  <2> HIDE DEF P
  <2> QED BY <1>4, <2>1
<1> QED BY <1>1, <1>5

----------------------------------------------------------------------------
(* The store *)

Stored == [from : {"serial", "socket"}, frame : Seq(Tokens)]
StreamTypeOK ==
  /\ wire \in Seq(Tokens) /\ inputBuffer \in Seq(Tokens)
  /\ store \in Seq(Stored) /\ lines \in 0 .. MaxLines

\* The store has been fed up to line m: the buffer and the wire hold what was sent after it.
FedUpTo(m) ==
  /\ Len(inputBuffer) + Len(wire) = 3 * (lines - m)
  /\ \A k \in 1 .. Len(inputBuffer) : inputBuffer[k] = Sent(3 * m + k)
  /\ \A k \in 1 .. Len(wire) : wire[k] = Sent(3 * m + Len(inputBuffer) + k)
  /\ \A i \in FromSerial : (\A k \in FromSerial : k <= i) => store[i].frame[1].line = m

\* A session that is not tainted follows the stream, and one that was not crossed has the
\* store for itself.
StreamInv ==
  /\ StreamTypeOK /\ SerialInv /\ WholeFrames
  /\ serialConn /\ ~tainted => \E m \in 0 .. lines : FedUpTo(m)
  /\ serialConn /\ ~crossed => FromSerial = DOMAIN store

LEMMA SequenceOf ==
  ASSUME NEW S, NEW j \in Nat, NEW s \in [1 .. j -> S]
  PROVE  s \in Seq(S) /\ Len(s) = j
OBVIOUS

\* Frames m + 1 to m + j are stored behind what there is.
LEMMA StoredNext ==
  ASSUME StreamTypeOK, WholeFrames, ~tainted, ~tainted', NEW m \in Nat, NEW j \in Nat, m + j <= MaxLines,
         \A i \in FromSerial : (\A k \in FromSerial : k <= i) => store[i].frame[1].line = m,
         NEW new, new = [i \in 1 .. j |-> [from |-> "serial", frame |-> Lines(m, j)[i]]], store' = store \o new
  PROVE  /\ WholeFrames'
         /\ \A i \in FromSerial' : (\A k \in FromSerial' : k <= i) => store'[i].frame[1].line = m + j
<1> DEFINE n == Len(store)
<1>0. n \in Nat /\ DOMAIN store = 1 .. n /\ FromSerial \subseteq 1 .. n
  BY DEF StreamTypeOK, FromSerial
<1>1. \A i \in 1 .. j : Lines(m, j)[i] \in Seq(Tokens) /\ Lines(m, j)[i] = FrameOf(m + i)
  <2> TAKE i \in 1 .. j
  <2>1. Lines(m, j)[i] = FrameOf(m + i)
    BY LinesLemma
  <2>2. m + i \in Nat
    OBVIOUS
  <2> QED BY <2>1, <2>2, FrameSeq
<1>2. /\ new \in Seq(Stored) /\ Len(new) = j
      /\ \A i \in 1 .. j : new[i].from = "serial" /\ new[i].frame = FrameOf(m + i)
  <2>1. \A i \in 1 .. j : [from |-> "serial", frame |-> Lines(m, j)[i]] \in Stored
    BY <1>1 DEF Stored
  <2>2. new \in [1 .. j -> Stored]
    BY <2>1
  <2>3. \A i \in 1 .. j : new[i].from = "serial" /\ new[i].frame = FrameOf(m + i)
    BY <1>1
  <2>4. new \in Seq(Stored) /\ Len(new) = j
    <3> HIDE DEF Stored
    <3> QED BY <2>2, SequenceOf, Zenon
  <2> QED BY <2>3, <2>4
<1>3. /\ store' \in Seq(Stored) /\ Len(store') = n + j
      /\ \A i \in 1 .. n : store'[i] = store[i]
      /\ \A i \in 1 .. j : store'[n + i] = new[i]
  BY <1>2, ConcatProperties DEF StreamTypeOK
<1> HIDE DEF n
<1>4. FromSerial' = FromSerial \cup {n + i : i \in 1 .. j}
  <2>1. \A x \in 1 .. n : x \in FromSerial' <=> x \in FromSerial
    BY <1>0, <1>3 DEF FromSerial
  <2>2. \A i \in 1 .. j : n + i \in FromSerial'
    <3> TAKE i \in 1 .. j
    <3>1. store'[n + i].from = "serial"
      BY <1>2, <1>3
    <3>2. n + i \in 1 .. n + j
      BY <1>0
    <3> QED BY <1>3, <3>1, <3>2 DEF FromSerial
  <2>3. FromSerial' \subseteq 1 .. n + j
    BY <1>3 DEF FromSerial
  <2>4. \A x \in 1 .. n + j : x \in 1 .. n \/ \E i \in 1 .. j : x = n + i
    <3> TAKE x \in 1 .. n + j
    <3>1. x \in 1 .. n \/ (x - n \in 1 .. j /\ x = n + (x - n))
      BY <1>0
    <3> QED BY <3>1
  <2> QED BY <1>0, <2>1, <2>2, <2>3, <2>4
<1>5. \A i \in 1 .. j : /\ store'[n + i].frame = FrameOf(m + i) /\ store'[n + i].frame[1].line = m + i
                         /\ Whole(store'[n + i].frame)
  <2> TAKE i \in 1 .. j
  <2>1. m + i \in 1 .. MaxLines
    BY SerialAssumption DEF SerialAssumption
  <2>2. store'[n + i].frame = FrameOf(m + i)
    BY <1>2, <1>3
  <2>3. FrameOf(m + i)[1].line = m + i /\ Whole(FrameOf(m + i))
    BY <2>1, FrameSeq DEF Whole, FrameOf
  <2> QED BY <2>2, <2>3
<1>6. \A x \in FromSerial : x \in 1 .. n /\ store'[x] = store[x]
  BY <1>0, <1>3
<1>7. WholeFrames'
  <2> SUFFICES ASSUME NEW y \in FromSerial'
               PROVE  /\ Whole(store'[y].frame)
                      /\ \A x \in FromSerial' : x < y /\ (\A k \in FromSerial' : k <= x \/ k >= y) =>
                            store'[y].frame[1].line = store'[x].frame[1].line + 1
    BY DEF WholeFrames, Whole
  <2>1. CASE y \in FromSerial
    <3>1. y \in 1 .. n /\ store'[y] = store[y] /\ Whole(store[y].frame)
      BY <1>6, <2>1 DEF WholeFrames
    <3>2. ASSUME NEW x \in FromSerial', x < y, \A k \in FromSerial' : k <= x \/ k >= y
          PROVE  store'[y].frame[1].line = store'[x].frame[1].line + 1
      <4>1. \A i \in 1 .. j : ~(n + i < y)
        BY <1>0, <3>1
      <4>2. x \in FromSerial /\ \A k \in FromSerial : k <= x \/ k >= y
        BY <1>4, <3>2, <4>1
      <4>3. store[y].frame[1].line = store[x].frame[1].line + 1
        BY <2>1, <3>2, <4>2 DEF WholeFrames
      <4> QED BY <1>6, <3>1, <4>2, <4>3
    <3> QED BY <3>1, <3>2
  <2>2. ASSUME NEW i \in 1 .. j, y = n + i
        PROVE  /\ Whole(store'[y].frame)
               /\ \A x \in FromSerial' : x < y /\ (\A k \in FromSerial' : k <= x \/ k >= y) =>
                     store'[y].frame[1].line = store'[x].frame[1].line + 1
    <3>1. Whole(store'[y].frame) /\ store'[y].frame[1].line = m + i
      BY <1>5, <2>2
    <3>2. ASSUME NEW x \in FromSerial', x < y, \A k \in FromSerial' : k <= x \/ k >= y
          PROVE  store'[x].frame[1].line = m + (i - 1)
      <4>1. CASE i = 1
        <5>1. \A h \in 1 .. j : ~(n + h < y)
          BY <1>0, <2>2, <4>1
        <5>2. x \in FromSerial
          BY <1>4, <3>2, <5>1
        <5>3. \A k \in FromSerial : k <= x
          <6> TAKE k \in FromSerial
          <6>1. ~(k >= y) /\ k \in FromSerial'
            BY <1>0, <1>4, <2>2, <4>1
          <6> QED BY <3>2, <6>1
        <5>4. store'[x].frame[1].line = m
          BY <1>6, <5>2, <5>3
        <5>5. m + (i - 1) = m
          BY <4>1
        <5> QED BY <5>4, <5>5
      <4>2. CASE i # 1
        <5>1. i - 1 \in 1 .. j /\ n + (i - 1) \in FromSerial'
          BY <1>4, <4>2
        <5>2. x \in Int
          BY <1>0, <1>4
        <5>3. x = n + (i - 1)
          BY <1>0, <2>2, <3>2, <5>1, <5>2
        <5> QED BY <1>5, <5>1, <5>3
      <4> QED BY <4>1, <4>2
    <3>3. m + i = m + (i - 1) + 1
      OBVIOUS
    <3> QED BY <3>1, <3>2, <3>3
  <2> QED BY <1>4, <2>1, <2>2
<1>8. ASSUME NEW x \in FromSerial', \A k \in FromSerial' : k <= x
      PROVE  store'[x].frame[1].line = m + j
  <2>1. CASE j = 0
    <3>1. FromSerial' = FromSerial
      BY <1>4, <2>1
    <3>2. store'[x].frame[1].line = m
      BY <1>6, <1>8, <3>1
    <3>3. m + j = m
      BY <2>1
    <3> QED BY <3>2, <3>3
  <2>2. CASE j # 0
    <3>1. j \in 1 .. j /\ n + j \in FromSerial' /\ n + j <= x
      BY <1>4, <1>8, <2>2
    <3>2. x = n + j
      BY <1>0, <1>4, <3>1
    <3> QED BY <1>5, <3>1, <3>2
  <2> QED BY <2>1, <2>2
<1> QED BY <1>7, <1>8

LEMMA StreamStays ==
  ASSUME StreamInv, SerialInv', UNCHANGED streamVars, serialConn' => serialConn, crossed => crossed'
  PROVE  StreamInv'
<1>1. UNCHANGED <<wire, lines, inputBuffer, store, tainted>>
  BY DEF streamVars
<1>2. StreamTypeOK' /\ WholeFrames' /\ FromSerial' = FromSerial
  BY <1>1 DEF StreamInv, StreamTypeOK, WholeFrames, Whole, FromSerial
<1>3. \A m \in 0 .. lines : FedUpTo(m) => FedUpTo(m)'
  BY <1>1, <1>2 DEF FedUpTo
<1> QED BY <1>1, <1>2, <1>3 DEF StreamInv

LEMMA AfterBellTyped == ASSUME NEW buf \in Seq(Tokens) PROVE AfterBell(buf) \in Seq(Tokens)
<1> DEFINE bells == {i \in DOMAIN buf : buf[i] = Bell}
           c == CHOOSE i \in bells : \A j \in bells : i <= j
<1>1. CASE bells = {}
  BY <1>1 DEF AfterBell
<1>2. CASE bells # {}
  <2>1. bells \in SUBSET Nat /\ bells \subseteq 1 .. Len(buf)
    OBVIOUS
  <2>2. \E i \in bells : \A j \in bells : i <= j
    <3> HIDE DEF bells
    <3> QED BY <1>2, <2>1, LeastNat
  <2>3. c \in bells
    <3> HIDE DEF bells
    <3> QED BY <2>2
  <2>4. AfterBell(buf) = SubSeq(buf, 1 + c, Len(buf))
    BY <1>2 DEF AfterBell
  <2>5. c \in 1 .. Len(buf)
    BY <2>1, <2>3
  <2> HIDE DEF c
  <2> QED BY <2>4, <2>5
<1> QED BY <1>1, <1>2

\* What is left of the stream holds no BELL.
LEMMA BegunLemma ==
  ASSUME NEW x \in Nat, NEW r \in 0 .. 2, NEW b, b = Begun(x + 1, r)
  PROVE  /\ b \in Seq(Tokens) /\ Len(b) = r /\ AfterBell(b) = b
         /\ \A k \in 1 .. r : b[k] = Sent(3 * x + k)
<1>1. x + 1 \in Nat
  OBVIOUS
<1>2. Half(x + 1, 1) \in Tokens /\ Half(x + 1, 2) \in Tokens /\ Half(x + 1, 1) # Bell /\ Half(x + 1, 2) # Bell
  <2>1. x + 1 # 0 /\ Half(x + 1, 1).line = x + 1 /\ Half(x + 1, 2).line = x + 1 /\ Bell.line = 0
    BY <1>1, TokensLemma DEF Bell
  <2>2. Half(x + 1, 1) \in Tokens /\ Half(x + 1, 2) \in Tokens
    BY <1>1, TokensLemma
  <2> QED BY <2>1, <2>2
<1>3. /\ b \in Seq(Tokens) /\ Len(b) = r /\ (r > 0 => b[1] = Half(x + 1, 1)) /\ (r > 1 => b[2] = Half(x + 1, 2))
  <2> DEFINE a1 == Half(x + 1, 1)
             a2 == Half(x + 1, 2)
  <2>1. b = IF r = 0 THEN <<>> ELSE IF r = 1 THEN <<a1>> ELSE <<a1, a2>>
    BY DEF Begun, FrameOf
  <2>2. a1 \in Tokens /\ a2 \in Tokens
    BY <1>2
  <2> HIDE DEF a1, a2
  <2>3. b \in Seq(Tokens) /\ Len(b) = r /\ (r > 0 => b[1] = a1) /\ (r > 1 => b[2] = a2)
    <3>0. /\ <<>> \in Seq(Tokens) /\ <<a1>> \in Seq(Tokens) /\ <<a1, a2>> \in Seq(Tokens)
          /\ Len(<<>>) = 0 /\ Len(<<a1>>) = 1 /\ Len(<<a1, a2>>) = 2
          /\ <<a1>>[1] = a1 /\ <<a1, a2>>[1] = a1 /\ <<a1, a2>>[2] = a2
      BY <2>2
    <3>1. CASE r = 0
      <4>1. b = <<>>
        BY <2>1, <3>1, Zenon
      <4>2. ~(r > 0) /\ ~(r > 1)
        BY <3>1
      <4> QED BY <3>0, <3>1, <4>1, <4>2, Zenon
    <3>2. CASE r = 1
      <4>1. b = <<a1>>
        BY <2>1, <3>2
      <4>2. ~(r > 1)
        BY <3>2
      <4> QED BY <3>0, <3>2, <4>1, <4>2, Zenon
    <3>3. CASE r = 2
      <4>1. b = <<a1, a2>>
        BY <2>1, <3>3
      <4> QED BY <3>0, <3>3, <4>1
    <3> QED BY <3>1, <3>2, <3>3
  <2> QED BY <2>3 DEF a1, a2
<1>4. DOMAIN b = 1 .. r
  BY <1>3
<1>5. \A k \in 1 .. r : k = 1 \/ (k = 2 /\ r > 1)
  OBVIOUS
<1>6. \A k \in DOMAIN b : b[k] # Bell
  BY <1>2, <1>3, <1>4, <1>5
<1>7. AfterBell(b) = b
  BY <1>6 DEF AfterBell
<1>8. \A k \in 1 .. r : b[k] = Sent(3 * x + k)
  BY <1>3, <1>5, SentTokens
<1> QED BY <1>3, <1>7, <1>8

LEMMA SendKeeps == ASSUME StreamInv, SerialInv', AdapterSends PROVE StreamInv'
<1> DEFINE n == lines + 1
           sent == <<Half(n, 1), Half(n, 2), CR>>
           L == Len(wire)
<1>0. /\ UNCHANGED <<serialConn, inputBuffer, store, crossed>> /\ lines' = n /\ lines \in Nat /\ n \in 0 .. MaxLines
      /\ wire \in Seq(Tokens) /\ inputBuffer \in Seq(Tokens) /\ n \in Nat
  BY SerialAssumption DEF AdapterSends, StreamInv, StreamTypeOK, SerialAssumption
<1>1. FromSerial' = FromSerial
  BY <1>0 DEF FromSerial
<1>2. Half(n, 1) \in Tokens /\ Half(n, 2) \in Tokens /\ CR \in Tokens /\ Bell \in Tokens
  BY <1>0, TokensLemma
<1>3. CASE wire' = wire \o sent /\ UNCHANGED tainted
  <2>1. sent \in Seq(Tokens) /\ Len(sent) = 3 /\ \A k \in 1 .. 3 : sent[k] = Sent(3 * lines + k)
    <3>1. \A k \in 1 .. 3 : k = 1 \/ k = 2 \/ k = 3
      OBVIOUS
    <3>2. Sent(3 * lines + 1) = Half(n, 1) /\ Sent(3 * lines + 2) = Half(n, 2) /\ Sent(3 * lines + 3) = CR
      BY <1>0, SentTokens
    <3> DEFINE a == Half(n, 1)
               b == Half(n, 2)
               c == CR
    <3> HIDE DEF a, b, c
    <3>3. ASSUME a \in Tokens, b \in Tokens, c \in Tokens
          PROVE  <<a, b, c>> \in Seq(Tokens) /\ Len(<<a, b, c>>) = 3
                 /\ <<a, b, c>>[1] = a /\ <<a, b, c>>[2] = b /\ <<a, b, c>>[3] = c
      BY <3>3
    <3>4. sent \in Seq(Tokens) /\ Len(sent) = 3 /\ sent[1] = Half(n, 1) /\ sent[2] = Half(n, 2) /\ sent[3] = CR
      BY <1>2, <3>3 DEF a, b, c
    <3> HIDE DEF sent
    <3> QED BY <3>1, <3>2, <3>4
  <2> HIDE DEF sent
  <2>2. /\ wire' \in Seq(Tokens) /\ Len(wire') = L + 3 /\ \A k \in 1 .. L : wire'[k] = wire[k]
        /\ \A k \in 1 .. 3 : wire'[L + k] = sent[k]
    <3>1. Len(wire) \in Nat
      BY <1>0
    <3> HIDE DEF L
    <3>2. /\ wire \o sent \in Seq(Tokens) /\ Len(wire \o sent) = Len(wire) + Len(sent)
          /\ \A i \in 1 .. Len(wire) + Len(sent) :
               (wire \o sent)[i] = IF i <= Len(wire) THEN wire[i] ELSE sent[i - Len(wire)]
      BY <1>0, <2>1, ConcatProperties
    <3>3. wire' \in Seq(Tokens) /\ Len(wire') = L + 3
      BY <1>3, <2>1, <3>2 DEF L
    <3>4. \A k \in 1 .. L : wire'[k] = wire[k]
      BY <1>3, <2>1, <3>1, <3>2 DEF L
    <3>5. ASSUME NEW k \in 1 .. 3 PROVE wire'[L + k] = sent[k]
      <4>1. L + k \in 1 .. L + 3 /\ ~(L + k <= L) /\ (L + k) - L = k
        BY <3>1 DEF L
      <4> QED BY <1>3, <2>1, <3>2, <4>1 DEF L
    <3> QED BY <3>3, <3>4, <3>5
  <2>3. ASSUME NEW m \in 0 .. lines, FedUpTo(m) PROVE FedUpTo(m)'
    <3> DEFINE B == Len(inputBuffer)
    <3>1. L \in Nat /\ B \in Nat /\ B + L = 3 * (lines - m) /\ m \in Nat
      BY <1>0, <2>3 DEF FedUpTo
    <3>2. \A k \in 1 .. L : wire[k] = Sent(3 * m + B + k)
      BY <2>3 DEF FedUpTo
    <3>3. Len(inputBuffer') + Len(wire') = 3 * (lines' - m)
      <4>1. B + (L + 3) = 3 * (n - m)
        BY <1>0, <3>1
      <4>2. Len(inputBuffer') = B /\ Len(wire') = L + 3 /\ lines' = n
        BY <1>0, <2>2
      <4> QED BY <4>1, <4>2
    <3> HIDE DEF B, L
    <3>4. ASSUME NEW k \in 1 .. L + 3 PROVE wire'[k] = Sent(3 * m + B + k)
      <4>1. CASE k \in 1 .. L
        BY <2>2, <3>2, <4>1
      <4>2. CASE k \notin 1 .. L
        <5>1. k - L \in 1 .. 3 /\ k = L + (k - L)
          BY <3>1, <4>2
        <5>2. wire'[k] = Sent(3 * lines + (k - L))
          BY <2>1, <2>2, <5>1
        <5>3. 3 * lines + (k - L) = 3 * m + B + k
          BY <1>0, <3>1
        <5> QED BY <5>2, <5>3
      <4> QED BY <4>1, <4>2
    <3>5. \A k \in 1 .. Len(wire') : wire'[k] = Sent(3 * m + Len(inputBuffer') + k)
      BY <1>0, <2>2, <3>4 DEF B
    <3> QED BY <1>0, <1>1, <2>3, <3>3, <3>5 DEF FedUpTo
  <2>4. WholeFrames'
    BY <1>0, <1>1, <1>3 DEF StreamInv, WholeFrames, Whole
  <2> QED BY <1>0, <1>1, <1>3, <2>2, <2>3, <2>4 DEF StreamInv, StreamTypeOK
<1>4. CASE wire' = Append(wire, Bell) /\ tainted' = TRUE
  BY <1>0, <1>1, <1>2, <1>4 DEF StreamInv, StreamTypeOK, WholeFrames
<1> QED BY <1>3, <1>4 DEF AdapterSends

LEMMA OpenKeeps == ASSUME StreamInv, SerialInv', PortOpened PROVE StreamInv'
<1>1. UNCHANGED <<lines, inputBuffer, crossed>> /\ wire' = <<>> /\ tainted' = (tainted \/ inputBuffer # <<>>)
  BY DEF PortOpened
<1>2. CASE store' = <<>>
  <2>1. StreamTypeOK'
    BY <1>1, <1>2 DEF StreamInv, StreamTypeOK
  <2>2. FromSerial' = {} /\ DOMAIN store' = {}
    BY <1>2 DEF FromSerial
  <2>3. ~tainted' => FedUpTo(lines)' /\ lines' \in 0 .. lines'
    <3>1. lines \in Nat
      BY DEF StreamInv, StreamTypeOK
    <3>2. lines' = lines /\ lines \in 0 .. lines
      BY <1>1, <3>1
    <3>3. ASSUME ~tainted' PROVE FedUpTo(lines)'
      <4>1. inputBuffer' = <<>> /\ wire' = <<>> /\ 3 * (lines' - lines') = 0
        <5>1. inputBuffer = <<>>
          BY <1>1, <3>3, Zenon
        <5> QED BY <1>1, <3>1, <3>2, <5>1
      <4>2. Len(inputBuffer') = 0 /\ Len(wire') = 0
        BY <4>1
      <4> QED BY <2>2, <4>1, <4>2 DEF FedUpTo
    <3> QED BY <3>2, <3>3
  <2> QED BY <1>1, <2>1, <2>2, <2>3 DEF StreamInv, WholeFrames
<1>3. CASE serialConn' = FALSE /\ store' = store
  <2>1. StreamTypeOK' /\ FromSerial' = FromSerial
    BY <1>1, <1>3 DEF StreamInv, StreamTypeOK, FromSerial
  <2> QED BY <1>1, <1>3, <2>1 DEF StreamInv, WholeFrames, Whole
<1> QED BY <1>2, <1>3 DEF PortOpened, ConnectFails

\* What the socket delivers is dropped while it is suppressed, and is not from the port.
LEMMA SocketKeeps == ASSUME StreamInv, SerialInv, SerialInv', SocketDelivers PROVE StreamInv'
<1>1. UNCHANGED <<wire, lines, inputBuffer, tainted, serialConn, crossed>>
  BY DEF SocketDelivers
<1>2. CASE store' = store
  BY <1>1, <1>2, StreamStays DEF streamVars
<1>3. CASE ~suppressed /\ store' = Append(store, [from |-> "socket", frame |-> <<>>])
  <2> DEFINE x == [from |-> "socket", frame |-> <<>>]
  <2>1. x \in Stored /\ x.from # "serial"
    BY DEF Stored
  <2> HIDE DEF x
  <2>2. /\ store' \in Seq(Stored) /\ DOMAIN store' = DOMAIN store \cup {Len(store) + 1}
        /\ Len(store) + 1 \notin DOMAIN store /\ store'[Len(store) + 1] = x
        /\ \A i \in DOMAIN store : store'[i] = store[i]
    BY <1>3, <2>1 DEF StreamInv, StreamTypeOK, x
  <2>3. FromSerial' = FromSerial /\ \A i \in FromSerial : store'[i] = store[i]
    BY <2>1, <2>2 DEF FromSerial
  <2>4. WholeFrames'
    BY <1>1, <2>3 DEF StreamInv, WholeFrames, Whole
  <2>5. \A m \in 0 .. lines : FedUpTo(m) => FedUpTo(m)'
    BY <1>1, <2>3 DEF FedUpTo
  <2>6. ~serialConn \/ crossed
    BY <1>3 DEF SerialInv, SessionSuppresses
  <2> QED BY <1>1, <2>2, <2>4, <2>5, <2>6 DEF StreamInv, StreamTypeOK
<1> QED BY <1>2, <1>3 DEF SocketDelivers

\* A chunk is read: of the stream a session follows, whole frames go to the store and a piece of
\* the next stays in the buffer.
LEMMA ChunkKeeps ==
  ASSUME StreamInv, SerialInv', NEW n \in 1 .. Len(wire), NEW chance \in BOOLEAN, ChunkRead(n, chance)
  PROVE  StreamInv'
<1> DEFINE buf == inputBuffer \o SubSeq(wire, 1, n)
           read == Cut(buf, chance)
           new == [i \in DOMAIN read.frames |-> [from |-> "serial", frame |-> read.frames[i]]]
           B == Len(inputBuffer)
           L == Len(wire)
<1>0. /\ wire \in Seq(Tokens) /\ inputBuffer \in Seq(Tokens) /\ store \in Seq(Stored) /\ lines \in 0 .. MaxLines
      /\ B \in Nat /\ L \in Nat /\ MaxLines \in Nat
  BY SerialAssumption DEF StreamInv, StreamTypeOK, SerialAssumption
<1>1. /\ UNCHANGED <<serialConn, lines, tainted, crossed>> /\ serialConn
      /\ wire' = SubSeq(wire, n + 1, L) /\ inputBuffer' = AfterBell(read.rest) /\ store' = store \o new
  BY DEF ChunkRead
<1>2. /\ buf \in Seq(Tokens) /\ Len(buf) = B + n /\ \A k \in 1 .. B : buf[k] = inputBuffer[k]
      /\ \A k \in 1 .. n : buf[B + k] = wire[k]
  <2> DEFINE s == SubSeq(wire, 1, n)
  <2>1. s \in Seq(Tokens) /\ Len(s) = n /\ \A k \in 1 .. n : s[k] = wire[k]
    BY <1>0
  <2> HIDE DEF s
  <2>2. /\ inputBuffer \o s \in Seq(Tokens) /\ Len(inputBuffer \o s) = Len(inputBuffer) + Len(s)
        /\ \A i \in 1 .. Len(inputBuffer) + Len(s) :
             (inputBuffer \o s)[i] = IF i <= Len(inputBuffer) THEN inputBuffer[i] ELSE s[i - Len(inputBuffer)]
    BY <1>0, <2>1, ConcatProperties
  <2>3. ASSUME NEW k \in 1 .. n PROVE (inputBuffer \o s)[B + k] = s[k]
    <3>1. B + k \in 1 .. B + n /\ ~(B + k <= B) /\ (B + k) - B = k
      BY <1>0
    <3> QED BY <2>1, <2>2, <3>1
  <2>4. \A k \in 1 .. B : (inputBuffer \o s)[k] = inputBuffer[k]
    BY <1>0, <2>1, <2>2
  <2> QED BY <2>1, <2>2, <2>3, <2>4 DEF s
<1>3. /\ wire' \in Seq(Tokens) /\ Len(wire') = L - n /\ \A k \in 1 .. L - n : wire'[k] = wire[n + k]
  <2>1. n + 1 \in 1 .. L + 1
    BY <1>0
  <2> QED BY <1>0, <1>1, <2>1
<1> HIDE DEF buf, read, B, L
<1>4. read \in Parsed
  BY <1>2, CutTyped DEF read
<1>5. /\ new \in Seq(Stored) /\ Len(new) \in Nat /\ \A i \in DOMAIN new : new[i].from = "serial"
      /\ read.rest \in Seq(Tokens)
  <2> DEFINE Q == Seq(Tokens)
             f == read.frames
  <2>1. read \in [frames : Seq(Q), rest : Q]
    BY <1>4 DEF Parsed
  <2> HIDE DEF Q
  <2>2. f \in Seq(Q) /\ read.rest \in Q
    BY <2>1
  <2> HIDE DEF f
  <2>3. DOMAIN f = 1 .. Len(f) /\ Len(f) \in Nat /\ \A i \in DOMAIN f : f[i] \in Q
    BY <2>2
  <2>4. \A i \in DOMAIN f : [from |-> "serial", frame |-> f[i]] \in Stored
    BY <2>3 DEF Stored, Q
  <2>5. [i \in DOMAIN f |-> [from |-> "serial", frame |-> f[i]]] \in Seq(Stored)
    BY <2>3, <2>4
  <2> QED BY <2>2, <2>5 DEF f, Q
<1>6. StreamTypeOK'
  <2>1. inputBuffer' \in Seq(Tokens)
    BY <1>1, <1>5, AfterBellTyped
  <2> HIDE DEF new
  <2>2. store' \in Seq(Stored)
    BY <1>0, <1>1, <1>5
  <2> QED BY <1>0, <1>1, <1>3, <2>1, <2>2 DEF StreamTypeOK
<1>7. serialConn' /\ ~crossed' => FromSerial' = DOMAIN store'
  <2> SUFFICES ASSUME serialConn, ~crossed PROVE FromSerial' = DOMAIN store'
    BY <1>1
  <2>1. FromSerial = DOMAIN store
    BY DEF StreamInv
  <2> HIDE DEF new
  <2>2. \A x \in DOMAIN store' : store'[x].from = "serial"
    <3> TAKE x \in DOMAIN store'
    <3>1. Len(store) \in Nat /\ DOMAIN store = 1 .. Len(store) /\ DOMAIN new = 1 .. Len(new)
      BY <1>0, <1>5
    <3>2. /\ x \in 1 .. Len(store) + Len(new)
          /\ store'[x] = IF x <= Len(store) THEN store[x] ELSE new[x - Len(store)]
      BY <1>0, <1>1, <1>5, ConcatProperties
    <3>3. CASE x <= Len(store)
      BY <2>1, <3>1, <3>2, <3>3 DEF FromSerial
    <3>4. CASE ~(x <= Len(store))
      <4>1. x - Len(store) \in DOMAIN new
        BY <1>5, <3>1, <3>2, <3>4
      <4> QED BY <1>5, <3>2, <3>4, <4>1
    <3> QED BY <3>3, <3>4
  <2> QED BY <2>2 DEF FromSerial
<1>8. CASE tainted
  BY <1>1, <1>6, <1>7, <1>8 DEF StreamInv, WholeFrames
<1>9. CASE ~tainted
  <2>1. PICK m \in 0 .. lines : FedUpTo(m)
    BY <1>1, <1>9 DEF StreamInv
  <2>2. /\ B + L = 3 * (lines - m) /\ \A k \in 1 .. B : inputBuffer[k] = Sent(3 * m + k)
        /\ \A k \in 1 .. L : wire[k] = Sent(3 * m + B + k)
        /\ \A i \in FromSerial : (\A k \in FromSerial : k <= i) => store[i].frame[1].line = m
    BY <2>1 DEF FedUpTo, B, L
  <2>3. m \in Nat /\ n \in 1 .. L /\ lines \in Nat
    BY <1>0, <2>1 DEF L
  <2>4. \A k \in 1 .. Len(buf) : buf[k] = Sent(3 * m + k)
    <3> TAKE k \in 1 .. Len(buf)
    <3>1. CASE k \in 1 .. B
      BY <1>2, <2>2, <3>1
    <3>2. CASE k \notin 1 .. B
      <4>1. k - B \in 1 .. n /\ k - B \in 1 .. L /\ B + (k - B) = k /\ 3 * m + B + (k - B) = 3 * m + k
        BY <1>0, <1>2, <2>3, <3>2
      <4>2. buf[B + (k - B)] = wire[k - B] /\ wire[k - B] = Sent(3 * m + B + (k - B))
        BY <1>2, <2>2, <4>1
      <4> QED BY <4>1, <4>2
    <3> QED BY <3>1, <3>2
  <2>5. 3 * m + Len(buf) <= 3 * MaxLines
    BY <1>0, <1>2, <2>2, <2>3
  <2>6. PICK j \in Nat, r \in 0 .. 2 :
           Len(buf) = 3 * j + r /\ read = [frames |-> Lines(m, j), rest |-> Begun(m + j + 1, r)]
    <3>1. \E j \in Nat, r \in 0 .. 2 :
             Len(buf) = 3 * j + r /\ Cut(buf, chance) = [frames |-> Lines(m, j), rest |-> Begun(m + j + 1, r)]
      <4> HIDE DEF new
      <4>1. buf \in Seq(Tokens) /\ m \in Nat
        BY <1>2, <2>3
      <4> QED BY <2>4, <2>5, <4>1, CutSent
    <3> QED BY <3>1 DEF read
  <2>7. m + j <= lines /\ m + j \in 0 .. lines /\ m + j <= MaxLines /\ m + j \in Nat
    <3>1. B + n = 3 * j + r /\ B + L = 3 * (lines - m) /\ n \in 1 .. L
      BY <1>2, <2>2, <2>3, <2>6
    <3>2. B \in Nat /\ L \in Nat /\ lines \in 0 .. MaxLines /\ MaxLines \in Nat /\ m \in 0 .. lines
      BY <1>0
    <3>3. m + j <= lines
      BY <3>1, <3>2
    <3> QED BY <3>2, <3>3
  <2>8. new = [i \in 1 .. j |-> [from |-> "serial", frame |-> Lines(m, j)[i]]]
    <3>1. read.frames = Lines(m, j)
      BY <2>6
    <3>2. DOMAIN Lines(m, j) = 1 .. j
      BY <2>3, LinesLemma
    <3> QED BY <3>1, <3>2
  <2> HIDE DEF new
  <2>9. /\ WholeFrames'
        /\ \A i \in FromSerial' : (\A k \in FromSerial' : k <= i) => store'[i].frame[1].line = m + j
    <3>1. StreamTypeOK /\ WholeFrames /\ ~tainted /\ ~tainted'
      BY <1>1, <1>9 DEF StreamInv
    <3> QED BY <1>1, <2>2, <2>3, <2>7, <2>8, <3>1, StoredNext
  <2>10. /\ Len(inputBuffer') = r /\ \A k \in 1 .. r : inputBuffer'[k] = Sent(3 * (m + j) + k)
    <3> DEFINE b == Begun(m + j + 1, r)
    <3>1. read.rest = b
      BY <2>6
    <3>2. /\ b \in Seq(Tokens) /\ Len(b) = r /\ AfterBell(b) = b
          /\ \A k \in 1 .. r : b[k] = Sent(3 * (m + j) + k)
      BY <2>7, BegunLemma
    <3> HIDE DEF b
    <3> QED BY <1>1, <3>1, <3>2
  <2>11. Len(inputBuffer') + Len(wire') = 3 * (lines' - (m + j))
    <3>1. Len(wire') = L - n /\ B + n = 3 * j + r /\ Len(inputBuffer') = r /\ lines' = lines
      BY <1>1, <1>2, <1>3, <2>6, <2>10
    <3>2. r + (L - n) = 3 * (lines - (m + j))
      <4>1. B + L = 3 * (lines - m) /\ B \in Int /\ L \in Int /\ n \in Int /\ lines \in Int /\ m \in Int
        BY <1>0, <2>2, <2>3
      <4> QED BY <3>1, <4>1
    <3> QED BY <3>1, <3>2
  <2>12. \A k \in 1 .. Len(wire') : wire'[k] = Sent(3 * (m + j) + Len(inputBuffer') + k)
    <3> TAKE k \in 1 .. Len(wire')
    <3>1. k \in 1 .. L - n /\ n + k \in 1 .. L
      BY <1>0, <1>3, <2>3
    <3>2. wire'[k] = wire[n + k] /\ wire[n + k] = Sent(3 * m + B + (n + k))
      BY <1>3, <2>2, <3>1
    <3>3. 3 * m + B + (n + k) = 3 * (m + j) + r + k
      BY <1>0, <1>2, <2>3, <2>6
    <3> QED BY <2>10, <3>2, <3>3
  <2>13. FedUpTo(m + j)'
    BY <2>9, <2>10, <2>11, <2>12 DEF FedUpTo
  <2> QED BY <1>1, <1>6, <1>7, <2>7, <2>9, <2>13 DEF StreamInv
<1> QED BY <1>8, <1>9

LEMMA StreamStart == ASSUME SerialInit PROVE StreamInv
<1>1. StreamTypeOK
  BY SerialAssumption DEF SerialInit, StreamTypeOK, SerialAssumption
<1>2. FromSerial = {} /\ DOMAIN store = {}
  BY DEF SerialInit, FromSerial
<1> QED BY <1>1, <1>2 DEF SerialInit, StreamInv, WholeFrames, SerialInv, PortInv, SuppressionOwned,
                          SessionSuppresses

LEMMA StreamNextKeeps == ASSUME StreamInv, [SerialNext]_serialVars PROVE StreamInv'
<1>1. SerialInv /\ SerialInv'
  BY SerialNextKeeps DEF StreamInv
<1>2. CASE ConnectClicked \/ PortChosen \/ SlcanReady
  <2>1. UNCHANGED streamVars
    BY <1>2 DEF ConnectClicked, PortChosen, SlcanReady
  <2>3. crossed => crossed'
    BY <1>2, Zenon DEF ConnectClicked, PortChosen, SlcanReady
  <2>2. serialConn' => serialConn
    BY <1>2 DEF ConnectClicked, PortChosen, SlcanReady, ConnectFails
  <2> QED BY <1>1, <2>1, <2>2, <2>3, StreamStays
<1>3. CASE DisconnectClicked \/ CloseWritten \/ ReaderCancelled \/ PortClosed \/ AdapterLost
  <2>1. UNCHANGED streamVars /\ (serialConn' => serialConn) /\ (crossed => crossed')
    BY <1>3 DEF DisconnectClicked, CloseWritten, ReaderCancelled, PortClosed, AdapterLost, Disconnects
  <2> QED BY <1>1, <2>1, StreamStays
<1>4. CASE UNCHANGED serialVars
  BY <1>1, <1>4, StreamStays DEF serialVars, streamVars
<1> QED BY <1>1, <1>2, <1>3, <1>4, OpenKeeps, SendKeeps, SocketKeeps, ChunkKeeps DEF SerialNext

LEMMA StreamAlways == SerialSpec => []StreamInv
BY StreamStart, StreamNextKeeps, PTL DEF SerialSpec

\* However the bytes of the serial port are cut into chunks, for any number of lines, sessions
\* and chunks, the store gets the adapter's frames whole and in order, none twice and none left
\* out (SerialService.ts: handleSerialChunk), unless a BELL came or a session began with a piece.
THEOREM PortFramesAreWhole == SerialSpec => []WholeFrames
<1>1. StreamInv => WholeFrames
  BY DEF StreamInv
<1> QED BY <1>1, StreamAlways, PTL

\* And while a session lasts and was not crossed, the store holds nothing of the WebSocket
\* (TelemetryHandler.ts: the suppression, set and cleared with the port).
THEOREM PortFeedsAlone == SerialSpec => []OneSource
<1>1. StreamInv => OneSource
  BY DEF StreamInv, OneSource, FromSerial
<1> QED BY <1>1, StreamAlways, PTL

\* The two feeds of the store together: one socket at most ingests and it is never given up,
\* and the port's frames come whole and alone.
THEOREM FeedsAreOne == FeedSpec => []StoreIsFed
<1>1. OneSocketIngests /\ NeverAbandoned /\ WholeFrames /\ SuppressionOwned /\ OneSource => StoreIsFed
  BY DEF StoreIsFed
<1> QED BY <1>1, OneSocketAtATime, SocketNeverAbandoned, PortFramesAreWhole, SuppressedForSession,
           PortFeedsAlone, PTL DEF FeedSpec

----------------------------------------------------------------------------
(* The transmit page. On the wire only the acknowledgements matter, and on *)
(* the page what it waits for.                                             *)

TxForm == [msg : TxMessages \cup {Unset}, values : Nat]
TxMessage == [kind : {"preview", "send", "bytes", "ack", "error"}, ref : Nat, msg : TxMessages \cup {Unset}, values : Nat]
TxSock == [st : {"connecting", "open", "closed"}, out : Seq(TxMessage), back : Seq(TxMessage)]
Delayed == [ref : Nat \ {Unset}, msg : TxMessages \cup {Unset}, values : Nat, bytes : TxForm, mount : Nat]
Says == {"none", "sending", "ok", "error"}

Answered == bus \cup busless
AcksWritten(back, written) == \A k \in DOMAIN back : back[k].kind = "ack" => back[k].ref \in written
OthersClosed == ~txOverlap => \A i \in DOMAIN txSocks : i # txWs => txSocks[i].st = "closed"
WireInv ==
  /\ txSocks \in Seq(TxSock) /\ txWs \in {Unset} \cup DOMAIN txSocks
  /\ txConnected \in BOOLEAN /\ txOverlap \in BOOLEAN
  /\ \A i \in DOMAIN txSocks : AcksWritten(txSocks[i].back, Answered)
  /\ GateIsTrue /\ OthersClosed

PendingSays == pendingTx # Unset => feedback = [says |-> "sending", ref |-> pendingTx]
SendInv ==
  /\ pendingTx \in Nat /\ feedback \in [says : Says, ref : Nat]
  /\ PendingSays /\ OkMeansOnBus /\ SendingIsTimed

FormInv == form \in TxForm /\ liveBytes \in TxForm /\ delayed \subseteq Delayed /\ mounts \in Nat /\ refs \in Nat
TxInv == WireInv /\ SendInv /\ FormInv

\* One socket changes what it carries, not its state.
LEMMA WireChanges ==
  ASSUME WireInv, NEW i \in DOMAIN txSocks, NEW s \in TxSock, txSocks' = [txSocks EXCEPT ![i] = s],
         s.st = txSocks[i].st, UNCHANGED <<txWs, txConnected, txOverlap>>, Answered \subseteq Answered', AcksWritten(s.back, Answered')
  PROVE  WireInv'
<1>1. txSocks' \in Seq(TxSock) /\ DOMAIN txSocks' = DOMAIN txSocks
  BY DEF WireInv
<1>2. txSocks'[i] = s /\ \A j \in DOMAIN txSocks : j # i => txSocks'[j] = txSocks[j]
  BY DEF WireInv
<1>3. \A j \in DOMAIN txSocks : txSocks'[j].st = txSocks[j].st
  BY <1>2
<1>4. \A j \in DOMAIN txSocks' : AcksWritten(txSocks'[j].back, Answered')
  BY <1>1, <1>2 DEF WireInv, AcksWritten
<1>5. Unset \notin DOMAIN txSocks
  BY DEF WireInv, Unset
<1>6. TxOpen' = TxOpen
  BY <1>3 DEF WireInv, TxOpen, TxState
<1> QED BY <1>1, <1>3, <1>4, <1>6 DEF WireInv, GateIsTrue, OthersClosed

LEMMA WireStays ==
  ASSUME WireInv, UNCHANGED <<linkVars, Answered>>
  PROVE  WireInv'
BY DEF WireInv, linkVars, GateIsTrue, OthersClosed, TxOpen, TxState

LEMMA Sends ==
  ASSUME WireInv, NEW m \in TxMessage, TxSend(m), UNCHANGED <<txWs, txConnected, txOverlap, Answered>>
  PROVE  WireInv'
<1>1. CASE ~TxOpen
  BY <1>1 DEF TxSend, WireInv, GateIsTrue, OthersClosed, TxOpen, TxState
<1>2. CASE TxOpen
  <2>1. txWs \in DOMAIN txSocks /\ txSocks[txWs] \in TxSock
    BY <1>2 DEF WireInv, TxOpen, TxState
  <2> DEFINE s == [txSocks[txWs] EXCEPT !.out = Append(@, m)]
  <2>2. s \in TxSock /\ s.st = txSocks[txWs].st /\ s.back = txSocks[txWs].back
    <3>1. txSocks[txWs].out \in Seq(TxMessage)
      BY <2>1 DEF TxSock
    <3>2. Append(txSocks[txWs].out, m) \in Seq(TxMessage)
      BY <3>1
    <3> QED BY <2>1, <3>2 DEF TxSock
  <2>3. txSocks' = [txSocks EXCEPT ![txWs] = s]
    BY <1>2 DEF TxSend
  <2>4. AcksWritten(s.back, Answered')
    BY <2>1, <2>2 DEF WireInv
  <2> HIDE DEF s
  <2> QED BY <2>1, <2>2, <2>3, <2>4, WireChanges
<1> QED BY <1>1, <1>2

LEMMA Connects ==
  ASSUME WireInv, TxConnects, UNCHANGED <<txConnected, Answered>>
  PROVE  WireInv'
<1>1. CASE TxOpen
  BY <1>1 DEF TxConnects, WireInv, GateIsTrue, OthersClosed, TxOpen, TxState
<1>2. CASE ~TxOpen
  <2> DEFINE s == [st |-> "connecting", out |-> <<>>, back |-> <<>>]
  <2>1. txSocks' = Append(txSocks, s) /\ txWs' = Len(txSocks) + 1
        /\ txOverlap' = (txOverlap \/ \E i \in DOMAIN txSocks : txSocks[i].st # "closed")
    BY <1>2 DEF TxConnects
  <2>2. s \in TxSock
    BY DEF TxSock
  <2>3. /\ txSocks' \in Seq(TxSock) /\ DOMAIN txSocks' = DOMAIN txSocks \cup {txWs'} /\ txWs' \notin DOMAIN txSocks
        /\ txSocks'[txWs'] = s /\ \A j \in DOMAIN txSocks : txSocks'[j] = txSocks[j]
    BY <2>1, <2>2 DEF WireInv
  <2>4. AcksWritten(s.back, Answered')
    BY DEF AcksWritten
  <2>5. \A j \in DOMAIN txSocks' : AcksWritten(txSocks'[j].back, Answered')
    BY <2>3, <2>4 DEF WireInv
  <2>6. ~TxOpen'
    BY <2>1, <2>3 DEF WireInv, TxOpen, TxState, Unset
  <2>7. ~txOverlap' => ~txConnected'
    BY <1>2, <2>1 DEF WireInv, GateIsTrue
  <2>8. OthersClosed'
    BY <2>1, <2>3 DEF OthersClosed
  <2> QED BY <2>1, <2>3, <2>5, <2>6, <2>7, <2>8 DEF WireInv, GateIsTrue
<1> QED BY <1>1, <1>2

LEMMA SendStays == ASSUME SendInv, UNCHANGED sendVars, Answered \subseteq Answered' PROVE SendInv'
BY DEF Answered, SendInv, sendVars, PendingSays, OkMeansOnBus, SendingIsTimed

LEMMA FormStays == ASSUME FormInv, UNCHANGED <<form, liveBytes, delayed, mounts, refs>> PROVE FormInv'
BY DEF FormInv

LEMMA Settled ==
  ASSUME SendInv, NEW says \in {"ok", "error"}, Settles(says), UNCHANGED Answered, says = "ok" => feedback.ref \in Answered
  PROVE  SendInv'
BY DEF Answered, SendInv, Settles, PendingSays, OkMeansOnBus, SendingIsTimed, Says, Unset

LEMMA Runs ==
  ASSUME WireInv, SendInv, NEW tx \in Delayed, Run(tx), UNCHANGED <<txWs, txConnected, txOverlap, Answered>>
  PROVE  WireInv' /\ SendInv'
<1>0. tx.ref \in Nat /\ tx.ref # Unset
  BY DEF Delayed
<1>1. CASE ~txConnected
  <2>1. SendInv'
    BY <1>0, <1>1 DEF Answered, Run, SendInv, PendingSays, OkMeansOnBus, SendingIsTimed, Says, Unset
  <2> QED BY <1>1, <2>1, WireStays DEF Run, WireInv, GateIsTrue, OthersClosed, TxOpen, TxState
<1>2. CASE txConnected
  <2>1. SendInv'
    BY <1>0, <1>2 DEF Answered, Run, SendInv, PendingSays, OkMeansOnBus, SendingIsTimed, Says
  <2>2. [kind |-> "send", ref |-> tx.ref, msg |-> tx.msg, values |-> tx.values] \in TxMessage
    BY DEF Delayed, TxMessage
  <2> QED BY <1>2, <2>1, <2>2, Sends DEF Run
<1> QED BY <1>1, <1>2

LEMMA AnswerSettles ==
  ASSUME SendInv, FormInv, NEW msg \in TxMessage, msg.kind = "ack" => msg.ref \in Answered, UNCHANGED Answered,
         OnPreview(msg) \/ OnAck(msg) \/ OnErr(msg)
  PROVE  SendInv' /\ liveBytes' \in TxForm
<1>1. CASE OnPreview(msg)
  BY <1>1, SendStays DEF OnPreview, TxMessage, TxForm
<1>2. CASE OnAck(msg)
  <2>1. CASE pendingTx # Unset /\ msg.ref = pendingTx
    <3>1. feedback.ref \in Answered
      BY <1>2, <2>1 DEF OnAck, SendInv, PendingSays
    <3> QED BY <1>2, <2>1, <3>1, Settled DEF OnAck, FormInv
  <2>2. CASE ~(pendingTx # Unset /\ msg.ref = pendingTx)
    BY <1>2, <2>2, SendStays DEF OnAck, FormInv
  <2> QED BY <2>1, <2>2
<1>3. CASE OnErr(msg)
  <2>1. CASE pendingTx # Unset
    BY <1>3, <2>1, Settled DEF OnErr, FormInv
  <2>2. CASE pendingTx = Unset
    BY <1>3, <2>2, SendStays DEF OnErr, FormInv
  <2> QED BY <2>1, <2>2
<1> QED BY <1>1, <1>2, <1>3

LEMMA OpeningIsSafe == ASSUME TxInv, NEW i \in DOMAIN txSocks, TxOpens(i) PROVE TxInv'
<1> DEFINE s == [txSocks[i] EXCEPT !.st = "open"]
<1>0. txSocks[i] \in TxSock
  BY DEF TxInv, WireInv
<1>1. s \in TxSock /\ s.back = txSocks[i].back /\ s.st = "open"
  BY <1>0 DEF TxSock
<1>2. txSocks' = [txSocks EXCEPT ![i] = s] /\ UNCHANGED <<txWs, txOverlap, Answered>> /\ txConnected' = TRUE
  BY DEF Answered, TxOpens
<1> HIDE DEF s
<1>3. /\ txSocks' \in Seq(TxSock) /\ DOMAIN txSocks' = DOMAIN txSocks
      /\ txSocks'[i] = s /\ \A j \in DOMAIN txSocks : j # i => txSocks'[j] = txSocks[j]
  BY <1>1, <1>2 DEF TxInv, WireInv
<1>4. ~txOverlap => i = txWs
  BY DEF TxInv, WireInv, OthersClosed, TxOpens
<1>5. \A j \in DOMAIN txSocks' : AcksWritten(txSocks'[j].back, Answered')
  BY <1>1, <1>2, <1>3 DEF TxInv, WireInv
<1>6. i # Unset
  BY DEF TxInv, WireInv, Unset
<1>7. GateIsTrue' /\ OthersClosed'
  BY <1>1, <1>2, <1>3, <1>4, <1>6 DEF TxInv, WireInv, GateIsTrue, OthersClosed, TxOpen, TxState
<1>8. WireInv'
  BY <1>2, <1>3, <1>5, <1>7 DEF TxInv, WireInv
<1> QED BY <1>8, SendStays, FormStays DEF Answered, TxInv, TxOpens

LEMMA ClosingIsSafe == ASSUME TxInv, NEW i \in DOMAIN txSocks, TxCloses(i) PROVE TxInv'
<1> DEFINE s == [st |-> "closed", out |-> <<>>, back |-> <<>>]
<1>1. s \in TxSock /\ AcksWritten(s.back, Answered')
  BY DEF TxSock, AcksWritten
<1>2. txSocks' = [txSocks EXCEPT ![i] = s] /\ UNCHANGED <<txWs, txOverlap, Answered>> /\ txConnected' = FALSE
  BY DEF Answered, TxCloses
<1>3. /\ txSocks' \in Seq(TxSock) /\ DOMAIN txSocks' = DOMAIN txSocks
      /\ txSocks'[i] = s /\ \A j \in DOMAIN txSocks : j # i => txSocks'[j] = txSocks[j]
  BY <1>1, <1>2 DEF TxInv, WireInv
<1>4. ~txOverlap => i = txWs
  BY DEF TxInv, WireInv, OthersClosed, TxCloses
<1>5. \A j \in DOMAIN txSocks' : AcksWritten(txSocks'[j].back, Answered')
  BY <1>1, <1>2, <1>3 DEF TxInv, WireInv
<1>7. GateIsTrue' /\ OthersClosed'
  BY <1>2, <1>3, <1>4 DEF TxInv, WireInv, GateIsTrue, OthersClosed, TxOpen, TxState
<1>8. WireInv'
  BY <1>2, <1>3, <1>5, <1>7 DEF TxInv, WireInv
<1> QED BY <1>8, SendStays, FormStays DEF Answered, TxInv, TxCloses

LEMMA BridgeIsSafe == ASSUME TxInv, NEW i \in DOMAIN txSocks, BridgeAnswers(i) PROVE TxInv'
<1> DEFINE msg == Head(txSocks[i].out)
           sock(kind) == [txSocks[i] EXCEPT !.out = Tail(@), !.back = Append(@, [msg EXCEPT !.kind = kind])]
<1>0. txSocks[i] \in TxSock /\ AcksWritten(txSocks[i].back, Answered)
  BY DEF TxInv, WireInv
<1>1. txSocks[i].out \in Seq(TxMessage) /\ txSocks[i].out # <<>> /\ txSocks[i].back \in Seq(TxMessage)
  BY <1>0 DEF TxSock, BridgeAnswers
<1>2. msg \in TxMessage /\ Tail(txSocks[i].out) \in Seq(TxMessage)
  BY <1>1
<1>3. PICK kind \in {"bytes", "ack", "error"} : txSocks' = [txSocks EXCEPT ![i] = sock(kind)] /\ (kind = "ack" => msg.ref \in Answered')
  BY DEF Answered, BridgeAnswers
<1>4. Answered \subseteq Answered' /\ UNCHANGED <<txWs, txConnected, txOverlap, sendVars, form, liveBytes, delayed, mounts, refs>>
  BY DEF Answered, BridgeAnswers
<1> DEFINE answer == [msg EXCEPT !.kind = kind]
<1>5. answer \in TxMessage /\ answer.kind = kind /\ answer.ref = msg.ref
  BY <1>2 DEF TxMessage
<1> HIDE DEF answer, msg
<1>6. Append(txSocks[i].back, answer) \in Seq(TxMessage)
  BY <1>1, <1>5
<1>7. sock(kind) \in TxSock /\ sock(kind).st = txSocks[i].st /\ sock(kind).back = Append(txSocks[i].back, answer)
  BY <1>0, <1>1, <1>2, <1>6 DEF TxSock, answer
<1>8. AcksWritten(sock(kind).back, Answered')
  BY <1>0, <1>1, <1>3, <1>4, <1>5, <1>7 DEF AcksWritten
<1> HIDE DEF sock
<1>9. WireInv'
  BY <1>3, <1>4, <1>7, <1>8, WireChanges DEF TxInv
<1> QED BY <1>4, <1>9, SendStays, FormStays DEF TxInv

LEMMA AnswerIsSafe == ASSUME TxInv, NEW i \in DOMAIN txSocks, AnswerArrives(i) PROVE TxInv'
<1> DEFINE msg == Head(txSocks[i].back)
           s == [txSocks[i] EXCEPT !.back = Tail(@)]
<1>0. txSocks[i] \in TxSock /\ AcksWritten(txSocks[i].back, Answered)
  BY DEF TxInv, WireInv
<1>1. txSocks[i].back \in Seq(TxMessage) /\ txSocks[i].back # <<>>
  BY <1>0 DEF TxSock, AnswerArrives
<1>2. Tail(txSocks[i].back) \in Seq(TxMessage) /\ msg \in TxMessage /\ (msg.kind = "ack" => msg.ref \in Answered)
      /\ AcksWritten(Tail(txSocks[i].back), Answered)
  BY <1>0, <1>1 DEF AcksWritten
<1>3. s \in TxSock /\ s.st = txSocks[i].st /\ s.back = Tail(txSocks[i].back)
  BY <1>0, <1>2 DEF TxSock
<1>4. txSocks' = [txSocks EXCEPT ![i] = s] /\ UNCHANGED <<txWs, txConnected, txOverlap, Answered, form, delayed, mounts, refs>>
  BY DEF Answered, AnswerArrives
<1>5. IF mounted THEN OnPreview(msg) \/ OnAck(msg) \/ OnErr(msg) ELSE UNCHANGED <<liveBytes, sendVars>>
  BY DEF Answered, AnswerArrives
<1> HIDE DEF s, msg
<1>6. WireInv'
  BY <1>2, <1>3, <1>4, WireChanges DEF TxInv
<1>7. SendInv' /\ liveBytes' \in TxForm
  BY <1>2, <1>4, <1>5, AnswerSettles, SendStays DEF TxInv, FormInv
<1> QED BY <1>4, <1>6, <1>7 DEF TxInv, FormInv

LEMMA TransmitIsSafe == ASSUME TxInv, NEW later \in BOOLEAN, Transmit(later) PROVE TxInv'
<1> DEFINE tx == [ref |-> refs + 1, msg |-> form.msg, values |-> form.values, bytes |-> liveBytes, mount |-> mounts]
<1>1. tx \in Delayed
  BY DEF TxInv, FormInv, Delayed, TxForm, Unset
<1>2. UNCHANGED <<txWs, txConnected, txAttempts, txRetries, txOverlap, form, liveBytes, mounts, Answered>>
  BY DEF Answered, Transmit
<1>3. CASE ~txConnected
  <2>1. UNCHANGED <<refs, delayed, txSocks, pendingTx, ackTimers>> /\ feedback' = [says |-> "error", ref |-> Unset]
    BY <1>3 DEF Answered, Transmit
  <2>2. pendingTx = Unset
    BY DEF TxInv, SendInv, PendingSays, Transmit
  <2>3. SendInv'
    BY <2>1, <2>2 DEF Answered, TxInv, SendInv, PendingSays, OkMeansOnBus, SendingIsTimed, Says, Unset
  <2> QED BY <1>2, <2>1, <2>3, WireStays, FormStays DEF TxInv, linkVars
<1>4. CASE txConnected /\ later
  <2>1. refs' = refs + 1 /\ delayed' = delayed \cup {tx} /\ UNCHANGED <<txSocks, sendVars>>
    BY <1>4 DEF Answered, Transmit
  <2>2. FormInv'
    BY <1>1, <1>2, <2>1 DEF TxInv, FormInv
  <2> QED BY <1>2, <2>1, <2>2, WireStays, SendStays DEF TxInv, linkVars
<1>5. CASE txConnected /\ ~later
  <2>1. refs' = refs + 1 /\ delayed' = delayed /\ Run(tx)
    BY <1>5 DEF Answered, Transmit
  <2> HIDE DEF tx
  <2>2. WireInv' /\ SendInv'
    BY <1>1, <1>2, <2>1, Runs DEF TxInv
  <2> QED BY <1>2, <2>1, <2>2 DEF TxInv, FormInv
<1> QED BY <1>3, <1>4, <1>5

LEMMA DelayIsSafe == ASSUME TxInv, NEW tx \in delayed, DelayEnds(tx) PROVE TxInv'
<1>1. tx \in Delayed
  BY DEF TxInv, FormInv
<1>2. UNCHANGED <<txWs, txConnected, txAttempts, txRetries, txOverlap, form, liveBytes, mounts, refs, Answered>> /\ delayed' \subseteq delayed
  BY DEF Answered, DelayEnds
<1>3. FormInv'
  BY <1>2 DEF TxInv, FormInv
<1>4. CASE tx.mount = mounts
  <2>1. Run(tx)
    BY <1>4 DEF Answered, DelayEnds
  <2> QED BY <1>1, <1>2, <1>3, <2>1, Runs DEF TxInv
<1>5. CASE tx.mount # mounts /\ txConnected
  <2>1. TxSend([kind |-> "send", ref |-> tx.ref, msg |-> tx.msg, values |-> tx.values]) /\ UNCHANGED sendVars
    BY <1>5 DEF Answered, DelayEnds
  <2>2. [kind |-> "send", ref |-> tx.ref, msg |-> tx.msg, values |-> tx.values] \in TxMessage
    BY <1>1 DEF Delayed, TxMessage
  <2> QED BY <1>2, <1>3, <2>1, <2>2, Sends, SendStays DEF TxInv
<1>6. CASE tx.mount # mounts /\ ~txConnected
  <2>1. UNCHANGED <<txSocks, sendVars>>
    BY <1>6 DEF Answered, DelayEnds
  <2> QED BY <1>2, <1>3, <2>1, WireStays, SendStays DEF TxInv, linkVars
<1> QED BY <1>4, <1>5, <1>6

LEMMA PreviewIsSafe == ASSUME TxInv, PreviewFires PROVE TxInv'
<1> DEFINE m == [kind |-> "preview", ref |-> Unset, msg |-> form.msg, values |-> form.values]
<1>1. m \in TxMessage
  BY DEF TxInv, FormInv, TxForm, TxMessage, Unset
<1>2. IF txConnected THEN TxSend(m) ELSE UNCHANGED txSocks
  BY DEF Answered, PreviewFires
<1>3. UNCHANGED <<txWs, txConnected, txAttempts, txRetries, txOverlap, form, liveBytes, delayed, mounts, sendVars, refs, Answered>>
  BY DEF Answered, PreviewFires
<1> HIDE DEF m
<1>4. WireInv'
  BY <1>1, <1>2, <1>3, Sends, WireStays DEF TxInv, linkVars
<1> QED BY <1>3, <1>4, SendStays, FormStays DEF TxInv

LEMMA TimeoutIsSafe == ASSUME TxInv, NEW ref \in ackTimers, AckTimesOut(ref) PROVE TxInv'
<1>1. SendInv'
  BY DEF Answered, TxInv, SendInv, AckTimesOut, PendingSays, OkMeansOnBus, SendingIsTimed, Says, Unset
<1>2. UNCHANGED <<linkVars, Answered, form, liveBytes, delayed, mounts, refs>>
  BY DEF AckTimesOut, Answered
<1> QED BY <1>1, <1>2, WireStays, FormStays DEF TxInv

LEMMA MountIsSafe == ASSUME TxInv, Mount PROVE TxInv'
<1>1. WireInv'
  BY Connects DEF Answered, TxInv, Mount
<1>2. SendInv'
  BY DEF Answered, Mount, SendInv, PendingSays, OkMeansOnBus, SendingIsTimed, Says, NoFeedback, Unset
<1>3. FormInv'
  BY DEF TxInv, FormInv, Mount, TxForm, NoBytes, Unset
<1> QED BY <1>1, <1>2, <1>3 DEF TxInv

LEMMA EditingIsSafe == ASSUME TxInv, EditSignal \/ \E m \in TxMessages : SelectMessage(m) PROVE TxInv'
<1>1. FormInv'
  BY DEF TxInv, FormInv, EditSignal, SelectMessage, TxForm, NoBytes, Unset
<1>2. UNCHANGED <<linkVars, sendVars, Answered>>
  BY DEF Answered, EditSignal, SelectMessage
<1> QED BY <1>1, <1>2, WireStays, SendStays DEF TxInv

LEMMA TxStart == ASSUME TxInit PROVE TxInv
<1>1. WireInv
  <2>1. txSocks = <<>> /\ txSocks \in Seq(TxSock) /\ DOMAIN txSocks = {}
    BY DEF TxInit
  <2> QED BY <2>1 DEF TxInit, WireInv, GateIsTrue, OthersClosed, TxOpen, TxState, Unset
<1>2. SendInv
  BY DEF Answered, TxInit, SendInv, PendingSays, OkMeansOnBus, SendingIsTimed, Says, NoFeedback, Unset
<1>3. FormInv
  BY DEF TxInit, FormInv, TxForm, NoBytes, Unset
<1> QED BY <1>1, <1>2, <1>3 DEF TxInv

LEMMA TxStep == ASSUME TxInv, [TxNext]_txVars PROVE TxInv'
<1>1. CASE Mount
  BY <1>1, MountIsSafe
<1>2. CASE PreviewFires
  BY <1>2, PreviewIsSafe
<1>3. CASE TxRetryFires
  BY <1>3, Connects, SendStays, FormStays DEF Answered, TxInv, TxRetryFires
<1>4. CASE EditSignal \/ \E m \in TxMessages : SelectMessage(m)
  BY <1>4, EditingIsSafe
<1>5. CASE \E later \in BOOLEAN : Transmit(later)
  BY <1>5, TransmitIsSafe
<1>6. CASE \E tx \in delayed : DelayEnds(tx)
  BY <1>6, DelayIsSafe
<1>7. CASE \E ref \in ackTimers : AckTimesOut(ref)
  BY <1>7, TimeoutIsSafe
<1>8. CASE \E i \in DOMAIN txSocks : TxOpens(i) \/ TxCloses(i) \/ BridgeAnswers(i) \/ AnswerArrives(i)
  BY <1>8, OpeningIsSafe, ClosingIsSafe, BridgeIsSafe, AnswerIsSafe
<1>9. CASE LockChanges \/ Unmount \/ PollGate \/ UNCHANGED txVars
  <2>1. UNCHANGED <<linkVars, sendVars, form, liveBytes, delayed, mounts, refs, Answered>>
    BY <1>9 DEF Answered, LockChanges, Unmount, PollGate, txVars, linkVars, sendVars
  <2> QED BY <2>1, WireStays, SendStays, FormStays DEF TxInv
<1> QED BY <1>1, <1>2, <1>3, <1>4, <1>5, <1>6, <1>7, <1>8, <1>9 DEF TxNext

\* The page says "Transmitted" only of what is on the bus, or was logged by a bridge that has none
\* (websocket_bridge_tx.py), says "sending" only while the timeout that ends it runs, and shows
\* the gate as it is (Transmitter.tsx, TxWebSocketService.ts).
THEOREM PageTellsTruth == TxSpec => []FeedbackIsTrue
<1>1. TxInv => FeedbackIsTrue
  BY DEF TxInv, WireInv, SendInv, FeedbackIsTrue
<1> QED BY <1>1, TxStart, TxStep, PTL DEF TxSpec

----------------------------------------------------------------------------
(* The DBC in use: which text is loaded, and what is decoded with it. *)

Call == [who : {"start", "user"}, file : TeamFiles, step : {"file", "commit", "put"}]
CallsOK == applies \subseteq Call /\ puts \in Seq(Call)

\* While copies are under way it is the last of them that will be found; an upload that is
\* half done has taken the old copy out.
KeepsPicked ==
  ~torn => IF puts # <<>> THEN puts[Len(puts)].file = picked
           ELSE saving = "no" => LoadedText = picked
DbcInv == CallsOK /\ KeepsPicked

LEMMA NoPuts == <<>> \in Seq(Call)
OBVIOUS

\* What an action leaves alone.
Untouched == UNCHANGED <<cacheApi, cacheCopy, storedCopy, puts, torn, saving, picked>>
LEMMA UntouchedKeeps == ASSUME DbcInv, Untouched, applies' \subseteq Call PROVE DbcInv'
BY DEF DbcInv, Untouched, CallsOK, KeepsPicked, LoadedText

LEMMA CommitKeeps == ASSUME DbcInv, NEW a \in applies, CommitArrives(a) PROVE DbcInv'
<1>1. a \in Call /\ puts \in Seq(Call)
  BY DEF DbcInv, CallsOK
<1>2. puts' = Append(puts, a) /\ picked' = a.file /\ applies' = (applies \ {a}) \cup {[a EXCEPT !.step = "put"]}
  BY DEF CommitArrives
<1>3. puts' \in Seq(Call) /\ puts' # <<>> /\ puts'[Len(puts')] = a
  BY <1>1, <1>2
<1>4. [a EXCEPT !.step = "put"] \in Call
  BY <1>1 DEF Call
<1> QED BY <1>1, <1>2, <1>3, <1>4 DEF DbcInv, CallsOK, KeepsPicked

\* The copy that has ended is found unless another is behind it.
LEMMA PutKeeps == ASSUME DbcInv, NEW fits \in BOOLEAN, PutEnds(fits) PROVE DbcInv'
<1>1. puts \in Seq(Call) /\ puts # <<>> /\ puts' = Tail(puts) /\ UNCHANGED <<cacheApi, picked, saving>>
  BY DEF DbcInv, CallsOK, PutEnds, dbcFileVars
<1>2. Head(puts) = puts[1] /\ Head(puts) \in Call /\ puts' \in Seq(Call) /\ Len(puts) \in Nat /\ Len(puts') = Len(puts) - 1
  BY <1>1
<1>3. CallsOK'
  BY <1>2 DEF PutEnds, DbcInv, CallsOK
<1>4. CASE puts' # <<>>
  <2>1. Len(puts) > 1
    BY <1>1, <1>2, <1>4
  <2>2. puts'[Len(puts')] = puts[Len(puts)]
    BY <1>1, <1>2, <2>1
  <2>3. torn => torn'
    BY DEF PutEnds
  <2> QED BY <1>1, <1>3, <1>4, <2>2, <2>3 DEF DbcInv, KeepsPicked
<1>5. CASE puts' = <<>>
  <2>1. Len(puts) = 1
    <3>1. Len(puts') = 0
      BY <1>5
    <3> QED BY <1>2, <3>1
  <2>2. ASSUME ~torn' PROVE Head(puts).file = picked /\ (cacheApi => fits)
    BY <1>1, <1>2, <2>1, <2>2 DEF PutEnds, DbcInv, KeepsPicked
  <2>3. Head(puts).file \in TeamFiles
    BY <1>2 DEF Call
  <2>4. ASSUME ~torn' PROVE LoadedText' = picked
    BY <1>1, <2>2, <2>3, <2>4, DbcAssumption DEF PutEnds, Keeps, LoadedText, Absent, DbcAssumption
  <2> QED BY <1>1, <1>3, <1>5, <2>4 DEF DbcInv, KeepsPicked
<1> QED BY <1>4, <1>5

\* A page that comes up has no calls under way.
LEMMA ComesUp == ASSUME PageComesUp PROVE CallsOK' /\ puts' = <<>> /\ saving' = "no"
BY NoPuts DEF PageComesUp, CallsOK

LEMMA ReloadKeeps == ASSUME DbcInv, ReloadsPage PROVE DbcInv'
<1>1. CallsOK' /\ puts' = <<>> /\ UNCHANGED <<cacheApi, cacheCopy, storedCopy, picked>>
  BY ComesUp DEF ReloadsPage, diskVars
<1>2. ~torn' => ~torn /\ puts = <<>> /\ saving = "no"
  BY DEF ReloadsPage
<1> QED BY <1>1, <1>2 DEF DbcInv, KeepsPicked, LoadedText

\* Uploading and reverting write the copies in full before the page comes up again.
LEMMA RewriteKeeps == ASSUME UploadEnds \/ ClearsCopies PROVE DbcInv'
<1>1. CallsOK' /\ puts' = <<>> /\ cacheApi' = cacheApi
  BY ComesUp DEF UploadEnds, ClearsCopies
<1>2. LoadedText' = picked'
  BY <1>1 DEF UploadEnds, ClearsCopies, LoadedText, Absent, Bundled
<1> QED BY <1>1, <1>2 DEF DbcInv, KeepsPicked

LEMMA StartKeeps == ASSUME DbcInv, StartGoesOn PROVE DbcInv'
<1>1. CASE LoadsCopy \/ ListFails
  BY <1>1, UntouchedKeeps DEF LoadsCopy, ListFails, Untouched, diskVars, DbcInv, CallsOK
<1>2. CASE ListArrives
  <2>1. PICK f \in TeamFiles : applies' = applies \cup {Apply("start", f)}
    BY <1>2 DEF ListArrives
  <2>2. Apply("start", f) \in Call
    BY DEF Apply, Call
  <2> QED BY <1>2, <2>1, <2>2, UntouchedKeeps DEF ListArrives, Untouched, diskVars, DbcInv, CallsOK
<1>3. CASE PutEnds(TRUE)
  BY <1>3, PutKeeps
<1>4. ASSUME NEW a \in applies, FileFails(a) \/ FileArrives(a) PROVE DbcInv'
  <2>1. a \in Call /\ [a EXCEPT !.step = "commit"] \in Call
    BY DEF DbcInv, CallsOK, Call
  <2> QED BY <1>4, <2>1, UntouchedKeeps DEF FileFails, FileArrives, Untouched, diskVars, DbcInv, CallsOK
<1> QED BY <1>1, <1>2, <1>3, <1>4, CommitKeeps DEF StartGoesOn

LEMMA HandlingKeeps == ASSUME DbcInv, DbcHandling PROVE DbcInv'
<1>1. CASE UploadStarts
  BY <1>1 DEF UploadStarts, DbcInv, CallsOK, KeepsPicked
<1>2. CASE UploadEnds \/ ClearsCopies
  BY <1>2, RewriteKeeps
<1>3. CASE ReloadsPage
  BY <1>3, ReloadKeeps
<1>4. CASE ReplayImported \/ CarSendsDbc \/ LabelShown
  BY <1>4, UntouchedKeeps DEF ReplayImported, CarSendsDbc, LabelShown, Untouched, diskVars, DbcInv, CallsOK
<1>5. CASE PutEnds(FALSE)
  BY <1>5, PutKeeps
<1>6. ASSUME NEW f \in TeamFiles, SelectsFile(f) PROVE DbcInv'
  <2>1. Apply("user", f) \in Call
    BY DEF Apply, Call
  <2> QED BY <1>6, <2>1, UntouchedKeeps DEF SelectsFile, Untouched, diskVars, DbcInv, CallsOK
<1> QED BY <1>1, <1>2, <1>3, <1>4, <1>5, <1>6 DEF DbcHandling

LEMMA DbcNextKeeps == ASSUME DbcInv, [DbcNext]_dbcFileVars PROVE DbcInv'
<1>1. CASE StartGoesOn
  BY <1>1, StartKeeps
<1>2. CASE Feed
  BY <1>2, UntouchedKeeps DEF Feed, CarSendsDbc, BatchArrives, Untouched, diskVars, DbcInv, CallsOK
<1>3. CASE DbcHandling
  BY <1>3, HandlingKeeps
<1>4. CASE UNCHANGED dbcFileVars
  BY <1>4, UntouchedKeeps DEF dbcFileVars, Untouched, diskVars, DbcInv, CallsOK
<1> QED BY <1>1, <1>2, <1>3, <1>4 DEF DbcNext

LEMMA DbcAlways == DbcSpec => []DbcInv
<1>1. DbcInit => DbcInv
  BY NoPuts DEF DbcInit, DbcInv, CallsOK, KeepsPicked, LoadedText, Absent, Bundled
<1> QED BY <1>1, DbcNextKeeps, PTL DEF DbcSpec

\* A DBC that was chosen is the one the next start of the program loads, unless a copy of
\* it could not be kept (DbcService.ts:88-96, SettingsModal.tsx:42-75,
\* canProcessor.ts:207-248).
THEOREM ReloadLoadsPicked == DbcSpec => []ReloadFindsPicked
<1>1. DbcInv => ReloadFindsPicked
  BY DEF DbcInv, KeepsPicked, ReloadFindsPicked
<1> QED BY <1>1, DbcAlways, PTL

\* What is decoded. A text that is kept or in memory is a text, and the live processor is made
\* before anything arrives; a label is of the text it was looked up in.
Held == Texts \cup {Absent}
TextsOK ==
  /\ cacheCopy \in Held /\ storedCopy \in Held /\ active \in Texts /\ liveDecoder \in Held
  /\ stage # "loading" => liveDecoder \in Texts
  /\ \A a \in applies : a.who = "start" => stage # "loading"
  /\ \A k \in DOMAIN puts : puts[k].who = "start" => stage # "loading"
LookupsOK ==
  /\ lookups \in [of : Held, holds : Held] /\ lookups.holds \in {Absent, lookups.of}
  /\ LabelsAreFresh
DecodedOK == DbcInv /\ TextsOK /\ LookupsOK /\ FindsItsMessage /\ NoFrameLost

LEMMA LoadedIsText == ASSUME TextsOK PROVE LoadedText \in Texts
BY DEF TextsOK, LoadedText, Held, Texts, Absent, Bundled

\* The two ids a frame is looked up with: the second is one of the bus for a 29 bit id alone.
LEMMA TriesLemma ==
  ASSUME NEW i \in BusIds, NEW a, NEW b, a = ToDbcId(i), b = Toggled(a)
  PROVE  /\ a \in BusIds /\ a # b
         /\ \A m \in BusIds : m \in {a, b} <=> m = a \/ (i > StdMax /\ m = Number(i))
BY DbcAssumption DEF DbcAssumption, BusIds, ToDbcId, Toggled, Signed, Number

LEMMA DecodesLemma ==
  ASSUME NEW i \in BusIds, NEW M \in SUBSET BusIds
  PROVE  /\ DecodesTo(i, M) # {} <=> \E m \in M : m = ToDbcId(i) \/ (i > StdMax /\ m = Number(i))
         /\ ToDbcId(i) \in M => DecodesTo(i, M) = {ToDbcId(i)}
<1> DEFINE a == ToDbcId(i)
           b == Toggled(a)
           T == <<a, b>>
<1>1. a \in BusIds /\ a # b /\ \A m \in BusIds : m \in {a, b} <=> m = a \/ (i > StdMax /\ m = Number(i))
  BY TriesLemma
<1>2. Tries(i) = T
  BY DEF Tries
<1> HIDE DEF a, b
<1>3. DecodesTo(i, M) = {T[k] : k \in {k \in DOMAIN T : T[k] \in M /\ \A j \in 1 .. (k - 1) : T[j] \notin M}}
  BY <1>2, Zenon DEF DecodesTo
<1>4. DOMAIN T = {1, 2} /\ T[1] = a /\ T[2] = b
  OBVIOUS
<1> HIDE DEF T
<1>5. \A k \in {1, 2} : (k = 1 /\ 1 .. (k - 1) = {}) \/ (k = 2 /\ 1 .. (k - 1) = {1})
  OBVIOUS
<1>6. \A x : x \in DecodesTo(i, M) <=> (x = a /\ a \in M) \/ (x = b /\ b \in M /\ a \notin M)
  <2> TAKE x
  <2>1. x \in DecodesTo(i, M) <=> \E k \in {1, 2} : x = T[k] /\ T[k] \in M /\ \A j \in 1 .. (k - 1) : T[j] \notin M
    BY <1>3, <1>4
  <2>2. x \in DecodesTo(i, M) <=>
           \/ x = T[1] /\ T[1] \in M
           \/ x = T[2] /\ T[2] \in M /\ T[1] \notin M
    BY <1>5, <2>1
  <2> QED BY <1>4, <2>2
<1>7. a \in M => DecodesTo(i, M) = {a}
  BY <1>6
<1> QED BY <1>1, <1>6, <1>7 DEF a

\* The frames of a list that have an id, found one after the other.
Frame == [canId : 0 .. Undefined, id : 0 .. Undefined]
KeptTo(g, list, n) ==
  g = [k \in 0 .. n |-> IF k = 0 THEN <<>>
                         ELSE IF ObjectId(list[k]) \in BusIds THEN Append(g[k - 1], list[k]) ELSE g[k - 1]]
LEMMA KeptExists ==
  ASSUME NEW list, NEW len \in Nat PROVE \E g : KeptTo(g, list, len)
<1> DEFINE step(g, k) == IF k = 0 THEN <<>>
                         ELSE IF ObjectId(list[k]) \in BusIds THEN Append(g[k - 1], list[k]) ELSE g[k - 1]
           Has(n) == \E g : KeptTo(g, list, n)
           T == {n \in Nat : ~Has(n)}
<1> SUFFICES T = {}
  OBVIOUS
<1> SUFFICES ASSUME T # {} PROVE FALSE
  OBVIOUS
<1>1. PICK n \in T : \A y \in T : n <= y
  <2> HIDE DEF Has
  <2> QED BY LeastNat
<1>2. n \in Nat /\ ~Has(n)
  OBVIOUS
<1>3. n # 0
  <2> SUFFICES ASSUME n = 0 PROVE Has(n)
    BY <1>2
  <2> DEFINE g == [k \in 0 .. 0 |-> <<>>]
  <2>1. g = [k \in 0 .. 0 |-> step(g, k)]
    OBVIOUS
  <2>2. KeptTo(g, list, 0)
    BY <2>1, Zenon DEF KeptTo
  <2> HIDE DEF g
  <2> QED BY <2>2
<1>4. n - 1 \in Nat /\ Has(n - 1)
  <2>1. n - 1 \in Nat /\ ~(n <= n - 1)
    BY <1>2, <1>3
  <2>2. n - 1 \notin T
    BY <1>1, <2>1
  <2> HIDE DEF Has
  <2> QED BY <2>1, <2>2
<1>5. PICK g : g = [k \in 0 .. n - 1 |-> step(g, k)]
  BY <1>4 DEF KeptTo
<1> DEFINE h == [k \in 0 .. n |-> IF k = n THEN step(g, n) ELSE g[k]]
<1>6. \A k \in 0 .. n : h[k] = step(h, k)
  <2> TAKE k \in 0 .. n
  <2>1. k # 0 => h[k - 1] = g[k - 1]
    BY <1>2
  <2>2. step(h, k) = step(g, k)
    BY <2>1
  <2>3. h[k] = step(g, k)
    <3> HIDE DEF step
    <3> QED BY <1>2, <1>5
  <2> QED BY <2>2, <2>3
<1>7. h = [k \in 0 .. n |-> h[k]]
  OBVIOUS
<1>8. h = [k \in 0 .. n |-> step(h, k)]
  <2> HIDE DEF h, step
  <2> QED BY <1>6, <1>7
<1> QED BY <1>2, <1>8 DEF KeptTo

LEMMA KeptByStep ==
  ASSUME NEW list, Len(list) \in Nat
  PROVE  \E g : /\ g[0] = <<>> /\ FramesOf(list) = g[Len(list)]
                /\ \A k \in 1 .. Len(list) :
                     g[k] = IF ObjectId(list[k]) \in BusIds THEN Append(g[k - 1], list[k]) ELSE g[k - 1]
<1>0. \E g : KeptTo(g, list, Len(list))
  BY KeptExists
<1> DEFINE kept[k \in 0 .. Len(list)] ==
             IF k = 0 THEN <<>>
             ELSE IF ObjectId(list[k]) \in BusIds THEN Append(kept[k - 1], list[k]) ELSE kept[k - 1]
<1>1. FramesOf(list) = kept[Len(list)]
  BY DEF FramesOf
<1>2. KeptTo(kept, list, Len(list))
  BY <1>0, Zenon DEF KeptTo
<1> HIDE DEF kept
<1>3. \A k \in 0 .. Len(list) : kept[k] =
        IF k = 0 THEN <<>> ELSE IF ObjectId(list[k]) \in BusIds THEN Append(kept[k - 1], list[k]) ELSE kept[k - 1]
  BY <1>2 DEF KeptTo
<1> QED BY <1>1, <1>3

\* Of the first n frames: as many as have an id are kept, each at its place.
GoodTo(list, n) == {j \in Good(list) : j <= n}
LEMMA GoodLemma ==
  ASSUME NEW list \in Seq(Frame), NEW n \in 1 .. Len(list)
  PROVE  /\ Cardinality(GoodTo(list, n - 1)) \in Nat
         /\ n \in Good(list) => /\ GoodTo(list, n) = GoodTo(list, n - 1) \cup {n}
                                /\ Cardinality(GoodTo(list, n)) = Cardinality(GoodTo(list, n - 1)) + 1
         /\ n \notin Good(list) => GoodTo(list, n) = GoodTo(list, n - 1)
<1> DEFINE G == GoodTo(list, n - 1)
<1>1. Good(list) \subseteq 1 .. Len(list)
  BY DEF Good
<1>2. G \subseteq 1 .. (n - 1) /\ n \notin G
  BY <1>1 DEF GoodTo
<1>3. \A j \in Good(list) : j <= n <=> j <= n - 1 \/ j = n
  BY <1>1
<1>4. IsFiniteSet(1 .. (n - 1))
  BY FS_Interval
<1> HIDE DEF G
<1>5. IsFiniteSet(G) /\ Cardinality(G) \in Nat
  BY <1>2, <1>4, FS_Subset, FS_CardinalityType
<1>6. Cardinality(G \cup {n}) = Cardinality(G) + 1
  BY <1>2, <1>5, FS_AddElement
<1>7. n \in Good(list) => GoodTo(list, n) = G \cup {n}
  BY <1>3 DEF GoodTo, G
<1>8. n \notin Good(list) => GoodTo(list, n) = G
  BY <1>3 DEF GoodTo, G
<1> QED BY <1>5, <1>6, <1>7, <1>8 DEF G

LEMMA KeptLemma ==
  ASSUME NEW list \in Seq(Frame), NEW kept, kept = FramesOf(list)
  PROVE  /\ kept \in Seq(Frame) /\ Len(kept) = Cardinality(Good(list))
         /\ \A x \in DOMAIN kept : ObjectId(kept[x]) \in BusIds
         /\ \A k \in Good(list) : Place(list, k) \in 1 .. Len(kept) /\ kept[Place(list, k)] = list[k]
<1>0. Len(list) \in Nat /\ DOMAIN list = 1 .. Len(list) /\ \A k \in 1 .. Len(list) : list[k] \in Frame
  OBVIOUS
<1>1. PICK g : /\ g[0] = <<>> /\ FramesOf(list) = g[Len(list)]
               /\ \A k \in 1 .. Len(list) :
                    g[k] = IF ObjectId(list[k]) \in BusIds THEN Append(g[k - 1], list[k]) ELSE g[k - 1]
  BY <1>0, KeptByStep
<1> DEFINE At(n) ==
             /\ g[n] \in Seq(Frame) /\ Len(g[n]) = Cardinality(GoodTo(list, n))
             /\ \A x \in DOMAIN g[n] : ObjectId(g[n][x]) \in BusIds
             /\ \A k \in GoodTo(list, n) : /\ Cardinality(GoodTo(list, k)) \in 1 .. Len(g[n])
                                           /\ g[n][Cardinality(GoodTo(list, k))] = list[k]
           P == {n \in 0 .. Len(list) : At(n)}
<1>2. 0 \in P
  <2>1. GoodTo(list, 0) = {} /\ Cardinality(GoodTo(list, 0)) = 0
    <3>1. GoodTo(list, 0) = {}
      BY <1>0 DEF GoodTo, Good
    <3> QED BY <3>1, FS_EmptySet
  <2>2. g[0] \in Seq(Frame) /\ Len(g[0]) = 0 /\ DOMAIN g[0] = {}
    BY <1>1
  <2>3. At(0)
    BY <2>1, <2>2
  <2>4. 0 \in 0 .. Len(list)
    BY <1>0
  <2> HIDE DEF At
  <2> QED BY <2>3, <2>4
<1>3. ASSUME NEW n \in 1 .. Len(list), n - 1 \in P PROVE n \in P
  <2> DEFINE s == g[n - 1]
             t == g[n]
             f == list[n]
             c == Cardinality(GoodTo(list, n - 1))
  <2>1. /\ s \in Seq(Frame) /\ Len(s) = c /\ \A x \in DOMAIN s : ObjectId(s[x]) \in BusIds
        /\ \A k \in GoodTo(list, n - 1) : /\ Cardinality(GoodTo(list, k)) \in 1 .. Len(s)
                                          /\ s[Cardinality(GoodTo(list, k))] = list[k]
    BY <1>3
  <2>2. f \in Frame /\ n \in 0 .. Len(list) /\ (n \in Good(list) <=> ObjectId(f) \in BusIds)
    BY <1>0 DEF Good
  <2>3. t = IF ObjectId(f) \in BusIds THEN Append(s, f) ELSE s
    BY <1>1
  <2>4. /\ c \in Nat
        /\ n \in Good(list) => GoodTo(list, n) = GoodTo(list, n - 1) \cup {n} /\ Cardinality(GoodTo(list, n)) = c + 1
        /\ n \notin Good(list) => GoodTo(list, n) = GoodTo(list, n - 1)
    BY GoodLemma
  <2> HIDE DEF s, t, c, f
  <2>5. /\ t \in Seq(Frame) /\ Len(t) = Cardinality(GoodTo(list, n))
        /\ \A x \in DOMAIN t : ObjectId(t[x]) \in BusIds
        /\ \A k \in GoodTo(list, n) : /\ Cardinality(GoodTo(list, k)) \in 1 .. Len(t)
                                      /\ t[Cardinality(GoodTo(list, k))] = list[k]
    <3>1. CASE n \notin Good(list)
      <4>1. t = s /\ GoodTo(list, n) = GoodTo(list, n - 1) /\ Cardinality(GoodTo(list, n)) = c
        BY <2>2, <2>3, <2>4, <3>1 DEF c
      <4> QED BY <2>1, <4>1
    <3>2. CASE n \in Good(list)
      <4>1. t = Append(s, f) /\ ObjectId(f) \in BusIds
        BY <2>2, <2>3, <3>2
      <4>2. /\ t \in Seq(Frame) /\ Len(t) = c + 1 /\ DOMAIN t = 1 .. c + 1 /\ t[c + 1] = f
            /\ DOMAIN s = 1 .. c /\ \A x \in 1 .. c : t[x] = s[x]
        BY <2>1, <2>2, <2>4, <4>1
      <4>3. \A x \in 1 .. c + 1 : x \in 1 .. c \/ x = c + 1
        BY <2>4
      <4>4. \A x \in DOMAIN t : ObjectId(t[x]) \in BusIds
        BY <2>1, <4>1, <4>2, <4>3
      <4>5. ASSUME NEW k \in GoodTo(list, n)
            PROVE  /\ Cardinality(GoodTo(list, k)) \in 1 .. Len(t)
                   /\ t[Cardinality(GoodTo(list, k))] = list[k]
        <5>1. CASE k = n
          BY <2>4, <3>2, <4>2, <5>1 DEF f
        <5>2. CASE k # n
          <6>1. k \in GoodTo(list, n - 1)
            BY <2>4, <3>2, <5>2
          <6> DEFINE d == Cardinality(GoodTo(list, k))
          <6>2. d \in 1 .. c /\ s[d] = list[k]
            BY <2>1, <6>1
          <6> HIDE DEF d
          <6>3. d \in 1 .. Len(t) /\ t[d] = list[k]
            BY <2>4, <4>2, <6>2
          <6> QED BY <6>3 DEF d
        <5> QED BY <5>1, <5>2
      <4> QED BY <2>4, <3>2, <4>2, <4>4, <4>5
    <3> QED BY <3>1, <3>2
  <2>6. At(n)
    BY <2>5 DEF t
  <2> HIDE DEF At
  <2> QED BY <2>2, <2>6
<1>4. Len(list) \in P
  <2> HIDE DEF P
  <2>1. \A n \in 0 .. Len(list) : n \in P
    BY <1>0, <1>2, <1>3, Induct
  <2>2. Len(list) \in 0 .. Len(list)
    BY <1>0
  <2> QED BY <2>1, <2>2
<1>5. GoodTo(list, Len(list)) = Good(list)
  BY <1>0 DEF GoodTo, Good
<1>6. \A k \in Good(list) : Place(list, k) = Cardinality(GoodTo(list, k))
  BY DEF Place, GoodTo
<1> QED BY <1>1, <1>4, <1>5, <1>6

\* What is decoded of a list follows from the frames that are kept.
LEMMA BatchKeeps == ASSUME DecodedOK, NEW list \in Batches, BatchArrives(list) PROVE FindsItsMessage' /\ NoFrameLost'
<1> DEFINE kept == FramesOf(list)
           M == MessagesOf[liveDecoder]
           as == [k \in DOMAIN kept |-> [id |-> ObjectId(kept[k]), with |-> liveDecoder,
                                         to |-> DecodesTo(ObjectId(kept[k]), M)]]
<1>1. liveDecoder \in Texts /\ M \in SUBSET BusIds
  BY TextsAssumption DEF DecodedOK, TextsOK, BatchArrives, TextsAssumption
<1>2. list \in Seq(Frame)
  BY BatchesAssumption DEF BatchesAssumption, Frame
<1>3. /\ kept \in Seq(Frame) /\ Len(kept) = Cardinality(Good(list))
      /\ \A x \in DOMAIN kept : ObjectId(kept[x]) \in BusIds
      /\ \A k \in Good(list) : Place(list, k) \in 1 .. Len(kept) /\ kept[Place(list, k)] = list[k]
  BY <1>2, KeptLemma
<1>4. got' = [of |-> list, as |-> as]
  BY DEF BatchArrives
<1> HIDE DEF kept, M
<1>5. DOMAIN kept = 1 .. Len(kept) /\ Len(kept) \in Nat
  BY <1>3
<1>6. got'.of = list /\ got'.as = as /\ DOMAIN as = DOMAIN kept
  BY <1>4
<1>7. \A k \in DOMAIN kept : /\ as[k].id = ObjectId(kept[k]) /\ as[k].with = liveDecoder
                              /\ as[k].to = DecodesTo(ObjectId(kept[k]), M)
  OBVIOUS
<1>8. Len(as) = Len(kept)
  BY <1>5
<1> HIDE DEF as
<1>9. FindsItsMessage'
  <2> SUFFICES ASSUME NEW k \in DOMAIN kept
               PROVE  /\ as[k].to # {} <=> \E m \in MessagesOf[as[k].with] :
                                              m = ToDbcId(as[k].id) \/ (as[k].id > StdMax /\ m = Number(as[k].id))
                      /\ ToDbcId(as[k].id) \in MessagesOf[as[k].with] => as[k].to = {ToDbcId(as[k].id)}
    BY <1>6 DEF FindsItsMessage
  <2>1. ObjectId(kept[k]) \in BusIds
    BY <1>3
  <2>2. /\ DecodesTo(ObjectId(kept[k]), M) # {} <=>
              \E m \in M : m = ToDbcId(ObjectId(kept[k])) \/ (ObjectId(kept[k]) > StdMax /\ m = Number(ObjectId(kept[k])))
        /\ ToDbcId(ObjectId(kept[k])) \in M => DecodesTo(ObjectId(kept[k]), M) = {ToDbcId(ObjectId(kept[k]))}
    BY <1>1, <2>1, DecodesLemma
  <2> QED BY <1>7, <2>2 DEF M
<1>10. NoFrameLost'
  <2>1. \A k \in Good(list) : as[Place(list, k)].id = ObjectId(list[k])
    <3> TAKE k \in Good(list)
    <3>1. Place(list, k) \in DOMAIN kept /\ kept[Place(list, k)] = list[k]
      BY <1>3, <1>5
    <3> QED BY <1>7, <3>1
  <2> QED BY <1>3, <1>6, <1>8, <2>1 DEF NoFrameLost
<1> QED BY <1>9, <1>10

\* Nothing decoded: a page that has come up.
LEMMA NothingDecoded == ASSUME got' = NoBatch PROVE FindsItsMessage' /\ NoFrameLost'
<1>1. got'.of = <<>> /\ got'.as = <<>>
  BY DEF NoBatch
<1>2. DOMAIN got'.as = {} /\ Len(got'.as) = 0 /\ Good(got'.of) = {}
  BY <1>1 DEF Good
<1> QED BY <1>1, <1>2, FS_EmptySet DEF FindsItsMessage, NoFrameLost

LEMMA GotStays == ASSUME DecodedOK, got' = got PROVE FindsItsMessage' /\ NoFrameLost'
BY DEF DecodedOK, FindsItsMessage, NoFrameLost

LEMMA LookupsStay == ASSUME DecodedOK, UNCHANGED lookupVars PROVE LookupsOK'
BY DEF DecodedOK, LookupsOK, lookupVars, LabelsAreFresh

LEMMA UpDecodes ==
  ASSUME PageComesUp, cacheCopy' \in Held, storedCopy' \in Held PROVE TextsOK' /\ LookupsOK'
<1>1. TextsOK'
  BY DEF PageComesUp, TextsOK, Held, Texts
<1>2. lookups' = [of |-> Absent, holds |-> Absent] /\ label' = NoLabel /\ Absent \in Held
  BY DEF PageComesUp, Held
<1>3. LookupsOK'
  BY <1>2 DEF LookupsOK, LabelsAreFresh, NoLabel
<1> QED BY <1>1, <1>3

LEMMA TextsStay ==
  ASSUME DecodedOK, DbcInv', UNCHANGED <<cacheCopy, storedCopy, lookupVars, got>>, active' \in Texts,
         liveDecoder' \in Held, stage' # "loading" => liveDecoder' \in Texts,
         \A a \in applies' : a.who = "start" => stage' # "loading",
         \A k \in DOMAIN puts' : puts'[k].who = "start" => stage' # "loading"
  PROVE  DecodedOK'
<1>1. TextsOK'
  BY DEF DecodedOK, TextsOK
<1> QED BY <1>1, GotStays, LookupsStay DEF DecodedOK

\* Whoever called goes on, and the start does not go back.
LEMMA CallerKeepsStage ==
  ASSUME DecodedOK, NEW a, NEW says, CallerGoesOn(a, says), a.who = "start" => stage # "loading",
         liveDecoder' = liveDecoder
  PROVE  /\ stage' # "loading" => liveDecoder' \in Texts
         /\ stage # "loading" => stage' # "loading"
<1>1. stage' = stage \/ (stage' = "connected" /\ stage # "loading")
  BY DEF CallerGoesOn
<1> QED BY <1>1 DEF DecodedOK, TextsOK

LEMMA PutDecodes == ASSUME DecodedOK, DbcInv', NEW fits \in BOOLEAN, PutEnds(fits) PROVE DecodedOK'
<1>0. /\ puts \in Seq(Call) /\ \A a \in applies : a.who = "start" => stage # "loading"
      /\ \A k \in DOMAIN puts : puts[k].who = "start" => stage # "loading"
      /\ active \in Texts /\ liveDecoder \in Held /\ cacheCopy \in Held /\ storedCopy \in Held
  BY DEF DecodedOK, TextsOK, DbcInv, CallsOK
<1>1. /\ UNCHANGED <<lookupVars, got, active>> /\ liveDecoder' = liveDecoder
      /\ puts # <<>> /\ puts' = Tail(puts) /\ applies' \subseteq applies
      /\ CallerGoesOn(Head(puts), Head(puts).file) /\ Keeps(Head(puts).file, fits)
  BY DEF PutEnds, decoderVars
<1>2. Head(puts) = puts[1] /\ Head(puts) \in Call /\ 1 \in DOMAIN puts
  BY <1>0, <1>1
<1>3. (stage' # "loading" => liveDecoder' \in Texts) /\ (stage # "loading" => stage' # "loading")
  BY <1>0, <1>1, <1>2, CallerKeepsStage
<1>4. \A k \in DOMAIN puts' : puts'[k].who = "start" => stage # "loading"
  <2>1. \A k \in DOMAIN puts' : k + 1 \in DOMAIN puts /\ puts'[k] = puts[k + 1]
    BY <1>0, <1>1
  <2> QED BY <1>0, <2>1
<1>5. cacheCopy' \in Held /\ storedCopy' \in Held
  BY <1>0, <1>1, <1>2 DEF Keeps, Call, Held, Texts
<1>6. TextsOK'
  BY <1>0, <1>1, <1>3, <1>4, <1>5 DEF TextsOK
<1> QED BY <1>1, <1>6, GotStays, LookupsStay DEF DecodedOK

LEMMA StartDecodes == ASSUME DecodedOK, DbcInv', StartGoesOn PROVE DecodedOK'
<1>0. /\ active \in Texts /\ liveDecoder \in Held /\ (stage # "loading" => liveDecoder \in Texts)
      /\ \A a \in applies : a.who = "start" => stage # "loading"
      /\ \A k \in DOMAIN puts : puts[k].who = "start" => stage # "loading"
      /\ applies \subseteq Call /\ puts \in Seq(Call)
  BY DEF DecodedOK, TextsOK, DbcInv, CallsOK
<1>1. CASE LoadsCopy
  <2>1. LoadedText \in Texts
    BY LoadedIsText DEF DecodedOK
  <2>2. /\ UNCHANGED <<cacheCopy, storedCopy, lookupVars, got, applies, puts>> /\ active' = LoadedText
        /\ liveDecoder' = LoadedText /\ stage' # "loading"
    BY <1>1 DEF LoadsCopy, diskVars
  <2> QED BY <2>1, <2>2, TextsStay DEF Held
<1>2. CASE ListArrives \/ ListFails
  <2>1. /\ UNCHANGED <<cacheCopy, storedCopy, lookupVars, got, active, puts>> /\ liveDecoder' = liveDecoder
        /\ stage = "listing" /\ stage' # "loading"
    BY <1>2 DEF ListArrives, ListFails, diskVars, decoderVars
  <2> QED BY <1>0, <2>1, TextsStay
<1>3. ASSUME NEW a \in applies, FileFails(a) \/ FileArrives(a) PROVE DecodedOK'
  <2>1. UNCHANGED <<cacheCopy, storedCopy, lookupVars, got, active, puts>> /\ liveDecoder' = liveDecoder
    BY <1>3 DEF FileFails, FileArrives, diskVars, decoderVars
  <2>2. (stage' # "loading" => liveDecoder' \in Texts) /\ (stage # "loading" => stage' # "loading")
    <3>1. CASE FileFails(a)
      BY <1>0, <2>1, <3>1, CallerKeepsStage DEF FileFails
    <3>2. CASE FileArrives(a)
      BY <1>0, <2>1, <3>2 DEF FileArrives
    <3> QED BY <1>3, <3>1, <3>2
  <2>3. \A b \in applies' : b.who = "start" => stage # "loading"
    <3>1. [a EXCEPT !.step = "commit"].who = a.who
      BY <1>0 DEF Call
    <3>2. applies' \subseteq applies \cup {[a EXCEPT !.step = "commit"]}
      BY <1>3 DEF FileFails, FileArrives
    <3> QED BY <1>0, <3>1, <3>2
  <2> QED BY <1>0, <2>1, <2>2, <2>3, TextsStay
<1>4. ASSUME NEW a \in applies, CommitArrives(a) PROVE DecodedOK'
  <2>1. /\ UNCHANGED <<cacheCopy, storedCopy, lookupVars, got, stage>> /\ liveDecoder' = liveDecoder
        /\ active' = a.file /\ puts' = Append(puts, a)
        /\ applies' = (applies \ {a}) \cup {[a EXCEPT !.step = "put"]}
    BY <1>4 DEF CommitArrives, decoderVars
  <2>2. active' \in Texts /\ [a EXCEPT !.step = "put"].who = a.who
    BY <1>0, <2>1 DEF Call, Texts
  <2>3. \A k \in DOMAIN puts' : puts'[k].who = "start" => stage # "loading"
    <3>1. a \in Call
      BY <1>0
    <3>2. \A k \in DOMAIN puts' : puts'[k] = a \/ (k \in DOMAIN puts /\ puts'[k] = puts[k])
      BY <1>0, <2>1, <3>1
    <3> QED BY <1>0, <3>2
  <2> QED BY <1>0, <2>1, <2>2, <2>3, TextsStay
<1>5. CASE PutEnds(TRUE)
  BY <1>5, PutDecodes
<1> QED BY <1>1, <1>2, <1>3, <1>4, <1>5 DEF StartGoesOn

\* A label is looked up in the text in memory, or was looked up in it before.
LEMMA LabelKeeps == ASSUME DecodedOK, LabelShown PROVE LookupsOK'
<1> DEFINE h == IF Fresh.holds = Absent THEN active ELSE Fresh.holds
<1>1. active \in Held /\ Absent \in Held
  BY DEF DecodedOK, TextsOK, Held
<1>2. Fresh \in [of : Held, holds : Held] /\ Fresh.of = active /\ Fresh.holds \in {Absent, active}
  BY <1>1 DEF DecodedOK, LookupsOK, Fresh
<1>3. lookups' = [Fresh EXCEPT !.holds = h]
  BY DEF LabelShown
<1>4. h = active
  BY <1>2
<1> HIDE DEF h
<1>5. lookups' \in [of : Held, holds : Held] /\ lookups'.of = active /\ lookups'.holds = active
  BY <1>1, <1>2, <1>3, <1>4
<1>6. label' = [says |-> lookups'.holds, under |-> active]
  BY DEF LabelShown
<1> QED BY <1>5, <1>6 DEF LookupsOK, LabelsAreFresh

LEMMA HandlingDecodes == ASSUME DecodedOK, DbcInv', DbcHandling PROVE DecodedOK'
<1>0. /\ active \in Texts /\ liveDecoder \in Held /\ (stage # "loading" => liveDecoder \in Texts)
      /\ \A a \in applies : a.who = "start" => stage # "loading"
      /\ \A k \in DOMAIN puts : puts[k].who = "start" => stage # "loading"
      /\ cacheCopy \in Held /\ storedCopy \in Held
  BY DEF DecodedOK, TextsOK
<1>1. CASE UploadStarts
  <2>1. /\ UNCHANGED <<storedCopy, active, stage, applies, puts, lookupVars, got>> /\ liveDecoder' = liveDecoder
        /\ cacheCopy' \in Held
    BY <1>0, <1>1 DEF UploadStarts, Held, decoderVars
  <2>2. TextsOK'
    BY <1>0, <2>1 DEF TextsOK
  <2> QED BY <2>1, <2>2, GotStays, LookupsStay DEF DecodedOK
<1>2. CASE UploadEnds \/ ClearsCopies \/ ReloadsPage
  <2>1. PageComesUp /\ cacheCopy' \in Held /\ storedCopy' \in Held
    BY <1>0, <1>2 DEF UploadEnds, ClearsCopies, ReloadsPage, diskVars, Held, Texts
  <2> QED BY <2>1, UpDecodes, NothingDecoded DEF DecodedOK, PageComesUp
<1>3. CASE ReplayImported
  <2>1. /\ UNCHANGED <<cacheCopy, storedCopy, lookupVars, got, stage, applies, puts>> /\ liveDecoder' = liveDecoder
        /\ active' \in Texts
    BY <1>3 DEF ReplayImported, diskVars, decoderVars, Texts
  <2> QED BY <1>0, <2>1, TextsStay
<1>4. CASE CarSendsDbc
  <2>1. /\ UNCHANGED <<cacheCopy, storedCopy, lookupVars, got, stage, applies, puts>> /\ liveDecoder' \in Texts
        /\ active' \in Texts
    BY <1>4 DEF CarSendsDbc, diskVars, Texts
  <2> QED BY <1>0, <2>1, TextsStay DEF Held
<1>5. CASE LabelShown
  <2>1. /\ UNCHANGED <<cacheCopy, storedCopy, got, stage, applies, puts, active>> /\ liveDecoder' = liveDecoder
    BY <1>5 DEF LabelShown, diskVars, decoderVars
  <2>2. TextsOK'
    BY <1>0, <2>1 DEF TextsOK
  <2> QED BY <1>5, <2>1, <2>2, GotStays, LabelKeeps DEF DecodedOK
<1>6. CASE PutEnds(FALSE)
  BY <1>6, PutDecodes
<1>7. ASSUME NEW f \in TeamFiles, SelectsFile(f) PROVE DecodedOK'
  <2>1. /\ UNCHANGED <<cacheCopy, storedCopy, lookupVars, got, stage, puts, active>> /\ liveDecoder' = liveDecoder
        /\ applies' = applies \cup {Apply("user", f)} /\ Apply("user", f).who # "start"
    BY <1>7 DEF SelectsFile, diskVars, decoderVars, Apply
  <2> QED BY <1>0, <2>1, TextsStay
<1> QED BY <1>1, <1>2, <1>3, <1>4, <1>5, <1>6, <1>7 DEF DbcHandling

LEMMA DecodedNext == ASSUME DecodedOK, [DbcNext]_dbcFileVars PROVE DecodedOK'
<1>1. DbcInv'
  BY DbcNextKeeps DEF DecodedOK
<1>2. CASE StartGoesOn
  BY <1>1, <1>2, StartDecodes
<1>3. CASE DbcHandling \/ CarSendsDbc
  BY <1>1, <1>3, HandlingDecodes DEF DbcHandling
<1>4. ASSUME NEW list \in Batches, BatchArrives(list) PROVE DecodedOK'
  <2>1. /\ UNCHANGED <<cacheCopy, storedCopy, stage, applies, puts, active, lookupVars>> /\ liveDecoder' = liveDecoder
    BY <1>4 DEF BatchArrives, diskVars, decoderVars
  <2>2. TextsOK'
    BY <2>1 DEF DecodedOK, TextsOK
  <2> QED BY <1>1, <1>4, <2>1, <2>2, BatchKeeps, LookupsStay DEF DecodedOK
<1>5. CASE UNCHANGED dbcFileVars
  <2>1. /\ UNCHANGED <<cacheCopy, storedCopy, stage, applies, puts, active, lookupVars, got>> /\ liveDecoder' = liveDecoder
    BY <1>5 DEF dbcFileVars, diskVars, decoderVars
  <2>2. TextsOK'
    BY <2>1 DEF DecodedOK, TextsOK
  <2> QED BY <1>1, <2>1, <2>2, GotStays, LookupsStay DEF DecodedOK
<1> QED BY <1>2, <1>3, <1>4, <1>5 DEF DbcNext, Feed

LEMMA DecodedAlways == DbcSpec => []DecodedOK
<1>1. DbcInit => DecodedOK
  <2> SUFFICES ASSUME DbcInit PROVE DecodedOK
    OBVIOUS
  <2>1. DbcInv
    BY NoPuts DEF DbcInit, DbcInv, CallsOK, KeepsPicked, LoadedText, Absent, Bundled
  <2>2. TextsOK
    BY DEF DbcInit, TextsOK, Held, Texts
  <2>3. LookupsOK
    <3>1. lookups = [of |-> Absent, holds |-> Absent] /\ label = NoLabel /\ Absent \in Held
      BY DEF DbcInit, Held
    <3> QED BY <3>1 DEF LookupsOK, LabelsAreFresh, NoLabel
  <2>4. FindsItsMessage /\ NoFrameLost
    <3>1. got.of = <<>> /\ got.as = <<>>
      BY DEF DbcInit, NoBatch
    <3>2. DOMAIN got.as = {} /\ Len(got.as) = 0 /\ Good(got.of) = {}
      BY <3>1 DEF Good
    <3> QED BY <3>2, FS_EmptySet DEF FindsItsMessage, NoFrameLost
  <2> QED BY <2>1, <2>2, <2>3, <2>4 DEF DecodedOK
<1> QED BY <1>1, DecodedNext, PTL DEF DbcSpec

\* The decoder of the live feed is made at the start and changed by the car alone: no file that
\* is fetched, chosen, uploaded or replayed touches it (WebSocketService.ts:67, 316-319).
THEOREM LiveDecoderIsTheCars == DbcSpec => LiveDecoderStands
<1>1. [DbcNext]_dbcFileVars =>
        [liveDecoder' # liveDecoder => stage = "loading" \/ liveDecoder' \in {"car", Absent}]_dbcFileVars
  <2> SUFFICES ASSUME DbcNext, liveDecoder' # liveDecoder PROVE stage = "loading" \/ liveDecoder' \in {"car", Absent}
    OBVIOUS
  <2>1. LoadsCopy \/ CarSendsDbc \/ UploadEnds \/ ClearsCopies \/ ReloadsPage
    BY DEF DbcNext, StartGoesOn, Feed, DbcHandling, ListArrives, ListFails, PutEnds, FileFails, FileArrives,
           CommitArrives, BatchArrives, UploadStarts, ReplayImported, LabelShown, SelectsFile, decoderVars
  <2> QED BY <2>1 DEF LoadsCopy, CarSendsDbc, UploadEnds, ClearsCopies, ReloadsPage, PageComesUp
<1> QED BY <1>1, PTL DEF DbcSpec, LiveDecoderStands

\* For any texts, ids and lists of frames: the copy that is loaded is the chosen one, a label is
\* the loaded text's, a frame is decoded by the message of its number and its own kind first
\* (canProcessor.ts:477-498), no frame of a list is lost (:693-716), and the live decoder stands.
THEOREM ValuesAreAsChosen == DbcSpec => DecodesAsChosen
<1>1. DecodedOK => ReloadFindsPicked /\ LabelsAreFresh /\ FindsItsMessage /\ NoFrameLost
  BY DEF DecodedOK, DbcInv, KeepsPicked, ReloadFindsPicked, LookupsOK
<1> QED BY <1>1, DecodedAlways, LiveDecoderIsTheCars, PTL DEF DecodesAsChosen
=============================================================================
