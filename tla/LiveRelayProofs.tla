-------------------------- MODULE LiveRelayProofs --------------------------
(***************************************************************************)
(* For any rooms, any number of sockets and any losses: the phone never    *)
(* has two sockets to the relay worker, a relay that is off stays off, and *)
(* one that is on does not give up unnoticed; and for any frames and any   *)
(* purges, reloads and refusals what the phone's log says of the server is *)
(* true. For any ids, any number of sockets and any host changes: what the *)
(* stream overlay shows is true.                                           *)
(***************************************************************************)
EXTENDS LiveRelay, Livestream, Blackbox, FiniteSetTheorems, TLAPS

Sock == [st : {"connecting", "open", "closing", "closed"}, to : Rooms, clean : BOOLEAN]
RelayTypeOK ==
  /\ relayOn \in BOOLEAN /\ timer \in BOOLEAN /\ lostTimers \in Nat
  /\ links \in Seq(Sock) /\ refused \in BOOLEAN /\ forgot \in BOOLEAN

\* The only socket that may be alive is the one the service remembers.
OnlyTheLink == AliveIn(links) \subseteq {link}

\* A timer is lost only when it is forgotten; the wait of a relay that is off is empty.
NoLostTimer == ~forgot => lostTimers = 0

RelayInv == RelayTypeOK /\ OnlyTheLink /\ NoLostTimer /\ OffMeansOff /\ RelayKeepsTrying

----------------------------------------------------------------------------
(* Sockets *)

LEMMA LinksLemma ==
  ASSUME NEW s \in Seq(Sock)
  PROVE  DOMAIN s = 1 .. Len(s) /\ Len(s) \in Nat /\ \A i \in DOMAIN s : s[i] \in Sock
OBVIOUS

\* Changing the state of a socket.
OnlyState(s, r, i, st) ==
  /\ r \in Seq(Sock) /\ DOMAIN r = DOMAIN s /\ r[i].st = st
  /\ \A j \in DOMAIN s : j # i => r[j] = s[j]

LEMMA StateSet ==
  ASSUME NEW s \in Seq(Sock), NEW i \in DOMAIN s, NEW st \in {"connecting", "open", "closing", "closed"},
         NEW c \in BOOLEAN
  PROVE  /\ OnlyState(s, [s EXCEPT ![i].st = st], i, st)
         /\ OnlyState(s, [s EXCEPT ![i].st = st, ![i].clean = c], i, st)
<1>1. s[i] \in Sock
  OBVIOUS
<1>2. [s[i] EXCEPT !.st = st] \in Sock /\ [s[i] EXCEPT !.st = st, !.clean = c] \in Sock
  BY <1>1 DEF Sock
<1>3. ASSUME NEW q \in Sock, q.st = st PROVE OnlyState(s, [s EXCEPT ![i] = q], i, st)
  BY <1>3 DEF OnlyState
<1>4. [s[i] EXCEPT !.st = st].st = st /\ [s[i] EXCEPT !.st = st, !.clean = c].st = st
  BY <1>1 DEF Sock
<1>5. /\ [s EXCEPT ![i].st = st] = [s EXCEPT ![i] = [s[i] EXCEPT !.st = st]]
      /\ [s EXCEPT ![i].st = st, ![i].clean = c] = [s EXCEPT ![i] = [s[i] EXCEPT !.st = st, !.clean = c]]
  OBVIOUS
<1> QED BY <1>2, <1>3, <1>4, <1>5

LEMMA ClosingLemma ==
  ASSUME NEW s \in Seq(Sock), NEW i
  PROVE  LET r == Closing(s, i) IN r \in Seq(Sock) /\ DOMAIN r = DOMAIN s /\ AliveIn(r) = AliveIn(s) \ {i}
<1> DEFINE r == Closing(s, i)
<1>1. CASE i \notin AliveIn(s)
  BY <1>1 DEF Closing
<1>2. CASE i \in AliveIn(s)
  <2>1. i \in DOMAIN s
    BY <1>2 DEF AliveIn
  <2> DEFINE c == s[i].st = "open"
  <2>2. r = [s EXCEPT ![i].st = "closing", ![i].clean = c] /\ c \in BOOLEAN
    BY <1>2 DEF Closing
  <2> HIDE DEF c, r
  <2>3. OnlyState(s, r, i, "closing")
    BY <2>1, <2>2, StateSet
  <2>4. r \in Seq(Sock) /\ DOMAIN r = DOMAIN s /\ AliveIn(r) = AliveIn(s) \ {i}
    BY <2>1, <2>3 DEF OnlyState, AliveIn
  <2> QED BY <2>4 DEF r
<1> QED BY <1>1, <1>2

\* connect(): whatever it closes, it leaves at most the new socket alive.
LEMMA ConnectLemma ==
  ASSUME RelayTypeOK, OnlyTheLink, NEW url, ConnectRelay(url)
  PROVE  links' \in Seq(Sock) /\ OnlyTheLink' /\ timer' = FALSE /\ (url \in Rooms => AliveIn(links)' # {})
<1> DEFINE s == Closing(links, link)
           new == [st |-> "connecting", to |-> url, clean |-> FALSE]
<1>1. s \in Seq(Sock) /\ DOMAIN s = DOMAIN links /\ AliveIn(s) = {}
  BY ClosingLemma DEF RelayTypeOK, OnlyTheLink
<1>2. CASE url \notin Rooms
  BY <1>1, <1>2 DEF ConnectRelay, OnlyTheLink
<1>3. CASE url \in Rooms
  <2>1. links' = Append(s, new) /\ link' = Len(links) + 1
    BY <1>3 DEF ConnectRelay
  <2>2. new \in Sock
    BY <1>3 DEF Sock
  <2>3. Len(s) = Len(links) /\ Len(s) \in Nat
    BY <1>1, LinksLemma DEF RelayTypeOK
  <2>4. /\ links' \in Seq(Sock) /\ DOMAIN links' = 1 .. Len(s) + 1
        /\ links'[Len(s) + 1] = new /\ \A j \in DOMAIN s : links'[j] = s[j]
    BY <1>1, <2>1, <2>2
  <2>5. AliveIn(links') = {Len(s) + 1}
    <3>1. ASSUME NEW j \in DOMAIN links', j # Len(s) + 1 PROVE j \in DOMAIN s
      BY <1>1, <2>3, <2>4, <3>1, LinksLemma
    <3>2. \A j \in DOMAIN s : s[j].st \notin {"connecting", "open"}
      BY <1>1 DEF AliveIn
    <3> QED BY <2>3, <2>4, <3>1, <3>2 DEF AliveIn
  <2> QED BY <2>1, <2>3, <2>4, <2>5 DEF ConnectRelay, OnlyTheLink
<1> QED BY <1>2, <1>3

LEMMA ConfigKeeps ==
  ASSUME RelayInv, NEW url, NEW on \in BOOLEAN, SetConfig(url, on) PROVE RelayInv'
<1>1. RelayTypeOK /\ OnlyTheLink /\ NoLostTimer
  BY DEF RelayInv
<1>2. relayUrl' = url /\ relayOn' = on /\ refused' = FALSE /\ lostTimers' = lostTimers /\ forgot' = forgot
  BY DEF SetConfig
<1>3. CASE on
  <2>1. links' \in Seq(Sock) /\ OnlyTheLink' /\ timer' = FALSE /\ (url \in Rooms => AliveIn(links)' # {})
    BY <1>1, <1>3, ConnectLemma DEF SetConfig
  <2> QED BY <1>1, <1>2, <1>3, <2>1 DEF RelayInv, RelayTypeOK, NoLostTimer, OffMeansOff, RelayKeepsTrying
<1>4. CASE ~on
  <2>1. timer' = FALSE /\ links' = Closing(links, link)
    BY <1>4 DEF SetConfig, DisconnectRelay
  <2>2. links' \in Seq(Sock) /\ AliveIn(links') = {}
    BY <1>1, <2>1, ClosingLemma DEF RelayTypeOK, OnlyTheLink
  <2> QED BY <1>1, <1>2, <1>4, <2>1, <2>2 DEF RelayInv, RelayTypeOK, OnlyTheLink, NoLostTimer, OffMeansOff, RelayKeepsTrying
<1> QED BY <1>3, <1>4

LEMMA OpensKeeps == ASSUME RelayInv, NEW i \in DOMAIN links, LinkOpens(i) PROVE RelayInv'
<1>1. links \in Seq(Sock) /\ links' = [links EXCEPT ![i].st = "open"] /\ links[i].st = "connecting"
  BY DEF RelayInv, RelayTypeOK, LinkOpens
<1>2. links' \in Seq(Sock) /\ DOMAIN links' = DOMAIN links /\ links'[i].st = "open"
      /\ \A j \in DOMAIN links : j # i => links'[j] = links[j]
  BY <1>1, StateSet DEF OnlyState
<1>3. AliveIn(links') = AliveIn(links)
  BY <1>1, <1>2 DEF AliveIn
<1>4. UNCHANGED <<relayOn, relayUrl, link, timer, lostTimers, refused, forgot>>
  BY DEF LinkOpens
<1> QED BY <1>2, <1>3, <1>4 DEF RelayInv, RelayTypeOK, OnlyTheLink, NoLostTimer, OffMeansOff, RelayKeepsTrying

\* A close sets a timer, or the relay is off, or the worker has refused it.
LEMMA ClosesKeeps == ASSUME RelayInv, NEW i \in DOMAIN links, LinkCloses(i) PROVE RelayInv'
<1>1. links \in Seq(Sock) /\ links' = [links EXCEPT ![i].st = "closed"] /\ UNCHANGED <<relayOn, relayUrl, link>>
  BY DEF RelayInv, RelayTypeOK, LinkCloses
<1>2. links' \in Seq(Sock) /\ DOMAIN links' = DOMAIN links /\ links'[i].st = "closed"
      /\ \A j \in DOMAIN links : j # i => links'[j] = links[j]
  BY <1>1, StateSet DEF OnlyState
<1>3. AliveIn(links') = AliveIn(links) \ {i}
  BY <1>1, <1>2 DEF AliveIn
<1>4. PICK code \in Codes(links[i]) :
         IF relayOn /\ code # 1000
         THEN timer' = TRUE /\ lostTimers' = lostTimers + (IF timer THEN 1 ELSE 0)
              /\ forgot' = (forgot \/ timer) /\ UNCHANGED refused
         ELSE refused' = (refused \/ links[i].st = "open") /\ UNCHANGED <<timer, lostTimers, forgot>>
  BY DEF LinkCloses
<1>5. CASE relayOn /\ code # 1000
  <2>1. /\ timer' = TRUE /\ lostTimers' = lostTimers + (IF timer THEN 1 ELSE 0)
        /\ forgot' = (forgot \/ timer) /\ refused' = refused
    BY <1>4, <1>5
  <2>2. lostTimers' \in Nat /\ forgot' \in BOOLEAN /\ (~forgot' => lostTimers' = 0)
    BY <2>1 DEF RelayInv, RelayTypeOK, NoLostTimer
  <2> QED BY <1>1, <1>2, <1>3, <1>5, <2>1, <2>2
          DEF RelayInv, RelayTypeOK, OnlyTheLink, NoLostTimer, OffMeansOff, RelayKeepsTrying
<1>6. CASE ~(relayOn /\ code # 1000)
  <2>1. refused' = (refused \/ links[i].st = "open") /\ UNCHANGED <<timer, lostTimers, forgot>>
    BY <1>4, <1>6
  <2>2. i \in AliveIn(links) /\ relayOn => refused'
    <3>1. ASSUME i \in AliveIn(links), relayOn PROVE links[i].st = "open"
      BY <1>6, <3>1 DEF Codes, AliveIn
    <3> QED BY <2>1, <3>1
  <2>3. refused => refused'
    BY <2>1
  <2>4. refused' \in BOOLEAN
    BY <2>1
  <2>5. RelayKeepsTrying'
    BY <1>1, <1>3, <2>1, <2>2, <2>3 DEF RelayInv, RelayKeepsTrying
  <2> QED BY <1>1, <1>2, <1>3, <2>1, <2>4, <2>5
          DEF RelayInv, RelayTypeOK, OnlyTheLink, NoLostTimer, OffMeansOff
<1> QED BY <1>5, <1>6

LEMMA TimerKeeps == ASSUME RelayInv, RelayTimerFires PROVE RelayInv'
<1>1. UNCHANGED <<relayOn, relayUrl, refused, forgot>> /\ (timer \/ lostTimers > 0) /\ ConnectRelay(relayUrl)
  BY DEF RelayTimerFires
<1>2. lostTimers' \in Nat /\ (lostTimers = 0 => lostTimers' = 0)
  BY DEF RelayTimerFires, RelayInv, RelayTypeOK
<1>3. links' \in Seq(Sock) /\ OnlyTheLink' /\ timer' = FALSE /\ (relayUrl \in Rooms => AliveIn(links)' # {})
  BY <1>1, ConnectLemma DEF RelayInv
<1>4. ~relayOn => forgot
  BY <1>1 DEF RelayInv, RelayTypeOK, OffMeansOff, NoLostTimer
<1> QED BY <1>1, <1>2, <1>3, <1>4 DEF RelayInv, RelayTypeOK, NoLostTimer, OffMeansOff, RelayKeepsTrying

----------------------------------------------------------------------------
(* The service's state as a whole *)

LEMMA ServiceStays == ASSUME RelayInv, UNCHANGED serviceVars PROVE RelayInv'
BY DEF serviceVars, RelayInv, RelayTypeOK, OnlyTheLink, NoLostTimer, OffMeansOff, RelayKeepsTrying

\* Init and Next, with the page's switch a Boolean.
PageInv == RelayInv /\ pageOn \in BOOLEAN

LEMMA UserKeeps == ASSUME PageInv, RelayUser PROVE PageInv'
<1>1. CASE EditRelayUrl \/ CreateRelaySession \/ \E url \in {"demo", "car"} : ApplySource(url)
  <2>1. UNCHANGED serviceVars /\ UNCHANGED pageOn
    BY <1>1 DEF EditRelayUrl, CreateRelaySession, ApplySource, pageVars
  <2> QED BY <2>1, ServiceStays DEF PageInv
<1>2. CASE ApplyRelay
  BY <1>2, ConfigKeeps DEF ApplyRelay, PageInv, pageVars
<1>3. CASE ToggleRelay
  <2>1. CASE SetConfig(pageUrl, FALSE) /\ pageOn' = FALSE
    BY <2>1, ConfigKeeps DEF PageInv
  <2>2. CASE UNCHANGED <<pageOn, serviceVars>>
    BY <2>2, ServiceStays DEF PageInv
  <2>3. CASE SetConfig(pageUrl, TRUE) /\ pageOn' = TRUE
    BY <2>3, ConfigKeeps DEF PageInv
  <2> QED BY <1>3, <2>1, <2>2, <2>3 DEF ToggleRelay
<1> QED BY <1>1, <1>2, <1>3 DEF RelayUser

LEMMA RelayNextKeeps == ASSUME PageInv, [RelayNext]_relayVars PROVE PageInv'
<1>1. CASE RelaySide
  <2>1. pageOn' = pageOn
    BY <1>1 DEF RelaySide, LinkOpens, LinkCloses, pageVars
  <2> QED BY <1>1, <2>1, OpensKeeps, ClosesKeeps DEF RelaySide, PageInv
<1>2. CASE RelayTimerFires
  BY <1>2, TimerKeeps DEF RelayTimerFires, PageInv, pageVars
<1>3. CASE SessionAnswered
  <2>1. CASE \E room \in Rooms : pageOn' = TRUE /\ SetConfig(room, TRUE)
    BY <2>1, ConfigKeeps DEF PageInv
  <2>2. CASE UNCHANGED <<pageOn, pageUrl, serviceVars>>
    BY <2>2, ServiceStays DEF PageInv
  <2> QED BY <1>3, <2>1, <2>2 DEF SessionAnswered
<1>4. CASE RelayUser
  BY <1>4, UserKeeps
<1>5. CASE FeedSide \/ Viewing \/ UNCHANGED relayVars
  <2>1. UNCHANGED serviceVars /\ UNCHANGED pageOn
    BY <1>5 DEF FeedSide, Viewing, FeedRetries, FeedOpens, FeedCloses, Heartbeat, FeedDelivers, ViewerComesOrGoes,
                relayVars, pageVars
  <2> QED BY <2>1, ServiceStays DEF PageInv
<1> QED BY <1>1, <1>2, <1>3, <1>4, <1>5 DEF RelayNext

LEMMA RelayAlways == RelaySpec => []PageInv
<1>1. ASSUME RelayInit PROVE PageInv
  <2>1. relayOn \in BOOLEAN /\ pageOn \in BOOLEAN /\ timer = FALSE /\ lostTimers = 0 /\ refused = FALSE /\ forgot = FALSE
    BY <1>1 DEF RelayInit
  <2>2. CASE relayOn
    <3> DEFINE new == [st |-> "connecting", to |-> relayUrl, clean |-> FALSE]
    <3>1. links = <<new>> /\ link = 1 /\ new \in Sock
      BY <1>1, <2>2 DEF RelayInit, Sock
    <3>2. AliveIn(links) = {1} /\ links \in Seq(Sock)
      BY <3>1 DEF AliveIn
    <3> QED BY <2>1, <2>2, <3>1, <3>2
            DEF PageInv, RelayInv, RelayTypeOK, OnlyTheLink, NoLostTimer, OffMeansOff, RelayKeepsTrying
  <2>3. CASE ~relayOn
    <3>1. AliveIn(links) = {} /\ links \in Seq(Sock)
      BY <1>1, <2>3 DEF RelayInit, AliveIn
    <3> QED BY <2>1, <2>3, <3>1
            DEF PageInv, RelayInv, RelayTypeOK, OnlyTheLink, NoLostTimer, OffMeansOff, RelayKeepsTrying
  <2> QED BY <2>2, <2>3
<1> QED BY <1>1, RelayNextKeeps, PTL DEF RelaySpec

\* However toggles, applied settings, a session that arrives late and old timers follow
\* each other, the phone has at most one socket to the worker (LiveRelayService.connect).
THEOREM OneSocket == RelaySpec => []OneRelaySocket
<1>1. ASSUME OnlyTheLink PROVE OneRelaySocket
  <2>1. IsFiniteSet({link}) /\ Cardinality({link}) = 1
    BY FS_Singleton
  <2>2. Cardinality(AliveIn(links)) <= Cardinality({link})
    BY <1>1, <2>1, FS_Subset DEF OnlyTheLink
  <2> QED BY <2>1, <2>2 DEF OneRelaySocket
<1>2. PageInv => OneRelaySocket
  BY <1>1 DEF PageInv, RelayInv
<1> QED BY <1>2, RelayAlways, PTL

\* A relay that is switched off has no socket and nothing that will open one, unless the
\* service forgot a timer while it was on (onclose, disconnect).
THEOREM OffStaysOff == RelaySpec => []OffMeansOff
<1>1. PageInv => OffMeansOff
  BY DEF PageInv, RelayInv
<1> QED BY <1>1, RelayAlways, PTL

\* A relay that is on has a socket, an event still to come or a timer, until the worker
\* closes the socket with code 1000 (LiveRelayService.onclose).
THEOREM KeepsTrying == RelaySpec => []RelayKeepsTrying
<1>1. PageInv => RelayKeepsTrying
  BY DEF PageInv, RelayInv
<1> QED BY <1>1, RelayAlways, PTL

\* The relay is what its switch says, all of it: at most one socket, nothing when it is off,
\* and someone who opens the socket again while it is on (LiveRelayService).
THEOREM RelayDoesAsSet == RelaySpec => []RelayIsAsSet
BY OneSocket, OffStaysOff, KeepsTrying, PTL DEF RelayIsAsSet
----------------------------------------------------------------------------
(* The stream overlay *)

Pipe == [st : {"connecting", "open", "closing", "closed"}, bound : BOOLEAN]
Peer == [host : Hosts, at : {"offering", "posted", "answered", "ended"}, cancelled : BOOLEAN]
Ids == StdIds \cup ExtIds
Modes == {"connecting", "live", "sim", "error", "idle"}
Makers == {"none", "sim", "car"}

\* The socket in use is bound and has not closed, and no other is up or bound; who asked
\* for no socket has none, and no timer for one.
OnlyThePipe ==
  /\ pipe # NoPipe => pipes[pipe].bound /\ pipes[pipe].st # "closed"
  /\ \A i \in DOMAIN pipes : IsUp(i) \/ (pipes[i].bound /\ pipes[i].st # "closed") => i = pipe
IdleIsIdle == idled => pipe = NoPipe /\ ~retryOn
PipeInv ==
  /\ pipes \in Seq(Pipe) /\ pipe \in {NoPipe} \cup DOMAIN pipes
  /\ mode \in Modes /\ retryOn \in BOOLEAN /\ simOn \in BOOLEAN /\ idled \in BOOLEAN
  /\ OnlyThePipe /\ IdleIsIdle /\ LiveIsLive /\ StreamComesBack
TableInv == live \in [Ids -> Makers] /\ ChosenSimIsPure
PeerInv ==
  /\ peers \in Seq(Peer) /\ host \in Hosts \cup {""}
  /\ \A i \in DOMAIN peers : ~peers[i].cancelled => peers[i].host = host
  /\ VideoOfHost
StreamInv == PipeInv /\ TableInv /\ PeerInv

LEMMA PipesStay == ASSUME PipeInv, UNCHANGED <<mode, pipes, pipe, retryOn, simOn, idled>> PROVE PipeInv'
BY DEF PipeInv, OnlyThePipe, IdleIsIdle, LiveIsLive, StreamComesBack, IsUp
LEMMA TableStays == ASSUME TableInv, UNCHANGED <<live, idled>> PROVE TableInv'
BY DEF TableInv, ChosenSimIsPure
LEMMA PeersStay == ASSUME PeerInv, UNCHANGED videoVars PROVE PeerInv'
BY DEF PeerInv, VideoOfHost, videoVars

\* A given-up socket is neither up nor bound, and the others stay as they are.
LEMMA DroppedLemma ==
  ASSUME PipeInv
  PROVE  /\ Dropped \in Seq(Pipe) /\ DOMAIN Dropped = DOMAIN pipes /\ Len(Dropped) = Len(pipes)
         /\ \A i \in DOMAIN pipes : Dropped[i].st \notin {"connecting", "open"} /\ ~(Dropped[i].bound /\ Dropped[i].st # "closed")
<1>1. CASE pipe = NoPipe
  BY <1>1 DEF Dropped, PipeInv, OnlyThePipe, IsUp, NoPipe
<1>2. CASE pipe # NoPipe
  <2> DEFINE q == [st |-> IF IsUp(pipe) THEN "closing" ELSE pipes[pipe].st, bound |-> FALSE]
  <2>1. pipe \in DOMAIN pipes /\ pipes[pipe] \in Pipe
    BY <1>2 DEF PipeInv
  <2>2. q \in Pipe /\ ~q.bound /\ q.st \notin {"connecting", "open"}
    BY <2>1 DEF Pipe, IsUp
  <2>3. Dropped = [pipes EXCEPT ![pipe] = q]
    BY <1>2 DEF Dropped
  <2> HIDE DEF q
  <2>4. /\ Dropped \in Seq(Pipe) /\ DOMAIN Dropped = DOMAIN pipes /\ Len(Dropped) = Len(pipes)
        /\ Dropped[pipe] = q /\ \A i \in DOMAIN pipes : i # pipe => Dropped[i] = pipes[i]
    BY <2>1, <2>2, <2>3 DEF PipeInv
  <2> QED BY <2>2, <2>4 DEF PipeInv, OnlyThePipe, IsUp
<1> QED BY <1>1, <1>2

\* Giving the socket up for the simulator or for nothing.
LEMMA GivesUp ==
  ASSUME PipeInv, pipes' = Dropped, pipe' = NoPipe, retryOn' = FALSE, idled' = TRUE,
         simOn' \in BOOLEAN, mode' \in {"sim", "idle"}
  PROVE  PipeInv'
<1>1. OnlyThePipe'
  BY DroppedLemma DEF OnlyThePipe, IsUp
<1> QED BY <1>1, DroppedLemma DEF PipeInv, IdleIsIdle, LiveIsLive, StreamComesBack, Modes

LEMMA EmptyIsPure == ASSUME TableInv, live' = Emptied PROVE TableInv'
BY DEF TableInv, Emptied, ChosenSimIsPure, Makers

LEMMA BaseConnects == ASSUME StreamInv, Connects("base"), idled' = FALSE PROVE PipeInv'
<1> DEFINE q == [st |-> "connecting", bound |-> TRUE]
<1>1. pipes' = Append(Dropped, q) /\ pipe' = Len(pipes) + 1 /\ mode' = "connecting" /\ simOn' = simOn /\ retryOn' = FALSE
  BY DEF Connects
<1>2. q \in Pipe
  BY DEF Pipe
<1>3. /\ pipes' \in Seq(Pipe) /\ pipe' \in DOMAIN pipes' /\ DOMAIN pipes' = DOMAIN pipes \cup {pipe'} /\ pipe' \notin DOMAIN pipes
      /\ pipes'[pipe'] = q /\ pipe' # NoPipe /\ \A i \in DOMAIN pipes : pipes'[i] = Dropped[i]
  BY <1>1, <1>2, DroppedLemma DEF StreamInv, PipeInv, NoPipe
<1>4. OnlyThePipe'
  BY <1>3, DroppedLemma DEF OnlyThePipe, IsUp, StreamInv
<1>5. ~idled' /\ mode' # "live" /\ pipe' # NoPipe /\ pipes'[pipe'].st # "closed"
  BY <1>1, <1>3
<1>6. IdleIsIdle' /\ LiveIsLive' /\ StreamComesBack'
  BY <1>5 DEF IdleIsIdle, LiveIsLive, StreamComesBack
<1>7. mode' \in Modes /\ retryOn' \in BOOLEAN /\ simOn' \in BOOLEAN /\ idled' \in BOOLEAN
  BY <1>1 DEF StreamInv, PipeInv, Modes
<1> QED BY <1>3, <1>4, <1>6, <1>7 DEF PipeInv

LEMMA ConnectingIsSafe == ASSUME StreamInv, StreamConnect \/ (StreamRetry /\ retryOn) PROVE StreamInv'
<1>1. live' = Emptied /\ UNCHANGED videoVars
  BY DEF StreamConnect, StreamRetry, Connects
<1>2. CASE StreamRetry
  <2>1. idled' = FALSE /\ Connects("base")
    BY <1>2 DEF StreamInv, PipeInv, IdleIsIdle, StreamRetry
  <2> QED BY <1>1, <2>1, BaseConnects, EmptyIsPure, PeersStay DEF StreamInv
<1>3. CASE StreamConnect
  <2>1. PICK url \in {"none", "bad", "base"} : Connects(url) /\ idled' = (url # "base")
    BY <1>3 DEF StreamConnect
  <2>2. CASE url = "base"
    BY <1>1, <2>1, <2>2, BaseConnects, EmptyIsPure, PeersStay DEF StreamInv
  <2>3. CASE url # "base"
    <3>1. pipes' = Dropped /\ pipe' = NoPipe /\ retryOn' = FALSE /\ idled' = TRUE /\ simOn' = TRUE /\ mode' = "sim"
      BY <2>1, <2>3 DEF Connects
    <3> QED BY <1>1, <3>1, GivesUp, EmptyIsPure, PeersStay DEF StreamInv
  <2> QED BY <2>2, <2>3
<1> QED BY <1>2, <1>3

LEMMA SimIsSafe == ASSUME StreamInv, NEW on \in BOOLEAN, UseSim(on) PROVE StreamInv'
<1>1. /\ pipes' = Dropped /\ pipe' = NoPipe /\ retryOn' = FALSE /\ idled' = TRUE /\ simOn' = on /\ mode' \in {"sim", "idle"}
      /\ live' = Emptied /\ UNCHANGED videoVars
  BY DEF UseSim
<1> QED BY <1>1, GivesUp, EmptyIsPure, PeersStay DEF StreamInv

\* One socket comes into another state.
LEMMA PipeMoves ==
  ASSUME PipeInv, NEW i \in DOMAIN pipes, NEW st \in {"open", "closing", "closed"}, pipes' = [pipes EXCEPT ![i].st = st]
  PROVE  /\ pipes' \in Seq(Pipe) /\ DOMAIN pipes' = DOMAIN pipes /\ pipes'[i].st = st /\ pipes'[i].bound = pipes[i].bound
         /\ \A j \in DOMAIN pipes : j # i => pipes'[j] = pipes[j]
         /\ i # NoPipe
<1> DEFINE q == [pipes[i] EXCEPT !.st = st]
<1>0. pipes[i] \in Pipe /\ i # NoPipe
  BY DEF PipeInv, NoPipe
<1>1. q \in Pipe /\ q.st = st /\ q.bound = pipes[i].bound
  BY <1>0 DEF Pipe
<1>2. pipes' = [pipes EXCEPT ![i] = q]
  OBVIOUS
<1> HIDE DEF q
<1> QED BY <1>0, <1>1, <1>2 DEF PipeInv

LEMMA WireOpensSafe == ASSUME StreamInv, NEW i \in DOMAIN pipes, WireOpens(i) PROVE StreamInv'
<1>1. pipes' = [pipes EXCEPT ![i].st = "open"] /\ simOn' = FALSE /\ mode' = "live" /\ UNCHANGED <<pipe, retryOn, idled, videoVars>>
      /\ live' \in {Emptied, live}
  BY DEF WireOpens
<1>2. i = pipe
  BY DEF WireOpens, StreamInv, PipeInv, OnlyThePipe, IsUp
<1>3. OnlyThePipe'
  BY <1>1, <1>2, PipeMoves DEF StreamInv, PipeInv, OnlyThePipe, IsUp
<1>4. PipeInv'
  BY <1>1, <1>2, <1>3, PipeMoves DEF StreamInv, PipeInv, IdleIsIdle, LiveIsLive, StreamComesBack, Modes
<1> QED BY <1>1, <1>4, EmptyIsPure, TableStays, PeersStay DEF StreamInv

LEMMA WireErrsSafe == ASSUME StreamInv, NEW i \in DOMAIN pipes, WireErrs(i) PROVE StreamInv'
<1>1. pipes' = [pipes EXCEPT ![i].st = "closing"] /\ mode' = "error" /\ UNCHANGED <<pipe, retryOn, simOn, idled, live, videoVars>>
  BY DEF WireErrs, tableVars
<1>2. IsUp(i) \/ ~pipes[i].bound
  BY DEF WireErrs
<1>3. OnlyThePipe'
  BY <1>1, <1>2, PipeMoves DEF StreamInv, PipeInv, OnlyThePipe, IsUp
<1>4. PipeInv'
  BY <1>1, <1>3, PipeMoves DEF StreamInv, PipeInv, IdleIsIdle, LiveIsLive, StreamComesBack, OnlyThePipe, Modes
<1> QED BY <1>1, <1>4, TableStays, PeersStay DEF StreamInv

LEMMA WireClosesSafe == ASSUME StreamInv, NEW i \in DOMAIN pipes, WireCloses(i) PROVE StreamInv'
<1>1. pipes' = [pipes EXCEPT ![i].st = "closed"] /\ pipes[i].st # "closed" /\ UNCHANGED <<idled, live, videoVars>>
  BY DEF WireCloses, tableVars
<1>2. CASE pipes[i].bound
  <2>1. pipe' = NoPipe /\ retryOn' = TRUE /\ simOn' = TRUE /\ mode' \in {"error", "sim"}
    BY <1>2 DEF WireCloses
  <2>2. i = pipe /\ ~idled
    BY <1>1, <1>2, PipeMoves DEF StreamInv, PipeInv, OnlyThePipe, IdleIsIdle
  <2>3. OnlyThePipe'
    BY <1>1, <2>1, <2>2, PipeMoves DEF StreamInv, PipeInv, OnlyThePipe, IsUp
  <2> QED BY <1>1, <2>1, <2>2, <2>3, PipeMoves, TableStays, PeersStay DEF StreamInv, PipeInv, IdleIsIdle, LiveIsLive, StreamComesBack, Modes
<1>3. CASE ~pipes[i].bound
  <2>1. UNCHANGED <<pipe, retryOn, simOn, mode>>
    BY <1>3 DEF WireCloses
  <2>2. i # pipe
    BY <1>3, PipeMoves, <1>1 DEF StreamInv, PipeInv, OnlyThePipe
  <2>3. OnlyThePipe'
    BY <1>1, <2>1, <2>2, PipeMoves DEF StreamInv, PipeInv, OnlyThePipe, IsUp
  <2>4. PipeInv'
    BY <1>1, <2>1, <2>2, <2>3, PipeMoves DEF StreamInv, PipeInv, IdleIsIdle, LiveIsLive, StreamComesBack
  <2> QED BY <1>1, <2>4, TableStays, PeersStay DEF StreamInv
<1> QED BY <1>2, <1>3

LEMMA DataIsSafe ==
  ASSUME StreamInv, SimTicks \/ \E i \in DOMAIN pipes, id \in Ids : WireDelivers(i, id)
  PROVE  StreamInv'
<1>1. UNCHANGED <<pipeVars, videoVars>>
  BY DEF SimTicks, WireDelivers
<1>2. CASE SimTicks
  <2>1. live' \in [Ids -> Makers] /\ \A id \in Ids : live'[id] \in {live[id], "sim"}
    BY <1>2 DEF SimTicks, Ingested, StreamInv, TableInv, Makers
  <2> QED BY <1>1, <2>1, PipesStay, PeersStay DEF StreamInv, TableInv, ChosenSimIsPure, pipeVars
<1>3. CASE \E i \in DOMAIN pipes, id \in Ids : WireDelivers(i, id)
  <2>1. PICK i \in DOMAIN pipes, id \in Ids : WireDelivers(i, id)
    BY <1>3
  <2>2. i = pipe /\ i # NoPipe
    BY <2>1 DEF WireDelivers, StreamInv, PipeInv, OnlyThePipe, IsUp, NoPipe
  <2>3. ~idled
    BY <2>2 DEF StreamInv, PipeInv, IdleIsIdle
  <2>4. live' \in [Ids -> Makers]
    BY <2>1 DEF WireDelivers, Ingested, StreamInv, TableInv, Makers
  <2> QED BY <1>1, <2>3, <2>4, PipesStay, PeersStay DEF StreamInv, TableInv, ChosenSimIsPure, pipeVars
<1> QED BY <1>2, <1>3

LEMMA EntryLemma == ASSUME NEW s \in Seq(Peer), NEW i \in DOMAIN s PROVE s[i] \in Peer
OBVIOUS
LEMMA OverEntries ==
  ASSUME NEW s \in Seq(Peer), NEW f \in [DOMAIN s -> Peer]
  PROVE  f \in Seq(Peer) /\ DOMAIN f = DOMAIN s /\ f \o <<>> = f
<1>1. Len(s) \in Nat /\ DOMAIN s = 1 .. Len(s)
  OBVIOUS
<1>2. f \in Seq(Peer)
  BY <1>1
<1> QED BY <1>2
LEMMA OneMore ==
  ASSUME NEW s \in Seq(Peer), NEW q \in Peer
  PROVE  s \o <<q>> \in Seq(Peer) /\ s \o <<q>> = Append(s, q)
OBVIOUS
LEMMA AppendedLemma ==
  ASSUME NEW s \in Seq(Peer), NEW q \in Peer, \A i \in DOMAIN s : s[i].cancelled
  PROVE  Append(s, q) \in Seq(Peer) /\ \A i \in DOMAIN Append(s, q) : Append(s, q)[i].cancelled \/ Append(s, q)[i] = q
OBVIOUS

LEMMA HostIsSafe == ASSUME StreamInv, NEW h \in Hosts \cup {""}, SetHost(h) PROVE StreamInv'
<1> DEFINE given == [i \in DOMAIN peers |-> [peers[i] EXCEPT !.cancelled = TRUE]]
           p == [host |-> h, at |-> "offering", cancelled |-> FALSE]
<1>1. \A i \in DOMAIN peers : [peers[i] EXCEPT !.cancelled = TRUE] \in Peer /\ [peers[i] EXCEPT !.cancelled = TRUE].cancelled
  <2>1. peers \in Seq(Peer)
    BY DEF StreamInv, PeerInv
  <2>2. \A i \in DOMAIN peers : peers[i] \in Peer
    BY <2>1, EntryLemma
  <2> QED BY <2>2 DEF Peer
<1>2. given \in Seq(Peer) /\ given \o <<>> = given /\ \A i \in DOMAIN given : given[i].cancelled
  <2>1. peers \in Seq(Peer) /\ given \in [DOMAIN peers -> Peer]
    BY <1>1 DEF StreamInv, PeerInv
  <2> QED BY <1>1, <2>1, OverEntries
<1>3. peers' = given \o PeerOf(h) /\ host' = h /\ video' \in {"placeholder", "connecting"} /\ UNCHANGED <<pipeVars, tableVars>>
  BY DEF SetHost
<1> HIDE DEF given
<1>4. peers' \in Seq(Peer) /\ \A i \in DOMAIN peers' : peers'[i].cancelled \/ peers'[i].host = h
  <2>1. CASE h = ""
    BY <1>2, <1>3, <2>1 DEF PeerOf
  <2>2. CASE h # ""
    <3>1. p \in Peer
      BY <2>2 DEF Peer
    <3>2. peers' = given \o <<p>>
      BY <1>3, <2>2 DEF PeerOf
    <3>3. p.host = h
      OBVIOUS
    <3> HIDE DEF p
    <3>4. peers' = Append(given, p)
      BY <1>2, <3>1, <3>2, OneMore
    <3> QED BY <1>2, <3>1, <3>3, <3>4, AppendedLemma
  <2> QED BY <2>1, <2>2
<1>5. PeerInv'
  BY <1>3, <1>4 DEF PeerInv, VideoOfHost, Hosts
<1> QED BY <1>3, <1>5, PipesStay, TableStays DEF StreamInv, pipeVars, tableVars

LEMMA EntrySet ==
  ASSUME NEW s \in Seq(Peer), NEW i \in DOMAIN s, NEW q \in Peer
  PROVE  LET r == [s EXCEPT ![i] = q] IN
         r \in Seq(Peer) /\ DOMAIN r = DOMAIN s /\ r[i] = q /\ \A j \in DOMAIN s : j # i => r[j] = s[j]
OBVIOUS

LEMMA PeerIsSafe == ASSUME StreamInv, NEW i \in DOMAIN peers, PeerStep(i) PROVE StreamInv'
<1>1. UNCHANGED <<host, pipeVars, tableVars>>
  BY DEF PeerStep
<1>2. peers[i] \in Peer
  <2>1. peers \in Seq(Peer)
    BY DEF StreamInv, PeerInv
  <2> QED BY <2>1, EntryLemma
<1>3. ASSUME NEW at \in {"posted", "answered", "ended"}, peers' = [peers EXCEPT ![i].at = at]
      PROVE  peers' \in Seq(Peer) /\ \A j \in DOMAIN peers' : ~peers'[j].cancelled => peers'[j].host = host'
  <2> DEFINE q == [peers[i] EXCEPT !.at = at]
  <2>1. q \in Peer /\ q.cancelled = peers[i].cancelled /\ q.host = peers[i].host
    BY <1>2 DEF Peer
  <2>2. peers' = [peers EXCEPT ![i] = q]
    BY <1>3
  <2> HIDE DEF q
  <2>3. peers \in Seq(Peer) /\ \A j \in DOMAIN peers : ~peers[j].cancelled => peers[j].host = host
    BY DEF StreamInv, PeerInv
  <2>4. /\ peers' \in Seq(Peer) /\ DOMAIN peers' = DOMAIN peers
        /\ peers'[i] = q /\ \A j \in DOMAIN peers : j # i => peers'[j] = peers[j]
    BY <2>1, <2>2, <2>3, EntrySet
  <2> QED BY <1>1, <2>1, <2>3, <2>4
<1>4. peers' = peers \/ \E at \in {"posted", "answered", "ended"} : peers' = [peers EXCEPT ![i].at = at]
  BY DEF PeerStep
<1>5. peers' \in Seq(Peer) /\ \A j \in DOMAIN peers' : ~peers'[j].cancelled => peers'[j].host = host'
  BY <1>1, <1>3, <1>4 DEF StreamInv, PeerInv
<1>6. video' \in {video, "offline"} \/ (~peers[i].cancelled /\ video' = peers[i].host)
  BY DEF PeerStep
<1>7. VideoOfHost'
  BY <1>1, <1>6 DEF StreamInv, PeerInv, VideoOfHost, Hosts
<1>8. PeerInv'
  BY <1>1, <1>5, <1>7 DEF StreamInv, PeerInv
<1> QED BY <1>1, <1>8, PipesStay, TableStays DEF StreamInv, pipeVars, tableVars

LEMMA StreamStart == ASSUME StreamInit PROVE StreamInv
<1>1. pipes = <<[st |-> "connecting", bound |-> TRUE]>> /\ pipes \in Seq(Pipe) /\ DOMAIN pipes = {1}
  BY DEF StreamInit, Pipe
<1>2. PipeInv
  <2>1. pipe = 1 /\ pipe # NoPipe /\ pipes[1].st = "connecting" /\ pipes[1].bound
    BY <1>1 DEF StreamInit, NoPipe
  <2>2. OnlyThePipe
    BY <1>1, <2>1 DEF OnlyThePipe
  <2>3. IdleIsIdle /\ LiveIsLive /\ StreamComesBack
    BY <2>1 DEF StreamInit, IdleIsIdle, LiveIsLive, StreamComesBack
  <2>4. pipes \in Seq(Pipe) /\ pipe \in {NoPipe} \cup DOMAIN pipes
    BY <1>1, <2>1
  <2>5. mode \in Modes /\ retryOn \in BOOLEAN /\ simOn \in BOOLEAN /\ idled \in BOOLEAN
    BY DEF StreamInit, Modes
  <2> QED BY <2>2, <2>3, <2>4, <2>5 DEF PipeInv
<1>3. TableInv
  BY DEF StreamInit, TableInv, ChosenSimIsPure, Ids, Makers
<1>4. peers = <<[host |-> "a", at |-> "offering", cancelled |-> FALSE]>> /\ peers \in Seq(Peer) /\ DOMAIN peers = {1}
  BY DEF StreamInit, PeerOf, Peer, Hosts
<1>5. PeerInv
  BY <1>4 DEF StreamInit, PeerInv, VideoOfHost, Hosts
<1> QED BY <1>2, <1>3, <1>5 DEF StreamInv

LEMMA StreamKeeps == ASSUME StreamInv, [StreamNext]_overlayVars PROVE StreamInv'
<1>1. CASE StreamSockets
  BY <1>1, WireOpensSafe, WireErrsSafe, WireClosesSafe DEF StreamSockets
<1>2. CASE StreamData
  BY <1>2, DataIsSafe DEF StreamData, Ids
<1>3. CASE StreamUser
  BY <1>3, ConnectingIsSafe, SimIsSafe DEF StreamUser
<1>4. CASE StreamRetry
  BY <1>4, ConnectingIsSafe DEF StreamRetry
<1>5. CASE DecoderLoads \/ UNCHANGED overlayVars
  BY <1>5, PipesStay, TableStays, PeersStay DEF StreamInv, DecoderLoads, overlayVars, pipeVars, tableVars
<1>6. CASE Video
  BY <1>6, HostIsSafe, PeerIsSafe DEF Video
<1> QED BY <1>1, <1>2, <1>3, <1>4, <1>5, <1>6 DEF StreamNext

\* The overlay shows what it says: LIVE with the simulator stopped over an open socket, one
\* socket at most, which comes back unless the user gave it up; then nothing of the car; and
\* the video of the host in use (ws-service.jsx, telemetry-store.jsx, video-stage.jsx).
THEOREM OverlayIsTrue == StreamSpec => []StreamIsTrue
<1>1. ASSUME StreamInv PROVE StreamIsTrue
  <2>1. {i \in DOMAIN pipes : IsUp(i)} \subseteq {pipe}
    BY <1>1 DEF StreamInv, PipeInv, OnlyThePipe
  <2>2. IsFiniteSet({pipe}) /\ Cardinality({pipe}) = 1
    BY FS_Singleton
  <2>3. /\ Cardinality({i \in DOMAIN pipes : IsUp(i)}) <= Cardinality({pipe})
        /\ Cardinality({i \in DOMAIN pipes : IsUp(i)}) \in Nat
    BY <2>1, <2>2, FS_Subset, FS_CardinalityType
  <2>4. OneWire
    BY <2>2, <2>3 DEF OneWire
  <2> QED BY <1>1, <2>4 DEF StreamInv, PipeInv, TableInv, PeerInv, StreamIsTrue
<1>2. StreamInv => StreamIsTrue
  BY <1>1
<1> QED BY <1>2, StreamStart, StreamKeeps, PTL DEF StreamSpec

----------------------------------------------------------------------------
(* The flight recorder's log *)

\* The table: frames are numbered as they come, and an entry says whether it is synced.
Entry == [can : CanIds, synced : BOOLEAN]
LogTypeOK ==
  /\ received \in 0 .. MaxFrames /\ troubles \in Nat
  /\ DOMAIN log \subseteq 1 .. received /\ log \in [DOMAIN log -> Entry]
  /\ serverHas \in [1 .. MaxFrames -> Nat]

\* The batch of a sync: what is being uploaded is not synced, what is going to be marked has
\* been stored if it could be decoded, and there is no batch at any other time.
InTable == batch \cap DOMAIN log
BatchIsCurrent ==
  /\ (syncing <=> syncAt # "idle") /\ batch \subseteq 1 .. received
  /\ syncAt \notin {"upload", "mark"} => batch = {}
  /\ syncAt = "upload" => InTable \subseteq Unsynced
  /\ syncAt = "mark" => \A n \in InTable : Decodable(n) => serverHas[n] > 0

\* A frame that is not marked has been stored only by uploads that failed, or by the one
\* whose batch is about to be marked.
OnlyTroubleRepeats ==
  /\ \A n \in Unsynced : (syncAt = "mark" => n \notin batch) => serverHas[n] <= troubles
  /\ \A n \in received + 1 .. MaxFrames : serverHas[n] = 0

LogInv == LogTypeOK /\ BatchIsCurrent /\ OnlyTroubleRepeats /\ SyncedMeansUploaded /\ UploadedOnce

LEMMA LogInvInit == BbInit => LogInv
BY BlackboxAssumption
   DEF BbInit, LogInv, LogTypeOK, BatchIsCurrent, OnlyTroubleRepeats, SyncedMeansUploaded, UploadedOnce,
       Unsynced, InTable, Entry, BlackboxAssumption

\* Steps that leave the table, the server and the batch alone, or only forget the batch.
LEMMA BatchForgotten ==
  ASSUME LogInv, UNCHANGED <<log, received, serverHas, skipped>>, troubles' \in Nat, troubles' >= troubles,
         syncing' <=> syncAt' # "idle",
         \/ UNCHANGED <<syncAt, syncDbc, batch, troubles>>
         \/ syncAt' \notin {"upload", "mark"} /\ batch' = {} /\ (syncAt = "mark" => troubles' > troubles)
  PROVE  LogInv'
<1>1. LogTypeOK' /\ SyncedMeansUploaded' /\ UploadedOnce'
  BY DEF LogInv, LogTypeOK, SyncedMeansUploaded, UploadedOnce
<1>2. BatchIsCurrent'
  BY DEF LogInv, BatchIsCurrent, InTable, Unsynced, Decodable
<1>3. ASSUME NEW n \in Unsynced, ~(syncAt' = "mark" /\ n \in batch')
      PROVE  serverHas[n] <= troubles'
  <2>1. n \in 1 .. MaxFrames /\ serverHas[n] \in Nat /\ serverHas[n] <= 1 + troubles /\ troubles \in Nat
    BY BlackboxAssumption DEF LogInv, LogTypeOK, UploadedOnce, Unsynced, BlackboxAssumption
  <2> QED BY <1>3, <2>1 DEF LogInv, OnlyTroubleRepeats
<1>4. OnlyTroubleRepeats'
  BY <1>3 DEF LogInv, OnlyTroubleRepeats, Unsynced
<1> QED BY <1>1, <1>2, <1>4 DEF LogInv

\* What an upload leaves on the server.
LEMMA StoredLemma ==
  ASSUME LogInv, syncAt = "upload", Stored
  PROVE  /\ serverHas' \in [1 .. MaxFrames -> Nat]
         /\ \A n \in 1 .. MaxFrames : serverHas'[n] >= serverHas[n]
         /\ \A n \in 1 .. MaxFrames : serverHas'[n] <= 1 + troubles
         /\ \A n \in Unsynced : n \notin batch => serverHas'[n] = serverHas[n]
         /\ \A n \in InTable : Decodable(n) => serverHas'[n] > 0
         /\ \A n \in received + 1 .. MaxFrames : serverHas'[n] = 0
<1> DEFINE sent(n) == n \in batch \cap DOMAIN log /\ Decodable(n)
<1>1. serverHas' = [n \in 1 .. MaxFrames |-> serverHas[n] + IF sent(n) THEN 1 ELSE 0]
  BY DEF Stored
<1>2. \A n : sent(n) => n \in InTable /\ n \in Unsynced
  BY DEF InTable, LogInv, BatchIsCurrent
<1>2a. InTable \subseteq 1 .. received /\ Unsynced \subseteq 1 .. received /\ received \in 0 .. MaxFrames
       /\ troubles \in Nat /\ serverHas \in [1 .. MaxFrames -> Nat] /\ MaxFrames \in Nat
  BY BlackboxAssumption DEF LogInv, LogTypeOK, InTable, Unsynced, BlackboxAssumption
<1>3. \A n \in InTable : Decodable(n) => sent(n)
  BY DEF InTable
<1>4. \A n \in Unsynced : serverHas[n] <= troubles
  BY DEF LogInv, OnlyTroubleRepeats
<1>5. \A n \in 1 .. MaxFrames : serverHas[n] <= 1 + troubles
  BY DEF LogInv, UploadedOnce
<1>6. \A n \in received + 1 .. MaxFrames : serverHas[n] = 0
  BY DEF LogInv, OnlyTroubleRepeats
<1>7. \A n \in Unsynced : n \notin batch => ~sent(n)
  OBVIOUS
<1> HIDE DEF sent
<1>8. \A n \in 1 .. MaxFrames : serverHas'[n] = serverHas[n] + IF sent(n) THEN 1 ELSE 0
  BY <1>1
<1>9. serverHas' \in [1 .. MaxFrames -> Nat]
  BY <1>1, <1>2a
<1>10. \A n \in received + 1 .. MaxFrames : ~sent(n)
  BY <1>2, <1>2a
<1>11. \A n \in 1 .. MaxFrames : serverHas'[n] <= 1 + troubles
  <2> TAKE n \in 1 .. MaxFrames
  <2>1. serverHas[n] \in Nat /\ serverHas[n] <= 1 + troubles /\ (sent(n) => serverHas[n] <= troubles)
    BY <1>2, <1>2a, <1>4, <1>5
  <2> QED BY <2>1, <1>8, <1>2a
<1>12. \A n \in InTable : Decodable(n) => serverHas'[n] > 0
  <2> TAKE n \in InTable
  <2> HAVE Decodable(n)
  <2>1. n \in 1 .. MaxFrames /\ serverHas[n] \in Nat /\ sent(n)
    BY <1>2a, <1>3
  <2> QED BY <2>1, <1>8
<1>13. \A n \in received + 1 .. MaxFrames : serverHas'[n] = 0
  BY <1>2a, <1>6, <1>8, <1>10
<1>14. \A n \in Unsynced : n \notin batch => serverHas'[n] = serverHas[n]
  BY <1>2a, <1>7, <1>8
<1>15. \A n \in 1 .. MaxFrames : serverHas'[n] >= serverHas[n]
  BY <1>2a, <1>8
<1> QED BY <1>9, <1>11, <1>12, <1>13, <1>14, <1>15

LEMMA LogInvStep == LogInv /\ [BbNext]_bbVars => LogInv'
<1> SUFFICES ASSUME LogInv, [BbNext]_bbVars PROVE LogInv'
  OBVIOUS
<1> USE BlackboxAssumption
<1>t. /\ received \in 0 .. MaxFrames /\ troubles \in Nat /\ MaxFrames \in Nat
      /\ DOMAIN log \subseteq 1 .. received /\ log \in [DOMAIN log -> Entry]
      /\ serverHas \in [1 .. MaxFrames -> Nat] /\ Unsynced \subseteq DOMAIN log
  BY DEF LogInv, LogTypeOK, Unsynced, BlackboxAssumption
<1>i. (syncing <=> syncAt # "idle") /\ (syncAt \notin {"upload", "mark"} => batch = {})
      /\ batch \subseteq 1 .. received
  BY DEF LogInv, BatchIsCurrent
<1>1. CASE ToggleRecording \/ UpdateCounts \/ SelectDbc \/ UNCHANGED bbVars
  BY <1>1, <1>t, <1>i, BatchForgotten DEF ToggleRecording, UpdateCounts, SelectDbc, syncVars, bbVars
<1>2. CASE HandleSync
  BY <1>2, <1>t, <1>i, BatchForgotten DEF HandleSync
<1>3. CASE SyncBegins
  BY <1>3, <1>t, <1>i, BatchForgotten DEF SyncBegins
<1>4. CASE SyncReads
  <2>0. syncAt = "read"
    BY <1>4 DEF SyncReads
  <2>1. CASE Unsynced = {}
    BY <1>4, <2>1, <1>t, <1>i, BatchForgotten DEF SyncReads, SyncStops
  <2>2. CASE Unsynced # {}
    <3>1. /\ batch' = FirstUnsynced /\ UNCHANGED <<syncing, log, received, serverHas, skipped, troubles, syncDbc>>
          /\ syncAt' = IF \E n \in FirstUnsynced : Decodable(n) THEN "upload" ELSE "mark"
      BY <1>4, <2>2 DEF SyncReads
    <3>2. FirstUnsynced \subseteq Unsynced
      BY DEF FirstUnsynced
    <3>3. BatchIsCurrent'
      BY <1>i, <2>0, <3>1, <3>2, <1>t DEF BatchIsCurrent, InTable, Decodable, Unsynced
    <3>4. OnlyTroubleRepeats'
      BY <2>0, <3>1 DEF LogInv, OnlyTroubleRepeats, Unsynced
    <3>5. LogTypeOK' /\ SyncedMeansUploaded' /\ UploadedOnce'
      BY <3>1 DEF LogInv, LogTypeOK, SyncedMeansUploaded, UploadedOnce
    <3> QED BY <3>3, <3>4, <3>5 DEF LogInv
  <2> QED BY <2>1, <2>2
<1>5. CASE SyncUploads
  <2>0. /\ syncAt = "upload" /\ Stored /\ syncAt' = "mark"
        /\ UNCHANGED <<syncing, log, received, skipped, troubles, syncDbc, batch>>
    BY <1>5 DEF SyncUploads
  <2>1. BatchIsCurrent'
    BY <1>i, <2>0, StoredLemma DEF BatchIsCurrent, InTable, Decodable
  <2>2. OnlyTroubleRepeats'
    BY <2>0, StoredLemma DEF LogInv, OnlyTroubleRepeats, Unsynced
  <2>3. LogTypeOK' /\ UploadedOnce'
    BY <2>0, StoredLemma DEF LogInv, LogTypeOK, UploadedOnce
  <2>4. SyncedMeansUploaded'
    <3>1. \A n \in DOMAIN log : serverHas[n] > 0 => serverHas'[n] > 0
      <4> TAKE n \in DOMAIN log
      <4>1. n \in 1 .. MaxFrames
        BY <1>t
      <4>2. serverHas'[n] >= serverHas[n] /\ serverHas[n] \in Nat /\ serverHas'[n] \in Nat
        BY <4>1, <1>t, <2>0, StoredLemma
      <4> QED BY <4>2
    <3> QED BY <2>0, <3>1 DEF LogInv, SyncedMeansUploaded
  <2> QED BY <2>1, <2>2, <2>3, <2>4 DEF LogInv
<1>6. CASE UploadFails
  <2>0. /\ syncAt = "upload" /\ (Stored \/ UNCHANGED serverHas)
        /\ syncAt' = "idle" /\ batch' = {} /\ syncing' = FALSE /\ troubles' = troubles + 1
        /\ UNCHANGED <<log, received, skipped>>
    BY <1>6 DEF UploadFails, SyncStops
  <2>1. CASE UNCHANGED serverHas
    BY <2>0, <2>1, <1>t, BatchForgotten
  <2>2. CASE Stored
    <3>1. BatchIsCurrent'
      BY <2>0 DEF BatchIsCurrent
    <3>2. \A n \in 1 .. MaxFrames : serverHas'[n] \in Nat /\ serverHas'[n] <= 1 + troubles
      BY <2>0, <2>2, StoredLemma
    <3>3. OnlyTroubleRepeats'
      BY <1>t, <2>0, <2>2, <3>2, StoredLemma DEF OnlyTroubleRepeats, Unsynced
    <3>4. LogTypeOK'
      BY <1>t, <2>0, <2>2, StoredLemma DEF LogInv, LogTypeOK
    <3>5. UploadedOnce'
      BY <1>t, <2>0, <3>2 DEF UploadedOnce
    <3>6. \A n \in DOMAIN log : serverHas[n] > 0 => serverHas'[n] > 0
      <4> TAKE n \in DOMAIN log
      <4>1. n \in 1 .. MaxFrames
        BY <1>t
      <4>2. serverHas'[n] >= serverHas[n] /\ serverHas[n] \in Nat /\ serverHas'[n] \in Nat
        BY <4>1, <1>t, <2>0, <2>2, StoredLemma
      <4> QED BY <4>2
    <3>7. SyncedMeansUploaded'
      BY <2>0, <3>6 DEF LogInv, SyncedMeansUploaded
    <3> QED BY <3>1, <3>3, <3>4, <3>5, <3>7 DEF LogInv
  <2> QED BY <2>0, <2>1, <2>2
<1>7. CASE SyncMarks
  <2>0. /\ syncAt = "mark" /\ syncAt' = "read" /\ batch' = {}
        /\ log' = [n \in DOMAIN log |-> IF n \in batch THEN [log[n] EXCEPT !.synced = TRUE] ELSE log[n]]
        /\ skipped' = skipped \cup {n \in batch \cap DOMAIN log : ~Decodable(n)}
        /\ UNCHANGED <<syncing, received, serverHas, troubles, syncDbc>>
    BY <1>7 DEF SyncMarks
  <2>1. \A n \in DOMAIN log : log[n] \in Entry
    BY <1>t
  <2>2. \A n \in DOMAIN log : [log[n] EXCEPT !.synced = TRUE] \in Entry /\ [log[n] EXCEPT !.synced = TRUE].synced
    BY <2>1 DEF Entry
  <2>3. /\ DOMAIN log' = DOMAIN log /\ \A n \in DOMAIN log : log'[n] \in Entry
        /\ \A n \in DOMAIN log : log'[n].synced = (n \in batch \/ log[n].synced)
    <3>1. DOMAIN log' = DOMAIN log
      BY <2>0
    <3>2. ASSUME NEW n \in DOMAIN log, n \in batch PROVE log'[n] \in Entry /\ log'[n].synced = TRUE
      BY <2>0, <2>2, <3>2 DEF Entry
    <3>3. ASSUME NEW n \in DOMAIN log, n \notin batch PROVE log'[n] = log[n]
      BY <2>0, <3>3
    <3> QED BY <2>1, <3>1, <3>2, <3>3 DEF Entry
  <2>4. log' = [n \in DOMAIN log' |-> log'[n]]
    BY <2>0, <2>3
  <2>5. LogTypeOK'
    BY <1>t, <2>0, <2>3, <2>4 DEF LogTypeOK
  <2>6. BatchIsCurrent'
    BY <2>0, <1>i DEF BatchIsCurrent
  <2>7. Unsynced' = Unsynced \ batch
    BY <2>3 DEF Unsynced
  <2>8. OnlyTroubleRepeats'
    BY <2>0, <2>7 DEF LogInv, OnlyTroubleRepeats
  <2>9. SyncedMeansUploaded'
    <3> SUFFICES ASSUME NEW n \in DOMAIN log, n \in batch \/ log[n].synced
                 PROVE  serverHas[n] > 0 \/ n \in skipped'
      BY <2>0, <2>3 DEF SyncedMeansUploaded
    <3>1. CASE n \in batch
      BY <2>0, <3>1 DEF LogInv, BatchIsCurrent, InTable
    <3>2. CASE log[n].synced
      BY <2>0, <3>2 DEF LogInv, SyncedMeansUploaded
    <3> QED BY <3>1, <3>2
  <2>10. UploadedOnce'
    BY <2>0 DEF LogInv, UploadedOnce
  <2> QED BY <2>5, <2>6, <2>8, <2>9, <2>10 DEF LogInv
<1>8. CASE HandlePurge
  <2>0. /\ log' = <<>> /\ DOMAIN log' = {} /\ batch' = {}
        /\ UNCHANGED <<received, serverHas, troubles, skipped, syncAt, syncing, syncDbc>>
    BY <1>8 DEF HandlePurge
  <2>1. LogTypeOK'
    BY <1>t, <2>0 DEF LogTypeOK
  <2>2. BatchIsCurrent' /\ SyncedMeansUploaded'
    BY <2>0, <1>i DEF BatchIsCurrent, InTable, SyncedMeansUploaded
  <2>3. OnlyTroubleRepeats' /\ UploadedOnce'
    BY <2>0 DEF LogInv, OnlyTroubleRepeats, UploadedOnce, Unsynced
  <2> QED BY <2>1, <2>2, <2>3 DEF LogInv
<1>9. CASE PageReloads
  BY <1>9, <1>t, BatchForgotten DEF PageReloads
<1>10. ASSUME NEW can \in CanIds, LogFrame(can) PROVE LogInv'
  <2> DEFINE new == received + 1
             entry == [can |-> can, synced |-> FALSE]
  <2>0. /\ received < MaxFrames /\ received' = new
        /\ log' = [n \in DOMAIN log \cup {new} |-> IF n \in DOMAIN log THEN log[n] ELSE entry]
        /\ UNCHANGED <<serverHas, troubles, skipped, syncAt, syncing, syncDbc, batch>>
    BY <1>10 DEF LogFrame, syncVars
  <2>1. new \in 1 .. MaxFrames /\ new \notin DOMAIN log /\ entry \in Entry /\ ~entry.synced
    BY <1>t, <2>0 DEF Entry
  <2> HIDE DEF entry
  <2>2. DOMAIN log' = DOMAIN log \cup {new} /\ log'[new] = entry /\ \A n \in DOMAIN log : log'[n] = log[n]
    BY <2>0, <2>1
  <2>3. LogTypeOK'
    <3>1. log' \in [DOMAIN log' -> Entry]
      BY <1>t, <2>0, <2>1
    <3>2. DOMAIN log' \subseteq 1 .. received' /\ received' \in 0 .. MaxFrames
      BY <1>t, <2>0, <2>1, <2>2
    <3> QED BY <1>t, <2>0, <3>1, <3>2 DEF LogTypeOK
  <2>4. Unsynced' = Unsynced \cup {new}
    BY <2>1, <2>2 DEF Unsynced
  <2>5. new \notin batch /\ batch \subseteq 1 .. received' /\ InTable' = InTable
    BY <1>i, <1>t, <2>0, <2>2 DEF InTable
  <2>6. serverHas[new] = 0 /\ \A n \in new + 1 .. MaxFrames : serverHas[n] = 0
    BY <1>t, <2>0, <2>1 DEF LogInv, OnlyTroubleRepeats
  <2>7. OnlyTroubleRepeats'
    BY <1>t, <2>0, <2>4, <2>6 DEF LogInv, OnlyTroubleRepeats
  <2>8. SyncedMeansUploaded' /\ UploadedOnce'
    BY <2>0, <2>1, <2>2 DEF LogInv, SyncedMeansUploaded, UploadedOnce
  <2>9. BatchIsCurrent'
    <3>1. \A n \in InTable : Decodable(n)' = Decodable(n)
      BY <2>0, <2>2 DEF InTable, Decodable
    <3>2. \A n \in InTable : Decodable(n)' => Decodable(n)
      BY <3>1
    <3> QED BY <1>i, <2>0, <2>4, <2>5, <3>2 DEF LogInv, BatchIsCurrent
  <2> QED BY <2>3, <2>7, <2>8, <2>9 DEF LogInv
<1>11. ASSUME NEW dbc \in Dbcs, Starts(dbc) \/ DbcFetched(dbc) PROVE LogInv'
  BY <1>11, <1>t, <1>i, BatchForgotten DEF Starts, DbcFetched, syncVars
<1> QED BY <1>1, <1>2, <1>3, <1>4, <1>5, <1>6, <1>7, <1>8, <1>9, <1>10, <1>11 DEF BbNext, SyncStep

LEMMA LogInvHolds == BbSpec => []LogInv
BY LogInvInit, LogInvStep, PTL DEF BbSpec

\* A frame counts as synced only when the server has it, or when the DBC of the sync knew none
\* of its signals: whatever is purged, reloaded, chosen or refused meanwhile.
THEOREM SyncedFramesAreStored == BbSpec => []SyncedMeansUploaded
<1>1. LogInv => SyncedMeansUploaded
  BY DEF LogInv
<1> QED BY <1>1, LogInvHolds, PTL

\* A frame reaches the server once, and once more at most for each upload that failed and each
\* reload of the page.
THEOREM StoredOnce == BbSpec => []UploadedOnce
<1>1. LogInv => UploadedOnce
  BY DEF LogInv
<1> QED BY <1>1, LogInvHolds, PTL

\* What the recorder's log promises, both together: for any frames, any DBC, any batch size and
\* any purges, reloads and refusals (SyncService.ts: syncToServer, markAsSynced).
THEOREM RecorderLogIsTrue == BbSpec => []LogIsTrue
<1>1. SyncedMeansUploaded /\ UploadedOnce => LogIsTrue
  BY DEF LogIsTrue
<1> QED BY <1>1, SyncedFramesAreStored, StoredOnce, PTL
=============================================================================
