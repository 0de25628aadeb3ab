----------------------------- MODULE LiveRelay -----------------------------
(*************************************************************************)
(* The flight recorder as a relay: the phone takes frames from a source    *)
(* (flight-recorder/src/services/WebSocketService.ts), forwards them       *)
(* to a room of the relay worker (LiveRelayService.ts), and the worker     *)
(* hands them to the room's viewers (relay-worker/src/index.ts).           *)
(* A URL is the room it leads to, or "worker", which asks for a session.   *)
(*************************************************************************)
EXTENDS Naturals, Sequences, FiniteSets

CONSTANTS
    Rooms,                 \* rooms of the worker
    MaxFeedAttempts,       \* losses of the source that are answered by a retry
    MaxLinks, MaxFeeds     \* bounds: sockets to the worker, sockets to a source

ASSUME RelayAssumption ==
    "worker" \notin Rooms /\ {MaxFeedAttempts, MaxLinks, MaxFeeds} \subseteq Nat

None == 0

VARIABLES
    relayOn, relayUrl,     \* LiveRelayService: enabled and url
    links, link,           \* its sockets in the order of creation, and this.ws
    timer, lostTimers,     \* the reconnect timer it remembers is pending; timers it has forgotten
    pageOn, pageUrl,       \* relayEnabled and relayUrl of the page
    creating,              \* a session has been asked for
    feeds, feed,           \* sockets to a source, and this.ws
    feedUrl,               \* custom-ws-url
    feedRetries, feedAttempts,
    sourceUrl,             \* the source named by the last status event
    viewers,               \* rooms with a viewer
    viewed,                \* ghost: what viewers were sent
    refused, forgot        \* ghosts: the worker closed the socket with code 1000; a timer was forgotten
serviceVars == <<relayOn, relayUrl, links, link, timer, lostTimers, refused, forgot>>
pageVars == <<pageOn, pageUrl, creating>>
feedVars == <<feeds, feed, feedUrl, feedRetries, feedAttempts, sourceUrl>>
workerVars == <<viewers, viewed>>
relayVars == <<serviceVars, pageVars, feedVars, workerVars>>

AliveIn(s) == {i \in DOMAIN s : s[i].st \in {"connecting", "open"}}

\* ws.close(1000): an open socket begins the closing handshake, one that still connects fails.
Closing(s, i) ==
    IF i \notin AliveIn(s) THEN s
    ELSE [s EXCEPT ![i].st = "closing", ![i].clean = s[i].st = "open"]

\* The codes the close event of a socket can carry.
Codes(sock) ==
    IF sock.st = "connecting" \/ (sock.st = "closing" /\ ~sock.clean) THEN {1006} ELSE {1000, 1006}

-----------------------------------------------------------------------------
(* LiveRelayService *)

\* Mutants: the old socket is left open; the timer is left running.
ConnectBeside(url) ==
    /\ timer' = FALSE /\ url \in Rooms /\ Len(links) < MaxLinks
    /\ links' = Append(links, [st |-> "connecting", to |-> url, clean |-> FALSE]) /\ link' = Len(links) + 1
DropSocketOnly == UNCHANGED timer /\ links' = Closing(links, link) /\ link' = None

\* connect() disconnects first; a URL that is no room makes no socket.
ConnectRelay(url) ==
    /\ timer' = FALSE
    /\ Len(links) < MaxLinks
    /\ IF url \in Rooms
       THEN /\ links' = Append(Closing(links, link), [st |-> "connecting", to |-> url, clean |-> FALSE])
            /\ link' = Len(links) + 1
       ELSE links' = Closing(links, link) /\ link' = None

DisconnectRelay == timer' = FALSE /\ links' = Closing(links, link) /\ link' = None

SetConfig(url, on) ==
    /\ relayUrl' = url /\ relayOn' = on /\ refused' = FALSE
    /\ IF on THEN ConnectRelay(url) ELSE DisconnectRelay
    /\ UNCHANGED <<lostTimers, forgot>>

LinkOpens(i) ==
    /\ links[i].st = "connecting"
    /\ links' = [links EXCEPT ![i].st = "open"]
    /\ UNCHANGED <<relayOn, relayUrl, link, timer, lostTimers, refused, forgot, pageVars, feedVars, workerVars>>

\* Mutant: only a connection that was once open is retried.
OnlyOpenRetries(i) ==
    /\ links[i].st # "closed" /\ links' = [links EXCEPT ![i].st = "closed"]
    /\ timer' = (timer \/ (relayOn /\ links[i].st = "open"))
    /\ UNCHANGED <<relayOn, relayUrl, link, lostTimers, refused, forgot, pageVars, feedVars, workerVars>>

\* onclose of any socket, the current one or one given up: only the last timer is remembered.
LinkCloses(i) ==
    /\ links[i].st # "closed"
    /\ links' = [links EXCEPT ![i].st = "closed"]
    /\ \E code \in Codes(links[i]) :
         IF relayOn /\ code # 1000
         THEN timer' = TRUE /\ lostTimers' = lostTimers + (IF timer THEN 1 ELSE 0)
              /\ forgot' = (forgot \/ timer) /\ UNCHANGED refused
         ELSE refused' = (refused \/ links[i].st = "open") /\ UNCHANGED <<timer, lostTimers, forgot>>
    /\ UNCHANGED <<relayOn, relayUrl, link, pageVars, feedVars, workerVars>>

RelayTimerFires ==
    /\ timer \/ lostTimers > 0
    /\ lostTimers' \in {lostTimers} \cup (IF lostTimers > 0 THEN {lostTimers - 1} ELSE {})
    /\ lostTimers' = lostTimers => timer
    /\ ConnectRelay(relayUrl)
    /\ UNCHANGED <<relayOn, relayUrl, refused, forgot, pageVars, feedVars, workerVars>>

-----------------------------------------------------------------------------
(* The page *)

EditRelayUrl ==
    /\ pageUrl' \in (Rooms \cup {"worker"}) \ {pageUrl}
    /\ UNCHANGED <<serviceVars, pageOn, creating, feedVars, workerVars>>

\* saveRelayConfig works at any time, a request for a session under way or not.
ApplyRelay == SetConfig(pageUrl, pageOn) /\ UNCHANGED <<pageVars, feedVars, workerVars>>

ToggleRelay ==
    /\ ~creating
    /\ \/ pageOn /\ pageOn' = FALSE /\ SetConfig(pageUrl, FALSE) /\ UNCHANGED creating
       \/ ~pageOn /\ pageUrl = "worker" /\ creating' = TRUE /\ UNCHANGED <<pageOn, serviceVars>>
       \/ ~pageOn /\ pageUrl # "worker" /\ pageOn' = TRUE /\ SetConfig(pageUrl, TRUE) /\ UNCHANGED creating
    /\ UNCHANGED <<pageUrl, feedVars, workerVars>>

CreateRelaySession ==
    /\ ~creating /\ creating' = TRUE
    /\ UNCHANGED <<serviceVars, pageOn, pageUrl, feedVars, workerVars>>

SessionAnswered ==
    /\ creating /\ creating' = FALSE
    /\ \/ \E room \in Rooms : pageUrl' = room /\ pageOn' = TRUE /\ SetConfig(room, TRUE)
       \/ UNCHANGED <<pageOn, pageUrl, serviceVars>>
    /\ UNCHANGED <<feedVars, workerVars>>

-----------------------------------------------------------------------------
(* The source *)

ConnectFeed(sockets, url) ==
    /\ Len(sockets) < MaxFeeds
    /\ feeds' = Append(sockets, [st |-> "connecting", to |-> url, clean |-> FALSE])
    /\ feed' = Len(sockets) + 1

\* saveWsUrl: initialize() closes the current socket and connects; timers stay.
ApplySource(url) ==
    /\ feedUrl' = url /\ ConnectFeed(Closing(feeds, feed), url)
    /\ UNCHANGED <<feedRetries, feedAttempts, sourceUrl, serviceVars, pageVars, workerVars>>

FeedOpens(i) ==
    /\ feeds[i].st = "connecting"
    /\ feeds' = [feeds EXCEPT ![i].st = "open"]
    /\ feedAttempts' = 0 /\ sourceUrl' = feeds[i].to
    /\ UNCHANGED <<feed, feedUrl, feedRetries, serviceVars, pageVars, workerVars>>

\* The status event of a close names the socket's own URL, current or not.
FeedCloses(i) ==
    /\ feeds[i].st # "closed"
    /\ feeds' = [feeds EXCEPT ![i].st = "closed"]
    /\ sourceUrl' = feeds[i].to
    /\ \E code \in Codes(feeds[i]) :
         LET more == IF code # 1000 /\ feedAttempts < MaxFeedAttempts THEN 1 ELSE 0
         IN  feedAttempts' = feedAttempts + more /\ feedRetries' = feedRetries + more
    /\ UNCHANGED <<feed, feedUrl, serviceVars, pageVars, workerVars>>

FeedRetries ==
    /\ feedRetries > 0 /\ feedRetries' = feedRetries - 1
    /\ ConnectFeed(feeds, feedUrl)
    /\ UNCHANGED <<feedUrl, feedAttempts, sourceUrl, serviceVars, pageVars, workerVars>>

-----------------------------------------------------------------------------
(* Forwarding, and the worker's rooms *)

Forwards == relayOn /\ link # None /\ links[link].st = "open"

\* A frame of the source: forward() drops it when the source is the demo.
FeedDelivers(i) ==
    /\ feeds[i].st = "open"
    /\ Forwards /\ sourceUrl # "demo" /\ links[link].to \in viewers
    /\ viewed' = viewed \cup {[room |-> links[link].to, what |-> feeds[i].to]}
    /\ UNCHANGED <<viewers, serviceVars, pageVars, feedVars>>

Heartbeat ==
    /\ Forwards /\ links[link].to \in viewers
    /\ viewed' = viewed \cup {[room |-> links[link].to, what |-> "heartbeat"]}
    /\ UNCHANGED <<viewers, serviceVars, pageVars, feedVars>>

ViewerComesOrGoes(room) ==
    /\ viewers' = IF room \in viewers THEN viewers \ {room} ELSE viewers \cup {room}
    /\ UNCHANGED <<viewed, serviceVars, pageVars, feedVars>>

-----------------------------------------------------------------------------

\* initialize() reads what the last visit stored; the source connects after the startup.
RelayInit ==
    /\ relayOn \in BOOLEAN /\ relayUrl \in Rooms
    /\ pageOn = relayOn /\ pageUrl = relayUrl /\ creating = FALSE
    /\ links = IF relayOn THEN <<[st |-> "connecting", to |-> relayUrl, clean |-> FALSE]>> ELSE <<>>
    /\ link = IF relayOn THEN 1 ELSE None
    /\ timer = FALSE /\ lostTimers = 0 /\ refused = FALSE /\ forgot = FALSE
    /\ feedUrl \in {"demo", "car"} /\ feeds = <<[st |-> "connecting", to |-> feedUrl, clean |-> FALSE]>>
    /\ feed = 1 /\ feedRetries = 0 /\ feedAttempts = 0 /\ sourceUrl = "none"
    /\ viewers = {} /\ viewed = {}

RelaySide == \E i \in DOMAIN links : LinkOpens(i) \/ LinkCloses(i)
FeedSide == FeedRetries \/ \E i \in DOMAIN feeds : FeedOpens(i) \/ FeedCloses(i)
RelayUser ==
    \/ EditRelayUrl \/ ApplyRelay \/ ToggleRelay \/ CreateRelaySession
    \/ \E url \in {"demo", "car"} : ApplySource(url)
Viewing ==
    \/ Heartbeat \/ \E i \in DOMAIN feeds : FeedDelivers(i)
    \/ \E room \in Rooms : ViewerComesOrGoes(room)

RelayNext == RelaySide \/ RelayTimerFires \/ SessionAnswered \/ FeedSide \/ RelayUser \/ Viewing

-----------------------------------------------------------------------------
(* Properties. *)

\* The phone has at most one socket to the worker: however toggles, applied settings, a
\* session that arrives late and old timers follow each other (LiveRelayService.connect).
OneRelaySocket == Cardinality(AliveIn(links)) <= 1

\* A relay that is switched off has no socket and nothing that will open one, unless two
\* attempts failed while it was on and the service forgot a timer (onclose, disconnect).
OffMeansOff == ~relayOn /\ ~forgot => AliveIn(links) = {} /\ ~timer

\* A relay that is on has a socket, an event that is still to come or a timer, until the
\* worker closes the socket with code 1000.
RelayKeepsTrying ==
    relayOn /\ relayUrl \in Rooms => AliveIn(links) # {} \/ timer \/ lostTimers > 0 \/ refused

\* The relay is what its switch says: one socket or someone who opens it, or nothing at all
\* (LiveRelayService.configure, connect, disconnect, onclose).
RelayIsAsSet == OneRelaySocket /\ OffMeansOff /\ RelayKeepsTrying

RelaySpec == RelayInit /\ [][RelayNext]_relayVars
=============================================================================
