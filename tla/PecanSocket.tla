---------------------------- MODULE PecanSocket ----------------------------
(*************************************************************************)
(* Pecan's connection to the base station (services/WebSocketService.ts): *)
(* which URLs are tried and in which order, the probes of the failover    *)
(* loop, the handlers of an adopted socket, and the retries that follow a *)
(* loss. A URL is [tls, at, port]; what a socket carries is left out.     *)
(*************************************************************************)
EXTENDS Naturals, Sequences, FiniteSets, SequencesExt

CONSTANTS
    Settings,              \* the configurations the user may store
    MaxReconnectAttempts,  \* losses that are answered by a retry
    MaxSockets             \* bound: sockets a page opens

ASSUME SocketAssumption == MaxReconnectAttempts \in Nat /\ MaxSockets \in Nat

NoSocket == 0
NoUrl == [tls |-> FALSE, at |-> "none", port |-> 0]
LanHosts == {"localhost", "base"}
BaseUrl == [tls |-> FALSE, at |-> "base", port |-> 9080]
DemoUrl == [tls |-> TRUE, at |-> "demo", port |-> 443]
LocalUrl(page) ==
    [tls |-> page.secure, at |-> "localhost", port |-> IF page.secure THEN 9443 ELSE 9080]

VARIABLES
    settings,    \* [candidates, custom, page]: localStorage and the page's own address
    online,      \* navigator.onLine
    lastOk,      \* sessionStorage: the URL remembered as good
    socks,       \* every socket of the page, in the order it was created
    current,     \* this.ws
    attempts,    \* reconnectAttempts
    retries,     \* setTimeout(connect) still to fire
    starting,    \* initialize() still waits for the processor
    gaveUp,      \* ghost: the service has stopped trying by its own rules
    urlRefused,  \* ghost: the attempt made last ended at a URL the browser refuses
    overlap      \* ghost: a command came while an attempt, a retry or a close was pending
socketVars == <<settings, online, lastOk, socks, current, attempts, retries, starting, gaveUp, urlRefused, overlap>>

-----------------------------------------------------------------------------
(* Which URLs. *)

\* On a secure page ws:// becomes wss://, and the relay's internal port goes away
\* for hosts behind the public proxy.
Normalized(url, page) ==
    IF ~page.secure THEN url
    ELSE [url EXCEPT !.tls = TRUE,
                     !.port = IF url.at \notin LanHosts /\ @ = 9089 THEN 443 ELSE @]

DefaultUrls(page) ==
    (IF page.host = "localhost" THEN <<LocalUrl(page)>> ELSE <<>>) \o <<BaseUrl, DemoUrl>>

CandidateUrls(stored) ==
    LET urls == IF stored.candidates # <<>> THEN stored.candidates
                ELSE IF stored.custom # NoUrl THEN <<stored.custom>>
                ELSE DefaultUrls(stored.page)
    IN  [i \in 1..Len(urls) |-> Normalized(urls[i], stored.page)]

\* The URL that worked last goes first; a browser that is offline tries the LAN first.
FailoverOrder(urls) ==
    LET remembered == IF lastOk \in Range(urls)
                      THEN <<lastOk>> \o SelectSeq(urls, LAMBDA u : u # lastOk) ELSE urls
    IN  IF online THEN remembered
        ELSE SelectSeq(remembered, LAMBDA u : ~u.tls) \o SelectSeq(remembered, LAMBDA u : u.tls)

-----------------------------------------------------------------------------
(* Sockets. "rest" is what the failover loop has left to try after this one. *)

Sock(url, rest, bound) ==
    [st |-> "connecting", url |-> url, rest |-> rest, bound |-> bound, clean |-> FALSE]
With(st) == {i \in DOMAIN socks : socks[i].st = st}
Alive == With("connecting") \cup With("open")

\* The WebSocket constructor throws for a URL it cannot parse, such as one with this port.
Refused(url) == url.port > 65535

\* new WebSocket(url). When it throws, nothing follows: a single URL is only reported, and a
\* probe's done(null) clears a timer not yet declared, so that its promise is rejected and
\* the failover loop ends with whatever it had left to try.
Opens(given, url, rest, bound) ==
    \/ Refused(url) /\ socks' = given /\ urlRefused' = TRUE
    \/ /\ ~Refused(url) /\ Len(given) < MaxSockets
       /\ socks' = Append(given, Sock(url, rest, bound)) /\ urlRefused' = FALSE

\* connect(): one URL is opened and adopted at once, several are probed in turn.
Connect(stored, socks0, current0) ==
    LET urls == CandidateUrls(stored)
        order == FailoverOrder(urls)
    IN  /\ IF Len(urls) = 1
           THEN /\ Opens(socks0, urls[1], <<>>, TRUE)
                /\ current' = IF Refused(urls[1]) THEN current0 ELSE Len(socks0) + 1
           ELSE Opens(socks0, Head(order), Tail(order), FALSE) /\ current' = current0
        /\ gaveUp' = FALSE

\* disconnect(): an open socket is asked to close, one still connecting is aborted.
Closed ==
    IF current = NoSocket \/ socks[current].st \notin {"connecting", "open"} THEN socks
    ELSE [socks EXCEPT ![current].st = "closing", ![current].clean = socks[current].st = "open"]

SocketInit ==
    /\ settings \in Settings
    /\ online \in BOOLEAN
    /\ lastOk = NoUrl /\ socks = <<>> /\ current = NoSocket
    /\ attempts = 0 /\ retries = 0
    /\ starting = TRUE /\ gaveUp = FALSE /\ urlRefused = FALSE /\ overlap = FALSE

\* initialize() has its processor and connects; without one it stops there.
Initialized ==
    /\ starting /\ starting' = FALSE
    /\ \/ Connect(settings, Closed, NoSocket)
       \/ gaveUp' = TRUE /\ current' = NoSocket /\ socks' = Closed /\ UNCHANGED urlRefused
    /\ UNCHANGED <<settings, online, lastOk, attempts, retries, overlap>>

\* The opening handshake ends. A probe is adopted and gets its handlers only now,
\* after its open event; a socket opened directly has them and runs onopen.
SocketOpens(i) ==
    /\ socks[i].st = "connecting"
    /\ socks' = [socks EXCEPT ![i].st = "open", ![i].bound = TRUE]
    /\ IF socks[i].bound
       THEN lastOk' = socks[i].url /\ attempts' = 0 /\ UNCHANGED current
       ELSE current' = i /\ UNCHANGED <<lastOk, attempts>>
    /\ UNCHANGED <<settings, online, retries, starting, gaveUp, urlRefused, overlap>>

\* Mutant: a probe that takes too long is left alone when the next URL is tried.
ProbeLeftOpen(i) ==
    /\ socks[i].st = "connecting" /\ ~socks[i].bound /\ socks[i].rest # <<>> /\ Len(socks) < MaxSockets
    /\ socks' = Append([socks EXCEPT ![i].rest = <<>>], Sock(Head(socks[i].rest), Tail(socks[i].rest), FALSE))
    /\ UNCHANGED <<settings, online, lastOk, current, attempts, retries, starting, gaveUp, urlRefused, overlap>>

\* A probe fails or takes longer than its timeout: it is closed and the next URL tried.
ProbeFails(i) ==
    /\ socks[i].st = "connecting" /\ ~socks[i].bound
    /\ LET given == [socks EXCEPT ![i].st = "closed"]
       IN  IF socks[i].rest = <<>>
           THEN socks' = given /\ gaveUp' = TRUE /\ UNCHANGED urlRefused
           ELSE Opens(given, Head(socks[i].rest), Tail(socks[i].rest), FALSE) /\ UNCHANGED gaveUp
    /\ UNCHANGED <<settings, online, lastOk, current, attempts, retries, starting, overlap>>

\* Mutant: a browser that is offline sets no retry.
CloseWhileOffline(i) ==
    /\ socks[i].st \in {"connecting", "open"} /\ socks[i].bound
    /\ LET retry == online /\ attempts < MaxReconnectAttempts
       IN  /\ attempts' = IF retry THEN attempts + 1 ELSE attempts
           /\ retries' = IF retry THEN retries + 1 ELSE retries
           /\ gaveUp' = (gaveUp \/ attempts = MaxReconnectAttempts)
    /\ socks' = [socks EXCEPT ![i].st = "closed"]
    /\ UNCHANGED <<settings, online, lastOk, current, starting, urlRefused, overlap>>

\* onclose: any code but 1000 is answered by a retry, while there are attempts left.
SocketCloses(i) ==
    /\ socks[i].st \in {"connecting", "open", "closing"} /\ socks[i].bound
    /\ \E code \in IF socks[i].st = "connecting" \/ (socks[i].st = "closing" /\ ~socks[i].clean)
                   THEN {1006} ELSE {1000, 1006} :
         LET retry == code # 1000 /\ attempts < MaxReconnectAttempts
         IN  /\ attempts' = IF retry THEN attempts + 1 ELSE attempts
             /\ retries' = IF retry THEN retries + 1 ELSE retries
             /\ gaveUp' = (gaveUp \/ (~retry /\ socks[i].st # "closing"))
             /\ overlap' = (overlap \/ (code # 1000 /\ socks[i].st = "closing"))
    /\ socks' = [socks EXCEPT ![i].st = "closed"]
    /\ UNCHANGED <<settings, online, lastOk, current, starting, urlRefused>>

RetryFires ==
    /\ retries > 0 /\ retries' = retries - 1
    /\ Connect(settings, socks, current)
    /\ UNCHANGED <<settings, online, lastOk, attempts, starting, overlap>>

\* Settings: URLs are stored, then reconnect() closes and connects again. A retry timer
\* that runs, a probe and a close that is under way are all left to go on.
UserReconnects ==
    /\ settings' \in {s \in Settings : s.page = settings.page}
    /\ Connect(settings', Closed, NoSocket)
    /\ attempts' = 0
    /\ overlap' = (overlap \/ starting \/ retries > 0 \/ With("connecting") # {}
                           \/ \E i \in With("closing") : socks[i].bound)
    /\ UNCHANGED <<online, lastOk, retries, starting>>

NetworkChanges ==
    /\ online' = ~online
    /\ UNCHANGED <<settings, lastOk, socks, current, attempts, retries, starting, gaveUp, urlRefused, overlap>>

SocketNext ==
    \/ Initialized \/ RetryFires \/ UserReconnects \/ NetworkChanges
    \/ \E i \in DOMAIN socks : SocketOpens(i) \/ ProbeFails(i) \/ SocketCloses(i)

-----------------------------------------------------------------------------
(* Properties. *)

\* One socket feeds the page: unless a command came in while an attempt, a retry or a
\* close was still pending, there is never a second socket, or a timer that will open
\* one, beside the socket that connects or delivers (tryConnectUrl, bindSocketHandlers).
OneSocketIngests ==
    ~overlap => Cardinality(Alive) + retries + (IF starting THEN 1 ELSE 0) <= 1

\* The page is never left without a connection and without anyone trying to get one, with
\* two exceptions. The service has stopped by its own rules: retries used up, the last
\* candidate failed, a close with code 1000 by the server, or no processor. Or its last
\* attempt met a URL the browser refuses: that ends it for good, the candidates after that
\* URL untried (tryConnectUrl, startSingleConnection, onclose).
NeverAbandoned ==
    Alive # {} \/ retries > 0 \/ starting \/ gaveUp \/ urlRefused

SocketSpec == SocketInit /\ [][SocketNext]_socketVars
=============================================================================
