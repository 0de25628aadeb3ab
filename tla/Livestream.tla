---------------------------- MODULE Livestream -----------------------------
(*************************************************************************)
(* The stream overlay (livestream/src): one WebSocket to the base station, *)
(* a simulator that stands in for it, the table of live values, the DBC    *)
(* decoder loaded at startup, and the WHEP video behind the overlay.       *)
(* A frame is one CAN id; its signals are known by that id.                *)
(*************************************************************************)
EXTENDS Naturals, Sequences, FiniteSets

CONSTANTS
    StdIds, ExtIds,      \* CAN ids of the car, of 11 and of 29 bits
    SimIds,              \* the ids the simulator makes, all of 11 bits
    DbcIds,              \* the ids WFR25.dbc defines, each with the flag its text gives it
    MaxStreamSockets,    \* bound: sockets, and likewise video connections, a page opens
    MaxHistory           \* points that stand for ten seconds of history

ASSUME StreamAssumption ==
    SimIds \subseteq StdIds /\ StdIds \cap ExtIds = {} /\ {MaxStreamSockets, MaxHistory} \subseteq Nat

NoPipe == 0

VARIABLES
    mode,        \* what the status line shows
    pipes,       \* sockets in the order of creation: their state, and whether onclose is still bound
    pipe,        \* ws
    retryOn,     \* the reconnect timer runs
    simOn,       \* the simulator's interval runs
    savedUrl,    \* localStorage: there is a URL
    decoder,     \* the DBC processor: pending, ready or failed
    live,        \* telemetryStore.live: id -> who made its value
    history,     \* points kept per id, newest last
    idled,       \* ghost: the user asked for the simulator or for nothing
    host, video, \* the MediaMTX host in use; the status of the video, with the host it shows when it is live
    peers        \* one RTCPeerConnection per host that was set: [host, at, cancelled]
pipeVars == <<mode, pipes, pipe, retryOn, simOn, savedUrl, decoder, idled>>
tableVars == <<live, history>>
videoVars == <<host, video, peers>>
overlayVars == <<pipeVars, tableVars, videoVars>>

-----------------------------------------------------------------------------
(* decoder.jsx and the fallback decoders *)

\* A frame is looked up as the 11 or 29 bit id it has. The second lookup, with the flag
\* toggled, assigns to a constant and is given up by its catch: it changes nothing.
InDbc(id) == [id |-> id, ext |-> id \in ExtIds] \in DbcIds

\* Without the DBC the few decoders of the simulator's frames stand in.
Known(id) ==
    IF decoder = "ready" THEN InDbc(id) ELSE id \in SimIds

\* telemetryStore.ingest: the newest value, and ten seconds of history.
Ingested(ids, by) ==
    LET known == {id \in ids : Known(id)}
        kept(h) == SubSeq(h, IF Len(h) > MaxHistory THEN Len(h) - MaxHistory + 1 ELSE 1, Len(h))
    IN  /\ live' = [id \in DOMAIN live |-> IF id \in known THEN by ELSE live[id]]
        /\ history' = [id \in DOMAIN history |->
                         IF id \in known THEN kept(Append(history[id], by)) ELSE history[id]]

\* clear() empties the values but not the history behind the waveforms.
Emptied == [id \in DOMAIN live |-> "none"]

DecoderLoads ==
    /\ decoder = "pending" /\ decoder' \in {"ready", "failed"}
    /\ UNCHANGED <<mode, pipes, pipe, retryOn, simOn, savedUrl, idled, tableVars, videoVars>>

-----------------------------------------------------------------------------
(* ws-service.jsx *)

IsUp(i) == pipes[i].st \in {"connecting", "open"}

\* Mutant: disconnect() forgets to close the socket.
Unbound == IF pipe = NoPipe THEN pipes ELSE [pipes EXCEPT ![pipe].bound = FALSE]

\* disconnect(): the timer is cancelled, the socket loses onclose and is closed, the values go.
Dropped ==
    IF pipe = NoPipe THEN pipes
    ELSE [pipes EXCEPT ![pipe] = [st |-> IF IsUp(pipe) THEN "closing" ELSE @.st, bound |-> FALSE]]

\* connect(url): without a URL, or when no socket can be made, the simulator starts.
Connects(url) ==
    /\ retryOn' = FALSE /\ live' = Emptied
    /\ IF url = "none"
       THEN pipes' = Dropped /\ pipe' = NoPipe /\ simOn' = TRUE /\ mode' = "sim" /\ UNCHANGED savedUrl
       ELSE /\ savedUrl' = TRUE
            /\ IF url = "bad"
               THEN pipes' = Dropped /\ pipe' = NoPipe /\ simOn' = TRUE /\ mode' = "sim"
               ELSE /\ Len(pipes) < MaxStreamSockets
                    /\ pipes' = Append(Dropped, [st |-> "connecting", bound |-> TRUE])
                    /\ pipe' = Len(pipes) + 1 /\ mode' = "connecting" /\ UNCHANGED simOn
    /\ UNCHANGED <<decoder, history, videoVars>>

StreamConnect == \E url \in {"none", "bad", "base"} : Connects(url) /\ idled' = (url # "base")

\* Mutant: what the car sent last stays in the table when the simulator is chosen.
SimOverLive(on) ==
    /\ retryOn' = FALSE /\ savedUrl' = FALSE /\ pipes' = Dropped /\ pipe' = NoPipe
    /\ simOn' = on /\ mode' = (IF on THEN "sim" ELSE "idle") /\ idled' = TRUE
    /\ UNCHANGED <<live, decoder, history, videoVars>>

\* Start Sim and Stop Sim both disconnect first. stopSim finds the mode idle, clears nothing more.
UseSim(on) ==
    /\ retryOn' = FALSE /\ live' = Emptied /\ savedUrl' = FALSE
    /\ pipes' = Dropped /\ pipe' = NoPipe
    /\ simOn' = on /\ mode' = IF on THEN "sim" ELSE "idle"
    /\ idled' = TRUE
    /\ UNCHANGED <<decoder, history, videoVars>>

\* Mutant: the simulator goes on beside the car.
OpensBesideSim(i) ==
    /\ pipes[i].st = "connecting" /\ pipes' = [pipes EXCEPT ![i].st = "open"] /\ mode' = "live"
    /\ UNCHANGED <<simOn, live, pipe, retryOn, savedUrl, decoder, idled, history, videoVars>>

\* onopen stops the simulator; the values go only when the mode still is sim.
WireOpens(i) ==
    /\ pipes[i].st = "connecting" /\ pipes' = [pipes EXCEPT ![i].st = "open"]
    /\ simOn' = FALSE /\ mode' = "live"
    /\ live' = IF mode = "sim" THEN Emptied ELSE live
    /\ UNCHANGED <<pipe, retryOn, savedUrl, decoder, idled, history, videoVars>>

\* onerror stays bound on a socket that was given up while it connected.
WireErrs(i) ==
    /\ IsUp(i) \/ (pipes[i].st = "closing" /\ ~pipes[i].bound)
    /\ pipes' = [pipes EXCEPT ![i].st = "closing"]
    /\ mode' = "error"
    /\ UNCHANGED <<pipe, retryOn, simOn, savedUrl, decoder, idled, tableVars, videoVars>>

\* Mutant: the retry is set only where the simulator is started.
CloseInSim(i) ==
    /\ pipes[i].st \in {"open", "closing"} /\ pipes' = [pipes EXCEPT ![i].st = "closed"]
    /\ IF pipes[i].bound /\ ~simOn THEN pipe' = NoPipe /\ retryOn' = TRUE /\ simOn' = TRUE /\ mode' = "sim"
       ELSE UNCHANGED <<pipe, retryOn, simOn, mode>>
    /\ UNCHANGED <<savedUrl, decoder, idled, tableVars, videoVars>>

\* onclose: the simulator stands in, unless it runs already, and a retry is due.
WireCloses(i) ==
    /\ pipes[i].st \in {"open", "closing"} /\ pipes' = [pipes EXCEPT ![i].st = "closed"]
    /\ IF pipes[i].bound
       THEN /\ pipe' = NoPipe /\ retryOn' = TRUE
            /\ simOn' = TRUE /\ mode' = IF simOn THEN "error" ELSE "sim"
       ELSE UNCHANGED <<pipe, retryOn, simOn, mode>>
    /\ UNCHANGED <<savedUrl, decoder, idled, tableVars, videoVars>>

StreamRetry == retryOn /\ Connects("base") /\ UNCHANGED idled

SimTicks == simOn /\ Ingested(SimIds, "sim") /\ UNCHANGED <<pipeVars, videoVars>>

WireDelivers(i, id) ==
    /\ pipes[i].st = "open" /\ Ingested({id}, "car")
    /\ UNCHANGED <<pipeVars, videoVars>>

-----------------------------------------------------------------------------
(* video-stage.jsx: an effect per host; the cleanup cancels and closes the old connection. *)

Hosts == {"a", "b"}
PeerOf(h) == IF h = "" THEN <<>> ELSE <<[host |-> h, at |-> "offering", cancelled |-> FALSE]>>

\* Mutant: the effect has no cleanup.
SetHostOnly(h) ==
    /\ h # host /\ host' = h /\ Len(peers) < MaxStreamSockets
    /\ peers' = peers \o PeerOf(h) /\ video' = IF h = "" THEN "placeholder" ELSE "connecting"
    /\ UNCHANGED <<pipeVars, tableVars>>
SetHost(h) ==
    /\ h # host /\ host' = h /\ Len(peers) < MaxStreamSockets
    /\ peers' = [i \in DOMAIN peers |-> [peers[i] EXCEPT !.cancelled = TRUE]] \o PeerOf(h)
    /\ video' = IF h = "" THEN "placeholder" ELSE "connecting"
    /\ UNCHANGED <<pipeVars, tableVars>>

\* The offer is made and posted; a cancelled peer does not post, a failed one says so unless cancelled.
PeerStep(i) ==
    LET p == peers[i] IN
    /\ p.at \in {"offering", "posted", "answered"}
    /\ \/ p.at = "offering" /\ peers' = [peers EXCEPT ![i].at = IF p.cancelled THEN "ended" ELSE "posted"]
          /\ UNCHANGED video
       \/ p.at = "posted" /\ ~p.cancelled /\ peers' = [peers EXCEPT ![i].at = "answered"] /\ UNCHANGED video
       \/ p.at = "answered" /\ ~p.cancelled /\ video' \in {p.host, "offline"} /\ UNCHANGED peers
       \/ p.at # "answered" /\ peers' = [peers EXCEPT ![i].at = "ended"]
          /\ video' = IF p.cancelled THEN video ELSE "offline"
    /\ UNCHANGED <<host, pipeVars, tableVars>>

-----------------------------------------------------------------------------

StreamInit ==
    /\ mode = "connecting" /\ pipes = <<[st |-> "connecting", bound |-> TRUE]>> /\ pipe = 1
    /\ retryOn = FALSE /\ simOn = FALSE /\ savedUrl = TRUE /\ decoder = "pending" /\ idled = FALSE
    /\ live = [id \in StdIds \cup ExtIds |-> "none"] /\ history = [id \in StdIds \cup ExtIds |-> <<>>]
    /\ host = "a" /\ video = "connecting" /\ peers = PeerOf("a")

StreamSockets == \E i \in DOMAIN pipes : WireOpens(i) \/ WireErrs(i) \/ WireCloses(i)
StreamData == SimTicks \/ \E i \in DOMAIN pipes, id \in StdIds \cup ExtIds : WireDelivers(i, id)
StreamUser == StreamConnect \/ \E on \in BOOLEAN : UseSim(on)
Video == (\E h \in Hosts \cup {""} : SetHost(h)) \/ \E i \in DOMAIN peers : PeerStep(i)

StreamNext == StreamSockets \/ StreamData \/ StreamUser \/ StreamRetry \/ DecoderLoads \/ Video

-----------------------------------------------------------------------------
(* Properties. *)

\* While the overlay says LIVE the simulator is stopped and the socket it shows is open.
LiveIsLive == mode = "live" => ~simOn /\ pipe # NoPipe /\ pipes[pipe].st = "open"

\* However often the user connects, one socket at most delivers to the table.
OneWire == Cardinality({i \in DOMAIN pipes : IsUp(i)}) <= 1

\* Unless the user chose the simulator or nothing, a socket or a retry is always pending.
StreamComesBack == ~idled => retryOn \/ (pipe # NoPipe /\ pipes[pipe].st # "closed")

\* The video status is that of the host in use: a peer that was given up says nothing.
VideoOfHost == video \in Hosts => video = host

\* What the user chose to simulate is simulated throughout: no value of the car stays or
\* comes in from a socket that was given up.
ChosenSimIsPure == idled => \A id \in DOMAIN live : live[id] # "car"

\* What the overlay shows is what it says: live, simulated or the camera of its host, over one
\* socket that comes back (ws-service, telemetry-store, VideoStage).
StreamIsTrue == LiveIsLive /\ OneWire /\ StreamComesBack /\ ChosenSimIsPure /\ VideoOfHost

StreamSpec == StreamInit /\ [][StreamNext]_overlayVars
=============================================================================
