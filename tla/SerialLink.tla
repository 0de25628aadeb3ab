---------------------------- MODULE SerialLink ----------------------------
(*************************************************************************)
(* Local CAN over Web Serial (services/SerialService.ts) beside the        *)
(* WebSocket, and the handler that feeds the store from either             *)
(* (services/TelemetryHandler.ts). The serial line carries the tokens of   *)
(* slcan lines: the two halves of a frame, the carriage return, the BELL.  *)
(*************************************************************************)
EXTENDS Naturals, Sequences

CONSTANTS MaxLines, MaxSessions     \* bounds: lines the adapter sends, connects

ASSUME SerialAssumption == MaxLines \in Nat /\ MaxSessions \in Nat

Half(n, part) == [line |-> n, part |-> part]
CR == Half(0, 0)
Bell == Half(0, 1)

VARIABLES
    connecting,    \* how far connect() is: idle, choosing, opening, writing
    disconnecting, \* how far disconnect() is: idle, writing, cancelling, closing
    serialConn,    \* isConnected, and the button the settings show
    port,          \* this.port: "none", "closed", "open"
    writer,        \* this.writer is set: a command is being written
    reading,       \* the read loop has a reader
    suppressed,    \* WebSocket ingestion is suppressed
    sessions,      \* connects so far
    wire,          \* tokens the adapter has sent and the page has not read
    lines,         \* lines the adapter has sent
    inputBuffer,   \* tokens read and not yet consumed
    store,         \* what was ingested since the store was last cleared, in order
    tainted,       \* ghost: a session began with another's input, or a BELL was sent
    crossed,       \* ghost: connect() and disconnect() ran at the same time
    stranded       \* ghost: connect() or disconnect() threw half way
serialVars == <<connecting, disconnecting, serialConn, port, writer, reading, suppressed, sessions,
                wire, lines, inputBuffer, store, tainted, crossed, stranded>>
streamVars == <<wire, lines, inputBuffer, store, tainted>>

SerialInit ==
    /\ connecting = "idle" /\ disconnecting = "idle" /\ serialConn = FALSE
    /\ port = "none" /\ writer = FALSE /\ reading = FALSE /\ suppressed = FALSE /\ sessions = 0
    /\ wire = <<>> /\ lines = 0 /\ inputBuffer = <<>> /\ store = <<>>
    /\ tainted = FALSE /\ crossed = FALSE /\ stranded = FALSE

-----------------------------------------------------------------------------
(* connect() *)

\* The settings offer Connect only while there is no connection.
ConnectClicked ==
    /\ ~serialConn /\ connecting = "idle" /\ sessions < MaxSessions
    /\ connecting' = "choosing" /\ sessions' = sessions + 1
    /\ crossed' = (crossed \/ disconnecting # "idle")
    /\ UNCHANGED <<disconnecting, serialConn, port, writer, reading, suppressed, streamVars, stranded>>

ConnectFails(threw) ==
    /\ connecting' = "idle" /\ serialConn' = FALSE
    /\ stranded' = (stranded \/ threw)

\* The user picks a port, or closes the chooser.
PortChosen ==
    /\ connecting = "choosing"
    /\ \/ port' = "closed" /\ connecting' = "opening" /\ UNCHANGED <<serialConn, stranded>>
       \/ ConnectFails(FALSE) /\ UNCHANGED port
    /\ UNCHANGED <<disconnecting, writer, reading, suppressed, sessions, streamVars, crossed>>

\* Mutant: the WebSocket is suppressed, but what it has stored is kept.
OpenedKeepsStore ==
    /\ connecting = "opening" /\ connecting' = "writing"
    /\ port' = (IF port = "none" THEN "none" ELSE "open")
    /\ serialConn' = TRUE /\ suppressed' = TRUE /\ wire' = <<>>
    /\ tainted' = (tainted \/ inputBuffer # <<>>)
    /\ UNCHANGED <<disconnecting, writer, reading, sessions, lines, inputBuffer, store, crossed, stranded>>

\* The port is open: the WebSocket is suppressed and the store cleared in the same step.
PortOpened ==
    /\ connecting = "opening"
    /\ \/ /\ port' = (IF port = "none" THEN "none" ELSE "open")
          /\ serialConn' = TRUE /\ suppressed' = TRUE /\ store' = <<>>
          /\ connecting' = "writing" /\ UNCHANGED stranded
       \/ ConnectFails(FALSE) /\ UNCHANGED <<port, suppressed, store>>
    /\ tainted' = (tainted \/ inputBuffer # <<>>)
    /\ wire' = <<>>
    /\ UNCHANGED <<disconnecting, writer, reading, sessions, lines, inputBuffer, crossed>>

\* The slcan commands are written one after the other with a shared writer: when
\* disconnect() writes at the same time, the writer may be gone in "finally" and the
\* TypeError ends connect(). Otherwise the read loop starts, if there is a port.
SlcanReady ==
    /\ connecting = "writing"
    /\ \/ connecting' = "idle" /\ reading' = (port = "open") /\ UNCHANGED <<serialConn, stranded>>
       \/ disconnecting = "writing" /\ ConnectFails(TRUE) /\ UNCHANGED reading
    /\ UNCHANGED <<disconnecting, port, writer, suppressed, sessions, streamVars, crossed>>

-----------------------------------------------------------------------------
(* disconnect() *)

Disconnects ==
    /\ serialConn' = FALSE
    /\ crossed' = (crossed \/ connecting # "idle")
    /\ disconnecting' = IF port = "open" THEN "writing" ELSE "cancelling"
    /\ writer' = (port = "open")

DisconnectClicked ==
    /\ serialConn /\ disconnecting = "idle"
    /\ Disconnects
    /\ UNCHANGED <<connecting, port, reading, suppressed, sessions, streamVars, stranded>>

\* Anything that throws leaves the rest of disconnect() undone.
DisconnectThrows ==
    /\ disconnecting' = "idle" /\ stranded' = TRUE

CloseWritten ==
    /\ disconnecting = "writing" /\ writer' = FALSE
    /\ \/ disconnecting' = "cancelling" /\ UNCHANGED stranded
       \/ connecting = "writing" /\ DisconnectThrows
    /\ UNCHANGED <<connecting, serialConn, port, reading, suppressed, sessions, streamVars, crossed>>

ReaderCancelled ==
    /\ disconnecting = "cancelling" /\ reading' = FALSE
    /\ \/ disconnecting' = "closing" /\ UNCHANGED stranded
       \/ DisconnectThrows
    /\ UNCHANGED <<connecting, serialConn, port, writer, suppressed, sessions, streamVars, crossed>>

\* The port this.port names now is closed, and the WebSocket may feed the store again.
PortClosed ==
    /\ disconnecting = "closing"
    /\ \/ /\ disconnecting' = "idle" /\ port' = "none" /\ suppressed' = FALSE /\ UNCHANGED stranded
       \/ DisconnectThrows /\ UNCHANGED <<port, suppressed>>
    /\ UNCHANGED <<connecting, serialConn, writer, reading, sessions, streamVars, crossed>>

\* Mutant: a lost adapter only changes the button.
LostShowsOnly ==
    /\ reading /\ reading' = FALSE /\ serialConn' = FALSE
    /\ UNCHANGED <<crossed, disconnecting, writer, connecting, port, suppressed, sessions, streamVars, stranded>>

\* The adapter is unplugged: the read fails, and the loop ends the session itself.
AdapterLost ==
    /\ reading /\ reading' = FALSE
    /\ IF serialConn /\ disconnecting = "idle" THEN Disconnects
       ELSE UNCHANGED <<serialConn, crossed, disconnecting, writer>>
    /\ UNCHANGED <<connecting, port, suppressed, sessions, streamVars, stranded>>

-----------------------------------------------------------------------------
(* Reading *)

\* The adapter sends a frame in two halves with its return, or reports an error.
AdapterSends ==
    /\ reading /\ lines < MaxLines
    /\ lines' = lines + 1
    /\ \/ wire' = wire \o <<Half(lines + 1, 1), Half(lines + 1, 2), CR>> /\ UNCHANGED tainted
       \/ wire' = Append(wire, Bell) /\ tainted' = TRUE
    /\ UNCHANGED <<connecting, disconnecting, serialConn, port, writer, reading, suppressed, sessions,
                   inputBuffer, store, crossed, stranded>>

\* Mutant: the piece behind the last return is dropped.
NothingKept(buf) == <<>>

\* A BELL is looked for in what is left: what stood before it is dropped with it.
AfterBell(buf) ==
    LET bells == {i \in DOMAIN buf : buf[i] = Bell}
    IN  IF bells = {} THEN buf
        ELSE SubSeq(buf, 1 + CHOOSE i \in bells : \A j \in bells : i <= j, Len(buf))

\* parseSlcanMessage: a line that does not begin as a frame is ignored, and so is one too
\* short for its length field; a line made of parts of several frames passes by chance.
Whole(line) == \E n \in 1..MaxLines : line = <<Half(n, 1), Half(n, 2)>>
Passes(line, chance) ==
    Whole(line) \/ (chance /\ Len(line) > 1 /\ line[1].part = 1 /\ line[1] # Bell)

\* A buffer is cut at its returns: the frames among its lines are handed on, other lines
\* ignored, and what stands behind the last return is left.
Uncut == [frames |-> <<>>, rest |-> <<>>]
TokenRead(before, token, chance) ==
    IF token # CR THEN [before EXCEPT !.rest = Append(@, token)]
    ELSE [frames |-> IF Passes(before.rest, chance) THEN Append(before.frames, before.rest) ELSE before.frames,
          rest |-> <<>>]
Cut(buf, chance) ==
    LET cut[i \in 0 .. Len(buf)] == IF i = 0 THEN Uncut ELSE TokenRead(cut[i - 1], buf[i], chance)
    IN  cut[Len(buf)]

\* A chunk of any length is appended and every complete line handed on.
ChunkRead(n, chance) ==
    /\ reading /\ serialConn /\ n \in 1..Len(wire)
    /\ wire' = SubSeq(wire, n + 1, Len(wire))
    /\ LET read == Cut(inputBuffer \o SubSeq(wire, 1, n), chance)
       IN  /\ inputBuffer' = AfterBell(read.rest)
           /\ store' = store \o [i \in DOMAIN read.frames |-> [from |-> "serial", frame |-> read.frames[i]]]
    /\ UNCHANGED <<connecting, disconnecting, serialConn, port, writer, reading, suppressed, sessions,
                   lines, tainted, crossed, stranded>>

\* 'decoded' and the diagnostic events: dropped while suppressed, else ingested.
SocketDelivers ==
    /\ \A i \in DOMAIN store : store[i].from = "serial"
    /\ store' = IF suppressed THEN store ELSE Append(store, [from |-> "socket", frame |-> <<>>])
    /\ UNCHANGED <<connecting, disconnecting, serialConn, port, writer, reading, suppressed, sessions,
                   wire, lines, inputBuffer, tainted, crossed, stranded>>

SerialNext ==
    \/ ConnectClicked \/ PortChosen \/ PortOpened \/ SlcanReady
    \/ DisconnectClicked \/ CloseWritten \/ ReaderCancelled \/ PortClosed \/ AdapterLost
    \/ AdapterSends \/ SocketDelivers \/ \E n \in 1..Len(wire), chance \in BOOLEAN : ChunkRead(n, chance)

-----------------------------------------------------------------------------
(* Properties. *)

FromSerial == {i \in DOMAIN store : store[i].from = "serial"}
\* Whatever way the line is cut into chunks, the store gets the adapter's frames whole, in
\* the order they were sent, none twice and none left out (handleSerialChunk): unless a BELL
\* was sent, or a session began with a piece of an earlier one in the buffer.
WholeFrames ==
    ~tainted => \A j \in FromSerial :
        /\ Whole(store[j].frame)
        /\ \A i \in FromSerial : i < j /\ (\A k \in FromSerial : k <= i \/ k >= j) =>
               store[j].frame[1].line = store[i].frame[1].line + 1

\* The WebSocket is kept out of the store only for the sake of a serial session: when it
\* is suppressed there is one, or one is being ended, or connect or disconnect threw half way.
SuppressionOwned == suppressed => serialConn \/ disconnecting # "idle" \/ stranded

\* A store that is filled over the serial line holds nothing of the WebSocket, whatever is
\* unplugged or clicked: unless connect() and disconnect() overlapped.
OneSource == ~crossed /\ reading /\ serialConn => \A i \in DOMAIN store : store[i].from = "serial"

SerialSpec == SerialInit /\ [][SerialNext]_serialVars
=============================================================================
