------------------------------ MODULE TxPage -------------------------------
(*************************************************************************)
(* The CAN transmitter (pages/Transmitter.tsx) over its own WebSocket      *)
(* (services/TxWebSocketService.ts): the safety gate, previews, delayed    *)
(* transmissions, acknowledgements and their timeout. Payload bytes are    *)
(* the message and the signal values they encode.                          *)
(*************************************************************************)
EXTENDS Naturals, Sequences, FiniteSets

CONSTANTS
    TxMessages,        \* messages of the DBC
    MaxTxRetries,      \* maxReconnectAttempts
    MaxTxSockets, MaxTransmits, MaxEdits, MaxMounts   \* bounds

ASSUME TxAssumption == {MaxTxRetries, MaxTxSockets, MaxTransmits, MaxEdits, MaxMounts} \subseteq Nat

Unset == 0
NoBytes == [msg |-> Unset, values |-> 0]
NoFeedback == [says |-> "none", ref |-> Unset]

VARIABLES
    txSocks,     \* state of every socket, with what travels in each direction
    txWs,        \* this.ws
    txConnected, \* _connected: the gate
    txAttempts, txRetries,
    txOverlap,   \* ghost: a socket was opened while another was connecting
    mounts,      \* visits of the page so far; mounted
    mounted,
    form,        \* [msg, values]: what is selected and typed
    previewDue,  \* the 150 ms debounce of the preview runs
    liveBytes,   \* bytes of the last preview
    shownReady,  \* txConnected of the page, polled once a second
    delayed,     \* transmissions that wait for their delay
    pendingTx,   \* pendingTxRef
    ackTimers, ackTimeout,   \* running timeouts, and the one ackTimeoutRef holds
    feedback,    \* what the page says, and of which transmission
    otherHolds,  \* lock.isLockedByOther
    refs,        \* refs drawn so far
    bus,         \* transmissions the bridge has written
    busless,     \* ghost: those it had no CAN bus for, and has only logged
    txTrace      \* TX frames added to the trace
txVars == <<txSocks, txWs, txConnected, txAttempts, txRetries, txOverlap, mounts, mounted, form,
            previewDue, liveBytes, shownReady, delayed, pendingTx, ackTimers, ackTimeout,
            feedback, otherHolds, refs, bus, busless, txTrace>>
linkVars == <<txSocks, txWs, txConnected, txAttempts, txRetries, txOverlap>>
sendVars == <<pendingTx, ackTimers, ackTimeout, feedback>>

TxInit ==
    /\ txSocks = <<>> /\ txWs = Unset /\ txConnected = FALSE
    /\ txAttempts = 0 /\ txRetries = 0 /\ txOverlap = FALSE
    /\ mounts = 0 /\ mounted = FALSE /\ form = NoBytes /\ previewDue = FALSE
    /\ liveBytes = NoBytes /\ shownReady = FALSE /\ delayed = {}
    /\ pendingTx = Unset /\ ackTimers = {} /\ ackTimeout = Unset /\ feedback = NoFeedback /\ otherHolds = FALSE
    /\ refs = 0 /\ bus = {} /\ busless = {} /\ txTrace = {}

-----------------------------------------------------------------------------
(* TxWebSocketService *)

TxState(i) == IF i = Unset THEN "none" ELSE txSocks[i].st
TxOpen == TxState(txWs) = "open"

\* connect() returns early only when the current socket is open.
TxConnects ==
    IF TxOpen THEN UNCHANGED <<txSocks, txWs, txOverlap>>
    ELSE /\ Len(txSocks) < MaxTxSockets
         /\ txSocks' = Append(txSocks, [st |-> "connecting", out |-> <<>>, back |-> <<>>])
         /\ txWs' = Len(txSocks) + 1
         /\ txOverlap' = (txOverlap \/ \E i \in DOMAIN txSocks : txSocks[i].st # "closed")

TxOpens(i) ==
    /\ txSocks[i].st = "connecting"
    /\ txSocks' = [txSocks EXCEPT ![i].st = "open"]
    /\ txConnected' = TRUE /\ txAttempts' = 0
    /\ UNCHANGED <<txWs, txRetries, txOverlap, mounts, mounted, form, previewDue, liveBytes,
                   shownReady, delayed, sendVars, otherHolds, refs, bus, busless, txTrace>>

\* Mutant: onclose forgets the gate.
CloseKeepsGate(i) ==
    /\ txSocks[i].st = "open"
    /\ txSocks' = [txSocks EXCEPT ![i] = [st |-> "closed", out |-> <<>>, back |-> <<>>]]
    /\ txRetries' = txRetries + 1
    /\ UNCHANGED <<txConnected, txAttempts, txWs, txOverlap, mounts, mounted, form, previewDue, liveBytes,
                   shownReady, delayed, sendVars, otherHolds, refs, bus, busless, txTrace>>

\* onclose: whatever travels is lost, the gate closes, and a retry is set.
TxCloses(i) ==
    /\ txSocks[i].st # "closed"
    /\ txSocks' = [txSocks EXCEPT ![i] = [st |-> "closed", out |-> <<>>, back |-> <<>>]]
    /\ txConnected' = FALSE
    /\ LET again == IF txAttempts < MaxTxRetries THEN 1 ELSE 0
       IN  txAttempts' = txAttempts + again /\ txRetries' = txRetries + again
    /\ UNCHANGED <<txWs, txOverlap, mounts, mounted, form, previewDue, liveBytes, shownReady,
                   delayed, sendVars, otherHolds, refs, bus, busless, txTrace>>

TxRetryFires ==
    /\ txRetries > 0 /\ txRetries' = txRetries - 1
    /\ TxConnects
    /\ UNCHANGED <<txConnected, txAttempts, mounts, mounted, form, previewDue, liveBytes, shownReady,
                   delayed, sendVars, otherHolds, refs, bus, busless, txTrace>>

\* send() drops the message silently when the current socket is not open.
TxSend(msg) ==
    txSocks' = IF TxOpen THEN [txSocks EXCEPT ![txWs].out = Append(@, msg)] ELSE txSocks

\* The bridge (websocket_bridge_tx.py) encodes a preview, or writes the frame and says it is
\* sent. It looks for a CAN bus at every send that finds none open: simulated, or without
\* the hardware, it only logs the frame, and says the same. Any message may instead be
\* answered by an error, which carries no ref: sending is disabled, too many messages a
\* second, values that cannot be encoded, a write that fails.
BridgeAnswers(i) ==
    /\ txSocks[i].st = "open" /\ txSocks[i].out # <<>>
    /\ LET msg == Head(txSocks[i].out)
           Reply(kind) == txSocks' = [txSocks EXCEPT ![i].out = Tail(@),
                                          ![i].back = Append(@, [msg EXCEPT !.kind = kind])]
       IN  \/ msg.kind = "preview" /\ Reply("bytes") /\ UNCHANGED <<bus, busless>>
           \/ /\ msg.kind = "send" /\ Reply("ack")
              /\ \/ bus' = bus \cup {msg.ref} /\ UNCHANGED busless
                 \/ busless' = busless \cup {msg.ref} /\ UNCHANGED bus
           \/ Reply("error") /\ UNCHANGED <<bus, busless>>
    /\ UNCHANGED <<txWs, txConnected, txAttempts, txRetries, txOverlap, mounts, mounted, form,
                   previewDue, liveBytes, shownReady, delayed, sendVars, otherHolds, refs, txTrace>>

-----------------------------------------------------------------------------
(* The page *)

\* The component is new: its state starts over. Timers of an earlier visit run on.
Mount ==
    /\ ~mounted /\ mounts < MaxMounts
    /\ mounted' = TRUE /\ mounts' = mounts + 1
    /\ form' = NoBytes /\ previewDue' = FALSE /\ liveBytes' = NoBytes /\ shownReady' = FALSE
    /\ pendingTx' = Unset /\ ackTimers' = {} /\ ackTimeout' = Unset /\ feedback' = NoFeedback
    /\ TxConnects
    /\ UNCHANGED <<txConnected, txAttempts, txRetries, delayed, otherHolds, refs, bus, busless, txTrace>>

Unmount ==
    /\ mounted /\ mounted' = FALSE /\ previewDue' = FALSE
    /\ UNCHANGED <<linkVars, mounts, form, liveBytes, shownReady, delayed, sendVars, otherHolds, refs, bus, busless, txTrace>>

PollGate ==
    /\ mounted /\ shownReady' = txConnected
    /\ UNCHANGED <<linkVars, mounts, mounted, form, previewDue, liveBytes, delayed, sendVars, otherHolds, refs,
                   bus, busless, txTrace>>

SelectMessage(m) ==
    /\ mounted
    /\ form' = [msg |-> m, values |-> 0] /\ liveBytes' = NoBytes /\ previewDue' = TRUE
    /\ UNCHANGED <<linkVars, mounts, mounted, shownReady, delayed, sendVars, otherHolds, refs, bus, busless, txTrace>>

EditSignal ==
    /\ mounted /\ form.msg # Unset /\ form.values < MaxEdits
    /\ form' = [form EXCEPT !.values = @ + 1] /\ previewDue' = TRUE
    /\ UNCHANGED <<linkVars, mounts, mounted, liveBytes, shownReady, delayed, sendVars, otherHolds, refs, bus, busless,
                   txTrace>>

PreviewFires ==
    /\ mounted /\ previewDue /\ previewDue' = FALSE
    /\ IF txConnected
       THEN TxSend([kind |-> "preview", ref |-> Unset, msg |-> form.msg, values |-> form.values])
       ELSE UNCHANGED txSocks
    /\ UNCHANGED <<txWs, txConnected, txAttempts, txRetries, txOverlap, mounts, mounted, form,
                   liveBytes, shownReady, delayed, sendVars, otherHolds, refs, bus, busless, txTrace>>

\* run(): the new transmission replaces the pending one and its timeout.
Run(tx) ==
    IF ~txConnected
    THEN /\ pendingTx' = Unset /\ ackTimeout' = Unset /\ ackTimers' = ackTimers \ {ackTimeout}
         /\ feedback' = [says |-> "error", ref |-> tx.ref] /\ UNCHANGED <<txSocks, txTrace>>
    ELSE /\ pendingTx' = tx.ref /\ ackTimeout' = tx.ref
         /\ ackTimers' = (ackTimers \ {ackTimeout}) \cup {tx.ref}
         /\ feedback' = [says |-> "sending", ref |-> tx.ref]
         /\ TxSend([kind |-> "send", ref |-> tx.ref, msg |-> tx.msg, values |-> tx.values])
         /\ txTrace' = txTrace \cup {[msg |-> tx.msg, bytes |-> tx.bytes]}

\* handleTransmit, behind a button that is disabled while a transmission is being sent.
Transmit(later) ==
    /\ mounted /\ shownReady /\ feedback.says # "sending" /\ ~otherHolds /\ form.msg # Unset /\ refs < MaxTransmits
    /\ LET tx == [ref |-> refs + 1, msg |-> form.msg, values |-> form.values, bytes |-> liveBytes,
                  mount |-> mounts]
       IN  IF ~txConnected
           THEN feedback' = [says |-> "error", ref |-> Unset] /\ UNCHANGED <<refs, delayed, txSocks, txTrace, pendingTx, ackTimers,
                                                   ackTimeout>>
           ELSE /\ refs' = refs + 1
                /\ IF later THEN delayed' = delayed \cup {tx} /\ UNCHANGED <<txSocks, txTrace, sendVars>>
                            ELSE Run(tx) /\ UNCHANGED delayed
    /\ UNCHANGED <<txWs, txConnected, txAttempts, txRetries, txOverlap, mounts, mounted, form,
                   previewDue, liveBytes, shownReady, otherHolds, bus, busless>>

\* The delay ends. No gate is looked at again but the connection's; a transmission of an
\* earlier visit still goes out, and touches the state of no page.
DelayEnds(tx) ==
    /\ delayed' = delayed \ {tx}
    /\ IF tx.mount = mounts THEN Run(tx)
       ELSE /\ IF txConnected
               THEN /\ TxSend([kind |-> "send", ref |-> tx.ref, msg |-> tx.msg, values |-> tx.values])
                    /\ txTrace' = txTrace \cup {[msg |-> tx.msg, bytes |-> tx.bytes]}
               ELSE UNCHANGED <<txSocks, txTrace>>
            /\ UNCHANGED sendVars
    /\ UNCHANGED <<txWs, txConnected, txAttempts, txRetries, txOverlap, mounts, mounted, form,
                   previewDue, liveBytes, shownReady, otherHolds, refs, bus, busless>>

AckTimesOut(ref) ==
    /\ ackTimers' = ackTimers \ {ref} /\ ackTimeout' = Unset
    /\ IF pendingTx = ref THEN pendingTx' = Unset /\ feedback' = [feedback EXCEPT !.says = "error"]
       ELSE UNCHANGED <<pendingTx, feedback>>
    /\ UNCHANGED <<linkVars, mounts, mounted, form, previewDue, liveBytes, shownReady, delayed, otherHolds, refs,
                   bus, busless, txTrace>>

OnPreview(msg) ==
    /\ msg.kind = "bytes"
    /\ liveBytes' = [msg |-> msg.msg, values |-> msg.values] /\ UNCHANGED sendVars

Settles(says) ==
    /\ pendingTx' = Unset /\ ackTimeout' = Unset /\ ackTimers' = ackTimers \ {ackTimeout}
    /\ feedback' = [feedback EXCEPT !.says = says]

\* Mutants: any acknowledgement will do; the timeout ends before the refs are compared.
AnyAck(msg) ==
    /\ msg.kind = "ack" /\ UNCHANGED liveBytes
    /\ IF pendingTx # Unset THEN Settles("ok") ELSE UNCHANGED sendVars
AckEndsTimeout(msg) ==
    /\ msg.kind = "ack" /\ UNCHANGED liveBytes
    /\ IF msg.ref = pendingTx THEN Settles("ok")
       ELSE ackTimers' = ackTimers \ {ackTimeout} /\ UNCHANGED <<pendingTx, ackTimeout, feedback>>
OnAck(msg) ==
    /\ msg.kind = "ack" /\ UNCHANGED liveBytes
    /\ IF pendingTx # Unset /\ msg.ref = pendingTx THEN Settles("ok") ELSE UNCHANGED sendVars

\* Any error answer, a preview's too, is taken for the answer to what is pending.
OnErr(msg) ==
    /\ msg.kind = "error" /\ UNCHANGED liveBytes
    /\ IF pendingTx # Unset THEN Settles("error") ELSE UNCHANGED sendVars

\* onmessage hands an answer to the listeners of the mounted page.
AnswerArrives(i) ==
    /\ txSocks[i].st = "open" /\ txSocks[i].back # <<>>
    /\ txSocks' = [txSocks EXCEPT ![i].back = Tail(@)]
    /\ LET msg == Head(txSocks[i].back)
       IN  IF mounted THEN OnPreview(msg) \/ OnAck(msg) \/ OnErr(msg)
           ELSE UNCHANGED <<liveBytes, sendVars>>
    /\ UNCHANGED <<txWs, txConnected, txAttempts, txRetries, txOverlap, mounts, mounted, form,
                   previewDue, shownReady, delayed, otherHolds, refs, bus, busless, txTrace>>

LockChanges ==
    /\ otherHolds' = ~otherHolds
    /\ UNCHANGED <<linkVars, mounts, mounted, form, previewDue, liveBytes, shownReady, delayed,
                   sendVars, refs, bus, busless, txTrace>>

TxNext ==
    \/ LockChanges \/ Mount \/ Unmount \/ PollGate \/ EditSignal \/ PreviewFires \/ TxRetryFires
    \/ \E m \in TxMessages : SelectMessage(m)
    \/ \E later \in BOOLEAN : Transmit(later)
    \/ \E tx \in delayed : DelayEnds(tx)
    \/ \E ref \in ackTimers : AckTimesOut(ref)
    \/ \E i \in DOMAIN txSocks : TxOpens(i) \/ TxCloses(i) \/ BridgeAnswers(i) \/ AnswerArrives(i)

-----------------------------------------------------------------------------
(* Properties. *)

\* "Transmitted" is said only of a frame the bridge has written, unless it had no CAN bus to
\* write it to: of the transmission this page sent last, whatever the answers to earlier and
\* delayed transmissions do (onAck, _write_can).
OkMeansOnBus == feedback.says = "ok" => feedback.ref \in bus \cup busless

\* While the page says "sending" the button is locked, so the timeout that ends it must
\* be running, for the transmission that is pending (run, onAck, onErr).
SendingIsTimed == feedback.says = "sending" => pendingTx # Unset /\ pendingTx \in ackTimers

\* The safety gate tells the truth: unless a socket was opened while another was still
\* connecting, _connected holds exactly when the current socket is open.
GateIsTrue == ~txOverlap => (txConnected <=> TxOpen)

\* What the page says of a transmission is so: sent, sending, or safe to send.
FeedbackIsTrue == OkMeansOnBus /\ SendingIsTimed /\ GateIsTrue

TxSpec == TxInit /\ [][TxNext]_txVars
=============================================================================
