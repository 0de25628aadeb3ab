------------------------------ MODULE PageLock ------------------------------
(***************************************************************************)
(* The page lock: browser tabs that can command the car take control of a  *)
(* page before they transmit.  The WebSocket bridge of the base station    *)
(* (universal-telemetry-software/src/websocket_bridge.py) keeps who holds  *)
(* which page; each tab (pecan/src/lib/usePageLock.ts on top of            *)
(* pecan/src/services/WebSocketService.ts) keeps a copy of that table and  *)
(* the client id the bridge gave it, and decides from the two who it is.   *)
(*                                                                         *)
(* A WebSocket is a number that is never used again; the client id is a    *)
(* counter of the bridge process.  Display names are left out, and so are  *)
(* the messages that change nothing at a tab (denials, errors).            *)
(***************************************************************************)
EXTENDS Integers, Sequences, FiniteSets

CONSTANTS
  Tabs,       \* browser tabs
  Pages,      \* _LOCKABLE_PAGES
  Failover,   \* whether WebSocketService has two or more candidate URLs
  MaxConns,   \* bound: WebSockets ever opened
  MaxStarts,  \* bound: bridge processes, one more than its restarts
  MaxClicks   \* bound: what the users do

NoPage == "no page"
NoId == -1
NoConn == 0
Free == [holder |-> NoId, ws |-> NoConn]

ASSUME PageLockAssumption ==
  /\ Failover \in BOOLEAN
  /\ MaxConns \in Nat /\ MaxClicks \in Nat /\ MaxStarts \in Nat \ {0}
  /\ NoPage \notin Pages

Conns == 1 .. MaxConns
Ids == 0 .. MaxConns - 1
Lock == [holder : Ids, ws : Conns]
Table == [Pages -> Ids \cup {NoId}]       \* what a page_lock_state carries
Request == [action : {"query", "acquire", "release"}, page : Pages \cup {NoPage}]
Reply == [type : {"state", "result"}, locks : Table, id : Ids \cup {NoId}]

VARIABLES
  clients, clientId, nextId, locks,  \* the bridge process
  owing,                             \* its handlers about to broadcast
  casts,                             \* broadcasts under way, oldest first
  starts,
  up, down,                          \* messages in flight on each WebSocket
  conn, page, view, myId,            \* each tab
  opened, clicks

bridgeVars == <<clients, clientId, nextId, locks, owing, casts, starts>>
tabVars == <<conn, page, view, myId>>
countVars == <<opened, clicks>>
vars == <<bridgeVars, up, down, tabVars, countVars>>

TypeOK ==
  /\ clients \in SUBSET Conns /\ clientId \in [Conns -> Ids \cup {NoId}]
  /\ nextId \in 0 .. MaxConns /\ locks \in [Pages -> Lock \cup {Free}]
  /\ owing \in SUBSET Conns
  /\ casts \in Seq([by : Conns, to : SUBSET Conns, locks : Table])
  /\ starts \in 1 .. MaxStarts
  /\ up \in [Conns -> Seq(Request)] /\ down \in [Conns -> Seq(Reply)]
  /\ conn \in [Tabs -> Conns \cup {NoConn}] /\ page \in [Tabs -> Pages \cup {NoPage}]
  /\ view \in [Tabs -> Table] /\ myId \in [Tabs -> Ids \cup {NoId}]
  /\ opened \in 0 .. MaxConns /\ clicks \in 0 .. MaxClicks

Unlocked == [p \in Pages |-> NoId]

Init ==
  /\ clients = {} /\ clientId = [k \in Conns |-> NoId] /\ nextId = 0
  /\ locks = [p \in Pages |-> Free]
  /\ owing = {} /\ casts = <<>> /\ starts = 1
  /\ up = [k \in Conns |-> <<>>] /\ down = [k \in Conns |-> <<>>]
  /\ conn = [t \in Tabs |-> NoConn] /\ page = [t \in Tabs |-> NoPage]
  /\ view = [t \in Tabs |-> Unlocked] /\ myId = [t \in Tabs |-> NoId]
  /\ opened = 0 /\ clicks = 0

----------------------------------------------------------------------------
\* Messages

\* A tab's send() reaches a bridge that still has its WebSocket, or nobody.
Send(t, request) ==
  up' = IF conn[t] \in clients THEN [up EXCEPT ![conn[t]] = Append(@, request)] ELSE up
\* Mutant: leaving a page says nothing to the bridge.
SendNothing(t, request) == UNCHANGED up
SendRelease(t, request) == Send(t, request)

Query == [action |-> "query", page |-> NoPage]

\* The bridge's send() to a tab that is gone is lost.
Open(k) == \E t \in Tabs : conn[t] = k
Deliver(to, reply) ==
  down' = [k \in Conns |-> IF k \in to /\ Open(k) THEN Append(down[k], reply) ELSE down[k]]

Holders == [p \in Pages |-> locks[p].holder]
HoldersNext == [p \in Pages |-> locks'[p].holder]
State(table, id) == [type |-> "state", locks |-> table, id |-> id]
Result(id) == [type |-> "result", locks |-> Unlocked, id |-> id]

----------------------------------------------------------------------------
\* The tabs

LockedByMe(t) ==
  /\ page[t] # NoPage /\ myId[t] # NoId
  /\ view[t][page[t]] = myId[t]
LockedByOther(t) == page[t] # NoPage /\ view[t][page[t]] # NoId /\ ~LockedByMe(t)

\* A WebSocket opens.  With one URL onopen tells the page, which queries; with
\* candidates the handler is bound only after onopen has fired.
QueriesOnConnect(t) == page[t] # NoPage /\ ~Failover
\* Mutants: the id is the number of clients now connected; it is one ahead.
IdFromCount == Cardinality(clients)
IdAhead == nextId + 1
NewId == nextId
Connect(t) ==
  /\ conn[t] = NoConn /\ opened < MaxConns
  /\ LET k == opened + 1 IN
       /\ opened' = k
       /\ conn' = [conn EXCEPT ![t] = k]
       /\ clients' = clients \cup {k}
       /\ clientId' = [clientId EXCEPT ![k] = NewId] /\ nextId' = nextId + 1
       /\ up' = [up EXCEPT ![k] = IF QueriesOnConnect(t) THEN <<Query>> ELSE <<>>]
  /\ UNCHANGED <<locks, owing, casts, starts, down, page, view, myId, clicks>>

\* Whoever closed it, the tab notices, and what was under way to it is lost.
LoseConnection(t) ==
  /\ conn[t] # NoConn
  /\ conn' = [conn EXCEPT ![t] = NoConn]
  /\ down' = [down EXCEPT ![conn[t]] = <<>>]
  /\ UNCHANGED <<bridgeVars, up, page, view, myId, countVars>>

\* The hook mounts with empty state and queries if there is a connection.
OpenPage(t, p) ==
  /\ page[t] = NoPage /\ clicks < MaxClicks
  /\ page' = [page EXCEPT ![t] = p] /\ clicks' = clicks + 1
  /\ Send(t, Query)
  /\ UNCHANGED <<bridgeVars, down, conn, view, myId, opened>>

\* It unmounts: the page is released whoever holds it.
LeavePage(t) ==
  /\ page[t] # NoPage
  /\ SendRelease(t, [action |-> "release", page |-> page[t]])
  /\ page' = [page EXCEPT ![t] = NoPage]
  /\ view' = [view EXCEPT ![t] = Unlocked] /\ myId' = [myId EXCEPT ![t] = NoId]
  /\ UNCHANGED <<bridgeVars, down, conn, countVars>>

\* The banner's buttons.
TakeControl(t) ==
  /\ page[t] # NoPage /\ ~LockedByMe(t) /\ ~LockedByOther(t) /\ clicks < MaxClicks
  /\ conn[t] \in clients
  /\ Send(t, [action |-> "acquire", page |-> page[t]])
  /\ clicks' = clicks + 1
  /\ UNCHANGED <<bridgeVars, down, tabVars, opened>>

ReleaseControl(t) ==
  /\ LockedByMe(t) /\ clicks < MaxClicks
  /\ Send(t, [action |-> "release", page |-> page[t]])
  /\ clicks' = clicks + 1
  /\ UNCHANGED <<bridgeVars, down, tabVars, opened>>

\* The first client id a mounted page hears of stays its own.
Learn(t, id) == IF myId[t] = NoId THEN id ELSE myId[t]
ReceiveReply(t) ==
  /\ conn[t] # NoConn /\ down[conn[t]] # <<>>
  /\ down' = [down EXCEPT ![conn[t]] = Tail(@)]
  /\ LET reply == Head(down[conn[t]]) IN
       IF page[t] = NoPage THEN UNCHANGED <<view, myId>>
       ELSE /\ view' = IF reply.type = "state" THEN [view EXCEPT ![t] = reply.locks] ELSE view
            /\ myId' = [myId EXCEPT ![t] = Learn(t, reply.id)]
  /\ UNCHANGED <<bridgeVars, up, conn, page, countVars>>

----------------------------------------------------------------------------
\* The bridge

\* A handler takes the next message when it is done with the last, its
\* broadcast included.
Busy(k) == k \in owing \/ \E i \in 1 .. Len(casts) : casts[i].by = k
Handles(k, action) ==
  /\ k \in clients /\ ~Busy(k)
  /\ up[k] # <<>> /\ Head(up[k]).action = action
  /\ up' = [up EXCEPT ![k] = Tail(@)]

HandleQuery(k) ==
  /\ Handles(k, "query")
  /\ Deliver({k}, State(Holders, clientId[k]))
  /\ UNCHANGED <<bridgeVars, tabVars, countVars>>

\* Mutant: whoever asks gets the page.
MayAcquireAlways(k, p) == TRUE
MayAcquire(k, p) == locks[p] = Free \/ locks[p].holder = clientId[k]
HandleAcquire(k) ==
  /\ Handles(k, "acquire")
  /\ LET p == Head(up[k]).page IN
       IF MayAcquire(k, p)
       THEN /\ locks' = [locks EXCEPT ![p] = [holder |-> clientId[k], ws |-> k]]
            /\ Deliver({k}, Result(clientId[k]))
            \* A send to a closed WebSocket raises before the broadcast.
            /\ owing' \in {owing \cup {k}} \cup (IF Open(k) THEN {} ELSE {owing})
       ELSE UNCHANGED <<locks, down, owing>>
  /\ UNCHANGED <<clients, clientId, nextId, casts, starts, tabVars, countVars>>

\* gather() schedules one send per client with the table of this moment.
Cast(k, table) == [by |-> k, to |-> clients, locks |-> table]
\* Mutant: a release is not broadcast.
NoCastAfter(k, table) == casts
CastAfter(k, table) == Append(casts, Cast(k, table))
MayRelease(k, p) == locks[p] # Free /\ locks[p].holder = clientId[k]
HandleRelease(k) ==
  /\ Handles(k, "release")
  /\ LET p == Head(up[k]).page IN
       IF MayRelease(k, p)
       THEN /\ locks' = [locks EXCEPT ![p] = Free]
            /\ casts' = CastAfter(k, HoldersNext)
       ELSE UNCHANGED <<locks, casts>>
  /\ UNCHANGED <<clients, clientId, nextId, owing, starts, down, tabVars, countVars>>

\* The handler resumes after its await and calls _broadcast_page_lock_state.
Broadcast(k) ==
  /\ k \in owing
  /\ owing' = owing \ {k}
  /\ casts' = Append(casts, Cast(k, Holders))
  /\ UNCHANGED <<clients, clientId, nextId, locks, starts, up, down, tabVars, countVars>>

DeliverBroadcast ==
  /\ casts # <<>>
  /\ casts' = Tail(casts)
  /\ Deliver(Head(casts).to, State(Head(casts).locks, NoId))
  /\ UNCHANGED <<clients, clientId, nextId, locks, owing, starts, up, tabVars, countVars>>

\* ws_handler ends, having read some of what the tab sent before it left.
\* Mutant: the locks of a closed connection are kept.
WithoutLocksKept(k) == locks
WithoutLocksOf(k) == [p \in Pages |-> IF locks[p].ws = k THEN Free ELSE locks[p]]
SeeClose(k) ==
  /\ k \in clients /\ ~Open(k) /\ ~Busy(k)
  /\ clients' = clients \ {k}
  /\ up' = [up EXCEPT ![k] = <<>>]
  /\ locks' = WithoutLocksOf(k)
  /\ owing' = IF \E p \in Pages : locks[p].ws = k THEN owing \cup {k} ELSE owing
  /\ UNCHANGED <<clientId, nextId, casts, starts, down, tabVars, countVars>>

\* The bridge process is replaced: locks and the counter are in its memory.
BridgeRestart ==
  /\ starts < MaxStarts
  /\ starts' = starts + 1
  /\ clients' = {} /\ nextId' = 0 /\ locks' = [p \in Pages |-> Free]
  /\ owing' = {} /\ casts' = <<>>
  /\ up' = [k \in Conns |-> <<>>]
  /\ UNCHANGED <<clientId, down, tabVars, countVars>>

----------------------------------------------------------------------------
Tab(t) ==
  \/ Connect(t) \/ LoseConnection(t) \/ LeavePage(t)
  \/ \E p \in Pages : OpenPage(t, p)
  \/ TakeControl(t) \/ ReleaseControl(t) \/ ReceiveReply(t)
Handler(k) ==
  \/ HandleQuery(k) \/ HandleAcquire(k) \/ HandleRelease(k)
  \/ Broadcast(k) \/ SeeClose(k)

Next ==
  \/ \E t \in Tabs : Tab(t)
  \/ \E k \in Conns : Handler(k)
  \/ DeliverBroadcast \/ BridgeRestart

Spec == Init /\ [][Next]_vars

\* The bridge's handlers get their turn, and its keepalive notices a
\* connection whose other end is gone.
Fairness == WF_vars(DeliverBroadcast) /\ \A k \in Conns : WF_vars(Handler(k))
FairSpec == Spec /\ Fairness

----------------------------------------------------------------------------
(* Properties *)

\* A tab with everything the bridge has to tell it: its page is open, no
\* message, handler or broadcast that concerns it is under way, and the bridge
\* has noticed if a holder is gone.
Settled(t) ==
  /\ page[t] # NoPage /\ conn[t] \in clients
  /\ up[conn[t]] = <<>> /\ down[conn[t]] = <<>>
  /\ owing = {} /\ casts = <<>>
  /\ \A p \in Pages : locks[p] # Free => Open(locks[p].ws)

\* Query replies sent directly and broadcasts sent by tasks may overtake one
\* another, but the last thing a tab hears is the table as it is.
SettledViewsAgree == \A t \in Tabs : Settled(t) => view[t] = Holders

\* usePageLock.ts: the lock "prevents multiple users from simultaneously
\* controlling" a page: no two settled tabs both show "You have control".
OneInControl ==
  \A s, t \in Tabs :
    Settled(s) /\ Settled(t) /\ LockedByMe(s) /\ LockedByMe(t) /\ page[s] = page[t] => s = t

\* Until the bridge is restarted that is so: its ids are used once, and a tab
\* that kept the id of an earlier connection takes no other tab's for its own.
OneInControlPerBridge == starts = 1 => OneInControl

\* A tab moves between pages on one WebSocket: its release of the page it
\* leaves is handled before it can take the next, so it never holds two.
OneLockPerTab ==
  \A p, q \in Pages : locks[p] # Free /\ locks[p].ws = locks[q].ws => p = q

\* Only clients now connected hold pages, each under its own id, and no two
\* clients have the same: a release or an acquire of one never passes as the
\* holder's.
HoldersConnected ==
  /\ \A p \in Pages : locks[p] # Free =>
       locks[p].ws \in clients /\ locks[p].holder = clientId[locks[p].ws]
  /\ \A j, k \in clients : clientId[j] = clientId[k] => j = k

\* A page in control passes to another client only by way of being free.
NeverStolen ==
  [][\A p \in Pages : locks[p] # Free /\ locks'[p] # Free => locks'[p] = locks[p]]_vars

\* A tab that crashed or lost its network does not keep a page for ever.
AbandonedLockIsFreed ==
  \A p \in Pages, k \in Conns :
    locks[p].ws = k /\ ~Open(k) ~> locks[p].ws # k
=============================================================================
