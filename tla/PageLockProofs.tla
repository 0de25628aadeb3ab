--------------------------- MODULE PageLockProofs ---------------------------
(***************************************************************************)
(* For any tabs and pages and any bounds: the type invariant of PageLock,  *)
(* that only connected clients hold pages, each under an id of its own,    *)
(* that a page is never taken from its holder, and that a tab never holds  *)
(* two.  For a page with one URL for the bridge: settled tabs show the     *)
(* table, and two of them never both believe they are in control.          *)
(***************************************************************************)
EXTENDS PageLock, TLAPS

\* The WebSockets the bridge process knows were opened, and it numbered them
\* below its counter, which never runs ahead of the WebSockets opened.
Numbered ==
  /\ nextId <= opened
  /\ \A k \in clients : k <= opened /\ clientId[k] \in 0 .. nextId - 1

TypeInv == TypeOK /\ Numbered

----------------------------------------------------------------------------
(* Lemmas *)

LEMMA HeadAndTail ==
  ASSUME NEW S, NEW s \in Seq(S), s # <<>>
  PROVE  Head(s) \in S /\ Tail(s) \in Seq(S)
OBVIOUS

LEMMA TableType ==
  ASSUME TypeOK
  PROVE  Holders \in Table
BY DEF TypeOK, Holders, Table, Lock, Free, NoConn

LEMMA TableTypeNext ==
  ASSUME locks' \in [Pages -> Lock \cup {Free}]
  PROVE  HoldersNext \in Table
BY DEF HoldersNext, Table, Lock, Free, NoConn

LEMMA ReplyTypes ==
  ASSUME NEW table \in Table, NEW id \in Ids \cup {NoId}
  PROVE  State(table, id) \in Reply /\ Result(id) \in Reply
BY DEF State, Result, Reply, Unlocked, Table

LEMMA SendType ==
  ASSUME TypeOK, NEW t \in Tabs, NEW request \in Request, Send(t, request)
  PROVE  up' \in [Conns -> Seq(Request)]
<1>1. CASE conn[t] \in clients
  <2>1. conn[t] \in Conns /\ up[conn[t]] \in Seq(Request)
    BY <1>1 DEF TypeOK
  <2>2. Append(up[conn[t]], request) \in Seq(Request)
    BY <2>1
  <2> QED BY <1>1, <2>1, <2>2 DEF TypeOK, Send
<1>2. CASE conn[t] \notin clients
  BY <1>2 DEF TypeOK, Send
<1> QED BY <1>1, <1>2

LEMMA DeliverType ==
  ASSUME TypeOK, NEW to, NEW reply \in Reply, Deliver(to, reply)
  PROVE  down' \in [Conns -> Seq(Reply)]
<1>1. \A k \in Conns : down[k] \in Seq(Reply) /\ Append(down[k], reply) \in Seq(Reply)
  BY DEF TypeOK
<1> QED BY <1>1 DEF Deliver

LEMMA TakenType ==
  ASSUME TypeOK, NEW k \in Conns, NEW action, Handles(k, action)
  PROVE  up' \in [Conns -> Seq(Request)] /\ Head(up[k]) \in Request
<1>1. up[k] \in Seq(Request) /\ up[k] # <<>>
  BY DEF TypeOK, Handles
<1>2. Head(up[k]) \in Request /\ Tail(up[k]) \in Seq(Request)
  BY <1>1
<1> QED BY <1>2 DEF TypeOK, Handles

LEMMA CastType ==
  ASSUME TypeOK, NEW k \in Conns, NEW table \in Table
  PROVE  Append(casts, Cast(k, table)) \in
           Seq([by : Conns, to : SUBSET Conns, locks : Table])
<1>1. Cast(k, table) \in [by : Conns, to : SUBSET Conns, locks : Table]
  BY DEF TypeOK, Cast
<1> QED BY <1>1 DEF TypeOK

----------------------------------------------------------------------------
(* The type invariant *)

LEMMA TypeInit == Init => TypeInv
<1> SUFFICES ASSUME Init PROVE TypeInv
  OBVIOUS
<1>1. <<>> \in Seq(Request) /\ <<>> \in Seq(Reply)
      /\ <<>> \in Seq([by : Conns, to : SUBSET Conns, locks : Table])
  OBVIOUS
<1>2. 1 \in 1 .. MaxStarts /\ 0 \in 0 .. MaxConns /\ 0 \in 0 .. MaxClicks
  BY PageLockAssumption DEF PageLockAssumption
<1> QED BY <1>1, <1>2 DEF Init, TypeInv, TypeOK, Numbered, Table, Unlocked

LEMMA TypeTab ==
  ASSUME TypeInv, NEW t \in Tabs, Tab(t)
  PROVE  TypeInv'
<1> USE PageLockAssumption DEF PageLockAssumption
<1>1. CASE Connect(t)
  <2> DEFINE k == opened + 1
  <2>1. k \in Conns /\ opened' = k /\ opened \in Nat /\ nextId \in Nat /\ nextId <= opened
    BY <1>1 DEF Connect, TypeInv, TypeOK, Numbered, Conns
  <2>2. NewId \in Ids /\ nextId' = nextId + 1
    BY <1>1, <2>1 DEF Connect, NewId, Ids, Conns
  <2>3. <<Query>> \in Seq(Request) /\ <<>> \in Seq(Request)
    BY DEF Query, Request
  <2>4. up' \in [Conns -> Seq(Request)]
    BY <1>1, <2>1, <2>3 DEF Connect, TypeInv, TypeOK
  <2>5. clientId' \in [Conns -> Ids \cup {NoId}] /\ clients' \in SUBSET Conns
    BY <1>1, <2>1, <2>2 DEF Connect, TypeInv, TypeOK
  <2>6. conn' \in [Tabs -> Conns \cup {NoConn}] /\ opened' \in 0 .. MaxConns
        /\ nextId' \in 0 .. MaxConns
    BY <1>1, <2>1, <2>2 DEF Connect, TypeInv, TypeOK, Conns
  <2>7. TypeOK'
    BY <1>1, <2>4, <2>5, <2>6 DEF Connect, TypeInv, TypeOK
  <2>8. ASSUME NEW j \in clients' PROVE j <= opened' /\ clientId'[j] \in 0 .. nextId' - 1
    <3>1. CASE j = k
      BY <1>1, <2>1, <2>2, <3>1 DEF Connect, NewId, TypeInv, TypeOK
    <3>2. CASE j # k
      <4>1. j \in clients /\ j \in Conns /\ j <= opened /\ clientId[j] \in 0 .. nextId - 1
        BY <1>1, <3>2 DEF Connect, TypeInv, TypeOK, Numbered
      <4>2. clientId'[j] = clientId[j]
        BY <1>1, <3>2, <4>1 DEF Connect, TypeInv, TypeOK
      <4> QED BY <2>1, <2>2, <4>1, <4>2 DEF Conns
    <3> QED BY <3>1, <3>2
  <2> QED BY <2>1, <2>2, <2>7, <2>8 DEF TypeInv, Numbered
<1>2. CASE LoseConnection(t)
  <2>1. <<>> \in Seq(Reply)
    OBVIOUS
  <2> QED BY <1>2, <2>1 DEF LoseConnection, bridgeVars, countVars, TypeInv, TypeOK, Numbered
<1>3. CASE LeavePage(t)
  <2>1. [action |-> "release", page |-> page[t]] \in Request
    BY DEF TypeInv, TypeOK, Request
  <2>2. up' \in [Conns -> Seq(Request)]
    BY <1>3, <2>1, SendType DEF LeavePage, SendRelease, TypeInv
  <2> QED BY <1>3, <2>2 DEF LeavePage, bridgeVars, countVars, TypeInv, TypeOK, Numbered, Table, Unlocked
<1>4. ASSUME NEW p \in Pages, OpenPage(t, p) PROVE TypeInv'
  <2>1. up' \in [Conns -> Seq(Request)]
    BY <1>4, SendType DEF OpenPage, TypeInv, Query, Request
  <2> QED BY <1>4, <2>1 DEF OpenPage, bridgeVars, TypeInv, TypeOK, Numbered
<1>5. CASE TakeControl(t)
  <2>1. [action |-> "acquire", page |-> page[t]] \in Request
    BY DEF TypeInv, TypeOK, Request
  <2>2. up' \in [Conns -> Seq(Request)]
    BY <1>5, <2>1, SendType DEF TakeControl, TypeInv
  <2> QED BY <1>5, <2>2 DEF TakeControl, bridgeVars, tabVars, TypeInv, TypeOK, Numbered
<1>6. CASE ReleaseControl(t)
  <2>1. [action |-> "release", page |-> page[t]] \in Request
    BY DEF TypeInv, TypeOK, Request
  <2>2. up' \in [Conns -> Seq(Request)]
    BY <1>6, <2>1, SendType DEF ReleaseControl, TypeInv
  <2> QED BY <1>6, <2>2 DEF ReleaseControl, bridgeVars, tabVars, TypeInv, TypeOK, Numbered
<1>7. CASE ReceiveReply(t)
  <2>1. conn[t] \in Conns /\ down[conn[t]] \in Seq(Reply) /\ down[conn[t]] # <<>>
    BY <1>7 DEF ReceiveReply, TypeInv, TypeOK
  <2>2. Head(down[conn[t]]) \in Reply /\ Tail(down[conn[t]]) \in Seq(Reply)
    BY <2>1
  <2>3. down' \in [Conns -> Seq(Reply)]
    BY <1>7, <2>1, <2>2 DEF ReceiveReply, TypeInv, TypeOK
  <2>4. view' \in [Tabs -> Table] /\ myId' \in [Tabs -> Ids \cup {NoId}]
    BY <1>7, <2>2 DEF ReceiveReply, Learn, Reply, TypeInv, TypeOK
  <2> QED BY <1>7, <2>3, <2>4 DEF ReceiveReply, bridgeVars, countVars, TypeInv, TypeOK, Numbered
<1> QED BY <1>1, <1>2, <1>3, <1>4, <1>5, <1>6, <1>7 DEF Tab

LEMMA TypeHandler ==
  ASSUME TypeInv, NEW k \in Conns, Handler(k)
  PROVE  TypeInv'
<1>0. clientId[k] \in Ids \cup {NoId}
  BY DEF TypeInv, TypeOK
<1>1. CASE HandleQuery(k)
  <2>1. State(Holders, clientId[k]) \in Reply
    BY <1>0, TableType, ReplyTypes DEF TypeInv
  <2>2. down' \in [Conns -> Seq(Reply)]
    BY <1>1, <2>1, DeliverType DEF HandleQuery, TypeInv
  <2>3. up' \in [Conns -> Seq(Request)]
    BY <1>1, TakenType DEF HandleQuery, TypeInv
  <2> QED BY <1>1, <2>2, <2>3 DEF HandleQuery, bridgeVars, tabVars, countVars, TypeInv, TypeOK, Numbered
<1>2. CASE HandleAcquire(k)
  <2> DEFINE p == Head(up[k]).page
  <2>1. up' \in [Conns -> Seq(Request)]
    BY <1>2, TakenType DEF HandleAcquire, TypeInv
  <2>2. clientId[k] \in Ids
    <3>1. clientId[k] \in 0 .. nextId - 1 /\ nextId \in 0 .. MaxConns
      BY <1>2 DEF HandleAcquire, Handles, TypeInv, TypeOK, Numbered
    <3> QED BY <3>1, PageLockAssumption DEF Ids, PageLockAssumption
  <2>3. CASE MayAcquire(k, p)
    <3>1. Deliver({k}, Result(clientId[k])) /\ owing' \in SUBSET Conns
          /\ locks' = [locks EXCEPT ![p] = [holder |-> clientId[k], ws |-> k]]
      BY <1>2, <2>3 DEF HandleAcquire, TypeInv, TypeOK
    <3>2. Result(clientId[k]) \in Reply
      BY <2>2, TableType, ReplyTypes DEF TypeInv
    <3>3. down' \in [Conns -> Seq(Reply)]
      BY <3>1, <3>2, DeliverType DEF TypeInv
    <3>4. locks' \in [Pages -> Lock \cup {Free}]
      BY <2>2, <3>1 DEF TypeInv, TypeOK, Lock
    <3> QED BY <1>2, <2>1, <3>1, <3>3, <3>4
            DEF HandleAcquire, tabVars, countVars, TypeInv, TypeOK, Numbered
  <2>4. CASE ~MayAcquire(k, p)
    BY <1>2, <2>1, <2>4 DEF HandleAcquire, tabVars, countVars, TypeInv, TypeOK, Numbered
  <2> QED BY <2>3, <2>4
<1>3. CASE HandleRelease(k)
  <2> DEFINE p == Head(up[k]).page
  <2>1. up' \in [Conns -> Seq(Request)]
    BY <1>3, TakenType DEF HandleRelease, TypeInv
  <2>2. CASE MayRelease(k, p)
    <3>1. locks' \in [Pages -> Lock \cup {Free}] /\ casts' = Append(casts, Cast(k, HoldersNext))
      BY <1>3, <2>2 DEF HandleRelease, CastAfter, TypeInv, TypeOK
    <3>2. HoldersNext \in Table
      BY <3>1, TableTypeNext
    <3>3. casts' \in Seq([by : Conns, to : SUBSET Conns, locks : Table])
      BY <3>1, <3>2, CastType DEF TypeInv
    <3> QED BY <1>3, <2>1, <3>1, <3>3
            DEF HandleRelease, tabVars, countVars, TypeInv, TypeOK, Numbered
  <2>3. CASE ~MayRelease(k, p)
    BY <1>3, <2>1, <2>3 DEF HandleRelease, tabVars, countVars, TypeInv, TypeOK, Numbered
  <2> QED BY <2>2, <2>3
<1>4. CASE Broadcast(k)
  <2>1. casts' \in Seq([by : Conns, to : SUBSET Conns, locks : Table])
    BY <1>4, TableType, CastType DEF Broadcast, TypeInv
  <2> QED BY <1>4, <2>1 DEF Broadcast, tabVars, countVars, TypeInv, TypeOK, Numbered
<1>5. CASE SeeClose(k)
  <2>1. <<>> \in Seq(Request)
    OBVIOUS
  <2>2. up' \in [Conns -> Seq(Request)] /\ locks' \in [Pages -> Lock \cup {Free}]
    BY <1>5, <2>1 DEF SeeClose, WithoutLocksOf, TypeInv, TypeOK
  <2>3. clients' \in SUBSET clients /\ owing' \in SUBSET Conns
    BY <1>5 DEF SeeClose, TypeInv, TypeOK
  <2> QED BY <1>5, <2>2, <2>3 DEF SeeClose, tabVars, countVars, TypeInv, TypeOK, Numbered
<1> QED BY <1>1, <1>2, <1>3, <1>4, <1>5 DEF Handler

LEMMA TypeBridge ==
  ASSUME TypeInv, DeliverBroadcast \/ BridgeRestart \/ UNCHANGED vars
  PROVE  TypeInv'
<1> USE PageLockAssumption DEF PageLockAssumption
<1>1. CASE DeliverBroadcast
  <2> DEFINE Casts == [by : Conns, to : SUBSET Conns, locks : Table]
  <2>1. casts \in Seq(Casts) /\ casts # <<>>
    BY <1>1 DEF DeliverBroadcast, TypeInv, TypeOK
  <2> HIDE DEF Casts
  <2>2. Head(casts) \in Casts /\ Tail(casts) \in Seq(Casts)
    BY <2>1, HeadAndTail
  <2>3. State(Head(casts).locks, NoId) \in Reply
    <3>1. Head(casts).locks \in Table
      BY <2>2 DEF Casts
    <3> QED BY <3>1, ReplyTypes
  <2>4. down' \in [Conns -> Seq(Reply)]
    BY <1>1, <2>3, DeliverType DEF DeliverBroadcast, TypeInv
  <2> QED BY <1>1, <2>2, <2>4 DEF Casts, DeliverBroadcast, tabVars, countVars, TypeInv, TypeOK, Numbered
<1>2. CASE BridgeRestart
  <2>1. <<>> \in Seq(Request) /\ <<>> \in Seq([by : Conns, to : SUBSET Conns, locks : Table])
    OBVIOUS
  <2> QED BY <1>2, <2>1 DEF BridgeRestart, tabVars, countVars, TypeInv, TypeOK, Numbered
<1>3. CASE UNCHANGED vars
  BY <1>3 DEF vars, bridgeVars, tabVars, countVars, TypeInv, TypeOK, Numbered
<1> QED BY <1>1, <1>2, <1>3

LEMMA TypeInductive == Spec => []TypeInv
<1>1. TypeInv /\ [Next]_vars => TypeInv'
  BY TypeTab, TypeHandler, TypeBridge DEF Next
<1> QED BY TypeInit, <1>1, PTL DEF Spec

\* Every variable of the bridge, of the tabs and of the messages between them
\* keeps its type, for any tabs and pages.
THEOREM TypeCorrect == Spec => []TypeOK
<1>1. TypeInv => TypeOK
  BY DEF TypeInv
<1> QED BY TypeInductive, <1>1, PTL

----------------------------------------------------------------------------
(* Who holds a page *)

LEMMA HoldersStep ==
  ASSUME TypeInv, TypeInv', HoldersConnected, [Next]_vars
  PROVE  HoldersConnected'
<1>1. ASSUME NEW t \in Tabs, Connect(t) PROVE HoldersConnected'
  <2> DEFINE k == opened + 1
  <2>1. k \notin clients /\ k \in Conns /\ \A j \in clients : j \in Conns /\ j # k
    BY <1>1 DEF Connect, TypeInv, TypeOK, Numbered, Conns
  <2>2. \A j \in clients : clientId'[j] = clientId[j] /\ clientId[j] # clientId'[k]
    BY <1>1, <2>1 DEF Connect, NewId, TypeInv, TypeOK, Numbered
  <2>3. clients' = clients \cup {k} /\ locks' = locks
    BY <1>1 DEF Connect
  <2> QED BY <2>1, <2>2, <2>3 DEF HoldersConnected
<1>2. ASSUME NEW k \in Conns, HandleAcquire(k) PROVE HoldersConnected'
  <2>1. k \in clients /\ UNCHANGED <<clients, clientId>>
    BY <1>2 DEF HandleAcquire, Handles
  <2>2. \A p \in Pages : locks'[p] = locks[p] \/ locks'[p] = [holder |-> clientId[k], ws |-> k]
    BY <1>2 DEF HandleAcquire, TypeInv, TypeOK
  <2> QED BY <2>1, <2>2 DEF HoldersConnected
<1>3. ASSUME NEW k \in Conns, HandleRelease(k) PROVE HoldersConnected'
  <2>1. UNCHANGED <<clients, clientId>>
    BY <1>3 DEF HandleRelease
  <2>2. \A p \in Pages : locks'[p] = locks[p] \/ locks'[p] = Free
    BY <1>3 DEF HandleRelease, TypeInv, TypeOK
  <2> QED BY <2>1, <2>2 DEF HoldersConnected
<1>4. ASSUME NEW k \in Conns, SeeClose(k) PROVE HoldersConnected'
  BY <1>4 DEF SeeClose, WithoutLocksOf, HoldersConnected
<1>5. CASE BridgeRestart
  BY <1>5 DEF BridgeRestart, HoldersConnected
<1>6. CASE UNCHANGED <<clients, clientId, locks>>
  BY <1>6 DEF HoldersConnected
<1>7. ASSUME NEW t \in Tabs, Tab(t), ~Connect(t) PROVE UNCHANGED <<clients, clientId, locks>>
  BY <1>7 DEF Tab, LoseConnection, LeavePage, OpenPage, TakeControl, ReleaseControl,
              ReceiveReply, bridgeVars
<1>8. ASSUME NEW k \in Conns, HandleQuery(k) \/ Broadcast(k)
      PROVE  UNCHANGED <<clients, clientId, locks>>
  BY <1>8 DEF HandleQuery, Broadcast, bridgeVars
<1>9. DeliverBroadcast \/ UNCHANGED vars => UNCHANGED <<clients, clientId, locks>>
  BY DEF DeliverBroadcast, vars, bridgeVars
<1> QED BY <1>1, <1>2, <1>3, <1>4, <1>5, <1>6, <1>7, <1>8, <1>9 DEF Next, Handler

\* _page_locks names only clients that are connected, each under the id the
\* bridge gave it and no other client has: releasing on disconnect leaves
\* nothing behind, and a holder test on the id is one on the WebSocket.
THEOREM HoldersAreConnected == Spec => []HoldersConnected
<1>1. Init => HoldersConnected
  BY DEF Init, HoldersConnected
<1>2. TypeInv /\ TypeInv' /\ HoldersConnected /\ [Next]_vars => HoldersConnected'
  BY HoldersStep
<1> QED BY TypeInductive, <1>1, <1>2, PTL DEF Spec

LEMMA KeepsHolder ==
  ASSUME TypeInv, HoldersConnected, [Next]_vars,
         NEW p \in Pages, locks[p] # Free, locks'[p] # Free
  PROVE  locks'[p] = locks[p]
<1>1. ASSUME NEW k \in Conns, HandleAcquire(k) PROVE locks'[p] = locks[p]
  <2>1. k \in clients
    BY <1>1 DEF HandleAcquire, Handles
  <2>2. \/ locks'[p] = locks[p]
        \/ locks'[p] = [holder |-> clientId[k], ws |-> k] /\ MayAcquire(k, p)
    BY <1>1 DEF HandleAcquire, TypeInv, TypeOK
  <2>3. locks[p].ws \in clients /\ locks[p].holder = clientId[locks[p].ws]
    BY DEF HoldersConnected
  <2>4. MayAcquire(k, p) => locks[p].holder = clientId[k] /\ locks[p].ws = k
    BY <2>1, <2>3 DEF MayAcquire, HoldersConnected
  <2>5. locks[p] \in Lock
    BY DEF TypeInv, TypeOK
  <2> QED BY <2>2, <2>4, <2>5 DEF Lock
<1>2. ASSUME NEW k \in Conns, HandleRelease(k) \/ SeeClose(k) PROVE locks'[p] = locks[p]
  BY <1>2 DEF HandleRelease, SeeClose, WithoutLocksOf, TypeInv, TypeOK
<1>3. BridgeRestart => locks'[p] = locks[p]
  BY DEF BridgeRestart
<1>4. ASSUME NEW t \in Tabs, Tab(t) PROVE locks' = locks
  BY <1>4 DEF Tab, Connect, LoseConnection, LeavePage, OpenPage, TakeControl,
              ReleaseControl, ReceiveReply, bridgeVars
<1>5. ASSUME NEW k \in Conns, HandleQuery(k) \/ Broadcast(k) PROVE locks' = locks
  BY <1>5 DEF HandleQuery, Broadcast, bridgeVars
<1>6. DeliverBroadcast \/ UNCHANGED vars => locks' = locks
  BY DEF DeliverBroadcast, vars, bridgeVars
<1> QED BY <1>1, <1>2, <1>3, <1>4, <1>5, <1>6 DEF Next, Handler

\* However requests, broadcasts, disconnections and restarts interleave, a
\* page in control changes hands only through being free.
THEOREM ControlIsNeverStolen == Spec => NeverStolen
<1>1. TypeInv /\ HoldersConnected /\ [Next]_vars =>
        [\A p \in Pages : locks[p] # Free /\ locks'[p] # Free => locks'[p] = locks[p]]_vars
  BY KeepsHolder
<1> QED BY TypeInductive, HoldersAreConnected, <1>1, PTL DEF Spec, NeverStolen

----------------------------------------------------------------------------
(* One page per tab *)

IsAcquire(r, p) == r.action = "acquire" /\ r.page = p
IsRelease(r, p) == r.action = "release" /\ r.page = p
Held(k) == {p \in Pages : locks[p].ws = k}

\* By the time the bridge comes to position n of a tab's requests s, every page
\* but p that the tab holds, or has asked for before, has been released.
Cleared(s, held, n, p) ==
  \A q \in Pages \ {p} :
    /\ q \in held => \E m \in 1 .. n - 1 : IsRelease(s[m], q)
    /\ \A j \in 1 .. n - 1 :
         IsAcquire(s[j], q) => \E m \in j + 1 .. n - 1 : IsRelease(s[m], q)

\* A WebSocket belongs to one tab.
OwnWebSocket ==
  /\ \A t \in Tabs : conn[t] <= opened
  /\ \A s, t \in Tabs : conn[s] = conn[t] /\ conn[s] # NoConn => s = t

\* OneLockPerTab is not inductive: it says nothing of the requests under way.
\* At each request for a page the others are cleared, and at the end of what a
\* tab has sent all but the page it shows.
AcquiresCleared ==
  \A k \in clients : \A i \in 1 .. Len(up[k]) :
    up[k][i].action = "acquire" => Cleared(up[k], Held(k), i, up[k][i].page)
TabsCleared ==
  \A t \in Tabs : \A k \in clients :
    conn[t] = k => Cleared(up[k], Held(k), Len(up[k]) + 1, page[t])
MovesInv == OwnWebSocket /\ AcquiresCleared /\ TabsCleared /\ OneLockPerTab

LEMMA AppendEntries ==
  ASSUME NEW S, NEW s \in Seq(S), NEW r \in S
  PROVE  /\ Append(s, r) \in Seq(S) /\ Len(Append(s, r)) = Len(s) + 1 /\ Len(s) \in Nat
         /\ \A i \in 1 .. Len(s) : Append(s, r)[i] = s[i]
         /\ Append(s, r)[Len(s) + 1] = r
OBVIOUS

LEMMA TailEntries ==
  ASSUME NEW S, NEW s \in Seq(S), s # <<>>
  PROVE  /\ Tail(s) \in Seq(S) /\ Len(s) = Len(Tail(s)) + 1 /\ Len(Tail(s)) \in Nat
         /\ \A i \in 1 .. Len(Tail(s)) : Tail(s)[i] = s[i + 1]
         /\ Head(s) = s[1]
OBVIOUS

LEMMA ClearedFewer ==
  ASSUME NEW s, NEW held, NEW fewer \in SUBSET held, NEW n, NEW p, Cleared(s, held, n, p)
  PROVE  Cleared(s, fewer, n, p)
BY DEF Cleared

\* What is sent later does not disturb what was cleared before.
LEMMA ClearedBefore ==
  ASSUME NEW s \in Seq(Request), NEW r \in Request, NEW held, NEW p,
         NEW n \in 1 .. Len(s) + 1, Cleared(s, held, n, p)
  PROVE  Cleared(Append(s, r), held, n, p)
<1>1. \A i \in 1 .. n - 1 : Append(s, r)[i] = s[i]
  <2>1. \A i \in 1 .. n - 1 : i \in 1 .. Len(s)
    BY AppendEntries
  <2> QED BY <2>1, AppendEntries
<1> QED BY <1>1 DEF Cleared

\* A further request keeps a tab cleared for a page if it asks for no other
\* and if the page cleared for before is this one or is now released.
LEMMA ClearedAfter ==
  ASSUME NEW s \in Seq(Request), NEW r \in Request, NEW held, NEW p, NEW next,
         Cleared(s, held, Len(s) + 1, p),
         p = next \/ p \notin Pages \/ IsRelease(r, p),
         r.action = "acquire" => r.page = next
  PROVE  Cleared(Append(s, r), held, Len(s) + 2, next)
<1> DEFINE a == Append(s, r)
           n == Len(s)
<1>1. /\ n \in Nat /\ a[n + 1] = r /\ \A i \in 1 .. n : a[i] = s[i]
  BY AppendEntries
<1> HIDE DEF a, n
<1>2. SUFFICES ASSUME NEW q \in Pages \ {next}
               PROVE  /\ q \in held => \E m \in 1 .. n + 1 : IsRelease(a[m], q)
                      /\ \A j \in 1 .. n + 1 : IsAcquire(a[j], q) =>
                           \E m \in j + 1 .. n + 1 : IsRelease(a[m], q)
  <2>1. n + 2 - 1 = n + 1
    BY <1>1
  <2> QED BY <2>1 DEF Cleared, a, n
<1>3. ~IsAcquire(a[n + 1], q)
  BY <1>1 DEF IsAcquire
<1>4. CASE q = p
  <2>1. IsRelease(a[n + 1], q)
    BY <1>1, <1>4
  <2>2. \A j \in 1 .. n : n + 1 \in j + 1 .. n + 1
    BY <1>1
  <2>3. \A j \in 1 .. n + 1 : j \in 1 .. n \/ j = n + 1
    BY <1>1
  <2>4. n + 1 \in 1 .. n + 1
    BY <1>1
  <2> QED BY <1>3, <2>1, <2>2, <2>3, <2>4
<1>5. CASE q # p
  <2>1. /\ q \in held => \E m \in 1 .. n : IsRelease(s[m], q)
        /\ \A j \in 1 .. n : IsAcquire(s[j], q) => \E m \in j + 1 .. n : IsRelease(s[m], q)
    <3>1. n + 1 - 1 = n
      BY <1>1
    <3> QED BY <1>5, <3>1 DEF Cleared, n
  <2>2. \A j \in 0 .. n : \A m \in j + 1 .. n : m \in 1 .. n /\ m \in j + 1 .. n + 1
    BY <1>1
  <2>3. \A j \in 1 .. n + 1 : j \in 1 .. n \/ j = n + 1
    BY <1>1
  <2>4. \A m \in 1 .. n : m \in 1 .. n + 1
    BY <1>1
  <2>5. \A j \in 1 .. n : j \in 0 .. n
    BY <1>1
  <2>6. q \in held => \E m \in 1 .. n + 1 : IsRelease(a[m], q)
    BY <1>1, <2>1, <2>4
  <2>7. ASSUME NEW j \in 1 .. n, IsAcquire(a[j], q)
        PROVE  \E m \in j + 1 .. n + 1 : IsRelease(a[m], q)
    <3>1. PICK m \in j + 1 .. n : IsRelease(s[m], q)
      BY <1>1, <2>1, <2>7
    <3> QED BY <1>1, <2>2, <2>5, <3>1
  <2> QED BY <1>3, <2>3, <2>6, <2>7
<1> QED BY <1>4, <1>5

\* The bridge takes a tab's next request: pages it grants were asked for, and
\* those it releases are no longer held.
LEMMA ClearedTaken ==
  ASSUME NEW s \in Seq(Request), s # <<>>, NEW held, NEW now, NEW p,
         NEW n \in 2 .. Len(s) + 1, Cleared(s, held, n, p),
         \A q \in now : \/ q \in held /\ ~IsRelease(Head(s), q)
                        \/ IsAcquire(Head(s), q)
  PROVE  Cleared(Tail(s), now, n - 1, p)
<1> DEFINE a == Tail(s)
<1>1. /\ Len(s) \in Nat /\ n \in Nat /\ Head(s) = s[1]
      /\ \A i \in 1 .. Len(s) - 1 : a[i] = s[i + 1]
  BY TailEntries
<1> HIDE DEF a
<1>2. \A m \in 2 .. n - 1 : m - 1 \in 1 .. n - 2 /\ a[m - 1] = s[m]
  <2>1. \A m \in 2 .. n - 1 : m - 1 \in 1 .. Len(s) - 1 /\ m - 1 \in 1 .. n - 2 /\ (m - 1) + 1 = m
    BY <1>1
  <2> QED BY <1>1, <2>1
<1>3. \A j \in 1 .. n - 2 : a[j] = s[j + 1] /\ j + 1 \in 1 .. n - 1 /\ j \in Nat
  <2>1. \A j \in 1 .. n - 2 : j \in 1 .. Len(s) - 1 /\ j + 1 \in 1 .. n - 1 /\ j \in Nat
    BY <1>1
  <2> QED BY <1>1, <2>1
<1>4. SUFFICES ASSUME NEW q \in Pages \ {p}
               PROVE  /\ q \in now => \E m \in 1 .. n - 2 : IsRelease(a[m], q)
                      /\ \A j \in 1 .. n - 2 : IsAcquire(a[j], q) =>
                           \E m \in j + 1 .. n - 2 : IsRelease(a[m], q)
  <2>1. (n - 1) - 1 = n - 2
    BY <1>1
  <2> QED BY <2>1 DEF Cleared, a
<1>5. /\ q \in held => \E m \in 1 .. n - 1 : IsRelease(s[m], q)
      /\ \A j \in 1 .. n - 1 : IsAcquire(s[j], q) =>
           \E m \in j + 1 .. n - 1 : IsRelease(s[m], q)
  BY DEF Cleared
<1>6. ASSUME q \in now PROVE \E m \in 1 .. n - 2 : IsRelease(a[m], q)
  <2>1. PICK m \in 1 .. n - 1 : IsRelease(s[m], q) /\ m # 1
    <3>1. CASE q \in held /\ ~IsRelease(s[1], q)
      BY <1>5, <3>1
    <3>2. CASE IsAcquire(s[1], q)
      <4>1. 1 \in 1 .. n - 1
        BY <1>1
      <4>2. PICK m \in 2 .. n - 1 : IsRelease(s[m], q)
        BY <1>5, <3>2, <4>1
      <4>3. m \in 1 .. n - 1 /\ m # 1
        BY <1>1
      <4> QED BY <4>2, <4>3
    <3> QED BY <1>1, <1>6, <3>1, <3>2
  <2>2. m \in 2 .. n - 1
    BY <1>1, <2>1
  <2> QED BY <1>2, <2>1, <2>2
<1>7. ASSUME NEW j \in 1 .. n - 2, IsAcquire(a[j], q)
      PROVE  \E m \in j + 1 .. n - 2 : IsRelease(a[m], q)
  <2>1. PICK m \in (j + 1) + 1 .. n - 1 : IsRelease(s[m], q)
    BY <1>3, <1>5, <1>7
  <2>2. m \in 2 .. n - 1 /\ m - 1 \in j + 1 .. n - 2
    BY <1>1, <1>3
  <2> QED BY <1>2, <2>1, <2>2
<1> QED BY <1>6, <1>7

\* What a tab's own step does to its requests.
LEMMA SendEffect ==
  ASSUME TypeOK, NEW t \in Tabs, NEW r \in Request, Send(t, r), conn[t] \in clients
  PROVE  up' = [up EXCEPT ![conn[t]] = Append(up[conn[t]], r)]
BY DEF Send

LEMMA MovesUnchanged ==
  ASSUME MovesInv, UNCHANGED <<clients, locks, up, conn, page>>, OwnWebSocket'
  PROVE  MovesInv'
BY DEF MovesInv, AcquiresCleared, TabsCleared, OneLockPerTab, Held

LEMMA MovesInit == Init => MovesInv
<1> SUFFICES ASSUME Init PROVE MovesInv
  OBVIOUS
<1>1. clients = {} /\ \A t \in Tabs : conn[t] = 0 /\ opened = 0
  BY DEF Init, NoConn
<1>2. OneLockPerTab
  BY DEF Init, OneLockPerTab
<1> QED BY <1>1, <1>2 DEF MovesInv, OwnWebSocket, AcquiresCleared, TabsCleared, NoConn

LEMMA OwnWebSocketStep ==
  ASSUME TypeInv, OwnWebSocket, [Next]_vars
  PROVE  OwnWebSocket'
<1>1. opened \in Nat /\ conn \in [Tabs -> Conns \cup {NoConn}] /\ Conns \subseteq Nat
      /\ \A t \in Tabs : conn[t] \in Nat
  BY DEF TypeInv, TypeOK, Conns, NoConn
<1>2. ASSUME NEW t \in Tabs, Connect(t) PROVE OwnWebSocket'
  <2>1. conn' = [conn EXCEPT ![t] = opened + 1] /\ opened' = opened + 1 /\ conn[t] = NoConn
    BY <1>2 DEF Connect
  <2>2. \A s \in Tabs : s # t => conn'[s] = conn[s] /\ conn'[s] # conn'[t]
    BY <1>1, <2>1 DEF OwnWebSocket
  <2> QED BY <1>1, <2>1, <2>2 DEF OwnWebSocket
<1>3. ASSUME NEW t \in Tabs, LoseConnection(t) PROVE OwnWebSocket'
  BY <1>1, <1>3 DEF LoseConnection, countVars, OwnWebSocket, NoConn
<1>4. UNCHANGED <<conn, opened>> => OwnWebSocket'
  BY DEF OwnWebSocket
<1>5. ASSUME NEW t \in Tabs, Tab(t), ~Connect(t), ~LoseConnection(t)
      PROVE  UNCHANGED <<conn, opened>>
  BY <1>5 DEF Tab, LeavePage, OpenPage, TakeControl, ReleaseControl, ReceiveReply, tabVars,
              countVars
<1>6. ASSUME NEW k \in Conns, Handler(k) PROVE UNCHANGED <<conn, opened>>
  BY <1>6 DEF Handler, HandleQuery, HandleAcquire, HandleRelease, Broadcast, SeeClose,
              tabVars, countVars
<1>7. DeliverBroadcast \/ BridgeRestart \/ UNCHANGED vars => UNCHANGED <<conn, opened>>
  BY DEF DeliverBroadcast, BridgeRestart, vars, tabVars, countVars
<1> QED BY <1>2, <1>3, <1>4, <1>5, <1>6, <1>7 DEF Next

\* A tab sends r and shows page next.
LEMMA MovesSend ==
  ASSUME TypeInv, MovesInv, OwnWebSocket', NEW t \in Tabs, NEW r \in Request,
         NEW next \in Pages \cup {NoPage},
         Send(t, r), UNCHANGED <<clients, locks, conn>>, page' = [page EXCEPT ![t] = next],
         page[t] \in {next, NoPage} \/ IsRelease(r, page[t]),
         r.action = "acquire" => r.page = next /\ page[t] = next
  PROVE  MovesInv'
<1>0. page \in [Tabs -> Pages \cup {NoPage}] /\ NoPage \notin Pages
  BY PageLockAssumption DEF PageLockAssumption, TypeInv, TypeOK
<1>1. OneLockPerTab'
  BY DEF MovesInv, OneLockPerTab
<1>2. \A k \in Conns : Held(k)' = Held(k)
  BY DEF Held
<1>3. CASE conn[t] \notin clients
  <2>1. up' = up
    BY <1>3 DEF Send
  <2>2. AcquiresCleared'
    BY <2>1 DEF MovesInv, AcquiresCleared, Held
  <2>3. TabsCleared'
    BY <1>0, <1>3, <2>1 DEF MovesInv, TabsCleared, Held
  <2> QED BY <1>1, <2>2, <2>3 DEF MovesInv
<1>4. CASE conn[t] \in clients
  <2> DEFINE k == conn[t]
             s == up[k]
             a == Append(s, r)
  <2>1. /\ k \in Conns /\ s \in Seq(Request) /\ k # NoConn
        /\ up' = [up EXCEPT ![k] = a] /\ up'[k] = a /\ clients \subseteq Conns
        /\ \A j \in Conns : j # k => up'[j] = up[j]
    <3>1. up \in [Conns -> Seq(Request)] /\ k \in Conns /\ clients \subseteq Conns
      BY <1>4 DEF TypeInv, TypeOK
    <3>2. up' = [up EXCEPT ![k] = a]
      BY <1>4, SendEffect DEF TypeInv
    <3> QED BY <3>1, <3>2 DEF Conns, NoConn
  <2>2. /\ Len(a) = Len(s) + 1 /\ Len(s) \in Nat /\ a[Len(s) + 1] = r
        /\ \A i \in 1 .. Len(s) : a[i] = s[i]
    BY <2>1, AppendEntries
  <2>3. Cleared(s, Held(k), Len(s) + 1, page[t])
    BY <1>4 DEF MovesInv, TabsCleared
  <2>4. ASSUME NEW i \in 1 .. Len(a), a[i].action = "acquire"
        PROVE  Cleared(a, Held(k), i, a[i].page)
    <3>1. CASE i = Len(s) + 1
      <4>1. a[i] = r /\ r.page = page[t]
        BY <2>2, <2>4, <3>1
      <4>2. Len(s) + 1 \in 1 .. Len(s) + 1
        BY <2>2
      <4> QED BY <2>1, <2>3, <3>1, <4>1, <4>2, ClearedBefore
    <3>2. CASE i # Len(s) + 1
      <4>1. i \in 1 .. Len(s) /\ i \in 1 .. Len(s) + 1
        BY <2>2, <3>2
      <4>2. Cleared(s, Held(k), i, s[i].page)
        BY <1>4, <2>2, <2>4, <4>1 DEF MovesInv, AcquiresCleared
      <4> QED BY <2>1, <2>2, <4>1, <4>2, ClearedBefore
    <3> QED BY <3>1, <3>2
  <2>5. Cleared(a, Held(k), Len(a) + 1, next)
    <3>1. Len(a) + 1 = Len(s) + 2
      BY <2>2
    <3>2. page[t] = next \/ page[t] \notin Pages \/ IsRelease(r, page[t])
      BY <1>0
    <3> QED BY <2>1, <2>3, <3>1, <3>2, ClearedAfter
  <2> HIDE DEF a
  <2>6. AcquiresCleared'
    <3> SUFFICES ASSUME NEW j \in clients, NEW i \in 1 .. Len(up'[j]),
                        up'[j][i].action = "acquire"
                 PROVE  Cleared(up'[j], Held(j)', i, up'[j][i].page)
      BY DEF AcquiresCleared
    <3>1. CASE j = k
      BY <1>2, <2>1, <2>4, <3>1
    <3>2. CASE j # k
      BY <1>2, <2>1, <3>2 DEF MovesInv, AcquiresCleared
    <3> QED BY <3>1, <3>2
  <2>7. TabsCleared'
    <3> SUFFICES ASSUME NEW u \in Tabs, NEW j \in clients, conn[u] = j
                 PROVE  Cleared(up'[j], Held(j)', Len(up'[j]) + 1, page'[u])
      BY DEF TabsCleared
    <3>1. CASE u = t
      BY <1>0, <1>2, <2>1, <2>5, <3>1
    <3>2. CASE u # t
      <4>1. j # k /\ j \in Conns
        BY <2>1, <3>2 DEF MovesInv, OwnWebSocket
      <4> QED BY <1>0, <1>2, <2>1, <3>2, <4>1 DEF MovesInv, TabsCleared
    <3> QED BY <3>1, <3>2
  <2> QED BY <1>1, <2>6, <2>7 DEF MovesInv
<1> QED BY <1>3, <1>4

\* The bridge takes the next request of client k.  No page but one it asks for
\* comes to be held by it, and none it releases stays so.
LEMMA MovesTaken ==
  ASSUME TypeInv, MovesInv, OwnWebSocket', NEW k \in clients, up[k] # <<>>,
         up' = [up EXCEPT ![k] = Tail(@)], UNCHANGED <<clients, conn, page>>,
         \A q \in Held(k)' : \/ q \in Held(k) /\ ~IsRelease(Head(up[k]), q)
                             \/ IsAcquire(Head(up[k]), q),
         \A j \in clients \ {k} : Held(j)' \subseteq Held(j),
         OneLockPerTab'
  PROVE  MovesInv'
<1> DEFINE s == up[k]
           a == Tail(s)
<1>1. /\ k \in Conns /\ s \in Seq(Request) /\ s # <<>> /\ clients \subseteq Conns
      /\ up'[k] = a /\ \A j \in Conns : j # k => up'[j] = up[j]
  <2>1. up \in [Conns -> Seq(Request)] /\ k \in Conns /\ clients \subseteq Conns
    BY DEF TypeInv, TypeOK
  <2> QED BY <2>1
<1>2. Len(s) = Len(a) + 1 /\ Len(a) \in Nat /\ \A i \in 1 .. Len(a) : a[i] = s[i + 1]
  BY <1>1, TailEntries
<1>3. ASSUME NEW n \in 2 .. Len(s) + 1, NEW p, Cleared(s, Held(k), n, p)
      PROVE  Cleared(a, Held(k)', n - 1, p)
  <2> DEFINE now == Held(k)'
             held == Held(k)
  <2>1. \A q \in now : (q \in held /\ ~IsRelease(Head(s), q)) \/ IsAcquire(Head(s), q)
    OBVIOUS
  <2> HIDE DEF now, held, s
  <2>2. Cleared(s, held, n, p)
    BY <1>3 DEF held
  <2>3. Cleared(Tail(s), now, n - 1, p)
    BY <1>1, <2>1, <2>2, ClearedTaken
  <2> QED BY <2>3 DEF now
<1> HIDE DEF a, s
<1>4. AcquiresCleared'
  <2> SUFFICES ASSUME NEW j \in clients, NEW i \in 1 .. Len(up'[j]),
                      up'[j][i].action = "acquire"
               PROVE  Cleared(up'[j], Held(j)', i, up'[j][i].page)
    BY DEF AcquiresCleared
  <2>1. CASE j = k
    <3>1. i \in 1 .. Len(a) /\ a[i] = s[i + 1] /\ i + 1 \in 1 .. Len(s)
          /\ i + 1 \in 2 .. Len(s) + 1 /\ (i + 1) - 1 = i
      BY <1>1, <1>2, <2>1
    <3>2. Cleared(s, Held(k), i + 1, s[i + 1].page)
      BY <1>1, <2>1, <3>1 DEF MovesInv, AcquiresCleared, s
    <3>3. Cleared(a, Held(k)', (i + 1) - 1, a[i].page)
      BY <1>3, <3>1, <3>2
    <3> QED BY <1>1, <2>1, <3>1, <3>3
  <2>2. CASE j # k
    <3>1. up'[j] = up[j]
      BY <1>1, <2>2
    <3>2. Cleared(up[j], Held(j), i, up[j][i].page)
      BY <3>1 DEF MovesInv, AcquiresCleared
    <3> QED BY <2>2, <3>1, <3>2, ClearedFewer
  <2> QED BY <2>1, <2>2
<1>5. TabsCleared'
  <2> SUFFICES ASSUME NEW u \in Tabs, NEW j \in clients, conn[u] = j
               PROVE  Cleared(up'[j], Held(j)', Len(up'[j]) + 1, page[u])
    BY DEF TabsCleared
  <2>0. Cleared(up[j], Held(j), Len(up[j]) + 1, page[u])
    BY DEF MovesInv, TabsCleared
  <2>1. CASE j = k
    <3>1. Len(s) + 1 \in 2 .. Len(s) + 1 /\ (Len(s) + 1) - 1 = Len(a) + 1
      BY <1>2
    <3>2. Cleared(a, Held(k)', (Len(s) + 1) - 1, page[u])
      BY <1>3, <2>0, <2>1, <3>1 DEF s
    <3> QED BY <1>1, <2>1, <3>1, <3>2
  <2>2. CASE j # k
    <3>1. up'[j] = up[j]
      BY <1>1, <2>2
    <3> QED BY <2>0, <2>2, <3>1, ClearedFewer
  <2> QED BY <2>1, <2>2
<1> QED BY <1>4, <1>5 DEF MovesInv

LEMMA MovesTab ==
  ASSUME TypeInv, HoldersConnected, MovesInv, OwnWebSocket', NEW t \in Tabs, Tab(t)
  PROVE  MovesInv'
<1>0. /\ conn \in [Tabs -> Conns \cup {NoConn}] /\ clients \subseteq Conns /\ NoConn \notin Conns
      /\ page \in [Tabs -> Pages \cup {NoPage}] /\ up \in [Conns -> Seq(Request)]
  BY DEF TypeInv, TypeOK, Conns, NoConn
<1>1. CASE Connect(t)
  <2>1. PICK k \in Conns : k = opened + 1 /\ \A j \in clients : j \in Conns /\ j # k
    <3>1. opened + 1 \in Conns
      BY <1>1, PageLockAssumption DEF PageLockAssumption, Connect, TypeInv, TypeOK, Conns
    <3>2. \A j \in clients : j \in Conns /\ j # opened + 1
      BY DEF TypeInv, TypeOK, Numbered, Conns
    <3> QED BY <3>1, <3>2
  <2> DEFINE requests == IF QueriesOnConnect(t) THEN <<Query>> ELSE <<>>
  <2>2. /\ clients' = clients \cup {k} /\ conn' = [conn EXCEPT ![t] = k]
        /\ up' = [up EXCEPT ![k] = requests] /\ UNCHANGED <<locks, page>>
    BY <1>1, <2>1 DEF Connect
  <2>3. Held(k) = {} /\ \A j \in Conns : Held(j)' = Held(j)
    <3>1. \A p \in Pages : locks[p].ws # k
      BY <2>1 DEF HoldersConnected, TypeInv, TypeOK, Free, NoConn, Conns
    <3> QED BY <2>2, <3>1 DEF Held
  <2>4. Len(requests) \in Nat /\ \A i \in 1 .. Len(requests) : requests[i].action = "query"
    BY DEF Query
  <2> HIDE DEF requests
  <2>5. \A n \in Nat : \A p : n <= Len(requests) + 1 => Cleared(requests, {}, n, p)
    <3>1. \A n \in Nat : n <= Len(requests) + 1 =>
            \A j \in 1 .. n - 1 : requests[j].action = "query"
      BY <2>4
    <3> QED BY <3>1 DEF Cleared, IsAcquire
  <2>6. AcquiresCleared'
    <3> SUFFICES ASSUME NEW j \in clients', NEW i \in 1 .. Len(up'[j]),
                        up'[j][i].action = "acquire"
                 PROVE  Cleared(up'[j], Held(j)', i, up'[j][i].page)
      BY DEF AcquiresCleared
    <3>1. j # k
      BY <1>0, <2>1, <2>2, <2>4
    <3>2. j \in clients /\ up'[j] = up[j]
      BY <1>0, <2>2, <3>1
    <3> QED BY <1>0, <2>3, <3>2 DEF MovesInv, AcquiresCleared
  <2>7. TabsCleared'
    <3> SUFFICES ASSUME NEW u \in Tabs, NEW j \in clients', conn'[u] = j
                 PROVE  Cleared(up'[j], Held(j)', Len(up'[j]) + 1, page'[u])
      BY DEF TabsCleared
    <3>1. CASE u = t
      <4>1. j = k /\ up'[k] = requests /\ Held(k)' = {}
        BY <1>0, <2>1, <2>2, <2>3, <3>1
      <4>2. Len(requests) + 1 \in Nat /\ Len(requests) + 1 <= Len(requests) + 1
        BY <2>4
      <4> QED BY <2>5, <4>1, <4>2
    <3>2. CASE u # t
      <4>1. conn[u] = j /\ j # k
        BY <1>0, <2>1, <2>2, <3>2 DEF OwnWebSocket
      <4>2. j \in clients /\ up'[j] = up[j]
        BY <1>0, <2>2, <4>1
      <4> QED BY <1>0, <2>2, <2>3, <4>1, <4>2 DEF MovesInv, TabsCleared
    <3> QED BY <3>1, <3>2
  <2>8. OneLockPerTab'
    BY <2>2 DEF MovesInv, OneLockPerTab
  <2> QED BY <2>6, <2>7, <2>8 DEF MovesInv
<1>2. CASE LoseConnection(t)
  <2>1. /\ UNCHANGED <<clients, locks, up, page>> /\ conn' = [conn EXCEPT ![t] = NoConn]
    BY <1>2 DEF LoseConnection, bridgeVars
  <2>2. TabsCleared'
    <3>1. \A u \in Tabs : \A j \in clients : conn'[u] = j => conn[u] = j
      BY <1>0, <2>1
    <3> QED BY <2>1, <3>1 DEF MovesInv, TabsCleared, Held
  <2> QED BY <2>1, <2>2 DEF MovesInv, AcquiresCleared, OneLockPerTab, Held
<1>3. CASE LeavePage(t)
  <2>1. [action |-> "release", page |-> page[t]] \in Request
    BY <1>0 DEF Request
  <2> QED BY <1>3, <2>1, MovesSend DEF LeavePage, SendRelease, IsRelease, bridgeVars
<1>4. ASSUME NEW p \in Pages, OpenPage(t, p) PROVE MovesInv'
  <2>1. Query \in Request /\ Query.action # "acquire"
    BY DEF Query, Request
  <2> QED BY <1>4, <2>1, MovesSend DEF OpenPage, bridgeVars
<1>5. CASE TakeControl(t)
  <2>1. [action |-> "acquire", page |-> page[t]] \in Request /\ page' = [page EXCEPT ![t] = page[t]]
    BY <1>0, <1>5 DEF Request, TakeControl, tabVars
  <2> QED BY <1>0, <1>5, <2>1, MovesSend DEF TakeControl, bridgeVars, tabVars
<1>6. CASE ReleaseControl(t)
  <2>1. [action |-> "release", page |-> page[t]] \in Request /\ page' = [page EXCEPT ![t] = page[t]]
    BY <1>0, <1>6 DEF Request, ReleaseControl, tabVars
  <2> QED BY <1>0, <1>6, <2>1, MovesSend DEF ReleaseControl, bridgeVars, tabVars
<1>7. CASE ReceiveReply(t)
  BY <1>7, MovesUnchanged DEF ReceiveReply, bridgeVars
<1> QED BY <1>1, <1>2, <1>3, <1>4, <1>5, <1>6, <1>7 DEF Tab

LEMMA MovesHandler ==
  ASSUME TypeInv, HoldersConnected, MovesInv, OwnWebSocket', NEW k \in Conns, Handler(k)
  PROVE  MovesInv'
<1>0. /\ locks \in [Pages -> Lock \cup {Free}] /\ clients \subseteq Conns
      /\ conn \in [Tabs -> Conns \cup {NoConn}] /\ NoConn \notin Conns
      /\ up \in [Conns -> Seq(Request)]
  BY DEF TypeInv, TypeOK, Conns, NoConn
<1>1. ASSUME NEW action, Handles(k, action)
      PROVE  k \in clients /\ up[k] # <<>> /\ Head(up[k]).action = action
             /\ up' = [up EXCEPT ![k] = Tail(@)]
  BY <1>1 DEF Handles
<1>2. CASE HandleQuery(k)
  <2>1. UNCHANGED <<clients, conn, page, locks>> /\ Handles(k, "query")
    BY <1>2 DEF HandleQuery, bridgeVars, tabVars
  <2>2. \A j \in Conns : Held(j)' = Held(j)
    BY <2>1 DEF Held
  <2>3. \A q : ~IsRelease(Head(up[k]), q)
    BY <1>1, <2>1 DEF IsRelease
  <2>4. OneLockPerTab'
    BY <2>1 DEF MovesInv, OneLockPerTab
  <2> QED BY <1>0, <1>1, <2>1, <2>2, <2>3, <2>4, MovesTaken
<1>3. CASE HandleAcquire(k)
  <2> DEFINE p == Head(up[k]).page
  <2>1. UNCHANGED <<clients, conn, page>> /\ Handles(k, "acquire")
    BY <1>3 DEF HandleAcquire, tabVars
  <2>2. \A q \in Pages : locks'[q] = locks[q] \/ (q = p /\ locks'[q].ws = k)
    BY <1>0, <1>3 DEF HandleAcquire
  <2>3. \A j \in Conns \ {k} : Held(j)' \subseteq Held(j)
    BY <2>2 DEF Held
  <2>4. \A q \in Held(k)' : q \in Held(k) \/ q = p
    BY <2>2 DEF Held
  <2>5. \A q : ~IsRelease(Head(up[k]), q)
    BY <1>1, <2>1 DEF IsRelease
  <2>6. IsAcquire(Head(up[k]), p)
    BY <1>1, <2>1 DEF IsAcquire
  \* What k holds by now is the page itself.
  <2>7. Held(k) \subseteq {p}
    <3>1. 1 \in 1 .. Len(up[k]) /\ up[k][1] = Head(up[k])
      <4>1. up[k] \in Seq(Request) /\ up[k] # <<>>
        BY <1>0, <1>1, <2>1
      <4> QED BY <4>1
    <3>2. Cleared(up[k], Held(k), 1, p)
      BY <1>1, <2>1, <3>1 DEF MovesInv, AcquiresCleared
    <3>3. \A q \in Pages \ {p} : q \notin Held(k)
      BY <3>2 DEF Cleared
    <3> QED BY <3>3 DEF Held
  <2>8. OneLockPerTab'
    <3> SUFFICES ASSUME NEW q \in Pages, NEW r \in Pages, locks'[q] # Free,
                        locks'[q].ws = locks'[r].ws
                 PROVE  q = r
      BY DEF OneLockPerTab
    <3>1. CASE locks'[q].ws = k
      <4>1. q \in Held(k)' /\ r \in Held(k)'
        BY <3>1 DEF Held
      <4> QED BY <2>4, <2>7, <4>1
    <3>2. CASE locks'[q].ws # k
      BY <2>2, <3>2 DEF MovesInv, OneLockPerTab
    <3> QED BY <3>1, <3>2
  <2> HIDE DEF p
  <2> QED BY <1>0, <1>1, <2>1, <2>3, <2>4, <2>5, <2>6, <2>8, MovesTaken
<1>4. CASE HandleRelease(k)
  <2> DEFINE p == Head(up[k]).page
  <2>1. UNCHANGED <<clients, conn, page>> /\ Handles(k, "release") /\ k # NoConn
    BY <1>0, <1>4 DEF HandleRelease, tabVars
  <2>2. \A q \in Pages : locks'[q] = locks[q] \/ (q = p /\ locks'[q] = Free)
    BY <1>0, <1>4 DEF HandleRelease
  <2>3. \A j \in Conns : Held(j)' \subseteq Held(j)
    BY <1>0, <2>2 DEF Held, Free
  <2>4. p \notin Held(k)'
    <3> SUFFICES ASSUME p \in Pages, locks'[p].ws = k PROVE FALSE
      BY DEF Held
    <3>1. locks'[p] = locks[p] /\ locks[p].ws = k
      BY <2>1, <2>2 DEF Free
    <3>2. locks[p] # Free /\ locks[p].holder = clientId[k]
      BY <2>1, <3>1 DEF Free, HoldersConnected
    <3>3. locks'[p] = Free
      BY <1>0, <1>4, <3>2 DEF HandleRelease, MayRelease
    <3> QED BY <2>1, <3>1, <3>3 DEF Free
  <2>5. \A q \in Held(k)' : ~IsRelease(Head(up[k]), q)
    BY <2>4 DEF IsRelease
  <2>6. OneLockPerTab'
    BY <1>0, <2>2 DEF MovesInv, OneLockPerTab, Lock, Free, Conns, NoConn
  <2> QED BY <1>0, <1>1, <2>1, <2>3, <2>5, <2>6, MovesTaken
<1>5. CASE Broadcast(k)
  BY <1>5, MovesUnchanged DEF Broadcast, tabVars
<1>6. CASE SeeClose(k)
  <2>1. /\ clients' = clients \ {k} /\ UNCHANGED <<conn, page>>
        /\ \A j \in clients' : up'[j] = up[j]
    BY <1>0, <1>6 DEF SeeClose, tabVars
  <2>2. \A q \in Pages : locks'[q] = locks[q] \/ locks'[q] = Free
    BY <1>6 DEF SeeClose, WithoutLocksOf
  <2>3. \A j \in Conns : Held(j)' \subseteq Held(j)
    <3>1. \A j \in Conns : j # NoConn
      BY <1>0
    <3> QED BY <2>2, <3>1 DEF Held, Free
  <2>4. OneLockPerTab'
    BY <1>0, <2>2 DEF MovesInv, OneLockPerTab, Lock, Free, Conns, NoConn
  <2>5. AcquiresCleared'
    <3> SUFFICES ASSUME NEW j \in clients', NEW i \in 1 .. Len(up'[j]),
                        up'[j][i].action = "acquire"
                 PROVE  Cleared(up'[j], Held(j)', i, up'[j][i].page)
      BY DEF AcquiresCleared
    <3>1. Cleared(up[j], Held(j), i, up[j][i].page) /\ up'[j] = up[j] /\ j \in Conns
      BY <1>0, <2>1 DEF MovesInv, AcquiresCleared
    <3> QED BY <2>3, <3>1, ClearedFewer
  <2>6. TabsCleared'
    <3> SUFFICES ASSUME NEW u \in Tabs, NEW j \in clients', conn[u] = j
                 PROVE  Cleared(up'[j], Held(j)', Len(up'[j]) + 1, page[u])
      BY <2>1 DEF TabsCleared
    <3>1. /\ Cleared(up[j], Held(j), Len(up[j]) + 1, page[u])
          /\ up'[j] = up[j] /\ j \in Conns
      BY <1>0, <2>1 DEF MovesInv, TabsCleared
    <3> QED BY <2>3, <3>1, ClearedFewer
  <2> QED BY <2>4, <2>5, <2>6 DEF MovesInv
<1> QED BY <1>2, <1>3, <1>4, <1>5, <1>6 DEF Handler

LEMMA MovesStep ==
  TypeInv /\ HoldersConnected /\ MovesInv /\ [Next]_vars => MovesInv'
<1> SUFFICES ASSUME TypeInv, HoldersConnected, MovesInv, [Next]_vars PROVE MovesInv'
  OBVIOUS
<1>1. OwnWebSocket'
  BY OwnWebSocketStep DEF MovesInv
<1>2. CASE DeliverBroadcast
  BY <1>1, <1>2, MovesUnchanged DEF DeliverBroadcast, tabVars
<1>3. CASE BridgeRestart
  <2>1. clients' = {} /\ \A p \in Pages : locks'[p] = Free
    BY <1>3 DEF BridgeRestart
  <2> QED BY <1>1, <2>1 DEF MovesInv, AcquiresCleared, TabsCleared, OneLockPerTab
<1>4. CASE UNCHANGED vars
  BY <1>1, <1>4, MovesUnchanged DEF vars, bridgeVars, tabVars
<1> QED BY <1>1, <1>2, <1>3, <1>4, MovesTab, MovesHandler DEF Next

LEMMA MovesInductive == Spec => []MovesInv
BY TypeInductive, HoldersAreConnected, MovesInit, MovesStep, PTL DEF Spec

\* On one WebSocket requests are handled in order, and a tab asks for a page
\* only after releasing the last: however many pages, tabs and restarts, and
\* whatever of its requests is granted, denied or still under way, no tab holds
\* two pages.
THEOREM NoTabHoldsTwo == Spec => []OneLockPerTab
<1>1. MovesInv => OneLockPerTab
  BY DEF MovesInv
<1> QED BY <1>1, MovesInductive, PTL

----------------------------------------------------------------------------
(* What a settled tab shows *)

\* A broadcast is still to come: a handler owes one, or will once it notices
\* that a holder is gone.
Unsettled == owing # {} \/ \E p \in Pages : locks[p] # Free /\ ~Open(locks[p].ws)

\* The last broadcast under way will reach k.
Awaits(k) == casts # <<>> /\ k \in casts[Len(casts)].to

HasQuery(s) == \E i \in 1 .. Len(s) : s[i].action = "query"
IsState(reply) == reply.type = "state"

\* A tab that shows v and has yet to read the replies s will show table.
Told(s, v, table) ==
  \/ v = table /\ \A i \in 1 .. Len(s) : ~IsState(s[i])
  \/ \E i \in 1 .. Len(s) :
       /\ IsState(s[i]) /\ s[i].locks = table
       /\ \A j \in i + 1 .. Len(s) : ~IsState(s[j])

\* SettledViewsAgree speaks of tabs nothing is on its way to; what is on its
\* way has to be described for it to be inductive.  The last broadcast carries
\* the table as it is and reaches whomever an earlier one reaches, and a tab
\* that waits for no answer to a query is reached by it or told already.
LastCastCurrent == casts # <<>> => Unsettled \/ casts[Len(casts)].locks = Holders
LastCastReaches ==
  /\ \A i \in 1 .. Len(casts) : \A k \in casts[i].to : k <= opened
  /\ \A i \in 1 .. Len(casts) : \A k \in clients \cap casts[i].to : Awaits(k)
TabsInformed ==
  \A t \in Tabs : \A k \in clients :
    conn[t] = k /\ page[t] # NoPage /\ ~HasQuery(up[k]) =>
      Unsettled \/ Awaits(k) \/ Told(down[k], view[t], Holders)
ViewsInv == LastCastCurrent /\ LastCastReaches /\ TabsInformed

LEMMA InformedAgree == ViewsInv => SettledViewsAgree
<1> SUFFICES ASSUME ViewsInv, NEW t \in Tabs, Settled(t) PROVE view[t] = Holders
  BY DEF SettledViewsAgree
<1>1. ~HasQuery(up[conn[t]]) /\ ~Unsettled /\ ~Awaits(conn[t])
  BY DEF Settled, HasQuery, Unsettled, Awaits
<1>2. Told(down[conn[t]], view[t], Holders) /\ down[conn[t]] = <<>>
  BY <1>1 DEF ViewsInv, TabsInformed, Settled
<1> QED BY <1>2 DEF Told

\* The last message decides what the tab will show.
LEMMA ToldLast ==
  ASSUME NEW s \in Seq(Reply), NEW reply \in Reply, IsState(reply), NEW v
  PROVE  Told(Append(s, reply), v, reply.locks)
<1> DEFINE a == Append(s, reply)
           n == Len(s) + 1
<1>1. Len(a) = n /\ n \in Nat /\ n \in 1 .. n /\ a[n] = reply /\ n + 1 .. n = {}
  <2>1. Len(a) = n /\ Len(s) \in Nat /\ a[n] = reply
    BY AppendEntries
  <2> QED BY <2>1
<1> HIDE DEF a, n
<1>2. \A j \in n + 1 .. Len(a) : ~IsState(a[j])
  BY <1>1
<1>3. n \in 1 .. Len(a) /\ IsState(a[n]) /\ a[n].locks = reply.locks
  BY <1>1
<1> QED BY <1>2, <1>3 DEF Told, a

\* Reading a message does not change what will be shown in the end.
LEMMA ToldRead ==
  ASSUME NEW s \in Seq(Reply), s # <<>>, NEW v, NEW table, Told(s, v, table)
  PROVE  Told(Tail(s), IF IsState(Head(s)) THEN Head(s).locks ELSE v, table)
<1> DEFINE a == Tail(s)
           now == IF IsState(Head(s)) THEN Head(s).locks ELSE v
<1>1. /\ Len(s) = Len(a) + 1 /\ Len(a) \in Nat /\ Head(s) = s[1]
      /\ \A i \in 1 .. Len(a) : a[i] = s[i + 1]
  BY TailEntries
<1> HIDE DEF a
<1>2. \A i \in 1 .. Len(a) : i + 1 \in 1 .. Len(s) /\ a[i] = s[i + 1]
  BY <1>1
<1>3. 1 \in 1 .. Len(s)
  BY <1>1
<1>4. CASE v = table /\ \A i \in 1 .. Len(s) : ~IsState(s[i])
  BY <1>1, <1>2, <1>3, <1>4 DEF Told, a
<1>5. ASSUME NEW i \in 1 .. Len(s), IsState(s[i]), s[i].locks = table,
             \A j \in i + 1 .. Len(s) : ~IsState(s[j])
      PROVE  Told(a, now, table)
  <2>1. CASE i = 1
    <3>1. now = table
      BY <1>1, <1>5, <2>1
    <3>2. \A j \in 1 .. Len(a) : j + 1 \in i + 1 .. Len(s)
      BY <1>1, <2>1
    <3>3. \A j \in 1 .. Len(a) : ~IsState(a[j])
      BY <1>2, <1>5, <3>2
    <3> QED BY <3>1, <3>3 DEF Told
  <2>2. CASE i # 1
    <3>1. i - 1 \in 1 .. Len(a) /\ (i - 1) + 1 = i
      BY <1>1, <2>2
    <3>2. a[i - 1] = s[i]
      BY <1>1, <3>1
    <3>3. \A j \in (i - 1) + 1 .. Len(a) : j \in 1 .. Len(a) /\ j + 1 \in i + 1 .. Len(s)
      BY <1>1, <3>1
    <3>4. \A j \in (i - 1) + 1 .. Len(a) : ~IsState(a[j])
      BY <1>2, <1>5, <3>3
    <3> QED BY <1>5, <3>1, <3>2, <3>4 DEF Told
  <2> QED BY <2>1, <2>2
<1> QED BY <1>4, <1>5 DEF Told, a

\* A query stays under way until the bridge takes it.
LEMMA QueryStays ==
  ASSUME NEW s \in Seq(Request), NEW r \in Request
  PROVE  /\ HasQuery(s) => HasQuery(Append(s, r))
         /\ r = Query => HasQuery(Append(s, r))
<1>1. /\ Len(Append(s, r)) = Len(s) + 1 /\ Len(s) \in Nat
      /\ \A i \in 1 .. Len(s) : Append(s, r)[i] = s[i]
      /\ Append(s, r)[Len(s) + 1] = r
  BY AppendEntries
<1>2. Len(s) + 1 \in 1 .. Len(s) + 1 /\ \A i \in 1 .. Len(s) : i \in 1 .. Len(s) + 1
  BY <1>1
<1> QED BY <1>1, <1>2 DEF HasQuery, Query

LEMMA QueryTaken ==
  ASSUME NEW s \in Seq(Request), s # <<>>, Head(s).action # "query", HasQuery(s)
  PROVE  HasQuery(Tail(s))
<1>1. /\ Len(s) = Len(Tail(s)) + 1 /\ Len(Tail(s)) \in Nat /\ Head(s) = s[1]
      /\ \A i \in 1 .. Len(Tail(s)) : Tail(s)[i] = s[i + 1]
  BY TailEntries
<1>2. PICK i \in 1 .. Len(s) : s[i].action = "query"
  BY DEF HasQuery
<1>3. i - 1 \in 1 .. Len(Tail(s)) /\ (i - 1) + 1 = i
  BY <1>1, <1>2
<1> QED BY <1>1, <1>2, <1>3 DEF HasQuery

\* What a tab does neither touches the table nor the broadcasts, and it cannot
\* open a WebSocket again.
LEMMA TabUnsettled ==
  ASSUME TypeInv, HoldersConnected, NEW t \in Tabs, Tab(t)
  PROVE  /\ UNCHANGED <<locks, owing, casts>> /\ opened <= opened'
         /\ Unsettled => Unsettled'
<1>0. /\ opened \in Nat /\ conn \in [Tabs -> Conns \cup {NoConn}]
      /\ \A k \in clients : k \in Nat /\ k <= opened
      /\ \A p \in Pages : locks[p] # Free => locks[p].ws \in clients
  BY DEF TypeInv, TypeOK, Numbered, Conns, HoldersConnected
<1>1. UNCHANGED <<locks, owing, casts>> /\ opened <= opened'
  BY <1>0 DEF Tab, Connect, LoseConnection, LeavePage, OpenPage, TakeControl, ReleaseControl,
              ReceiveReply, bridgeVars, countVars
<1>2. \A k \in clients : ~Open(k) => ~Open(k)'
  <2>1. CASE Connect(t)
    BY <1>0, <2>1 DEF Connect, Open
  <2>2. CASE LoseConnection(t)
    BY <1>0, <2>2 DEF LoseConnection, Open, Numbered, TypeInv, TypeOK, Conns, NoConn
  <2>3. CASE UNCHANGED conn
    BY <2>3 DEF Open
  <2> QED BY <2>1, <2>2, <2>3 DEF Tab, LeavePage, OpenPage, TakeControl, ReleaseControl,
                                  ReceiveReply, tabVars
<1>3. \A p \in Pages : locks[p] # Free /\ ~Open(locks[p].ws) =>
        ~\E u \in Tabs : conn'[u] = locks[p].ws
  BY <1>0, <1>2 DEF Open
<1>4. Unsettled => Unsettled'
  BY <1>1, <1>3 DEF Unsettled, Open
<1> QED BY <1>1, <1>4

\* A further broadcast reaches every client.
LEMMA CastReaches ==
  ASSUME TypeInv, LastCastReaches, NEW k \in Conns, NEW table \in Table,
         casts' = Append(casts, Cast(k, table)), UNCHANGED <<clients, opened>>
  PROVE  /\ LastCastReaches' /\ \A j \in clients : Awaits(j)'
         /\ casts' # <<>> /\ casts'[Len(casts')].locks = table
<1> DEFINE Casts == [by : Conns, to : SUBSET Conns, locks : Table]
           cast == Cast(k, table)
<1>1. casts \in Seq(Casts) /\ cast \in Casts /\ cast.to = clients /\ cast.locks = table
  BY DEF TypeInv, TypeOK, Cast
<1> HIDE DEF Casts, cast
<1>2. /\ Len(casts') = Len(casts) + 1 /\ Len(casts) \in Nat /\ casts'[Len(casts) + 1] = cast
      /\ \A i \in 1 .. Len(casts) : casts'[i] = casts[i]
  <2>1. casts' = Append(casts, cast)
    BY DEF cast
  <2> QED BY <1>1, <2>1, AppendEntries
<1>3. casts' # <<>>
  <2>1. casts' = <<>> => Len(casts') = 0
    OBVIOUS
  <2> QED BY <1>2, <2>1
<1>4. \A j \in clients : Awaits(j)'
  BY <1>1, <1>2, <1>3 DEF Awaits
<1>5. \A i \in 1 .. Len(casts') : i \in 1 .. Len(casts) \/ i = Len(casts) + 1
  BY <1>2
<1>6. \A j \in clients : j <= opened
  BY DEF TypeInv, Numbered
<1>7. ASSUME NEW i \in 1 .. Len(casts'), NEW j \in casts'[i].to PROVE j <= opened
  BY <1>1, <1>2, <1>5, <1>6, <1>7 DEF LastCastReaches
<1>8. \A i \in 1 .. Len(casts') : \A j \in casts'[i].to : j <= opened'
  BY <1>7
<1> QED BY <1>1, <1>2, <1>3, <1>4, <1>8 DEF LastCastReaches

LEMMA EntryInSet ==
  ASSUME NEW S, NEW s \in Seq(S), NEW i \in 1 .. Len(s)
  PROVE  s[i] \in S
OBVIOUS

LEMMA CastEntry ==
  ASSUME TypeOK, NEW i \in 1 .. Len(casts)
  PROVE  casts[i].to \subseteq Conns /\ casts[i].locks \in Table
<1> DEFINE Casts == [by : Conns, to : SUBSET Conns, locks : Table]
<1>1. casts \in Seq(Casts)
  BY DEF TypeOK
<1>2. casts[i] \in Casts
  <2> HIDE DEF Casts
  <2> QED BY <1>1, EntryInSet
<1> QED BY <1>2

LEMMA AwaitsUnchanged ==
  ASSUME UNCHANGED casts, NEW k, Awaits(k)
  PROVE  Awaits(k)'
BY DEF Awaits

LEMMA ViewsTab ==
  ASSUME TypeInv, HoldersConnected, OwnWebSocket, ViewsInv, ~Failover, NEW t \in Tabs, Tab(t)
  PROVE  ViewsInv'
<1>0. /\ conn \in [Tabs -> Conns \cup {NoConn}] /\ clients \subseteq Conns /\ NoConn \notin Conns
      /\ page \in [Tabs -> Pages \cup {NoPage}] /\ up \in [Conns -> Seq(Request)]
      /\ view \in [Tabs -> Table] /\ down \in [Conns -> Seq(Reply)]
  BY DEF TypeInv, TypeOK, Conns, NoConn
<1>1. UNCHANGED <<locks, owing, casts>> /\ opened <= opened' /\ (Unsettled => Unsettled')
      /\ Holders' = Holders
  <2>1. UNCHANGED <<locks, owing, casts>> /\ opened <= opened' /\ (Unsettled => Unsettled')
    BY TabUnsettled
  <2> QED BY <2>1 DEF Holders
<1>2. LastCastCurrent'
  BY <1>1 DEF ViewsInv, LastCastCurrent
<1>3. LastCastReaches'
  <2>1. \A i \in 1 .. Len(casts) : \A k \in casts[i].to : k \in Nat /\ k <= opened
    <3>1. \A i \in 1 .. Len(casts) : casts[i].to \subseteq Conns
      BY CastEntry DEF TypeInv
    <3> QED BY <3>1 DEF ViewsInv, LastCastReaches, Conns
  <2>2. opened \in Nat /\ opened' \in Nat
    BY DEF TypeInv, TypeOK, Tab, Connect, LoseConnection, LeavePage, OpenPage, TakeControl,
           ReleaseControl, ReceiveReply, countVars
  <2>3. \A k \in clients' : k \in clients \/ k = opened + 1
    BY DEF Tab, Connect, LoseConnection, LeavePage, OpenPage, TakeControl, ReleaseControl,
           ReceiveReply, bridgeVars
  <2>4. \A i \in 1 .. Len(casts) : \A k \in clients' \cap casts[i].to : k \in clients
    BY <2>1, <2>2, <2>3
  <2>5. \A i \in 1 .. Len(casts) : \A k \in clients' \cap casts[i].to : Awaits(k)'
    BY <1>1, <2>4, AwaitsUnchanged DEF ViewsInv, LastCastReaches
  <2> QED BY <1>1, <2>1, <2>2, <2>5 DEF LastCastReaches
\* A tab whose connection and requests are as before is informed as before.
<1>4. ASSUME NEW u \in Tabs, NEW k \in clients, conn[u] = k, page[u] # NoPage, ~HasQuery(up[k]),
             down'[k] = down[k], view'[u] = view[u]
      PROVE  (Unsettled \/ Awaits(k))' \/ Told(down'[k], view'[u], Holders')
  <2>1. Unsettled \/ Awaits(k) \/ Told(down[k], view[u], Holders)
    BY <1>4 DEF ViewsInv, TabsInformed
  <2> QED BY <1>1, <1>4, <2>1, AwaitsUnchanged
<1>5. SUFFICES ASSUME NEW u \in Tabs, NEW k \in clients', conn'[u] = k, page'[u] # NoPage,
                      ~HasQuery(up'[k])
               PROVE  (Unsettled \/ Awaits(k))' \/ Told(down'[k], view'[u], Holders')
  BY <1>2, <1>3 DEF ViewsInv, TabsInformed
\* A tab's request or reading concerns no other tab's WebSocket.
<1>6. u # t => conn[u] # conn[t] \/ conn[t] = NoConn
  BY DEF OwnWebSocket
<1>7. CASE Connect(t)
  <2>1. PICK n \in Conns : n = opened + 1 /\ \A j \in clients : j # n
    <3>1. opened + 1 \in Conns
      BY <1>7, PageLockAssumption DEF PageLockAssumption, Connect, TypeInv, TypeOK, Conns
    <3>2. \A j \in clients : j # opened + 1
      BY DEF TypeInv, TypeOK, Numbered, Conns
    <3> QED BY <3>1, <3>2
  <2>2. /\ conn' = [conn EXCEPT ![t] = n] /\ clients' = clients \cup {n}
        /\ up' = [up EXCEPT ![n] = IF QueriesOnConnect(t) THEN <<Query>> ELSE <<>>]
        /\ UNCHANGED <<down, page, view>>
    BY <1>7, <2>1 DEF Connect
  <2>3. CASE u = t
    <3>1. up'[k] = <<Query>>
      BY <1>0, <1>5, <2>1, <2>2, <2>3 DEF QueriesOnConnect
    <3>2. HasQuery(up'[k])
      BY <3>1 DEF HasQuery, Query
    <3> QED BY <1>5, <3>2
  <2>4. CASE u # t
    <3>1. conn[u] = k /\ k # n
      <4>1. conn[u] = k
        BY <1>0, <1>5, <2>2, <2>4
      <4>2. \A s \in Tabs : conn[s] <= opened /\ conn[s] \in Nat
        BY <1>0 DEF OwnWebSocket, Conns, NoConn
      <4>3. opened \in Nat
        BY DEF TypeInv, TypeOK
      <4> QED BY <2>1, <4>1, <4>2, <4>3
    <3>2. k \in clients /\ up'[k] = up[k]
      BY <1>0, <2>2, <3>1
    <3> QED BY <1>4, <1>5, <2>2, <3>1, <3>2
  <2> QED BY <2>3, <2>4
<1>8. CASE LoseConnection(t)
  <2>1. /\ conn' = [conn EXCEPT ![t] = NoConn] /\ down' = [down EXCEPT ![conn[t]] = <<>>]
        /\ UNCHANGED <<clients, up, page, view>> /\ conn[t] # NoConn
    BY <1>8 DEF LoseConnection, bridgeVars
  <2>2. u # t /\ conn[u] = k
    BY <1>0, <1>5, <2>1
  <2>3. down'[k] = down[k]
    BY <1>0, <1>6, <2>1, <2>2
  <2> QED BY <1>4, <1>5, <2>1, <2>2, <2>3
\* Sending: a tab that shows a page and awaits no answer did so before.
<1>9. ASSUME NEW r \in Request, Send(t, r), UNCHANGED <<clients, conn, down>>,
             view'[u] = view[u], u # t => page'[u] = page[u],
             r = Query \/ page'[t] = page[t] \/ page'[t] = NoPage
      PROVE  (Unsettled \/ Awaits(k))' \/ Told(down'[k], view'[u], Holders')
  <2>1. k \in Conns /\ up[k] \in Seq(Request) /\ k \in clients /\ conn[u] = k
    BY <1>0, <1>5, <1>9
  <2>2. CASE u # t
    <3>1. up'[k] = up[k]
      BY <1>0, <1>6, <1>9, <2>1, <2>2 DEF Send
    <3> QED BY <1>4, <1>5, <1>9, <2>1, <2>2, <3>1
  <2>3. CASE u = t
    <3>1. up'[k] = Append(up[k], r)
      BY <1>0, <1>9, <2>1, <2>3 DEF Send
    <3>2. r # Query /\ ~HasQuery(up[k])
      BY <1>5, <2>1, <3>1, QueryStays
    <3> QED BY <1>4, <1>5, <1>9, <2>1, <2>3, <3>2
  <2> QED BY <2>2, <2>3
<1>10. CASE LeavePage(t)
  <2>1. [action |-> "release", page |-> page[t]] \in Request
    BY <1>0 DEF Request
  <2>2. /\ Send(t, [action |-> "release", page |-> page[t]])
        /\ page' = [page EXCEPT ![t] = NoPage] /\ view' = [view EXCEPT ![t] = Unlocked]
        /\ UNCHANGED <<clients, conn, down>>
    BY <1>10 DEF LeavePage, SendRelease, bridgeVars
  <2>3. u # t /\ view'[u] = view[u] /\ page'[u] = page[u] /\ page'[t] = NoPage
    BY <1>0, <1>5, <2>2
  <2> QED BY <1>9, <2>1, <2>2, <2>3
<1>11. ASSUME NEW p \in Pages, OpenPage(t, p)
       PROVE  (Unsettled \/ Awaits(k))' \/ Told(down'[k], view'[u], Holders')
  <2>1. Query \in Request
    BY DEF Query, Request
  <2>2. /\ Send(t, Query) /\ page' = [page EXCEPT ![t] = p]
        /\ UNCHANGED <<clients, conn, down, view>>
    BY <1>11 DEF OpenPage, bridgeVars
  <2>3. u # t => page'[u] = page[u]
    BY <1>0, <2>2
  <2> QED BY <1>9, <2>1, <2>2, <2>3
<1>12. CASE TakeControl(t) \/ ReleaseControl(t)
  <2>1. PICK r \in Request : Send(t, r)
    <3>1. \A a \in {"acquire", "release"} : [action |-> a, page |-> page[t]] \in Request
      BY <1>0 DEF Request
    <3> QED BY <1>12, <3>1 DEF TakeControl, ReleaseControl
  <2>2. UNCHANGED <<clients, conn, down, view, page>>
    BY <1>12 DEF TakeControl, ReleaseControl, bridgeVars, tabVars
  <2> QED BY <1>9, <2>1, <2>2
<1>13. CASE ReceiveReply(t)
  <2>1. /\ conn[t] \in Conns /\ down[conn[t]] # <<>> /\ down' = [down EXCEPT ![conn[t]] = Tail(@)]
        /\ UNCHANGED <<clients, conn, page, up>>
    BY <1>0, <1>13 DEF ReceiveReply, bridgeVars
  <2>2. CASE u # t
    <3>1. down'[k] = down[k]
      BY <1>0, <1>5, <1>6, <2>1, <2>2
    <3>2. view'[u] = view[u]
      BY <1>0, <1>13, <2>2 DEF ReceiveReply
    <3> QED BY <1>4, <1>5, <2>1, <3>1, <3>2
  <2>3. CASE u = t
    <3> DEFINE s == down[k]
    <3>1. conn[t] = k /\ k \in clients /\ k \in Conns /\ s \in Seq(Reply) /\ s # <<>>
          /\ down'[k] = Tail(s)
      BY <1>0, <1>5, <2>1, <2>3
    <3>2. view'[t] = IF IsState(Head(s)) THEN Head(s).locks ELSE view[t]
      BY <1>0, <1>5, <1>13, <2>1, <2>3, <3>1 DEF ReceiveReply, IsState
    <3>3. Unsettled \/ Awaits(k) \/ Told(s, view[t], Holders)
      BY <1>5, <2>1, <2>3, <3>1 DEF ViewsInv, TabsInformed
    <3>4. CASE Told(s, view[t], Holders)
      <4> HIDE DEF s
      <4> QED BY <1>1, <2>3, <3>1, <3>2, <3>4, ToldRead
    <3> QED BY <1>1, <3>3, <3>4, AwaitsUnchanged
  <2> QED BY <2>2, <2>3
<1> QED BY <1>7, <1>8, <1>10, <1>11, <1>12, <1>13 DEF Tab

LEMMA ViewsHandler ==
  ASSUME TypeInv, TypeInv', HoldersConnected, OwnWebSocket, ViewsInv, NEW k \in Conns, Handler(k)
  PROVE  ViewsInv'
<1>0. /\ conn \in [Tabs -> Conns \cup {NoConn}] /\ clients \subseteq Conns /\ NoConn \notin Conns
      /\ up \in [Conns -> Seq(Request)] /\ down \in [Conns -> Seq(Reply)]
      /\ locks \in [Pages -> Lock \cup {Free}] /\ locks' \in [Pages -> Lock \cup {Free}]
  BY DEF TypeInv, TypeOK, Conns, NoConn
<1>1. UNCHANGED <<conn, page, view, opened>> /\ clients' \subseteq clients
      /\ \A j : Open(j)' = Open(j)
  BY DEF Handler, HandleQuery, HandleAcquire, HandleRelease, Broadcast, SeeClose, bridgeVars,
         tabVars, countVars, Open
<1>2. HoldersNext = Holders'
  BY DEF HoldersNext, Holders
\* A query that is not under way any more was taken by this handler.
<1>3. ASSUME NEW j \in clients, NEW action, action # "query", Handles(k, action), ~HasQuery(up'[j])
      PROVE  ~HasQuery(up[j])
  <2>1. up[k] \in Seq(Request) /\ up[k] # <<>> /\ Head(up[k]).action # "query"
        /\ up' = [up EXCEPT ![k] = Tail(@)]
    BY <1>0, <1>3 DEF Handles
  <2>2. up'[j] = IF j = k THEN Tail(up[k]) ELSE up[j]
    BY <1>0, <1>3, <2>1
  <2> QED BY <1>3, <2>1, <2>2, QueryTaken
\* Broadcasting the table as it is settles whatever was unsettled.
<1>4. ASSUME NEW table \in Table, table = Holders', casts' = Append(casts, Cast(k, table)),
             UNCHANGED clients
      PROVE  ViewsInv'
  <2>1. /\ LastCastReaches' /\ \A j \in clients : Awaits(j)'
        /\ casts' # <<>> /\ casts'[Len(casts')].locks = table
    BY <1>1, <1>4, CastReaches DEF ViewsInv
  <2>2. LastCastCurrent'
    BY <1>4, <2>1 DEF LastCastCurrent
  <2>3. TabsInformed'
    BY <1>4, <2>1 DEF TabsInformed
  <2> QED BY <2>1, <2>2, <2>3 DEF ViewsInv
\* With no broadcast and the table as it was, what was known of the others is.
<1>5. ASSUME UNCHANGED casts PROVE LastCastReaches'
  BY <1>1, <1>5, AwaitsUnchanged DEF ViewsInv, LastCastReaches
<1>6. ASSUME UNCHANGED <<locks, casts>>, owing \subseteq owing' PROVE LastCastCurrent'
  <2>1. Unsettled => Unsettled'
    BY <1>1, <1>6 DEF Unsettled
  <2> QED BY <1>6, <2>1 DEF ViewsInv, LastCastCurrent, Holders
<1>7. ASSUME UNCHANGED <<locks, owing, casts>>,
             \A j \in clients' : HasQuery(up[j]) => HasQuery(up'[j]),
             \A j \in clients' : down'[j] = down[j]
      PROVE  ViewsInv'
  <2>1. Unsettled => Unsettled'
    BY <1>1, <1>7 DEF Unsettled
  <2>2. TabsInformed'
    <3> SUFFICES ASSUME NEW t \in Tabs, NEW j \in clients', conn[t] = j, page[t] # NoPage,
                        ~HasQuery(up'[j])
                 PROVE  Unsettled' \/ Awaits(j)' \/ Told(down'[j], view[t], Holders')
      BY <1>1 DEF TabsInformed
    <3>1. Unsettled \/ Awaits(j) \/ Told(down[j], view[t], Holders)
      BY <1>1, <1>7 DEF ViewsInv, TabsInformed
    <3>2. Holders' = Holders
      BY <1>7 DEF Holders
    <3> QED BY <1>7, <2>1, <3>1, <3>2, AwaitsUnchanged
  <2> QED BY <1>5, <1>6, <1>7, <2>2 DEF ViewsInv
<1>8. ASSUME Unsettled', UNCHANGED casts PROVE ViewsInv'
  BY <1>5, <1>8 DEF ViewsInv, LastCastCurrent, TabsInformed
<1>9. CASE HandleQuery(k)
  <2> DEFINE reply == State(Holders, clientId[k])
  <2>1. UNCHANGED <<locks, owing, casts, clients>> /\ Handles(k, "query") /\ Deliver({k}, reply)
    BY <1>9 DEF HandleQuery, bridgeVars
  <2>2. reply \in Reply /\ IsState(reply) /\ reply.locks = Holders
    <3>1. clientId[k] \in Ids \cup {NoId}
      BY DEF TypeInv, TypeOK
    <3>2. reply \in Reply
      BY <3>1, TableType, ReplyTypes DEF TypeInv
    <3> QED BY <3>2 DEF State, IsState
  <2>3. Unsettled => Unsettled'
    BY <1>1, <2>1 DEF Unsettled
  <2> HIDE DEF reply
  <2>4. TabsInformed'
    <3> SUFFICES ASSUME NEW t \in Tabs, NEW j \in clients, conn[t] = j, page[t] # NoPage,
                        ~HasQuery(up'[j])
                 PROVE  Unsettled' \/ Awaits(j)' \/ Told(down'[j], view[t], Holders')
      BY <1>1, <2>1 DEF TabsInformed
    <3>0. Holders' = Holders
      BY <2>1 DEF Holders
    <3>1. CASE j = k
      <4>1. down'[k] = Append(down[k], reply) /\ down[k] \in Seq(Reply)
        BY <1>0, <2>1, <3>1 DEF Deliver, Open
      <4> QED BY <2>2, <3>0, <3>1, <4>1, ToldLast
    <3>2. CASE j # k
      <4>1. up'[j] = up[j] /\ down'[j] = down[j]
        BY <1>0, <2>1, <3>2 DEF Deliver, Handles
      <4>2. Unsettled \/ Awaits(j) \/ Told(down[j], view[t], Holders)
        BY <4>1 DEF ViewsInv, TabsInformed
      <4> QED BY <2>1, <2>3, <3>0, <4>1, <4>2, AwaitsUnchanged
    <3> QED BY <3>1, <3>2
  <2> QED BY <1>5, <1>6, <2>1, <2>4 DEF ViewsInv
<1>10. CASE HandleAcquire(k)
  <2> DEFINE p == Head(up[k]).page
  <2>1. UNCHANGED <<casts, clients>> /\ Handles(k, "acquire")
    BY <1>10 DEF HandleAcquire
  <2>2. CASE ~Open(k) /\ owing' = owing /\ p \in Pages /\ MayAcquire(k, p)
    <3>1. locks'[p] = [holder |-> clientId[k], ws |-> k]
      BY <1>0, <1>10, <2>2 DEF HandleAcquire
    <3>2. locks'[p] # Free /\ ~Open(locks'[p].ws)
      BY <1>0, <2>2, <3>1 DEF Free
    <3>3. Unsettled'
      BY <1>1, <2>2, <3>2 DEF Unsettled, Open
    <3> QED BY <1>8, <2>1, <3>3
  <2>3. CASE owing' # {}
    BY <1>8, <2>1, <2>3 DEF Unsettled
  <2>4. CASE owing' = owing /\ (MayAcquire(k, p) => ~Open(k) /\ p \notin Pages)
    <3>1. locks' = locks
      BY <1>0, <1>10, <2>4 DEF HandleAcquire
    <3>2. \A j \in clients : down'[j] = down[j]
      BY <1>0, <1>10, <2>4 DEF HandleAcquire, Deliver
    <3>3. \A j \in clients : HasQuery(up[j]) => HasQuery(up'[j])
      BY <1>3, <2>1
    <3> QED BY <1>7, <2>1, <2>4, <3>1, <3>2, <3>3
  <2>5. owing' = owing \/ owing' = owing \cup {k}
    BY <1>10 DEF HandleAcquire
  <2>6. MayAcquire(k, p) /\ owing' = owing => owing' # {} \/ ~Open(k)
    BY <1>10 DEF HandleAcquire
  <2> QED BY <2>2, <2>3, <2>4, <2>5, <2>6
<1>11. CASE HandleRelease(k)
  <2> DEFINE p == Head(up[k]).page
  <2>1. UNCHANGED <<owing, clients, down>> /\ Handles(k, "release")
    BY <1>11 DEF HandleRelease
  <2>2. CASE MayRelease(k, p)
    <3>1. casts' = Append(casts, Cast(k, HoldersNext))
      BY <1>11, <2>2 DEF HandleRelease, CastAfter
    <3>2. HoldersNext \in Table
      BY <1>0, TableTypeNext
    <3> QED BY <1>2, <1>4, <2>1, <3>1, <3>2
  <2>3. CASE ~MayRelease(k, p)
    <3>1. UNCHANGED <<locks, casts>>
      BY <1>11, <2>3 DEF HandleRelease
    <3>2. \A j \in clients : HasQuery(up[j]) => HasQuery(up'[j])
      BY <1>3, <2>1
    <3> QED BY <1>7, <2>1, <3>1, <3>2
  <2> QED BY <2>2, <2>3
<1>12. CASE Broadcast(k)
  <2>1. casts' = Append(casts, Cast(k, Holders)) /\ UNCHANGED <<clients, locks>>
    BY <1>12 DEF Broadcast
  <2>2. Holders \in Table /\ Holders' = Holders
    BY <2>1, TableType DEF TypeInv, Holders
  <2> QED BY <1>4, <2>1, <2>2
<1>13. CASE SeeClose(k)
  <2>1. /\ clients' = clients \ {k} /\ up' = [up EXCEPT ![k] = <<>>] /\ locks' = WithoutLocksOf(k)
        /\ UNCHANGED <<casts, down>>
    BY <1>13 DEF SeeClose
  <2>2. CASE \E p \in Pages : locks[p].ws = k
    <3>1. owing' # {}
      BY <1>13, <2>2 DEF SeeClose
    <3> QED BY <1>8, <2>1, <3>1 DEF Unsettled
  <2>3. CASE ~\E p \in Pages : locks[p].ws = k
    <3>1. owing' = owing /\ locks' = locks
      BY <1>0, <1>13, <2>1, <2>3 DEF SeeClose, WithoutLocksOf
    <3>2. \A j \in clients' : up'[j] = up[j]
      BY <1>0, <2>1
    <3> QED BY <1>7, <2>1, <3>1, <3>2
  <2> QED BY <2>2, <2>3
<1> QED BY <1>9, <1>10, <1>11, <1>12, <1>13 DEF Handler

LEMMA ViewsDeliver ==
  ASSUME TypeInv, ViewsInv, DeliverBroadcast
  PROVE  ViewsInv'
<1> DEFINE Casts == [by : Conns, to : SUBSET Conns, locks : Table]
           reply == State(Head(casts).locks, NoId)
<1>0. /\ UNCHANGED <<locks, owing, clients, up, conn, page, view, opened>>
      /\ down \in [Conns -> Seq(Reply)] /\ clients \subseteq Conns
      /\ casts # <<>> /\ casts' = Tail(casts) /\ Deliver(Head(casts).to, reply)
  BY DEF DeliverBroadcast, tabVars, countVars, TypeInv, TypeOK
<1>1. /\ Len(casts) = Len(casts') + 1 /\ Len(casts') \in Nat /\ Head(casts) = casts[1]
      /\ \A i \in 1 .. Len(casts') : casts'[i] = casts[i + 1]
  <2>1. casts \in Seq(Casts)
    BY DEF TypeInv, TypeOK
  <2> HIDE DEF Casts
  <2> QED BY <1>0, <2>1, TailEntries
<1>2. casts' # <<>> => Len(casts') \in 1 .. Len(casts') /\ Len(casts') + 1 = Len(casts)
                       /\ casts'[Len(casts')] = casts[Len(casts)]
  <2>1. casts' # <<>> => Len(casts') # 0
    <3>1. casts \in Seq(Casts)
      BY DEF TypeInv, TypeOK
    <3> HIDE DEF Casts
    <3>2. casts' \in Seq(Casts)
      BY <1>0, <3>1, HeadAndTail
    <3> QED BY <3>2
  <2> QED BY <1>1, <2>1
<1>3. /\ Unsettled => Unsettled'
      /\ \A k : casts' # <<>> /\ Awaits(k) => Awaits(k)'
  BY <1>0, <1>2 DEF Unsettled, Open, Awaits
<1>4. LastCastCurrent'
  BY <1>0, <1>2, <1>3 DEF ViewsInv, LastCastCurrent, Holders
<1>5. \A i \in 1 .. Len(casts') : i + 1 \in 1 .. Len(casts) /\ casts'[i] = casts[i + 1]
                                  /\ casts' # <<>>
  BY <1>1
<1>6. LastCastReaches'
  <2>1. \A i \in 1 .. Len(casts') : \A k \in casts'[i].to : k <= opened
    BY <1>5 DEF ViewsInv, LastCastReaches
  <2>2. \A i \in 1 .. Len(casts') : \A k \in clients \cap casts'[i].to : Awaits(k)'
    BY <1>3, <1>5 DEF ViewsInv, LastCastReaches
  <2> QED BY <1>0, <2>1, <2>2 DEF LastCastReaches
<1>7. 1 \in 1 .. Len(casts)
  BY <1>1
<1>8. reply \in Reply /\ IsState(reply) /\ reply.locks = casts[1].locks
  <2>1. casts[1].locks \in Table
    BY <1>7, CastEntry DEF TypeInv
  <2>2. reply \in Reply
    BY <1>1, <2>1, ReplyTypes
  <2> QED BY <1>1, <2>2 DEF State, IsState
<1> HIDE DEF reply
<1>9. TabsInformed'
  <2> SUFFICES ASSUME NEW t \in Tabs, NEW k \in clients, conn[t] = k, page[t] # NoPage,
                      ~HasQuery(up[k]), ~Unsettled', ~Awaits(k)'
               PROVE  Told(down'[k], view[t], Holders')
    BY <1>0 DEF TabsInformed
  <2>1. Holders' = Holders /\ ~Unsettled
    BY <1>0, <1>3 DEF Holders
  <2>2. Awaits(k) \/ Told(down[k], view[t], Holders)
    BY <2>1 DEF ViewsInv, TabsInformed
  <2>3. CASE k \in casts[1].to
    \* It is the last one, since another would reach k too.
    <3>1. Awaits(k)
      BY <1>7, <2>3 DEF ViewsInv, LastCastReaches
    <3>2. casts' = <<>> /\ Len(casts) = 1
      <4>1. casts' = <<>>
        BY <1>3, <3>1
      <4> QED BY <1>1, <4>1
    <3>3. reply.locks = Holders
      BY <1>0, <1>8, <2>1, <3>2 DEF ViewsInv, LastCastCurrent
    <3>4. down'[k] = Append(down[k], reply) /\ down[k] \in Seq(Reply)
      BY <1>0, <1>1, <2>3 DEF Deliver, Open
    <3> QED BY <1>8, <2>1, <3>3, <3>4, ToldLast
  <2>4. CASE k \notin casts[1].to
    <3>1. down'[k] = down[k]
      BY <1>0, <1>1, <2>4 DEF Deliver
    <3>2. ~Awaits(k)
      <4>1. CASE casts' = <<>>
        <5>1. Len(casts) = 1
          BY <1>1, <4>1
        <5> QED BY <2>4, <5>1 DEF Awaits
      <4>2. CASE casts' # <<>>
        BY <1>3, <4>2
      <4> QED BY <4>1, <4>2
    <3> QED BY <2>1, <2>2, <3>1, <3>2
  <2> QED BY <2>3, <2>4
<1> QED BY <1>4, <1>6, <1>9 DEF ViewsInv

LEMMA ViewsStep ==
  ASSUME ~Failover
  PROVE  TypeInv /\ TypeInv' /\ HoldersConnected /\ MovesInv /\ ViewsInv /\ [Next]_vars => ViewsInv'
<1> SUFFICES ASSUME TypeInv, TypeInv', HoldersConnected, OwnWebSocket, ViewsInv, [Next]_vars
             PROVE  ViewsInv'
  BY DEF MovesInv
<1>1. CASE BridgeRestart
  <2>1. clients' = {} /\ casts' = <<>>
    BY <1>1 DEF BridgeRestart
  <2>2. Len(casts') = 0
    BY <2>1
  <2> QED BY <2>1, <2>2 DEF ViewsInv, LastCastCurrent, LastCastReaches, TabsInformed
<1>2. CASE UNCHANGED vars
  <2>1. Unsettled' = Unsettled /\ \A k : Awaits(k)' = Awaits(k)
    BY <1>2 DEF vars, bridgeVars, tabVars, Unsettled, Open, Awaits
  <2>2. Holders' = Holders
    BY <1>2 DEF vars, bridgeVars, Holders
  <2> QED BY <1>2, <2>1, <2>2 DEF vars, bridgeVars, tabVars, countVars, ViewsInv,
             LastCastCurrent, LastCastReaches, TabsInformed
<1> QED BY <1>1, <1>2, ViewsTab, ViewsHandler, ViewsDeliver DEF Next

\* Where a page learns of its connection (with one candidate URL), however its
\* query, the replies to its requests, the broadcasts of others, lost
\* connections and bridge restarts overtake one another: once nothing is under
\* way to it a tab shows the bridge's table.
THEOREM SettledTabsAgree == ~Failover => (Spec => []SettledViewsAgree)
<1> SUFFICES ASSUME ~Failover PROVE Spec => []SettledViewsAgree
  OBVIOUS
<1>1. Init => ViewsInv
  <2> SUFFICES ASSUME Init PROVE ViewsInv
    OBVIOUS
  <2>1. clients = {} /\ casts = <<>> /\ Len(casts) = 0
    BY DEF Init
  <2> QED BY <2>1 DEF ViewsInv, LastCastCurrent, LastCastReaches, TabsInformed
<1>2. TypeInv /\ TypeInv' /\ HoldersConnected /\ MovesInv /\ ViewsInv /\ [Next]_vars => ViewsInv'
  BY ViewsStep
<1> QED BY <1>1, <1>2, InformedAgree, TypeInductive, HoldersAreConnected, MovesInductive, PTL
        DEF Spec

----------------------------------------------------------------------------
(* Who a tab takes itself for *)

\* What a bridge says to a WebSocket names its own id, and until the first
\* restart ids are numbered like WebSockets, so that a tab that kept the id of
\* an earlier connection has one that no other tab has had or will get.
RepliesNameTheirOwn ==
  \A k \in Conns : \A i \in 1 .. Len(down[k]) :
    k <= opened /\ down[k][i].id \in {NoId, clientId[k]}
IdsApart ==
  /\ nextId = opened /\ \A k \in 1 .. opened : clientId[k] = k - 1
  /\ \A s \in Tabs : myId[s] < opened
  /\ \A s, t \in Tabs : s # t /\ myId[s] # NoId => myId[s] # myId[t] /\ myId[s] # conn[t] - 1
IdsInv == RepliesNameTheirOwn /\ (starts = 1 => IdsApart)

LEMMA IdsInit == Init => IdsInv
<1> SUFFICES ASSUME Init PROVE IdsInv
  OBVIOUS
<1>1. \A k \in Conns : down[k] = <<>> /\ Len(down[k]) = 0
  BY DEF Init
<1> QED BY <1>1 DEF Init, IdsInv, RepliesNameTheirOwn, IdsApart, NoId

LEMMA RepliesDelivered ==
  ASSUME TypeInv, OwnWebSocket, RepliesNameTheirOwn, NEW to, NEW reply \in Reply,
         Deliver(to, reply), \A k \in to \cap Conns : reply.id \in {NoId, clientId[k]},
         UNCHANGED <<opened, clientId>>
  PROVE  RepliesNameTheirOwn'
<1> SUFFICES ASSUME NEW k \in Conns, NEW i \in 1 .. Len(down'[k])
             PROVE  k <= opened /\ down'[k][i].id \in {NoId, clientId[k]}
  BY DEF RepliesNameTheirOwn
<1>1. /\ down[k] \in Seq(Reply)
      /\ down'[k] = IF k \in to /\ Open(k) THEN Append(down[k], reply) ELSE down[k]
  BY DEF Deliver, TypeInv, TypeOK
<1>2. CASE k \in to /\ Open(k)
  <2>1. k <= opened
    BY <1>2 DEF Open, OwnWebSocket
  <2>2. CASE i \in 1 .. Len(down[k])
    BY <1>1, <1>2, <2>2, AppendEntries DEF RepliesNameTheirOwn
  <2>3. CASE i \notin 1 .. Len(down[k])
    <3>1. /\ Len(down'[k]) = Len(down[k]) + 1 /\ Len(down[k]) \in Nat
          /\ down'[k][Len(down[k]) + 1] = reply
      BY <1>1, <1>2, AppendEntries
    <3>2. i = Len(down[k]) + 1
      BY <2>3, <3>1
    <3> QED BY <1>2, <2>1, <3>1, <3>2
  <2> QED BY <2>2, <2>3
<1>3. CASE ~(k \in to /\ Open(k))
  BY <1>1, <1>3 DEF RepliesNameTheirOwn
<1> QED BY <1>2, <1>3

LEMMA IdsUnchanged ==
  ASSUME IdsInv, UNCHANGED <<nextId, opened, clientId, myId, conn, starts>>, RepliesNameTheirOwn'
  PROVE  IdsInv'
BY DEF IdsInv, IdsApart

LEMMA IdsTab ==
  ASSUME TypeInv, OwnWebSocket, IdsInv, NEW t \in Tabs, Tab(t)
  PROVE  IdsInv'
<1>0. /\ conn \in [Tabs -> Conns \cup {NoConn}] /\ myId \in [Tabs -> Ids \cup {NoId}]
      /\ Conns \subseteq Nat /\ Ids \subseteq Nat /\ NoId = -1 /\ NoConn = 0 /\ opened \in Nat
      /\ down \in [Conns -> Seq(Reply)] /\ clientId \in [Conns -> Ids \cup {NoId}]
      /\ NoConn \notin Conns /\ \A u \in Tabs : conn[u] \in Nat /\ myId[u] \in Int
  <2>1. \A u \in Tabs : conn[u] \in Nat /\ myId[u] \in Int
    BY DEF TypeInv, TypeOK, Conns, Ids, NoId, NoConn
  <2> QED BY <2>1 DEF TypeInv, TypeOK, Conns, Ids, NoId, NoConn
<1>1. CASE Connect(t)
  <2>1. opened + 1 \in Conns /\ Conns = 1 .. MaxConns
    BY <1>1, PageLockAssumption DEF PageLockAssumption, Connect, TypeInv, TypeOK, Conns
  <2>2. /\ conn' = [conn EXCEPT ![t] = opened + 1] /\ opened' = opened + 1 /\ conn[t] = NoConn
        /\ clientId' = [clientId EXCEPT ![opened + 1] = nextId] /\ nextId' = nextId + 1
        /\ UNCHANGED <<starts, down, myId>>
    BY <1>1 DEF Connect, NewId
  <2>3. RepliesNameTheirOwn'
    <3> SUFFICES ASSUME NEW k \in Conns, NEW i \in 1 .. Len(down[k])
                 PROVE  k <= opened' /\ down[k][i].id \in {NoId, clientId'[k]}
      BY <2>2 DEF RepliesNameTheirOwn
    <3>1. k <= opened /\ down[k][i].id \in {NoId, clientId[k]}
      BY DEF IdsInv, RepliesNameTheirOwn
    <3>2. clientId'[k] = clientId[k] /\ k <= opened'
      BY <1>0, <2>1, <2>2, <3>1
    <3> QED BY <3>1, <3>2
  <2>4. ASSUME starts = 1 PROVE IdsApart'
    <3>1. IdsApart
      BY <2>4 DEF IdsInv
    <3>2. ASSUME NEW k \in 1 .. opened' PROVE clientId'[k] = k - 1
      <4>1. k \in Conns
        <5>1. k \in 1 .. opened + 1 /\ opened + 1 \in 1 .. MaxConns /\ MaxConns \in Nat
          BY <2>1, <2>2, PageLockAssumption DEF PageLockAssumption
        <5> QED BY <1>0, <2>1, <5>1
      <4>2. CASE k = opened + 1
        BY <1>0, <2>1, <2>2, <3>1, <4>2 DEF IdsApart
      <4>3. CASE k # opened + 1
        <5>1. k \in 1 .. opened
          BY <1>0, <2>2, <4>3
        <5> QED BY <1>0, <2>2, <3>1, <4>1, <4>3, <5>1 DEF IdsApart
      <4> QED BY <4>2, <4>3
    <3>3. \A s \in Tabs : myId[s] < opened /\ myId[s] < opened + 1 /\ myId[s] # opened
      BY <1>0, <3>1 DEF IdsApart
    <3>4. ASSUME NEW s \in Tabs, NEW u \in Tabs, s # u, myId[s] # NoId
          PROVE  myId[s] # myId[u] /\ myId[s] # conn'[u] - 1
      <4>1. CASE u = t
        BY <1>0, <2>2, <3>1, <3>3, <3>4, <4>1 DEF IdsApart
      <4>2. CASE u # t
        BY <1>0, <2>2, <3>1, <3>4, <4>2 DEF IdsApart
      <4> QED BY <4>1, <4>2
    <3> QED BY <2>2, <3>1, <3>2, <3>3, <3>4 DEF IdsApart
  <2> QED BY <2>2, <2>3, <2>4 DEF IdsInv
<1>2. CASE LoseConnection(t)
  <2>1. /\ conn' = [conn EXCEPT ![t] = NoConn] /\ down' = [down EXCEPT ![conn[t]] = <<>>]
        /\ UNCHANGED <<nextId, opened, clientId, myId, starts>>
    BY <1>2 DEF LoseConnection, bridgeVars, countVars
  <2>2. RepliesNameTheirOwn'
    <3>1. \A k \in Conns : down'[k] = down[k] \/ (down'[k] = <<>> /\ Len(down'[k]) = 0)
      BY <1>0, <2>1
    <3> QED BY <2>1, <3>1 DEF IdsInv, RepliesNameTheirOwn
  <2>3. IdsApart => IdsApart'
    BY <1>0, <2>1 DEF IdsApart
  <2> QED BY <2>1, <2>2, <2>3 DEF IdsInv
<1>3. CASE LeavePage(t)
  <2>1. /\ myId' = [myId EXCEPT ![t] = NoId]
        /\ UNCHANGED <<nextId, opened, clientId, conn, starts, down>>
    BY <1>3 DEF LeavePage, bridgeVars, countVars
  <2>2. IdsApart => IdsApart'
    BY <1>0, <2>1 DEF IdsApart
  <2> QED BY <2>1, <2>2 DEF IdsInv, RepliesNameTheirOwn
<1>4. CASE (\E p \in Pages : OpenPage(t, p)) \/ TakeControl(t) \/ ReleaseControl(t)
  <2>1. UNCHANGED <<nextId, opened, clientId, myId, conn, starts, down>>
    BY <1>4 DEF OpenPage, TakeControl, ReleaseControl, bridgeVars, tabVars
  <2> QED BY <2>1, IdsUnchanged DEF IdsInv, RepliesNameTheirOwn
<1>5. CASE ReceiveReply(t)
  <2> DEFINE s == down[conn[t]]
             id == Head(s).id
  <2>1. /\ conn[t] \in Conns /\ s \in Seq(Reply) /\ s # <<>>
        /\ down' = [down EXCEPT ![conn[t]] = Tail(s)]
        /\ UNCHANGED <<nextId, opened, clientId, conn, starts>>
        /\ myId' = myId \/ myId' = [myId EXCEPT ![t] = Learn(t, id)]
    BY <1>0, <1>5 DEF ReceiveReply, bridgeVars, countVars
  <2>2. /\ Len(s) = Len(Tail(s)) + 1 /\ Len(Tail(s)) \in Nat /\ Head(s) = s[1]
        /\ \A i \in 1 .. Len(Tail(s)) : Tail(s)[i] = s[i + 1]
    BY <2>1, TailEntries
  <2>3. RepliesNameTheirOwn'
    <3> SUFFICES ASSUME NEW k \in Conns, NEW i \in 1 .. Len(down'[k])
                 PROVE  k <= opened /\ down'[k][i].id \in {NoId, clientId[k]}
      BY <2>1 DEF RepliesNameTheirOwn
    <3>1. CASE k = conn[t]
      <4>1. down'[k] = Tail(s)
        BY <1>0, <2>1, <3>1
      <4>2. i + 1 \in 1 .. Len(s) /\ down'[k][i] = s[i + 1]
        BY <2>2, <4>1
      <4> QED BY <3>1, <4>2 DEF IdsInv, RepliesNameTheirOwn
    <3>2. CASE k # conn[t]
      BY <1>0, <2>1, <3>2 DEF IdsInv, RepliesNameTheirOwn
    <3> QED BY <3>1, <3>2
  <2>4. id \in {NoId, clientId[conn[t]]}
    <3>1. 1 \in 1 .. Len(s)
      BY <2>2
    <3> QED BY <2>1, <2>2, <3>1 DEF IdsInv, RepliesNameTheirOwn
  <2>5. ASSUME starts = 1 PROVE IdsApart'
    <3>0. IdsApart
      BY <2>5 DEF IdsInv
    <3>1. conn[t] \in 1 .. opened
      BY <1>0, <2>1 DEF OwnWebSocket, Conns
    <3>2. clientId[conn[t]] = conn[t] - 1
      BY <3>0, <3>1 DEF IdsApart
    <3> HIDE DEF id
    <3>3. myId'[t] \in {myId[t], NoId, conn[t] - 1} /\ \A u \in Tabs \ {t} : myId'[u] = myId[u]
      BY <1>0, <2>1, <2>4, <3>2 DEF Learn
    <3>4. ASSUME NEW u \in Tabs PROVE myId'[u] < opened
      <4>1. myId[u] < opened /\ NoId < opened /\ conn[t] - 1 < opened
        BY <1>0, <3>0, <3>1 DEF IdsApart
      <4> QED BY <3>3, <4>1
    <3>5. ASSUME NEW u \in Tabs, NEW v \in Tabs, u # v, myId'[u] # NoId
          PROVE  myId'[u] # myId'[v] /\ myId'[u] # conn[v] - 1
      <4>1. conn[u] = conn[v] => conn[u] = NoConn
        BY <3>5 DEF OwnWebSocket
      <4>2. /\ myId[u] # NoId => myId[u] # myId[v] /\ myId[u] # conn[v] - 1
            /\ myId[v] # NoId => myId[v] # conn[u] - 1
        BY <3>0, <3>5 DEF IdsApart
      <4>3. conn[u] \in Nat /\ conn[v] \in Nat
        BY <1>0
      <4>4. CASE u = t
        BY <1>0, <3>1, <3>3, <3>5, <4>1, <4>2, <4>3, <4>4
      <4>5. CASE v = t
        BY <1>0, <3>1, <3>3, <3>5, <4>1, <4>2, <4>3, <4>5
      <4>6. CASE u # t /\ v # t
        BY <3>3, <3>5, <4>2, <4>6
      <4> QED BY <4>4, <4>5, <4>6
    <3> QED BY <2>1, <3>0, <3>4, <3>5 DEF IdsApart
  <2> QED BY <2>1, <2>3, <2>5 DEF IdsInv
<1> QED BY <1>1, <1>2, <1>3, <1>4, <1>5 DEF Tab

LEMMA IdsStep ==
  TypeInv /\ MovesInv /\ IdsInv /\ [Next]_vars => IdsInv'
<1> SUFFICES ASSUME TypeInv, OwnWebSocket, IdsInv, [Next]_vars PROVE IdsInv'
  BY DEF MovesInv
<1>1. ASSUME NEW k \in Conns, Handler(k) PROVE IdsInv'
  <2>0. UNCHANGED <<nextId, opened, clientId, myId, conn, starts>>
    BY <1>1 DEF Handler, HandleQuery, HandleAcquire, HandleRelease, Broadcast, SeeClose,
                bridgeVars, tabVars, countVars
  <2>1. clientId[k] \in Ids \cup {NoId}
    BY DEF TypeInv, TypeOK
  <2>2. CASE HandleQuery(k)
    <3> DEFINE reply == State(Holders, clientId[k])
    <3>1. reply \in Reply /\ reply.id = clientId[k]
      <4>1. reply \in Reply
        BY <2>1, TableType, ReplyTypes DEF TypeInv
      <4> QED BY <4>1 DEF State
    <3>2. Deliver({k}, reply)
      BY <2>2 DEF HandleQuery
    <3> HIDE DEF reply
    <3>3. RepliesNameTheirOwn'
      BY <2>0, <3>1, <3>2, RepliesDelivered DEF IdsInv
    <3> QED BY <2>0, <3>3, IdsUnchanged
  <2>3. CASE HandleAcquire(k)
    <3>1. Result(clientId[k]) \in Reply /\ Result(clientId[k]).id = clientId[k]
      <4>1. Result(clientId[k]) \in Reply
        BY <2>1, TableType, ReplyTypes DEF TypeInv
      <4> QED BY <4>1 DEF Result
    <3>2. down' = down \/ Deliver({k}, Result(clientId[k]))
      BY <2>3 DEF HandleAcquire
    <3>3. RepliesNameTheirOwn'
      <4>1. CASE down' = down
        BY <2>0, <4>1 DEF IdsInv, RepliesNameTheirOwn
      <4>2. CASE Deliver({k}, Result(clientId[k]))
        BY <2>0, <3>1, <4>2, RepliesDelivered DEF IdsInv
      <4> QED BY <3>2, <4>1, <4>2
    <3> QED BY <2>0, <3>3, IdsUnchanged
  <2>4. CASE HandleRelease(k) \/ Broadcast(k) \/ SeeClose(k)
    <3>1. down' = down
      BY <2>4 DEF HandleRelease, Broadcast, SeeClose
    <3>2. RepliesNameTheirOwn'
      BY <2>0, <3>1 DEF IdsInv, RepliesNameTheirOwn
    <3> QED BY <2>0, <3>2, IdsUnchanged
  <2> QED BY <1>1, <2>2, <2>3, <2>4 DEF Handler
<1>2. CASE DeliverBroadcast
  <2> DEFINE Casts == [by : Conns, to : SUBSET Conns, locks : Table]
             reply == State(Head(casts).locks, NoId)
  <2>0. UNCHANGED <<nextId, opened, clientId, myId, conn, starts>>
    BY <1>2 DEF DeliverBroadcast, tabVars, countVars
  <2>1. reply \in Reply /\ reply.id = NoId
    <3>1. casts \in Seq(Casts) /\ casts # <<>>
      BY <1>2 DEF DeliverBroadcast, TypeInv, TypeOK
    <3>2. Head(casts) \in Casts
      <4> HIDE DEF Casts
      <4> QED BY <3>1, HeadAndTail
    <3>3. Head(casts).locks \in Table
      BY <3>2
    <3>4. reply \in Reply
      BY <3>3, ReplyTypes
    <3> QED BY <3>4 DEF State
  <2>2. Deliver(Head(casts).to, reply)
    BY <1>2 DEF DeliverBroadcast
  <2> HIDE DEF reply
  <2>3. RepliesNameTheirOwn'
    BY <2>0, <2>1, <2>2, RepliesDelivered DEF IdsInv
  <2> QED BY <2>0, <2>3, IdsUnchanged
<1>3. CASE BridgeRestart
  <2>1. starts' # 1 /\ UNCHANGED <<clientId, down, opened>>
    BY <1>3 DEF BridgeRestart, countVars, TypeInv, TypeOK
  <2> QED BY <2>1 DEF IdsInv, RepliesNameTheirOwn
<1>4. CASE UNCHANGED vars
  BY <1>4, IdsUnchanged DEF vars, bridgeVars, tabVars, countVars, IdsInv, RepliesNameTheirOwn
<1> QED BY <1>1, <1>2, <1>3, <1>4, IdsTab DEF Next

\* Where a page learns of its connection and until the bridge is restarted, no
\* two tabs to which nothing is under way both show "You have control" of the
\* same page, lost connections and ids kept from them notwithstanding.
THEOREM OneTabInControl == ~Failover => (Spec => []OneInControlPerBridge)
<1> SUFFICES ASSUME ~Failover PROVE Spec => []OneInControlPerBridge
  OBVIOUS
<1>1. TypeInv /\ IdsInv /\ SettledViewsAgree => OneInControlPerBridge
  <2> SUFFICES ASSUME IdsInv, SettledViewsAgree, starts = 1, NEW s \in Tabs, NEW t \in Tabs,
                      Settled(s), Settled(t), LockedByMe(s), LockedByMe(t), page[s] = page[t]
               PROVE  s = t
    BY DEF OneInControlPerBridge, OneInControl
  <2>1. view[s] = Holders /\ view[t] = Holders
    BY DEF SettledViewsAgree
  <2>2. myId[s] = myId[t] /\ myId[s] # NoId
    BY <2>1 DEF LockedByMe
  <2> QED BY <2>2 DEF IdsInv, IdsApart
<1>2. Spec => []SettledViewsAgree
  BY SettledTabsAgree
<1> QED BY <1>1, <1>2, TypeInductive, MovesInductive, IdsInit, IdsStep, PTL DEF Spec
=============================================================================
