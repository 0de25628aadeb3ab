--------------------------- MODULE MCBrowserLinks ---------------------------
\* The browser programs that talk to the base station, the car and the cloud, for TLC.
\* They share nothing here: a behaviour follows one of them, chosen at its start, and
\* what users, networks and reloads do in it is budgeted.
EXTENDS PecanFeed, TxPage, Blackbox, LiveRelay, Livestream, DbcFiles

CONSTANT Scenarios
VARIABLES scene, spend

\* One page of the cloud has URLs that the browser refuses.
MCSettings ==
    LET page(secure, name) == [secure |-> secure, host |-> name]
        url(tls, at, p) == [tls |-> tls, at |-> at, port |-> p]
    IN  {[candidates |-> <<>>, custom |-> NoUrl, page |-> page(FALSE, "localhost")],
         [candidates |-> <<>>, custom |-> url(FALSE, "base", 9080), page |-> page(FALSE, "localhost")],
         [candidates |-> <<url(FALSE, "relay", 9089), url(FALSE, "base", 9080)>>, custom |-> NoUrl,
          page |-> page(TRUE, "cloud")],
         [candidates |-> <<>>, custom |-> url(FALSE, "base", 90800), page |-> page(TRUE, "cloud")],
         [candidates |-> <<url(FALSE, "base", 9080), url(FALSE, "base", 90800), DemoUrl>>, custom |-> NoUrl,
          page |-> page(TRUE, "cloud")]}

MCDbcs == {{1}, {1, 2}}
\* The overlay's DBC has the 11 bit id, and the 29 bit id without its flag.
MCDbcIds == {[id |-> i, ext |-> FALSE] : i \in StdIds \cup ExtIds}

\* Ids below 3 are standard, and 4 is the flag; the bundled file knows one number both ways,
\* and a 29 bit id without its flag.
MCMessagesOf == [bundled |-> {1, 3, 5}, upload |-> {}, replay |-> {}, f1 |-> {2}, f2 |-> {7}, car |-> {6, 7}]
MCBatches ==
    LET frame(c, i) == [canId |-> c, id |-> i]
        none == 8
    IN  {<<frame(a, none), frame(none, none), frame(none, b)>> : a \in {0, 1, 5, 7}, b \in {0, 2, 3, 6}}

\* Scenes, with how often their budgeted steps may happen.
MCScenarios == [socket |-> 2, tx |-> 2, serial |-> 1, blackbox |-> 4, relay |-> 4, feed |-> 3, stream |-> 4, video |-> 1, dbc |-> 4, bus |-> 3]

rest(s) == /\ s # "socket" => UNCHANGED socketVars
           /\ s # "tx" => UNCHANGED txVars
           /\ s # "serial" => UNCHANGED serialVars
           /\ s # "blackbox" => UNCHANGED bbVars
           /\ s \notin {"relay", "feed"} => UNCHANGED relayVars
           /\ s \notin {"stream", "video"} => UNCHANGED overlayVars
           /\ s \notin {"dbc", "bus"} => UNCHANGED dbcFileVars
linksVars == <<socketVars, txVars, serialVars, bbVars, relayVars, overlayVars, dbcFileVars, scene, spend>>

Step(s, A) == scene = s /\ rest(s) /\ UNCHANGED scene /\ A
Free == UNCHANGED spend
Pay == spend > 0 /\ spend' = spend - 1

LinksInit ==
    /\ scene \in DOMAIN Scenarios /\ spend = Scenarios[scene]
    /\ SocketInit /\ TxInit /\ SerialInit /\ BbInit /\ RelayInit /\ StreamInit /\ DbcInit
    /\ scene # "socket" => online /\ settings = CHOOSE s \in Settings : TRUE
    /\ scene # "blackbox" => activeDbc = CHOOSE d \in Dbcs : TRUE
    /\ scene # "relay" => ~relayOn /\ relayUrl = CHOOSE room \in Rooms : TRUE
    /\ scene # "feed" => feedUrl = "demo"
    /\ scene \notin {"dbc", "bus"} => internal /\ cacheApi

SocketScene ==
    \/ Free /\ (Initialized \/ RetryFires \/ \E i \in DOMAIN socks : SocketOpens(i) \/ ProbeFails(i) \/ SocketCloses(i))
    \/ Pay /\ (UserReconnects \/ NetworkChanges)
TxScene ==
    \/ Free /\ \/ Mount \/ PollGate \/ PreviewFires \/ TxRetryFires
               \/ \E m \in TxMessages : form.msg = Unset /\ SelectMessage(m)
               \/ \E tx \in delayed : DelayEnds(tx)
               \/ Transmit(FALSE)
               \/ \E i \in DOMAIN txSocks : TxOpens(i) \/ BridgeAnswers(i) \/ AnswerArrives(i)
    \/ Pay /\ \/ LockChanges \/ EditSignal \/ Unmount \/ Transmit(TRUE)
              \/ \E m \in TxMessages : SelectMessage(m)
              \/ \E ref \in ackTimers : AckTimesOut(ref)
              \/ \E i \in DOMAIN txSocks : TxCloses(i)
SerialScene == Free /\ SerialNext
SyncScene == Step("blackbox", Free /\ SyncStep)
BlackboxScene ==
    \/ Free /\ (ToggleRecording \/ UpdateCounts \/ UploadFails \/ PageReloads
                \/ (\E can \in CanIds : LogFrame(can)) \/ \E dbc \in Dbcs : Starts(dbc) \/ DbcFetched(dbc))
    \/ Pay /\ (HandleSync \/ HandlePurge \/ SelectDbc)
RelayScene ==
    \/ Free /\ (RelaySide \/ RelayTimerFires \/ SessionAnswered)
    \/ Pay /\ (EditRelayUrl \/ ApplyRelay \/ ToggleRelay \/ CreateRelaySession)
FeedScene ==
    \/ Free /\ (FeedSide \/ Viewing \/ \E i \in DOMAIN links : LinkOpens(i))
    \/ Pay /\ (ToggleRelay \/ \E url \in {"demo", "car"} : ApplySource(url))
StreamScene ==
    \/ Free /\ (StreamSockets \/ StreamData \/ StreamRetry \/ DecoderLoads)
    \/ Pay /\ StreamUser

StartScene == \E s \in {"dbc", "bus"} : Step(s, Free /\ StartGoesOn)

LinksNext ==
    \/ Step("socket", SocketScene) \/ Step("tx", TxScene) \/ Step("serial", SerialScene)
    \/ SyncScene \/ Step("blackbox", BlackboxScene)
    \/ Step("relay", RelayScene) \/ Step("feed", FeedScene)
    \/ Step("stream", StreamScene) \/ Step("video", Free /\ Video)
    \/ StartScene \/ Step("dbc", Pay /\ DbcHandling) \/ Step("bus", Pay /\ Feed)

\* What was begun comes to its end: the start of Pecan gets through to its feed, whatever
\* GitHub answers, and a sync of the recorder stops once no frames come in any more.
StartAndSyncEnd == StartsUp /\ SyncEnds

LinksSpec == LinksInit /\ [][LinksNext]_linksVars /\ WF_linksVars(SyncScene) /\ WF_linksVars(StartScene)
=============================================================================
