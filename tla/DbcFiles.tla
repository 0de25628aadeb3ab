------------------------------ MODULE DbcFiles ------------------------------
\* Which DBC Pecan decodes with: the text in memory (utils/canProcessor.ts), its copies in
\* the Cache API and in local storage, the team's files fetched from GitHub
\* (services/DbcService.ts, components/DbcSelector.tsx), uploads and reverts
\* (SettingsModal.tsx), the start of the program (App.tsx, WebSocketService.ts), and how a
\* frame on the bus finds its message in it. A DBC is a name for its text.
EXTENDS Integers, Sequences, FiniteSets

CONSTANTS TeamFiles,    \* the DBC files of the team's repository
          MessagesOf,   \* the message ids of each DBC text
          Batches,      \* what the feed may bring: lists of frames
          StdMax, Eff   \* CAN_STD_MAX and CAN_EFF_FLAG, scaled down

ASSUME DbcAssumption == StdMax \in Nat /\ Eff \in Nat /\ StdMax < Eff /\ "absent" \notin TeamFiles

VARIABLES
    internal,       \* the build lists the team's files (VITE_INTERNAL)
    cacheApi,         \* the Cache API is available
    cacheCopy, storedCopy, chosenFile,      \* cache.dbc, dbc-file-content, dbc-selected-file
    active,         \* dbcFile, the text in memory
    stage,          \* of the start: loading, listing, applying, connected
    applies,        \* calls of fetchAndApplyDBC under way
    puts,           \* texts on their way into the Cache API
    torn,           \* a copy was not kept: a put failed, or the page went away before it
    saving,         \* an upload is being written
    selector,       \* DbcSelector's state
    liveDecoder, serialDecoder,     \* what the processors of the WebSocket and the serial port were made from
    lookups, label,     \* the text the lookup caches belong to and what they hold; the last label shown
    got,            \* the last list of frames, and what it was decoded to
    picked          \* what the user, or the start of the program, chose last

diskVars == <<cacheCopy, storedCopy, chosenFile>>
decoderVars == <<liveDecoder, serialDecoder>>
lookupVars == <<lookups, label>>

dbcFileVars == <<internal, cacheApi, diskVars, active, stage, applies, puts, torn, saving, selector, decoderVars, lookupVars, got, picked>>

Bundled == "bundled"    \* assets/dbc.dbc or assets/example.dbc
Absent == "absent"
NoLabel == [says |-> Absent, under |-> Absent]
NoBatch == [of |-> <<>>, as |-> <<>>]

\* loadDBCFromCache: the Cache API first, then local storage.
\* Mutant: local storage first.
LoadsStored == IF storedCopy # Absent THEN storedCopy ELSE IF cacheApi /\ cacheCopy # Absent THEN cacheCopy ELSE Bundled
LoadedText == IF cacheApi /\ cacheCopy # Absent THEN cacheCopy
              ELSE IF storedCopy # Absent THEN storedCopy ELSE Bundled

-----------------------------------------------------------------------------
\* The start of the program.

\* The serial service makes its processor while the modules are loaded, before any copy is read.
PageComesUp ==
    /\ active' = Bundled /\ stage' = "loading" /\ applies' = {} /\ puts' = <<>> /\ saving' = "no"
    /\ liveDecoder' = Absent /\ serialDecoder' = Bundled
    /\ lookups' = [of |-> Absent, holds |-> Absent] /\ label' = NoLabel /\ got' = NoBatch
    /\ selector' = [busy |-> FALSE, says |-> "nothing"]
ReloadsPage ==
    /\ torn' = (torn \/ puts # <<>> \/ saving # "no")
    /\ PageComesUp
    /\ UNCHANGED <<internal, cacheApi, diskVars, picked>>

\* The processor is made before the team's file is asked for, and only once.
LoadsCopy ==
    /\ stage = "loading"
    /\ active' = LoadedText /\ liveDecoder' = LoadedText
    /\ stage' = IF internal THEN "listing" ELSE "connected"
    /\ UNCHANGED <<internal, cacheApi, diskVars, applies, puts, torn, saving, selector, serialDecoder, lookupVars, got, picked>>

Apply(who, f) == [who |-> who, file |-> f, step |-> "file"]
ListArrives ==
    /\ stage = "listing" /\ TeamFiles # {} /\ stage' = "applying"
    /\ applies' = applies \cup {Apply("start", IF chosenFile \in TeamFiles THEN chosenFile ELSE CHOOSE f \in TeamFiles : TRUE)}
    /\ UNCHANGED <<internal, cacheApi, diskVars, active, puts, torn, saving, selector, decoderVars, lookupVars, got, picked>>
ListFails ==
    /\ stage = "listing" /\ stage' = "connected"
    /\ UNCHANGED <<internal, cacheApi, diskVars, active, applies, puts, torn, saving, selector, decoderVars, lookupVars, got, picked>>

-----------------------------------------------------------------------------
\* fetchAndApplyDBC.

\* Mutant: the start connects only with the file.
CallerNeedsFile(a, says) ==
    IF a.who = "start"
    THEN stage' = (IF says = "failed" THEN stage ELSE "connected") /\ UNCHANGED selector
    ELSE selector' = [busy |-> FALSE, says |-> says] /\ UNCHANGED stage
\* What its caller does when it returns.
CallerGoesOn(a, says) ==
    IF a.who = "start"
    THEN stage' = "connected" /\ UNCHANGED selector
    ELSE selector' = [busy |-> FALSE, says |-> says] /\ UNCHANGED stage

FileFails(a) ==
    /\ a.step = "file" /\ applies' = applies \ {a} /\ CallerGoesOn(a, "failed")
    /\ UNCHANGED <<internal, cacheApi, diskVars, active, puts, torn, saving, decoderVars, lookupVars, got, picked>>
FileArrives(a) ==
    /\ a.step = "file" /\ applies' = (applies \ {a}) \cup {[a EXCEPT !.step = "commit"]}
    /\ UNCHANGED <<internal, cacheApi, diskVars, active, stage, puts, torn, saving, selector, decoderVars, lookupVars, got, picked>>
\* The commit that touched the file last, which may be missing; then memory and its name together.
CommitArrives(a) ==
    /\ a.step = "commit" /\ applies' = (applies \ {a}) \cup {[a EXCEPT !.step = "put"]}
    /\ active' = a.file /\ chosenFile' = a.file /\ picked' = a.file
    /\ puts' = Append(puts, a)
    /\ UNCHANGED <<internal, cacheApi, cacheCopy, storedCopy, stage, torn, saving, selector, decoderVars, lookupVars, got>>

\* Puts go into the cache in the order they were called in; one that cannot goes to local storage.
Keeps(text, fits) == IF cacheApi /\ fits THEN cacheCopy' = text /\ UNCHANGED storedCopy
                     ELSE storedCopy' = text /\ UNCHANGED cacheCopy
PutEnds(fits) ==
    /\ puts # <<>> /\ puts' = Tail(puts)
    /\ Keeps(Head(puts).file, fits) /\ torn' = (torn \/ (cacheApi /\ ~fits))
    /\ applies' = {a \in applies : ~(a.who = Head(puts).who /\ a.step = "put")}
    /\ CallerGoesOn(Head(puts), Head(puts).file)
    /\ UNCHANGED <<internal, cacheApi, chosenFile, active, saving, decoderVars, lookupVars, got, picked>>

SelectsFile(f) ==
    /\ internal /\ ~selector.busy
    /\ selector' = [busy |-> TRUE, says |-> "fetching"] /\ applies' = applies \cup {Apply("user", f)}
    /\ UNCHANGED <<internal, cacheApi, diskVars, active, stage, puts, torn, saving, decoderVars, lookupVars, got, picked>>

\* uploadFileToCache takes the old copy out, puts the new one in, and reloads.
UploadStarts ==
    /\ saving = "no" /\ saving' = "deleted"
    /\ cacheCopy' = IF cacheApi THEN Absent ELSE cacheCopy
    /\ UNCHANGED <<internal, cacheApi, storedCopy, chosenFile, active, stage, applies, puts, torn, selector, decoderVars, lookupVars, got, picked>>
UploadEnds ==
    /\ saving = "deleted"
    /\ cacheCopy' = (IF cacheApi THEN "upload" ELSE cacheCopy) /\ storedCopy' = "upload"
    /\ picked' = "upload" /\ torn' = (torn \/ puts # <<>>)
    /\ PageComesUp /\ UNCHANGED <<internal, cacheApi, chosenFile>>

\* clearDbcCache; the name of the chosen file stays.
ClearsCopies ==
    /\ cacheCopy' = (IF cacheApi THEN Absent ELSE cacheCopy) /\ storedCopy' = Absent
    /\ picked' = Bundled /\ torn' = (torn \/ puts # <<>>)
    /\ PageComesUp /\ UNCHANGED <<internal, cacheApi, chosenFile>>

-----------------------------------------------------------------------------
\* Texts that come with data: a replay's embedded DBC, and the car's own.

\* Mutant: the live processor is made anew.
ReplayTakesOver ==
    /\ active' = "replay" /\ liveDecoder' = IF liveDecoder = Absent THEN Absent ELSE "replay"
    /\ UNCHANGED <<internal, cacheApi, diskVars, stage, applies, puts, torn, saving, selector, serialDecoder, lookupVars, got, picked>>
ReplayImported ==
    /\ active' = "replay"
    /\ UNCHANGED <<internal, cacheApi, diskVars, stage, applies, puts, torn, saving, selector, decoderVars, lookupVars, got, picked>>
CarSendsDbc ==
    /\ stage = "connected" /\ active' = "car" /\ liveDecoder' = "car"
    /\ UNCHANGED <<internal, cacheApi, diskVars, stage, applies, puts, torn, saving, selector, serialDecoder, lookupVars, got, picked>>

\* getValueDefs, getSignalAxisDef: cached until the text changes.
\* Mutant: until the page is reloaded.
FreshAtFirst == IF lookups.of = Absent THEN [of |-> active, holds |-> Absent] ELSE lookups
Fresh == IF lookups.of = active THEN lookups ELSE [of |-> active, holds |-> Absent]
LabelShown ==
    /\ lookups' = [Fresh EXCEPT !.holds = IF @ = Absent THEN active ELSE @]
    /\ label' = [says |-> lookups'.holds, under |-> active]
    /\ UNCHANGED <<internal, cacheApi, diskVars, active, stage, applies, puts, torn, saving, selector, decoderVars, got, picked>>

-----------------------------------------------------------------------------
\* A frame's way into the DBC. Ids are unsigned; the flag is bit 31.

BusIds == 0..(2 * Eff - 1)
Undefined == 2 * Eff
ToDbcId(i) == IF i > StdMax /\ i < Eff THEN i + Eff ELSE i
\* The flag the other way round: & takes it away, but | makes a signed number of the result,
\* negative where the flag was added, and no id of a DBC.
Signed(x) == IF x >= Eff THEN x - 2 * Eff ELSE x
Toggled(i) == IF i >= Eff THEN i - Eff ELSE Signed(i + Eff)
\* The second try has the flag the other way round.
\* Mutant: one try.
OnlyGiven(i) == <<ToDbcId(i)>>
Tries(i) == <<ToDbcId(i), Toggled(ToDbcId(i))>>
DecodesTo(i, messages) == {Tries(i)[k] : k \in {k \in DOMAIN Tries(i) :
                              Tries(i)[k] \in messages /\ \A j \in 1..(k - 1) : Tries(i)[j] \notin messages}}

\* processWebSocketMessage: a list's frames one after the other; zero does not count as an id.
Given(x) == x \in BusIds \ {0}
ObjectId(frame) == IF Given(frame.canId) THEN frame.canId ELSE frame.id
\* Mutant: a frame without an id ends the batch.
FramesUpTo(list) == LET bad == {k \in DOMAIN list : ObjectId(list[k]) \notin BusIds}
                    IN  IF bad = {} THEN list ELSE SubSeq(list, 1, (CHOOSE k \in bad : \A j \in bad : k <= j) - 1)
FramesOf(list) ==
    LET kept[k \in 0..Len(list)] ==
            IF k = 0 THEN <<>>
            ELSE IF ObjectId(list[k]) \in BusIds THEN Append(kept[k - 1], list[k]) ELSE kept[k - 1]
    IN  kept[Len(list)]

\* A text's ids are those of the bus, and what the feed says is one, or not defined.
Texts == {Bundled, "upload", "replay", "car"} \cup TeamFiles
ASSUME TextsAssumption == \A t \in Texts : t \in DOMAIN MessagesOf /\ MessagesOf[t] \subseteq BusIds
ASSUME BatchesAssumption == \A list \in Batches : list \in Seq([canId : 0..Undefined, id : 0..Undefined])

BatchArrives(list) ==
    /\ stage = "connected"
    /\ got' = [of |-> list, as |-> LET kept == FramesOf(list) IN
                 [k \in DOMAIN kept |-> [id |-> ObjectId(kept[k]), with |-> liveDecoder,
                                         to |-> DecodesTo(ObjectId(kept[k]), MessagesOf[liveDecoder])]]]
    /\ UNCHANGED <<internal, cacheApi, diskVars, active, stage, applies, puts, torn, saving, selector, decoderVars, lookupVars, picked>>

-----------------------------------------------------------------------------
DbcInit ==
    /\ internal \in BOOLEAN /\ cacheApi \in BOOLEAN
    /\ cacheCopy = Absent /\ storedCopy = Absent /\ chosenFile = Absent /\ active = Bundled
    /\ stage = "loading" /\ applies = {} /\ puts = <<>> /\ torn = FALSE /\ saving = "no"
    /\ selector = [busy |-> FALSE, says |-> "nothing"]
    /\ liveDecoder = Absent /\ serialDecoder = Bundled
    /\ lookups = [of |-> Absent, holds |-> Absent] /\ label = NoLabel /\ got = NoBatch /\ picked = Bundled

\* What the program and GitHub do.
StartGoesOn ==
    \/ LoadsCopy \/ ListArrives \/ ListFails \/ PutEnds(TRUE)
    \/ \E a \in applies : FileFails(a) \/ FileArrives(a) \/ CommitArrives(a)
Feed == CarSendsDbc \/ \E list \in Batches : BatchArrives(list)
\* What users and the car do.
DbcHandling ==
    \/ UploadStarts \/ UploadEnds \/ ClearsCopies \/ ReloadsPage \/ ReplayImported \/ CarSendsDbc \/ LabelShown
    \/ PutEnds(FALSE)
    \/ \E f \in TeamFiles : SelectsFile(f)

DbcNext == StartGoesOn \/ Feed \/ DbcHandling
DbcSpec == DbcInit /\ [][DbcNext]_dbcFileVars

-----------------------------------------------------------------------------
\* A DBC that was chosen is the one the next start of the program loads, unless its copy
\* could not be kept (DbcService.ts:88-96, SettingsModal.tsx:42-75, canProcessor.ts:207-248).
\* In an internal build the start itself then chooses a team's file.
ReloadFindsPicked == puts = <<>> /\ saving = "no" /\ ~torn => LoadedText = picked

\* The live decoder changes only when it is made at the start, and when the car sends a DBC:
\* neither a replay nor a label is a reason (WebSocketService.ts:67, 316-319).
LiveDecoderStands == [][liveDecoder' # liveDecoder => stage = "loading" \/ liveDecoder' \in {"car", Absent}]_dbcFileVars

\* Once it has read its copies the program comes to connect, whatever GitHub answers
\* (WebSocketService.ts:76-99).
StartsUp == stage \in {"listing", "applying"} ~> stage \in {"connected", "loading"}

\* Labels and axis ranges are those of the text in memory when they are looked up
\* (canProcessor.ts:275-281), not of the one before it.
LabelsAreFresh == label.says = label.under

\* A frame is decoded exactly if the DBC has a message with its number and of its own kind, or
\* for a 29 bit id one that lacks the flag; the one of its own kind goes first. An 11 bit id
\* never finds a message that has the flag, though the fallback is meant for it too
\* (canProcessor.ts:477-498).
Number(i) == IF i < Eff THEN i ELSE i - Eff
FindsItsMessage ==
    \A k \in DOMAIN got.as :
        LET d == got.as[k] IN
        /\ d.to # {} <=> \E m \in MessagesOf[d.with] :
                           m = ToDbcId(d.id) \/ (d.id > StdMax /\ m = Number(d.id))
        /\ ToDbcId(d.id) \in MessagesOf[d.with] => d.to = {ToDbcId(d.id)}

\* No frame of a list is lost or changes its place because of its neighbours: each has as many
\* before it as there are with an id before it in the list; one that says canId 0 and nothing
\* else is the code's own loss (canProcessor.ts:693-716).
Good(list) == {k \in DOMAIN list : ObjectId(list[k]) \in BusIds}
Place(list, k) == Cardinality({j \in Good(list) : j <= k})
NoFrameLost ==
    /\ Len(got.as) = Cardinality(Good(got.of))
    /\ \A k \in Good(got.of) : got.as[Place(got.of, k)].id = ObjectId(got.of[k])

\* Live, replayed and labelled values are those of the DBC that was chosen: it is found again,
\* a frame finds its own message in it and no frame of a list is left out, and the live decoder
\* changes for the car alone.
DecodesAsChosen ==
    [](ReloadFindsPicked /\ LabelsAreFresh /\ FindsItsMessage /\ NoFrameLost) /\ LiveDecoderStands
=============================================================================
