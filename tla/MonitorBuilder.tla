--------------------------- MODULE MonitorBuilder ---------------------------
(***************************************************************************)
(* Pecan's monitor builder: blocks placed and wired on a canvas, values that *)
(* flow along the wires from effect to effect, and presets kept in the       *)
(* browser and in the user's cloud document. A number is kept as the term    *)
(* that made it, so a wrong operand shows.                                   *)
(***************************************************************************)
EXTENDS Naturals, Sequences, FiniteSets
LOCAL INSTANCE SequencesExt

CONSTANTS
    Feeds,       \* signals
    Kinds,       \* kinds of block the drag mode may be set to
    Inputs,      \* input handles of a math or advanced block
    Windows,     \* lengths typed into an average block; 0 is no limit
    Names,       \* names of presets
    CloudPresets,\* what the cloud document may hold: [presets, active]
    MaxBlocks    \* bound: blocks ever placed
ASSUME MonitorAssumption == MaxBlocks \in Nat /\ Windows \subseteq Nat

Term(op, args) == [op |-> op, of |-> args]
Zero == Term("0", <<>>)
Undef == Term("undefined", <<>>)
Readings == {Term("0", <<>>), Term("1", <<>>)}
DefaultWindow == 2      \* stands for 10
None == "none"
Calc == "CALC"

VARIABLES
    blocks, wires,      \* nodes: [id, kind, feed, set]; edges in order: [from, to, handle]
    placed,             \* blocks placed so far
    valueOf,            \* DataFlowContext: nodeValues
    history, seen,      \* of average blocks: the samples, and what the effect saw last
    reading,            \* the signals' latest values
    confirm,            \* blocks that ask "tap again to delete"
    dragMode, chosen    \* and selectedSignal
canvasVars == <<blocks, wires, placed, valueOf, history, seen, reading, confirm, dragMode, chosen>>
VARIABLES
    presets, active,    \* the page's presets: a sequence of [name, blocks, wires]
    stored,             \* localStorage
    session, asked, merged,     \* signed in; loads under way; one has answered in this session
    unsaved, overdue,   \* the debounced save; those of earlier sessions and visits, oldest first
    document,           \* the cloud document
    deleted,            \* ghost: names deleted, and not saved or merged since
    shown               \* the page is open
presetVars == <<presets, active, stored, session, asked, merged, unsaved, overdue, document, deleted, shown>>
monitorVars == <<canvasVars, presetVars>>

BlockIds == 1..MaxBlocks
Ids(bs) == {b.id : b \in bs}
NothingSaved == [presets |-> <<>>, active |-> None]

-----------------------------------------------------------------------------
(* What a block shows, given the values of the others *)

InputOf(ws, id, h) == SelectSeq(ws, LAMBDA w : w.to = id /\ (h = None \/ w.handle = h))
\* The first wire into a handle counts.
ValueAt(id, h) ==
    LET ws == InputOf(wires, id, h) IN IF ws = <<>> THEN Undef ELSE valueOf[Head(ws).from]

\* Mutant: operands swapped.
MathSwapped(b) == LET x == ValueAt(b.id, "a") y == ValueAt(b.id, "b") IN
    IF x # Undef /\ y # Undef THEN Term(b.set, <<y, x>>) ELSE IF x # Undef THEN x ELSE Zero
MathResult(b) == LET x == ValueAt(b.id, "a") y == ValueAt(b.id, "b") IN
    IF x # Undef /\ y # Undef THEN IF b.set = "div" /\ y = Zero THEN Zero ELSE Term(b.set, <<x, y>>)
    ELSE IF x # Undef THEN x ELSE Zero
OrZero(v) == IF v = Undef THEN Zero ELSE v
\* A formula that does not compile shows an error and counts as nought.
AdvancedResult(b) ==
    IF b.set = "bad" THEN Zero ELSE Term(b.set, <<OrZero(ValueAt(b.id, "a")), OrZero(ValueAt(b.id, "b"))>>)
AverageResult(b) == IF history[b.id] = <<>> THEN Zero ELSE Term("avg", history[b.id])
\* A block placed with the wrong choice names no signal.
Latest(f) == IF f \in Feeds THEN reading[f] ELSE Undef
\* A range block warns, it never writes a value.
Writes(b) == b.kind # "range" /\ (b.kind = "sensor" => Latest(b.feed) # Undef)
Result(b) ==
    CASE b.kind = "sensor" -> Latest(b.feed)
      [] b.kind = "math" -> MathResult(b)
      [] b.kind = "advanced" -> AdvancedResult(b)
      [] b.kind = "average" -> AverageResult(b)

\* updateNodeValue, by the effect of each kind of block.
Publishes(b) ==
    /\ b \in blocks /\ Writes(b) /\ valueOf[b.id] # Result(b)
    /\ valueOf' = [valueOf EXCEPT ![b.id] = Result(b)]
    /\ UNCHANGED <<blocks, wires, placed, history, seen, reading, confirm, dragMode, chosen, presetVars>>
SensorEffect(b) == b.kind = "sensor" /\ Publishes(b)
MathEffect(b) == b.kind = "math" /\ Publishes(b)
AverageShows(b) == b.kind = "average" /\ Publishes(b)
AdvancedEffect(b) == b.kind = "advanced" /\ Publishes(b)
\* The samples of an average.
LastOf(s, n) == IF n = 0 \/ Len(s) <= n THEN s ELSE SubSeq(s, Len(s) - n + 1, Len(s))
\* Mutant: a smaller window is obeyed only by what comes later.
Appended(s, v, n) == Append(IF Len(s) >= n /\ n > 0 THEN Tail(s) ELSE s, v)
Sampled(s, v, n) == LastOf(Append(s, v), n)
AverageSees(b) == <<ValueAt(b.id, None), b.set>>
AverageEffect(b) ==
    /\ b \in blocks /\ b.kind = "average" /\ seen[b.id] # AverageSees(b)
    /\ seen' = [seen EXCEPT ![b.id] = AverageSees(b)]
    /\ history' = IF ValueAt(b.id, None) = Undef THEN history
                  ELSE [history EXCEPT ![b.id] = Sampled(@, ValueAt(b.id, None), b.set)]
    /\ UNCHANGED <<blocks, wires, placed, valueOf, reading, confirm, dragMode, chosen, presetVars>>
Settled ==
    /\ \A b \in blocks : Writes(b) => valueOf[b.id] = Result(b)
    /\ \A b \in blocks : b.kind = "average" => seen[b.id] = AverageSees(b)
FeedArrives(f, r) ==
    /\ reading[f] # r /\ reading' = [reading EXCEPT ![f] = r]
    /\ UNCHANGED <<blocks, wires, placed, valueOf, history, seen, confirm, dragMode, chosen, presetVars>>

-----------------------------------------------------------------------------
(* Editing the canvas *)

\* Blocks that are gone unmount; the values they wrote stay.
SetCanvas(bs, ws) ==
    LET Stays(i) == i \in Ids(bs) /\ i \in Ids(blocks) IN
    /\ blocks' = bs /\ wires' = ws
    /\ history' = [i \in BlockIds |-> IF Stays(i) THEN history[i] ELSE <<>>]
    /\ seen' = [i \in BlockIds |-> IF Stays(i) THEN seen[i] ELSE <<Undef, 0>>]
    /\ confirm' = {i \in confirm : Stays(i)}
Edits(bs, ws) == shown /\ SetCanvas(bs, ws) /\ UNCHANGED <<valueOf, reading, presetVars>>

InitialSetting(kind) == CASE kind = "math" -> "sum" [] kind = "advanced" -> "A + B" [] kind = "average" -> DefaultWindow [] OTHER -> "-"
NewBlock(kind, feed) == [id |-> placed + 1, kind |-> kind, feed |-> feed, set |-> InitialSetting(kind)]
ChooseMode(k) ==
    /\ shown /\ k # dragMode /\ dragMode' = k
    /\ UNCHANGED <<blocks, wires, placed, valueOf, history, seen, reading, confirm, chosen, presetVars>>
\* What the list offers to drag or tap: signals, or the block to place.
Offered == IF dragMode \in {"math", "average", "advanced"} THEN {Calc} ELSE Feeds
Choose(f) ==
    /\ shown /\ f \in Offered /\ chosen' = f
    /\ UNCHANGED <<blocks, wires, placed, valueOf, history, seen, reading, confirm, dragMode, presetVars>>
ClearChoice ==
    /\ chosen # None /\ chosen' = None
    /\ UNCHANGED <<blocks, wires, placed, valueOf, history, seen, reading, confirm, dragMode, presetVars>>
Drop(f) ==
    /\ placed < MaxBlocks /\ f \in Offered /\ placed' = placed + 1
    /\ Edits(blocks \cup {NewBlock(dragMode, f)}, wires) /\ UNCHANGED <<dragMode, chosen>>
\* The mode may have changed since the choice.
PaneClick ==
    /\ placed < MaxBlocks /\ chosen # None /\ placed' = placed + 1 /\ chosen' = None
    /\ Edits(blocks \cup {NewBlock(dragMode, chosen)}, wires) /\ UNCHANGED dragMode

Connect(b, c, h) ==
    /\ {b, c} \subseteq blocks /\ c.kind \in {"math", "advanced", "average"}
    /\ h \in (IF c.kind = "average" THEN {None} ELSE Inputs)
    /\ b.id < c.id  \* bound: no loops
    /\ LET w == [from |-> b.id, to |-> c.id, handle |-> h] IN
       w \notin Range(wires) /\ Edits(blocks, Append(wires, w))
    /\ UNCHANGED <<placed, dragMode, chosen>>
WireDoubleClicked(w) ==
    /\ w \in Range(wires) /\ {w.from, w.to} \subseteq Ids(blocks)    \* others are not drawn
    /\ Edits(blocks, SelectSeq(wires, LAMBDA v : v # w)) /\ UNCHANGED <<placed, dragMode, chosen>>
\* The settings of a block: its limits, its operation, its window, its formula.
Update(b, s) ==
    /\ b \in blocks /\ s # b.set
    /\ Edits((blocks \ {b}) \cup {[b EXCEPT !.set = s]}, wires) /\ UNCHANGED <<placed, dragMode, chosen>>
UpdateLimits(b, l) == b.kind = "range" /\ Update(b, l)
UpdateOp(b, op) == b.kind = "math" /\ Update(b, op)
UpdateWindow(b, n) == b.kind = "average" /\ Update(b, n)
UpdateExpression(b, e) == b.kind = "advanced" /\ Update(b, e)
\* A tap beside the block's inputs asks, a second one within the time deletes the block; the wires stay.
TapBlock(b) ==
    /\ b \in blocks
    /\ IF b.id \in confirm THEN Edits(blocks \ {b}, wires)
       ELSE confirm' = confirm \cup {b.id} /\ UNCHANGED <<blocks, wires, valueOf, history, seen, reading, presetVars>>
    /\ UNCHANGED <<placed, dragMode, chosen>>
RangeTapped(b) == b.kind = "range" /\ TapBlock(b)
MathTapped(b) == b.kind = "math" /\ TapBlock(b)
AverageTapped(b) == b.kind = "average" /\ TapBlock(b)
AdvancedTapped(b) == b.kind = "advanced" /\ TapBlock(b)
SensorTapped(b) == b.kind = "sensor" /\ TapBlock(b)
ConfirmEnds(i) ==
    /\ i \in confirm /\ confirm' = confirm \ {i}
    /\ UNCHANGED <<blocks, wires, placed, valueOf, history, seen, reading, dragMode, chosen, presetVars>>
\* The delete key, by React Flow itself: the block and its wires.
KeyDeletes(b) ==
    /\ b \in blocks /\ Edits(blocks \ {b}, SelectSeq(wires, LAMBDA w : b.id \notin {w.from, w.to}))
    /\ UNCHANGED <<placed, dragMode, chosen>>

-----------------------------------------------------------------------------
(* Presets *)

NamesOf(ps) == {ps[i].name : i \in DOMAIN ps}
Named(ps, n) == CHOOSE p \in Range(ps) : p.name = n
CanvasOf(n, bs, ws) == [name |-> n, blocks |-> bs, wires |-> ws]
\* Mutant: always a new one.
Added(ps, p) == Append(ps, p)
Put(ps, p) ==
    IF p.name \in NamesOf(ps) THEN [i \in DOMAIN ps |-> IF ps[i].name = p.name THEN p ELSE ps[i]] ELSE Append(ps, p)
\* Setting presets or the active one stores both, and saves them when there are any.
Syncs(ps, a, in) == IF in /\ ps # <<>> THEN [presets |-> ps, active |-> a] ELSE unsaved
SetPresets(ps, a) ==
    /\ presets' = ps /\ active' = a /\ stored' = [presets |-> ps, active |-> a]
    /\ unsaved' = Syncs(ps, a, session)
KeepsCanvas == UNCHANGED canvasVars
ShowsPreset(ps, a) ==
    IF a \in NamesOf(ps) THEN SetCanvas(Named(ps, a).blocks, Named(ps, a).wires)
    ELSE UNCHANGED <<blocks, wires, history, seen, confirm>>

SavePreset(n) ==
    /\ shown /\ SetPresets(Put(presets, CanvasOf(n, blocks, wires)), n) /\ deleted' = deleted \ {n}
    /\ KeepsCanvas /\ UNCHANGED <<session, asked, merged, overdue, document, shown>>
LoadPreset(n) ==
    /\ shown /\ n # active /\ n \in NamesOf(presets) /\ SetPresets(presets, n) /\ ShowsPreset(presets, n)
    /\ UNCHANGED <<placed, valueOf, reading, dragMode, chosen, session, asked, merged, overdue, document, deleted, shown>>
ActiveAfter(n) == IF active = n THEN None ELSE active
DeletePreset(n) ==
    /\ shown /\ n = active /\ n \in NamesOf(presets)
    /\ SetPresets(SelectSeq(presets, LAMBDA p : p.name # n), ActiveAfter(n))
    /\ SetCanvas({}, <<>>) /\ deleted' = deleted \cup {n}
    /\ UNCHANGED <<placed, valueOf, reading, dragMode, chosen, session, asked, merged, overdue, document, shown>>
\* A change of the session makes a debounce of its own: what the one before had pending still fires.
Overdue == IF unsaved = NothingSaved THEN overdue ELSE Append(overdue, unsaved)
SignsIn ==
    /\ shown /\ ~session /\ session' = TRUE /\ asked' = asked + 1 /\ merged' = FALSE
    /\ overdue' = Overdue /\ unsaved' = IF presets = <<>> THEN NothingSaved ELSE [presets |-> presets, active |-> active]
    /\ KeepsCanvas /\ UNCHANGED <<presets, active, stored, document, deleted, shown>>
\* A load under way is not given up.
SignsOut ==
    /\ session /\ session' = FALSE /\ merged' = FALSE /\ overdue' = Overdue /\ unsaved' = NothingSaved
    /\ KeepsCanvas /\ UNCHANGED <<presets, active, stored, asked, document, deleted, shown>>
\* Mutant: what is in the cloud replaces what is here, unless there is nothing.
CloudUnlessHere(ps, cs) == IF ps = <<>> THEN cs ELSE ps
Merged(ps, cs) == FoldLeft(Put, ps, cs)
PresetsArrive ==
    /\ asked > 0 /\ asked' = asked - 1 /\ merged' = session
    /\ LET ps == Merged(presets, document.presets) IN
       IF document.presets = <<>> THEN KeepsCanvas /\ UNCHANGED <<presets, active, stored, unsaved>>
       ELSE /\ SetPresets(ps, IF document.active = None THEN active ELSE document.active)
            /\ ShowsPreset(document.presets, document.active) /\ UNCHANGED <<placed, valueOf, reading, dragMode, chosen>>
    /\ deleted' = deleted \ NamesOf(document.presets)
    /\ UNCHANGED <<session, overdue, document, shown>>
PresetsFail ==
    /\ asked > 0 /\ asked' = asked - 1
    /\ KeepsCanvas /\ UNCHANGED <<presets, active, stored, session, merged, unsaved, overdue, document, deleted, shown>>
PresetSaveFires(ok) ==
    /\ IF overdue # <<>> THEN overdue' = Tail(overdue) /\ UNCHANGED unsaved
       ELSE unsaved # NothingSaved /\ unsaved' = NothingSaved /\ UNCHANGED overdue
    /\ document' = IF ~ok THEN document ELSE IF overdue # <<>> THEN Head(overdue) ELSE unsaved
    /\ KeepsCanvas /\ UNCHANGED <<presets, active, stored, session, asked, merged, deleted, shown>>
\* Leaving and coming back: the canvas is that of the active preset, the session is asked for anew,
\* a load under way is forgotten and a save is not.
CloseBuilder ==
    /\ shown /\ shown' = FALSE /\ session' = FALSE /\ asked' = 0 /\ merged' = FALSE
    /\ overdue' = Overdue /\ unsaved' = NothingSaved
    /\ SetCanvas({}, <<>>) /\ valueOf' = [i \in BlockIds |-> Undef] /\ dragMode' = "sensor" /\ chosen' = None
    /\ presets' = <<>> /\ active' = None
    /\ UNCHANGED <<placed, reading, stored, document, deleted>>
OpenBuilder ==
    /\ ~shown /\ shown' = TRUE /\ presets' = stored.presets /\ active' = stored.active
    /\ ShowsPreset(stored.presets, stored.active)
    /\ UNCHANGED <<placed, valueOf, reading, dragMode, chosen, stored, session, asked, merged, unsaved, overdue, document, deleted>>

\* The page with nothing stored; or with blocks dropped already.
MonitorInit(bs) ==
    /\ blocks = bs /\ wires = <<>> /\ placed = Cardinality(bs) /\ valueOf = [i \in BlockIds |-> Undef]
    /\ history = [i \in BlockIds |-> <<>>] /\ seen = [i \in BlockIds |-> <<Undef, 0>>]
    /\ reading = [f \in Feeds |-> Undef] /\ confirm = {} /\ dragMode = "sensor" /\ chosen = None
    /\ presets = <<>> /\ active = None /\ stored = NothingSaved /\ session = FALSE /\ asked = 0 /\ merged = FALSE
    /\ unsaved = NothingSaved /\ overdue = <<>> /\ document \in CloudPresets /\ deleted = {} /\ shown = TRUE

-----------------------------------------------------------------------------
(* Properties *)

\* The number a block of signals a and b stands for, once every effect has run.
Wired(b, h) == LET ws == InputOf(wires, b.id, h) IN Len(ws) = 1 /\ \E s \in blocks : s.kind = "sensor" /\ s.id = ws[1].from
FeedOf(b, h) == LET w == InputOf(wires, b.id, h)[1] IN Latest((CHOOSE s \in blocks : s.id = w.from).feed)
\* When the effects have settled, a math block with one signal on either handle shows the operation on
\* their latest readings, in that order: values go through a context one effect at a time.
SettledIsCurrent ==
    Settled => \A b \in blocks : b.kind = "math" /\ Wired(b, "a") /\ Wired(b, "b") =>
        LET x == FeedOf(b, "a") y == FeedOf(b, "b") IN
        x # Undef /\ y # Undef => valueOf[b.id] = IF b.set = "div" /\ y = Zero THEN Zero ELSE Term(b.set, <<x, y>>)
\* Once its effect ran, an average holds no more samples than its window, however the window was changed.
WindowHeld ==
    \A b \in blocks : b.kind = "average" /\ b.set > 0 /\ seen[b.id] = AverageSees(b) /\ ValueAt(b.id, None) # Undef
        => Len(history[b.id]) <= b.set
\* No two presets share a name, here or in the cloud, and the active one is there: saving, merging and deleting.
PresetsWellNamed ==
    /\ \A i, j \in DOMAIN presets : presets[i].name = presets[j].name => i = j
    /\ active # None => active \in NamesOf(presets)
\* Once the cloud's presets were merged, a save drops none of them but those the user deleted: a save
\* left over from an earlier session or visit may write over them, but one that holds them is to follow.
CloudPresetsKept ==
    [][merged /\ document' # document =>
        NamesOf(document.presets) \ NamesOf(document'.presets) \subseteq deleted \cup NamesOf(unsaved'.presets)]_monitorVars
=============================================================================
