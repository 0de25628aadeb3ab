---------------------------- MODULE ThrottleMap ----------------------------
(***************************************************************************)
(* Pecan's throttle mapper: pedal to torque by two dead zones and a power     *)
(* curve, simulated on the page, sent to the store as frames, drawn, and      *)
(* exported as a C function or a table. Pedal, zones and torque are counted   *)
(* in thousandths.                                                         *)
(***************************************************************************)
EXTENDS Integers, Sequences, FiniteSets
LOCAL INSTANCE SequencesExt

CONSTANTS
    Pedals, Zones,      \* positions of the sliders
    Gammas,             \* whole powers
    FrameNames,         \* ids typed for the frame: [base, digits], 16 after 0x
    TableSizes
ASSUME ThrottleAssumption ==
    /\ Pedals \subseteq 0..1000 /\ Zones \subseteq 30..400 /\ Gammas \subseteq Nat \ {0} /\ TableSizes \subseteq Nat \ {0, 1}

VARIABLES
    pedal, dzLow, dzHigh, gamma,    \* the sliders
    frameId, decoder,               \* canId; the CAN processor is there
    cooling, lastRaw, ingested,       \* less than 50 ms since the last frame; lastRawRef; the store's newest frame
    drawnCurve,
    codeMode, tableSize, copiedCode,
    heldByOther, serial, delay, confirming  \* the page's lock is another's; a serial link; the dispatcher
mapVars == <<pedal, dzLow, dzHigh, gamma>>
frameVars == <<frameId, decoder, cooling, lastRaw, ingested>>
codeVars == <<codeMode, tableSize, copiedCode>>
sendVars == <<heldByOther, serial, delay, confirming>>
throttleVars == <<mapVars, frameVars, drawnCurve, codeVars, sendVars>>

Powered(n, d, g) == (1000 * n ^ g) \div (d ^ g)      \* of n / d, rounded down to thousandths
\* calculateOutput, already in the thousandths of getCanHex. Mutants: no lower dead zone; of its mirror image.
NoLowZone(x, low, high, g) == IF x > 1000 - high THEN 1000 ELSE Powered(x - low, 1000 - high - low, g)
Mirrored(x, low, high, g) == IF x < high THEN 0 ELSE IF x > 1000 - low THEN 1000 ELSE Powered(x - high, 1000 - high - low, g)
CalculateOutput(x, low, high, g) ==
    IF x < low THEN 0 ELSE IF x > 1000 - high THEN 1000 ELSE Powered(x - low, 1000 - high - low, g)
GetCanHex(y) == IF y > 1000 THEN 1000 ELSE IF y < 0 THEN 0 ELSE y
\* parseCanId: the number typed.
ParseCanId(n) == FoldLeft(LAMBDA sum, d : sum * n.base + d, 0, n.digits)
Raw == GetCanHex(CalculateOutput(pedal, dzLow, dzHigh, gamma))

\* The exported C function: clamped into the active range, then the same curve.
MathCode(x, low, high, g) ==
    LET c == IF x < low THEN low ELSE IF x > 1000 - high THEN 1000 - high ELSE x IN Powered(c - low, 1000 - high - low, g)
\* The exported table, at the pedal positions its entries stand for, where these are whole.
TableCode(size, low, high, g) == [i \in 0..(size - 1) |-> CalculateOutput((1000 * i) \div (size - 1), low, high, g)]

-----------------------------------------------------------------------------
\* Decoding runs when the frame, its id or the decoder changes; the store hears of it unless one just went
\* or the bytes are the last sent.
Decodes ==
    LET changed == Raw' # Raw \/ frameId' # frameId \/ decoder' # decoder
        goes == decoder' /\ changed /\ ~cooling /\ Raw' # lastRaw
    IN  /\ cooling' = (cooling \/ goes)
        /\ lastRaw' = IF goes THEN Raw' ELSE lastRaw
        /\ ingested' = IF goes THEN [id |-> ParseCanId(frameId'), raw |-> Raw'] ELSE ingested
Cools == cooling /\ cooling' = FALSE /\ UNCHANGED <<mapVars, frameId, decoder, lastRaw, ingested, drawnCurve, codeVars, sendVars>>
DecoderReady == ~decoder /\ decoder' = TRUE /\ UNCHANGED <<mapVars, frameId, drawnCurve, codeVars, sendVars>> /\ Decodes
TypeFrameId(n) == n # frameId /\ frameId' = n /\ UNCHANGED <<mapVars, decoder, drawnCurve, codeVars, sendVars>> /\ Decodes

\* The canvas is drawn again when the sliders move. Mutant: not with the pedal.
DrawsZones == drawnCurve' = [drawnCurve EXCEPT !.low = dzLow', !.high = dzHigh', !.gamma = gamma']
DrawsCurve == drawnCurve' = [low |-> dzLow', high |-> dzHigh', gamma |-> gamma', at |-> pedal']
SliderMoves == UNCHANGED <<frameId, decoder, codeVars, sendVars>> /\ Decodes /\ DrawsCurve
SetInputVal(x) == x # pedal /\ pedal' = x /\ UNCHANGED <<dzLow, dzHigh, gamma>> /\ SliderMoves
SetDzLow(z) == z # dzLow /\ dzLow' = z /\ UNCHANGED <<pedal, dzHigh, gamma>> /\ SliderMoves
SetDzHigh(z) == z # dzHigh /\ dzHigh' = z /\ UNCHANGED <<pedal, dzLow, gamma>> /\ SliderMoves
SetGamma(g) == g # gamma /\ gamma' = g /\ UNCHANGED <<pedal, dzLow, dzHigh>> /\ SliderMoves

CodeOnly == UNCHANGED <<mapVars, frameVars, drawnCurve, sendVars>>
SetCodeMode(m) == m # codeMode /\ codeMode' = m /\ CodeOnly /\ UNCHANGED <<tableSize, copiedCode>>
SetTableSize(n) == codeMode = "table" /\ n # tableSize /\ tableSize' = n /\ CodeOnly /\ UNCHANGED <<codeMode, copiedCode>>
\* The generated code, as the function it computes.
CopyCode ==
    /\ copiedCode' = IF codeMode = "math" THEN [size |-> 0, of |-> [x \in Pedals |-> MathCode(x, dzLow, dzHigh, gamma)], at |-> mapVars]
                     ELSE [size |-> tableSize, of |-> TableCode(tableSize, dzLow, dzHigh, gamma), at |-> mapVars]
    /\ CodeOnly /\ UNCHANGED <<codeMode, tableSize>>

SendOnly == UNCHANGED <<mapVars, frameVars, drawnCurve, codeVars>>
LockMoves == heldByOther' = ~heldByOther /\ SendOnly /\ UNCHANGED <<serial, delay, confirming>>
SerialMoves == serial' = ~serial /\ SendOnly /\ UNCHANGED <<heldByOther, delay, confirming>>
SetDelay(d) == d # delay /\ delay' = d /\ SendOnly /\ UNCHANGED <<heldByOther, serial, confirming>>
TransmitClicked ==
    /\ ~confirming /\ (~heldByOther \/ serial)
    /\ confirming' = TRUE /\ SendOnly /\ UNCHANGED <<heldByOther, serial, delay>>
\* Confirming only closes the overlay, as cancelling does: the frame's sending is not written yet.
Confirmed == confirming /\ confirming' = FALSE /\ SendOnly /\ UNCHANGED <<heldByOther, serial, delay>>

ThrottleInit ==
    /\ pedal = 0 /\ dzLow = 50 /\ dzHigh = 50 /\ gamma = 1
    /\ frameId = [base |-> 16, digits |-> <<2, 0, 0>>] /\ decoder = FALSE /\ cooling = FALSE /\ lastRaw = -1 /\ ingested = [id |-> -1, raw |-> -1]
    /\ drawnCurve = [low |-> 50, high |-> 50, gamma |-> 1, at |-> 0]
    /\ codeMode = "math" /\ tableSize = 21 /\ copiedCode = [size |-> -1, of |-> <<>>, at |-> <<>>]
    /\ heldByOther = FALSE /\ serial = FALSE /\ delay = 0 /\ confirming = FALSE

-----------------------------------------------------------------------------
(* Properties *)

\* Whatever the sliders say, a released pedal asks for no torque, a pressed one for all of it, and more
\* pedal never for less.
TorqueRises ==
    LET out(x) == GetCanHex(CalculateOutput(x, dzLow, dzHigh, gamma)) IN
    /\ out(0) = 0 /\ out(1000) = 1000
    /\ \A x, y \in Pedals : x <= y => out(x) <= out(y)
\* The code copied out asks for the torque the page simulates: the function, written with clamps, at every
\* pedal; the table at the pedals it has entries for.
CodeIsSimulated ==
    LET out(x) == CalculateOutput(x, copiedCode.at[2], copiedCode.at[3], copiedCode.at[4]) IN
    /\ copiedCode.size = 0 => \A x \in Pedals : copiedCode.of[x] = out(x)
    /\ copiedCode.size > 0 => \A i \in DOMAIN copiedCode.of, x \in Pedals :
         x * (copiedCode.size - 1) = 1000 * i => copiedCode.of[i] = out(x)
\* The graph shows the curve and the point the sliders stand for.
CurveIsCurrent == drawnCurve = [low |-> dzLow, high |-> dzHigh, gamma |-> gamma, at |-> pedal]
=============================================================================
