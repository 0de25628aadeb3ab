----------------------------- MODULE MCTimeline -----------------------------
\* Timeline for TLC: what the environment and the user do is budgeted, so that
\* one run covers several small scenarios, each rich in one kind of step.
EXTENDS Timeline

CONSTANT Budgets
VARIABLE budget

MCFiles == {
    [frames |-> {[n |-> 1, rel |-> 0, epoch |-> 2], [n |-> 2, rel |-> 1, epoch |-> 1]},
     checkpoints |-> {0, 3}, cursor |-> 0],
    [frames |-> {[n |-> 1, rel |-> 1, epoch |-> NoTime], [n |-> 2, rel |-> 0, epoch |-> NoTime],
                 [n |-> 3, rel |-> 2, epoch |-> 1]},
     checkpoints |-> {}, cursor |-> NoTime]}

B(frames, saves, faults, clears, seeks, marks, clips, imports, exports) ==
    [frames |-> frames, saves |-> saves, faults |-> faults, clears |-> clears, seeks |-> seeks,
     marks |-> marks, clips |-> clips, imports |-> imports, exports |-> exports]
MCBudgets == {
    B(4, 0, 0, 0, 0, 0, 0, 0, 0),
    B(3, 1, 1, 0, 0, 0, 0, 0, 0),
    B(3, 0, 0, 1, 0, 0, 0, 0, 0),
    B(3, 0, 0, 0, 2, 0, 0, 0, 0),
    B(3, 0, 0, 0, 0, 0, 0, 0, 1),
    B(1, 0, 0, 0, 1, 1, 0, 3, 0),
    B(1, 0, 0, 0, 0, 2, 0, 0, 0),
    B(2, 0, 0, 0, 0, 0, 3, 0, 1),
    B(0, 0, 0, 0, 0, 0, 0, 3, 1),
    B(0, 0, 0, 1, 0, 0, 0, 1, 0)}

mcvars == <<vars, budget>>
MCInit == Init /\ budget \in Budgets /\ (budget.clears = 0 => retention = 1)
Spend(kind) == budget[kind] > 0 /\ budget' = [budget EXCEPT ![kind] = @ - 1]
Free == UNCHANGED budget

\* Timers fire, and the writes of the archive go on.
ArchiveStep == Archive /\ UNCHANGED timelineVars /\ Free

MCNext ==
    \/ IngestMessage /\ UNCHANGED timelineVars /\ Spend("frames")
    \/ (Tick \/ RestoreSnapshot) /\ UNCHANGED timelineVars /\ Free
    \/ PersistSnapshot /\ UNCHANGED timelineVars /\ Spend("saves")
    \/ ArchiveStep
    \/ Waiting /\ Free
    \/ (BoundsUpdated \/ ReplayLoaded \/ ExportEnds \/ ClearSession) /\ Free
    \/ Faults /\ Spend("faults")
    \/ UserClears /\ Spend("clears")
    \/ UserSeeks /\ Spend("seeks")
    \/ (UserMarks \/ CursorFollowsClock) /\ Spend("marks")
    \/ UserClips /\ Spend("clips")
    \/ UserImports /\ Spend("imports")
    \/ ExportBegins /\ Spend("exports")

MCSpec == MCInit /\ [][MCNext]_mcvars /\ WF_mcvars(ArchiveStep)
=============================================================================
