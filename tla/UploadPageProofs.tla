-------------------------- MODULE UploadPageProofs --------------------------
(***************************************************************************)
(* For any team files, any sizes and any number of uploads: the uploader's *)
(* page keeps the key of a task it looks after, but while it asks for the  *)
(* one the server named; never refuses files without something that will   *)
(* end it; decodes with the DBC that was chosen; follows the upload the    *)
(* server runs, if it knows of it; and says "Done" of nothing with a file  *)
(* still to come.                                                          *)
(***************************************************************************)
EXTENDS UploadPage, TLAPS

Retries == {a \in healthAsked : a.why = "retry"}

\* Stronger than RefusesOnlyWhileFollowing: the answer to a question asked on resuming lets
\* go of the key and leaves canSubmit alone, so it cannot be what a busy page waits for.
BusyWhileSought == ~canSubmit => followed \cup broken \cup Retries # {}
SightInv == KeyIsFollowed /\ BusyWhileSought

Choices == TeamDbcs \cup {"none", "default", "custom"}
Steps == {"sent", "checked", "accepted", "refused"}
IsPost(p) ==
  /\ DOMAIN p = {"n", "step", "task", "dbc", "asked", "awaited"}
  /\ p.step \in Steps /\ p.dbc \in TeamDbcs \cup {"file", "none"} /\ p.asked \in Choices /\ p.awaited \in BOOLEAN
Task == [known : BOOLEAN, done : BOOLEAN, error : BOOLEAN, alive : BOOLEAN, files : Nat, written : Nat,
         skipped : Nat, dbc : TeamDbcs \cup {"file", "default"}, asked : Choices]
UploadTypeOK ==
  /\ tasks \in Seq(Task) /\ \A p \in posts : IsPost(p)
  /\ dbcOptions \subseteq TeamDbcs \cup {"default", "custom"} /\ dbcChoice \in Choices

\* What an upload asks for, on its way and in its task, is what the page showed.
AsShown(r) == (r.asked \in TeamDbcs => r.dbc = r.asked) /\ (r.dbc = "file" => r.asked = "custom")

\* A task is done without an error only when no file of it is left.
DoneWell(r) == r.done /\ ~r.error
Handled(r) == r.written + r.skipped <= r.files /\ (DoneWell(r) => r.written + r.skipped = r.files)
GoodTask(r) == r \in Task /\ AsShown(r) /\ Handled(r)
BarTrue == bar.says = "all rows written" => bar.task \in DOMAIN tasks /\ DoneWell(tasks[bar.task])

\* The task the server runs is within sight of the page, or the answer that names it is on
\* its way there.
Promised == {p.task : p \in {q \in posts : q.step = "accepted" /\ q.awaited}}
InSight == followed \cup Sought \cup Promised
Named == current # Nothing /\ Live(current) /\ current \notin unseen
RunningInv ==
  /\ current # Nothing => current \in DOMAIN tasks
  /\ Named => current \in InSight

UploadInv ==
  /\ UploadTypeOK
  /\ \A p \in posts : AsShown(p)
  /\ \A t \in DOMAIN tasks : GoodTask(tasks[t])
  /\ BarTrue

----------------------------------------------------------------------------
(* What the page follows or asks about *)

LEMMA LoadingSeeks == ASSUME PageLoads PROVE SightInv'
<1>1. kept' = kept /\ canSubmit' = TRUE /\ healthAsked' = Resumes
  BY DEF PageLoads, serverVars
<1>2. ASSUME kept # Nothing PROVE [task |-> ResumeId, why |-> "resume"] \in healthAsked'
  BY <1>1, <1>2 DEF Resumes, ResumeId
<1>3. [task |-> ResumeId, why |-> "resume"].why = "resume"
  OBVIOUS
<1>4. KeyIsFollowed'
  BY <1>1, <1>2, <1>3 DEF KeyIsFollowed
<1> QED BY <1>1, <1>4 DEF SightInv, BusyWhileSought

LEMMA ProgressSeeks == ASSUME NEW t, HandleProgress(t) PROVE SightInv'
BY DEF HandleProgress, SightInv, KeyIsFollowed, BusyWhileSought

\* Nothing of the page's sight changes.
Unmoved == UNCHANGED <<canSubmit, followed, broken, healthAsked, kept>>
LEMMA UnmovedSeeks == ASSUME SightInv, Unmoved PROVE SightInv'
BY DEF Unmoved, SightInv, KeyIsFollowed, BusyWhileSought, Sought, Retries

LEMMA LettingGoSeeks ==
  ASSUME SightInv, NEW a \in healthAsked, healthAsked' = healthAsked \ {a}, LetsGo(a), UNCHANGED <<followed, broken>>
  PROVE  SightInv'
<1>1. kept' = Nothing
  BY DEF LetsGo, ReadyAgain
<1>2. CASE a.why = "retry"
  BY <1>1, <1>2 DEF LetsGo, ReadyAgain, SightInv, KeyIsFollowed, BusyWhileSought
<1>3. CASE a.why # "retry"
  <2>1. Retries' = Retries /\ canSubmit' = canSubmit
    BY <1>3 DEF LetsGo, Retries
  <2> QED BY <1>1, <2>1 DEF SightInv, KeyIsFollowed, BusyWhileSought
<1> QED BY <1>2, <1>3

\* The steps of UploadNext that move nothing of the page's sight.
LEMMA ServerUnmoved ==
  ASSUME Server \/ DbcList \/ Deploy \/ DropFiles \/ DbcChoices PROVE Unmoved
<1> USE DEF Unmoved, followVars, sightVars
<1>1. CASE Server
  <2>1. ASSUME NEW p \in posts, ChecksIdle(p) \/ Accepts(p) \/ Refuses(p) PROVE Unmoved
    BY <2>1 DEF ChecksIdle, Accepts, Refuses
  <2>2. ASSUME NEW t \in DOMAIN tasks, WritesFile(t) \/ SkipsFile(t) \/ WorkerEnds(t) \/ WorkerFails(t) PROVE Unmoved
    BY <2>2 DEF WritesFile, SkipsFile, Reports, WorkerEnds, WorkerFails
  <2> QED BY <1>1, <2>1, <2>2 DEF Server
<1>2. CASE DbcList
  BY <1>2 DEF DbcList, DbcListArrives
<1>3. CASE Deploy
  BY <1>3 DEF Deploy, Redeployed
<1>4. CASE DropFiles
  BY <1>4 DEF DropFiles
<1>5. CASE DbcChoices
  BY <1>5 DEF DbcChoices, PickDbcFile, DbcListArrives, ChooseDbc
<1> QED BY <1>1, <1>2, <1>3, <1>4, <1>5

LEMMA AnswerSeeks == ASSUME SightInv, NEW p \in posts, PostAnswered(p) PROVE SightInv'
<1>1. CASE p.awaited /\ p.step = "refused"
  BY <1>1, LoadingSeeks DEF PostAnswered
<1>2. CASE p.awaited /\ p.step # "refused"
  BY <1>2, ProgressSeeks DEF PostAnswered
<1>3. CASE ~p.awaited
  BY <1>3, UnmovedSeeks DEF PostAnswered, Unmoved
<1> QED BY <1>1, <1>2, <1>3

LEMMA BreakSeeks == ASSUME SightInv, NEW t, StreamBreaks(t) PROVE SightInv'
<1>1. /\ t \in broken' /\ canSubmit' = canSubmit /\ kept' = kept /\ healthAsked' = healthAsked
      /\ followed \subseteq followed' \cup broken' /\ broken \subseteq broken'
  BY DEF StreamBreaks
<1>2. KeyIsFollowed'
  BY <1>1 DEF SightInv, KeyIsFollowed, Sought
<1> QED BY <1>1, <1>2 DEF SightInv, BusyWhileSought

LEMMA HealthSeeks == ASSUME SightInv, NEW a \in healthAsked, HealthAnswers(a) \/ HealthFails(a) PROVE SightInv'
<1>1. CASE HealthAnswers(a) /\ Live(a.task)
  BY <1>1, ProgressSeeks DEF HealthAnswers
<1>2. CASE HealthAnswers(a) /\ ~Live(a.task)
  BY <1>2, LettingGoSeeks DEF HealthAnswers
<1>3. CASE HealthFails(a)
  BY <1>3, LettingGoSeeks DEF HealthFails
<1> QED BY <1>1, <1>2, <1>3

LEMMA StreamSeeks ==
  ASSUME SightInv, NEW t, TaskProgress(t) \/ TaskDone(t) \/ PauseEnds(t) PROVE SightInv'
<1>1. CASE TaskProgress(t)
  BY <1>1, UnmovedSeeks DEF TaskProgress, Unmoved
<1>2. CASE TaskDone(t)
  BY <1>2 DEF TaskDone, ReadyAgain, SightInv, KeyIsFollowed, BusyWhileSought
<1>3. CASE PauseEnds(t)
  <2> DEFINE ask == [task |-> t, why |-> "retry"]
  <2>1. ask \in healthAsked' /\ ask \in Retries' /\ ask.task \in Sought' /\ ask.task = t
    BY <1>3 DEF PauseEnds, Retries, Sought
  <2>2. /\ kept' = kept /\ followed' = followed /\ healthAsked \subseteq healthAsked'
        /\ broken \subseteq broken' \cup {t}
    BY <1>3 DEF PauseEnds
  <2>3. Sought \subseteq Sought'
    BY <2>1, <2>2 DEF Sought
  <2>4. KeyIsFollowed'
    BY <2>2, <2>3 DEF SightInv, KeyIsFollowed
  <2> QED BY <2>1, <2>4 DEF SightInv, BusyWhileSought
<1> QED BY <1>1, <1>2, <1>3

LEMMA SightNext == ASSUME SightInv, [UploadNext]_uploadVars PROVE SightInv'
<1>1. CASE Server \/ DbcList \/ Deploy \/ DropFiles \/ DbcChoices
  BY <1>1, ServerUnmoved, UnmovedSeeks
<1>2. CASE Page
  <2>1. ASSUME NEW p \in posts, PostAnswered(p) PROVE SightInv'
    BY <2>1, AnswerSeeks
  <2>2. ASSUME NEW t \in DOMAIN tasks, TaskProgress(t) \/ TaskDone(t) \/ PauseEnds(t) \/ StreamBreaks(t) PROVE SightInv'
    BY <2>2, StreamSeeks, BreakSeeks
  <2>3. ASSUME NEW a \in healthAsked, HealthAnswers(a) PROVE SightInv'
    BY <2>3, HealthSeeks
  <2> QED BY <1>2, <2>1, <2>2, <2>3 DEF Page
<1>3. CASE PageTroubles
  <2>1. CASE PageReloads
    BY <2>1, LoadingSeeks DEF PageReloads
  <2>2. ASSUME NEW t \in followed, StreamBreaks(t) PROVE SightInv'
    BY <2>2, BreakSeeks
  <2>3. ASSUME NEW a \in healthAsked, HealthFails(a) PROVE SightInv'
    BY <2>3, HealthSeeks
  <2>4. ASSUME NEW p \in posts, PostFails(p) PROVE SightInv'
    BY <2>4, UnmovedSeeks DEF PostFails, sightVars, Unmoved
  <2> QED BY <1>3, <2>1, <2>2, <2>3, <2>4 DEF PageTroubles
<1>4. CASE UNCHANGED uploadVars
  BY <1>4, UnmovedSeeks DEF uploadVars, followVars, sightVars, Unmoved
<1> QED BY <1>1, <1>2, <1>3, <1>4 DEF UploadNext

LEMMA SightAlways == UploadSpec => []SightInv
<1>1. UploadInit => SightInv
  BY DEF UploadInit, SightInv, KeyIsFollowed, BusyWhileSought
<1> QED BY <1>1, SightNext, PTL DEF UploadSpec

\* The key in local storage is that of a task the page follows or is asking about, or the page was just
\* loaded and asks about the one the server runs instead (index.js:197, 249, 363-374): no order of answers,
\* lost ones, broken streams and reloads leaves one behind.
THEOREM KeyStaysFollowed == UploadSpec => []KeyIsFollowed
<1>1. SightInv => KeyIsFollowed
  BY DEF SightInv
<1> QED BY <1>1, SightAlways, PTL

\* A page that refuses files follows, or is about to ask for, what will end it
\* (index.js:165, 225, 251, 259).
THEOREM NeverStuck == UploadSpec => []RefusesOnlyWhileFollowing
<1>1. SightInv => RefusesOnlyWhileFollowing
  <2>1. ASSUME NEW a \in Retries PROVE a.task \in Sought
    BY DEF Retries, Sought
  <2> QED BY <2>1 DEF SightInv, BusyWhileSought, RefusesOnlyWhileFollowing, Sought
<1> QED BY <1>1, SightAlways, PTL

----------------------------------------------------------------------------
(* What is decoded with what, and when it is done *)

Posting(p) == IsPost(p) /\ AsShown(p)

\* What the workers write into a task keeps its type.
LEMMA TaskUpdated ==
  ASSUME NEW r \in Task, NEW k \in Nat, NEW d \in BOOLEAN
  PROVE  /\ [r EXCEPT !.written = k, !.done = d] \in Task
         /\ [r EXCEPT !.skipped = k] \in Task
         /\ [r EXCEPT !.alive = FALSE, !.done = d] \in Task
         /\ [r EXCEPT !.alive = FALSE, !.done = TRUE, !.error = TRUE] \in Task
         /\ [r EXCEPT !.known = FALSE, !.alive = FALSE] \in Task
<1>1. TRUE \in BOOLEAN /\ FALSE \in BOOLEAN
  OBVIOUS
<1> QED BY <1>1 DEF Task

LEMMA PostStepped ==
  ASSUME NEW p, Posting(p), NEW s \in Steps, NEW n
  PROVE  /\ Posting([p EXCEPT !.step = s])
         /\ Posting([p EXCEPT !.step = s, !.task = n])
         /\ Posting([p EXCEPT !.awaited = FALSE])
<1> DEFINE Same(q) == DOMAIN q = DOMAIN p /\ q.dbc = p.dbc /\ q.asked = p.asked
<1>1. ASSUME NEW q, Same(q), q.step \in Steps, q.awaited \in BOOLEAN PROVE Posting(q)
  BY <1>1 DEF Posting, IsPost, AsShown
<1>2. LET q == [p EXCEPT !.step = s] IN Same(q) /\ q.step = s /\ q.awaited = p.awaited
  BY DEF Posting, IsPost
<1>3. LET q == [p EXCEPT !.step = s, !.task = n] IN Same(q) /\ q.step = s /\ q.awaited = p.awaited
  BY DEF Posting, IsPost
<1>4. LET q == [p EXCEPT !.awaited = FALSE] IN Same(q) /\ q.step = p.step /\ q.awaited = FALSE
  BY DEF Posting, IsPost
<1> QED BY <1>1, <1>2, <1>3, <1>4 DEF Posting, IsPost

\* The parts of UploadInv an action may disturb.
PostsFine == \A p \in posts : Posting(p)
TasksFine == tasks \in Seq(Task) /\ \A t \in DOMAIN tasks : GoodTask(tasks[t])
ChoiceFine == dbcOptions \subseteq TeamDbcs \cup {"default", "custom"} /\ dbcChoice \in Choices

LEMMA Parts == UploadInv <=> PostsFine /\ TasksFine /\ ChoiceFine /\ BarTrue
BY DEF UploadInv, UploadTypeOK, PostsFine, TasksFine, ChoiceFine, Posting

LEMMA PartsNext == UploadInv' <=> PostsFine' /\ TasksFine' /\ ChoiceFine' /\ BarTrue'
BY DEF UploadInv, UploadTypeOK, PostsFine, TasksFine, ChoiceFine, Posting

\* One task is replaced, by one that is done well if it was.
LEMMA TaskReplaced ==
  ASSUME TasksFine, BarTrue, NEW t \in DOMAIN tasks, NEW r, GoodTask(r),
         tasks' = [tasks EXCEPT ![t] = r], DoneWell(tasks[t]) => DoneWell(r), bar' = bar
  PROVE  TasksFine' /\ BarTrue'
<1>1. r \in Task /\ tasks \in Seq(Task)
  BY DEF GoodTask, TasksFine
<1>2. tasks' \in Seq(Task) /\ DOMAIN tasks' = DOMAIN tasks
  BY <1>1
<1>3. ASSUME NEW u \in DOMAIN tasks PROVE tasks'[u] = IF u = t THEN r ELSE tasks[u]
  BY <1>1
<1>4. TasksFine'
  BY <1>2, <1>3 DEF TasksFine
<1>5. BarTrue'
  BY <1>2, <1>3 DEF BarTrue
<1> QED BY <1>4, <1>5

LEMMA AcceptKeeps == ASSUME UploadInv, NEW p \in posts, Accepts(p) PROVE UploadInv'
<1>0. PostsFine /\ TasksFine /\ ChoiceFine /\ BarTrue
  BY Parts
<1>1. Posting(p) /\ p.dbc \in TeamDbcs \cup {"file", "none"} /\ p.asked \in Choices /\ p.awaited \in BOOLEAN /\ AsShown(p)
  BY <1>0 DEF PostsFine, Posting, IsPost
<1>2. PICK n \in FileCounts :
         tasks' = Append(tasks, [known |-> TRUE, done |-> FALSE, error |-> FALSE, alive |-> TRUE,
                                 files |-> n, written |-> 0, skipped |-> 0,
                                 dbc |-> ServerDbc(p), asked |-> p.asked])
  BY DEF Accepts
<1> DEFINE r == [known |-> TRUE, done |-> FALSE, error |-> FALSE, alive |-> TRUE,
                 files |-> n, written |-> 0, skipped |-> 0,
                 dbc |-> ServerDbc(p), asked |-> p.asked]
           d == ServerDbc(p)
<1>3. d \in TeamDbcs \cup {"file", "default"}
  BY <1>1 DEF ServerDbc, Accepts
<1>4. (p.asked \in TeamDbcs => d = p.asked) /\ (d = "file" => p.asked = "custom")
  BY <1>1, UploadAssumption DEF ServerDbc, Accepts, AsShown, UploadAssumption
<1>5. n \in Nat
  BY UploadAssumption DEF UploadAssumption
<1>6. r \in Task
  BY <1>1, <1>3, <1>5 DEF Task
<1>7. AsShown(r) /\ Handled(r)
  BY <1>4, <1>5 DEF AsShown, Handled, DoneWell
<1>8. GoodTask(r) /\ r \in Task
  BY <1>6, <1>7 DEF GoodTask
<1> HIDE DEF r
<1>9. tasks' = Append(tasks, r) /\ tasks \in Seq(Task)
  BY <1>0, <1>2 DEF r, TasksFine
<1>10. /\ tasks' \in Seq(Task) /\ Len(tasks') = Len(tasks) + 1 /\ DOMAIN tasks' = 1 .. Len(tasks) + 1
       /\ DOMAIN tasks = 1 .. Len(tasks) /\ tasks'[Len(tasks) + 1] = r
       /\ \A u \in DOMAIN tasks : tasks'[u] = tasks[u]
  BY <1>8, <1>9
<1>11. TasksFine'
  BY <1>0, <1>8, <1>10 DEF TasksFine
<1>12. bar' = bar /\ ChoiceFine'
  BY <1>0 DEF Accepts, followVars, sightVars, dbcVars, ChoiceFine
<1>13. BarTrue'
  <2>1. ASSUME bar.says = "all rows written" PROVE bar.task \in DOMAIN tasks' /\ tasks'[bar.task] = tasks[bar.task]
    <3>1. bar.task \in DOMAIN tasks
      BY <1>0, <2>1 DEF BarTrue
    <3>2. Len(tasks) \in Nat
      BY <1>9
    <3>3. DOMAIN tasks \subseteq DOMAIN tasks'
      BY <1>10, <3>2
    <3> QED BY <1>10, <3>1, <3>3
  <2> QED BY <1>0, <1>12, <2>1 DEF BarTrue
<1>14. PostsFine'
  <2>1. posts' = (posts \ {p}) \cup {[p EXCEPT !.step = "accepted", !.task = Len(tasks')]}
    BY DEF Accepts
  <2>2. Posting([p EXCEPT !.step = "accepted", !.task = Len(tasks')])
    BY <1>1, PostStepped DEF Steps
  <2> QED BY <1>0, <2>1, <2>2 DEF PostsFine
<1> QED BY <1>0, PartsNext, <1>11, <1>12, <1>13, <1>14

LEMMA CheckKeeps == ASSUME UploadInv, NEW p \in posts, ChecksIdle(p) \/ Refuses(p) PROVE UploadInv'
<1>0. PostsFine /\ TasksFine /\ ChoiceFine /\ BarTrue
  BY Parts
<1>1. PICK s \in Steps : posts' = (posts \ {p}) \cup {[p EXCEPT !.step = s]}
  BY DEF ChecksIdle, Refuses, Steps
<1>2. PostsFine'
  BY <1>0, <1>1, PostStepped DEF PostsFine
<1>3. UNCHANGED <<tasks, bar, dbcOptions, dbcChoice>>
  BY DEF ChecksIdle, Refuses, serverVars, followVars, sightVars, dbcVars
<1> QED BY <1>0, PartsNext, <1>2, <1>3 DEF TasksFine, BarTrue, ChoiceFine

\* A worker's step leaves posts and the page alone and replaces its own task.
LEMMA WorkerKeeps ==
  ASSUME UploadInv, NEW t \in DOMAIN tasks, WritesFile(t) \/ SkipsFile(t) \/ WorkerEnds(t) \/ WorkerFails(t)
  PROVE  UploadInv'
<1>0. PostsFine /\ TasksFine /\ ChoiceFine /\ BarTrue
  BY Parts
<1>1. UNCHANGED <<posts, bar, dbcOptions, dbcChoice>>
  BY DEF WritesFile, SkipsFile, Reports, WorkerEnds, WorkerFails, followVars, sightVars, dbcVars
<1>2. PostsFine' /\ ChoiceFine'
  BY <1>0, <1>1 DEF PostsFine, ChoiceFine
<1> DEFINE r == tasks[t]
<1>3. GoodTask(r) /\ r \in Task /\ tasks \in Seq(Task)
  BY <1>0 DEF TasksFine, GoodTask
<1>4. CASE WritesFile(t)
  <2> DEFINE q == [r EXCEPT !.written = @ + 1, !.done = @ \/ WritesLast(r)]
  <2>1. r.written + r.skipped < r.files
    BY <1>4 DEF WritesFile, Working
  <2>2. ~DoneWell(r)
    BY <1>3, <2>1 DEF GoodTask, Handled, Task
  <2>3. GoodTask(q)
    <3>1. /\ q.written = r.written + 1 /\ q.skipped = r.skipped /\ q.files = r.files
          /\ q.error = r.error /\ q.dbc = r.dbc /\ q.asked = r.asked
          /\ q.done <=> r.done \/ r.written + 1 = r.files
      BY <1>3 DEF Task, WritesLast
    <3>2. q \in Task
      <4>1. r.written + 1 \in Nat /\ (r.done \/ WritesLast(r)) \in BOOLEAN
        BY <1>3 DEF Task
      <4> QED BY <1>3, <4>1, TaskUpdated
    <3> QED BY <1>3, <2>1, <2>2, <3>1, <3>2 DEF GoodTask, Handled, DoneWell, AsShown, Task
  <2>4. tasks' = [tasks EXCEPT ![t] = q]
    BY <1>4 DEF WritesFile, Reports
  <2> QED BY <1>0, PartsNext, <1>1, <1>2, <2>2, <2>3, <2>4, TaskReplaced
<1>5. CASE SkipsFile(t)
  <2> DEFINE q == [r EXCEPT !.skipped = @ + 1]
  <2>1. r.written + r.skipped < r.files
    BY <1>5 DEF SkipsFile, Working
  <2>2. ~DoneWell(r)
    BY <1>3, <2>1 DEF GoodTask, Handled, Task
  <2>3. GoodTask(q)
    <3>1. /\ q.skipped = r.skipped + 1 /\ q.written = r.written /\ q.files = r.files
          /\ q.error = r.error /\ q.dbc = r.dbc /\ q.asked = r.asked
          /\ q.done <=> r.done
      BY <1>3 DEF Task
    <3>2. q \in Task
      <4>1. r.skipped + 1 \in Nat
        BY <1>3 DEF Task
      <4> QED BY <1>3, <4>1, TaskUpdated
    <3> QED BY <1>3, <2>1, <2>2, <3>1, <3>2 DEF GoodTask, Handled, DoneWell, AsShown, Task
  <2>4. tasks' = [tasks EXCEPT ![t] = q]
    BY <1>5 DEF SkipsFile, Reports
  <2> QED BY <1>0, PartsNext, <1>1, <1>2, <2>2, <2>3, <2>4, TaskReplaced
<1>6. CASE WorkerEnds(t)
  <2> DEFINE q == [r EXCEPT !.alive = FALSE, !.done = WorkerDone(r)]
  <2>1. r.written + r.skipped >= r.files
    BY <1>3, <1>6 DEF WorkerEnds, Working, Task
  <2>2. GoodTask(q) /\ (DoneWell(r) => DoneWell(q))
    <3>1. /\ q.written = r.written /\ q.skipped = r.skipped /\ q.files = r.files
          /\ q.error = r.error /\ q.dbc = r.dbc /\ q.asked = r.asked
          /\ q.done <=> r.done \/ r.files > 0
      BY <1>3 DEF Task, WorkerDone
    <3>2. q \in Task
      BY <1>3 DEF Task, WorkerDone
    <3> QED BY <1>3, <2>1, <3>1, <3>2 DEF GoodTask, Handled, DoneWell, AsShown, Task
  <2>3. tasks' = [tasks EXCEPT ![t] = q]
    BY <1>3, <1>6 DEF WorkerEnds
  <2> QED BY <1>0, PartsNext, <1>1, <1>2, <2>2, <2>3, TaskReplaced
<1>7. CASE WorkerFails(t)
  <2> DEFINE q == [r EXCEPT !.alive = FALSE, !.done = TRUE, !.error = TRUE]
  <2>1. ~DoneWell(r)
    BY <1>7 DEF WorkerFails, DoneWell
  <2>2. GoodTask(q)
    BY <1>3 DEF GoodTask, Handled, DoneWell, AsShown, Task
  <2>3. tasks' = [tasks EXCEPT ![t] = q]
    BY <1>3, <1>7 DEF WorkerFails
  <2> QED BY <1>0, PartsNext, <1>1, <1>2, <2>1, <2>2, <2>3, TaskReplaced
<1> QED BY <1>0, PartsNext, <1>4, <1>5, <1>6, <1>7

LEMMA DeployKeeps == ASSUME UploadInv, NEW on, Redeployed(on) PROVE UploadInv'
<1>0. PostsFine /\ TasksFine /\ ChoiceFine /\ BarTrue
  BY Parts
<1>1. UNCHANGED <<bar, dbcOptions, dbcChoice>> /\ posts' \subseteq posts
  BY DEF Redeployed, followVars, sightVars, dbcVars
<1>2. PostsFine' /\ ChoiceFine'
  BY <1>0, <1>1 DEF PostsFine, ChoiceFine
<1>3. tasks \in Seq(Task) /\ tasks' = [t \in DOMAIN tasks |-> [tasks[t] EXCEPT !.known = FALSE, !.alive = FALSE]]
  BY <1>0 DEF Redeployed, TasksFine
<1>4. ASSUME NEW t \in DOMAIN tasks
      PROVE  GoodTask(tasks'[t]) /\ (DoneWell(tasks[t]) => DoneWell(tasks'[t]))
  <2>1. GoodTask(tasks[t])
    BY <1>0 DEF TasksFine
  <2>2. tasks'[t] = [tasks[t] EXCEPT !.known = FALSE, !.alive = FALSE]
    BY <1>3
  <2> QED BY <2>1, <2>2 DEF GoodTask, Handled, DoneWell, AsShown, Task
<1>5. DOMAIN tasks = 1 .. Len(tasks) /\ Len(tasks) \in Nat
  BY <1>0 DEF TasksFine
<1>10. DOMAIN tasks' = DOMAIN tasks
  BY <1>3
<1>6. \A t \in DOMAIN tasks : tasks'[t] \in Task
  BY <1>4 DEF GoodTask
<1>7. tasks' \in Seq(Task)
  <2>1. tasks' \in [1 .. Len(tasks) -> Task]
    BY <1>3, <1>5, <1>6
  <2> QED BY <1>5, <2>1
<1>8. TasksFine'
  BY <1>0, <1>4, <1>7, <1>10 DEF TasksFine
<1>9. BarTrue'
  BY <1>0, <1>1, <1>4, <1>10 DEF BarTrue
<1> QED BY <1>0, PartsNext, <1>2, <1>8, <1>9

LEMMA LoadKeeps ==
  ASSUME UploadInv, PageLoads, \A q \in posts' : \E p \in posts : q = p \/ q = [p EXCEPT !.awaited = FALSE]
  PROVE  UploadInv'
<1>0. PostsFine /\ TasksFine /\ ChoiceFine /\ BarTrue
  BY Parts
<1>1. tasks' = tasks /\ bar' = NoBar /\ dbcOptions' = {} /\ dbcChoice' = "none"
  BY DEF PageLoads, serverVars
<1>2. TasksFine' /\ BarTrue' /\ ChoiceFine'
  BY <1>0, <1>1 DEF TasksFine, BarTrue, NoBar, ChoiceFine, Choices
<1>3. PostsFine'
  BY <1>0, PostStepped DEF PostsFine, Steps
<1> QED BY <1>0, PartsNext, <1>2, <1>3

LEMMA AnswerKeeps == ASSUME UploadInv, NEW p \in posts, PostAnswered(p) PROVE UploadInv'
<1>0. PostsFine /\ TasksFine /\ ChoiceFine /\ BarTrue
  BY Parts
<1>1. CASE p.awaited /\ p.step = "refused"
  BY <1>1, LoadKeeps DEF PostAnswered
<1>2. CASE ~(p.awaited /\ p.step = "refused")
  <2>1. posts' \subseteq posts /\ UNCHANGED <<tasks, dbcOptions, dbcChoice>>
    BY <1>2 DEF PostAnswered, serverVars, dbcVars
  <2>2. bar' = bar \/ bar'.says = "progress"
    BY <1>2 DEF PostAnswered, HandleProgress
  <2> QED BY <1>0, PartsNext, <2>1, <2>2 DEF PostsFine, TasksFine, ChoiceFine, BarTrue
<1> QED BY <1>0, PartsNext, <1>1, <1>2

LEMMA FailedPostKeeps == ASSUME UploadInv, NEW p \in posts, PostFails(p) PROVE UploadInv'
<1>0. PostsFine /\ TasksFine /\ ChoiceFine /\ BarTrue
  BY Parts
<1>1. UNCHANGED <<tasks, bar, dbcOptions, dbcChoice>>
  BY DEF PostFails, serverVars, sightVars, dbcVars
<1>2. posts' \subseteq posts \cup {[p EXCEPT !.awaited = FALSE]}
  BY DEF PostFails
<1>3. Posting(p)
  BY <1>0 DEF PostsFine
<1>4. p.step \in Steps
  BY <1>3 DEF Posting, IsPost
<1>5. PostsFine'
  BY <1>0, <1>2, <1>3, <1>4, PostStepped DEF PostsFine
<1> QED BY <1>0, PartsNext, <1>1, <1>5 DEF TasksFine, BarTrue, ChoiceFine

\* Steps of the page that leave the posts, the tasks and the choice of a DBC alone.
LEMMA PageKeeps ==
  ASSUME UploadInv, UNCHANGED <<posts, tasks, dbcOptions, dbcChoice>>,
         bar' = bar \/ bar'.says # "all rows written" \/ (bar'.task \in DOMAIN tasks /\ DoneWell(tasks[bar'.task]))
  PROVE  UploadInv'
BY Parts, PartsNext DEF PostsFine, TasksFine, ChoiceFine, BarTrue

LEMMA TaskEventKeeps ==
  ASSUME UploadInv, NEW t,
         TaskProgress(t) \/ (t \in DOMAIN tasks /\ TaskDone(t)) \/ PauseEnds(t) \/ StreamBreaks(t)
  PROVE  UploadInv'
<1>1. UNCHANGED <<posts, tasks, dbcOptions, dbcChoice>>
  BY DEF TaskProgress, TaskDone, PauseEnds, StreamBreaks, serverVars, dbcVars
<1>2. CASE t \in DOMAIN tasks /\ TaskDone(t)
  <2>1. bar'.task = t /\ (bar'.says = "all rows written" => ~tasks[t].error) /\ tasks[t].done
    BY <1>2 DEF TaskDone
  <2> QED BY <1>1, <1>2, <2>1, PageKeeps DEF DoneWell
<1>3. CASE TaskProgress(t) \/ PauseEnds(t) \/ StreamBreaks(t)
  <2>1. bar' = bar
    BY <1>3 DEF TaskProgress, PauseEnds, StreamBreaks
  <2> QED BY <1>1, <2>1, PageKeeps
<1> QED BY <1>2, <1>3

LEMMA HealthKeeps == ASSUME UploadInv, NEW a, HealthAnswers(a) \/ HealthFails(a) PROVE UploadInv'
<1>1. UNCHANGED <<posts, tasks, dbcOptions, dbcChoice>>
  BY DEF HealthAnswers, HealthFails, serverVars, dbcVars
<1>2. bar' = bar \/ bar'.says = "progress"
  BY DEF HealthAnswers, HealthFails, HandleProgress
<1> QED BY <1>1, <1>2, PageKeeps

LEMMA DbcKeeps ==
  ASSUME UploadInv, UNCHANGED <<posts, tasks, bar>>, ChoiceFine' PROVE UploadInv'
BY Parts, PartsNext DEF PostsFine, TasksFine, BarTrue

LEMMA ChoosingKeeps == ASSUME UploadInv, DbcList \/ DbcChoices PROVE UploadInv'
<1>0. PostsFine /\ TasksFine /\ ChoiceFine /\ BarTrue
  BY Parts
<1>1. ASSUME NEW teams \in {{}, TeamDbcs}, NEW fails, DbcListArrives(teams, fails) PROVE UploadInv'
  <2>1. ChoiceFine'
    <3>1. teams \subseteq TeamDbcs
      OBVIOUS
    <3>2. teams # {} => (CHOOSE d \in teams : TRUE) \in teams
      OBVIOUS
    <3> QED BY <1>0, <1>1, <3>1, <3>2 DEF DbcListArrives, ChoiceFine, Choices
  <2> QED BY <1>0, <1>1, <2>1, DbcKeeps DEF DbcListArrives, serverVars, followVars, sightVars
<1>2. CASE PickDbcFile
  <2>1. ChoiceFine'
    BY <1>0, <1>2 DEF PickDbcFile, ChoiceFine
  <2> QED BY <1>0, <1>2, <2>1, DbcKeeps DEF PickDbcFile, serverVars, followVars, sightVars
<1>3. ASSUME NEW d \in dbcOptions, ChooseDbc(d) PROVE UploadInv'
  <2>1. ChoiceFine'
    BY <1>0, <1>3 DEF ChooseDbc, ChoiceFine, Choices
  <2> QED BY <1>0, <1>3, <2>1, DbcKeeps DEF ChooseDbc, serverVars, followVars, sightVars
<1> QED BY <1>0, PartsNext, <1>1, <1>2, <1>3 DEF DbcList, DbcChoices

LEMMA DropKeeps == ASSUME UploadInv, DropFiles PROVE UploadInv'
<1>0. PostsFine /\ TasksFine /\ ChoiceFine /\ BarTrue
  BY Parts
<1> DEFINE number == 1 + Cardinality({p \in posts : p.n = 1})
           new == [n |-> number, step |-> "sent", task |-> Nothing, dbc |-> FormDbc, asked |-> dbcChoice, awaited |-> TRUE]
<1>1. posts' = posts \cup {new} /\ UNCHANGED <<tasks, bar, dbcOptions, dbcChoice>>
  BY DEF DropFiles, serverVars, followVars, sightVars, dbcVars
<1>2. dbcChoice \in Choices
  BY <1>0 DEF ChoiceFine
<1>3. FormDbc \in TeamDbcs \cup {"file", "none"}
  BY DEF FormDbc
<1>4. (dbcChoice \in TeamDbcs => FormDbc = dbcChoice) /\ (FormDbc = "file" => dbcChoice = "custom")
  BY UploadAssumption DEF FormDbc, UploadAssumption
<1> HIDE DEF number
<1>5. Posting(new)
  BY <1>0, <1>2, <1>3, <1>4 DEF Posting, IsPost, AsShown, Steps
<1> QED BY <1>0, PartsNext, <1>1, <1>5 DEF PostsFine, TasksFine, BarTrue, ChoiceFine

LEMMA UploadNextKeeps == ASSUME UploadInv, [UploadNext]_uploadVars PROVE UploadInv'
<1>1. CASE Server
  <2>1. ASSUME NEW p \in posts, ChecksIdle(p) \/ Accepts(p) \/ Refuses(p) PROVE UploadInv'
    BY <2>1, CheckKeeps, AcceptKeeps
  <2>2. ASSUME NEW t \in DOMAIN tasks, WritesFile(t) \/ SkipsFile(t) \/ WorkerEnds(t) \/ WorkerFails(t) PROVE UploadInv'
    BY <2>2, WorkerKeeps
  <2> QED BY <1>1, <2>1, <2>2 DEF Server
<1>2. CASE Page
  <2>1. ASSUME NEW t \in DOMAIN tasks, TaskProgress(t) \/ TaskDone(t) \/ PauseEnds(t) \/ StreamBreaks(t) PROVE UploadInv'
    BY <2>1, TaskEventKeeps
  <2> QED BY <1>2, <2>1, AnswerKeeps, HealthKeeps DEF Page
<1>3. CASE DbcList \/ DbcChoices
  BY <1>3, ChoosingKeeps
<1>4. CASE Deploy
  BY <1>4, DeployKeeps DEF Deploy
<1>5. CASE DropFiles
  BY <1>5, DropKeeps
<1>6. CASE PageTroubles
  <2>1. CASE PageReloads
    BY <2>1, LoadKeeps DEF PageReloads
  <2>2. ASSUME NEW t \in followed, StreamBreaks(t) PROVE UploadInv'
    BY <2>2, TaskEventKeeps
  <2> QED BY <1>6, <2>1, <2>2, HealthKeeps, FailedPostKeeps DEF PageTroubles
<1>7. CASE UNCHANGED uploadVars
  BY <1>7, PageKeeps DEF uploadVars, serverVars, followVars, sightVars, dbcVars
<1> QED BY <1>1, <1>2, <1>3, <1>4, <1>5, <1>6, <1>7 DEF UploadNext

LEMMA UploadAlways == UploadSpec => []UploadInv
<1>1. UploadInit => UploadInv
  BY DEF UploadInit, UploadInv, UploadTypeOK, BarTrue, NoBar, Choices
<1> QED BY <1>1, UploadNextKeeps, PTL DEF UploadSpec

\* What is written is decoded with the DBC the page showed when the files were dropped,
\* be it that the server was configured anew since (app.py:475-503).
THEOREM DecodedAsChosen == UploadSpec => []DbcAsChosen
<1>1. UploadInv => DbcAsChosen
  BY DEF UploadInv, GoodTask, AsShown, DbcAsChosen
<1> QED BY <1>1, UploadAlways, PTL

\* The page says "Done" of no upload with a file still to come (app.py:550,
\* helper.py:529-537).
THEOREM DoneIsHandled == UploadSpec => []DoneMeansHandled
<1>1. UploadInv => DoneMeansHandled
  BY DEF UploadInv, GoodTask, Handled, BarTrue, DoneWell, DoneMeansHandled
<1> QED BY <1>1, UploadAlways, PTL

----------------------------------------------------------------------------
(* The upload the server runs *)

\* What the page sees and what it missed do not shrink, and neither the task nor its place changes.
LEMMA RunningStays ==
  ASSUME RunningInv, UNCHANGED <<current, tasks>>, unseen \subseteq unseen', InSight \subseteq InSight'
  PROVE  RunningInv'
BY DEF RunningInv, Named, Live

\* A task that is live afterwards was live before.
LEMMA RunningWorks ==
  ASSUME UploadInv, RunningInv, NEW t \in DOMAIN tasks,
         WritesFile(t) \/ SkipsFile(t) \/ WorkerEnds(t) \/ WorkerFails(t)
  PROVE  RunningInv'
<1>1. CASE WorkerEnds(t) \/ WorkerFails(t)
  BY <1>1 DEF WorkerEnds, WorkerFails, RunningInv, Named
<1>2. CASE WritesFile(t) \/ SkipsFile(t)
  <2>1. tasks \in Seq(Task) /\ tasks[t] \in Task
    BY DEF UploadInv, UploadTypeOK
  <2>2. UNCHANGED <<current, unseen, InSight>>
    BY <1>2 DEF WritesFile, SkipsFile, Reports, followVars, sightVars, InSight, Sought, Promised
  <2>3. PICK k \in Nat, d \in BOOLEAN :
           /\ tasks[t].done => d
           /\ tasks' = [tasks EXCEPT ![t] = [tasks[t] EXCEPT !.written = k, !.done = d]]
              \/ tasks' = [tasks EXCEPT ![t] = [tasks[t] EXCEPT !.skipped = k]]
    <3>1. CASE WritesFile(t)
      <4>1. tasks[t].written + 1 \in Nat /\ (tasks[t].done \/ WritesLast(tasks[t])) \in BOOLEAN
        BY <2>1 DEF Task
      <4> QED BY <3>1, <4>1 DEF WritesFile, Reports
    <3>2. CASE SkipsFile(t)
      <4>1. tasks[t].skipped + 1 \in Nat
        BY <2>1 DEF Task
      <4> QED BY <3>2, <4>1 DEF SkipsFile, Reports
    <3> QED BY <1>2, <3>1, <3>2
  <2>4. /\ DOMAIN tasks' = DOMAIN tasks
        /\ \A u \in DOMAIN tasks : u # t => tasks'[u] = tasks[u]
        /\ tasks'[t].known = tasks[t].known
        /\ tasks[t].done => tasks'[t].done
    BY <2>1, <2>3 DEF Task
  <2> QED BY <2>2, <2>4 DEF RunningInv, Named, Live
<1> QED BY <1>1, <1>2

LEMMA RunningPosts ==
  ASSUME UploadInv, RunningInv, NEW p \in posts, ChecksIdle(p) \/ Accepts(p) \/ Refuses(p)
  PROVE  RunningInv'
<1>1. Posting(p)
  BY DEF UploadInv, UploadTypeOK, Posting
<1>2. CASE ChecksIdle(p) \/ Refuses(p)
  <2>1. UNCHANGED <<current, tasks, unseen, followed, broken, healthAsked>> /\ p.step # "accepted"
    BY <1>2 DEF ChecksIdle, Refuses, serverVars, followVars, sightVars
  <2>2. posts \ {p} \subseteq posts'
    BY <1>2 DEF ChecksIdle, Refuses
  <2>3. InSight \subseteq InSight'
    BY <2>1, <2>2 DEF InSight, Sought, Promised
  <2> QED BY <2>1, <2>3, RunningStays
<1>3. CASE Accepts(p)
  <2> DEFINE q == [p EXCEPT !.step = "accepted", !.task = Len(tasks')]
  <2>1. q \in posts' /\ q.step = "accepted" /\ q.task = Len(tasks') /\ q.awaited = p.awaited /\ p.awaited \in BOOLEAN
    BY <1>1, <1>3 DEF Accepts, Posting, IsPost
  <2>2. PICK r : tasks' = Append(tasks, r)
    BY <1>3 DEF Accepts
  <2>3. tasks \in Seq(Task)
    BY DEF UploadInv, UploadTypeOK
  <2>4. DOMAIN tasks' = 1 .. Len(tasks) + 1 /\ tasks'[Len(tasks) + 1] = r /\ Len(tasks') = Len(tasks) + 1
    BY <2>2, <2>3
  <2>5. current' = Len(tasks) + 1 /\ Len(tasks) \in Nat
    BY <1>3, <2>3, <2>4 DEF Accepts
  <2>6. ASSUME p.awaited PROVE current' \in Promised'
    BY <2>1, <2>4, <2>5, <2>6 DEF Promised
  <2>7. ~p.awaited => current' \in unseen'
    BY <1>3 DEF Accepts
  <2>8. current' \in DOMAIN tasks'
    BY <2>4, <2>5
  <2> QED BY <2>6, <2>7, <2>8 DEF RunningInv, Named, InSight
<1> QED BY <1>2, <1>3

\* A page that loads asks for the server's task.
LEMMA RunningLoads == ASSUME RunningInv, PageLoads PROVE RunningInv'
<1>1. UNCHANGED <<current, tasks>> /\ healthAsked' = Resumes
  BY DEF PageLoads, serverVars
<1>2. ASSUME current # Nothing PROVE current' \in Sought'
  <2>1. [task |-> current, why |-> "resume"] \in healthAsked'
    BY <1>1, <1>2 DEF Resumes, ResumeId
  <2>2. [task |-> current, why |-> "resume"].task = current
    OBVIOUS
  <2> QED BY <1>1, <2>1, <2>2 DEF Sought
<1> QED BY <1>1, <1>2 DEF RunningInv, Named, InSight

LEMMA RunningAnswers == ASSUME UploadInv, RunningInv, NEW p \in posts, PostAnswered(p) PROVE RunningInv'
<1>1. CASE p.awaited /\ p.step = "refused"
  BY <1>1, RunningLoads DEF PostAnswered
<1>2. CASE ~(p.awaited /\ p.step = "refused")
  <2>1. UNCHANGED <<current, tasks, unseen, broken, healthAsked>> /\ posts' = posts \ {p}
    BY <1>2 DEF PostAnswered, serverVars
  <2>2. followed \subseteq followed' /\ (p.awaited => p.task \in followed')
    BY <1>2 DEF PostAnswered, HandleProgress
  <2>3. Promised \subseteq Promised' \cup {p.task} /\ (~p.awaited => Promised \subseteq Promised')
    BY <2>1 DEF Promised
  <2>4. p.awaited \in BOOLEAN
    BY DEF UploadInv, UploadTypeOK, IsPost
  <2>5. InSight \subseteq InSight'
    BY <2>1, <2>2, <2>3, <2>4 DEF InSight, Sought
  <2> QED BY <2>1, <2>5, RunningStays
<1> QED BY <1>1, <1>2

LEMMA RunningPostFails == ASSUME RunningInv, NEW p \in posts, PostFails(p) PROVE RunningInv'
<1>1. UNCHANGED <<current, tasks, followed, broken, healthAsked>>
  BY DEF PostFails, serverVars, sightVars
<1>2. posts \ {p} \subseteq posts'
  BY DEF PostFails
<1>3. unseen \subseteq unseen' /\ (p.step = "accepted" => p.task \in unseen')
  BY DEF PostFails
<1>4. Promised \subseteq Promised' \cup (IF p.step = "accepted" THEN {p.task} ELSE {})
  BY <1>2 DEF Promised
<1>5. InSight \subseteq InSight' \cup unseen'
  BY <1>1, <1>3, <1>4 DEF InSight, Sought
<1> QED BY <1>1, <1>3, <1>5 DEF RunningInv, Named, Live

LEMMA RunningEvents ==
  ASSUME RunningInv, NEW t, TaskProgress(t) \/ TaskDone(t) \/ PauseEnds(t) \/ StreamBreaks(t)
  PROVE  RunningInv'
<1>1. UNCHANGED <<current, tasks, unseen, posts>>
  BY DEF TaskProgress, TaskDone, PauseEnds, StreamBreaks, serverVars
<1>2. CASE TaskProgress(t)
  <2>1. InSight' = InSight
    BY <1>1, <1>2 DEF TaskProgress, InSight, Sought, Promised
  <2> QED BY <1>1, <2>1, RunningStays
<1>3. CASE TaskDone(t)
  <2>1. InSight \ {t} \subseteq InSight' /\ ~Live(t)
    BY <1>1, <1>3 DEF TaskDone, InSight, Sought, Promised, Live
  <2> QED BY <1>1, <2>1 DEF RunningInv, Named, Live
<1>4. CASE PauseEnds(t)
  <2> DEFINE ask == [task |-> t, why |-> "retry"]
  <2>1. ask \in healthAsked' /\ ask.task = t /\ healthAsked \subseteq healthAsked' /\ followed' = followed
    BY <1>4 DEF PauseEnds
  <2>2. broken \subseteq broken' \cup {t} /\ t \in Sought'
    BY <1>4, <2>1 DEF PauseEnds, Sought
  <2>3. InSight \subseteq InSight'
    BY <1>1, <2>1, <2>2 DEF InSight, Sought, Promised
  <2> QED BY <1>1, <2>3, RunningStays
<1>5. CASE StreamBreaks(t)
  <2>1. InSight \subseteq InSight'
    BY <1>1, <1>5 DEF StreamBreaks, InSight, Sought, Promised
  <2> QED BY <1>1, <2>1, RunningStays
<1> QED BY <1>2, <1>3, <1>4, <1>5

LEMMA RunningHealth ==
  ASSUME RunningInv, NEW a \in healthAsked, HealthAnswers(a) \/ HealthFails(a)
  PROVE  RunningInv'
<1>1. UNCHANGED <<current, tasks, broken, posts>> /\ healthAsked' = healthAsked \ {a}
  BY DEF HealthAnswers, HealthFails, serverVars
<1>2. CASE HealthFails(a)
  <2>1. unseen' = unseen \cup {a.task} /\ followed' = followed
    BY <1>2 DEF HealthFails
  <2>2. InSight \ {a.task} \subseteq InSight'
    BY <1>1, <2>1 DEF InSight, Sought, Promised
  <2> QED BY <1>1, <2>1, <2>2 DEF RunningInv, Named, Live
<1>3. CASE HealthAnswers(a)
  <2>1. UNCHANGED unseen /\ followed \subseteq followed' /\ (Live(a.task) => a.task \in followed')
    BY <1>3 DEF HealthAnswers, HandleProgress
  <2>2. InSight \ {a.task} \subseteq InSight'
    BY <1>1, <2>1 DEF InSight, Sought, Promised
  <2> QED BY <1>1, <2>1, <2>2 DEF RunningInv, Named, Live, InSight
<1> QED BY <1>2, <1>3

LEMMA RunningNext == ASSUME UploadInv, RunningInv, [UploadNext]_uploadVars PROVE RunningInv'
<1>1. CASE Server
  BY <1>1, RunningPosts, RunningWorks DEF Server
<1>2. CASE Page
  <2>1. ASSUME NEW t \in DOMAIN tasks, TaskProgress(t) \/ TaskDone(t) \/ PauseEnds(t) \/ StreamBreaks(t) PROVE RunningInv'
    BY <2>1, RunningEvents
  <2> QED BY <1>2, <2>1, RunningAnswers, RunningHealth DEF Page
<1>3. CASE DbcList \/ DbcChoices \/ UNCHANGED uploadVars
  <2>1. UNCHANGED <<current, tasks, unseen, posts, followed, broken, healthAsked>>
    BY <1>3 DEF DbcList, DbcChoices, DbcListArrives, PickDbcFile, ChooseDbc, uploadVars, serverVars, followVars, sightVars
  <2>2. InSight' = InSight
    BY <2>1 DEF InSight, Sought, Promised
  <2> QED BY <2>1, <2>2, RunningStays
<1>4. CASE Deploy
  BY <1>4 DEF Deploy, Redeployed, RunningInv, Named
<1>5. CASE DropFiles
  <2>1. UNCHANGED <<current, tasks, unseen, followed, broken, healthAsked>> /\ posts \subseteq posts'
    BY <1>5 DEF DropFiles, serverVars, followVars, sightVars
  <2>2. InSight \subseteq InSight'
    BY <2>1 DEF InSight, Sought, Promised
  <2> QED BY <2>1, <2>2, RunningStays
<1>6. CASE PageTroubles
  <2>1. CASE PageReloads
    BY <2>1, RunningLoads DEF PageReloads
  <2> QED BY <1>6, <2>1, RunningEvents, RunningHealth, RunningPostFails DEF PageTroubles
<1> QED BY <1>1, <1>2, <1>3, <1>4, <1>5, <1>6 DEF UploadNext

LEMMA RunningAlways == UploadSpec => []RunningInv
<1>1. UploadInit => RunningInv
  BY DEF UploadInit, RunningInv, Named
<1> QED BY <1>1, RunningNext, UploadAlways, PTL DEF UploadSpec

\* Once its requests have been answered the page follows the upload the server runs, the last it was given
\* or the one it found when it was loaded, unless a health check for it failed, or the answer that named it
\* was lost or went to the page of before (index.js:335-339, 361-378).
THEOREM RunningStaysFollowed == UploadSpec => []RunningIsFollowed
<1>1. RunningInv => RunningIsFollowed
  BY DEF RunningInv, Named, InSight, Sought, Promised, RunningIsFollowed
<1> QED BY <1>1, RunningAlways, PTL

\* All of what the page owes its upload together: it neither loses it, nor waits for none,
\* nor shows another, nor calls it done before it is (index.js, app.py, helper.py).
THEOREM UploadStaysFollowed == UploadSpec => []UploadIsFollowed
BY KeyStaysFollowed, NeverStuck, RunningStaysFollowed, DecodedAsChosen, DoneIsHandled, PTL DEF UploadIsFollowed
=============================================================================
