----------------------------- MODULE UploadPage -----------------------------
\* The file uploader: the server's tasks (app.py, helper.py) and the page that hands it
\* files and follows them (static/index.js). The server accepts one upload at a time; the
\* page may be closed, reloaded or cut off while it runs, and finds it again by the task
\* written into the page or by the one it kept in local storage.
EXTENDS Naturals, Sequences, FiniteSets

CONSTANTS TeamDbcs,     \* the DBC files of the team's repository
          FileCounts,   \* how many readable files an upload may hold
          MaxTasks      \* bound: uploads accepted

ASSUME UploadAssumption ==
    /\ FileCounts \subseteq Nat /\ MaxTasks \in Nat
    /\ TeamDbcs \cap {"none", "default", "custom", "file", "refused"} = {}

VARIABLES
    tasks,      \* server: PROGRESS and the worker of each task
    current,    \* server: CURRENT_FILE["task_id"], 0 when empty
    token,      \* server: GITHUB_DBC_TOKEN is set
    posts,      \* uploads under way from a page to the server and back
    canSubmit, followed, broken, healthAsked, inputsOff,    \* page
    kept,       \* local storage: STORAGE_KEY, 0 when absent
    bar,        \* page: what the progress bar says, and of which task
    unseen,     \* ghost: tasks this page missed, as an answer or a health check was lost
    dbcOptions, dbcChoice, dbcFile      \* page: the DBC to decode with

serverVars == <<tasks, current, token>>
sightVars == <<canSubmit, followed, broken, healthAsked, inputsOff, kept, bar>>
followVars == <<sightVars, unseen>>
dbcVars == <<dbcOptions, dbcChoice, dbcFile>>
uploadVars == <<serverVars, posts, followVars, dbcVars>>

Nothing == 0
NoBar == [says |-> "nothing", task |-> Nothing]
Live(t) == tasks[t].known /\ ~tasks[t].done

-----------------------------------------------------------------------------
\* The server.

\* Mutant: a choice the server cannot serve falls back to its own DBC.
ServerDbcFallsBack(p) ==
    CASE p.dbc \in TeamDbcs -> IF token THEN p.dbc ELSE "default"
      [] p.dbc = "file" -> "file"
      [] OTHER -> IF token THEN "refused" ELSE "default"
\* What the server decodes an upload with; "refused" when it asks for another choice.
ServerDbc(p) ==
    CASE p.dbc \in TeamDbcs -> IF token THEN p.dbc ELSE "refused"
      [] p.dbc = "file" -> "file"
      [] OTHER -> IF token THEN "refused" ELSE "default"

\* The test of CURRENT_FILE comes first; fetching the DBC and unpacking archives follow.
ChecksIdle(p) ==
    /\ p.step = "sent"
    /\ posts' = (posts \ {p}) \cup {[p EXCEPT !.step = IF current = Nothing THEN "checked" ELSE "refused"]}
    /\ UNCHANGED <<serverVars, followVars, dbcVars>>

Accepts(p) ==
    /\ p.step = "checked" /\ ServerDbc(p) # "refused" /\ Len(tasks) < MaxTasks
    /\ \E n \in FileCounts :
          tasks' = Append(tasks, [known |-> TRUE, done |-> FALSE, error |-> FALSE, alive |-> TRUE,
                                  files |-> n, written |-> 0, skipped |-> 0,
                                  dbc |-> ServerDbc(p), asked |-> p.asked])
    /\ current' = Len(tasks')
    /\ unseen' = IF p.awaited THEN unseen ELSE unseen \cup {current'}
    /\ posts' = (posts \ {p}) \cup {[p EXCEPT !.step = "accepted", !.task = Len(tasks')]}
    /\ UNCHANGED <<token, sightVars, dbcVars>>

Refuses(p) ==
    /\ p.step = "checked"
    /\ posts' = (posts \ {p}) \cup {[p EXCEPT !.step = "refused"]}
    /\ UNCHANGED <<serverVars, followVars, dbcVars>>

Working(t) == tasks[t].alive /\ tasks[t].written + tasks[t].skipped < tasks[t].files
Reports(t, r) == tasks' = [tasks EXCEPT ![t] = r] /\ UNCHANGED <<current, token, posts, followVars, dbcVars>>

\* Mutant: one file written means that all are.
WritesDone(r) == TRUE
WritesLast(r) == r.written + 1 = r.files
\* A file is written, or an error in it is printed and the file left there.
WritesFile(t) ==
    /\ Working(t)
    /\ Reports(t, [tasks[t] EXCEPT !.written = @ + 1, !.done = @ \/ WritesLast(tasks[t])])
SkipsFile(t) == Working(t) /\ Reports(t, [tasks[t] EXCEPT !.skipped = @ + 1])

\* Mutant: no event at the end, the batches' own must do.
WorkerDoneByRows(r) == r.done
\* The last progress event always says that everything has been sent, if there was anything.
WorkerDone(r) == r.done \/ r.files > 0
WorkerEnds(t) ==
    /\ tasks[t].alive /\ ~Working(t)
    /\ tasks' = [tasks EXCEPT ![t].alive = FALSE, ![t].done = WorkerDone(tasks[t])]
    /\ current' = Nothing
    /\ UNCHANGED <<token, posts, followVars, dbcVars>>

WorkerFails(t) ==
    /\ tasks[t].alive /\ ~tasks[t].done
    /\ tasks' = [tasks EXCEPT ![t].alive = FALSE, ![t].done = TRUE, ![t].error = TRUE]
    /\ current' = Nothing
    /\ UNCHANGED <<token, posts, followVars, dbcVars>>

\* A new container forgets all tasks, and may have another configuration.
Redeployed(on) ==
    /\ tasks' = [t \in DOMAIN tasks |-> [tasks[t] EXCEPT !.known = FALSE, !.alive = FALSE]]
    /\ current' = Nothing /\ token' = on
    /\ posts' = {p \in posts : p.step \in {"accepted", "refused"}}
    /\ UNCHANGED <<followVars, dbcVars>>

-----------------------------------------------------------------------------
\* The page.

HandleProgress(t) ==
    /\ canSubmit' = FALSE /\ kept' = t /\ followed' = followed \cup {t} /\ bar' = [says |-> "progress", task |-> t]
\* The inputs are enabled again by the last event of a task, and only by that.
ReadyAgain == canSubmit' = TRUE /\ kept' = Nothing
InputsAfter(ended) == inputsOff' = ~ended

\* Mutant: only the key in local storage.
KeptOnly == kept
\* DOMContentLoaded; the page the server renders names its current task.
ResumeId == IF current # Nothing THEN current ELSE kept
Resumes == IF ResumeId = Nothing THEN {} ELSE {[task |-> ResumeId, why |-> "resume"]}
PageLoads ==
    /\ canSubmit' = TRUE /\ followed' = {} /\ broken' = {} /\ inputsOff' = FALSE
    /\ bar' = NoBar /\ unseen' = {} /\ healthAsked' = Resumes
    /\ dbcOptions' = {} /\ dbcChoice' = "none" /\ dbcFile' = FALSE
    /\ UNCHANGED <<serverVars, kept>>
PageReloads ==
    /\ posts' = {[p EXCEPT !.awaited = FALSE] : p \in {q \in posts : q.step \in {"sent", "checked"}}}
    /\ PageLoads

\* loadDbcList, whose request may fail; "teams" is what the repository lists.
DbcListArrives(teams, fails) ==
    /\ dbcOptions = {}
    /\ IF token /\ ~fails
       THEN /\ dbcOptions' = teams \cup {"custom"}
            /\ dbcChoice' = IF teams = {} THEN "custom" ELSE CHOOSE d \in teams : TRUE
       ELSE dbcOptions' = {"default", "custom"} /\ dbcChoice' = "default"
    /\ dbcFile' = (dbcFile /\ dbcChoice' = "custom")
    /\ UNCHANGED <<serverVars, posts, followVars>>

ChooseDbc(d) ==
    /\ ~inputsOff /\ dbcChoice' = d /\ dbcFile' = (dbcFile /\ d = "custom")
    /\ UNCHANGED <<serverVars, posts, followVars, dbcOptions>>
PickDbcFile ==
    /\ ~inputsOff /\ dbcChoice = "custom" /\ dbcFile' = TRUE
    /\ UNCHANGED <<serverVars, posts, followVars, dbcOptions, dbcChoice>>

\* appendDbcToForm.
FormDbc == CASE dbcChoice \in TeamDbcs -> dbcChoice
             [] dbcChoice = "custom" /\ dbcFile -> "file"
             [] OTHER -> "none"

\* dropHandler, clickHandler; a second drop may come before the first has its answer.
DropFiles ==
    /\ canSubmit
    /\ ~(dbcChoice = "custom" /\ ~dbcFile /\ dbcOptions \cap TeamDbcs # {})
    /\ Cardinality(posts) < 2
    /\ posts' = posts \cup {[n |-> 1 + Cardinality({p \in posts : p.n = 1}), step |-> "sent", task |-> Nothing,
                             dbc |-> FormDbc, asked |-> dbcChoice, awaited |-> TRUE]}
    /\ UNCHANGED <<serverVars, followVars, dbcVars>>

PostAnswered(p) ==
    /\ p.step \in {"accepted", "refused"}
    /\ IF p.awaited /\ p.step = "refused"
       THEN PageLoads /\ posts' = {[q EXCEPT !.awaited = FALSE] : q \in {r \in posts \ {p} : r.step \in {"sent", "checked"}}}
       ELSE /\ posts' = posts \ {p}
            /\ IF p.awaited THEN HandleProgress(p.task) ELSE UNCHANGED <<canSubmit, kept, followed, bar>>
            /\ UNCHANGED <<serverVars, broken, healthAsked, inputsOff, unseen, dbcVars>>

\* The request fails or its answer is lost: the page is as idle as before, while the server may
\* yet get the upload, or has accepted it.
PostFails(p) ==
    /\ p.awaited
    /\ \/ posts' = posts \ {p}
       \/ p.step \in {"sent", "checked"} /\ posts' = (posts \ {p}) \cup {[p EXCEPT !.awaited = FALSE]}
    /\ unseen' = IF p.step = "accepted" THEN unseen \cup {p.task} ELSE unseen
    /\ UNCHANGED <<serverVars, sightVars, dbcVars>>

\* Every event but the last only shows progress.
TaskProgress(t) ==
    /\ t \in followed /\ Live(t) /\ InputsAfter(FALSE)
    /\ UNCHANGED <<serverVars, posts, canSubmit, followed, broken, healthAsked, kept, bar, unseen, dbcVars>>
TaskDone(t) ==
    /\ t \in followed /\ tasks[t].known /\ tasks[t].done
    /\ followed' = followed \ {t} /\ ReadyAgain /\ InputsAfter(TRUE)
    /\ bar' = [says |-> IF tasks[t].error THEN "failed" ELSE "all rows written", task |-> t]
    /\ UNCHANGED <<serverVars, posts, broken, healthAsked, unseen, dbcVars>>

\* onerror: the network, or a server that does not know the task.
StreamBreaks(t) ==
    /\ t \in followed /\ followed' = followed \ {t} /\ broken' = broken \cup {t}
    /\ UNCHANGED <<serverVars, posts, canSubmit, healthAsked, inputsOff, kept, bar, unseen, dbcVars>>
PauseEnds(t) ==
    /\ t \in broken /\ broken' = broken \ {t}
    /\ healthAsked' = healthAsked \cup {[task |-> t, why |-> "retry"]}
    /\ UNCHANGED <<serverVars, posts, canSubmit, followed, inputsOff, kept, bar, unseen, dbcVars>>

\* Mutants: the key stays; the page stays busy.
LetsGoKeepsKey(a) == UNCHANGED kept /\ IF a.why = "retry" THEN canSubmit' = TRUE ELSE UNCHANGED canSubmit
LetsGoStaysBusy(a) == kept' = Nothing /\ UNCHANGED canSubmit
LetsGo(a) == IF a.why = "retry" THEN ReadyAgain ELSE kept' = Nothing /\ UNCHANGED canSubmit
HealthAnswers(a) ==
    /\ a \in healthAsked /\ healthAsked' = healthAsked \ {a}
    /\ IF Live(a.task) THEN HandleProgress(a.task) ELSE LetsGo(a) /\ UNCHANGED <<followed, bar>>
    /\ UNCHANGED <<serverVars, posts, broken, inputsOff, unseen, dbcVars>>
HealthFails(a) ==
    /\ a \in healthAsked /\ healthAsked' = healthAsked \ {a} /\ unseen' = unseen \cup {a.task}
    /\ LetsGo(a)
    /\ UNCHANGED <<serverVars, posts, followed, broken, inputsOff, bar, dbcVars>>

-----------------------------------------------------------------------------
UploadInit ==
    /\ tasks = <<>> /\ current = Nothing /\ token \in BOOLEAN /\ posts = {}
    /\ canSubmit = TRUE /\ followed = {} /\ broken = {} /\ healthAsked = {} /\ inputsOff = FALSE
    /\ kept = Nothing /\ bar = NoBar /\ unseen = {}
    /\ dbcOptions = {} /\ dbcChoice = "none" /\ dbcFile = FALSE

\* What goes on by itself.
Server ==
    \/ \E p \in posts : ChecksIdle(p) \/ Accepts(p) \/ Refuses(p)
    \/ \E t \in DOMAIN tasks : WritesFile(t) \/ SkipsFile(t) \/ WorkerEnds(t) \/ WorkerFails(t)
Page ==
    \/ \E p \in posts : PostAnswered(p)
    \/ \E t \in DOMAIN tasks : \/ TaskProgress(t) \/ TaskDone(t) \/ PauseEnds(t)
                               \/ ~tasks[t].known /\ StreamBreaks(t)
    \/ \E a \in healthAsked : HealthAnswers(a)
DbcList == \E teams \in {{}, TeamDbcs} : DbcListArrives(teams, FALSE)

\* What users, networks and operators do.
Deploy == \E on \in BOOLEAN : Redeployed(on)
PageTroubles ==
    \/ PageReloads
    \/ \E t \in followed : tasks[t].known /\ StreamBreaks(t)
    \/ \E a \in healthAsked : HealthFails(a)
    \/ \E p \in posts : PostFails(p)
DbcChoices ==
    \/ PickDbcFile \/ DbcListArrives({}, TRUE)
    \/ \E d \in dbcOptions : ChooseDbc(d)

UploadNext == Server \/ Page \/ DbcList \/ Deploy \/ DropFiles \/ PageTroubles \/ DbcChoices
UploadSpec == UploadInit /\ [][UploadNext]_uploadVars

-----------------------------------------------------------------------------
Sought == broken \cup {a.task : a \in healthAsked}

\* The key in local storage is that of a task the page follows or is asking about, unless the page was
\* loaded while the server ran another, which it then asks about first, to keep that one's key or none: one
\* left behind would make every later page ask for a task that has long ended (index.js:197, 249, 363-374).
KeyIsFollowed ==
    kept # Nothing => kept \in followed \cup Sought \/ \E a \in healthAsked : a.why = "resume"

\* A page that refuses files has a reason: something it follows can still end it
\* (index.js:165, 225, 251, 259).
RefusesOnlyWhileFollowing == ~canSubmit => followed \cup Sought # {}

\* Once its requests have been answered, the page follows the upload the server runs, be it the last one it
\* was given or one it found running when it was loaded, unless a health check for it failed, or the answer
\* that named it was lost or went to the page of before (index.js:335-339, 361-378).
RunningIsFollowed ==
    current # Nothing /\ Live(current) /\ current \notin unseen /\ posts = {} /\ healthAsked = {}
    => current \in followed \cup broken

\* What is written is decoded with the DBC the page showed when the files were dropped, be
\* it that the server was configured anew since (app.py:475-503). A custom choice without a
\* file means the container's own.
DbcAsChosen ==
    \A t \in DOMAIN tasks :
        LET r == tasks[t] IN
        /\ r.asked \in TeamDbcs => r.dbc = r.asked
        /\ r.dbc = "file" => r.asked = "custom"

\* The page does not refuse files for ever: an upload with anything in it ends, and the
\* page that follows it accepts the next (index.js:195-226, helper.py:534).
UploadsEnd == \A t \in 1..MaxTasks :
    (t \in DOMAIN tasks /\ t \in followed /\ tasks[t].files > 0) ~> canSubmit

\* The page says "Done" of no upload with a file still to come (app.py:550, helper.py:529-537).
\* That all of it has been written is more than the code holds to: a file that fails is
\* printed, skipped and counted as sent.
DoneMeansHandled ==
    bar.says = "all rows written" => ~tasks[bar.task].error /\ tasks[bar.task].written + tasks[bar.task].skipped = tasks[bar.task].files

\* The page stays with its upload: it does not lose one, wait for none, show another or
\* report one done that is not (index.js, worker).
UploadIsFollowed == KeyIsFollowed /\ RefusesOnlyWhileFollowing /\ RunningIsFollowed /\ DbcAsChosen /\ DoneMeansHandled
=============================================================================
