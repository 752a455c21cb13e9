--------------------------- MODULE BackgroundTasks ---------------------------
(* BackgroundTaskManager: a command left running is registered, a thread    *)
(* streams its output until it ends, and other threads ask for its status   *)
(* or kill it.  Tasks share nothing but the manager's lock, so the module   *)
(* follows one of them.  Output is left out.                                *)
EXTENDS Naturals, Sequences, FiniteSets, SequencesExt

CONSTANTS Killers      \* calls of kill_task

ASSUME BgAssumption == IsFiniteSet(Killers)

VARIABLES
    process,      \* "running" or how it ended: "ok", "error", "signalled"
    register,     \* how far register_task is
    streamer,     \* what the output thread is doing
    seen,         \* the exit the output thread has polled
    stopEvent,    \* the output thread's stop event
    status,       \* task.status
    killer,       \* call of kill_task -> where it is
    notices       \* the statuses listeners were told, in order
bgVars == <<process, register, streamer, seen, stopEvent, status, killer, notices>>

Exits == {"ok", "error", "signalled"}
Finals == {"completed", "failed", "killed"}
StatusOf(exit) ==
    CASE exit = "ok" -> "completed" [] exit = "signalled" -> "killed" [] OTHER -> "failed"
Exited == process \in Exits
Notify(s) == notices' = Append(notices, s)

BgInit ==
    /\ process = "running" /\ register = "new" /\ streamer = "none" /\ seen = "running"
    /\ stopEvent = "missing" /\ status = "none" /\ notices = <<>>
    /\ killer = [k \in Killers |-> "new"]

(* The command ends by itself or on a signal, whenever it likes.           *)
ProcessEnds ==
    /\ process = "running" /\ process' \in Exits
    /\ UNCHANGED <<register, streamer, seen, stopEvent, status, killer, notices>>

(* The task is listed first; with a terminal the output thread is started, *)
(* then its stop event is recorded; the listeners hear of it last.         *)
Register ==
    /\ register = "new" /\ register' \in {"listed", "plain"} /\ status' = "running"
    /\ UNCHANGED <<process, streamer, seen, stopEvent, killer, notices>>
StartStreaming ==
    /\ register = "listed" /\ register' = "streaming" /\ streamer' = "reading"
    /\ UNCHANGED <<process, seen, stopEvent, status, killer, notices>>
RecordStopEvent ==
    /\ register = "streaming" /\ register' = "plain" /\ stopEvent' = "clear"
    /\ UNCHANGED <<process, streamer, seen, status, killer, notices>>
AnnounceRunning ==
    /\ register = "plain" /\ register' = "done" /\ Notify("running")
    /\ UNCHANGED <<process, streamer, seen, stopEvent, status, killer>>
-----------------------------------------------------------------------------
(* stream_output stops at the stop event, at the end of the output (the    *)
(* command may go on without its terminal) or when the command has ended;  *)
(* then _update_task_status polls, and writes under the lock.              *)
StreamStops ==
    /\ streamer = "reading" /\ streamer' = "polling"
    /\ UNCHANGED <<process, register, seen, stopEvent, status, killer, notices>>
MustStop == stopEvent = "set" \/ Exited
(* Mutants: a command that goes on is marked, too; one that has ended is   *)
(* not.                                                                    *)
StreamGuesses ==
    /\ streamer = "polling" /\ streamer' = "writing" /\ seen' = process
    /\ UNCHANGED <<process, register, stopEvent, status, killer, notices>>
StreamLooksOnly ==
    /\ streamer = "polling" /\ streamer' = "done" /\ seen' = process
    /\ UNCHANGED <<process, register, stopEvent, status, killer, notices>>

StreamPolls ==
    /\ streamer = "polling"
    /\ streamer' = IF Exited THEN "writing" ELSE "done"
    /\ seen' = process
    /\ UNCHANGED <<process, register, stopEvent, status, killer, notices>>
StreamWrites ==
    /\ streamer = "writing" /\ streamer' = "announcing" /\ status' = StatusOf(seen)
    /\ UNCHANGED <<process, register, seen, stopEvent, killer, notices>>
StreamAnnounces ==
    /\ streamer = "announcing" /\ streamer' = "done" /\ Notify(status)
    /\ UNCHANGED <<process, register, seen, stopEvent, status, killer>>

(* Mutant: the getters leave the announcement to the output thread.        *)
GetSilently ==
    /\ status = "running" /\ Exited
    /\ status' = StatusOf(process)
    /\ UNCHANGED <<process, register, streamer, seen, stopEvent, killer, notices>>

(* get_task, get_running_tasks and get_all_tasks poll a task that counts   *)
(* as running, write and notify, all under the lock.                       *)
GetStatus ==
    /\ status = "running" /\ Exited
    /\ status' = StatusOf(process) /\ Notify(status')
    /\ UNCHANGED <<process, register, streamer, seen, stopEvent, killer>>
-----------------------------------------------------------------------------
KillGoes(k, at) == killer' = [killer EXCEPT ![k] = at]
SameTask == UNCHANGED <<process, register, streamer, seen>>

KillChecks(k) ==
    /\ killer[k] = "new"
    /\ KillGoes(k, IF status = "none" THEN "false" ELSE IF Exited THEN "true" ELSE "stopping")
    /\ SameTask /\ UNCHANGED <<stopEvent, status, notices>>
KillStopsStream(k) ==
    /\ killer[k] = "stopping" /\ KillGoes(k, "signalling")
    /\ stopEvent' = IF stopEvent = "missing" THEN stopEvent ELSE "set"
    /\ SameTask /\ UNCHANGED <<status, notices>>
(* The command may end on the signal, with any code, or ignore it.         *)
KillSignals(k) ==
    /\ killer[k] = "signalling" /\ KillGoes(k, "waiting")
    /\ SameTask /\ UNCHANGED <<stopEvent, status, notices>>
KillSeesEnd(k) ==
    /\ killer[k] \in {"waiting", "forcing"} /\ Exited /\ KillGoes(k, "marking")
    /\ SameTask /\ UNCHANGED <<stopEvent, status, notices>>
(* Five seconds, then SIGKILL, then two seconds more.                      *)
KillTimesOut(k) ==
    /\ killer[k] \in {"waiting", "forcing"}
    /\ KillGoes(k, IF killer[k] = "waiting" THEN "forcing" ELSE "false")
    /\ SameTask /\ UNCHANGED <<stopEvent, status, notices>>
KillMarks(k) ==
    /\ killer[k] = "marking" /\ KillGoes(k, "announcing") /\ status' = "killed"
    /\ SameTask /\ UNCHANGED <<stopEvent, notices>>
KillAnnounces(k) ==
    /\ killer[k] = "announcing" /\ KillGoes(k, "true") /\ Notify("killed")
    /\ SameTask /\ UNCHANGED <<stopEvent, status>>

KillStep(k) ==
    \/ KillChecks(k) \/ KillStopsStream(k) \/ KillSignals(k)
    \/ KillSeesEnd(k) \/ KillTimesOut(k) \/ KillMarks(k) \/ KillAnnounces(k)
StreamStep == StreamPolls \/ StreamWrites \/ StreamAnnounces
BgNext ==
    \/ ProcessEnds \/ Register \/ StartStreaming \/ RecordStopEvent \/ AnnounceRunning
    \/ StreamStops \/ StreamStep \/ GetStatus
    \/ \E k \in Killers : KillStep(k)
BgSpec == BgInit /\ [][BgNext]_bgVars
(* The output thread looks up at least every half second and is scheduled. *)
BgFairness ==
    /\ WF_bgVars(MustStop /\ StreamStops)
    /\ WF_bgVars(StreamStep)
BgFairSpec == BgSpec /\ BgFairness
-----------------------------------------------------------------------------
BgTypeOK ==
    /\ process \in Exits \cup {"running"} /\ seen \in Exits \cup {"running"}
    /\ register \in {"new", "listed", "streaming", "plain", "done"}
    /\ streamer \in {"none", "reading", "polling", "writing", "announcing", "done"}
    /\ stopEvent \in {"missing", "clear", "set"}
    /\ status \in Finals \cup {"none", "running"}
    /\ killer \in [Killers -> {"new", "stopping", "signalling", "waiting", "forcing",
                               "marking", "announcing", "true", "false"}]
    /\ notices \in Seq(Finals \cup {"running"})

(* A final status is never invented: whichever of the output thread, the   *)
(* getters and the killers wrote last, the command has ended, and it is    *)
(* "completed" or "failed" only if it ended so by itself.                  *)
StatusTellsExit ==
    /\ status \in Finals => Exited
    /\ status = "completed" => process = "ok"
    /\ status = "failed" => process = "error"

(* Once nobody is between writing a status and announcing it, a task that  *)
(* has ended has been announced as ended.                                  *)
FinalIsAnnounced ==
    /\ status \in Finals /\ streamer # "announcing"
    /\ \A k \in Killers : killer[k] # "announcing"
    => \E i \in DOMAIN notices : notices[i] \in Finals

(* An end is noticed although nobody asks for it: a command whose output   *)
(* is streamed gets a final status once it has ended, unless the output    *)
(* thread looked, and stopped looking, before that.                        *)
ExitIsNoticed ==
    []<>(Exited /\ streamer # "none" =>
            status \in Finals \/ (streamer = "done" /\ seen = "running"))
=============================================================================
