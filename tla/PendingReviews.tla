---------------------------- MODULE PendingReviews ----------------------------
(***************************************************************************)
(* Questions an agent thread puts to the user, and the clicks that answer  *)
(* them: the pending_* dictionaries of WebState, the threads that wait in  *)
(* WebApprovalManager, WebAskUserManager and WebUICallback, the handlers   *)
(* of WebSocketManager, and the pending_reviews table that mirrors them.   *)
(*                                                                         *)
(* A request is asked by a thread of a run, which registers it, announces  *)
(* it to the clients and waits on an event with a timeout.  A click first  *)
(* resolves the entry in memory and, after an await, the row in the        *)
(* database; the row is written by a task that the asking thread only      *)
(* schedules.  The four kinds of request differ in what they do when the   *)
(* announcement fails, when time runs out and when the entry is gone.      *)
(***************************************************************************)
EXTENDS Naturals, FiniteSets

CONSTANTS
    Requests,       \* the questions agents ask
    Sessions,       \* the conversations
    Clicks,         \* the answers users send
    None,           \* no request, no session, no kind
    MaxRestarts,    \* bound of the model: restarts of the server
    SerialRuns      \* no two runs of one session overlap

ASSUME RestartsAssumption == MaxRestarts \in Nat

ASSUME SerialRunsAssumption == SerialRuns \in BOOLEAN

(* "review" stands for the taxonomy, plan and clarification reviews of the *)
(* deep skills.                                                            *)
Kinds == {"approval", "ask", "plan", "review"}

ASSUME NoneIsNew == None \notin Requests \cup Sessions \cup Kinds

Answers == {"yes", "no"}

VARIABLES
    pc,         \* where the thread that asks each request is
    kind,       \* the kind of each request
    owner,      \* the session that asks it
    entry,      \* its entry in memory: "absent", "open" or the answer
    event,      \* its threading.Event is set
    result,     \* what the asking thread got
    insert,     \* its row is scheduled to be written
    row,        \* its row in pending_reviews: "absent", "open" or "closed"
    click,      \* where each click is
    about,      \* the request it answers
    says,       \* the answer it gives
    found,      \* it found the entry in memory
    closed,     \* it closed the row
    autonomy,   \* WebState._autonomy_level
    restarts,   \* restarts so far
    stopped     \* history variable: approvals that waited at an interrupt

threadVars == <<pc, kind, owner, result>>
memoryVars == <<entry, event>>
rowVars    == <<insert, row>>
clickVars  == <<click, about, says, found, closed>>
vars == <<pc, kind, owner, entry, event, result, insert, row, click, about,
          says, found, closed, autonomy, restarts, stopped>>

-----------------------------------------------------------------------------
(* A thread registers a request, announces it, waits, and is woken or runs *)
(* out of time; "read" is between reading the answer and clearing the      *)
(* entry.                                                                  *)
Blocked == {"announcing", "waiting", "expired", "woken", "read"}
Ended   == {"returned", "dead"}
Phases  == {"new"} \cup Blocked \cup Ended

Goto(r, p) == pc' = [pc EXCEPT ![r] = p]

Clear(r) == entry' = [entry EXCEPT ![r] = "absent"]

(* Mutant: a plan nobody answers is approved. *)
DefaultAccepts(r) == IF kind[r] \in {"review", "plan"} THEN "yes" ELSE "no"

(* The answer a thread falls back on: the deep skills go on without one.   *)
Default(r) == IF kind[r] = "review" THEN "yes" ELSE "no"

ReturnWith(r, answer) ==
    /\ result' = [result EXCEPT ![r] = answer]
    /\ Goto(r, "returned")

-----------------------------------------------------------------------------
(* The thread that asks. *)

(* WebApprovalManager.request_approval looks at the autonomy level first;  *)
(* a command it knows to be safe also passes at "semi".                    *)
AutoApprove(r, s) ==
    /\ pc[r] = "new"
    /\ autonomy \in {"semi", "auto"}
    /\ kind' = [kind EXCEPT ![r] = "approval"]
    /\ owner' = [owner EXCEPT ![r] = s]
    /\ ReturnWith(r, "auto")
    /\ UNCHANGED <<memoryVars, rowVars, clickVars, autonomy, restarts, stopped>>

(* add_pending_*: the entry, and the task that will write the row. *)
Ask(r, s, k) ==
    /\ pc[r] = "new"
    /\ k = "approval" => autonomy # "auto"
    /\ kind' = [kind EXCEPT ![r] = k]
    /\ owner' = [owner EXCEPT ![r] = s]
    /\ entry' = [entry EXCEPT ![r] = "open"]
    /\ insert' = [insert EXCEPT ![r] = TRUE]
    /\ Goto(r, "announcing")
    /\ UNCHANGED <<event, result, row, clickVars, autonomy, restarts, stopped>>

(* The broadcast is over.  WebUICallback._broadcast goes on if it failed.  *)
Announced(r) ==
    /\ pc[r] = "announcing"
    /\ Goto(r, "waiting")
    /\ UNCHANGED <<kind, owner, memoryVars, result, rowVars, clickVars, autonomy,
                   restarts, stopped>>

(* The broadcast failed or took more than five seconds: an approval or an  *)
(* ask-user request is given up.                                           *)
AnnounceFails(r) ==
    /\ pc[r] = "announcing"
    /\ kind[r] \in {"approval", "ask"}
    /\ Clear(r)
    /\ ReturnWith(r, "no")
    /\ UNCHANGED <<kind, owner, event, rowVars, clickVars, autonomy, restarts,
                   stopped>>

(* Mutant: only approvals run out of time. *)
ExpireApproval(r) ==
    /\ pc[r] = "waiting"
    /\ kind[r] = "approval"
    /\ ~event[r]
    /\ Goto(r, "expired")
    /\ UNCHANGED <<kind, owner, memoryVars, result, rowVars, clickVars, autonomy,
                   restarts, stopped>>

(* done_event.wait ran out of time. *)
Expire(r) ==
    /\ pc[r] = "waiting"
    /\ ~event[r]
    /\ Goto(r, "expired")
    /\ UNCHANGED <<kind, owner, memoryVars, result, rowVars, clickVars, autonomy,
                   restarts, stopped>>

GiveUp(r) ==
    /\ pc[r] = "expired"
    /\ Clear(r)
    /\ ReturnWith(r, Default(r))
    /\ UNCHANGED <<kind, owner, event, rowVars, clickVars, autonomy, restarts,
                   stopped>>


Wake(r) ==
    /\ pc[r] = "waiting"
    /\ event[r]
    /\ Goto(r, "woken")
    /\ UNCHANGED <<kind, owner, memoryVars, result, rowVars, clickVars, autonomy,
                   restarts, stopped>>

(* The event was set: read the entry, then clear it. *)
ReadAnswer(r) ==
    /\ pc[r] = "woken"
    /\ kind[r] # "review"
    /\ entry[r] # "absent"
    /\ result' = [result EXCEPT ![r] = entry[r]]
    /\ Goto(r, "read")
    /\ UNCHANGED <<kind, owner, memoryVars, rowVars, clickVars, autonomy,
                   restarts, stopped>>

ClearRead(r) ==
    /\ pc[r] = "read"
    /\ Clear(r)
    /\ Goto(r, "returned")
    /\ UNCHANGED <<kind, owner, event, result, rowVars, clickVars, autonomy,
                   restarts, stopped>>

(* The reviews clear the entry and read it afterwards. *)
TakeReview(r) ==
    /\ pc[r] = "woken"
    /\ kind[r] = "review"
    /\ Clear(r)
    /\ ReturnWith(r, IF entry[r] = "absent" THEN Default(r) ELSE entry[r])
    /\ UNCHANGED <<kind, owner, event, rowVars, clickVars, autonomy, restarts,
                   stopped>>

(* The entry is gone: a plan is rejected, the others subscript None. *)
ReadNothing(r) ==
    /\ pc[r] = "woken"
    /\ kind[r] # "review"
    /\ entry[r] = "absent"
    /\ ReturnWith(r, IF kind[r] = "plan" THEN Default(r) ELSE "crashed")
    /\ UNCHANGED <<kind, owner, memoryVars, rowVars, clickVars, autonomy,
                   restarts, stopped>>

-----------------------------------------------------------------------------
(* The event loop: the row, the clicks, the interrupt, the end of a run.   *)

(* _persist_pending has committed the row; on a conflict it does nothing.  *)
PersistPending(r) ==
    /\ insert[r]
    /\ insert' = [insert EXCEPT ![r] = FALSE]
    /\ row' = [row EXCEPT ![r] = IF @ = "absent" THEN "open" ELSE @]
    /\ UNCHANGED <<threadVars, memoryVars, clickVars, autonomy, restarts, stopped>>

(* "Never crash the agent thread": a row that cannot be written is not.    *)
PersistFails(r) ==
    /\ insert[r]
    /\ insert' = [insert EXCEPT ![r] = FALSE]
    /\ UNCHANGED <<threadVars, memoryVars, row, clickVars, autonomy, restarts,
                   stopped>>

(* Mutant: the resolution is applied after the entry was cleared. *)
ClickRevives(c, r, answer) ==
    /\ click[c] = "idle"
    /\ pc[r] # "new" /\ result[r] # "auto"
    /\ click' = [click EXCEPT ![c] = "persisting"]
    /\ about' = [about EXCEPT ![c] = r]
    /\ says' = [says EXCEPT ![c] = answer]
    /\ found' = [found EXCEPT ![c] = TRUE]
    /\ entry' = [entry EXCEPT ![r] = answer]
    /\ event' = [event EXCEPT ![r] = TRUE]
    /\ UNCHANGED <<threadVars, rowVars, closed, autonomy, restarts, stopped>>

(* A client answers a request it was shown.  resolve_* under the lock sets *)
(* the answer and the event, whether or not the entry is resolved already. *)
Click(c, r, answer) ==
    LET there == entry[r] # "absent" IN
    /\ click[c] = "idle"
    /\ pc[r] # "new" /\ result[r] # "auto"
    /\ click' = [click EXCEPT ![c] = "persisting"]
    /\ about' = [about EXCEPT ![c] = r]
    /\ says' = [says EXCEPT ![c] = answer]
    /\ found' = [found EXCEPT ![c] = there]
    /\ entry' = [entry EXCEPT ![r] = IF there THEN answer ELSE @]
    /\ event' = [event EXCEPT ![r] = there \/ @]
    /\ UNCHANGED <<threadVars, rowVars, closed, autonomy, restarts, stopped>>

(* Mutant: the update does not ask for an open row. *)
PersistResolutionAgain(c) ==
    LET r == about[c] IN
    /\ click[c] = "persisting"
    /\ closed' = [closed EXCEPT ![c] = row[r] # "absent"]
    /\ row' = [row EXCEPT ![r] = IF @ = "absent" THEN @ ELSE "closed"]
    /\ click' = [click EXCEPT ![c] = "answered"]
    /\ UNCHANGED <<threadVars, memoryVars, insert, about, says, found,
                   autonomy, restarts, stopped>>

(* _persist_resolution: close the row if it is there and open. *)
PersistResolution(c) ==
    LET r == about[c] IN
    /\ click[c] = "persisting"
    /\ closed' = [closed EXCEPT ![c] = row[r] = "open"]
    /\ row' = [row EXCEPT ![r] = IF @ = "open" THEN "closed" ELSE @]
    /\ click' = [click EXCEPT ![c] = "answered"]
    /\ UNCHANGED <<threadVars, memoryVars, insert, about, says, found,
                   autonomy, restarts, stopped>>

(* The database cannot be reached: logged, and taken for "no row". *)
PersistResolutionFails(c) ==
    /\ click[c] = "persisting"
    /\ click' = [click EXCEPT ![c] = "unsaved"]
    /\ UNCHANGED <<threadVars, memoryVars, rowVars, about, says, found, closed,
                   autonomy, restarts, stopped>>

(* What aresolve_* returns, and so what the handler tells the clients. *)
ToldOk(c) == click[c] \in {"answered", "unsaved"} /\ (found[c] \/ closed[c])

Unresolved(r) == kind[r] = "approval" /\ entry[r] = "open"

(* Mutant: the interrupt wakes every thread and resolves the approvals. *)
InterruptWakesAll ==
    /\ entry' = [r \in Requests |-> IF Unresolved(r) THEN "no" ELSE entry[r]]
    /\ event' = [r \in Requests |-> entry[r] = "open" \/ event[r]]
    /\ stopped' = stopped \cup
            {r \in Requests : kind[r] = "approval" /\ pc[r] \in {"announcing", "waiting"}}
    /\ UNCHANGED <<threadVars, rowVars, clickVars, autonomy, restarts>>

(* Mutant: the interrupt denies the approvals and wakes nobody. *)
InterruptSilently ==
    /\ entry' = [r \in Requests |-> IF Unresolved(r) THEN "no" ELSE entry[r]]
    /\ stopped' = stopped \cup
            {r \in Requests : kind[r] = "approval" /\ pc[r] \in {"announcing", "waiting"}}
    /\ UNCHANGED <<threadVars, event, rowVars, clickVars, autonomy, restarts>>

(* Mutant: the approvals are woken and dropped. *)
InterruptDrops ==
    /\ entry' = [r \in Requests |-> IF Unresolved(r) THEN "absent" ELSE entry[r]]
    /\ event' = [r \in Requests |-> Unresolved(r) \/ event[r]]
    /\ stopped' = stopped \cup
            {r \in Requests : kind[r] = "approval" /\ pc[r] \in {"announcing", "waiting"}}
    /\ UNCHANGED <<threadVars, rowVars, clickVars, autonomy, restarts>>

(* request_interrupt: deny and wake every approval; only approvals. *)
Interrupt ==
    /\ entry' = [r \in Requests |-> IF Unresolved(r) THEN "no" ELSE entry[r]]
    /\ event' = [r \in Requests |-> Unresolved(r) \/ event[r]]
    /\ stopped' = stopped \cup
            {r \in Requests : kind[r] = "approval" /\ pc[r] \in {"announcing", "waiting"}}
    /\ UNCHANGED <<threadVars, rowVars, clickVars, autonomy, restarts>>

(* execute_query's finally clause: clear_session_approvals.  A run ends    *)
(* after its threads, so one that still waits belongs to another run.      *)
EndOfRun(s) ==
    LET mine == {r \in Requests : owner[r] = s /\ kind[r] = "approval"} IN
    /\ SerialRuns => \A r \in Requests : owner[r] = s => pc[r] \notin Blocked
    /\ entry' = [r \in Requests |-> IF r \in mine THEN "absent" ELSE entry[r]]
    /\ event' = [r \in Requests |-> (r \in mine /\ Unresolved(r)) \/ event[r]]
    /\ UNCHANGED <<threadVars, rowVars, clickVars, autonomy, restarts, stopped>>

SetAutonomy(level) ==
    /\ autonomy # level
    /\ autonomy' = level
    /\ UNCHANGED <<threadVars, memoryVars, rowVars, clickVars, restarts, stopped>>

(* The server stops and comes back: what it had in memory is gone, and so  *)
(* are its threads and tasks; the rows stay.                               *)
Restart ==
    /\ restarts < MaxRestarts
    /\ restarts' = restarts + 1
    /\ pc' = [r \in Requests |-> IF pc[r] \in Blocked THEN "dead" ELSE pc[r]]
    /\ entry' = [r \in Requests |-> "absent"]
    /\ event' = [r \in Requests |-> FALSE]
    /\ insert' = [r \in Requests |-> FALSE]
    /\ click' = [c \in Clicks |-> IF click[c] = "persisting" THEN "lost" ELSE click[c]]
    /\ autonomy' = "manual"
    /\ UNCHANGED <<kind, owner, result, row, about, says, found, closed, stopped>>

-----------------------------------------------------------------------------
Init ==
    /\ pc = [r \in Requests |-> "new"]
    /\ kind = [r \in Requests |-> None]
    /\ owner = [r \in Requests |-> None]
    /\ entry = [r \in Requests |-> "absent"]
    /\ event = [r \in Requests |-> FALSE]
    /\ result = [r \in Requests |-> "none"]
    /\ insert = [r \in Requests |-> FALSE]
    /\ row = [r \in Requests |-> "absent"]
    /\ click = [c \in Clicks |-> "idle"]
    /\ about = [c \in Clicks |-> None]
    /\ says = [c \in Clicks |-> "no"]
    /\ found = [c \in Clicks |-> FALSE]
    /\ closed = [c \in Clicks |-> FALSE]
    /\ autonomy = "manual"
    /\ restarts = 0
    /\ stopped = {}

(* What a thread does without waiting for the clock. *)
ThreadStep(r) ==
    \/ Announced(r) \/ AnnounceFails(r) \/ GiveUp(r) \/ Wake(r)
    \/ ReadAnswer(r) \/ ClearRead(r) \/ TakeReview(r) \/ ReadNothing(r)

TaskStep(r) == PersistPending(r) \/ PersistFails(r)

ClickStep(c) == PersistResolution(c) \/ PersistResolutionFails(c)

Next ==
    \/ \E r \in Requests, s \in Sessions :
            AutoApprove(r, s) \/ \E k \in Kinds : Ask(r, s, k)
    \/ \E r \in Requests : ThreadStep(r) \/ Expire(r) \/ TaskStep(r)
    \/ \E c \in Clicks : ClickStep(c) \/ \E r \in Requests, a \in Answers : Click(c, r, a)
    \/ Interrupt
    \/ \E s \in Sessions : EndOfRun(s)
    \/ \E level \in {"manual", "semi", "auto"} : SetAutonomy(level)
    \/ Restart

Spec == Init /\ [][Next]_vars

(* Threads that can run do; nobody has to click. *)
FairThreads == Spec /\ \A r \in Requests : WF_vars(ThreadStep(r))

-----------------------------------------------------------------------------
(* Properties. *)

TypeOK ==
    /\ pc \in [Requests -> Phases]
    /\ kind \in [Requests -> Kinds \cup {None}]
    /\ owner \in [Requests -> Sessions \cup {None}]
    /\ entry \in [Requests -> {"absent", "open"} \cup Answers]
    /\ event \in [Requests -> BOOLEAN]
    /\ result \in [Requests -> {"none", "auto", "crashed"} \cup Answers]
    /\ insert \in [Requests -> BOOLEAN]
    /\ row \in [Requests -> {"absent", "open", "closed"}]
    /\ click \in [Clicks -> {"idle", "persisting", "answered", "unsaved", "lost"}]
    /\ about \in [Clicks -> Requests \cup {None}]
    /\ says \in [Clicks -> Answers]
    /\ found \in [Clicks -> BOOLEAN]
    /\ closed \in [Clicks -> BOOLEAN]
    /\ autonomy \in {"manual", "semi", "auto"}
    /\ restarts \in Nat
    /\ stopped \subseteq Requests

(* Nothing stays behind in the dictionaries: an entry belongs to a thread  *)
(* that is still on its way to clearing it, through every failed           *)
(* announcement, timeout, late click, interrupt and restart.               *)
EntriesHaveWaiters == \A r \in Requests : entry[r] # "absent" => pc[r] \in Blocked

(* A thread is told yes only if a user said yes: not by a timeout, a       *)
(* failed announcement, an interrupt, a click on another request or one    *)
(* that came too late.  The reviews alone go on by default.                *)
SaidYes(r) == \E c \in Clicks : about[c] = r /\ says[c] = "yes" /\ found[c]

YesMeansYes ==
    \A r \in Requests : result[r] = "yes" /\ kind[r] # "review" => SaidYes(r)

(* A thread that is woken finds an answer: the entry is still there, and   *)
(* what woke the thread has put an answer in it ("Event was set - read     *)
(* result", web_approval_manager.py and web_ask_user_manager.py).  It      *)
(* takes that no other run of the session ends while the thread waits.     *)
WokenFindsAnswer ==
    \A r \in Requests :
        event[r] /\ pc[r] \in {"announcing", "waiting", "woken"} => entry[r] \in Answers

(* The threads, the clicks, the interrupt, the clock and the ends of runs  *)
(* together implement Questions: the last answer is the one that is heard, *)
(* time runs out only on a question nobody answered, an answer that comes  *)
(* later is ignored, and only the end of an overlapping run cuts off.      *)
Listening == {"announcing", "waiting", "woken"}

Phase(r) ==
    CASE pc[r] = "new" -> "new"
      [] pc[r] \in Listening /\ entry[r] # "absent" -> "open"
      [] pc[r] \in Listening /\ entry[r] = "absent" -> "cut"
      [] pc[r] = "expired" -> "deaf"
      [] pc[r] = "dead" /\ result[r] = "none" -> "lost"
      [] OTHER -> "over"

Said(r) == IF pc[r] \in Listening /\ entry[r] \in Answers THEN entry[r] ELSE "none"

PhaseMap == [r \in Requests |-> Phase(r)]
SaidMap  == [r \in Requests |-> Said(r)]
Lenient  == {r \in Requests : kind[r] = "review"}

Asked == INSTANCE Questions WITH
    Nothing <- "none", Serial <- SerialRuns,
    phase <- PhaseMap, said <- SaidMap, told <- result, lenient <- Lenient

ImplementsQuestions == Asked!Spec

(* A client that is told its click was taken, though no entry was found in *)
(* memory (the fallback of aresolve_* on the database), asked for a thread *)
(* that no longer waits: no click is taken while its thread goes on        *)
(* waiting for it.  It takes that no other run of the session ends.        *)
FallbackOnlyWhenGone ==
    \A c \in Clicks : ToldOk(c) /\ ~found[c] => pc[about[c]] \in Ended

(* At most one click closes the row of a request: the update asks for an   *)
(* unresolved row (PendingReviewRepository.resolve).                       *)
OneClosesTheRow ==
    \A c, d \in Clicks : closed[c] /\ closed[d] /\ about[c] = about[d] => c = d

(* An interrupt frees every thread that waits for an approval, with no     *)
(* help from the clock (request_interrupt).                                *)
InterruptFrees == \A r \in Requests : r \in stopped ~> pc[r] \in Ended

(* A question does not block its run for ever, whoever answers it, if the  *)
(* clock goes on: a wait that nobody ends runs out (done_event.wait).      *)
ClockGoesOn == \A r \in Requests : WF_vars(Expire(r))

EveryWaitEnds ==
    ClockGoesOn => \A r \in Requests : pc[r] \in Blocked ~> pc[r] \in Ended
=============================================================================
