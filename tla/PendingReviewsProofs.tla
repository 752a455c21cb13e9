-------------------------- MODULE PendingReviewsProofs --------------------------
(***************************************************************************)
(* Theorems about PendingReviews for any number of requests, sessions,     *)
(* clicks and restarts.                                                    *)
(*                                                                         *)
(* TypeOK and EntriesHaveWaiters are inductive together.  The others are   *)
(* conjuncts of stronger invariants: that only a click leaves a "yes" in   *)
(* an entry, that a click that closed a row is over and the row stays      *)
(* closed, and that a request nobody has asked was not touched.  The last  *)
(* theorem maps the threads and clicks to Questions, step by step.         *)
(***************************************************************************)
EXTENDS PendingReviews, TLAPS

(* The conjuncts of the invariants that the properties do not state.       *)
NewIsUntouched ==
    \A r \in Requests : pc[r] = "new" => ~event[r] /\ result[r] = "none"

(* What sets an event puts an answer in the entry, if it is still there.   *)
HeardIsAnswered ==
    \A r \in Requests : event[r] \/ pc[r] = "woken" => entry[r] # "open"

IdleFindsNothing == \A c \in Clicks : click[c] = "idle" => ~found[c]

OnlyClicksSayYes == \A r \in Requests : entry[r] = "yes" => SaidYes(r)

ClosedStaysClosed ==
    \A c \in Clicks :
        closed[c] => click[c] = "answered" /\ about[c] \in Requests /\ row[about[c]] = "closed"

AskedAbout == \A c \in Clicks : click[c] # "idle" => about[c] \in Requests

BlockedHasEntry == \A r \in Requests : pc[r] \in Blocked => entry[r] # "absent"

(* A click that finds no entry asks for a thread that has returned.        *)
MissedIsGone ==
    \A c \in Clicks : click[c] # "idle" /\ ~found[c] => pc[about[c]] \in Ended

Safe ==
    /\ TypeOK
    /\ AskedAbout
    /\ EntriesHaveWaiters
    /\ NewIsUntouched
    /\ HeardIsAnswered

-----------------------------------------------------------------------------
LEMMA SafeInit == Init => Safe
  BY NoneIsNew DEF Init, Safe, TypeOK, AskedAbout, EntriesHaveWaiters, NewIsUntouched, HeardIsAnswered,
     Phases, Blocked, Ended, Kinds, Answers

LEMMA SafeStep == Safe /\ [Next]_vars => Safe'
  <1> SUFFICES ASSUME Safe, [Next]_vars PROVE Safe'
    OBVIOUS
  <1> USE NoneIsNew, RestartsAssumption DEF Safe, TypeOK, AskedAbout, EntriesHaveWaiters,
        NewIsUntouched, HeardIsAnswered, Phases, Blocked, Ended, Kinds, Answers, Goto, Clear, ReturnWith, Default,
        threadVars, memoryVars, rowVars, clickVars
  <1>1. ASSUME NEW r \in Requests, NEW s \in Sessions, AutoApprove(r, s) PROVE Safe'
    BY <1>1 DEF AutoApprove
  <1>2. ASSUME NEW r \in Requests, NEW s \in Sessions, NEW k \in Kinds, Ask(r, s, k)
        PROVE Safe'
    BY <1>2 DEF Ask
  <1>3. ASSUME NEW r \in Requests, ThreadStep(r) PROVE Safe'
    <2>1. CASE Announced(r) BY <2>1 DEF Announced
    <2>2. CASE AnnounceFails(r) BY <2>2 DEF AnnounceFails
    <2>3. CASE GiveUp(r) BY <2>3 DEF GiveUp
    <2>4. CASE Wake(r) BY <2>4 DEF Wake
    <2>5. CASE ReadAnswer(r) BY <2>5 DEF ReadAnswer
    <2>6. CASE ClearRead(r) BY <2>6 DEF ClearRead
    <2>7. CASE TakeReview(r) BY <2>7 DEF TakeReview
    <2>8. CASE ReadNothing(r) BY <2>8 DEF ReadNothing
    <2> QED BY <1>3, <2>1, <2>2, <2>3, <2>4, <2>5, <2>6, <2>7, <2>8 DEF ThreadStep
  <1>4. ASSUME NEW r \in Requests, Expire(r) PROVE Safe'
    BY <1>4 DEF Expire
  <1>5. ASSUME NEW r \in Requests, TaskStep(r) PROVE Safe'
    <2>1. UNCHANGED <<threadVars, memoryVars, clickVars, autonomy, restarts, stopped>>
      BY <1>5 DEF TaskStep, PersistPending, PersistFails
    <2>2. insert' \in [Requests -> BOOLEAN]
      <3>1. insert' = [insert EXCEPT ![r] = FALSE]
        BY <1>5 DEF TaskStep, PersistPending, PersistFails
      <3> QED
        BY <3>1
    <2>3. row' \in [Requests -> {"absent", "open", "closed"}]
      <3>1. CASE PersistPending(r)
        BY <3>1 DEF PersistPending
      <3>2. CASE PersistFails(r)
        BY <3>2 DEF PersistFails
      <3> QED
        BY <1>5, <3>1, <3>2 DEF TaskStep
    <2>4. TypeOK'
      BY <2>1, <2>2, <2>3
    <2>5. (AskedAbout /\ EntriesHaveWaiters /\ NewIsUntouched /\ HeardIsAnswered)'
      BY <2>1
    <2> QED
      BY <2>4, <2>5
  <1>6. ASSUME NEW c \in Clicks, ClickStep(c) PROVE Safe'
    <2>1. UNCHANGED <<threadVars, memoryVars, insert, about, says, found,
                      autonomy, restarts, stopped>>
      BY <1>6 DEF ClickStep, PersistResolution, PersistResolutionFails
    <2>2. \E p \in {"answered", "unsaved"} : click' = [click EXCEPT ![c] = p]
      BY <1>6 DEF ClickStep, PersistResolution, PersistResolutionFails
    <2>3. click[c] = "persisting"
      BY <1>6 DEF ClickStep, PersistResolution, PersistResolutionFails
    <2>4. closed' \in [Clicks -> BOOLEAN]
      <3>1. CASE PersistResolution(c)
        BY <3>1 DEF PersistResolution
      <3>2. CASE PersistResolutionFails(c)
        BY <3>2 DEF PersistResolutionFails
      <3> QED
        BY <1>6, <3>1, <3>2 DEF ClickStep
    <2>5. row' \in [Requests -> {"absent", "open", "closed"}]
      <3>1. CASE PersistResolution(c)
        BY <2>3, <3>1 DEF PersistResolution
      <3>2. CASE PersistResolutionFails(c)
        BY <3>2 DEF PersistResolutionFails
      <3> QED
        BY <1>6, <3>1, <3>2 DEF ClickStep
    <2>6. click' \in [Clicks -> {"idle", "persisting", "answered", "unsaved", "lost"}]
      BY <2>2
    <2>7. TypeOK'
      BY <2>1, <2>4, <2>5, <2>6
    <2>8. AskedAbout'
      BY <2>1, <2>2, <2>3
    <2>9. (EntriesHaveWaiters /\ NewIsUntouched /\ HeardIsAnswered)'
      BY <2>1
    <2> QED
      BY <2>7, <2>8, <2>9
  <1>7. ASSUME NEW c \in Clicks, NEW r \in Requests, NEW a \in Answers, Click(c, r, a)
        PROVE Safe'
    BY <1>7 DEF Click
  <1>8. CASE Interrupt
    BY <1>8 DEF Interrupt, Unresolved
  <1>9. ASSUME NEW s \in Sessions, EndOfRun(s) PROVE Safe'
    BY <1>9 DEF EndOfRun, Unresolved
  <1>10. ASSUME NEW l \in {"manual", "semi", "auto"}, SetAutonomy(l) PROVE Safe'
    BY <1>10 DEF SetAutonomy
  <1>11. CASE Restart
    BY <1>11 DEF Restart
  <1>12. CASE UNCHANGED vars
    BY <1>12 DEF vars
  <1> QED
    BY <1>1, <1>2, <1>3, <1>4, <1>5, <1>6, <1>7, <1>8, <1>9, <1>10, <1>11, <1>12 DEF Next

(* Every variable keeps the values its comment allows; in particular no    *)
(* thread takes an entry nobody answered for an answer, whatever clicks,   *)
(* interrupts, ends of runs and restarts do (request_approval and the      *)
(* other request_* functions).                                             *)
THEOREM TypeCorrect == Spec => []TypeOK
  <1>1. Safe => TypeOK
    BY DEF Safe
  <1> QED
    BY <1>1, SafeInit, SafeStep, PTL DEF Spec

(* No entry outlives the thread that registered it (add_pending_*, clear_* *)
(* and resolve_* of WebState).                                             *)
THEOREM EntriesNeverLeak == Spec => []EntriesHaveWaiters
  <1>1. Safe => EntriesHaveWaiters
    BY DEF Safe
  <1> QED
    BY <1>1, SafeInit, SafeStep, PTL DEF Spec

-----------------------------------------------------------------------------
(* Consent. *)

Consent == IdleFindsNothing /\ OnlyClicksSayYes /\ YesMeansYes

LEMMA ConsentInit == Init => Consent
  BY DEF Init, Consent, IdleFindsNothing, OnlyClicksSayYes, YesMeansYes

LEMMA ConsentStep == Safe /\ Consent /\ [Next]_vars => Consent'
  <1> SUFFICES ASSUME Safe, Consent, [Next]_vars PROVE Consent'
    OBVIOUS
  <1> USE NoneIsNew DEF Safe, TypeOK, NewIsUntouched, Consent, IdleFindsNothing,
        OnlyClicksSayYes, YesMeansYes, Kinds, Answers, Goto, Clear, ReturnWith,
        Default, threadVars, memoryVars, rowVars, clickVars, SaidYes
  <1>1. ASSUME NEW r \in Requests, NEW s \in Sessions, AutoApprove(r, s) PROVE Consent'
    BY <1>1 DEF AutoApprove
  <1>2. ASSUME NEW r \in Requests, NEW s \in Sessions, NEW k \in Kinds, Ask(r, s, k)
        PROVE Consent'
    BY <1>2 DEF Ask
  <1>3. ASSUME NEW r \in Requests, ThreadStep(r) PROVE Consent'
    <2>1. CASE Announced(r) BY <2>1 DEF Announced
    <2>2. CASE AnnounceFails(r) BY <2>2 DEF AnnounceFails
    <2>3. CASE GiveUp(r) BY <2>3 DEF GiveUp
    <2>4. CASE Wake(r) BY <2>4 DEF Wake
    <2>5. CASE ReadAnswer(r) BY <2>5 DEF ReadAnswer
    <2>6. CASE ClearRead(r) BY <2>6 DEF ClearRead
    <2>7. CASE TakeReview(r) BY <2>7 DEF TakeReview
    <2>8. CASE ReadNothing(r) BY <2>8 DEF ReadNothing
    <2> QED BY <1>3, <2>1, <2>2, <2>3, <2>4, <2>5, <2>6, <2>7, <2>8 DEF ThreadStep
  <1>4. ASSUME NEW r \in Requests, Expire(r) PROVE Consent'
    BY <1>4 DEF Expire
  <1>5. ASSUME NEW r \in Requests, TaskStep(r) PROVE Consent'
    BY <1>5 DEF TaskStep, PersistPending, PersistFails
  <1>6. ASSUME NEW c \in Clicks, ClickStep(c) PROVE Consent'
    BY <1>6 DEF ClickStep, PersistResolution, PersistResolutionFails
  <1>7. ASSUME NEW c \in Clicks, NEW r \in Requests, NEW a \in Answers, Click(c, r, a)
        PROVE Consent'
    <2>1. \A q \in Requests : SaidYes(q) => SaidYes(q)'
      <3> SUFFICES ASSUME NEW q \in Requests, NEW d \in Clicks,
                          about[d] = q, says[d] = "yes", found[d]
                   PROVE  SaidYes(q)'
        OBVIOUS
      <3>1. d # c
        BY <1>7 DEF Click
      <3>2. about'[d] = q /\ says'[d] = "yes" /\ found'[d]
        BY <1>7, <3>1 DEF Click
      <3> QED
        BY <3>2
    <2>2. IdleFindsNothing'
      BY <1>7 DEF Click
    <2>3. ASSUME entry[r] # "absent", a = "yes" PROVE SaidYes(r)'
      <3>1. about'[c] = r /\ says'[c] = "yes"
        BY <1>7, <2>3 DEF Click
      <3>2. found'[c] = (entry[r] # "absent")
        BY <1>7 DEF Click
      <3> QED
        BY <2>3, <3>1, <3>2
    <2>4. OnlyClicksSayYes'
      <3> SUFFICES ASSUME NEW q \in Requests, entry'[q] = "yes" PROVE SaidYes(q)'
        OBVIOUS
      <3>1. CASE q = r /\ entry[r] # "absent"
        BY <1>7, <2>3, <3>1 DEF Click
      <3>2. CASE ~(q = r /\ entry[r] # "absent")
        <4>1. entry'[q] = entry[q]
          BY <1>7, <3>2 DEF Click
        <4> QED
          BY <2>1, <4>1
      <3> QED
        BY <3>1, <3>2
    <2>5. YesMeansYes'
      <3>1. result' = result /\ kind' = kind
        BY <1>7 DEF Click
      <3> QED
        BY <2>1, <3>1
    <2> QED
      BY <2>2, <2>4, <2>5
  <1>8. CASE Interrupt
    BY <1>8 DEF Interrupt, Unresolved
  <1>9. ASSUME NEW s \in Sessions, EndOfRun(s) PROVE Consent'
    BY <1>9 DEF EndOfRun, Unresolved
  <1>10. ASSUME NEW l \in {"manual", "semi", "auto"}, SetAutonomy(l) PROVE Consent'
    BY <1>10 DEF SetAutonomy
  <1>11. CASE Restart
    BY <1>11 DEF Restart
  <1>12. CASE UNCHANGED vars
    BY <1>12 DEF vars
  <1> QED
    BY <1>1, <1>2, <1>3, <1>4, <1>5, <1>6, <1>7, <1>8, <1>9, <1>10, <1>11, <1>12 DEF Next

(* An approval, a question or a plan is answered yes only if a user has    *)
(* said yes to that request while it was pending (request_approval,        *)
(* request_plan_approval, ask_user and the resolve functions of WebState). *)
THEOREM NoYesWithoutAUser == Spec => []YesMeansYes
  <1>1. Consent => YesMeansYes
    BY DEF Consent
  <1> QED
    BY <1>1, SafeInit, SafeStep, ConsentInit, ConsentStep, PTL DEF Spec

-----------------------------------------------------------------------------
(* The row. *)

LEMMA ClosedStep == Safe /\ ClosedStaysClosed /\ OneClosesTheRow /\ [Next]_vars
                      => (ClosedStaysClosed /\ OneClosesTheRow)'
  <1> SUFFICES ASSUME Safe, ClosedStaysClosed, OneClosesTheRow, [Next]_vars
               PROVE  (ClosedStaysClosed /\ OneClosesTheRow)'
    OBVIOUS
  <1> USE NoneIsNew DEF Safe, TypeOK, AskedAbout, ClosedStaysClosed, OneClosesTheRow,
        threadVars, memoryVars, rowVars, clickVars
  <1>1. CASE UNCHANGED <<row, click, about, closed>>
    BY <1>1
  <1>2. ASSUME NEW r \in Requests, TaskStep(r)
        PROVE  (ClosedStaysClosed /\ OneClosesTheRow)'
    BY <1>2 DEF TaskStep, PersistPending, PersistFails
  <1>3. ASSUME NEW c \in Clicks, ClickStep(c)
        PROVE  (ClosedStaysClosed /\ OneClosesTheRow)'
    <2>1. CASE PersistResolution(c)
      BY <1>3, <2>1 DEF PersistResolution
    <2>2. CASE PersistResolutionFails(c)
      BY <1>3, <2>2 DEF PersistResolutionFails
    <2> QED
      BY <1>3, <2>1, <2>2 DEF ClickStep
  <1>4. ASSUME NEW c \in Clicks, NEW r \in Requests, NEW a \in Answers, Click(c, r, a)
        PROVE  (ClosedStaysClosed /\ OneClosesTheRow)'
    BY <1>4 DEF Click
  <1>5. CASE Restart
    BY <1>5 DEF Restart
  <1>6. ASSUME NEW r \in Requests, ThreadStep(r) \/ Expire(r)
        PROVE  UNCHANGED <<row, click, about, closed>>
    BY <1>6 DEF ThreadStep, Announced, AnnounceFails, GiveUp, Wake, ReadAnswer,
       ClearRead, TakeReview, ReadNothing, Expire
  <1>7. ASSUME NEW r \in Requests, NEW s \in Sessions,
               AutoApprove(r, s) \/ \E k \in Kinds : Ask(r, s, k)
        PROVE  UNCHANGED <<row, click, about, closed>>
    BY <1>7 DEF AutoApprove, Ask
  <1>8. ASSUME \/ Interrupt
               \/ \E s \in Sessions : EndOfRun(s)
               \/ \E l \in {"manual", "semi", "auto"} : SetAutonomy(l)
               \/ UNCHANGED vars
        PROVE  UNCHANGED <<row, click, about, closed>>
    BY <1>8 DEF Interrupt, EndOfRun, SetAutonomy, vars
  <1> QED
    BY <1>1, <1>2, <1>3, <1>4, <1>5, <1>6, <1>7, <1>8 DEF Next

(* However many clicks race, and across restarts, one of them closes the   *)
(* row (PendingReviewRepository.resolve).                                  *)
THEOREM RowClosesOnce == Spec => []OneClosesTheRow
  <1>1. Init => ClosedStaysClosed /\ OneClosesTheRow
    BY DEF Init, ClosedStaysClosed, OneClosesTheRow
  <1> QED
    BY <1>1, SafeInit, SafeStep, ClosedStep, PTL DEF Spec

-----------------------------------------------------------------------------
(* Without overlapping runs. *)

LEMMA SerialStep ==
  ASSUME SerialRuns
  PROVE  Safe /\ WokenFindsAnswer /\ [Next]_vars => WokenFindsAnswer'
  <1> SUFFICES ASSUME Safe, WokenFindsAnswer, [Next]_vars PROVE WokenFindsAnswer'
    OBVIOUS
  <1> USE NoneIsNew, SerialRuns DEF Safe, TypeOK, EntriesHaveWaiters, NewIsUntouched,
        HeardIsAnswered, WokenFindsAnswer, Blocked, Answers, Goto, Clear, ReturnWith,
        threadVars, memoryVars, rowVars, clickVars
  <1>1. ASSUME NEW r \in Requests, NEW s \in Sessions,
               AutoApprove(r, s) \/ \E k \in Kinds : Ask(r, s, k)
        PROVE  WokenFindsAnswer'
    BY <1>1 DEF AutoApprove, Ask
  <1>2. ASSUME NEW r \in Requests, ThreadStep(r) PROVE WokenFindsAnswer'
    <2>1. CASE Announced(r) BY <2>1 DEF Announced
    <2>2. CASE AnnounceFails(r) BY <2>2 DEF AnnounceFails
    <2>3. CASE GiveUp(r) BY <2>3 DEF GiveUp
    <2>4. CASE Wake(r) BY <2>4 DEF Wake
    <2>5. CASE ReadAnswer(r) BY <2>5 DEF ReadAnswer
    <2>6. CASE ClearRead(r) BY <2>6 DEF ClearRead
    <2>7. CASE TakeReview(r) BY <2>7 DEF TakeReview
    <2>8. CASE ReadNothing(r) BY <2>8 DEF ReadNothing
    <2> QED BY <1>2, <2>1, <2>2, <2>3, <2>4, <2>5, <2>6, <2>7, <2>8 DEF ThreadStep
  <1>3. ASSUME NEW r \in Requests, Expire(r) \/ TaskStep(r) PROVE WokenFindsAnswer'
    BY <1>3 DEF Expire, TaskStep, PersistPending, PersistFails
  <1>4. ASSUME NEW c \in Clicks, ClickStep(c) PROVE WokenFindsAnswer'
    BY <1>4 DEF ClickStep, PersistResolution, PersistResolutionFails
  <1>5. ASSUME NEW c \in Clicks, NEW r \in Requests, NEW a \in Answers, Click(c, r, a)
        PROVE WokenFindsAnswer'
    BY <1>5 DEF Click
  <1>6. CASE Interrupt
    BY <1>6 DEF Interrupt, Unresolved
  <1>7. ASSUME NEW s \in Sessions, EndOfRun(s) PROVE WokenFindsAnswer'
    BY <1>7 DEF EndOfRun, Unresolved
  <1>8. ASSUME NEW l \in {"manual", "semi", "auto"}, SetAutonomy(l) PROVE WokenFindsAnswer'
    BY <1>8 DEF SetAutonomy
  <1>9. CASE Restart
    BY <1>9 DEF Restart
  <1>10. CASE UNCHANGED vars
    BY <1>10 DEF vars
  <1> QED
    BY <1>1, <1>2, <1>3, <1>4, <1>5, <1>6, <1>7, <1>8, <1>9, <1>10 DEF Next

(* If the runs of a session do not overlap, a woken thread finds an answer *)
(* (the reads after done_event.wait).  With overlap it may find nothing:   *)
(* the end of one run clears the entries of the other.                     *)
THEOREM WokenThreadsFindAnswers ==
  ASSUME SerialRuns
  PROVE  Spec => []WokenFindsAnswer
  <1>1. Init => WokenFindsAnswer
    BY DEF Init, WokenFindsAnswer
  <1>2. Safe /\ WokenFindsAnswer /\ [Next]_vars => WokenFindsAnswer'
    BY SerialStep
  <1> QED
    BY <1>1, <1>2, SafeInit, SafeStep, PTL DEF Spec

LEMMA EntryStep ==
  ASSUME SerialRuns
  PROVE  Safe /\ BlockedHasEntry /\ [Next]_vars => BlockedHasEntry'
  <1> SUFFICES ASSUME Safe, BlockedHasEntry, [Next]_vars PROVE BlockedHasEntry'
    OBVIOUS
  <1> USE NoneIsNew, SerialRuns DEF Safe, TypeOK, BlockedHasEntry, Blocked, Ended, Answers,
        Goto, Clear, ReturnWith, threadVars, memoryVars, rowVars, clickVars
  <1>1. ASSUME NEW r \in Requests, NEW s \in Sessions,
               AutoApprove(r, s) \/ \E k \in Kinds : Ask(r, s, k)
        PROVE  BlockedHasEntry'
    BY <1>1 DEF AutoApprove, Ask
  <1>2. ASSUME NEW r \in Requests, ThreadStep(r) PROVE BlockedHasEntry'
    <2>1. CASE Announced(r) BY <2>1 DEF Announced
    <2>2. CASE AnnounceFails(r) BY <2>2 DEF AnnounceFails
    <2>3. CASE GiveUp(r) BY <2>3 DEF GiveUp
    <2>4. CASE Wake(r) BY <2>4 DEF Wake
    <2>5. CASE ReadAnswer(r) BY <2>5 DEF ReadAnswer
    <2>6. CASE ClearRead(r) BY <2>6 DEF ClearRead
    <2>7. CASE TakeReview(r) BY <2>7 DEF TakeReview
    <2>8. CASE ReadNothing(r) BY <2>8 DEF ReadNothing
    <2> QED BY <1>2, <2>1, <2>2, <2>3, <2>4, <2>5, <2>6, <2>7, <2>8 DEF ThreadStep
  <1>3. ASSUME NEW r \in Requests, Expire(r) \/ TaskStep(r) PROVE BlockedHasEntry'
    BY <1>3 DEF Expire, TaskStep, PersistPending, PersistFails
  <1>4. ASSUME NEW c \in Clicks, ClickStep(c) PROVE BlockedHasEntry'
    BY <1>4 DEF ClickStep, PersistResolution, PersistResolutionFails
  <1>5. ASSUME NEW c \in Clicks, NEW r \in Requests, NEW a \in Answers, Click(c, r, a)
        PROVE BlockedHasEntry'
    BY <1>5 DEF Click
  <1>6. CASE Interrupt
    BY <1>6 DEF Interrupt, Unresolved
  <1>7. ASSUME NEW s \in Sessions, EndOfRun(s) PROVE BlockedHasEntry'
    BY <1>7 DEF EndOfRun
  <1>8. ASSUME NEW l \in {"manual", "semi", "auto"}, SetAutonomy(l) PROVE BlockedHasEntry'
    BY <1>8 DEF SetAutonomy
  <1>9. CASE Restart
    BY <1>9 DEF Restart
  <1>10. CASE UNCHANGED vars
    BY <1>10 DEF vars
  <1> QED
    BY <1>1, <1>2, <1>3, <1>4, <1>5, <1>6, <1>7, <1>8, <1>9, <1>10 DEF Next

(* Threads that have ended stay so. *)
LEMMA EndedStaysEnded ==
  ASSUME Safe, [Next]_vars, NEW r \in Requests, pc[r] \in Ended
  PROVE  pc'[r] \in Ended
  <1> USE DEF Safe, TypeOK, Blocked, Ended, Goto, ReturnWith, threadVars
  <1>1. ASSUME NEW q \in Requests, NEW s \in Sessions,
               AutoApprove(q, s) \/ \E k \in Kinds : Ask(q, s, k)
        PROVE  pc'[r] \in Ended
    BY <1>1 DEF AutoApprove, Ask
  <1>2. ASSUME NEW q \in Requests, ThreadStep(q) \/ Expire(q) \/ TaskStep(q)
        PROVE  pc'[r] \in Ended
    BY <1>2 DEF ThreadStep, Announced, AnnounceFails, GiveUp, Wake, ReadAnswer,
       ClearRead, TakeReview, ReadNothing, Expire, TaskStep, PersistPending, PersistFails
  <1>3. ASSUME \/ \E c \in Clicks : ClickStep(c)
               \/ \E c \in Clicks, q \in Requests, a \in Answers : Click(c, q, a)
               \/ Interrupt
               \/ \E s \in Sessions : EndOfRun(s)
               \/ \E l \in {"manual", "semi", "auto"} : SetAutonomy(l)
               \/ UNCHANGED vars
        PROVE  pc'[r] \in Ended
    BY <1>3 DEF ClickStep, PersistResolution, PersistResolutionFails, Click, Interrupt,
       EndOfRun, SetAutonomy, vars
  <1>4. CASE Restart
    BY <1>4 DEF Restart
  <1> QED
    BY <1>1, <1>2, <1>3, <1>4 DEF Next

LEMMA MissedStep ==
  Safe /\ BlockedHasEntry /\ MissedIsGone /\ [Next]_vars => MissedIsGone'
  <1> SUFFICES ASSUME Safe, BlockedHasEntry, MissedIsGone, [Next]_vars,
                      NEW c \in Clicks, click'[c] # "idle", ~found'[c]
               PROVE  pc'[about'[c]] \in Ended
    BY DEF MissedIsGone
  <1> USE DEF Safe, TypeOK
  <1>1. CASE about'[c] = about[c] /\ found'[c] = found[c] /\ click[c] # "idle"
    <2>1. about[c] \in Requests /\ pc[about[c]] \in Ended
      BY <1>1 DEF AskedAbout, MissedIsGone
    <2> QED
      BY <1>1, <2>1, EndedStaysEnded
  <1>2. ASSUME NEW d \in Clicks, NEW r \in Requests, NEW a \in Answers, Click(d, r, a),
               d = c
        PROVE  pc'[about'[c]] \in Ended
    <2>1. about'[c] = r /\ pc' = pc /\ pc[r] # "new"
      BY <1>2 DEF Click, threadVars
    <2>2. found'[c] = (entry[r] # "absent")
      BY <1>2 DEF Click
    <2> QED
      BY <2>1, <2>2 DEF BlockedHasEntry, Phases
  <1>3. ASSUME NEW d \in Clicks, NEW r \in Requests, NEW a \in Answers, Click(d, r, a),
               d # c
        PROVE  about'[c] = about[c] /\ found'[c] = found[c] /\ click[c] # "idle"
    BY <1>3 DEF Click
  <1>4. ASSUME NEW d \in Clicks, ClickStep(d)
        PROVE  about'[c] = about[c] /\ found'[c] = found[c] /\ click[c] # "idle"
    BY <1>4 DEF ClickStep, PersistResolution, PersistResolutionFails
  <1>5. CASE Restart
    BY <1>1, <1>5 DEF Restart
  <1>6. CASE UNCHANGED <<click, about, found>>
    BY <1>1, <1>6
  <1>7. ASSUME NEW r \in Requests, ThreadStep(r) \/ Expire(r) \/ TaskStep(r)
        PROVE  UNCHANGED <<click, about, found>>
    BY <1>7 DEF ThreadStep, Announced, AnnounceFails, GiveUp, Wake, ReadAnswer,
       ClearRead, TakeReview, ReadNothing, Expire, TaskStep, PersistPending, PersistFails,
       clickVars
  <1>8. ASSUME NEW r \in Requests, NEW s \in Sessions,
               AutoApprove(r, s) \/ \E k \in Kinds : Ask(r, s, k)
        PROVE  UNCHANGED <<click, about, found>>
    BY <1>8 DEF AutoApprove, Ask, clickVars
  <1>9. ASSUME \/ Interrupt
               \/ \E s \in Sessions : EndOfRun(s)
               \/ \E l \in {"manual", "semi", "auto"} : SetAutonomy(l)
               \/ UNCHANGED vars
        PROVE  UNCHANGED <<click, about, found>>
    BY <1>9 DEF Interrupt, EndOfRun, SetAutonomy, vars, clickVars
  <1> QED
    BY <1>1, <1>2, <1>3, <1>4, <1>5, <1>6, <1>7, <1>8, <1>9 DEF Next

(* If the runs of a session do not overlap, a click that only the database *)
(* takes is about a thread that has returned, timed out or died with the   *)
(* server (the fallback of the aresolve functions of WebState).            *)
THEOREM DatabaseAnswersTheGone ==
  ASSUME SerialRuns
  PROVE  Spec => []FallbackOnlyWhenGone
  <1>1. Init => BlockedHasEntry /\ MissedIsGone
    BY DEF Init, BlockedHasEntry, Blocked, MissedIsGone
  <1>2. Safe /\ BlockedHasEntry /\ [Next]_vars => BlockedHasEntry'
    BY EntryStep
  <1>3. MissedIsGone => FallbackOnlyWhenGone
    BY DEF MissedIsGone, FallbackOnlyWhenGone, ToldOk
  <1> QED
    BY <1>1, <1>2, <1>3, SafeInit, SafeStep, MissedStep, PTL DEF Spec

-----------------------------------------------------------------------------
(* The refinement of Questions.                                            *)

(* A thread that listens was told nothing yet and is woken when its entry  *)
(* changes; only the end of a run takes the entry of an approval from it.  *)
RingsWhenAnswered ==
    \A r \in Requests : pc[r] \in Listening /\ entry[r] # "open" => event[r]

CutAreApprovals ==
    \A r \in Requests : pc[r] \in Listening /\ entry[r] = "absent" => kind[r] = "approval"

ToldOnce ==
    \A r \in Requests :
        /\ pc[r] \in Listening \cup {"expired"} => result[r] = "none"
        /\ pc[r] = "read" => result[r] # "none"

NewHasNoKind == \A r \in Requests : pc[r] = "new" => kind[r] = None

AskInv == Safe /\ RingsWhenAnswered /\ CutAreApprovals /\ ToldOnce /\ NewHasNoKind

LEMMA AskInvInit == Init => AskInv
  BY SafeInit DEF Init, AskInv, RingsWhenAnswered, CutAreApprovals, ToldOnce, NewHasNoKind,
     Listening

LEMMA AskInvStep == AskInv /\ [Next]_vars => AskInv'
  <1> SUFFICES ASSUME AskInv, [Next]_vars
               PROVE  (RingsWhenAnswered /\ CutAreApprovals /\ ToldOnce /\ NewHasNoKind)'
    BY SafeStep DEF AskInv
  <1> USE NoneIsNew DEF AskInv, Safe, TypeOK, EntriesHaveWaiters, NewIsUntouched,
        HeardIsAnswered, RingsWhenAnswered, CutAreApprovals, ToldOnce, NewHasNoKind,
        Listening, Blocked, Answers, Goto, Clear, ReturnWith,
        threadVars, memoryVars, rowVars, clickVars
  <1> DEFINE Goal == (RingsWhenAnswered /\ CutAreApprovals /\ ToldOnce /\ NewHasNoKind)'
  <1>1. ASSUME NEW r \in Requests, NEW s \in Sessions,
               AutoApprove(r, s) \/ \E k \in Kinds : Ask(r, s, k)
        PROVE  Goal
    BY <1>1 DEF AutoApprove, Ask
  <1>2. ASSUME NEW r \in Requests, ThreadStep(r) PROVE Goal
    <2>1. CASE Announced(r) BY <2>1 DEF Announced
    <2>2. CASE AnnounceFails(r) BY <2>2 DEF AnnounceFails
    <2>3. CASE GiveUp(r) BY <2>3 DEF GiveUp
    <2>4. CASE Wake(r) BY <2>4 DEF Wake
    <2>5. CASE ReadAnswer(r) BY <2>5 DEF ReadAnswer
    <2>6. CASE ClearRead(r) BY <2>6 DEF ClearRead
    <2>7. CASE TakeReview(r) BY <2>7 DEF TakeReview
    <2>8. CASE ReadNothing(r) BY <2>8 DEF ReadNothing
    <2> QED BY <1>2, <2>1, <2>2, <2>3, <2>4, <2>5, <2>6, <2>7, <2>8 DEF ThreadStep
  <1>3. ASSUME NEW r \in Requests, Expire(r) \/ TaskStep(r) PROVE Goal
    BY <1>3 DEF Expire, TaskStep, PersistPending, PersistFails
  <1>4. ASSUME NEW c \in Clicks, ClickStep(c) PROVE Goal
    BY <1>4 DEF ClickStep, PersistResolution, PersistResolutionFails
  <1>5. ASSUME NEW c \in Clicks, NEW r \in Requests, NEW a \in Answers, Click(c, r, a)
        PROVE  Goal
    <2>1. UNCHANGED <<pc, kind, result>>
      BY <1>5 DEF Click
    <2>2. /\ entry' = [entry EXCEPT ![r] = IF entry[r] # "absent" THEN a ELSE entry[r]]
          /\ event' = [event EXCEPT ![r] = entry[r] # "absent" \/ event[r]]
      BY <1>5, Zenon DEF Click
    <2>3. /\ \A x \in Requests \ {r} : entry'[x] = entry[x] /\ event'[x] = event[x]
          /\ entry'[r] = IF entry[r] # "absent" THEN a ELSE entry[r]
          /\ event'[r] = (entry[r] # "absent" \/ event[r])
      BY <2>2
    <2>4. /\ entry[r] = "absent" => entry'[r] = "absent"
          /\ entry[r] # "absent" => entry'[r] = a
          /\ entry[r] # "absent" \/ event[r] => event'[r]
      BY <2>3
    <2>5. (ToldOnce /\ NewHasNoKind)'
      BY <2>1
    <2>6. CutAreApprovals'
      BY <2>1, <2>3, <2>4
    <2>7. RingsWhenAnswered'
      BY <2>1, <2>3, <2>4
    <2> QED
      BY <2>5, <2>6, <2>7
  <1>6. CASE Interrupt
    BY <1>6 DEF Interrupt, Unresolved
  <1>7. ASSUME NEW s \in Sessions, EndOfRun(s) PROVE Goal
    BY <1>7 DEF EndOfRun, Unresolved
  <1>8. ASSUME NEW l \in {"manual", "semi", "auto"}, SetAutonomy(l) PROVE Goal
    BY <1>8 DEF SetAutonomy
  <1>9. CASE Restart
    BY <1>9 DEF Restart
  <1>10. CASE UNCHANGED vars
    BY <1>10 DEF vars
  <1> QED
    BY <1>1, <1>2, <1>3, <1>4, <1>5, <1>6, <1>7, <1>8, <1>9, <1>10 DEF Next

(* What the questions look like after a step of one request.               *)
LEMMA OneQuestion ==
  ASSUME NEW r \in Requests,
         \A x \in Requests \ {r} :
             pc'[x] = pc[x] /\ entry'[x] = entry[x] /\ result'[x] = result[x]
  PROVE  /\ PhaseMap' = [PhaseMap EXCEPT ![r] = Phase(r)']
         /\ SaidMap' = [SaidMap EXCEPT ![r] = Said(r)']
         /\ Phase(r)' = Phase(r) => PhaseMap' = PhaseMap
         /\ Said(r)' = Said(r) => SaidMap' = SaidMap
  <1>1. ASSUME NEW x \in Requests, x # r
        PROVE  Phase(x)' = Phase(x) /\ Said(x)' = Said(x)
    BY <1>1 DEF Phase, Said
  <1>2. QED
    BY <1>1 DEF PhaseMap, SaidMap

LEMMA SamePicture ==
  ASSUME UNCHANGED <<pc, entry, result, kind>>
  PROVE  UNCHANGED <<PhaseMap, SaidMap, result, Lenient>>
  BY DEF PhaseMap, SaidMap, Phase, Said, Lenient

(* Each step of the server is a step of Questions, or shows nothing.       *)
LEMMA QuestionStep ==
  ASSUME AskInv, [Next]_vars
  PROVE  [Asked!Next]_(Asked!vars)
  <1> DEFINE Seen == <<PhaseMap, SaidMap, result, Lenient>>
  <1> USE NoneIsNew DEF AskInv, Safe, TypeOK, Answers, Goto, Clear, ReturnWith,
        threadVars, memoryVars, rowVars, clickVars
  <1>0. /\ UNCHANGED Seen => [Asked!Next]_(Asked!vars)
        /\ \A r \in Requests :
              /\ PhaseMap[r] = Phase(r) /\ SaidMap[r] = Said(r)
              /\ r \in Lenient <=> kind[r] = "review"
    BY DEF Asked!vars, PhaseMap, SaidMap, Lenient
  <1>1. ASSUME NEW r \in Requests, NEW s \in Sessions, AutoApprove(r, s)
        PROVE  Asked!Pass(r)
    <2>1. /\ pc[r] = "new" /\ pc' = [pc EXCEPT ![r] = "returned"] /\ entry' = entry
          /\ result' = [result EXCEPT ![r] = "auto"]
          /\ kind' = [kind EXCEPT ![r] = "approval"]
      BY <1>1 DEF AutoApprove
    <2>2. /\ PhaseMap' = [PhaseMap EXCEPT ![r] = Phase(r)']
          /\ SaidMap' = [SaidMap EXCEPT ![r] = Said(r)']
      BY <2>1, OneQuestion
    <2>3. Phase(r) = "new" /\ Phase(r)' = "over" /\ Said(r) = "none" /\ Said(r)' = "none"
      BY <2>1 DEF Phase, Said, Listening
    <2>4. Lenient' = Lenient
      BY <2>1 DEF Lenient, NewHasNoKind, Kinds
    <2>5. SaidMap' = SaidMap
      <3>1. \A x \in Requests \ {r} :
                pc'[x] = pc[x] /\ entry'[x] = entry[x] /\ result'[x] = result[x]
        BY <2>1
      <3> QED
        BY <2>3, <3>1, OneQuestion
    <2> QED
      BY <1>0, <2>1, <2>2, <2>3, <2>4, <2>5, Zenon DEF Asked!Pass
  <1>2. ASSUME NEW r \in Requests, NEW s \in Sessions, NEW k \in Kinds, Ask(r, s, k)
        PROVE  Asked!Ask(r)
    <2>1. /\ pc[r] = "new" /\ pc' = [pc EXCEPT ![r] = "announcing"] /\ result' = result
          /\ entry' = [entry EXCEPT ![r] = "open"] /\ kind' = [kind EXCEPT ![r] = k]
      BY <1>2 DEF Ask
    <2>2. /\ PhaseMap' = [PhaseMap EXCEPT ![r] = Phase(r)']
          /\ SaidMap' = [SaidMap EXCEPT ![r] = Said(r)']
      BY <2>1, OneQuestion
    <2>3. Phase(r) = "new" /\ Phase(r)' = "open" /\ Said(r) = "none" /\ Said(r)' = "none"
      BY <2>1 DEF Phase, Said, Listening
    <2>4. Lenient' \in {Lenient, Lenient \cup {r}}
      BY <2>1 DEF Lenient, NewHasNoKind, Kinds
    <2>5. SaidMap' = SaidMap
      <3>1. \A x \in Requests \ {r} :
                pc'[x] = pc[x] /\ entry'[x] = entry[x] /\ result'[x] = result[x]
        BY <2>1
      <3> QED
        BY <2>3, <3>1, OneQuestion
    <2> QED
      BY <1>0, <2>1, <2>2, <2>3, <2>4, <2>5, Zenon DEF Asked!Ask
  <1>3. ASSUME NEW r \in Requests, NEW answer, kind' = kind,
               result' = [result EXCEPT ![r] = answer],
               \A x \in Requests \ {r} : pc'[x] = pc[x] /\ entry'[x] = entry[x],
               pc'[r] \in {"read", "returned"}
        PROVE  Asked!Conclude(r, answer)
    <2>1. /\ PhaseMap' = [PhaseMap EXCEPT ![r] = Phase(r)']
          /\ SaidMap' = [SaidMap EXCEPT ![r] = Said(r)']
      BY <1>3, OneQuestion
    <2>2. Phase(r)' = "over" /\ Said(r)' = "none"
      BY <1>3 DEF Phase, Said, Listening
    <2>3. Lenient' = Lenient
      BY <1>3 DEF Lenient
    <2> QED
      BY <1>3, <2>1, <2>2, <2>3, Zenon DEF Asked!Conclude
  <1>4. ASSUME NEW r \in Requests, ThreadStep(r)
        PROVE  Asked!Hear(r) \/ Asked!GiveUp(r) \/ Asked!FallBack(r) \/ Asked!Crash(r)
               \/ UNCHANGED Seen
    <2>1. CASE Announced(r) \/ Wake(r)
      <3>1. /\ pc[r] \in Listening /\ UNCHANGED <<entry, result, kind>>
            /\ \E p \in Listening : pc' = [pc EXCEPT ![r] = p]
        BY <2>1 DEF Announced, Wake, Listening
      <3>2. Phase(r)' = Phase(r) /\ Said(r)' = Said(r)
        BY <3>1 DEF Phase, Said, Listening
      <3>3. \A x \in Requests \ {r} :
                pc'[x] = pc[x] /\ entry'[x] = entry[x] /\ result'[x] = result[x]
        BY <3>1
      <3>4. PhaseMap' = PhaseMap /\ SaidMap' = SaidMap
        BY <3>2, <3>3, OneQuestion
      <3> QED
        BY <3>1, <3>4 DEF Lenient
    <2>2. CASE AnnounceFails(r)
      <3>1. /\ pc[r] \in Listening /\ kind[r] # "review" /\ kind' = kind
            /\ pc' = [pc EXCEPT ![r] = "returned"] /\ entry' = [entry EXCEPT ![r] = "absent"]
            /\ result' = [result EXCEPT ![r] = "no"]
        BY <2>2 DEF AnnounceFails, Listening
      <3>2. Asked!Conclude(r, "no")
        BY <1>3, <3>1
      <3>3. PhaseMap[r] \in {"open", "cut"} /\ r \notin Lenient
        BY <1>0, <3>1 DEF Phase, Listening
      <3> QED
        BY <3>2, <3>3, Zenon DEF Asked!GiveUp
    <2>3. CASE GiveUp(r)
      <3>1. /\ pc[r] = "expired" /\ kind' = kind
            /\ pc' = [pc EXCEPT ![r] = "returned"] /\ entry' = [entry EXCEPT ![r] = "absent"]
            /\ result' = [result EXCEPT ![r] = Default(r)]
        BY <2>3 DEF GiveUp
      <3>2. Asked!Conclude(r, Default(r))
        BY <1>3, <3>1
      <3>3. PhaseMap[r] = "deaf" /\ Default(r) = IF r \in Lenient THEN "yes" ELSE "no"
        BY <1>0, <3>1 DEF Phase, Listening, Default
      <3> QED
        BY <3>2, <3>3, Zenon DEF Asked!FallBack
    <2>4. CASE ClearRead(r)
      <3>1. /\ pc[r] = "read" /\ UNCHANGED <<result, kind>>
            /\ pc' = [pc EXCEPT ![r] = "returned"] /\ entry' = [entry EXCEPT ![r] = "absent"]
        BY <2>4 DEF ClearRead
      <3>2. Phase(r)' = Phase(r) /\ Said(r)' = Said(r)
        BY <3>1 DEF Phase, Said, Listening
      <3>3. \A x \in Requests \ {r} :
                pc'[x] = pc[x] /\ entry'[x] = entry[x] /\ result'[x] = result[x]
        BY <3>1
      <3>4. PhaseMap' = PhaseMap /\ SaidMap' = SaidMap
        BY <3>2, <3>3, OneQuestion
      <3> QED
        BY <3>1, <3>4 DEF Lenient
    <2>5. CASE (ReadAnswer(r) \/ TakeReview(r)) /\ entry[r] # "absent"
      <3>1. /\ pc[r] = "woken" /\ kind' = kind
            /\ \E p \in {"read", "returned"} : pc' = [pc EXCEPT ![r] = p]
            /\ \A x \in Requests \ {r} : entry'[x] = entry[x]
            /\ result' = [result EXCEPT ![r] = entry[r]]
        BY <2>5 DEF ReadAnswer, TakeReview
      <3>2. entry[r] \in Answers
        BY <2>5, <3>1 DEF HeardIsAnswered
      <3>3. Asked!Conclude(r, entry[r])
        BY <1>3, <3>1
      <3>4. PhaseMap[r] = "open" /\ SaidMap[r] = entry[r] /\ SaidMap[r] # "none"
        BY <1>0, <3>1, <3>2 DEF Phase, Said, Listening
      <3> QED
        BY <3>3, <3>4, Zenon DEF Asked!Hear
    <2>6. CASE (ReadNothing(r) \/ TakeReview(r)) /\ entry[r] = "absent"
      <3>1. pc[r] = "woken" /\ kind[r] = "approval"
        BY <2>6 DEF ReadNothing, TakeReview, CutAreApprovals, Listening
      <3>2. /\ UNCHANGED <<kind, entry>> /\ pc' = [pc EXCEPT ![r] = "returned"]
            /\ result' = [result EXCEPT ![r] = "crashed"]
        BY <2>6, <3>1 DEF ReadNothing, TakeReview
      <3>3. Asked!Conclude(r, "crashed")
        BY <1>3, <3>2
      <3>4. PhaseMap[r] = "cut"
        BY <1>0, <2>6, <3>1 DEF Phase, Listening
      <3> QED
        BY <3>3, <3>4, Zenon DEF Asked!Crash
    <2> QED
      BY <1>4, <2>1, <2>2, <2>3, <2>4, <2>5, <2>6 DEF ThreadStep, ReadAnswer, ReadNothing
  <1>5. ASSUME NEW r \in Requests, Expire(r)
        PROVE  Asked!StopListening(r)
    <2>1. /\ pc[r] = "waiting" /\ ~event[r] /\ UNCHANGED <<entry, result, kind>>
          /\ pc' = [pc EXCEPT ![r] = "expired"]
      BY <1>5 DEF Expire
    <2>2. entry[r] = "open"
      BY <2>1 DEF RingsWhenAnswered, Listening
    <2>3. Phase(r) = "open" /\ Phase(r)' = "deaf" /\ Said(r) = "none" /\ Said(r)' = "none"
      BY <2>1, <2>2 DEF Phase, Said, Listening
    <2>4. /\ PhaseMap' = [PhaseMap EXCEPT ![r] = Phase(r)'] /\ SaidMap' = SaidMap
      BY <2>1, <2>3, OneQuestion
    <2>5. Lenient' = Lenient
      BY <2>1 DEF Lenient
    <2> QED
      BY <1>0, <2>1, <2>3, <2>4, <2>5, Zenon DEF Asked!StopListening
  <1>6. ASSUME NEW c \in Clicks, NEW r \in Requests, NEW a \in Answers, Click(c, r, a)
        PROVE  Asked!Say(r, a) \/ UNCHANGED Seen
    <2>1. /\ UNCHANGED <<pc, result, kind>>
          /\ entry' = [entry EXCEPT ![r] = IF entry[r] # "absent" THEN a ELSE entry[r]]
      BY <1>6, Zenon DEF Click
    <2>2. \A x \in Requests \ {r} :
              pc'[x] = pc[x] /\ entry'[x] = entry[x] /\ result'[x] = result[x]
      BY <2>1
    <2>3. entry'[r] = IF entry[r] # "absent" THEN a ELSE entry[r]
      BY <2>1
    <2>4. Lenient' = Lenient
      BY <2>1 DEF Lenient
    <2>5. Phase(r)' = Phase(r)
      BY <2>1, <2>3 DEF Phase
    <2>6. PhaseMap' = PhaseMap
      BY <2>2, <2>5, OneQuestion
    <2>7. CASE pc[r] \in Listening /\ entry[r] # "absent"
      <3>1. Phase(r) = "open" /\ Said(r)' = a
        BY <2>1, <2>3, <2>7 DEF Phase, Said, Listening
      <3>2. SaidMap' = [SaidMap EXCEPT ![r] = Said(r)']
        BY <2>2, OneQuestion
      <3> QED
        BY <1>0, <2>1, <2>4, <2>6, <3>1, <3>2, Zenon DEF Asked!Say
    <2>8. CASE ~(pc[r] \in Listening /\ entry[r] # "absent")
      <3>1. Said(r)' = Said(r)
        BY <2>1, <2>3, <2>8 DEF Said
      <3>2. SaidMap' = SaidMap
        BY <2>2, <3>1, OneQuestion
      <3> QED
        BY <2>1, <2>4, <2>6, <3>2
    <2> QED
      BY <2>7, <2>8
  <1>7. ASSUME Interrupt
        PROVE  Asked!Deny({r \in Requests : pc[r] \in Listening /\ Unresolved(r)})
    <2> DEFINE denied == {r \in Requests : pc[r] \in Listening /\ Unresolved(r)}
    <2>1. /\ UNCHANGED <<pc, result, kind>>
          /\ entry' = [r \in Requests |-> IF Unresolved(r) THEN "no" ELSE entry[r]]
      BY <1>7 DEF Interrupt
    <2>2. \A r \in denied : PhaseMap[r] = "open" /\ SaidMap[r] = "none"
      BY <1>0 DEF Unresolved, Phase, Said, Listening
    <2>3. Lenient' = Lenient
      BY <2>1 DEF Lenient
    <2>4. ASSUME NEW r \in Requests
          PROVE  /\ Phase(r)' = Phase(r)
                 /\ Said(r)' = IF r \in denied THEN "no" ELSE Said(r)
      <3>1. entry'[r] = IF Unresolved(r) THEN "no" ELSE entry[r]
        BY <2>1
      <3>2. CASE Unresolved(r)
        BY <2>1, <3>1, <3>2 DEF Unresolved, Phase, Said
      <3>3. CASE ~Unresolved(r)
        BY <2>1, <3>1, <3>3 DEF Phase, Said
      <3> QED
        BY <3>2, <3>3
    <2>5. PhaseMap' = PhaseMap
      BY <2>4 DEF PhaseMap
    <2>6. SaidMap' = [r \in Requests |-> IF r \in denied THEN "no" ELSE SaidMap[r]]
      BY <1>0, <2>4 DEF SaidMap
    <2> HIDE DEF denied
    <2>7. Asked!Deny(denied)
      BY <2>1, <2>2, <2>3, <2>5, <2>6, Zenon DEF Asked!Deny
    <2> QED
      BY <2>7 DEF denied
  <1>8. ASSUME NEW s \in Sessions, EndOfRun(s)
        PROVE  UNCHANGED Seen \/ \E gone \in SUBSET Requests : Asked!CutOff(gone)
    <2> DEFINE mine == {r \in Requests : owner[r] = s /\ kind[r] = "approval"}
               gone == {r \in mine : pc[r] \in Listening /\ entry[r] # "absent"}
    <2>1. /\ SerialRuns => \A r \in Requests : owner[r] = s => pc[r] \notin Blocked
          /\ entry' = [r \in Requests |-> IF r \in mine THEN "absent" ELSE entry[r]]
          /\ UNCHANGED <<pc, result, kind>>
      BY <1>8 DEF EndOfRun
    <2>2. Lenient' = Lenient
      BY <2>1 DEF Lenient
    <2>3. ASSUME NEW r \in Requests
          PROVE  /\ Phase(r)' = IF r \in gone THEN "cut" ELSE Phase(r)
                 /\ Said(r)' = IF r \in gone THEN "none" ELSE Said(r)
      <3>1. entry'[r] = IF r \in mine THEN "absent" ELSE entry[r]
        BY <2>1
      <3>2. CASE r \in gone
        BY <2>1, <3>1, <3>2 DEF Phase, Said, Listening
      <3>3. CASE r \notin gone
        BY <2>1, <3>1, <3>3 DEF Phase, Said, Listening
      <3> QED
        BY <3>2, <3>3
    <2>4. \A r \in gone : PhaseMap[r] = "open" /\ r \notin Lenient
      BY <1>0 DEF Phase, Listening
    <2>5. PhaseMap' = [r \in Requests |-> IF r \in gone THEN "cut" ELSE PhaseMap[r]]
      BY <1>0, <2>3 DEF PhaseMap
    <2>6. SaidMap' = [r \in Requests |-> IF r \in gone THEN "none" ELSE SaidMap[r]]
      BY <1>0, <2>3 DEF SaidMap
    <2>7. SerialRuns => gone = {}
      BY <2>1 DEF Listening, Blocked
    <2>8. CASE gone = {}
      <3>1. \A r \in Requests : Phase(r)' = Phase(r) /\ Said(r)' = Said(r)
        BY <2>3, <2>8
      <3>2. PhaseMap' = PhaseMap /\ SaidMap' = SaidMap
        BY <3>1 DEF PhaseMap, SaidMap
      <3> QED
        BY <2>1, <2>2, <3>2
    <2>9. CASE gone # {}
      <3>1. gone \in SUBSET Requests
        OBVIOUS
      <3> HIDE DEF gone
      <3>2. Asked!CutOff(gone)
        BY <2>1, <2>2, <2>4, <2>5, <2>6, <2>7, <2>9, Zenon DEF Asked!CutOff
      <3> QED
        BY <3>1, <3>2
    <2> QED
      BY <2>8, <2>9
  <1>9. ASSUME Restart
        PROVE  Asked!Restart
    <2>1. /\ UNCHANGED <<result, kind>>
          /\ pc' = [r \in Requests |-> IF pc[r] \in Blocked THEN "dead" ELSE pc[r]]
      BY <1>9 DEF Restart
    <2>2. ASSUME NEW r \in Requests
          PROVE  /\ Phase(r)' = IF Phase(r) \in {"open", "deaf", "cut"} THEN "lost" ELSE Phase(r)
                 /\ Said(r)' = "none"
      <3>1. pc'[r] = (IF pc[r] \in Blocked THEN "dead" ELSE pc[r]) /\ pc[r] \in Phases
        BY <2>1
      <3>2. pc'[r] \notin Listening
        BY <3>1 DEF Listening, Blocked
      <3>3. Said(r)' = "none"
        BY <3>2 DEF Said
      <3>4. CASE pc[r] \in Listening \cup {"expired"}
        BY <2>1, <3>1, <3>3, <3>4 DEF Phase, Listening, Blocked, ToldOnce
      <3>5. CASE pc[r] = "read"
        BY <2>1, <3>1, <3>3, <3>5 DEF Phase, Listening, Blocked, ToldOnce
      <3>6. CASE pc[r] \in {"new"} \cup Ended
        BY <2>1, <3>1, <3>3, <3>6 DEF Phase, Listening, Blocked, Ended
      <3> QED
        BY <3>1, <3>3, <3>4, <3>5, <3>6 DEF Phases, Blocked, Listening
    <2>3. PhaseMap' = [r \in Requests |-> IF PhaseMap[r] \in {"open", "deaf", "cut"}
                                             THEN "lost" ELSE PhaseMap[r]]
      BY <1>0, <2>2 DEF PhaseMap
    <2>4. SaidMap' = [r \in Requests |-> "none"]
      BY <2>2 DEF SaidMap
    <2>5. Lenient' = Lenient
      BY <2>1 DEF Lenient
    <2> QED
      BY <2>1, <2>3, <2>4, <2>5, Zenon DEF Asked!Restart
  <1>10. ASSUME \/ \E r \in Requests : TaskStep(r)
                \/ \E c \in Clicks : ClickStep(c)
                \/ \E l \in {"manual", "semi", "auto"} : SetAutonomy(l)
                \/ UNCHANGED vars
         PROVE  UNCHANGED Seen
    <2>1. UNCHANGED <<pc, entry, result, kind>>
      BY <1>10 DEF TaskStep, PersistPending, PersistFails, ClickStep, PersistResolution,
             PersistResolutionFails, SetAutonomy, vars
    <2> QED
      BY <2>1, SamePicture
  <1> HIDE DEF Seen
  <1> QED
    BY <1>0, <1>1, <1>2, <1>4, <1>5, <1>6, <1>7, <1>8, <1>9, <1>10 DEF Next, Asked!Next

(* Whatever clicks, timeouts, failed announcements, interrupts, ends of    *)
(* runs and restarts do to any number of questions: they implement         *)
(* Questions, in which the last answer given in time is the one heard.     *)
(* With overlapping runs a question can be cut off by another run's end;   *)
(* without, it cannot (the request_, resolve_ and clear_ functions).       *)
THEOREM ThreadsImplementQuestions == Spec => ImplementsQuestions
  <1>1. Init => Asked!Init
    <2> SUFFICES ASSUME Init PROVE Asked!Init
      OBVIOUS
    <2>1. PhaseMap = [r \in Requests |-> "new"] /\ SaidMap = [r \in Requests |-> "none"]
      BY DEF Init, PhaseMap, SaidMap, Phase, Said, Listening
    <2>2. Lenient = {}
      BY NoneIsNew DEF Init, Lenient, Kinds
    <2>3. result = [r \in Requests |-> "none"]
      BY DEF Init
    <2> QED
      BY <2>1, <2>2, <2>3, Zenon DEF Asked!Init
  <1>2. AskInv /\ [Next]_vars => [Asked!Next]_(Asked!vars)
    BY QuestionStep
  <1> QED
    BY <1>1, <1>2, AskInvInit, AskInvStep, PTL DEF Spec, ImplementsQuestions, Asked!Spec
=============================================================================
