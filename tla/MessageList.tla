----------------------------- MODULE MessageList -----------------------------
(* The message list of one conversation: the list a ReAct loop sends to    *)
(* the model (ValidatedMessageList), the messages the session stores, the  *)
(* rebuilding of the one from the other at the start of a turn, and the    *)
(* masking, pruning and summarising that shorten the list when the context *)
(* window fills.  Texts, token counts and models are left out: which stage *)
(* is due is a choice, and so is what a tool returned.                     *)
EXTENDS Integers, Sequences, FiniteSets, SequencesExt, FilteredSequences

CONSTANTS
    MaxId,        \* bound: identities handed out to messages and tool calls
    MaxCalls,     \* bound: tool calls in one answer of the model
    KeepMask,     \* tool results left whole by masking (6 in the code)
    KeepHarder    \* the same under aggressive masking (3 in the code)

ASSUME ListAssumption ==
    /\ MaxId \in Nat /\ MaxCalls \in Nat \ {0}
    /\ KeepMask \in Nat /\ KeepHarder \in Nat

VARIABLES
    list,        \* ctx.messages: what is sent to the model
    pending,     \* _pending_tool_ids of that list
    stored,      \* session.messages
    point,       \* session.metadata["compaction_point"]
    moment,      \* "idle", "before" an iteration, "ready" to send, "tools"
    fresh,       \* the next identity
    shown,       \* every identity put into the list during this turn
    compacted    \* was the list summarised during this turn?
listVars == <<list, pending, stored, point, moment, fresh, shown, compacted>>

Roles == {"system", "user", "assistant", "tool", "summary", "replay"}
Bodies == {"full", "ref", "pruned"}
NoPoint == [at |-> 0, covers |-> {}]

(* A tool result carries the identity of the call it answers.  A summary   *)
(* is a user message; covers holds the identities it was made from.        *)
Entry(role, n) ==
    [role |-> role, n |-> n, calls |-> <<>>, safe |-> {}, body |-> "full", covers |-> {}]
Asking(n, calls, safe) == [Entry("assistant", n) EXCEPT !.calls = calls, !.safe = safe]
Answers(calls) == [k \in DOMAIN calls |-> Entry("tool", calls[k])]
System == Entry("system", 0)
-----------------------------------------------------------------------------
(* What a list says about its tool calls.                                  *)
Asked(l, i) == ToSet(l[i].calls)
PendingOf(l) ==
    { c \in UNION { Asked(l, i) : i \in DOMAIN l } :
        \E i \in DOMAIN l :
            /\ c \in Asked(l, i)
            /\ \A j \in DOMAIN l : j > i => ~(l[j].role = "tool" /\ l[j].n = c) }
Tools(l) == { i \in DOMAIN l : l[i].role = "tool" }
Orphans(l) == { i \in Tools(l) : l[i].n \notin PendingOf(SubSeq(l, 1, i - 1)) }
IdsOf(l) == { l[i].n : i \in DOMAIN l } \cup UNION { l[i].covers : i \in DOMAIN l }

(* MessagePairValidator.repair: orphans go, and the calls an assistant     *)
(* message is still owed are answered after the results that follow it.    *)
LastResult(l, i) ==
    CHOOSE j \in i .. Len(l) :
        /\ \A k \in i + 1 .. j : k \in Tools(l)
        /\ j = Len(l) \/ j + 1 \notin Tools(l)
Owed(l, i) == Keeping(l[i].calls, PendingOf(l))
OwedAt(l, j) ==
    LET owing == { i \in DOMAIN l : Owed(l, i) # <<>> /\ LastResult(l, i) = j }
    IN  IF owing = {} THEN <<>> ELSE Owed(l, CHOOSE i \in owing : TRUE)
Repair(l) ==
    FlattenSeq([j \in DOMAIN l |->
        (IF j \in Orphans(l) THEN <<>> ELSE <<l[j]>>) \o Answers(OwedAt(l, j))])

(* Session.to_api_messages: a stored step is its message and one result    *)
(* per call.                                                               *)
ToApi(s) ==
    Repair(FlattenSeq([i \in DOMAIN s |-> <<s[i]>> \o Answers(s[i].calls)]))
Summary(label, middle) == [Entry(label, 0) EXCEPT !.covers = IdsOf(middle)]

(* QueryEnhancer.prepare_messages starts from the compaction point; the    *)
(* web executor converts every stored message.                             *)
Rebuilt(s, terminal) ==
    <<System>> \o
    IF terminal /\ point # NoPoint
    THEN <<[Entry("summary", 0) EXCEPT !.covers = point.covers]>>
             \o ToApi(SubSeq(s, point.at + 1, Len(s)))
    ELSE ToApi(s)
-----------------------------------------------------------------------------
(* Shortening.                                                             *)
Protected(l, i) == \E a \in DOMAIN l : l[i].n \in l[a].safe
OldTools(l, keep) ==
    { i \in Tools(l) : Cardinality({ j \in Tools(l) : j >= i }) > keep }
Masked(l, keep) ==
    [i \in DOMAIN l |-> IF i \in OldTools(l, keep) /\ ~Protected(l, i)
                        THEN [l[i] EXCEPT !.body = "ref"] ELSE l[i]]

(* Pruning keeps what fits a budget of tokens, walking back from the end:  *)
(* a long result is pruned and an older short one kept, so that with       *)
(* results of any length every choice of the kept ones is possible.        *)
Prunable(l) == { i \in Tools(l) : l[i].body = "full" /\ ~Protected(l, i) }
Pruned(l, gone) ==
    [i \in DOMAIN l |-> IF i \in gone THEN [l[i] EXCEPT !.body = "pruned"] ELSE l[i]]

KeepRecent(len) ==
    LET third == len \div 3 IN IF third < 2 THEN 2 ELSE IF third > 5 THEN 5 ELSE third
(* Mutant: the message before the kept ones is in neither part.            *)
CompactShort(l) ==
    IF Len(l) <= 4 THEN l
    ELSE LET cut == Len(l) - KeepRecent(Len(l))
         IN  <<Head(l), Summary("summary", SubSeq(l, 2, cut - 1))>> \o SubSeq(l, cut + 1, Len(l))

Compact(l) ==
    IF Len(l) <= 4 THEN l
    ELSE LET cut == Len(l) - KeepRecent(Len(l))
         IN  <<Head(l), Summary("summary", SubSeq(l, 2, cut))>> \o SubSeq(l, cut + 1, Len(l))

(* A retry looks for the last user message; a replay's own summary is one. *)
Users(l) == { i \in DOMAIN l : l[i].role \in {"user", "replay"} }
Replay(l) ==
    IF \A i \in Users(l) : i <= 2 THEN l
    ELSE LET u == CHOOSE i \in Users(l) : \A j \in Users(l) : j <= i
         IN  <<Head(l), Summary("replay", SubSeq(l, 2, u - 1))>> \o SubSeq(l, u, Len(l))
Compactions(l) == { Compact(l), Replay(Compact(l)), Replay(Replay(Compact(l))) }

(* The point is recorded when some message still has the first label.      *)
Summaries(l) == { i \in DOMAIN l : l[i].role = "summary" }
PointAfter(l) ==
    IF Summaries(l) = {} THEN point
    ELSE [at |-> Len(stored),
          covers |-> l[CHOOSE i \in Summaries(l) : \A j \in Summaries(l) : i <= j].covers]
-----------------------------------------------------------------------------
(* Writing to the list: a message that is not a tool result first answers  *)
(* what is pending with synthetic errors.                                  *)
Put(m) ==
    /\ list' = list \o Answers(SetToSeq(pending)) \o <<m>>
    /\ pending' = ToSet(m.calls)
    /\ shown' = shown \cup pending \cup {m.n}
(* Mutants: the calls that were not executed get no result; results that   *)
(* were added one by one are added again with the batch.                   *)
PutExecuted(calls) ==
    LET executed == SubSeq(calls, 1, Len(calls) - 1) IN
    /\ list' = list \o Answers(executed)
    /\ pending' = pending \ ToSet(executed)
    /\ shown' = shown \cup ToSet(executed)
PutTwice(calls) ==
    /\ list' = list \o Answers(calls) \o Answers(calls)
    /\ pending' = pending \ ToSet(calls)
    /\ shown' = shown \cup ToSet(calls)

PutResults(calls) ==
    /\ list' = list \o Answers(calls)
    /\ pending' = pending \ ToSet(calls)
    /\ shown' = shown \cup ToSet(calls)
Take(k) == fresh + k <= MaxId + 1 /\ fresh' = fresh + k
Store(m) == stored' = Append(stored, m)
Install(l) == list' = l /\ pending' = PendingOf(l)

ListInit ==
    /\ list = <<>> /\ pending = {} /\ stored = <<>> /\ point = NoPoint
    /\ moment = "idle" /\ fresh = 1 /\ shown = {} /\ compacted = FALSE

StartTurn ==
    /\ moment = "idle" /\ Take(1)
    /\ Store(Entry("user", fresh))
    /\ \E terminal \in BOOLEAN : Install(Rebuilt(stored', terminal))
    /\ moment' = "before" /\ shown' = IdsOf(list') /\ compacted' = FALSE
    /\ UNCHANGED point

(* An injected message is stored and shown; a note (a thinking trace, a    *)
(* nudge, a completion signal) is only shown.                              *)
Inject ==
    /\ moment \in {"before", "ready"} /\ Take(1)
    /\ Store(Entry("user", fresh)) /\ Put(Entry("user", fresh))
    /\ UNCHANGED <<point, moment, compacted>>
Note ==
    /\ moment = "ready" /\ Take(1)
    /\ Put(Entry("user", fresh))
    /\ UNCHANGED <<stored, point, moment, compacted>>

(* _maybe_compact: mask or prune by the stage, then summarise when the     *)
(* window is full or /compact asked for it.                                *)
Shorter ==
    {list, Masked(list, KeepMask), Masked(list, KeepHarder)}
        \cup { Pruned(list, gone) : gone \in SUBSET Prunable(list) }
Optimise ==
    /\ moment = "before" /\ moment' = "ready"
    /\ \E l \in Shorter :
          \/ /\ list' = l /\ UNCHANGED <<pending, point, compacted>>
          \/ \E c \in Compactions(l) :
                Install(c) /\ point' = PointAfter(c) /\ compacted' = TRUE
    /\ UNCHANGED <<stored, fresh, shown>>

(* The model answers with calls; some are of tools whose output is kept.   *)
AskTools(k) ==
    /\ moment = "ready" /\ Take(k + 1)
    /\ \E safe \in SUBSET (fresh + 1 .. fresh + k) :
          Put(Asking(fresh, [i \in 1 .. k |-> fresh + i], safe))
    /\ moment' = "tools" /\ UNCHANGED <<stored, point, compacted>>
LastAsked == list[Len(list)]

(* The batch is complete whatever was executed: a call without a result is *)
(* given a synthetic one.  A finished step is stored without task_complete *)
(* (some of the calls); a refused delegation and a cancelled step are not  *)
(* stored; a background task stores its own note instead.                  *)
StepDone ==
    /\ moment = "tools" /\ moment' = "before"
    /\ PutResults(LastAsked.calls)
    /\ \E kept \in SUBSET ToSet(LastAsked.calls) :
          Store([LastAsked EXCEPT !.calls = Keeping(@, kept)])
    /\ UNCHANGED <<point, fresh, compacted>>
StepRefused ==
    /\ moment = "tools" /\ moment' = "before"
    /\ PutResults(LastAsked.calls)
    /\ UNCHANGED <<stored, point, fresh, compacted>>
StepCancelled ==
    /\ moment = "tools" /\ moment' \in {"before", "idle"}
    /\ PutResults(LastAsked.calls)
    /\ UNCHANGED <<stored, point, fresh, compacted>>
StepInBackground ==
    /\ moment = "tools" /\ moment' \in {"before", "idle"} /\ Take(1)
    /\ PutResults(LastAsked.calls)
    /\ Store(Entry("assistant", fresh))
    /\ UNCHANGED <<point, compacted>>

(* A tool or the database raises: the turn is over, the calls stay open.   *)
StepRaises ==
    /\ moment = "tools" /\ moment' = "idle"
    /\ UNCHANGED <<list, pending, stored, point, fresh, shown, compacted>>

(* Text: accepted, it is stored but not put into the list; otherwise it is *)
(* put into the list but not stored.                                       *)
Accept ==
    /\ moment = "ready" /\ moment' \in {"before", "idle"} /\ Take(1)
    /\ Store(Entry("assistant", fresh))
    /\ UNCHANGED <<list, pending, point, shown, compacted>>
Continue ==
    /\ moment = "ready" /\ moment' = "before" /\ Take(1)
    /\ Put(Entry("assistant", fresh))
    /\ UNCHANGED <<stored, point, compacted>>

(* /compact of the terminal: the whole stored conversation is summarised.  *)
CompactCommand ==
    /\ moment = "idle" /\ Len(stored) >= 5
    /\ \E c \in Compactions(ToApi(stored)) : point' = PointAfter(c)
    /\ UNCHANGED <<list, pending, stored, moment, fresh, shown, compacted>>

ListNext ==
    \/ StartTurn \/ Inject \/ Note \/ Optimise
    \/ \E k \in 1 .. MaxCalls : AskTools(k)
    \/ StepDone \/ StepRefused \/ StepCancelled \/ StepInBackground \/ StepRaises
    \/ Accept \/ Continue \/ CompactCommand
ListSpec == ListInit /\ [][ListNext]_listVars
-----------------------------------------------------------------------------
Numbers == 0 .. MaxId
Messages ==
    [role : Roles, n : Numbers, calls : Seq(Numbers), safe : SUBSET Numbers,
     body : Bodies, covers : SUBSET Numbers]
ListTypeOK ==
    /\ list \in Seq(Messages) /\ pending \subseteq Numbers
    /\ stored \in Seq(Messages)
    /\ point \in [at : Nat, covers : SUBSET Numbers]
    /\ moment \in {"idle", "before", "ready", "tools"}
    /\ fresh \in 1 .. MaxId + 1 /\ shown \subseteq Numbers /\ compacted \in BOOLEAN

(* A list about to be sent has an answer for every call in it: a step that *)
(* was cut short, compacted or rebuilt never leaves a call open            *)
(* (providers reject such a list).                                         *)
SentIsAnswered == moment = "ready" => PendingOf(list) = {}

(* A result without its call appears only in a turn that was compacted: no *)
(* other path of the loop, and no rebuilding, separates the two.           *)
OrphansOnlyFromCompaction == ~compacted => Orphans(list) = {}

(* Within a turn nothing falls between: what was put into the list is      *)
(* there still, or was given to a summary that is.                         *)
TurnKeepsContext == shown \subseteq IdsOf(list)

(* compaction.py:493 "Compact older messages into a summary, preserving    *)
(* recent context": the list a turn starts with accounts for every stored  *)
(* message of the conversation, in person or through a summary.            *)
RecentContextPreserved ==
    [][ moment = "idle" /\ moment' = "before" =>
            { stored'[i].n : i \in DOMAIN stored' } \subseteq IdsOf(list') ]_listVars
=============================================================================
