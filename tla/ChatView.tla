------------------------------- MODULE ChatView -------------------------------
(* A browser tab and what it shows of one session: the chat store is fed   *)
(* by the events of the WebSocket, by fetches of the stored messages and   *)
(* by what the user does, and none of the three waits for the others.  The *)
(* server is as much as the tab can tell: the messages of the session, how *)
(* many of them are stored, whether a run is on and the calls of its step. *)
(* A message is an identity, its place in "says"; traces, questions and    *)
(* the blocks of subagents and deep skills are left out.                   *)
EXTENDS Naturals, Sequences

CONSTANTS
    Writings,        \* what users write
    MaxShown,     \* bound: messages and tool calls
    MaxFlight,    \* bound: events and queries on their way, together
    Fetches,      \* bound: fetches under way at a time
    MaxLosses     \* bound: connections that break

ASSUME ViewAssumption ==
    /\ MaxShown \in Nat \ {0} /\ {MaxFlight, MaxLosses} \subseteq Nat
    /\ "call" \notin Writings

VARIABLES
    says,         \* what each message reads, or "call"; grows as they are made
    log,          \* server: the messages of the session
    fetchable,    \* server: how many of them are stored
    phase,        \* server: "idle", "running" or "closing" (complete, not idle yet)
    called,       \* server: the tool calls of the step under way
    results,      \* server: the tool calls whose result was sent
    wire, uplink, \* events to the tab, queries from it, in order
    connected,    \* is there a WebSocket?
    fetch,        \* GET .../messages: where each is, and how much of the log it found
    viewing,      \* currentSessionId is this session
    view,         \* messages: which, and whether it has a result
    loading,      \* isLoading
    losses,
    apart         \* history: messages that crossed with something (see below)
chatVars == <<says, log, fetchable, phase, called, results, wire, uplink, connected, fetch,
              viewing, view, loading, losses, apart>>

Shown == 1 .. MaxShown
NoFetch == [at |-> "none", upto |-> 0]
serverVars == <<log, fetchable, phase, called, results>>
tabVars == <<viewing, view, loading>>
lineVars == <<uplink, connected, fetch, losses>>

ViewInit ==
    /\ says \in {<<>>} \cup { <<t>> : t \in Writings }
    /\ log = [i \in DOMAIN says |-> i] /\ fetchable = Len(log)
    /\ phase = "idle" /\ called = <<>> /\ results = {}
    /\ wire = <<>> /\ uplink = <<>> /\ connected = TRUE /\ fetch = [f \in Fetches |-> NoFetch]
    /\ viewing = FALSE /\ view = <<>> /\ loading = FALSE
    /\ losses = 0 /\ apart = {}

Fetching == \E f \in Fetches : fetch[f].at # "none"
Event(type, n) == [type |-> type, n |-> n]
Members(s) == { s[i] : i \in DOMAIN s }
ShownIds == { view[i].n : i \in DOMAIN view }
Announced == { e.n : e \in { d \in Members(wire) : d.type \in {"user", "call"} } }

(* A message that is made, and reads t.                                    *)
New == Len(says) + 1
Make(t) == New \in Shown /\ says' = Append(says, t)

(* A broadcast reaches the tab unless it is not connected.                 *)
Tell(events) == wire' = IF connected THEN wire \o events ELSE wire

(* What history keeps of a message: that its events met a broken           *)
(* connection or a fetch that was under way ...                            *)
Astray(n) == IF connected /\ ~Fetching THEN {} ELSE {n}
(* ... that it was stored before a view that began without being fetched,  *)
Unfetched == IF view = <<>> /\ ~Fetching THEN Members(log) \ Announced ELSE {}
(* or that it is shown, waits for its echo and is not the last any more.   *)
Pending ==
    { n \in ShownIds : n \in Members(uplink) \/ \E e \in Members(wire) : e.type = "user" /\ e.n = n }
Doubt(ids) == apart' = apart \cup ids
-----------------------------------------------------------------------------
(* The server.  A query is answered by a run or, during one, handed to it; *)
(* behind the end of the loop it is lost.  The message is stored before a  *)
(* run starts; what the run adds is stored at its end and now and then.    *)
StartsRun(n) ==
    /\ phase = "idle" /\ phase' = "running"
    /\ log' = Append(log, n) /\ fetchable' = Len(log')
    /\ Tell(<<Event("user", n), Event("start", 0)>>)
Injected(n) ==
    /\ phase = "running" /\ log' = Append(log, n)
    /\ Tell(<<Event("user", n)>>)
    /\ UNCHANGED <<fetchable, phase>>
TooLate(n) ==
    /\ phase = "closing"
    /\ Tell(<<Event("user", n)>>)
    /\ UNCHANGED <<log, fetchable, phase>>
HandleQuery(n) ==
    /\ StartsRun(n) \/ Injected(n) \/ TooLate(n)
    /\ Doubt(Astray(n))
    /\ UNCHANGED <<called, results, connected, fetch, losses>> /\ UNCHANGED tabVars

ReceiveQuery ==
    /\ uplink # <<>> /\ uplink' = Tail(uplink)
    /\ HandleQuery(Head(uplink))
    /\ UNCHANGED says

(* Another tab, or a client of the HTTP route, sends a query.              *)
SentElsewhere ==
    /\ \E t \in Writings : Make(t)
    /\ HandleQuery(New)
    /\ UNCHANGED uplink

(* A step: its calls are announced, then their results; they are messages  *)
(* of the session when it ends, and never if it is cancelled.              *)
ServerOnly == UNCHANGED lineVars /\ UNCHANGED tabVars
CallTool ==
    /\ phase = "running" /\ Make("call") /\ called' = Append(called, New)
    /\ Tell(<<Event("call", New)>>) /\ Doubt(Astray(New))
    /\ UNCHANGED <<log, fetchable, phase, results>> /\ ServerOnly
ToolAnswers(n) ==
    /\ n \in Members(called) \ results /\ results' = results \cup {n}
    /\ Tell(<<Event("result", n)>>) /\ Doubt(Astray(n))
    /\ UNCHANGED <<says, log, fetchable, phase, called>> /\ ServerOnly
StepEnds ==
    /\ called # <<>> /\ Members(called) \subseteq results
    /\ log' = log \o called /\ called' = <<>>
    /\ UNCHANGED <<says, fetchable, phase, results, wire, apart>> /\ ServerOnly
StepDropped ==
    /\ called # <<>> /\ called' = <<>>
    /\ UNCHANGED <<says, log, fetchable, phase, results, wire, apart>> /\ ServerOnly
StoreProgress ==
    /\ phase = "running" /\ fetchable' \in fetchable + 1 .. Len(log)
    /\ UNCHANGED <<says, log, phase, called, results, wire, apart>> /\ ServerOnly
(* message_complete, or error when the run raised.                         *)
RunCompletes ==
    /\ phase = "running" /\ called = <<>> /\ phase' = "closing" /\ fetchable' = Len(log)
    /\ Tell(<<Event("complete", 0)>>)
    /\ UNCHANGED <<says, log, called, results, apart>> /\ ServerOnly
RunIsOver ==
    /\ phase = "closing" /\ phase' = "idle"
    /\ UNCHANGED <<says, log, fetchable, called, results, wire, apart>> /\ ServerOnly
-----------------------------------------------------------------------------
(* The tab.  A session that shows anything is not fetched again; one that  *)
(* shows nothing is, also while a fetch is under way, whenever the user    *)
(* goes there.                                                             *)
TabOnly == UNCHANGED <<connected, wire, losses>> /\ UNCHANGED serverVars
SwitchBack ==
    /\ ~viewing /\ view # <<>> /\ viewing' = TRUE
    /\ UNCHANGED <<says, uplink, fetch, view, loading, apart>> /\ TabOnly
LoadSession(f) ==
    /\ view = <<>> /\ fetch[f].at = "none"
    /\ viewing' = TRUE /\ loading' = TRUE
    /\ fetch' = [fetch EXCEPT ![f].at = "asked"]
    /\ Doubt({ e.n : e \in Members(wire) } \ {0})
    /\ UNCHANGED <<says, uplink, view>> /\ TabOnly
LoadOther ==
    /\ viewing /\ viewing' = FALSE
    /\ UNCHANGED <<says, uplink, fetch, view, loading, apart>> /\ TabOnly
FetchAnswered(f) ==
    /\ fetch[f].at = "asked"
    /\ fetch' \in { [fetch EXCEPT ![f] = answer] :
                      answer \in { [at |-> "failed", upto |-> 0], [at |-> "found", upto |-> fetchable] } }
    /\ UNCHANGED <<says, uplink, apart, tabVars>> /\ TabOnly
(* Found or not, it is the last word on what is shown and on the spinner.  *)
InstallFetch(f) ==
    /\ fetch[f].at \in {"failed", "found"} /\ fetch' = [fetch EXCEPT ![f] = NoFetch]
    /\ loading' = FALSE
    /\ IF fetch[f].at = "found"
         THEN /\ view' = [i \in 1 .. fetch[f].upto |-> [n |-> log[i], done |-> TRUE]]
              /\ UNCHANGED apart
         ELSE UNCHANGED view /\ Doubt(IF view = <<>> THEN {} ELSE Members(log))
    /\ UNCHANGED <<says, uplink, viewing>> /\ TabOnly

(* The message is shown at once; send() on a closed socket only warns.     *)
SendMessage ==
    /\ viewing /\ \E t \in Writings : Make(t)
    /\ view' = Append(view, [n |-> New, done |-> TRUE]) /\ loading' = TRUE
    /\ uplink' = IF connected THEN Append(uplink, New) ELSE uplink
    /\ Doubt(Unfetched \cup Astray(New) \cup (IF Pending = {} THEN {} ELSE Pending \cup {New}))
    /\ UNCHANGED <<fetch, viewing>> /\ TabOnly
Open(i) == ~view[i].done
OpenAmong(calls) == { i \in DOMAIN view : Open(i) /\ view[i].n \in calls }
LastOpen(calls) == { i \in OpenAmong(calls) : \A j \in OpenAmong(calls) : j <= i }
Done(at) == [i \in DOMAIN view |-> IF i \in at THEN [view[i] EXCEPT !.done = TRUE] ELSE view[i]]
(* The last call that runs is shown as interrupted; what the request does  *)
(* to the run is StepDropped.                                            *)
SendInterrupt ==
    /\ viewing /\ loading' = FALSE
    /\ view' = Done(LastOpen(ShownIds))
    /\ UNCHANGED <<says, uplink, fetch, viewing, apart>> /\ TabOnly

(* The handlers.  A message is dropped as an echo when it reads like the   *)
(* last one that is shown of a user, whoever sent either.                  *)
IsCall(n) == says[n] = "call"
LastUser == { i \in DOMAIN view : /\ ~IsCall(view[i].n)
                                  /\ \A j \in i + 1 .. Len(view) : IsCall(view[j].n) }
Echo(n) == \E i \in LastUser : says[view[i].n] = says[n]
(* Mutant: the echo of a message that is shown already is shown again.     *)
ShowsEchoes(e) ==
    CASE e.type = "user" -> Append(view, [n |-> e.n, done |-> TRUE])
      [] e.type = "call" -> Append(view, [n |-> e.n, done |-> FALSE])
      [] e.type = "result" -> Done(LastOpen({e.n}))
      [] OTHER -> view
ShowsEvent(e) ==
    CASE e.type = "user" -> IF Echo(e.n) THEN view ELSE Append(view, [n |-> e.n, done |-> TRUE])
      [] e.type = "call" -> Append(view, [n |-> e.n, done |-> FALSE])
      [] e.type = "result" -> Done(LastOpen({e.n}))
      [] OTHER -> view
Hear ==
    /\ wire # <<>> /\ wire' = Tail(wire)
    /\ LET e == Head(wire) IN
          /\ view' = ShowsEvent(e)
          /\ loading' = (e.type = "start" \/ (loading /\ e.type # "complete"))
          /\ Doubt(CASE e.type = "user" /\ ~Echo(e.n) -> Unfetched \cup (Pending \ {e.n})
                     [] e.type = "call" -> Unfetched
                     [] OTHER -> {})
    /\ UNCHANGED <<says, uplink, connected, fetch, viewing, losses>> /\ UNCHANGED serverVars

(* What is under way is lost with the socket; the tab connects again and   *)
(* fetches nothing.                                                        *)
SocketBreaks ==
    /\ connected /\ losses < MaxLosses /\ losses' = losses + 1
    /\ connected' = FALSE /\ wire' = <<>> /\ uplink' = <<>>
    /\ Doubt(({ e.n : e \in Members(wire) } \ {0}) \cup Members(uplink))
    /\ UNCHANGED <<says, fetch>> /\ UNCHANGED tabVars /\ UNCHANGED serverVars
Reconnect ==
    /\ ~connected /\ connected' = TRUE
    /\ UNCHANGED <<says, wire, uplink, fetch, losses, apart>>
    /\ UNCHANGED tabVars /\ UNCHANGED serverVars

ViewStep ==
    \/ ReceiveQuery \/ SentElsewhere
    \/ CallTool \/ (\E n \in Shown : ToolAnswers(n)) \/ StepEnds \/ StepDropped
    \/ StoreProgress \/ RunCompletes \/ RunIsOver
    \/ SwitchBack \/ LoadOther
    \/ \E f \in Fetches : LoadSession(f) \/ FetchAnswered(f) \/ InstallFetch(f)
    \/ SendMessage \/ SendInterrupt \/ Hear \/ SocketBreaks \/ Reconnect
ViewNext == ViewStep /\ Len(wire') + Len(uplink') <= MaxFlight
ViewSpec == ViewInit /\ [][ViewNext]_chatVars
-----------------------------------------------------------------------------
WireEvents == [type : {"user", "call", "result"}, n : Shown] \cup [type : {"start", "complete"}, n : {0}]
ViewTypeOK ==
    /\ says \in Seq(Writings \cup {"call"}) /\ Len(says) <= MaxShown
    /\ log \in Seq(Shown) /\ fetchable \in 0 .. Len(log)
    /\ phase \in {"idle", "running", "closing"} /\ called \in Seq(Shown) /\ results \subseteq Shown
    /\ wire \in Seq(WireEvents) /\ uplink \in Seq(Shown)
    /\ fetch \in [Fetches -> [at : {"none", "asked", "failed", "found"}, upto : 0 .. Len(log)]]
    /\ view \in Seq([n : Shown, done : BOOLEAN])
    /\ {connected, viewing, loading} \subseteq BOOLEAN
    /\ losses \in 0 .. MaxLosses /\ apart \subseteq Shown

(* Where a message of the session is in the view.                          *)
Places(n) == { i \in DOMAIN view : view[i].n = n }
ShownOnce(n) == \E i \in DOMAIN view : Places(n) = {i} /\ (n \in results => view[i].done)
(* The store takes a message for the echo of another that reads the same.  *)
HasTwin(n) == ~IsCall(n) /\ Places(n) = {} /\ \E m \in ShownIds : m # n /\ says[m] = says[n]
SessionAtRest == phase = "idle" /\ wire = <<>> /\ uplink = <<>> /\ ~Fetching

(* When the session is at rest, a tab that shows anything of it shows each *)
(* of its messages once, the tool calls with their results and in order,   *)
(* and no spinner.  What is excused is named: a message may be missing or  *)
(* doubled that met a lost connection or a fetch under way, that was       *)
(* stored before a view nobody fetched, or that was shown with another in  *)
(* front of its echo; it may be missing when the view has one that reads   *)
(* the same; and the spinner may stay when a connection was lost or a      *)
(* message is shown that the session does not have.                        *)
ViewIsWhole ==
    SessionAtRest /\ view # <<>> =>
        /\ \A n \in Members(log) \ apart : ShownOnce(n) \/ HasTwin(n)
        /\ \A i, j \in DOMAIN view :
              i < j /\ {view[i].n, view[j].n} \subseteq { n \in DOMAIN says \ apart : IsCall(n) }
              => view[i].n < view[j].n
        /\ loading => losses > 0 \/ \E n \in ShownIds : ~IsCall(n) /\ n \notin Members(log)
=============================================================================
