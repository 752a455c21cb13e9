--------------------------- MODULE McpConnections ---------------------------
(* MCPManager: threads ask for connections, disconnections and tool calls; *)
(* each request is a coroutine on the manager's own event loop, which the  *)
(* thread awaits for a bounded time.  A coroutine runs undisturbed from    *)
(* one await to the next.  A request that times out stops waiting; its     *)
(* coroutine goes on, except a tool call's, which is cancelled.            *)
EXTENDS Naturals, Sequences, FiniteSets, SequencesExt

CONSTANTS
    Requests,     \* one per call of a synchronous wrapper
    Servers,      \* names in the configuration
    NoClient      \* a server without a client; a request without a server

ASSUME McpAssumption ==
    /\ IsFiniteSet(Requests) /\ IsFiniteSet(Servers)
    /\ NoClient \notin Requests /\ NoClient \notin Servers

VARIABLES
    configured,   \* names in _config.mcp_servers that are enabled
    client,       \* clients: server -> the request that opened it
    tools,        \* server_tools: server -> the request that listed them
    alive,        \* clients that are open: <<request, server>>
    serverLock,   \* _server_locks: server -> holder
    asked,        \* request -> kind
    caller,       \* request -> what its thread is doing
    coro,         \* request -> where its coroutine is suspended
    work,         \* request -> servers it still has to go through
    held,         \* request -> the client its coroutine is closing
    saved,        \* request -> what its _SuppressStderr saved of fd 2
    fd2,          \* where the process's stderr goes
    nested,       \* history: two suppressions have overlapped
    contested     \* history: servers two coroutines worked on at once
mcpVars == <<configured, client, tools, alive, serverLock, asked, caller, coro,
             work, held, saved, fd2, nested, contested>>

Kinds == {"connect", "disconnect", "sweep", "closeAll", "call", "delete"}
Locked == {"connect", "disconnect", "delete"}
Opening == {"connect", "sweep"}
Returned == {"answered", "failed", "timeout"}
Suspended == {"closing", "opening", "cleaning", "discovering", "calling"}
Changing == Suspended \ {"calling"}
Target(r) == IF work[r] = <<>> THEN NoClient ELSE Head(work[r])
Running(r) == coro[r] # "none" /\ coro[r] # "done"
Contest(r, s) ==
    contested' = IF \E q \in Requests \ {r} : coro[q] \in Changing /\ Target(q) = s
                 THEN contested \cup {s} ELSE contested
-----------------------------------------------------------------------------
McpInit ==
    /\ configured = Servers
    /\ client = [s \in Servers |-> NoClient] /\ tools = [s \in Servers |-> NoClient]
    /\ alive = {} /\ serverLock = [s \in Servers |-> NoClient]
    /\ asked = [r \in Requests |-> "none"] /\ caller = [r \in Requests |-> "new"]
    /\ coro = [r \in Requests |-> "none"] /\ work = [r \in Requests |-> <<>>]
    /\ held = [r \in Requests |-> NoClient]
    /\ saved = [r \in Requests |-> "none"] /\ fd2 = "terminal" /\ nested = FALSE
    /\ contested = {}

Await(r, at) == coro' = [coro EXCEPT ![r] = at]
Caller(r, at) == caller' = [caller EXCEPT ![r] = at]
Suppress(r) ==
    /\ saved' = [saved EXCEPT ![r] = fd2] /\ fd2' = "null"
    /\ nested' = (nested \/ \E q \in Requests : saved[q] # "none")
Restore(r) == saved' = [saved EXCEPT ![r] = "none"] /\ fd2' = saved[r]
NoStderr == UNCHANGED <<saved, fd2, nested>>
SameLoop == UNCHANGED <<client, tools, alive, held, saved, fd2, nested, contested>>

(* connect_sync and disconnect_sync take the server's lock first; the      *)
(* routes answer at once when the server is already in the wanted state.   *)
(* A deletion of a server that is not connected only edits the             *)
(* configuration; the sweeps take no lock.                                 *)
Ask(r, kind, s) ==
    /\ caller[r] = "new" /\ asked' = [asked EXCEPT ![r] = kind]
    /\ kind \in {"disconnect"} => client[s] # NoClient
    /\ kind = "delete" => s \in configured /\ client[s] # NoClient
    /\ work' = [work EXCEPT ![r] = IF kind \in {"sweep", "closeAll"} THEN <<>> ELSE <<s>>]
    /\ Caller(r, IF kind \in Locked THEN "locking" ELSE "submitting")
    /\ UNCHANGED <<configured, serverLock, coro>> /\ SameLoop
DeleteIdle(r, s) ==
    /\ caller[r] = "new" /\ s \in configured /\ client[s] = NoClient
    /\ configured' = configured \ {s}
    /\ asked' = [asked EXCEPT ![r] = "delete"] /\ Caller(r, "answered")
    /\ UNCHANGED <<serverLock, coro, work>> /\ SameLoop
TakeLock(r) ==
    /\ caller[r] = "locking" /\ serverLock[Target(r)] = NoClient
    /\ serverLock' = [serverLock EXCEPT ![Target(r)] = r]
    /\ Caller(r, "submitting")
    /\ UNCHANGED <<configured, asked, coro, work>> /\ SameLoop
Submit(r) ==
    /\ caller[r] = "submitting"
    /\ Caller(r, "waiting") /\ Await(r, "start")
    /\ UNCHANGED <<configured, serverLock, asked, work>> /\ SameLoop

Release(r) ==
    serverLock' = [s \in Servers |-> IF serverLock[s] = r THEN NoClient ELSE serverLock[s]]

(* future.result returns or raises; a deletion then edits the              *)
(* configuration, unless the disconnection raised.                         *)
Return(r) ==
    /\ caller[r] = "waiting" /\ coro[r] = "done"
    /\ \E ok \in {"answered", "failed"} :
          /\ Caller(r, ok)
          /\ configured' = IF asked[r] = "delete" /\ ok = "answered"
                           THEN configured \ {Target(r)} ELSE configured
    /\ Release(r) /\ UNCHANGED <<asked, coro, work>> /\ SameLoop
(* Mutant: the lock is kept for the coroutine that goes on.                *)
TimeOutLocked(r) ==
    /\ caller[r] = "waiting" /\ coro[r] # "done"
    /\ Caller(r, "timeout")
    /\ Await(r, IF asked[r] = "call" THEN "done" ELSE coro[r])
    /\ UNCHANGED <<configured, serverLock, asked, work>> /\ SameLoop

TimeOut(r) ==
    /\ caller[r] = "waiting" /\ coro[r] # "done"
    /\ Caller(r, "timeout") /\ Release(r)
    /\ Await(r, IF asked[r] = "call" THEN "done" ELSE coro[r])
    /\ UNCHANGED <<configured, asked, work>> /\ SameLoop
-----------------------------------------------------------------------------
(* The coroutines.  Begin is the code up to the first await for the server *)
(* at the head of the work.                                                *)
SameCallers == UNCHANGED <<configured, serverLock, asked, caller>>
AfterThis(r) == Tail(work[r])
Finish(r) == IF Len(work[r]) <= 1 THEN "done" ELSE "next"

Snapshot(r) ==
    /\ coro[r] = "start" /\ SameCallers /\ SameLoop
    /\ work' = [work EXCEPT ![r] =
                  CASE asked[r] = "sweep" -> SetToSeq(configured)
                    [] asked[r] = "closeAll" -> SetToSeq({ s \in Servers : client[s] # NoClient })
                    [] OTHER -> @]
    /\ Await(r, IF work'[r] = <<>> THEN "done" ELSE "next")

(* _connect_internal for an unknown server, _disconnect_internal and       *)
(* _call_tool_internal without a client do nothing.                        *)
Skip(r) ==
    /\ coro[r] = "next" /\ SameCallers /\ SameLoop
    /\ IF asked[r] \in Opening THEN Target(r) \notin configured ELSE client[Target(r)] = NoClient
    /\ Await(r, Finish(r))
    /\ work' = [work EXCEPT ![r] = IF Len(@) = 1 THEN @ ELSE Tail(@)]
BeginClose(r) ==
    /\ coro[r] = "next" /\ asked[r] # "call" /\ client[Target(r)] # NoClient
    /\ asked[r] \in Opening => Target(r) \in configured
    /\ held' = [held EXCEPT ![r] = client[Target(r)]]
    /\ Suppress(r) /\ Await(r, "closing") /\ Contest(r, Target(r))
    /\ SameCallers /\ UNCHANGED <<client, tools, alive, work>>
BeginOpen(r) ==
    /\ coro[r] = "next" /\ asked[r] \in Opening
    /\ Target(r) \in configured /\ client[Target(r)] = NoClient
    /\ Suppress(r) /\ Await(r, "opening") /\ Contest(r, Target(r))
    /\ SameCallers /\ UNCHANGED <<client, tools, alive, work, held>>
BeginCall(r) ==
    /\ coro[r] = "next" /\ asked[r] = "call" /\ client[Target(r)] # NoClient
    /\ Await(r, "calling")
    /\ SameCallers /\ SameLoop /\ UNCHANGED work

(* Mutant: the tools of a closed client stay.                              *)
CloseKeepsTools(r) ==
    LET s == Target(r) IN
    /\ coro[r] = "closing"
    /\ alive' = alive \ {<<held[r], s>>} /\ held' = [held EXCEPT ![r] = NoClient]
    /\ client' = [client EXCEPT ![s] = NoClient]
    /\ IF asked[r] \in Opening
       THEN fd2' = "null" /\ Await(r, "opening") /\ UNCHANGED <<work, saved>>
       ELSE /\ Restore(r)
            /\ Await(r, IF client[s] = NoClient THEN "done" ELSE Finish(r))
            /\ work' = [work EXCEPT ![r] =
                          IF Len(@) = 1 \/ client[s] = NoClient THEN @ ELSE Tail(@)]
    /\ SameCallers /\ UNCHANGED <<tools, nested, contested>>

(* The client is closed; its entries go.  The entry may be gone already:   *)
(* the KeyError ends a disconnection, a connection catches it.             *)
Close(r) ==
    LET s == Target(r) IN
    /\ coro[r] = "closing"
    /\ alive' = alive \ {<<held[r], s>>} /\ held' = [held EXCEPT ![r] = NoClient]
    /\ client' = [client EXCEPT ![s] = NoClient]
    /\ tools' = IF asked[r] \in Opening \/ client[s] # NoClient
                THEN [tools EXCEPT ![s] = NoClient] ELSE tools
    /\ IF asked[r] \in Opening
       THEN fd2' = "null" /\ Await(r, "opening") /\ UNCHANGED <<work, saved>>
       ELSE /\ Restore(r)
            /\ Await(r, IF client[s] = NoClient THEN "done" ELSE Finish(r))
            /\ work' = [work EXCEPT ![r] =
                          IF Len(@) = 1 \/ client[s] = NoClient THEN @ ELSE Tail(@)]
    /\ SameCallers /\ UNCHANGED <<nested, contested>>

Opened(r) ==
    LET s == Target(r) IN
    /\ coro[r] = "opening"
    /\ Restore(r) /\ Await(r, "discovering")
    /\ client' = [client EXCEPT ![s] = r] /\ alive' = alive \cup {<<r, s>>}
    /\ SameCallers /\ UNCHANGED <<tools, work, held, nested, contested>>
OpenFails(r) ==
    /\ coro[r] = "opening"
    /\ Restore(r) /\ Await(r, "cleaning")
    /\ SameCallers /\ UNCHANGED <<client, tools, alive, work, held, nested, contested>>

(* The clean-up of a failed connection pops whatever entry is there.       *)
Clean(r) ==
    LET s == Target(r) IN
    /\ coro[r] = "cleaning"
    /\ client' = [client EXCEPT ![s] = NoClient] /\ tools' = [tools EXCEPT ![s] = NoClient]
    /\ Await(r, Finish(r))
    /\ work' = [work EXCEPT ![r] = IF Len(@) = 1 THEN @ ELSE Tail(@)]
    /\ SameCallers /\ UNCHANGED <<alive, held, contested>> /\ NoStderr
Discovered(r) ==
    /\ coro[r] = "discovering"
    /\ tools' = [tools EXCEPT ![Target(r)] = r]
    /\ Await(r, Finish(r))
    /\ work' = [work EXCEPT ![r] = IF Len(@) = 1 THEN @ ELSE Tail(@)]
    /\ SameCallers /\ UNCHANGED <<client, alive, held, contested>> /\ NoStderr
Called(r) ==
    /\ coro[r] = "calling" /\ Await(r, "done")
    /\ SameCallers /\ SameLoop /\ UNCHANGED work

LoopStep(r) ==
    \/ Snapshot(r) \/ Skip(r) \/ BeginClose(r) \/ BeginOpen(r) \/ BeginCall(r)
    \/ Close(r) \/ Opened(r) \/ OpenFails(r) \/ Clean(r) \/ Discovered(r) \/ Called(r)
ThreadStep(r) == TakeLock(r) \/ Submit(r) \/ Return(r) \/ TimeOut(r)
McpNext ==
    \E r \in Requests :
        \/ \E s \in Servers, k \in Kinds : Ask(r, k, s)
        \/ \E s \in Servers : DeleteIdle(r, s)
        \/ ThreadStep(r) \/ LoopStep(r)
McpSpec == McpInit /\ [][McpNext]_mcpVars
(* Threads are scheduled and clocks advance; nothing is assumed of the     *)
(* servers, which may leave an await open for ever.                        *)
McpFairness == \A r \in Requests : WF_mcpVars(ThreadStep(r))
McpFairSpec == McpSpec /\ McpFairness
-----------------------------------------------------------------------------
McpTypeOK ==
    /\ configured \subseteq Servers
    /\ client \in [Servers -> Requests \cup {NoClient}]
    /\ tools \in [Servers -> Requests \cup {NoClient}]
    /\ alive \subseteq Requests \X Servers
    /\ serverLock \in [Servers -> Requests \cup {NoClient}]
    /\ asked \in [Requests -> Kinds \cup {"none"}]
    /\ caller \in [Requests -> {"new", "locking", "submitting", "waiting"} \cup Returned]
    /\ coro \in [Requests -> {"none", "start", "next", "done"} \cup Suspended]
    /\ work \in [Requests -> Seq(Servers)] /\ held \in [Requests -> Requests \cup {NoClient}]
    /\ saved \in [Requests -> {"none", "terminal", "null"}]
    /\ fd2 \in {"terminal", "null"} /\ nested \in BOOLEAN /\ contested \subseteq Servers

(* The per-server lock keeps two requests from working on one server: a    *)
(* server is contested only if one of them is a sweep, which takes no      *)
(* lock, or has timed out, which gave its lock back.                       *)
LockedWorkAlone ==
    \A q, r \in Requests :
        q # r /\ Target(q) = Target(r) /\ Running(q) /\ Running(r) =>
            \/ ~({asked[q], asked[r]} \subseteq Locked)
            \/ "timeout" \in {caller[q], caller[r]}

(* On a server that was never contested the manager's tables tell the      *)
(* truth: a client that is open is the registered one, so that it can be   *)
(* closed, and tools are offered only for a client that is registered.     *)
TablesTellTruth ==
    \A s \in Servers \ contested :
        /\ \A r \in Requests : <<r, s>> \in alive => client[s] = r
        /\ tools[s] # NoClient => client[s] = tools[s]

(* Stderr is back once nothing suppresses it, if no two suppressions ever  *)
(* overlapped (manager.py:23 "temporarily suppress stderr").               *)
StderrComesBack ==
    ~nested /\ (\A r \in Requests : saved[r] = "none") => fd2 = "terminal"

(* Whatever the servers do, a thread that called the manager is let go: it *)
(* gets the lock, and an answer or a timeout (a request is made once, so   *)
(* that again and again none is under way).                                *)
CallersReturn == []<>(\A r \in Requests : caller[r] \in Returned \cup {"new"})
=============================================================================
