----------------------------- MODULE DbusClient -----------------------------
(***************************************************************************)
(* One bus handle (DbusState) of the dbus plugin: connecting, reconnecting *)
(* after the bus drops, calls and their replies, timeouts and shutdown.    *)
(*                                                                         *)
(* Three threads of the plugin share the state.  The script thread runs    *)
(* the exported functions, the update hook and the shutdown; js.pc is the  *)
(* place where it stands inside one of them, "idle" between them.  The     *)
(* connect thread (worker) dials the bus and publishes the connection.     *)
(* The pump thread reads the connection and queues what it reads.  A step  *)
(* is what one thread does between two points where another may see it:    *)
(* a critical section, or one access to an atomic.  Converting an argument *)
(* to a string or a number runs script, which may call the functions of    *)
(* the handle again: "stack" holds the functions whose arguments are being *)
(* converted, below the script that runs.  The message bus and libdbus,    *)
(* outside the repository, are the connection variables.                   *)
(***************************************************************************)
EXTENDS Integers, Sequences, FiniteSets, SequencesExt

CONSTANTS Buses,           \* the buses connect() may name
          Rules,           \* the match rules a script may add
          MaxId,           \* bound on promise ids (nextId)
          MaxDials,        \* bound on connections dialled
          MaxConnectCalls, \* bound on calls of connect()
          MaxDepth         \* bound on conversions inside conversions

ASSUME BoundsAssumption ==
    /\ MaxId \in Nat
    /\ MaxDials \in Nat
    /\ MaxConnectCalls \in Nat
    /\ MaxDepth \in Nat

ASSUME BusesAssumption == Buses # {}

VARIABLES
    js,            \* script thread: [pc, bus (the type asked for), id]
    stack,         \* calls under way: [in |-> "call"], or [in |-> "addMatch", rule,
                   \* on (the connection it has tested)]
    worker,        \* connect thread: [pc, bus, conn, took (its local waiters)]
    pump,          \* pump thread: [pc, id, call (the answer it carries)]
    promises,      \* ids in the promises map
    outcome,       \* how the script sees each promise settled
    nextId,        \* nextId
    replies,       \* replies queue: [id, kind, call]
    batch,         \* the update hook's local replies vector
    timedOut,      \* the update hook's local timedOut vector
    waiters,       \* connectWaiterIds
    serialMap,     \* serialToPromiseId
    matchRules,    \* matchRules
    astray,        \* remembered by an addMatch() that had lost its connection, or in a walk
    conn,          \* connection: NULL or the number of the connection
    busType,       \* busType
    running,       \* running
    connecting,    \* connecting
    shuttingDown,  \* shuttingDown
    context,       \* FALSE once context is nullptr
    connectCalls,  \* calls of connect() so far (bound only)
    granted,       \* pairs <<bus asked for, bus connected to>> told to scripts
    dials,         \* connections dialled so far, the number of the last one
    linkBus,       \* the bus the last connection reaches
    linkUp,        \* whether the last connection is still connected
    serial,        \* last serial sent on it
    requests,      \* method calls the peer has received on it: [serial, id]
    inbox,         \* replies arrived on it and not popped: [serial, call]
    installed,     \* match rules the daemon holds for it
    answered       \* ids of the calls the peer has answered

jsVars      == <<js, connectCalls, granted>>
promiseVars == <<promises, outcome, nextId>>
updateVars  == <<batch, timedOut>>
stateVars   == <<busType, shuttingDown, context, matchRules, stack, astray>>
linkVars    == <<dials, linkBus, linkUp, serial, requests, inbox, installed, answered>>

vars == <<jsVars, worker, pump, promiseVars, replies, updateVars, waiters,
          serialMap, stateVars, conn, running, connecting, linkVars>>

NULL == 0

AnyBus == CHOOSE b \in Buses : TRUE

\* A thread that has returned holds nothing.
Idle    == [pc |-> "idle", bus |-> AnyBus, id |-> 0]
NoThread(pc) == [pc |-> pc, bus |-> AnyBus, conn |-> NULL, took |-> <<>>]

Ids   == 1..MaxId
Conns == 1..MaxDials

None == [kind |-> "none", call |-> 0]

\* Every way a promise is settled but by the answer to a call.
LocalKinds == {"connected", "connectFailed", "disconnected", "timeout"}

Reply(id, kind, call) == [id |-> id, kind |-> kind, call |-> call]

\* decode_reply's result and the "ERROR:disconnected", connect and timeout items.
ReplyItem == [id : Ids, kind : LocalKinds \cup {"reply"}, call : Ids \cup {0}]

Init ==
    /\ js = Idle
    /\ stack = <<>>
    /\ worker = NoThread("none")
    /\ pump = [pc |-> "none", id |-> 0, call |-> 0]
    /\ promises = {}
    /\ outcome = [id \in Ids |-> None]
    /\ nextId = 1
    /\ replies = <<>>
    /\ batch = <<>>
    /\ timedOut = {}
    /\ waiters = <<>>
    /\ serialMap = [s \in {} |-> 0]
    /\ matchRules = {}
    /\ astray = {}
    /\ conn = NULL
    /\ busType \in Buses
    /\ running = FALSE
    /\ connecting = FALSE
    /\ shuttingDown = FALSE
    /\ context = TRUE
    /\ connectCalls = 0
    /\ granted = {}
    /\ dials = 0
    /\ linkBus = AnyBus
    /\ linkUp = FALSE
    /\ serial = 0
    /\ requests = {}
    /\ inbox = <<>>
    /\ installed = {}
    /\ answered = {}

-----------------------------------------------------------------------------
(* Helpers                                                                 *)

\* bound_call lets a script function run, called by a conversion or not.
Callable == js.pc = "idle" /\ context /\ ~shuttingDown

\* The host calls its hooks between two runs of the script.
ScriptOver == js.pc = "idle" /\ stack = <<>>

\* The innermost conversion, for the function fn, is about to return to it.
Converted(fn) == js.pc = "idle" /\ stack # <<>> /\ Last(stack).in = fn

\* A std::thread has run to its end or was never started: join() returns.
WorkerEnded == worker.pc \in {"none", "done"}
PumpEnded   == pump.pc \in {"none", "done"}

\* busIoMutex: the pump keeps it while it handles the message it popped.
BusIoFree == pump.pc # "push"

NewPromise ==
    /\ promises' = promises \cup {nextId}
    /\ nextId' = nextId + 1
    /\ UNCHANGED outcome

-----------------------------------------------------------------------------
(* js_connect, on the script thread                                        *)

\* The first half of the test for another bus: it reads g_conn first.
ConnectCall(bus) ==
    /\ Callable
    /\ connectCalls < MaxConnectCalls /\ nextId \in Ids
    /\ connectCalls' = connectCalls + 1
    /\ bus = busType \/ conn = NULL
    /\ js' = [js EXCEPT !.pc = IF bus = busType THEN "checkDead" ELSE "checkConnecting",
                        !.bus = bus]
    /\ UNCHANGED <<granted, worker, pump, promiseVars, replies, updateVars, waiters,
                   serialMap, stateVars, conn, running, connecting, linkVars>>

\* The second half: no connection was seen, is one being made for another bus?
ConnectCheckConnecting ==
    /\ js.pc = "checkConnecting"
    /\ js' = IF connecting THEN Idle ELSE [js EXCEPT !.pc = "checkDead"]
    /\ UNCHANGED <<connectCalls, granted, worker, pump, promiseVars, replies, updateVars,
                   waiters, serialMap, stateVars, conn, running, connecting, linkVars>>

ConnectCheckDead ==
    /\ js.pc = "checkDead"
    /\ IF conn # NULL /\ ~linkUp
       THEN /\ running' = FALSE
            /\ js' = [js EXCEPT !.pc = "joinWorker"]
       ELSE /\ js' = [js EXCEPT !.pc = "checkConn"]
            /\ UNCHANGED running
    /\ UNCHANGED <<connectCalls, granted, worker, pump, promiseVars, replies, updateVars,
                   waiters, serialMap, stateVars, conn, connecting, linkVars>>

ReconnectJoinWorker ==
    /\ js.pc = "joinWorker"
    /\ WorkerEnded
    /\ worker' = NoThread("none")
    /\ js' = [js EXCEPT !.pc = "joinPump"]
    /\ UNCHANGED <<connectCalls, granted, pump, promiseVars, replies, updateVars, waiters,
                   serialMap, stateVars, conn, running, connecting, linkVars>>

\* Variant: the pump is left to end by itself.
ReconnectForgetWithoutJoin ==
    /\ js.pc = "joinPump"
    /\ conn' = NULL
    /\ serialMap' = [s \in {} |-> 0]
    /\ \E order \in SetToSeqs(promises) :
          replies' = replies \o [i \in DOMAIN order |-> Reply(order[i], "disconnected", 0)]
    /\ js' = [js EXCEPT !.pc = "checkConn"]
    /\ UNCHANGED <<connectCalls, granted, worker, pump, promiseVars, updateVars, waiters,
                   stateVars, running, connecting, linkVars>>

\* Variant: serialToPromiseId is not cleared.
ReconnectForgetKeepsSerials ==
    /\ js.pc = "joinPump"
    /\ PumpEnded
    /\ pump' = [pump EXCEPT !.pc = "none"]
    /\ conn' = NULL
    /\ UNCHANGED serialMap
    /\ \E order \in SetToSeqs(promises) :
          replies' = replies \o [i \in DOMAIN order |-> Reply(order[i], "disconnected", 0)]
    /\ js' = [js EXCEPT !.pc = "checkConn"]
    /\ UNCHANGED <<connectCalls, granted, worker, promiseVars, updateVars, waiters,
                   stateVars, running, connecting, linkVars>>

\* Variant: neither are the pending promises told.
ReconnectForgetKeepsCalls ==
    /\ js.pc = "joinPump"
    /\ PumpEnded
    /\ pump' = [pump EXCEPT !.pc = "none"]
    /\ conn' = NULL
    /\ UNCHANGED <<serialMap, replies>>
    /\ js' = [js EXCEPT !.pc = "checkConn"]
    /\ UNCHANGED <<connectCalls, granted, worker, promiseVars, updateVars, waiters,
                   stateVars, running, connecting, linkVars>>

\* The dead connection goes with its serials; every pending promise is told.
ReconnectForget ==
    /\ js.pc = "joinPump"
    /\ PumpEnded
    /\ pump' = [pump EXCEPT !.pc = "none"]
    /\ conn' = NULL
    /\ serialMap' = [s \in {} |-> 0]
    /\ \E order \in SetToSeqs(promises) :
          replies' = replies \o [i \in DOMAIN order |-> Reply(order[i], "disconnected", 0)]
    /\ js' = [js EXCEPT !.pc = "checkConn"]
    /\ UNCHANGED <<connectCalls, granted, worker, promiseVars, updateVars, waiters,
                   stateVars, running, connecting, linkVars>>

\* Already connected: an immediately resolved promise; otherwise a pending one.
ConnectCheckConn ==
    /\ js.pc = "checkConn"
    /\ IF conn # NULL
       THEN /\ js' = Idle
            /\ granted' = granted \cup {<<js.bus, linkBus>>}
            /\ UNCHANGED <<promiseVars, busType>>
       ELSE /\ NewPromise
            /\ busType' = js.bus
            /\ js' = [js EXCEPT !.pc = "register", !.id = nextId]
            /\ UNCHANGED granted
    /\ UNCHANGED <<connectCalls, worker, pump, replies, updateVars, waiters, serialMap,
                   stack, shuttingDown, context, matchRules, astray, conn, running,
                   connecting, linkVars>>

\* Under connectWaitersMutex: the connection may have been published meanwhile.
ConnectRegister ==
    /\ js.pc = "register"
    /\ IF conn # NULL
       THEN /\ replies' = Append(replies, Reply(js.id, "connected", 0))
            /\ granted' = granted \cup {<<js.bus, linkBus>>}
            /\ js' = Idle
            /\ UNCHANGED <<waiters, connecting>>
       ELSE /\ waiters' = Append(waiters, js.id)
            /\ connecting' = TRUE
            /\ js' = IF connecting THEN Idle ELSE [js EXCEPT !.pc = "spawn"]
            /\ UNCHANGED <<replies, granted>>
    /\ UNCHANGED <<connectCalls, worker, pump, promiseVars, updateVars, serialMap,
                   stateVars, conn, running, linkVars>>

ConnectSpawn ==
    /\ js.pc = "spawn"
    /\ WorkerEnded
    /\ worker' = [pc |-> "dial", bus |-> js.bus, conn |-> NULL, took |-> <<>>]
    /\ js' = Idle
    /\ UNCHANGED <<connectCalls, granted, pump, promiseVars, replies, updateVars, waiters,
                   serialMap, stateVars, conn, running, connecting, linkVars>>

-----------------------------------------------------------------------------
(* The connect thread                                                      *)

DialFails ==
    /\ worker.pc = "dial"
    /\ worker' = [worker EXCEPT !.pc = "finish"]
    /\ UNCHANGED <<jsVars, pump, promiseVars, replies, updateVars, waiters, serialMap,
                   stateVars, conn, running, connecting, linkVars>>

DialSucceeds ==
    /\ worker.pc = "dial"
    /\ dials \in 0..(MaxDials - 1)
    /\ dials' = dials + 1
    /\ linkBus' = worker.bus
    /\ linkUp' = TRUE
    /\ serial' = 0
    /\ requests' = {}
    /\ inbox' = <<>>
    /\ installed' = {}
    /\ worker' = [worker EXCEPT !.pc = "dialled", !.conn = dials + 1]
    /\ UNCHANGED <<answered, jsVars, pump, promiseVars, replies, updateVars, waiters,
                   serialMap, stateVars, conn, running, connecting>>

\* A connection that arrives after shutdown began is closed at once.
DialledCheck ==
    /\ worker.pc = "dialled"
    /\ IF shuttingDown
       THEN /\ linkUp' = FALSE
            /\ connecting' = FALSE
            /\ worker' = NoThread("done")
       ELSE /\ worker' = [worker EXCEPT !.pc = "rules"]
            /\ UNCHANGED <<linkUp, connecting>>
    /\ UNCHANGED <<jsVars, pump, promiseVars, replies, updateVars, waiters, serialMap,
                   stateVars, conn, running, dials, linkBus, serial, requests, inbox,
                   installed, answered>>

\* The loop over matchRules, which takes no lock.
WalkBegin ==
    /\ worker.pc = "rules"
    /\ astray' = astray \ matchRules
    /\ worker' = [worker EXCEPT !.pc = "walking"]
    /\ UNCHANGED <<jsVars, pump, promiseVars, replies, updateVars, waiters, serialMap,
                   busType, shuttingDown, context, matchRules, stack, conn, running,
                   connecting, linkVars>>

\* A walk that a push_back has met may read anything: it installs some of the rules.
WalkEnds ==
    /\ worker.pc = "walking"
    /\ \E read \in SUBSET matchRules :
          /\ matchRules \ astray \subseteq read
          /\ installed' = installed \cup read
    /\ worker' = [worker EXCEPT !.pc = "publish"]
    /\ UNCHANGED <<jsVars, pump, promiseVars, replies, updateVars, waiters, serialMap,
                   stateVars, conn, running, connecting, dials, linkBus, linkUp, serial,
                   requests, inbox, answered>>

Publish ==
    /\ worker.pc = "publish"
    /\ conn' = worker.conn
    /\ worker' = [worker EXCEPT !.pc = "startPump"]
    /\ UNCHANGED <<jsVars, pump, promiseVars, replies, updateVars, waiters, serialMap,
                   stateVars, running, connecting, linkVars>>

\* Variant: running is tested and not set.
ClaimPumpUnset ==
    /\ worker.pc = "startPump"
    /\ UNCHANGED running
    /\ worker' = [worker EXCEPT !.pc = IF running THEN "finish" ELSE "spawnPump"]
    /\ UNCHANGED <<jsVars, pump, promiseVars, replies, updateVars, waiters, serialMap,
                   stateVars, conn, connecting, linkVars>>

\* running.exchange(true); a pump that is said to run is left alone.
ClaimPump ==
    /\ worker.pc = "startPump"
    /\ running' = TRUE
    /\ worker' = [worker EXCEPT !.pc = IF running THEN "finish" ELSE "spawnPump"]
    /\ UNCHANGED <<jsVars, pump, promiseVars, replies, updateVars, waiters, serialMap,
                   stateVars, conn, connecting, linkVars>>

SpawnPump ==
    /\ worker.pc = "spawnPump"
    /\ PumpEnded
    /\ pump' = [pc |-> "loop", id |-> 0, call |-> 0]
    /\ worker' = [worker EXCEPT !.pc = "finish"]
    /\ UNCHANGED <<jsVars, promiseVars, replies, updateVars, waiters, serialMap,
                   stateVars, conn, running, connecting, linkVars>>

\* Variant: connecting is left set.
TakeWaitersOnly ==
    /\ worker.pc = "finish"
    /\ waiters' = <<>>
    /\ UNCHANGED connecting
    /\ worker' = [worker EXCEPT !.pc = "deliver", !.took = waiters]
    /\ UNCHANGED <<jsVars, pump, promiseVars, replies, updateVars, serialMap, stateVars,
                   conn, running, linkVars>>

\* Under connectWaitersMutex the waiters are taken and connecting is cleared, so
\* whoever registers later starts a connect thread of its own.
TakeWaiters ==
    /\ worker.pc = "finish"
    /\ waiters' = <<>>
    /\ connecting' = FALSE
    /\ worker' = [worker EXCEPT !.pc = "deliver", !.took = waiters]
    /\ UNCHANGED <<jsVars, pump, promiseVars, replies, updateVars, serialMap, stateVars,
                   conn, running, linkVars>>

DeliverToWaiters ==
    /\ worker.pc = "deliver"
    /\ LET dialled == worker.conn # NULL
       IN /\ replies' = replies \o
                [i \in DOMAIN worker.took |->
                    Reply(worker.took[i], IF dialled THEN "connected" ELSE "connectFailed", 0)]
          /\ granted' = IF dialled /\ worker.took # <<>>
                        THEN granted \cup {<<worker.bus, linkBus>>}
                        ELSE granted
    /\ worker' = NoThread("done")
    /\ UNCHANGED <<js, connectCalls, pump, promiseVars, updateVars, waiters, serialMap,
                   stateVars, conn, running, connecting, linkVars>>

-----------------------------------------------------------------------------
(* The pump thread                                                         *)

PumpLoop ==
    /\ pump.pc = "loop"
    /\ pump' = [pump EXCEPT !.pc = IF running /\ conn # NULL THEN "pop" ELSE "done"]
    /\ UNCHANGED <<jsVars, worker, promiseVars, replies, updateVars, waiters, serialMap,
                   stateVars, conn, running, connecting, linkVars>>

\* Takes busIoMutex; a reply nobody waits for any more is dropped.
PumpPop ==
    /\ pump.pc = "pop"
    /\ inbox # <<>>
    /\ inbox' = Tail(inbox)
    /\ LET msg == Head(inbox)
       IN IF msg.serial \in DOMAIN serialMap
          THEN /\ pump' = [pc |-> "push", id |-> serialMap[msg.serial], call |-> msg.call]
               /\ serialMap' = [s \in DOMAIN serialMap \ {msg.serial} |-> serialMap[s]]
          ELSE UNCHANGED <<pump, serialMap>>
    /\ UNCHANGED <<jsVars, worker, promiseVars, replies, updateVars, waiters, stateVars,
                   conn, running, connecting, dials, linkBus, linkUp, serial, requests,
                   installed, answered>>

PumpPush ==
    /\ pump.pc = "push"
    /\ replies' = Append(replies, Reply(pump.id, "reply", pump.call))
    /\ pump' = [pc |-> "pop", id |-> 0, call |-> 0]
    /\ UNCHANGED <<jsVars, worker, promiseVars, updateVars, waiters, serialMap, stateVars,
                   conn, running, connecting, linkVars>>

PumpEmpty ==
    /\ pump.pc = "pop"
    /\ inbox = <<>>
    /\ pump' = [pump EXCEPT !.pc = "check"]
    /\ UNCHANGED <<jsVars, worker, promiseVars, replies, updateVars, waiters, serialMap,
                   stateVars, conn, running, connecting, linkVars>>

\* Variant: the pump goes on while running is set, connected or not.
PumpCheckRunningOnly ==
    /\ pump.pc = "check"
    /\ pump' = [pump EXCEPT !.pc = "loop"]
    /\ UNCHANGED <<jsVars, worker, promiseVars, replies, updateVars, waiters, serialMap,
                   stateVars, conn, running, connecting, linkVars>>

PumpCheck ==
    /\ pump.pc = "check"
    /\ IF linkUp
       THEN pump' = [pump EXCEPT !.pc = "loop"] /\ UNCHANGED running
       ELSE pump' = [pump EXCEPT !.pc = "done"] /\ running' = FALSE
    /\ UNCHANGED <<jsVars, worker, promiseVars, replies, updateVars, waiters, serialMap,
                   stateVars, conn, connecting, linkVars>>

-----------------------------------------------------------------------------
(* js_call, js_callComplex and js_addMatch, on the script thread           *)

\* The test of the connection; what follows converts the arguments.
CallBegin ==
    /\ Callable
    /\ conn # NULL
    /\ Len(stack) < MaxDepth
    /\ stack' = Append(stack, [in |-> "call"])
    /\ UNCHANGED <<jsVars, worker, pump, promiseVars, replies, updateVars, waiters,
                   serialMap, busType, shuttingDown, context, matchRules, astray, conn,
                   running, connecting, linkVars>>

\* The arguments do not fit: nothing is sent.
CallThrows ==
    /\ Converted("call")
    /\ stack' = Front(stack)
    /\ UNCHANGED <<jsVars, worker, pump, promiseVars, replies, updateVars, waiters,
                   serialMap, busType, shuttingDown, context, matchRules, astray, conn,
                   running, connecting, linkVars>>

\* The send and the serial's entry are one critical section of busIoMutex, so
\* the pump cannot look the answer up before the entry is there.  emplace keeps
\* an entry that exists.  A message sent on a dead connection goes nowhere; if the
\* connection went while the arguments were converted nothing is sent.
CallSends ==
    /\ Converted("call")
    /\ BusIoFree
    /\ nextId \in Ids
    /\ NewPromise
    /\ IF conn = NULL
       THEN UNCHANGED <<serial, serialMap, requests>>
       ELSE /\ serial' = serial + 1
            /\ serialMap' = [s \in DOMAIN serialMap \cup {serial + 1} |->
                                IF s \in DOMAIN serialMap THEN serialMap[s] ELSE nextId]
            /\ requests' = IF linkUp
                           THEN requests \cup {[serial |-> serial + 1, id |-> nextId]}
                           ELSE requests
    /\ stack' = Front(stack)
    /\ UNCHANGED <<jsVars, worker, pump, replies, updateVars, waiters, busType,
                   shuttingDown, context, matchRules, astray, conn, running, connecting,
                   dials, linkBus, linkUp, inbox, installed, answered>>

\* Variant: a rule may be added before the connection is there.
AddMatchBeginAnyTime(rule) ==
    /\ Callable
    /\ Len(stack) < MaxDepth
    /\ stack' = Append(stack, [in |-> "addMatch", rule |-> rule, on |-> conn])
    /\ UNCHANGED <<jsVars, worker, pump, promiseVars, replies, updateVars, waiters,
                   serialMap, busType, shuttingDown, context, matchRules, astray, conn,
                   running, connecting, linkVars>>

\* The test of the connection; what follows converts the argument to rule.
AddMatchBegin(rule) ==
    /\ Callable
    /\ conn # NULL
    /\ linkUp
    /\ Len(stack) < MaxDepth
    /\ stack' = Append(stack, [in |-> "addMatch", rule |-> rule, on |-> conn])
    /\ UNCHANGED <<jsVars, worker, pump, promiseVars, replies, updateVars, waiters,
                   serialMap, busType, shuttingDown, context, matchRules, astray, conn,
                   running, connecting, linkVars>>

\* The rule goes to whatever connection there is now, to none if the one that was
\* tested is gone: then a new rule, which is remembered all the same, is astray.
AddMatchSends ==
    /\ Converted("addMatch")
    /\ BusIoFree
    /\ LET frame == Last(stack)
       IN IF conn # NULL
          THEN /\ installed' = IF linkUp THEN installed \cup {frame.rule} ELSE installed
               /\ astray' = astray \ {frame.rule}
          ELSE /\ astray' = IF frame.on # NULL THEN astray \cup ({frame.rule} \ matchRules)
                                               ELSE astray
               /\ UNCHANGED installed
    /\ js' = [js EXCEPT !.pc = "remember"]
    /\ UNCHANGED <<connectCalls, granted, worker, pump, promiseVars, replies, updateVars,
                   waiters, serialMap, busType, shuttingDown, context, matchRules, stack,
                   conn, running, connecting, dials, linkBus, linkUp, serial, requests,
                   inbox, answered>>

\* push_back, without a lock: a walk it meets is undefined from here on.
AddMatchRemembers ==
    /\ js.pc = "remember"
    /\ LET rule == Last(stack).rule
       IN /\ matchRules' = matchRules \cup {rule}
          /\ astray' = IF rule \notin matchRules /\ worker.pc = "walking"
                       THEN matchRules \cup {rule}
                       ELSE astray
    /\ stack' = Front(stack)
    /\ js' = Idle
    /\ UNCHANGED <<connectCalls, granted, worker, pump, promiseVars, replies, updateVars,
                   waiters, serialMap, busType, shuttingDown, context, conn, running,
                   connecting, linkVars>>

-----------------------------------------------------------------------------
(* dbus_update, on the script thread                                       *)

\* The promises past their timeout lose their serials; the clock is abstracted to
\* the choice of those promises.
UpdateTimeouts(due) ==
    /\ ScriptOver
    /\ context
    /\ timedOut' = due
    /\ serialMap' = [s \in {t \in DOMAIN serialMap : serialMap[t] \notin due} |-> serialMap[s]]
    /\ js' = [js EXCEPT !.pc = "drain"]
    /\ UNCHANGED <<connectCalls, granted, worker, pump, promiseVars, replies, batch,
                   waiters, stateVars, conn, running, connecting, linkVars>>

\* Variant: the update returns when no reply is queued.
UpdateDrainOrReturn ==
    /\ js.pc = "drain"
    /\ batch' = replies
    /\ timedOut' = IF replies = <<>> THEN {} ELSE timedOut
    /\ replies' = <<>>
    /\ js' = IF replies = <<>> THEN Idle ELSE [js EXCEPT !.pc = "settle"]
    /\ UNCHANGED <<connectCalls, granted, worker, pump, promiseVars, waiters,
                   serialMap, stateVars, conn, running, connecting, linkVars>>

UpdateDrain ==
    /\ js.pc = "drain"
    /\ batch' = replies
    /\ replies' = <<>>
    /\ js' = [js EXCEPT !.pc = "settle"]
    /\ UNCHANGED <<connectCalls, granted, worker, pump, promiseVars, timedOut, waiters,
                   serialMap, stateVars, conn, running, connecting, linkVars>>

\* Variant: a promise that is gone is settled once more.
SettleReplyAgain ==
    /\ js.pc = "settle"
    /\ batch # <<>>
    /\ LET r == Head(batch)
       IN /\ promises' = promises \ {r.id}
             /\ outcome' = [outcome EXCEPT ![r.id] = [kind |-> r.kind, call |-> r.call]]
    /\ batch' = Tail(batch)
    /\ UNCHANGED <<jsVars, nextId, worker, pump, replies, timedOut, waiters, serialMap,
                   stateVars, conn, running, connecting, linkVars>>

\* One turn of the loop over the drained replies; one whose promise is gone is skipped.
SettleReply ==
    /\ js.pc = "settle"
    /\ batch # <<>>
    /\ LET r == Head(batch)
       IN /\ promises' = promises \ {r.id}
             /\ outcome' = IF r.id \in promises
                        THEN [outcome EXCEPT ![r.id] = [kind |-> r.kind, call |-> r.call]]
                        ELSE outcome
    /\ batch' = Tail(batch)
    /\ UNCHANGED <<jsVars, nextId, worker, pump, replies, timedOut, waiters, serialMap,
                   stateVars, conn, running, connecting, linkVars>>

\* The turns for the timed-out promises, which come after the drained replies.
SettleTimeouts ==
    /\ js.pc = "settle"
    /\ batch = <<>>
    /\ promises' = promises \ timedOut
    /\ outcome' = [id \in Ids |-> IF id \in timedOut \cap promises
                                  THEN [kind |-> "timeout", call |-> 0]
                                  ELSE outcome[id]]
    /\ timedOut' = {}
    /\ js' = Idle
    /\ UNCHANGED <<connectCalls, granted, nextId, worker, pump, replies, batch, waiters,
                   serialMap, stateVars, conn, running, connecting, linkVars>>

-----------------------------------------------------------------------------
(* dbus_shutdown, on the script thread; it may be called again             *)

ShutdownBegin ==
    /\ ScriptOver
    /\ shuttingDown' = TRUE
    /\ connecting' = FALSE
    /\ js' = [js EXCEPT !.pc = "sdWorker"]
    /\ UNCHANGED <<connectCalls, granted, worker, pump, promiseVars, replies,
                   updateVars, waiters, serialMap, busType, context, matchRules, stack,
                   astray, conn, running, linkVars>>

\* Variant: the connect thread is not waited for.
ShutdownSkipsWorker ==
    /\ js.pc = "sdWorker"
    /\ running' = FALSE
    /\ js' = [js EXCEPT !.pc = "sdPump"]
    /\ UNCHANGED <<connectCalls, granted, worker, pump, promiseVars, replies,
                   updateVars, waiters, serialMap, stateVars, conn, connecting,
                   linkVars>>

\* Variant: running is cleared before this join, so the connect thread sets it again.
ShutdownStopsTooEarly ==
    /\ js.pc = "sdWorker"
    /\ WorkerEnded
    /\ worker' = NoThread("none")
    /\ UNCHANGED running
    /\ js' = [js EXCEPT !.pc = "sdPump"]
    /\ UNCHANGED <<connectCalls, granted, pump, promiseVars, replies, updateVars, waiters,
                   serialMap, stateVars, conn, connecting, linkVars>>

\* The connect thread is joined first: until it ends it may set running.
ShutdownJoinWorker ==
    /\ js.pc = "sdWorker"
    /\ WorkerEnded
    /\ worker' = NoThread("none")
    /\ running' = FALSE
    /\ js' = [js EXCEPT !.pc = "sdPump"]
    /\ UNCHANGED <<connectCalls, granted, pump, promiseVars, replies, updateVars, waiters,
                   serialMap, stateVars, conn, connecting, linkVars>>

\* The pending promises are freed, not settled.
ShutdownClear ==
    /\ js.pc = "sdPump"
    /\ PumpEnded
    /\ pump' = [pump EXCEPT !.pc = "none"]
    /\ waiters' = <<>>
    /\ promises' = {}
    /\ replies' = <<>>
    /\ serialMap' = [s \in {} |-> 0]
    /\ linkUp' = IF conn # NULL THEN FALSE ELSE linkUp
    /\ conn' = NULL
    /\ context' = FALSE
    /\ js' = Idle
    /\ UNCHANGED <<connectCalls, granted, outcome, nextId, worker, updateVars, busType,
                   shuttingDown, matchRules, stack, astray, running, connecting, dials,
                   linkBus, serial, requests, inbox, installed, answered>>

-----------------------------------------------------------------------------
(* The message bus and the peers, seen through libdbus                     *)

\* A peer answers a call once, with a return or an error.
PeerAnswers(req) ==
    /\ linkUp
    /\ requests' = requests \ {req}
    /\ inbox' = Append(inbox, [serial |-> req.serial, call |-> req.id])
    /\ answered' = answered \cup {req.id}
    /\ UNCHANGED <<jsVars, worker, pump, promiseVars, replies, updateVars, waiters,
                   serialMap, stateVars, conn, running, connecting, dials, linkBus,
                   linkUp, serial, installed>>

\* The bus goes away; what it had not sent is lost, what had arrived is not.
BusDrops ==
    /\ linkUp
    /\ linkUp' = FALSE
    /\ requests' = {}
    /\ installed' = {}
    /\ UNCHANGED <<jsVars, worker, pump, promiseVars, replies, updateVars, waiters,
                   serialMap, stateVars, conn, running, connecting, dials, linkBus,
                   serial, inbox, answered>>

-----------------------------------------------------------------------------

ConnectSteps ==
    \/ \E bus \in Buses : ConnectCall(bus)
    \/ ConnectCheckConnecting
    \/ ConnectCheckDead
    \/ ReconnectJoinWorker
    \/ ReconnectForget
    \/ ConnectCheckConn
    \/ ConnectRegister
    \/ ConnectSpawn

WorkerSteps ==
    \/ DialFails
    \/ DialSucceeds
    \/ DialledCheck
    \/ WalkBegin
    \/ WalkEnds
    \/ Publish
    \/ ClaimPump
    \/ SpawnPump
    \/ TakeWaiters
    \/ DeliverToWaiters

PumpSteps == PumpLoop \/ PumpPop \/ PumpPush \/ PumpEmpty \/ PumpCheck

CallSteps == CallBegin \/ CallThrows \/ CallSends

AddMatchSteps ==
    \/ \E rule \in Rules : AddMatchBegin(rule)
    \/ AddMatchSends
    \/ AddMatchRemembers

UpdateSteps ==
    \/ \E due \in SUBSET promises : UpdateTimeouts(due)
    \/ UpdateDrain
    \/ SettleReply
    \/ SettleTimeouts

ShutdownSteps == ShutdownBegin \/ ShutdownJoinWorker \/ ShutdownClear

BusSteps == (\E req \in requests : PeerAnswers(req)) \/ BusDrops

Next ==
    \/ ConnectSteps
    \/ WorkerSteps
    \/ PumpSteps
    \/ CallSteps
    \/ AddMatchSteps
    \/ UpdateSteps
    \/ ShutdownSteps
    \/ BusSteps

Spec == Init /\ [][Next]_vars

\* The script thread goes on inside a function it has entered; the host calls the
\* update hook on every frame; threads run; the clock passes a promise's timeout,
\* so an update that sees it past comes if updates keep coming.  Nothing
\* obliges a script to call, the host to shut down, a peer to answer or the bus
\* to drop.  A conversion ends, however often it calls something that converts.
Fairness ==
    /\ WF_vars(ConnectSteps /\ js.pc # "idle")
    /\ WF_vars(WorkerSteps)
    /\ WF_vars(PumpSteps)
    /\ WF_vars(UpdateSteps)
    /\ \A id \in Ids :
          SF_vars(\E due \in SUBSET promises : id \in due /\ UpdateTimeouts(due))
    /\ WF_vars(AddMatchRemembers)
    /\ \A depth \in 1..MaxDepth :
          SF_vars(Len(stack) = depth /\ (CallThrows \/ CallSends \/ AddMatchSends))
    /\ WF_vars(ShutdownSteps /\ js.pc # "idle")

FairSpec == Spec /\ Fairness

-----------------------------------------------------------------------------
(* Properties                                                              *)

JsPcs == {"idle", "checkConnecting", "checkDead", "joinWorker", "joinPump", "checkConn",
          "register", "spawn", "remember", "drain", "settle", "sdWorker", "sdPump"}

WorkerPcs == {"none", "dial", "dialled", "rules", "walking", "publish", "startPump",
              "spawnPump", "finish", "deliver", "done"}

PumpPcs == {"none", "loop", "pop", "push", "check", "done"}

Message == [serial : Nat, call : Ids]

Outcome == {None} \cup [kind : LocalKinds \cup {"reply"}, call : Ids \cup {0}]

ThreadTypes ==
    /\ js \in [pc : JsPcs, bus : Buses, id : Ids \cup {0}]
    /\ worker \in [pc : WorkerPcs, bus : Buses, conn : Conns \cup {NULL}, took : Seq(Ids)]
    /\ pump \in [pc : PumpPcs, id : Ids \cup {0}, call : Ids \cup {0}]
    /\ connectCalls \in Nat
    /\ granted \subseteq Buses \X Buses

Frame == [in : {"call"}] \cup [in : {"addMatch"}, rule : Rules, on : Conns]

StackType == stack \in Seq(Frame)

PromiseTypes ==
    /\ promises \subseteq Ids
    /\ outcome \in [Ids -> Outcome]
    /\ nextId \in Nat \ {0}
    /\ replies \in Seq(ReplyItem)
    /\ batch \in Seq(ReplyItem)
    /\ timedOut \subseteq Ids
    /\ waiters \in Seq(Ids)
    /\ DOMAIN serialMap \subseteq Nat
    /\ serialMap \in [DOMAIN serialMap -> Ids]

FlagTypes ==
    /\ running \in BOOLEAN
    /\ connecting \in BOOLEAN
    /\ shuttingDown \in BOOLEAN
    /\ context \in BOOLEAN
    /\ linkUp \in BOOLEAN

LinkTypes ==
    /\ matchRules \subseteq Rules
    /\ astray \subseteq Rules
    /\ conn \in Conns \cup {NULL}
    /\ busType \in Buses
    /\ dials \in 0..MaxDials
    /\ linkBus \in Buses
    /\ serial \in Nat
    /\ requests \subseteq [serial : Nat, id : Ids]
    /\ inbox \in Seq(Message)
    /\ installed \subseteq Rules
    /\ answered \subseteq Ids

\* The values every variable may take.
TypeOK == ThreadTypes /\ StackType /\ PromiseTypes /\ FlagTypes /\ LinkTypes

WorkerDialling == worker.pc \in {"dial", "dialled", "rules", "walking", "publish"}
WorkerServing  == WorkerDialling \/ worker.pc \in {"startPump", "spawnPump", "finish"}
PumpRuns       == ~PumpEnded

\* A promise settled with an answer got the peer's answer to that very call: not
\* the answer to an older call whose serial the new connection uses again, and
\* not one to a call that timed out before (serialToPromiseId's upkeep).
ReplyIsForItsCall ==
    \A id \in Ids : outcome[id].kind = "reply" => outcome[id].call = id /\ id \in answered

\* The answer to a call that still waits reaches it: whatever the peer sent or may
\* yet send on the connection in use has its own entry in serialToPromiseId, none
\* is missing and none is left from another connection.
AnswerFindsItsCall ==
    LET waits(s, id) == id \in promises \ timedOut =>
                            s \in DOMAIN serialMap /\ serialMap[s] = id
    IN conn # NULL =>
          /\ \A req \in requests : waits(req.serial, req.id)
          /\ \A i \in 1..Len(inbox) : waits(inbox[i].serial, inbox[i].call)

\* Whoever waits for a connection is waited on by a connect thread that has not
\* taken the waiters yet, or that the script thread is about to start: no
\* connect() is left to its timeout by a thread that had already finished.
NoStrandedWaiter ==
    waiters # <<>> /\ ~shuttingDown => js.pc = "spawn" \/ WorkerServing

\* Every rule addMatch remembered is installed on the connection in use, after a
\* reconnect too: no rule slips between the connect thread's unlocked loop over
\* matchRules and the moment the connection is published.  Only these may be missed:
\* a rule whose addMatch() lost its connection while the argument was converted, and,
\* if it is pushed while that loop runs, the rules of that loop; the loop of the next
\* connection brings them back.
RulesInstalled ==
    conn # NULL /\ linkUp => matchRules \ astray \subseteq installed

\* The pump reads only a connection that has not been released: reconnecting and
\* shutting down free it after the pump has ended.
PumpUsesLiveConnection ==
    PumpRuns => conn # NULL

\* A connection that works is read by a pump, so its calls can be answered.
LiveConnectionIsPumped ==
    conn # NULL /\ linkUp /\ ~shuttingDown /\ worker.pc \notin {"startPump", "spawnPump"}
        => PumpRuns /\ running

\* After shutdown no thread of the plugin runs, and nothing is left that one
\* could have used: a second shutdown has nothing to do.
ShutdownLeavesNothing ==
    ~context =>
        /\ WorkerEnded /\ PumpEnded
        /\ conn = NULL /\ ~running
        /\ promises = {} /\ replies = <<>> /\ waiters = <<>> /\ DOMAIN serialMap = {}

\* docs/dbus.md: "Once connected or connecting, requesting another bus raises an
\* error", so no connect() may succeed on a bus other than the one it asked for.
ConnectsToRequestedBus ==
    \A pair \in granted : pair[1] = pair[2]

\* connect(), call() and callComplex() give promises that settle once, with what
\* PromiseTable allows.
Table == INSTANCE PromiseTable WITH
            Kinds <- LocalKinds, pending <- promises, open <- context

ImplementsTable == Table!TableSpec

\* Every promise is settled in the end, or dropped by shutdown.
PromisesSettle == \A id \in Ids : (id \in promises) ~> (id \notin promises)

\* The joins of a reconnect end, whatever the connect thread was doing when the
\* bus dropped.
ReconnectCompletes == (js.pc = "joinWorker") ~> (js.pc = "checkConn")

\* Shutdown's joins end, whenever it begins.
ShutdownCompletes == shuttingDown ~> ~context
=============================================================================
