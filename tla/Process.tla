------------------------------ MODULE Process ------------------------------
(***************************************************************************)
(* The process plugin: spawn() and exec() fork children, the update hook   *)
(* reads their pipes, waits for them without blocking, calls listeners and *)
(* settles exec promises, and shutdown terminates and reaps what is left.  *)
(* Everything runs on the script thread; the children run beside it, and   *)
(* the script runs again inside the listeners the update hook calls.       *)
(*                                                                         *)
(* A child's output is the chunks 1, 2, ... of each stream.                *)
(***************************************************************************)
EXTENDS Integers, Sequences, FiniteSetsExt, SequencesExt

CONSTANTS MaxId,       \* bound on process ids (nextId)
          MaxOut,      \* bound on the chunks the children write
          MaxCalls,    \* bound on the script's calls besides spawn() and exec()
          Cap,         \* chunks a pipe holds
          Callbacks    \* the listeners: a function that is registered twice is two of them

ASSUME ProcessBoundsAssumption ==
    /\ MaxId \in Nat /\ MaxOut \in Nat /\ MaxCalls \in Nat /\ Cap \in Nat \ {0}

VARIABLES
    js,         \* the script thread: [pc, id (of a process), back (where write() returns to)]
    todo,       \* ids a loop over the processes has still to visit
    emits,      \* the update hook's emits: [id, kind, data]
    walk,       \* the loop over the listeners of Head(emits): [i, n, stale]
    finals,     \* the update hook's finals: [id, ok, out]
    dead,       \* the update hook's dead_ids
    processes,  \* keys of the processes map
    stdin,      \* ids of those whose stdin_fd is open
    listeners,  \* listeners[id][kind]: sequence of callbacks
    execRequests, \* keys of the execRequests map
    execOut,    \* execOut[id][stream]: what its request has collected
    nextId,     \* nextId
    context,    \* FALSE once context is nullptr
    child,      \* child[id]: "none", "running", "zombie", "reaped"
    ok,         \* ok[id]: it exited with code 0
    killed,     \* running children that were sent SIGKILL
    feed,       \* feed[id]: chunks in its stdin pipe
    holds,      \* holds[id]: it has read a chunk it has not dealt with
    wrote,      \* wrote[id][stream]: chunks written
    pipe,       \* pipe[id][stream]: how many of them are in the pipe
    calls,      \* calls of the script so far, besides spawn() and exec()
    via,        \* via[id]: the function that made it: "none", "spawn", "exec"
    heard,      \* heard[cb]: the calls of each callback, [id, kind, data]
    touched,    \* <<id, kind>> whose list lost a listener, or grew while it was walked
    stray,      \* number of signals sent to a pid after it was reaped
    outcome,    \* how the script sees an exec promise: "none", "resolved", "rejected"
    gave        \* gave[id][stream]: the output it was settled with

script == <<js, todo, emits, walk, finals, dead>>
tables == <<processes, stdin, listeners, execRequests, execOut, nextId, context>>
os     == <<child, ok, killed, feed, holds, wrote, pipe>>
seen   == <<calls, via, heard, touched, stray, outcome, gave>>
vars   == <<script, tables, os, seen>>

Ids == 1..MaxId
Streams == {"stdout", "stderr"}
Kinds == Streams \cup {"exit"}

NoOutput == [s \in Streams |-> <<>>]
EmptyPipes == [s \in Streams |-> 0]
NoListeners == [k \in Kinds |-> <<>>]
NoWalk == [i |-> 0, n |-> 0, stale |-> FALSE]
At(pc) == [pc |-> pc, id |-> 0, back |-> "idle"]

Init ==
    /\ js = At("idle")
    /\ todo = {} /\ emits = <<>> /\ walk = NoWalk /\ finals = <<>> /\ dead = {}
    /\ processes = {} /\ stdin = {} /\ execRequests = {}
    /\ listeners = [id \in Ids |-> NoListeners]
    /\ execOut = [id \in Ids |-> NoOutput]
    /\ nextId = 1
    /\ context = TRUE
    /\ child = [id \in Ids |-> "none"]
    /\ ok = [id \in Ids |-> TRUE]
    /\ killed = {}
    /\ feed = [id \in Ids |-> 0]
    /\ holds = [id \in Ids |-> FALSE]
    /\ wrote = [id \in Ids |-> EmptyPipes]
    /\ pipe = [id \in Ids |-> EmptyPipes]
    /\ calls = 0
    /\ via = [id \in Ids |-> "none"]
    /\ heard = [cb \in Callbacks |-> <<>>]
    /\ touched = {}
    /\ stray = 0
    /\ outcome = [id \in Ids |-> "none"]
    /\ gave = [id \in Ids |-> NoOutput]

InShutdown == js.pc \in {"sdWait", "sdTry", "sdReap"}

\* The script runs between the plugin's hooks and inside a listener.
Callable == js.pc \in {"idle", "call"} /\ context

\* Another call on the process a spawn() returned.
CallOn(id) ==
    /\ Callable /\ via[id] = "spawn"
    /\ calls < MaxCalls
    /\ calls' = calls + 1

-----------------------------------------------------------------------------
(* The children                                                            *)

\* The chunks written so far.
Written == MapThenSumSet(LAMBDA id : wrote[id]["stdout"] + wrote[id]["stderr"], Ids)

\* It reads its stdin unless it still holds what it read before.
ChildReads(id) ==
    /\ child[id] = "running" /\ ~holds[id] /\ feed[id] > 0
    /\ feed' = [feed EXCEPT ![id] = @ - 1]
    /\ holds' = [holds EXCEPT ![id] = Written < MaxOut]
    /\ UNCHANGED <<script, tables, child, ok, killed, wrote, pipe, seen>>

\* A write to a pipe that is full blocks.
ChildWrites(id, s) ==
    /\ child[id] = "running" /\ ~InShutdown
    /\ Written < MaxOut /\ pipe[id][s] < Cap
    /\ wrote' = [wrote EXCEPT ![id][s] = @ + 1]
    /\ pipe' = [pipe EXCEPT ![id][s] = @ + 1]
    /\ holds' = [holds EXCEPT ![id] = FALSE]
    /\ UNCHANGED <<script, tables, child, ok, killed, feed, seen>>

ChildExits(id, well) ==
    /\ child[id] = "running"
    /\ id \in killed => ~well
    /\ child' = [child EXCEPT ![id] = "zombie"]
    /\ ok' = [ok EXCEPT ![id] = well]
    /\ feed' = [feed EXCEPT ![id] = 0]
    /\ holds' = [holds EXCEPT ![id] = FALSE]
    /\ killed' = killed \ {id}
    /\ UNCHANGED <<script, tables, wrote, pipe, seen>>

\* waitpid finds id reaped by an earlier call, still running, or to be reaped.
Reaped(id) == [child EXCEPT ![id] = IF @ = "zombie" THEN "reaped" ELSE @]

\* Signals to the pid of id that reach no child of the plugin.
Strays(ids) == stray + Cardinality({id \in ids : child[id] = "reaped"})

-----------------------------------------------------------------------------
(* The functions of the script                                             *)

Start(how) ==
    /\ Callable /\ nextId \in Ids
    /\ processes' = processes \cup {nextId}
    /\ stdin' = stdin \cup {nextId}
    /\ child' = [child EXCEPT ![nextId] = "running"]
    /\ via' = [via EXCEPT ![nextId] = how]
    /\ nextId' = nextId + 1

\* js_spawn
Spawn ==
    /\ Start("spawn")
    /\ UNCHANGED <<script, listeners, execRequests, execOut, context, ok, killed, feed, holds,
                   wrote, pipe, calls, heard, touched, stray, outcome, gave>>

\* js_exec
Exec ==
    /\ Start("exec")
    /\ execRequests' = execRequests \cup {nextId}
    /\ UNCHANGED <<script, listeners, execOut, context, ok, killed, feed, holds,
                   wrote, pipe, calls, heard, touched, stray, outcome, gave>>

Walking(id, k) == js.pc = "call" /\ Head(emits).id = id /\ Head(emits).kind = k

\* on(): push_back, which may move the list the update hook is walking.
On(id, k, cb) ==
    /\ CallOn(id)
    /\ cb \notin Range(listeners[id][k])
    /\ listeners' = [listeners EXCEPT ![id][k] = Append(@, cb)]
    /\ IF Walking(id, k)
       THEN /\ \E moved \in BOOLEAN : walk' = [walk EXCEPT !.stale = @ \/ moved]
            /\ touched' = touched \cup {<<id, k>>}
       ELSE UNCHANGED <<walk, touched>>
    /\ UNCHANGED <<js, todo, emits, finals, dead, processes, stdin, execRequests, execOut,
                   nextId, context, os, via, heard, stray, outcome, gave>>

\* off(): every listener that is the same function is erased, which shifts the list the
\* update hook is walking.
Off(id, k, cb) ==
    /\ CallOn(id)
    /\ cb \in Range(listeners[id][k])
    /\ \E same \in SUBSET Callbacks :
          /\ cb \in same
          /\ listeners' = [listeners EXCEPT ![id][k] = SelectSeq(@, LAMBDA c : c \notin same)]
    /\ touched' = touched \cup {<<id, k>>}
    /\ walk' = [walk EXCEPT !.stale = @ \/ Walking(id, k)]
    /\ UNCHANGED <<js, todo, emits, finals, dead, processes, stdin, execRequests, execOut,
                   nextId, context, os, via, heard, stray, outcome, gave>>

\* write(): a full pipe blocks the script thread; a pipe nobody reads takes nothing.
Write(id) ==
    /\ CallOn(id) /\ id \in processes \cap stdin
    /\ IF child[id] # "running" \/ feed[id] < Cap
       THEN /\ feed' = IF child[id] = "running" THEN [feed EXCEPT ![id] = @ + 1] ELSE feed
            /\ UNCHANGED js
       ELSE /\ js' = [pc |-> "write", id |-> id, back |-> js.pc]
            /\ UNCHANGED feed
    /\ UNCHANGED <<todo, emits, walk, finals, dead, tables, child, ok, killed, holds, wrote,
                   pipe, via, heard, touched, stray, outcome, gave>>

WriteReturnsNow ==
    /\ js.pc = "write"
    /\ child[js.id] # "running" \/ feed[js.id] < Cap
    /\ feed' = IF child[js.id] = "running" THEN [feed EXCEPT ![js.id] = @ + 1] ELSE feed
    /\ js' = At(js.back)
    /\ UNCHANGED <<todo, emits, walk, finals, dead, tables, child, ok, killed, holds, wrote,
                   pipe, seen>>

\* closeStdin()
CloseStdin(id) ==
    /\ CallOn(id) /\ id \in processes \cap stdin
    /\ stdin' = stdin \ {id}
    /\ UNCHANGED <<script, processes, listeners, execRequests, execOut, nextId, context, os,
                   via, heard, touched, stray, outcome, gave>>

\* kill(): any signal; a child may live on after it.
Kill(id) ==
    /\ CallOn(id) /\ id \in processes
    /\ \E sig \in {"SIGTERM", "SIGKILL"} :
          killed' = IF sig = "SIGKILL" /\ child[id] = "running" THEN killed \cup {id} ELSE killed
    /\ stray' = Strays({id})
    /\ UNCHANGED <<script, tables, child, ok, feed, holds, wrote, pipe, via, heard,
                   touched, outcome, gave>>

-----------------------------------------------------------------------------
(* process_update_callback                                                 *)

\* With no process there is nothing to do.
UpdateBegin ==
    /\ js.pc = "idle" /\ processes # {}
    /\ todo' = processes
    /\ js' = At("read")
    /\ UNCHANGED <<emits, walk, finals, dead, tables, os, seen>>

\* The chunks waiting in a pipe.
Waiting(id, s) == [k \in 1..pipe[id][s] |-> wrote[id][s] - pipe[id][s] + k]

EmitsOf(id, s) ==
    IF pipe[id][s] = 0 THEN <<>> ELSE <<[id |-> id, kind |-> s, data |-> Waiting(id, s)]>>

\* Variant: the buffers are not cleared once their contents are queued.
UpdateReadKeepsBuffers(id) ==
    /\ js.pc = "read" /\ id \in todo
    /\ todo' = todo \ {id}
    /\ emits' = emits \o EmitsOf(id, "stdout") \o EmitsOf(id, "stderr")
    /\ execOut' = IF id \in execRequests
                  THEN [execOut EXCEPT ![id] = [s \in Streams |-> @[s] \o Waiting(id, s)]]
                  ELSE execOut
    /\ js' = [js EXCEPT !.pc = "wait", !.id = id]
    /\ UNCHANGED <<walk, finals, dead, processes, stdin, listeners, execRequests, nextId,
                   context, child, ok, killed, feed, holds, wrote, pipe, seen>>

\* Variant: what an exec() has collected is replaced.
UpdateReadReplaces(id) ==
    /\ js.pc = "read" /\ id \in todo
    /\ todo' = todo \ {id}
    /\ emits' = emits \o EmitsOf(id, "stdout") \o EmitsOf(id, "stderr")
    /\ execOut' = IF id \in execRequests
                  THEN [execOut EXCEPT ![id] = [s \in Streams |-> Waiting(id, s)]]
                  ELSE execOut
    /\ pipe' = [pipe EXCEPT ![id] = EmptyPipes]
    /\ js' = [js EXCEPT !.pc = "wait", !.id = id]
    /\ UNCHANGED <<walk, finals, dead, processes, stdin, listeners, execRequests, nextId,
                   context, child, ok, killed, feed, holds, wrote, seen>>

\* process_poll_io empties both pipes of one process.
UpdateRead(id) ==
    /\ js.pc = "read" /\ id \in todo
    /\ todo' = todo \ {id}
    /\ emits' = emits \o EmitsOf(id, "stdout") \o EmitsOf(id, "stderr")
    /\ execOut' = IF id \in execRequests
                  THEN [execOut EXCEPT ![id] = [s \in Streams |-> @[s] \o Waiting(id, s)]]
                  ELSE execOut
    /\ pipe' = [pipe EXCEPT ![id] = EmptyPipes]
    /\ js' = [js EXCEPT !.pc = "wait", !.id = id]
    /\ UNCHANGED <<walk, finals, dead, processes, stdin, listeners, execRequests, nextId,
                   context, child, ok, killed, feed, holds, wrote, seen>>

\* waitpid with WNOHANG, and what follows when it reaps the child; the request of an
\* exec() leaves the map before the mutex is released.
UpdateWait ==
    /\ js.pc = "wait"
    /\ child' = Reaped(js.id)
    /\ IF child[js.id] = "zombie"
       THEN /\ emits' = Append(emits, [id |-> js.id, kind |-> "exit", data |-> <<>>])
            /\ finals' = IF js.id \in execRequests
                         THEN Append(finals, [id |-> js.id, ok |-> ok[js.id],
                                              out |-> execOut[js.id]])
                         ELSE finals
            /\ dead' = dead \cup {js.id}
            /\ execRequests' = execRequests \ {js.id}
            /\ execOut' = [execOut EXCEPT ![js.id] = NoOutput]
       ELSE UNCHANGED <<emits, finals, dead, execRequests, execOut>>
    /\ js' = At(IF todo = {} THEN "emit" ELSE "read")
    /\ UNCHANGED <<todo, walk, processes, stdin, listeners, nextId, context, ok, killed, feed,
                   holds, wrote, pipe, seen>>

\* The list the first event goes to.
Audience == listeners[Head(emits).id][Head(emits).kind]

\* The loop over a list keeps the end it had when it began.
WalkLength == IF walk.i = 0 THEN Len(Audience) ELSE walk.n

\* The next function in the list is called; which that is, if the list has moved, is
\* undefined.
CallListener(cb) ==
    /\ js.pc = "emit" /\ emits # <<>>
    /\ walk.i < WalkLength
    /\ ~walk.stale => cb = Audience[walk.i + 1]
    /\ heard' = [heard EXCEPT ![cb] = Append(@, Head(emits))]
    /\ walk' = [walk EXCEPT !.i = @ + 1, !.n = WalkLength]
    /\ js' = At("call")
    /\ UNCHANGED <<todo, emits, finals, dead, tables, os, calls, via, touched, stray, outcome,
                   gave>>

ListenerReturns ==
    /\ js.pc = "call"
    /\ js' = At("emit")
    /\ UNCHANGED <<todo, emits, walk, finals, dead, tables, os, seen>>

EventDone ==
    /\ js.pc = "emit" /\ emits # <<>>
    /\ walk.i >= WalkLength \/ walk.stale
    /\ emits' = Tail(emits)
    /\ walk' = NoWalk
    /\ UNCHANGED <<js, todo, finals, dead, tables, os, seen>>

\* The exec requests to be settled, and how; a child is reaped once.
Settling == {finals[i].id : i \in DOMAIN finals}
FinalOf(id) == CHOOSE f \in Range(finals) : f.id = id

\* Variant: a process that has exited stays in the map.
UpdateEndKeepsProcess ==
    /\ js.pc = "emit" /\ emits = <<>>
    /\ outcome' = [id \in Ids |-> IF id \notin Settling THEN outcome[id]
                                  ELSE IF FinalOf(id).ok THEN "resolved" ELSE "rejected"]
    /\ gave' = [id \in Ids |-> IF id \in Settling THEN FinalOf(id).out ELSE gave[id]]
    /\ finals' = <<>>
    /\ listeners' = [id \in Ids |-> IF id \in dead THEN NoListeners ELSE listeners[id]]
    /\ pipe' = [id \in Ids |-> IF id \in dead THEN EmptyPipes ELSE pipe[id]]
    /\ dead' = {}
    /\ js' = At("idle")
    /\ UNCHANGED <<todo, emits, walk, processes, stdin, execRequests, execOut, nextId, context, child, ok,
                   killed, feed, holds, wrote, calls, via, heard, touched, stray>>

\* Once the events are out the exec promises are settled, processes that have exited are
\* forgotten, their descriptors closed and their listeners freed.
UpdateEnd ==
    /\ js.pc = "emit" /\ emits = <<>>
    /\ outcome' = [id \in Ids |-> IF id \notin Settling THEN outcome[id]
                                  ELSE IF FinalOf(id).ok THEN "resolved" ELSE "rejected"]
    /\ gave' = [id \in Ids |-> IF id \in Settling THEN FinalOf(id).out ELSE gave[id]]
    /\ finals' = <<>>
    /\ processes' = processes \ dead
    /\ stdin' = stdin \ dead
    /\ listeners' = [id \in Ids |-> IF id \in dead THEN NoListeners ELSE listeners[id]]
    /\ pipe' = [id \in Ids |-> IF id \in dead THEN EmptyPipes ELSE pipe[id]]
    /\ dead' = {}
    /\ js' = At("idle")
    /\ UNCHANGED <<todo, emits, walk, execRequests, execOut, nextId, context, child, ok,
                   killed, feed, holds, wrote, calls, via, heard, touched, stray>>

-----------------------------------------------------------------------------
(* scriptShutdown                                                          *)

\* Promises and listeners are freed, every child is sent SIGTERM, the pipes are closed.
ShutdownBegin ==
    /\ js.pc = "idle"
    /\ execRequests' = {}
    /\ execOut' = [id \in Ids |-> NoOutput]
    /\ listeners' = [id \in Ids |-> NoListeners]
    /\ stray' = Strays(processes)
    /\ stdin' = {}
    /\ pipe' = [id \in Ids |-> EmptyPipes]
    /\ todo' = processes
    /\ js' = At("sdWait")
    /\ UNCHANGED <<emits, walk, finals, dead, processes, nextId, context, child, ok, killed,
                   feed, holds, wrote, calls, via, heard, touched, outcome, gave>>

\* waitpid with WNOHANG until it reaps the child (a second waitpid then finds no child)
\* or the deadline has passed.
ShutdownWait(id) ==
    /\ js.pc = "sdWait" /\ id \in todo
    /\ child' = Reaped(id)
    /\ todo' = todo \ {id}
    /\ js' = IF child[id] = "running" THEN [At("sdTry") EXCEPT !.id = id] ELSE js
    /\ UNCHANGED <<emits, walk, finals, dead, tables, ok, killed, feed, holds, wrote, pipe, seen>>

\* Variant: a child that was killed is not waited for.
ShutdownTryKillOnly ==
    /\ js.pc = "sdTry"
    /\ child' = Reaped(js.id)
    /\ IF child[js.id] = "running"
       THEN /\ killed' = killed \cup {js.id}
            /\ js' = At("sdWait")
       ELSE /\ js' = At("sdWait")
            /\ UNCHANGED killed
    /\ UNCHANGED <<todo, emits, walk, finals, dead, tables, ok, feed, holds, wrote, pipe, seen>>

\* The second waitpid: only a child it finds still running is killed.
ShutdownTry ==
    /\ js.pc = "sdTry"
    /\ child' = Reaped(js.id)
    /\ IF child[js.id] = "running"
       THEN /\ killed' = killed \cup {js.id}
            /\ js' = [js EXCEPT !.pc = "sdReap"]
       ELSE /\ js' = At("sdWait")
            /\ UNCHANGED killed
    /\ UNCHANGED <<todo, emits, walk, finals, dead, tables, ok, feed, holds, wrote, pipe, seen>>

\* A waitpid that blocks.
ShutdownReap ==
    /\ js.pc = "sdReap" /\ child[js.id] # "running"
    /\ child' = Reaped(js.id)
    /\ js' = At("sdWait")
    /\ UNCHANGED <<todo, emits, walk, finals, dead, tables, ok, killed, feed, holds, wrote,
                   pipe, seen>>

ShutdownEnd ==
    /\ js.pc = "sdWait" /\ todo = {}
    /\ processes' = {}
    /\ context' = FALSE
    /\ js' = At("idle")
    /\ UNCHANGED <<todo, emits, walk, finals, dead, stdin, listeners, execRequests, execOut,
                   nextId, os, seen>>

-----------------------------------------------------------------------------

ScriptSteps ==
    \/ Spawn
    \/ Exec
    \/ \E id \in Ids : \/ Write(id)
                       \/ CloseStdin(id)
                       \/ Kill(id)
                       \/ \E k \in Kinds, cb \in Callbacks : On(id, k, cb) \/ Off(id, k, cb)

UpdateSteps ==
    \/ UpdateBegin
    \/ \E id \in Ids : UpdateRead(id)
    \/ UpdateWait
    \/ \E cb \in Callbacks : CallListener(cb)
    \/ ListenerReturns
    \/ EventDone
    \/ UpdateEnd

ShutdownSteps ==
    \/ \E id \in Ids : ShutdownWait(id)
    \/ ShutdownTry
    \/ ShutdownReap
    \/ ShutdownEnd

ChildSteps ==
    \E id \in Ids :
        \/ ChildReads(id)
        \/ \E s \in Streams : ChildWrites(id, s)
        \/ \E well \in BOOLEAN : ChildExits(id, well)

Next ==
    \/ ScriptSteps
    \/ WriteReturnsNow
    \/ UpdateSteps
    \/ ShutdownBegin
    \/ ShutdownSteps
    \/ ChildSteps

Spec == Init /\ [][Next]_vars

KilledDies == \E id \in killed : ChildExits(id, FALSE)

ChildCopes == \E id \in Ids : ChildReads(id) \/ (holds[id] /\ ChildWrites(id, "stdout"))

\* The host calls the update hook on every frame, the script thread goes on inside a
\* function it has entered, a child that was sent SIGKILL dies, and a child reads its
\* stdin and writes what comes of it whenever the pipes let it.
FairSpec ==
    /\ Spec
    /\ WF_vars(UpdateSteps)
    /\ WF_vars(WriteReturnsNow)
    /\ WF_vars(ShutdownSteps)
    /\ WF_vars(KilledDies)
    /\ WF_vars(ChildCopes)

-----------------------------------------------------------------------------
(* Properties                                                              *)

\* What a callback heard from one stream of one process.
HeardFrom(cb, id, s) ==
    FlattenSeq([i \in 1..Len(heard[cb]) |->
        IF heard[cb][i].id = id /\ heard[cb][i].kind = s THEN heard[cb][i].data ELSE <<>>])

Consecutive(chunks) == \A i \in 1..(Len(chunks) - 1) : chunks[i + 1] = chunks[i] + 1

\* Whatever other listeners do, a listener hears a stream without gap, repetition or
\* change of order, unless the script took listeners from the list or grew it while
\* it was walked; and nobody hears of the output of a process after its exit.
HeardInOrder ==
    /\ \A cb \in Callbacks, id \in Ids, s \in Streams :
          <<id, s>> \notin touched => Consecutive(HeardFrom(cb, id, s))
    /\ \A cb \in Callbacks : \A i, j \in 1..Len(heard[cb]) :
          i < j /\ heard[cb][i].kind = "exit" /\ heard[cb][i].id = heard[cb][j].id
              => heard[cb][j].kind = "exit"

\* An exec promise is settled for a child that was reaped, as its exit code says,
\* with the beginning of what it wrote on each stream.
ExecSettledTruly ==
    \A id \in Ids : outcome[id] # "none" =>
        /\ child[id] = "reaped"
        /\ outcome[id] = "resolved" <=> ok[id]
        /\ \A s \in Streams : /\ Len(gave[id][s]) <= wrote[id][s]
                              /\ \A i \in 1..Len(gave[id][s]) : gave[id][s][i] = i

\* No signal goes to a pid the plugin has already reaped (it may be another
\* process by then), except for a kill() from a listener of the very update.
NoStraySignal == [][stray' # stray => js.pc = "call"]_vars

\* After shutdown no child is left, reaped or not, nor anything kept for one.
ShutdownLeavesNothing ==
    ~context => /\ \A id \in Ids : child[id] \in {"none", "reaped"}
                /\ processes = {} /\ stdin = {} /\ execRequests = {}
                /\ \A id \in Ids, k \in Kinds : listeners[id][k] = <<>>

\* "exec(cmd) -> Promise<{ stdout, stderr }>": the promise is given what the command wrote.
ExecOutputIsWhole ==
    \A id \in Ids, s \in Streams :
        outcome[id] # "none" => Len(gave[id][s]) = wrote[id][s]

\* README.md: "Keep blocking work on worker threads": write() lets the script thread go on.
WriteReturns == (js.pc = "write") ~> (js.pc # "write")
=============================================================================
