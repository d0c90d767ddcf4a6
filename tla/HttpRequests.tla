---------------------------- MODULE HttpRequests ----------------------------
(***************************************************************************)
(* The http plugin: request() queues a job and wakes the worker by a       *)
(* semaphore, the worker performs it, drain() (the update hook, or a call  *)
(* of the script) hands what is done to the host, and the host runs the    *)
(* settlement on the script thread: at once, later, or never once it has   *)
(* begun to stop.  scriptShutdown releases what is open and joins the      *)
(* worker.                                                                 *)
(*                                                                         *)
(* docs/plugin-abi.md: scriptUpdate and scriptShutdown are called on the   *)
(* script thread, and work handed to it is revoked when shutdown starts.   *)
(***************************************************************************)
EXTENDS Naturals, Sequences, FiniteSets

CONSTANT MaxRequests  \* bound on the requests

ASSUME RequestsAssumption == MaxRequests \in Nat

VARIABLES
    js,       \* the script thread: [pc, id (of the request it is queueing)]
    worker,   \* the worker: [pc, id (of the job in its hands)]
    running,  \* Http::running
    signal,   \* the counter of jobSignal
    waiting,  \* waiting queue
    done,     \* done queue: [id, succeed]
    pending,  \* ids in the pending map
    context,  \* FALSE once the last reference to the HttpContext is gone
    tasks,    \* settlements the host has accepted and not run: [id, succeed]
    stopping, \* the host refuses work for the script thread
    outcome   \* of each promise: "none", "open", "resolved", "rejected", "released"

http == <<running, signal, waiting, done, pending, context>>
host == <<tasks, stopping>>
vars == <<js, worker, http, host, outcome>>

Ids == 1..MaxRequests
Script(pc) == [pc |-> pc, id |-> 0]
Worker(pc) == [pc |-> pc, id |-> 0]

Init ==
    /\ js = Script("idle")
    /\ worker = Worker("test")
    /\ running = TRUE
    /\ signal = 0
    /\ waiting = <<>> /\ done = <<>> /\ pending = {}
    /\ context = TRUE
    /\ tasks = {} /\ stopping = FALSE
    /\ outcome = [id \in Ids |-> "none"]

\* jobSignal is a binary semaphore: to release it when it is set already is undefined.
\* The counter goes past 1 in one implementation, and stays there in another.
Release == signal' \in IF signal = 0 THEN {1} ELSE {signal, signal + 1}

-----------------------------------------------------------------------------
(* request()                                                               *)

\* The promise is made and noted in the pending map.
Request(id) ==
    /\ js.pc = "idle" /\ context
    /\ outcome[id] = "none"
    /\ \A other \in 1..(id - 1) : outcome[other] # "none"
    /\ outcome' = [outcome EXCEPT ![id] = "open"]
    /\ pending' = pending \cup {id}
    /\ js' = [pc |-> "push", id |-> id]
    /\ UNCHANGED <<worker, running, signal, waiting, done, context, host>>

RequestPush ==
    /\ js.pc = "push"
    /\ waiting' = Append(waiting, js.id)
    /\ js' = Script("signal")
    /\ UNCHANGED <<worker, running, signal, done, pending, context, host, outcome>>

RequestSignal ==
    /\ js.pc = "signal"
    /\ Release
    /\ js' = Script("idle")
    /\ UNCHANGED <<worker, running, waiting, done, pending, context, host, outcome>>

-----------------------------------------------------------------------------
(* Http::worker.  "running" is a plain bool, read as it is written: the    *)
(* calls in the loop keep the compiler from holding on to a value.         *)

WorkerTest ==
    /\ worker.pc = "test"
    /\ worker' = Worker(IF running THEN "look" ELSE "ended")
    /\ UNCHANGED <<js, http, host, outcome>>

\* Variant: one signal is taken for each job.
WorkerLookAlways ==
    /\ worker.pc = "look"
    /\ worker' = Worker("acquire")
    /\ UNCHANGED <<js, http, host, outcome>>

\* The semaphore is only acquired when nothing is queued.
WorkerLook ==
    /\ worker.pc = "look"
    /\ worker' = Worker(IF waiting = <<>> THEN "acquire" ELSE "take")
    /\ UNCHANGED <<js, http, host, outcome>>

WorkerAcquire ==
    /\ worker.pc = "acquire" /\ signal > 0
    /\ signal' = signal - 1
    /\ worker' = Worker("take")
    /\ UNCHANGED <<js, running, waiting, done, pending, context, host, outcome>>

\* Variant: the newest job is served first.
WorkerTakeNewest ==
    /\ worker.pc = "take"
    /\ IF waiting = <<>>
       THEN /\ worker' = Worker("test")
            /\ UNCHANGED waiting
       ELSE /\ worker' = [pc |-> "perform", id |-> waiting[Len(waiting)]]
            /\ waiting' = SubSeq(waiting, 1, Len(waiting) - 1)
    /\ UNCHANGED <<js, running, signal, done, pending, context, host, outcome>>

\* A signal may be left over from a job that was found without it.
WorkerTake ==
    /\ worker.pc = "take"
    /\ IF waiting = <<>>
       THEN /\ worker' = Worker("test")
            /\ UNCHANGED waiting
       ELSE /\ worker' = [pc |-> "perform", id |-> Head(waiting)]
            /\ waiting' = Tail(waiting)
    /\ UNCHANGED <<js, running, signal, done, pending, context, host, outcome>>

\* The exchange with the server: a response, or an error (a URL, scheme or method that is
\* not supported, a failed or a timed out connection).
WorkerPerform(succeed) ==
    /\ worker.pc = "perform"
    /\ done' = Append(done, [id |-> worker.id, succeed |-> succeed])
    /\ worker' = Worker("test")
    /\ UNCHANGED <<js, running, signal, waiting, pending, context, host, outcome>>

-----------------------------------------------------------------------------
(* Http::drain and settle_request                                          *)

\* Variant: the weak reference to the context is not asked.
SettleAnyway(job) ==
    /\ pending' = pending \ {job.id}
    /\ outcome' = [outcome EXCEPT ![job.id] = IF job.succeed THEN "resolved" ELSE "rejected"]

\* settle_request does nothing when the context is gone or the promise released.
Settle(job) ==
    IF context /\ outcome[job.id] = "open"
    THEN /\ pending' = pending \ {job.id}
         /\ outcome' = [outcome EXCEPT ![job.id] = IF job.succeed THEN "resolved" ELSE "rejected"]
    ELSE UNCHANGED <<pending, outcome>>

\* The update hook, or drain() called by the script.
DrainBegin ==
    /\ js.pc = "idle" /\ context
    /\ js' = Script("drain")
    /\ UNCHANGED <<worker, http, host, outcome>>

\* request_callback hands the job to the host, which keeps it ...
DrainHandsOver ==
    /\ js.pc = "drain" /\ done # <<>>
    /\ ~stopping
    /\ tasks' = tasks \cup {Head(done)}
    /\ done' = Tail(done)
    /\ UNCHANGED <<js, worker, running, signal, waiting, pending, context, stopping, outcome>>

\* ... or runs it at once, as this is the script thread ...
DrainSettles ==
    /\ js.pc = "drain" /\ done # <<>>
    /\ ~stopping
    /\ Settle(Head(done))
    /\ done' = Tail(done)
    /\ UNCHANGED <<js, worker, running, signal, waiting, context, host>>

\* ... or refuses it: the job is dropped, its promise stays in the pending map.
DrainIsRefused ==
    /\ js.pc = "drain" /\ done # <<>>
    /\ stopping
    /\ done' = Tail(done)
    /\ UNCHANGED <<js, worker, running, signal, waiting, pending, context, host, outcome>>

DrainEnd ==
    /\ js.pc = "drain" /\ done = <<>>
    /\ js' = Script("idle")
    /\ UNCHANGED <<worker, http, host, outcome>>

RunTask(job) ==
    /\ js.pc \in {"idle", "gone"} /\ ~stopping
    /\ job \in tasks
    /\ tasks' = tasks \ {job}
    /\ Settle(job)
    /\ UNCHANGED <<js, worker, running, signal, waiting, done, context, stopping>>

\* The host starts to stop: work for the script thread is revoked and refused.
Revoke ==
    /\ ~stopping
    /\ stopping' = TRUE
    /\ tasks' = {}
    /\ UNCHANGED <<js, worker, http, outcome>>

-----------------------------------------------------------------------------
(* scriptShutdown                                                          *)

\* Variant: a promise whose settlement is with the host is left to it.
CleanupSparesTasks ==
    /\ js.pc = "idle" /\ context
    /\ outcome' = [id \in Ids |-> IF id \in pending /\ (\A t \in tasks : t.id # id)
                                  THEN "released" ELSE outcome[id]]
    /\ pending' = {}
    /\ context' = FALSE
    /\ js' = Script("stop")
    /\ UNCHANGED <<worker, running, signal, waiting, done, host>>

\* cleanup_http_context releases the promises; with the last reference to the context
\* goes its Http.
Cleanup ==
    /\ js.pc = "idle" /\ context
    /\ outcome' = [id \in Ids |-> IF id \in pending THEN "released" ELSE outcome[id]]
    /\ pending' = {}
    /\ context' = FALSE
    /\ js' = Script("stop")
    /\ UNCHANGED <<worker, running, signal, waiting, done, host>>

\* ~Http
Stop ==
    /\ js.pc = "stop"
    /\ running' = FALSE
    /\ js' = Script("wake")
    /\ UNCHANGED <<worker, signal, waiting, done, pending, context, host, outcome>>

\* Variant: the worker is not woken.
WakeNobody ==
    /\ js.pc = "wake"
    /\ js' = Script("join")
    /\ UNCHANGED <<worker, http, host, outcome>>

Wake ==
    /\ js.pc = "wake"
    /\ Release
    /\ js' = Script("join")
    /\ UNCHANGED <<worker, running, waiting, done, pending, context, host, outcome>>

Join ==
    /\ js.pc = "join" /\ worker.pc = "ended"
    /\ waiting' = <<>> /\ done' = <<>>
    /\ js' = Script("gone")
    /\ UNCHANGED <<worker, running, signal, pending, context, host, outcome>>

\* Shutdown callbacks may be called again: there is no context to clean up then.
CleanupAgain == js.pc = "gone" /\ UNCHANGED vars

-----------------------------------------------------------------------------

RequestSteps == RequestPush \/ RequestSignal
DrainSteps == DrainHandsOver \/ DrainSettles \/ DrainIsRefused \/ DrainEnd
ShutdownSteps == Stop \/ Wake \/ Join
WorkerSteps ==
    \/ WorkerTest
    \/ WorkerLook
    \/ WorkerAcquire
    \/ WorkerTake
    \/ \E succeed \in BOOLEAN : WorkerPerform(succeed)
RunTasks == \E job \in tasks : RunTask(job)

Next ==
    \/ \E id \in Ids : Request(id)
    \/ RequestSteps
    \/ WorkerSteps
    \/ DrainBegin
    \/ DrainSteps
    \/ RunTasks
    \/ Revoke
    \/ Cleanup
    \/ ShutdownSteps
    \/ CleanupAgain

Spec == Init /\ [][Next]_vars

\* The threads go on (an exchange ends, if only by its timeouts), the host calls the
\* update hook on every frame, runs the work it accepted, and, when it stops, calls
\* scriptShutdown.
FairSpec ==
    /\ Spec
    /\ WF_vars(RequestSteps) /\ WF_vars(ShutdownSteps) /\ WF_vars(WorkerSteps)
    /\ WF_vars(DrainSteps)
    /\ SF_vars(DrainBegin)
    /\ SF_vars(RunTasks)
    /\ SF_vars(stopping /\ Cleanup)

-----------------------------------------------------------------------------
(* Properties                                                              *)

Job == [id : Ids, succeed : BOOLEAN]

\* The values every variable may take; a promise is open exactly while it is in the
\* pending map.
TypeOK ==
    /\ js \in [pc : {"idle", "push", "signal", "drain", "stop", "wake", "join", "gone"},
               id : Ids \cup {0}]
    /\ worker \in [pc : {"test", "look", "acquire", "take", "perform", "ended"},
                   id : Ids \cup {0}]
    /\ running \in BOOLEAN /\ context \in BOOLEAN /\ stopping \in BOOLEAN
    /\ signal \in Nat
    /\ waiting \in Seq(Ids) /\ done \in Seq(Job)
    /\ tasks \subseteq Job
    /\ outcome \in [Ids -> {"none", "open", "resolved", "rejected", "released"}]
    /\ pending = {id \in Ids : outcome[id] = "open"}

\* The worker never waits for a signal with a job in its queue, or asked to stop, unless
\* the signal is about to be given.
NoWakeUpLost ==
    worker.pc = "acquire" /\ signal = 0 =>
        /\ waiting # <<>> => js.pc = "signal"
        /\ running \/ js.pc = "wake"

\* A promise is settled or released once: a settlement that the host runs late finds
\* nothing to do.
SettledOnce ==
    [][\A id \in Ids : outcome[id] \in {"resolved", "rejected", "released"}
            => outcome'[id] = outcome[id]]_vars

\* The requests under way, oldest first, wherever they stand.
InHand == IF worker.pc = "perform" THEN <<worker.id>> ELSE <<>>
Line == [i \in 1..Len(done) |-> done[i].id] \o InHand \o waiting

\* request() is a queue: jobs are performed one by one in the order they were made and
\* each leaves it once, in that order too, to the host or because the host refuses it
\* (request, worker, drain).  The code sets no limit to it.
Queue == INSTANCE WorkQueue WITH
            Limit <- MaxRequests, Batches <- {1},
            line <- Line, ready <- Len(done), open <- js.pc # "gone"

ImplementsQueue == Queue!QueueSpec

\* The requests whose promise somebody is to settle: the one being made, those in the
\* queue and those the host has accepted.
UnderWay ==
    {id \in Ids : \/ js.pc = "push" /\ js.id = id
                  \/ \E i \in 1..Len(Line) : Line[i] = id
                  \/ \E task \in tasks : task.id = id}

\* Nobody settles a promise that is settled already, and as long as the host takes work
\* every open promise is about to be settled by somebody; those it refuses stay open until
\* scriptShutdown, which leaves none (settle_request, cleanup_http_context).
PromisesAccounted ==
    IF context
    THEN /\ \A id \in UnderWay : outcome[id] = "open"
         /\ ~stopping => \A id \in Ids : outcome[id] = "open" => id \in UnderWay
    ELSE \A id \in Ids : outcome[id] # "open"

\* Every request is settled, or released by shutdown.
RequestsSettle == \A id \in Ids : outcome[id] = "open" ~> outcome[id] # "open"

\* The join of ~Http ends.
ShutdownEnds == js.pc = "stop" ~> js.pc = "gone"
=============================================================================
