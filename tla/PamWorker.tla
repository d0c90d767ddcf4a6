----------------------------- MODULE PamWorker -----------------------------
(***************************************************************************)
(* The pam plugin: authenticate() queues a request for the one worker      *)
(* thread, the worker goes through the PAM conversation and queues the     *)
(* result, the update hook settles the promise, and shutdown stops and     *)
(* joins the worker.                                                       *)
(*                                                                         *)
(* The worker waits on a condition variable: it tests the predicate with   *)
(* requestMutex held ("test"), keeps the mutex while it makes ready to     *)
(* sleep ("parking") or goes to take a request ("chosen"), and only a      *)
(* notification given while it is "asleep" (or a spurious one) wakes it.   *)
(***************************************************************************)
EXTENDS Integers, Sequences, FiniteSets, SequencesExt

CONSTANTS MaxId,   \* bound on request ids (nextId)
          Limit    \* most pending promises: 16 in the code

ASSUME PamBoundsAssumption == MaxId \in Nat /\ Limit \in Nat \ {0}

VARIABLES
    js,        \* where the script thread stands: "idle" outside the plugin
    worker,    \* worker thread: [pc, id (the request it serves)]
    requests,  \* requests queue: ids
    results,   \* results queue: [id, ok]
    batch,     \* the update hook's local items
    promises,  \* ids in the promises map
    nextId,    \* nextId
    running,   \* running
    context,   \* FALSE once context is nullptr
    passed,    \* passed[id]: the stages of the conversation id got through
    outcome    \* how the script sees each promise: "none", "resolved", "rejected"

vars == <<js, worker, requests, results, batch, promises, nextId, running, context,
          passed, outcome>>

Ids == 1..MaxId

Stages == {"start", "authenticate", "acctMgmt"}

\* The stage after each one; finalCode is PAM_SUCCESS after the last.
NextStage == [start |-> "authenticate", authenticate |-> "acctMgmt", acctMgmt |-> "post"]

NoWorker(pc) == [pc |-> pc, id |-> 0]

\* integrate has set running and started the worker.
Init ==
    /\ js = "idle"
    /\ worker = NoWorker("check")
    /\ requests = <<>>
    /\ results = <<>>
    /\ batch = <<>>
    /\ promises = {}
    /\ nextId = 1
    /\ running = TRUE
    /\ context = TRUE
    /\ passed = [id \in Ids |-> {}]
    /\ outcome = [id \in Ids |-> "none"]

\* requestMutex: the script thread's own critical sections are single steps.
RequestMutexFree == worker.pc \notin {"parking", "chosen"}

WorkerEnded == worker.pc \in {"none", "done"}

\* notify_one and notify_all: there is one waiter at most.
Notified == IF worker.pc = "asleep" THEN [worker EXCEPT !.pc = "test"] ELSE worker

-----------------------------------------------------------------------------
(* js_authenticate, on the script thread                                   *)

\* Variant: the request is pushed without requestMutex.
AuthenticateUnlocked ==
    /\ js = "idle" /\ context
    /\ nextId \in Ids
    /\ Cardinality(promises) < Limit
    /\ promises' = promises \cup {nextId}
    /\ nextId' = nextId + 1
    /\ requests' = Append(requests, nextId)
    /\ js' = "notify"
    /\ UNCHANGED <<worker, results, batch, running, context, passed, outcome>>

\* Variant: the worker is not notified.
AuthenticateSilently ==
    /\ js = "idle" /\ context
    /\ nextId \in Ids
    /\ Cardinality(promises) < Limit
    /\ RequestMutexFree
    /\ promises' = promises \cup {nextId}
    /\ nextId' = nextId + 1
    /\ requests' = Append(requests, nextId)
    /\ UNCHANGED <<js, worker, results, batch, running, context, passed, outcome>>

\* Variant: the limit is tested with > instead of >=.
AuthenticateOneMore ==
    /\ js = "idle" /\ context
    /\ nextId \in Ids
    /\ Cardinality(promises) <= Limit
    /\ RequestMutexFree
    /\ promises' = promises \cup {nextId}
    /\ nextId' = nextId + 1
    /\ requests' = Append(requests, nextId)
    /\ js' = "notify"
    /\ UNCHANGED <<worker, results, batch, running, context, passed, outcome>>

\* A call beyond the limit throws and changes nothing.
Authenticate ==
    /\ js = "idle" /\ context
    /\ nextId \in Ids
    /\ Cardinality(promises) < Limit
    /\ RequestMutexFree
    /\ promises' = promises \cup {nextId}
    /\ nextId' = nextId + 1
    /\ requests' = Append(requests, nextId)
    /\ js' = "notify"
    /\ UNCHANGED <<worker, results, batch, running, context, passed, outcome>>

NotifyOne ==
    /\ js = "notify"
    /\ worker' = Notified
    /\ js' = "idle"
    /\ UNCHANGED <<requests, results, batch, promises, nextId, running, context, passed,
                   outcome>>

-----------------------------------------------------------------------------
(* worker_loop                                                             *)

WorkerCheck ==
    /\ worker.pc = "check"
    /\ worker' = [worker EXCEPT !.pc = IF running THEN "test" ELSE "done"]
    /\ UNCHANGED <<js, requests, results, batch, promises, nextId, running, context,
                   passed, outcome>>

\* Takes requestMutex and evaluates the predicate of wait().
WorkerTest ==
    /\ worker.pc = "test"
    /\ worker' = [worker EXCEPT !.pc = IF running /\ requests = <<>> THEN "parking" ELSE "chosen"]
    /\ UNCHANGED <<js, requests, results, batch, promises, nextId, running, context,
                   passed, outcome>>

\* Releases requestMutex and blocks.
WorkerPark ==
    /\ worker.pc = "parking"
    /\ worker' = [worker EXCEPT !.pc = "asleep"]
    /\ UNCHANGED <<js, requests, results, batch, promises, nextId, running, context,
                   passed, outcome>>

WorkerWakesSpuriously ==
    /\ worker.pc = "asleep"
    /\ worker' = [worker EXCEPT !.pc = "test"]
    /\ UNCHANGED <<js, requests, results, batch, promises, nextId, running, context,
                   passed, outcome>>

\* Variant: the newest request is taken first.
WorkerTakeNewest ==
    /\ worker.pc = "chosen"
    /\ IF running
       THEN /\ worker' = [pc |-> "start", id |-> Last(requests)]
            /\ requests' = Front(requests)
       ELSE /\ worker' = NoWorker("done")
            /\ UNCHANGED requests
    /\ UNCHANGED <<js, results, batch, promises, nextId, running, context, passed, outcome>>

WorkerTake ==
    /\ worker.pc = "chosen"
    /\ IF running
       THEN /\ worker' = [pc |-> "start", id |-> Head(requests)]
            /\ requests' = Tail(requests)
       ELSE /\ worker' = NoWorker("done")
            /\ UNCHANGED requests
    /\ UNCHANGED <<js, results, batch, promises, nextId, running, context, passed, outcome>>

\* Variant: the account is checked and the code it gives is not kept.
StageIgnoresAccount(ok) ==
    /\ worker.pc \in Stages
    /\ passed' = IF ok THEN [passed EXCEPT ![worker.id] = @ \cup {worker.pc}] ELSE passed
    /\ IF ok \/ worker.pc = "acctMgmt"
       THEN /\ worker' = [worker EXCEPT !.pc = NextStage[worker.pc]]
            /\ UNCHANGED results
       ELSE /\ results' = Append(results, [id |-> worker.id, ok |-> FALSE])
            /\ worker' = NoWorker("check")
    /\ UNCHANGED <<js, requests, batch, promises, nextId, running, context, outcome>>

\* pam_start, pam_authenticate, pam_acct_mgmt: the first that fails gives the code,
\* and the result is queued.
Stage(ok) ==
    /\ worker.pc \in Stages
    /\ passed' = IF ok THEN [passed EXCEPT ![worker.id] = @ \cup {worker.pc}] ELSE passed
    /\ IF ok
       THEN /\ worker' = [worker EXCEPT !.pc = NextStage[worker.pc]]
            /\ UNCHANGED results
       ELSE /\ results' = Append(results, [id |-> worker.id, ok |-> FALSE])
            /\ worker' = NoWorker("check")
    /\ UNCHANGED <<js, requests, batch, promises, nextId, running, context, outcome>>

PostSuccess ==
    /\ worker.pc = "post"
    /\ results' = Append(results, [id |-> worker.id, ok |-> TRUE])
    /\ worker' = NoWorker("check")
    /\ UNCHANGED <<js, requests, batch, promises, nextId, running, context, passed, outcome>>

-----------------------------------------------------------------------------
(* pam_update, on the script thread                                        *)

\* Variant: the results are copied and left in the queue.
UpdateCopy ==
    /\ js = "idle" /\ context
    /\ results # <<>>
    /\ batch' = results
    /\ js' = "settle"
    /\ UNCHANGED <<worker, requests, results, promises, nextId, running, context, passed,
                   outcome>>

UpdateTake ==
    /\ js = "idle" /\ context
    /\ results # <<>>
    /\ batch' = results
    /\ results' = <<>>
    /\ js' = "settle"
    /\ UNCHANGED <<worker, requests, promises, nextId, running, context, passed, outcome>>

\* One turn of the loop over the items.
Settle ==
    /\ js = "settle"
    /\ LET r == Head(batch)
       IN /\ promises' = promises \ {r.id}
          /\ outcome' = IF r.id \in promises
                        THEN [outcome EXCEPT ![r.id] = IF r.ok THEN "resolved" ELSE "rejected"]
                        ELSE outcome
    /\ batch' = Tail(batch)
    /\ js' = IF Len(batch) = 1 THEN "idle" ELSE "settle"
    /\ UNCHANGED <<worker, requests, results, nextId, running, context, passed>>

-----------------------------------------------------------------------------
(* pam_shutdown, on the script thread; it may be called again              *)

\* running is cleared without requestMutex.
ShutdownBegin ==
    /\ js = "idle"
    /\ running' = FALSE
    /\ js' = "sdNotify"
    /\ UNCHANGED <<worker, requests, results, batch, promises, nextId, context, passed, outcome>>

ShutdownNotify ==
    /\ js = "sdNotify"
    /\ worker' = Notified
    /\ js' = "sdJoin"
    /\ UNCHANGED <<requests, results, batch, promises, nextId, running, context, passed,
                   outcome>>

\* Variant: the worker is not joined.
ShutdownDetached ==
    /\ js = "sdJoin"
    /\ promises' = {}
    /\ results' = <<>>
    /\ requests' = <<>>
    /\ context' = FALSE
    /\ js' = "idle"
    /\ UNCHANGED <<worker, batch, nextId, running, passed, outcome>>

\* After the join the promises are freed unsettled and the queues emptied.
ShutdownJoin ==
    /\ js = "sdJoin"
    /\ WorkerEnded
    /\ worker' = NoWorker("none")
    /\ promises' = {}
    /\ results' = <<>>
    /\ requests' = <<>>
    /\ context' = FALSE
    /\ js' = "idle"
    /\ UNCHANGED <<batch, nextId, running, passed, outcome>>

-----------------------------------------------------------------------------

WorkerSteps ==
    \/ WorkerCheck
    \/ WorkerTest
    \/ WorkerPark
    \/ WorkerTake
    \/ \E ok \in BOOLEAN : Stage(ok)
    \/ PostSuccess

UpdateSteps == UpdateTake \/ Settle

ShutdownSteps == ShutdownNotify \/ ShutdownJoin

Next ==
    \/ Authenticate
    \/ NotifyOne
    \/ WorkerSteps
    \/ WorkerWakesSpuriously
    \/ UpdateSteps
    \/ ShutdownBegin
    \/ ShutdownSteps

Spec == Init /\ [][Next]_vars

\* Threads run, the PAM modules return, the host calls the update hook on every frame
\* and the script thread goes on inside a function it has entered.  Nothing obliges a
\* condition variable to wake up by itself.
FairSpec ==
    /\ Spec
    /\ WF_vars(WorkerSteps)
    /\ WF_vars(NotifyOne)
    /\ WF_vars(UpdateSteps)
    /\ WF_vars(ShutdownSteps)

-----------------------------------------------------------------------------
(* Properties                                                              *)

Result == [id : Ids, ok : BOOLEAN]

\* The values every variable may take; at most Limit promises are pending.
TypeOK ==
    /\ js \in {"idle", "notify", "settle", "sdNotify", "sdJoin"}
    /\ worker \in [pc : Stages \cup {"none", "check", "test", "parking", "asleep", "chosen",
                                     "post", "done"},
                   id : Ids \cup {0}]
    /\ requests \in Seq(Ids)
    /\ results \in Seq(Result)
    /\ batch \in Seq(Result)
    /\ promises \subseteq Ids
    /\ Cardinality(promises) <= Limit
    /\ nextId \in 1..(MaxId + 1)
    /\ running \in BOOLEAN
    /\ context \in BOOLEAN
    /\ passed \in [Ids -> SUBSET Stages]
    /\ outcome \in [Ids -> {"none", "resolved", "rejected"}]

Serving == worker.pc \in Stages \cup {"post"}

IdsOf(items) == [i \in 1..Len(items) |-> items[i].id]

InHand == IF Serving THEN <<worker.id>> ELSE <<>>

\* The requests under way, oldest first, wherever they stand.
Line == IdsOf(batch) \o IdsOf(results) \o InHand \o requests

\* Every pending promise has its request in exactly one of the two queues, the
\* worker's hands and the update hook's batch, and nothing else is there: no
\* promise is forgotten and none is answered twice.
PendingAreInLine ==
    IsInjective(Line) /\ (context => promises = {Line[i] : i \in 1..Len(Line)})

\* The worker never sleeps on a request: when one is queued, the notification that
\* wakes it is still to come (requestMutex covers the predicate and the push).
NoMissedWork ==
    worker.pc \in {"parking", "asleep"} /\ requests # <<>> => js = "notify"

\* A promise is resolved only for a request that went through every stage, the
\* account check included, and rejected only for one that did not.
ResolvedIfAllPassed ==
    \A id \in Ids :
        /\ outcome[id] = "resolved" => passed[id] = Stages
        /\ outcome[id] = "rejected" => passed[id] # Stages

\* After shutdown the worker has ended and nothing it could touch is left.
ShutdownLeavesNothing ==
    ~context => WorkerEnded /\ ~running /\ promises = {} /\ Line = <<>>

\* authenticate() is a queue served in order with at most Limit requests under way.
Queue == INSTANCE WorkQueue WITH
            Batches <- {1}, line <- Line, ready <- Len(batch) + Len(results), open <- context

ImplementsQueue == Queue!QueueSpec

\* Every promise is settled, unless the plugin shuts down.
AuthSettles == \A id \in Ids : (id \in promises) ~> (id \notin promises \/ ~running)

\* README.md: "Stop and join workers during shutdown": a shutdown that has begun ends.
ShutdownCompletes == ~running ~> ~context
=============================================================================
