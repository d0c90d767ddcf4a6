----------------------------- MODULE HyprPlugin -----------------------------
(***************************************************************************)
(* The hypr plugin: an event thread that connects to the compositor,       *)
(* queues what it says and connects again when it goes, a thread for each  *)
(* command, the update hook that dispatches events and settles commands,   *)
(* and shutdown, which closes the sockets under their threads and joins    *)
(* them.  All names carry the prefix Hypr.                                 *)
(***************************************************************************)
EXTENDS Integers, Sequences, FiniteSets, SequencesExt

CONSTANTS HyprMaxJobs,     \* commands the script sends
          HyprMaxPending,  \* most pending promises: 64 in the code
          HyprMaxQueue,    \* maxQueueSize: 2048 in the code
          HyprMaxLinks,    \* connections the event thread gets
          HyprMaxLines     \* lines the compositor says on one connection

ASSUME HyprBoundsAssumption ==
    /\ HyprMaxJobs \in Nat /\ HyprMaxPending \in Nat /\ HyprMaxLinks \in Nat
    /\ HyprMaxLines \in Nat /\ HyprMaxQueue \in Nat \ {0}

VARIABLES
    hyprJs,          \* where the script thread stands
    hyprCut,         \* hypr_shutdown's eventFd
    hyprBatch,       \* dispatch_events' local
    hyprCompleted,   \* hypr_update_callback's completed
    hyprSubscribed,  \* a callback is subscribed to "connection"
    hyprHeard,       \* what it was last told: "none", "connected", "disconnected"
    hyprRunning,     \* running
    hyprStopping,    \* stopping
    hyprNet,         \* where the event thread stands
    hyprFd,          \* eventFd: 0 for -1, else the number of the connection
    hyprLink,        \* the connection: [up, unread, said, shut]
    hyprLinks,       \* connections so far
    hyprEvents,      \* eventQueue
    hyprJob,         \* hyprJob[j]: where the thread of command j stands
    hyprActive,      \* activeSockets, by command
    hyprThreads,     \* ids in jobThreads
    hyprResults,     \* results: ids
    hyprPromises,    \* ids in promises
    hyprNextId       \* nextJobId

hyprVars == <<hyprJs, hyprCut, hyprBatch, hyprCompleted, hyprSubscribed, hyprHeard,
              hyprRunning, hyprStopping, hyprNet, hyprFd, hyprLink, hyprLinks, hyprEvents,
              hyprJob, hyprActive, hyprThreads, hyprResults, hyprPromises, hyprNextId>>

hyprScript == <<hyprJs, hyprCut, hyprBatch, hyprCompleted, hyprSubscribed, hyprHeard>>
hyprFlags  == <<hyprRunning, hyprStopping>>
hyprBus    == <<hyprNet, hyprFd, hyprLink, hyprLinks, hyprEvents>>
hyprJobs   == <<hyprJob, hyprActive, hyprThreads, hyprResults, hyprPromises, hyprNextId>>

HyprIds == 1..HyprMaxJobs

HyprEvent == {"connected", "disconnected", "line"}

HyprNoLink == [up |-> FALSE, unread |-> 0, said |-> 0, shut |-> FALSE]

HyprInit ==
    /\ hyprJs = "script"
    /\ hyprCut = 0
    /\ hyprBatch = <<>>
    /\ hyprCompleted = <<>>
    /\ hyprSubscribed = FALSE
    /\ hyprHeard = "none"
    /\ hyprRunning = FALSE /\ hyprStopping = FALSE
    /\ hyprNet = "none"
    /\ hyprFd = 0
    /\ hyprLink = HyprNoLink
    /\ hyprLinks = 0
    /\ hyprEvents = <<>>
    /\ hyprJob = [j \in HyprIds |-> "none"]
    /\ hyprActive = {}
    /\ hyprThreads = {}
    /\ hyprResults = <<>>
    /\ hyprPromises = {}
    /\ hyprNextId = 1

\* The script may call the plugin from a callback too.
HyprInScript == hyprJs \in {"script", "callback"}

\* Variant: a full queue drops the newest entry.
HyprPushOrDrop(event) ==
    IF Len(hyprEvents) >= HyprMaxQueue THEN hyprEvents ELSE Append(hyprEvents, event)

\* The event queue after a push: the oldest entry goes when it is full.
HyprPush(event) ==
    Append(IF Len(hyprEvents) >= HyprMaxQueue THEN Tail(hyprEvents) ELSE hyprEvents, event)

-----------------------------------------------------------------------------
(* The functions of the script                                             *)

\* A second connect() only changes the paths.
HyprConnect ==
    /\ HyprInScript /\ ~hyprStopping /\ ~hyprRunning
    /\ hyprRunning' = TRUE
    /\ hyprNet' = "test"
    /\ UNCHANGED <<hyprScript, hyprStopping, hyprFd, hyprLink, hyprLinks, hyprEvents, hyprJobs>>

HyprOn ==
    /\ HyprInScript /\ ~hyprStopping /\ ~hyprSubscribed
    /\ hyprSubscribed' = TRUE
    /\ UNCHANGED <<hyprJs, hyprCut, hyprBatch, hyprCompleted, hyprHeard, hyprFlags, hyprBus,
                   hyprJobs>>

HyprOff ==
    /\ HyprInScript /\ ~hyprStopping /\ hyprSubscribed
    /\ hyprSubscribed' = FALSE
    /\ hyprHeard' = "none"
    /\ UNCHANGED <<hyprJs, hyprCut, hyprBatch, hyprCompleted, hyprFlags, hyprBus, hyprJobs>>

\* send(), json() and what is built on them: a call beyond the limit throws and
\* changes nothing.
HyprSend ==
    /\ HyprInScript /\ ~hyprStopping
    /\ hyprNextId \in HyprIds
    /\ Cardinality(hyprPromises) < HyprMaxPending
    /\ hyprNextId' = hyprNextId + 1
    /\ hyprPromises' = hyprPromises \cup {hyprNextId}
    /\ hyprThreads' = hyprThreads \cup {hyprNextId}
    /\ hyprJob' = [hyprJob EXCEPT ![hyprNextId] = "dial"]
    /\ UNCHANGED <<hyprScript, hyprFlags, hyprBus, hyprActive, hyprResults>>

-----------------------------------------------------------------------------
(* The thread of a command                                                 *)

\* Variant: only a command that reached the compositor reports.
HyprJobDialsOrEnds(j) ==
    /\ hyprJob[j] = "dial"
    /\ \E pc \in {"register", "done"} : hyprJob' = [hyprJob EXCEPT ![j] = pc]
    /\ UNCHANGED <<hyprScript, hyprFlags, hyprBus, hyprActive, hyprThreads, hyprResults,
                   hyprPromises, hyprNextId>>

HyprJobDials(j) ==
    /\ hyprJob[j] = "dial"
    /\ \E pc \in {"register", "report"} : hyprJob' = [hyprJob EXCEPT ![j] = pc]
    /\ UNCHANGED <<hyprScript, hyprFlags, hyprBus, hyprActive, hyprThreads, hyprResults,
                   hyprPromises, hyprNextId>>

\* The socket is listed so that shutdown can cut it, unless shutdown has begun.
HyprJobRegisters(j) ==
    /\ hyprJob[j] = "register"
    /\ hyprActive' = IF hyprStopping THEN hyprActive ELSE hyprActive \cup {j}
    /\ hyprJob' = [hyprJob EXCEPT ![j] = "exchange"]
    /\ UNCHANGED <<hyprScript, hyprFlags, hyprBus, hyprThreads, hyprResults, hyprPromises,
                   hyprNextId>>

\* The exchange ends: done, failed, timed out, cut or not begun.  The socket is
\* struck off the list before it is closed.
HyprJobUnregisters(j) ==
    /\ hyprJob[j] = "exchange"
    /\ hyprActive' = hyprActive \ {j}
    /\ hyprJob' = [hyprJob EXCEPT ![j] = "report"]
    /\ UNCHANGED <<hyprScript, hyprFlags, hyprBus, hyprThreads, hyprResults, hyprPromises,
                   hyprNextId>>

\* Reads stopping; the result is pushed later, under its mutex.
HyprJobReports(j) ==
    /\ hyprJob[j] = "report"
    /\ hyprJob' = [hyprJob EXCEPT ![j] = IF hyprStopping THEN "done" ELSE "push"]
    /\ UNCHANGED <<hyprScript, hyprFlags, hyprBus, hyprActive, hyprThreads, hyprResults,
                   hyprPromises, hyprNextId>>

HyprJobPushes(j) ==
    /\ hyprJob[j] = "push"
    /\ hyprResults' = Append(hyprResults, j)
    /\ hyprJob' = [hyprJob EXCEPT ![j] = "done"]
    /\ UNCHANGED <<hyprScript, hyprFlags, hyprBus, hyprActive, hyprThreads, hyprPromises,
                   hyprNextId>>

-----------------------------------------------------------------------------
(* event_loop                                                              *)

HyprNetTests ==
    /\ hyprNet = "test"
    /\ hyprNet' = IF hyprRunning THEN "dial" ELSE "done"
    /\ UNCHANGED <<hyprScript, hyprFlags, hyprFd, hyprLink, hyprLinks, hyprEvents, hyprJobs>>

\* The back-off is a timed wait: it ends, notified or not.
HyprNetDialFails ==
    /\ hyprNet = "dial"
    /\ hyprNet' = "backoff"
    /\ UNCHANGED <<hyprScript, hyprFlags, hyprFd, hyprLink, hyprLinks, hyprEvents, hyprJobs>>

HyprNetWaits ==
    /\ hyprNet = "backoff"
    /\ hyprNet' = "test"
    /\ UNCHANGED <<hyprScript, hyprFlags, hyprFd, hyprLink, hyprLinks, hyprEvents, hyprJobs>>

HyprNetDials ==
    /\ hyprNet = "dial" /\ hyprLinks < HyprMaxLinks
    /\ hyprLinks' = hyprLinks + 1
    /\ hyprLink' = [HyprNoLink EXCEPT !.up = TRUE]
    /\ hyprNet' = "store"
    /\ UNCHANGED <<hyprScript, hyprFlags, hyprFd, hyprEvents, hyprJobs>>

HyprNetStores ==
    /\ hyprNet = "store"
    /\ hyprFd' = hyprLinks
    /\ hyprNet' = "announce"
    /\ UNCHANGED <<hyprScript, hyprFlags, hyprLink, hyprLinks, hyprEvents, hyprJobs>>

HyprNetAnnounces ==
    /\ hyprNet = "announce"
    /\ hyprEvents' = HyprPush("connected")
    /\ hyprNet' = "again"
    /\ UNCHANGED <<hyprScript, hyprFlags, hyprFd, hyprLink, hyprLinks, hyprJobs>>

\* Variant: the inner loop reads until the connection ends.
HyprNetGoesOn ==
    /\ hyprNet = "again"
    /\ hyprNet' = "read"
    /\ UNCHANGED <<hyprScript, hyprFlags, hyprFd, hyprLink, hyprLinks, hyprEvents, hyprJobs>>

HyprNetRetests ==
    /\ hyprNet = "again"
    /\ hyprNet' = IF hyprRunning THEN "read" ELSE "leave"
    /\ UNCHANGED <<hyprScript, hyprFlags, hyprFd, hyprLink, hyprLinks, hyprEvents, hyprJobs>>

HyprNetReads ==
    /\ hyprNet = "read" /\ hyprLink.unread > 0
    /\ hyprLink' = [hyprLink EXCEPT !.unread = @ - 1]
    /\ hyprEvents' = HyprPush("line")
    /\ hyprNet' = "again"
    /\ UNCHANGED <<hyprScript, hyprFlags, hyprFd, hyprLinks, hyprJobs>>

\* End of file, an error, a line too long, or the socket was shut down.
HyprNetReadEnds ==
    /\ hyprNet = "read"
    /\ hyprLink.unread > 0 \/ ~hyprLink.up \/ hyprLink.shut
    /\ hyprNet' = "leave"
    /\ UNCHANGED <<hyprScript, hyprFlags, hyprFd, hyprLink, hyprLinks, hyprEvents, hyprJobs>>

HyprNetLeaves ==
    /\ hyprNet = "leave"
    /\ hyprFd' = 0
    /\ hyprNet' = "close"
    /\ UNCHANGED <<hyprScript, hyprFlags, hyprLink, hyprLinks, hyprEvents, hyprJobs>>

\* Closes the socket and reads running.
HyprNetCloses ==
    /\ hyprNet = "close"
    /\ hyprLink' = HyprNoLink
    /\ hyprNet' = IF hyprRunning THEN "goodbye" ELSE "test"
    /\ UNCHANGED <<hyprScript, hyprFlags, hyprFd, hyprLinks, hyprEvents, hyprJobs>>

HyprNetSaysGoodbye ==
    /\ hyprNet = "goodbye"
    /\ hyprEvents' = HyprPush("disconnected")
    /\ hyprNet' = "test"
    /\ UNCHANGED <<hyprScript, hyprFlags, hyprFd, hyprLink, hyprLinks, hyprJobs>>

-----------------------------------------------------------------------------
(* The compositor                                                          *)

HyprServerSpeaks ==
    /\ hyprLink.up /\ hyprLink.said < HyprMaxLines
    /\ hyprLink' = [hyprLink EXCEPT !.unread = @ + 1, !.said = @ + 1]
    /\ UNCHANGED <<hyprScript, hyprFlags, hyprNet, hyprFd, hyprLinks, hyprEvents, hyprJobs>>

HyprServerLeaves ==
    /\ hyprLink.up
    /\ hyprLink' = [hyprLink EXCEPT !.up = FALSE]
    /\ UNCHANGED <<hyprScript, hyprFlags, hyprNet, hyprFd, hyprLinks, hyprEvents, hyprJobs>>

-----------------------------------------------------------------------------
(* hypr_update_callback                                                    *)

HyprUpdate ==
    /\ hyprJs = "script" /\ ~hyprStopping
    /\ hyprBatch' = hyprEvents
    /\ hyprEvents' = <<>>
    /\ hyprJs' = "dispatch"
    /\ UNCHANGED <<hyprCut, hyprCompleted, hyprSubscribed, hyprHeard, hyprFlags, hyprNet,
                   hyprFd, hyprLink, hyprLinks, hyprJobs>>

\* One event: a callback subscribed to it runs, and may call the plugin.
HyprDispatch ==
    /\ hyprJs = "dispatch" /\ hyprBatch # <<>>
    /\ hyprBatch' = Tail(hyprBatch)
    /\ hyprHeard' = IF hyprSubscribed /\ Head(hyprBatch) # "line" THEN Head(hyprBatch)
                                                                 ELSE hyprHeard
    /\ hyprJs' = "callback"
    /\ UNCHANGED <<hyprCut, hyprCompleted, hyprSubscribed, hyprFlags, hyprBus, hyprJobs>>

HyprCallbackReturns ==
    /\ hyprJs = "callback"
    /\ hyprJs' = "dispatch"
    /\ UNCHANGED <<hyprCut, hyprBatch, hyprCompleted, hyprSubscribed, hyprHeard, hyprFlags,
                   hyprBus, hyprJobs>>

HyprTakeResults ==
    /\ hyprJs = "dispatch" /\ hyprBatch = <<>>
    /\ hyprCompleted' = hyprResults
    /\ hyprResults' = <<>>
    /\ hyprJs' = "settle"
    /\ UNCHANGED <<hyprCut, hyprBatch, hyprSubscribed, hyprHeard, hyprFlags, hyprBus, hyprJob,
                   hyprActive, hyprThreads, hyprPromises, hyprNextId>>

\* Joins the thread of the command, which has nothing left to do, and settles.
HyprSettle ==
    /\ hyprJs = "settle" /\ hyprCompleted # <<>>
    /\ hyprCompleted' = Tail(hyprCompleted)
    /\ hyprThreads' = hyprThreads \ {Head(hyprCompleted)}
    /\ hyprPromises' = hyprPromises \ {Head(hyprCompleted)}
    /\ UNCHANGED <<hyprJs, hyprCut, hyprBatch, hyprSubscribed, hyprHeard, hyprFlags, hyprBus,
                   hyprJob, hyprActive, hyprResults, hyprNextId>>

HyprUpdateEnds ==
    /\ hyprJs = "settle" /\ hyprCompleted = <<>>
    /\ hyprJs' = "script"
    /\ UNCHANGED <<hyprCut, hyprBatch, hyprCompleted, hyprSubscribed, hyprHeard, hyprFlags,
                   hyprBus, hyprJobs>>

-----------------------------------------------------------------------------
(* hypr_shutdown                                                           *)

HyprShutdown ==
    /\ hyprJs = "script" /\ ~hyprStopping
    /\ hyprStopping' = TRUE
    /\ hyprRunning' = FALSE
    /\ hyprJs' = "load"
    /\ UNCHANGED <<hyprCut, hyprBatch, hyprCompleted, hyprSubscribed, hyprHeard, hyprBus,
                   hyprJobs>>

\* The other threads do not wait for the notification: wake is used with a timeout.
HyprShutdownLoads ==
    /\ hyprJs = "load"
    /\ hyprCut' = hyprFd
    /\ hyprJs' = "cut"
    /\ UNCHANGED <<hyprBatch, hyprCompleted, hyprSubscribed, hyprHeard, hyprFlags, hyprBus,
                   hyprJobs>>

\* Shuts down the event socket, if the number is still that of the connection, and
\* the sockets of the commands, whose exchanges end in any case.
HyprShutdownCuts ==
    /\ hyprJs = "cut"
    /\ hyprLink' = IF hyprCut # 0 /\ hyprCut = hyprLinks /\ hyprLink # HyprNoLink
                   THEN [hyprLink EXCEPT !.shut = TRUE] ELSE hyprLink
    /\ hyprJs' = "join"
    /\ UNCHANGED <<hyprCut, hyprBatch, hyprCompleted, hyprSubscribed, hyprHeard, hyprFlags,
                   hyprNet, hyprFd, hyprLinks, hyprEvents, hyprJobs>>

\* The joins, and all that is queued or pending is dropped.
HyprShutdownEnds ==
    /\ hyprJs = "join"
    /\ hyprNet \in {"none", "done"}
    /\ \A j \in hyprThreads : hyprJob[j] = "done"
    /\ hyprThreads' = {}
    /\ hyprEvents' = <<>>
    /\ hyprSubscribed' = FALSE
    /\ hyprPromises' = {}
    /\ hyprResults' = <<>>
    /\ hyprJs' = "over"
    /\ UNCHANGED <<hyprCut, hyprBatch, hyprCompleted, hyprHeard, hyprFlags, hyprNet, hyprFd,
                   hyprLink, hyprLinks, hyprJob, hyprActive, hyprNextId>>

-----------------------------------------------------------------------------

HyprJobSteps(j) ==
    \/ HyprJobDials(j)
    \/ HyprJobRegisters(j)
    \/ HyprJobUnregisters(j)
    \/ HyprJobReports(j)
    \/ HyprJobPushes(j)

HyprNetSteps ==
    \/ HyprNetTests
    \/ HyprNetDialFails
    \/ HyprNetWaits
    \/ HyprNetDials
    \/ HyprNetStores
    \/ HyprNetAnnounces
    \/ HyprNetRetests
    \/ HyprNetReads
    \/ HyprNetReadEnds
    \/ HyprNetLeaves
    \/ HyprNetCloses
    \/ HyprNetSaysGoodbye

\* What the script thread does by itself: the hooks, entered and gone through.
HyprHostSteps ==
    \/ HyprUpdate
    \/ HyprDispatch
    \/ HyprCallbackReturns
    \/ HyprTakeResults
    \/ HyprSettle
    \/ HyprUpdateEnds
    \/ HyprShutdownLoads
    \/ HyprShutdownCuts
    \/ HyprShutdownEnds

HyprScriptSteps ==
    \/ HyprConnect
    \/ HyprOn
    \/ HyprOff
    \/ HyprSend
    \/ HyprShutdown

HyprNext ==
    \/ HyprScriptSteps
    \/ HyprHostSteps
    \/ HyprNetSteps
    \/ \E j \in HyprIds : HyprJobSteps(j)
    \/ HyprServerSpeaks
    \/ HyprServerLeaves

HyprSpec == HyprInit /\ [][HyprNext]_hyprVars

\* Threads run: to connect and to exchange a command with the compositor has
\* timeouts.  The host calls the update hook again and again, and callbacks return.
HyprFairness ==
    /\ WF_hyprVars(HyprHostSteps)
    /\ WF_hyprVars(HyprNetSteps)
    /\ \A j \in HyprIds : WF_hyprVars(HyprJobSteps(j))

HyprFairSpec == HyprSpec /\ HyprFairness

-----------------------------------------------------------------------------

HyprTypeOK ==
    /\ hyprJs \in {"script", "dispatch", "callback", "settle", "load", "cut", "join", "over"}
    /\ hyprCut \in 0..HyprMaxLinks
    /\ hyprBatch \in Seq(HyprEvent) /\ hyprEvents \in Seq(HyprEvent)
    /\ Len(hyprEvents) <= HyprMaxQueue
    /\ hyprCompleted \in Seq(HyprIds) /\ hyprResults \in Seq(HyprIds)
    /\ hyprSubscribed \in BOOLEAN /\ hyprRunning \in BOOLEAN /\ hyprStopping \in BOOLEAN
    /\ hyprHeard \in {"none", "connected", "disconnected"}
    /\ hyprNet \in {"none", "test", "dial", "backoff", "store", "announce", "again", "read",
                    "leave", "close", "goodbye", "done"}
    /\ hyprFd \in 0..HyprMaxLinks /\ hyprLinks \in 0..HyprMaxLinks
    /\ hyprLink \in [up : BOOLEAN, unread : Nat, said : Nat, shut : BOOLEAN]
    /\ hyprJob \in [HyprIds -> {"none", "dial", "register", "exchange", "report", "push", "done"}]
    /\ hyprActive \in SUBSET HyprIds
    /\ hyprThreads \in SUBSET HyprIds
    /\ hyprPromises \in SUBSET HyprIds
    /\ hyprNextId \in 1..(HyprMaxJobs + 1)

\* Every pending promise of send() or json() will be settled by somebody: a thread that
\* has still to report, a result queued, or one in the hands of the update hook
\* (enqueue_job_promise, hypr_update_callback).
HyprNoPromiseForgotten ==
    ~hyprStopping =>
        \A j \in hyprPromises :
            \/ hyprJob[j] \in {"dial", "register", "exchange", "report", "push"}
            \/ \E i \in DOMAIN hyprResults : hyprResults[i] = j
            \/ \E i \in DOMAIN hyprCompleted : hyprCompleted[i] = j

\* A script whose callback was told "connected", with no "disconnected" on its way, is
\* connected: whatever the queue has dropped, the event thread still holds a connection
\* or is just giving it up (event_loop, dispatch_events).
HyprConnectionIsReal ==
    /\ hyprHeard = "connected"
    /\ \A i \in DOMAIN hyprBatch : hyprBatch[i] # "disconnected"
    /\ \A i \in DOMAIN hyprEvents : hyprEvents[i] # "disconnected"
    /\ ~hyprStopping
    => hyprNet \in {"again", "read", "leave", "close", "goodbye"}

\* hypr_shutdown joins its threads.
HyprJoining == hyprJs = "join"

=============================================================================
