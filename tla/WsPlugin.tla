------------------------------ MODULE WsPlugin ------------------------------
(***************************************************************************)
(* The ws plugin and the part of IXWebSocket it runs: create(), the        *)
(* methods of a socket, drain() (also the update hook) and shutdown on the *)
(* script thread, and for each started socket the library's thread, which  *)
(* connects, polls and calls the plugin back with events.                  *)
(*                                                                         *)
(* The callback takes ws_mutex, queues the event and releases it: one step *)
(* that needs the mutex free.  The script thread keeps ws_mutex over       *)
(* several steps only in close(), stop() and destroy(), and for ever when  *)
(* a failed send() calls back into the plugin.  All names carry the prefix *)
(* Ws so that Plugins can EXTEND this module next to the other plugins.    *)
(***************************************************************************)
EXTENDS Integers, Sequences, FiniteSets, SequencesExt

CONSTANTS WsMaxSockets,  \* sockets the script creates
          WsMaxDials,    \* connection attempts of all sockets
          WsMaxFrames,   \* messages the servers send
          WsMaxDepth     \* drain() calls within one another's callbacks

ASSUME WsBoundsAssumption ==
    WsMaxSockets \in Nat /\ WsMaxDials \in Nat /\ WsMaxFrames \in Nat /\ WsMaxDepth \in Nat

VARIABLES
    wsJs,         \* script thread: [pc, op, sock]; pc "script": script code runs
    wsDrains,     \* local_queues of the drain() calls under way, innermost last
    wsInstances,  \* ids in ws_instances
    wsQueue,      \* wsQueue[s]: messageQueue
    wsAuto,       \* wsAuto[s]: _automaticReconnection
    wsNet,        \* wsNet[s]: the library's thread [pc, first, event]
    wsReady,      \* wsReady[s]: _readyState
    wsStop,       \* wsStop[s]: _stop
    wsCancel,     \* wsCancel[s]: _requestInitCancellation
    wsPeer,       \* wsPeer[s]: the connection: "none", "up", "closing", "lost"
    wsFrames,     \* messages received so far
    wsDials,      \* connection attempts so far
    wsNextId,     \* nextId
    wsTold,       \* wsTold[s]: events queued for the script so far
    wsHeard       \* wsHeard[s]: numbers of the events the callbacks were called with

wsVars == <<wsJs, wsDrains, wsInstances, wsQueue, wsAuto, wsNet, wsReady, wsStop, wsCancel,
            wsPeer, wsFrames, wsDials, wsNextId, wsTold, wsHeard>>

wsApi    == <<wsDrains, wsInstances, wsQueue, wsAuto, wsNextId, wsTold, wsHeard>>
wsLink   == <<wsPeer, wsFrames, wsDials>>
wsState  == <<wsReady, wsStop, wsCancel>>

Sockets == 1..WsMaxSockets

WsAt(pc) == [pc |-> pc, op |-> "none", sock |-> 0]

WsThread(pc) == [pc |-> pc, first |-> FALSE, event |-> "none"]

WsInit ==
    /\ wsJs = WsAt("script")
    /\ wsDrains = <<>>
    /\ wsInstances = {}
    /\ wsQueue = [s \in Sockets |-> <<>>]
    /\ wsAuto = [s \in Sockets |-> FALSE]
    /\ wsNet = [s \in Sockets |-> WsThread("none")]
    /\ wsReady = [s \in Sockets |-> "closed"]
    /\ wsStop = [s \in Sockets |-> FALSE]
    /\ wsCancel = [s \in Sockets |-> FALSE]
    /\ wsPeer = [s \in Sockets |-> "none"]
    /\ wsFrames = 0
    /\ wsDials = 0
    /\ wsNextId = 1
    /\ wsTold = [s \in Sockets |-> 0]
    /\ wsHeard = [s \in Sockets |-> <<>>]

\* ws_mutex is held by the script thread from one step to the next; shutdown stops
\* the sockets without it.
WsMutexHeld == wsJs.pc \in {"close", "closed", "halt", "join", "relock"} /\ wsJs.op # "end"

WsInScript == wsJs.pc = "script"

WsInCallback == wsDrains # <<>>

-----------------------------------------------------------------------------
(* WebSocket::run, the library's thread of one socket                      *)

\* checkConnection: connect when there is no connection and one is wanted (beyond
\* WsMaxDials the pause before it lasts); then run ends, or polls.
WsCheck(s) ==
    /\ wsNet[s].pc = "check"
    /\ LET dial == /\ wsReady[s] = "closed" /\ ~wsStop[s]
                   /\ wsNet[s].first \/ wsAuto[s]
           ends == wsReady[s] = "closed" \/ (wsStop[s] /\ wsReady[s] # "closing")
       IN /\ dial => wsDials < WsMaxDials
          /\ wsDials' = IF dial THEN wsDials + 1 ELSE wsDials
          /\ wsNet' = [wsNet EXCEPT ![s] =
                          WsThread(CASE dial /\ ~wsCancel[s] -> "dial"
                                     [] dial /\ wsCancel[s]  -> "cancelled"
                                     [] ~dial /\ ends        -> "done"
                                     [] OTHER                -> "poll")]
    /\ UNCHANGED <<wsJs, wsApi, wsState, wsPeer, wsFrames>>

\* The thread is about to call the plugin back with an event.
WsTells(s, event) == wsNet' = [wsNet EXCEPT ![s].pc = "tell", ![s].event = event]

\* connectToUrl, with _socketMutex held.  A cancellation requested before makes it
\* fail, one requested meanwhile may come too late.
WsDialSucceeds(s) ==
    /\ wsNet[s].pc = "dial"
    /\ wsPeer' = [wsPeer EXCEPT ![s] = "up"]
    /\ wsReady' = [wsReady EXCEPT ![s] = "open"]
    /\ WsTells(s, "open")
    /\ UNCHANGED <<wsJs, wsApi, wsStop, wsCancel, wsFrames, wsDials>>

WsDialFails(s) ==
    /\ wsNet[s].pc \in {"dial", "cancelled"}
    /\ WsTells(s, "error")
    /\ UNCHANGED <<wsJs, wsApi, wsState, wsLink>>

\* A message that the server has sent before it left, if it has left.
WsReadMessage(s) ==
    /\ wsNet[s].pc = "poll" /\ wsPeer[s] # "none"
    /\ wsFrames < WsMaxFrames
    /\ wsFrames' = wsFrames + 1
    /\ WsTells(s, "message")
    /\ UNCHANGED <<wsJs, wsApi, wsState, wsPeer, wsDials>>

\* The server's CLOSE frame, not asked for, is answered before the state changes.
WsReadClose(s) ==
    /\ wsNet[s].pc = "poll"
    /\ wsPeer[s] = "closing"
    /\ wsPeer' = [wsPeer EXCEPT ![s] = "none"]
    /\ wsReady' = [wsReady EXCEPT ![s] = "closing"]
    /\ WsTells(s, "close")
    /\ UNCHANGED <<wsJs, wsApi, wsStop, wsCancel, wsFrames, wsDials>>

\* The connection breaks: what was received is dispatched first.
WsReadLost(s) ==
    /\ wsNet[s].pc = "poll"
    /\ wsPeer[s] = "lost"
    /\ wsPeer' = [wsPeer EXCEPT ![s] = "none"]
    /\ WsTells(s, "close")
    /\ UNCHANGED <<wsJs, wsApi, wsState, wsFrames, wsDials>>

\* The server answers our CLOSE frame, or has not done so after 300 ms: then the
\* cancellation that close() requested stays requested.
WsClosingEnds(s) ==
    /\ wsNet[s].pc = "poll" /\ wsReady[s] = "closing"
    /\ wsPeer' = [wsPeer EXCEPT ![s] = "none"]
    /\ \E event \in {"close", "closed late"} : WsTells(s, event)
    /\ UNCHANGED <<wsJs, wsApi, wsState, wsFrames, wsDials>>

\* While a cancellation is requested, poll() returns every 100 ms (when closing, to poll
\* again).
WsPollReturns(s) ==
    /\ wsNet[s].pc = "poll" /\ wsCancel[s] /\ wsReady[s] # "closing"
    /\ wsNet' = [wsNet EXCEPT ![s] = WsThread("check")]
    /\ UNCHANGED <<wsJs, wsApi, wsState, wsLink>>

\* The message callback: the event is queued if the instance is still there.  A
\* "close" becomes the state only afterwards; after a message there may be more
\* in the receive buffer.
WsTell(s) ==
    /\ wsNet[s].pc = "tell"
    /\ ~WsMutexHeld
    /\ LET event == wsNet[s].event
           next == event = "message" /\ wsFrames < WsMaxFrames
       IN /\ IF s \in wsInstances
             THEN /\ wsQueue' = [wsQueue EXCEPT ![s] = Append(@, [sock |-> s, n |-> wsTold[s] + 1])]
                  /\ wsTold' = [wsTold EXCEPT ![s] = @ + 1]
             ELSE UNCHANGED <<wsQueue, wsTold>>
          /\ wsReady' = IF event \in {"close", "closed late"} THEN [wsReady EXCEPT ![s] = "closed"]
                                                             ELSE wsReady
          /\ wsCancel' = [wsCancel EXCEPT ![s] = @ /\ event # "close"]
          /\ \E another \in {0} \cup (IF next THEN {1} ELSE {}) :
                /\ wsFrames' = wsFrames + another
                /\ wsNet' = IF another = 1 THEN wsNet
                                          ELSE [wsNet EXCEPT ![s] = WsThread("check")]
    /\ UNCHANGED <<wsJs, wsDrains, wsInstances, wsAuto, wsNextId, wsHeard, wsStop, wsPeer,
                   wsDials>>

-----------------------------------------------------------------------------
(* The server and the network                                              *)

WsServerLeaves(s) ==
    /\ wsPeer[s] = "up"
    /\ \E how \in {"closing", "lost"} : wsPeer' = [wsPeer EXCEPT ![s] = how]
    /\ UNCHANGED <<wsJs, wsApi, wsNet, wsState, wsFrames, wsDials>>

-----------------------------------------------------------------------------
(* The methods, on the script thread                                       *)

WsCreate ==
    /\ WsInScript /\ wsNextId <= WsMaxSockets
    /\ wsInstances' = wsInstances \cup {wsNextId}
    /\ wsNextId' = wsNextId + 1
    /\ UNCHANGED <<wsJs, wsDrains, wsQueue, wsAuto, wsTold, wsHeard, wsNet, wsState, wsLink>>

\* start() does nothing while the thread has not been joined.
WsStart(s) ==
    /\ WsInScript /\ s \in wsInstances
    /\ wsNet[s].pc = "none"
    /\ wsNet' = [wsNet EXCEPT ![s] = [WsThread("check") EXCEPT !.first = TRUE]]
    /\ UNCHANGED <<wsJs, wsApi, wsState, wsLink>>

WsSetAutoReconnect(s, enable) ==
    /\ WsInScript /\ s \in wsInstances
    /\ wsAuto[s] # enable
    /\ wsAuto' = [wsAuto EXCEPT ![s] = enable]
    /\ UNCHANGED <<wsJs, wsDrains, wsInstances, wsQueue, wsNextId, wsTold, wsHeard, wsNet,
                   wsState, wsLink>>

\* send() to a connection that is gone while the state is still open: the library
\* closes the socket and reports it from within the call, to a callback that
\* wants the mutex its own thread holds.
WsSendFails(s) ==
    /\ WsInScript /\ s \in wsInstances
    /\ wsReady[s] = "open" /\ wsPeer[s] \in {"lost", "none"}
    /\ wsJs' = [pc |-> "relock", op |-> "send", sock |-> s]
    /\ UNCHANGED <<wsApi, wsNet, wsState, wsLink>>

\* close(), stop() and destroy() take the mutex and close the connection first.
WsBegin(s, op) ==
    /\ WsInScript /\ s \in wsInstances
    /\ wsJs' = [pc |-> "close", op |-> op, sock |-> s]
    /\ UNCHANGED <<wsApi, wsNet, wsState, wsLink>>

\* What close(), stop() and destroy() go on to.
WsClosed == wsJs' = CASE wsJs.op = "close"   -> WsAt("script")
                      [] wsJs.op = "destroy" -> [wsJs EXCEPT !.pc = "close", !.op = "erase"]
                      [] OTHER               -> [wsJs EXCEPT !.pc = "halt"]

\* WebSocketTransport::close: an open connection is told.  destroy() closes, then
\* erases the instance, whose destructor stops the socket: it closes again.
WsClose ==
    /\ wsJs.pc = "close"
    /\ LET s == wsJs.sock
       IN /\ wsCancel' = [wsCancel EXCEPT ![s] = TRUE]
          /\ IF wsReady[s] = "open"
             THEN wsReady' = [wsReady EXCEPT ![s] = "closing"] /\ WsClosed
             ELSE wsJs' = [wsJs EXCEPT !.pc = "closed"] /\ UNCHANGED wsReady
    /\ UNCHANGED <<wsApi, wsNet, wsStop, wsLink>>

\* Otherwise _socketMutex is taken to wake the thread, which holds it to connect; a
\* connection that opens meanwhile is not closed.
WsCloseWakes ==
    /\ wsJs.pc = "closed"
    /\ wsNet[wsJs.sock].pc \notin {"dial", "cancelled"}
    /\ WsClosed
    /\ UNCHANGED <<wsApi, wsNet, wsState, wsLink>>

\* WebSocket::stop goes on to the join if there is a thread.
WsHalt ==
    /\ wsJs.pc = "halt"
    /\ LET s == wsJs.sock
       IN wsStop' = [wsStop EXCEPT ![s] = wsNet[s].pc # "none"]
    /\ wsJs' = [wsJs EXCEPT !.pc = "join"]
    /\ UNCHANGED <<wsApi, wsNet, wsReady, wsCancel, wsLink>>

WsJoin ==
    /\ wsJs.pc = "join"
    /\ LET s == wsJs.sock
       IN /\ wsNet[s].pc \in {"none", "done"}
          /\ wsNet' = [wsNet EXCEPT ![s] = WsThread("none")]
          /\ wsStop' = [wsStop EXCEPT ![s] = FALSE]
          /\ wsInstances' = IF wsJs.op = "erase" THEN wsInstances \ {s} ELSE wsInstances
          /\ wsQueue' = IF wsJs.op = "stop" THEN wsQueue ELSE [wsQueue EXCEPT ![s] = <<>>]
    /\ wsJs' = WsAt(IF wsJs.op = "end" THEN "ending" ELSE "script")
    /\ UNCHANGED <<wsDrains, wsAuto, wsNextId, wsTold, wsHeard, wsReady, wsCancel, wsLink>>

-----------------------------------------------------------------------------
(* ws_drain, called by the update hook and by the script                   *)

\* The events of all sockets, socket by socket in the order of the map.
WsBatch(order) == FlattenSeq([i \in 1..Len(order) |-> wsQueue[order[i]]])

\* Variant: the events are copied, not moved.
WsDrainCopies ==
    /\ WsInScript /\ Len(wsDrains) < WsMaxDepth
    /\ \E s \in wsInstances : wsQueue[s] # <<>>
    /\ \E order \in SetToSeqs(wsInstances) : wsDrains' = Append(wsDrains, WsBatch(order))
    /\ wsJs' = WsAt("drain")
    /\ UNCHANGED <<wsInstances, wsQueue, wsAuto, wsNextId, wsTold, wsHeard, wsNet, wsState, wsLink>>

\* The queues are moved out under the mutex.
WsDrain ==
    /\ WsInScript /\ Len(wsDrains) < WsMaxDepth
    /\ \E s \in wsInstances : wsQueue[s] # <<>>
    /\ \E order \in SetToSeqs(wsInstances) : wsDrains' = Append(wsDrains, WsBatch(order))
    /\ wsQueue' = [s \in Sockets |-> <<>>]
    /\ wsJs' = WsAt("drain")
    /\ UNCHANGED <<wsInstances, wsAuto, wsNextId, wsTold, wsHeard, wsNet, wsState, wsLink>>

\* One turn of the loop: the callback is looked up with the mutex held and called
\* without it; the events of a socket destroyed meanwhile are dropped.
WsDeliver ==
    /\ wsJs.pc = "drain" /\ Last(wsDrains) # <<>>
    /\ LET m == Head(Last(wsDrains))
       IN IF m.sock \in wsInstances
          THEN /\ wsHeard' = [wsHeard EXCEPT ![m.sock] = Append(@, m.n)]
               /\ wsJs' = WsAt("script")
          ELSE UNCHANGED <<wsHeard, wsJs>>
    /\ wsDrains' = [wsDrains EXCEPT ![Len(wsDrains)] = Tail(@)]
    /\ UNCHANGED <<wsInstances, wsQueue, wsAuto, wsNextId, wsTold, wsNet, wsState, wsLink>>

WsCallbackReturns ==
    /\ WsInScript /\ WsInCallback
    /\ wsJs' = WsAt("drain")
    /\ UNCHANGED <<wsApi, wsNet, wsState, wsLink>>

WsDrainEnds ==
    /\ wsJs.pc = "drain" /\ Last(wsDrains) = <<>>
    /\ wsDrains' = Front(wsDrains)
    /\ wsJs' = WsAt("script")
    /\ UNCHANGED <<wsInstances, wsQueue, wsAuto, wsNextId, wsTold, wsHeard, wsNet, wsState,
                   wsLink>>

-----------------------------------------------------------------------------
(* scriptShutdown                                                          *)

\* The instances are swapped out under the mutex and stopped without it.
WsShutdown ==
    /\ WsInScript /\ ~WsInCallback
    /\ wsJs' = WsAt("ending")
    /\ wsInstances' = {}
    /\ UNCHANGED <<wsDrains, wsQueue, wsAuto, wsNextId, wsTold, wsHeard, wsNet, wsState, wsLink>>

WsShutdownStops(s) ==
    /\ wsJs.pc = "ending" /\ wsNet[s].pc # "none"
    /\ wsJs' = [pc |-> "close", op |-> "end", sock |-> s]
    /\ UNCHANGED <<wsApi, wsNet, wsState, wsLink>>

WsShutdownEnds ==
    /\ wsJs.pc = "ending" /\ \A s \in Sockets : wsNet[s].pc = "none"
    /\ wsJs' = WsAt("over")
    /\ wsQueue' = [s \in Sockets |-> <<>>]
    /\ UNCHANGED <<wsDrains, wsInstances, wsAuto, wsNextId, wsTold, wsHeard, wsNet, wsState,
                   wsLink>>

-----------------------------------------------------------------------------

WsThreadSteps(s) ==
    \/ WsCheck(s)
    \/ WsDialSucceeds(s)
    \/ WsDialFails(s)
    \/ WsReadClose(s)
    \/ WsReadLost(s)
    \/ WsClosingEnds(s)
    \/ WsPollReturns(s)
    \/ WsTell(s)

\* What the script thread does by itself once it is inside the plugin.
WsHostSteps ==
    \/ WsClose
    \/ WsCloseWakes
    \/ WsHalt
    \/ WsJoin
    \/ WsDeliver
    \/ WsDrainEnds
    \/ \E s \in Sockets : WsShutdownStops(s)
    \/ WsShutdownEnds

WsScriptSteps ==
    \/ WsCreate
    \/ WsDrain
    \/ WsCallbackReturns
    \/ WsShutdown
    \/ \E s \in Sockets :
          \/ WsStart(s)
          \/ \E enable \in BOOLEAN : WsSetAutoReconnect(s, enable)
          \/ WsSendFails(s)
          \/ \E op \in {"close", "stop", "destroy"} : WsBegin(s, op)

WsNext ==
    \/ WsScriptSteps
    \/ WsHostSteps
    \/ \E s \in Sockets : WsThreadSteps(s) \/ WsReadMessage(s) \/ WsServerLeaves(s)

WsSpec == WsInit /\ [][WsNext]_wsVars

\* Threads run, an attempt to connect ends within its timeout, and the script thread
\* goes on inside a function it has entered.
WsFairness ==
    /\ WF_wsVars(WsHostSteps)
    /\ \A s \in Sockets : WF_wsVars(WsThreadSteps(s))

WsFairSpec == WsSpec /\ WsFairness

-----------------------------------------------------------------------------

WsTypeOK ==
    /\ wsJs \in [pc : {"script", "close", "closed", "halt", "join", "relock", "drain", "ending", "over"},
                 op : {"none", "close", "stop", "destroy", "erase", "send", "end"},
                 sock : 0..WsMaxSockets]
    /\ wsInstances \in SUBSET Sockets
    /\ wsAuto \in [Sockets -> BOOLEAN] /\ wsStop \in [Sockets -> BOOLEAN]
    /\ wsReady \in [Sockets -> {"closed", "open", "closing"}]
    /\ wsPeer \in [Sockets -> {"none", "up", "closing", "lost"}]
    /\ wsFrames \in 0..WsMaxFrames
    /\ wsNextId \in 1..(WsMaxSockets + 1)
    /\ Len(wsDrains) <= WsMaxDepth

\* The numbers of the events of s in a sequence of them.
WsNumbers(events, s) ==
    FlattenSeq([i \in 1..Len(events) |-> IF events[i].sock = s THEN <<events[i].n>> ELSE <<>>])

\* Every event the library reported of a socket that lives is in one place: heard by
\* the script, in the hands of a drain(), or queued; whatever callbacks create, destroy
\* or drain meanwhile, none is lost or heard twice (ws_drain, the message callback).
WsEventsAccounted ==
    \A s \in wsInstances :
        LET places == wsHeard[s] \o WsNumbers(FlattenSeq(wsDrains), s)
                                \o WsNumbers(wsQueue[s], s)
        IN Len(places) = wsTold[s] /\ Range(places) = 1..wsTold[s]

\* The comment of ws_drain: callbacks run outside the lock "so callbacks may destroy
\* their own socket".  A destroy() begun in a callback returns.
WsCallbackMayDestroy ==
    (wsJs.op = "destroy" /\ WsInCallback) ~> (wsJs.pc = "script")

\* Shutdown stops the sockets, none of which reconnects by itself.
WsJoining == wsJs.pc = "ending" /\ \A s \in Sockets : ~wsAuto[s]

=============================================================================
