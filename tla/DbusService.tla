---------------------------- MODULE DbusService ----------------------------
(***************************************************************************)
(* The service side of one bus handle: objects exported by the script,     *)
(* method calls the pump queues for them, the update hook that hands each  *)
(* to its handler, and the answers given by reply(), error(),              *)
(* unexportObject() or the hook itself.                                    *)
(*                                                                         *)
(* The script runs on one thread but on three levels: between hooks, in a  *)
(* handler called by the hook, and in the conversion of the arguments of   *)
(* reply() (which calls toString and getters).  "stack" holds what is      *)
(* under way below the script code that runs.                              *)
(***************************************************************************)
EXTENDS Naturals, SequencesExt

CONSTANTS Keys,       \* pairs of an object path and an interface
          MaxCalls,   \* bound on the method calls of peers
          MaxDials,   \* bound on the connections made
          MaxDepth    \* bound on the stack

ASSUME ServiceBoundsAssumption == MaxCalls \in Nat /\ MaxDials \in Nat /\ MaxDepth \in Nat

VARIABLES
    stack,        \* frames: [in |-> "update", "handler" or "reply", call (0 in "update")]
    incoming,     \* service_update's local queue
    exports,      \* keys of the exports map
    methods,      \* methods queue
    invocations,  \* calls in the invocations map
    connection,   \* number of the connection in use, 0 for nullptr
    connected,    \* it is up
    dialling,     \* the connect thread runs
    shuttingDown, \* shuttingDown
    dials,        \* connections made so far
    calls,        \* method calls the bus has delivered: [key, on (its connection), noReply]
    answers,      \* answers[c]: what was sent for call c: [what, on]
    finished,     \* calls whose handling is over: answered, or dropped with their connection
    held,         \* calls in the update hook's hands when the script reconnected
    undone        \* calls completed, or dropped, while a reply() to them was converted

service == <<exports, methods, invocations>>
bus == <<connection, connected, dialling, shuttingDown, dials, calls>>
record == <<answers, finished, held, undone>>
vars == <<stack, incoming, service, bus, record>>

Calls == 1..MaxCalls
Made == 1..Len(calls)

Init ==
    /\ stack = <<>> /\ incoming = <<>>
    /\ exports = {} /\ methods = <<>> /\ invocations = {}
    /\ connection = 0 /\ connected = FALSE /\ dialling = FALSE
    /\ shuttingDown = FALSE
    /\ dials = 0
    /\ calls = <<>>
    /\ answers = [c \in Calls |-> <<>>]
    /\ finished = {} /\ held = {} /\ undone = {}

In(place) == stack # <<>> /\ Last(stack).in = place

\* The script runs, unless the hook is between two calls or the handle is shut down.
ScriptRuns == ~In("update") /\ ~shuttingDown

\* send_service_reply: nothing is sent without a connection, or to who wants no reply.
Sent(c, what) ==
    IF calls[c].noReply \/ connection = 0 THEN answers[c]
    ELSE Append(answers[c], [what |-> what, on |-> connection])

\* Calls with a reply() under conversion in frames.
Converting(frames) ==
    {frames[i].call : i \in {j \in 1..Len(frames) : frames[j].in = "reply"}}

\* The invocations of gone leave the map.
Forget(gone) ==
    /\ invocations' = invocations \ gone
    /\ finished' = finished \cup gone
    /\ undone' = undone \cup (gone \cap Converting(stack))

-----------------------------------------------------------------------------
(* The connection: connect() and the bus                                   *)

\* Variant: calls of the connection that is gone stay open.
ConnectKeepsCalls ==
    /\ ScriptRuns
    /\ ~connected /\ ~dialling /\ dials < MaxDials
    /\ IF connection # 0
       THEN /\ methods' = <<>>
            /\ UNCHANGED <<invocations, finished, undone>>
            /\ held' = held \cup Range(incoming)
       ELSE UNCHANGED <<invocations, finished, undone, methods, held>>
    /\ connection' = 0
    /\ dialling' = TRUE
    /\ UNCHANGED <<stack, incoming, exports, connected, shuttingDown, dials, calls, answers>>

\* js_connect with a connection that is gone: the threads are joined, the connection and
\* every call it brought are dropped.  With none, a connect thread is started.
Connect ==
    /\ ScriptRuns
    /\ ~connected /\ ~dialling /\ dials < MaxDials
    /\ IF connection # 0
       THEN /\ Forget(invocations)
            /\ methods' = <<>>
            /\ held' = held \cup Range(incoming)
       ELSE UNCHANGED <<invocations, finished, undone, methods, held>>
    /\ connection' = 0
    /\ dialling' = TRUE
    /\ UNCHANGED <<stack, incoming, exports, connected, shuttingDown, dials, calls, answers>>

\* The connect thread publishes the connection it has made.
Publish ==
    /\ dialling
    /\ dialling' = FALSE
    /\ dials' = dials + 1
    /\ connection' = dials + 1
    /\ connected' = TRUE
    /\ UNCHANGED <<stack, incoming, service, shuttingDown, calls, record>>

DialFails ==
    /\ dialling
    /\ dialling' = FALSE
    /\ UNCHANGED <<stack, incoming, service, connection, connected, shuttingDown, dials, calls,
                   record>>

BusDrops ==
    /\ connected
    /\ connected' = FALSE
    /\ UNCHANGED <<stack, incoming, service, connection, dialling, shuttingDown, dials, calls,
                   record>>

\* pump_loop queues a method call it received, before the connection was lost if it was.
PumpQueues(k, noReply) ==
    /\ connection # 0
    /\ Len(calls) < MaxCalls
    /\ calls' = Append(calls, [key |-> k, on |-> connection, noReply |-> noReply])
    /\ methods' = Append(methods, Len(calls) + 1)
    /\ UNCHANGED <<stack, incoming, exports, invocations, connection, connected, dialling,
                   shuttingDown, dials, record>>

-----------------------------------------------------------------------------
(* exportObject, unexportObject                                            *)

ExportObject(k) ==
    /\ ScriptRuns /\ connection # 0
    /\ k \notin exports
    /\ exports' = exports \cup {k}
    /\ UNCHANGED <<stack, incoming, methods, invocations, bus, record>>

CallsTo(k) == {c \in invocations : calls[c].key = k}

\* Variant: the open calls of the interface get no answer.
UnexportDropsCalls(k) ==
    /\ ScriptRuns
    /\ k \in exports
    /\ exports' = exports \ {k}
    /\ Forget(CallsTo(k))
    /\ UNCHANGED <<stack, incoming, methods, bus, answers, held>>

\* Variant: the open calls of the interface stay open.
UnexportLeavesCalls(k) ==
    /\ ScriptRuns
    /\ k \in exports
    /\ exports' = exports \ {k}
    /\ UNCHANGED <<stack, incoming, methods, invocations, bus, record>>

\* The open calls of the interface are answered with an error.
UnexportObject(k) ==
    /\ ScriptRuns
    /\ k \in exports
    /\ exports' = exports \ {k}
    /\ answers' = [c \in Calls |-> IF c \in CallsTo(k) THEN Sent(c, "unknownObject")
                                                       ELSE answers[c]]
    /\ Forget(CallsTo(k))
    /\ UNCHANGED <<stack, incoming, methods, bus, held>>

-----------------------------------------------------------------------------
(* invocation_finish                                                       *)

\* error() takes strings only: no script code runs before the answer is sent.
Error(c) ==
    /\ ScriptRuns
    /\ c \in invocations
    /\ answers' = [answers EXCEPT ![c] = Sent(c, "error")]
    /\ Forget({c})
    /\ UNCHANGED <<stack, incoming, exports, methods, bus, held>>

\* reply() looks its call up and converts the arguments.
ReplyBegin(c) ==
    /\ ScriptRuns
    /\ c \in invocations
    /\ Len(stack) < MaxDepth
    /\ stack' = Append(stack, [in |-> "reply", call |-> c])
    /\ UNCHANGED <<incoming, service, bus, record>>

\* The arguments do not match the signature: the call stays open.
ReplyThrows ==
    /\ In("reply")
    /\ stack' = Front(stack)
    /\ UNCHANGED <<incoming, service, bus, record>>

\* The answer is sent and the entry found before the conversion is erased.  If it is gone,
\* the request has been freed: what it says of a reply, and the entry, are undefined.
ReplyEnds ==
    /\ In("reply")
    /\ LET c == Last(stack).call
       IN IF c \in invocations
          THEN /\ answers' = [answers EXCEPT ![c] = Sent(c, "reply")]
               /\ invocations' = invocations \ {c}
               /\ finished' = finished \cup {c}
               /\ undone' = undone \cup ({c} \cap Converting(Front(stack)))
          ELSE /\ \/ UNCHANGED answers
                  \/ answers' = [answers EXCEPT ![c] = Sent(c, "reply")]
               /\ UNCHANGED <<invocations, finished, undone>>
    /\ stack' = Front(stack)
    /\ UNCHANGED <<incoming, exports, methods, bus, held>>

-----------------------------------------------------------------------------
(* service_update                                                          *)

UpdateBegin ==
    /\ stack = <<>> /\ ~shuttingDown
    /\ methods # <<>>
    /\ incoming' = methods
    /\ methods' = <<>>
    /\ stack' = <<[in |-> "update", call |-> 0]>>
    /\ UNCHANGED <<exports, invocations, bus, record>>

\* No handler: the caller is told so.
UpdateRefuses ==
    /\ In("update") /\ incoming # <<>>
    /\ LET c == Head(incoming)
       IN /\ calls[c].key \notin exports
          /\ answers' = [answers EXCEPT ![c] = Sent(c, "unknown")]
          /\ finished' = finished \cup {c}
    /\ incoming' = Tail(incoming)
    /\ UNCHANGED <<stack, service, bus, held, undone>>

\* The call gets an invocation and its handler is called.
UpdateCalls ==
    /\ In("update") /\ incoming # <<>>
    /\ LET c == Head(incoming)
       IN /\ calls[c].key \in exports
          /\ invocations' = invocations \cup {c}
          /\ stack' = Append(stack, [in |-> "handler", call |-> c])
    /\ incoming' = Tail(incoming)
    /\ UNCHANGED <<exports, methods, bus, record>>

\* A call not answered yet stays open.
HandlerReturns ==
    /\ In("handler")
    /\ stack' = Front(stack)
    /\ UNCHANGED <<incoming, service, bus, record>>

\* Variant: the exception is sent without a look at the map.
HandlerThrowsAlways ==
    /\ In("handler")
    /\ LET c == Last(stack).call
       IN /\ answers' = [answers EXCEPT ![c] = Sent(c, "failed")]
          /\ Forget({c})
    /\ stack' = Front(stack)
    /\ UNCHANGED <<incoming, exports, methods, bus, held>>

\* A call the handler has not completed is answered with the exception.
HandlerThrows ==
    /\ In("handler")
    /\ LET c == Last(stack).call
       IN IF c \in invocations
          THEN /\ answers' = [answers EXCEPT ![c] = Sent(c, "failed")]
               /\ Forget({c})
          ELSE UNCHANGED <<answers, invocations, finished, undone>>
    /\ stack' = Front(stack)
    /\ UNCHANGED <<incoming, exports, methods, bus, held>>

UpdateEnd ==
    /\ In("update") /\ incoming = <<>>
    /\ stack' = <<>>
    /\ UNCHANGED <<incoming, service, bus, record>>

-----------------------------------------------------------------------------

\* dbus_shutdown joins the threads, closes the connection and drops exports and calls.
Shutdown ==
    /\ stack = <<>>
    /\ shuttingDown' = TRUE
    /\ connection' = 0 /\ connected' = FALSE /\ dialling' = FALSE
    /\ exports' = {}
    /\ methods' = <<>>
    /\ Forget(invocations)
    /\ UNCHANGED <<stack, incoming, dials, calls, answers, held>>

BusSteps ==
    \/ Publish
    \/ DialFails
    \/ BusDrops
    \/ \E k \in Keys, noReply \in BOOLEAN : PumpQueues(k, noReply)

ScriptSteps ==
    \/ Connect
    \/ \E k \in Keys : ExportObject(k) \/ UnexportObject(k)
    \/ \E c \in Calls : Error(c) \/ ReplyBegin(c)

HookSteps ==
    \/ ReplyThrows
    \/ ReplyEnds
    \/ UpdateBegin
    \/ UpdateRefuses
    \/ UpdateCalls
    \/ HandlerReturns
    \/ HandlerThrows
    \/ UpdateEnd

Next == BusSteps \/ ScriptSteps \/ HookSteps \/ Shutdown

Spec == Init /\ [][Next]_vars

-----------------------------------------------------------------------------
(* Properties                                                              *)

\* The values every variable may take, and what shutdown leaves.
TypeOK ==
    /\ stack \in Seq([in : {"update", "handler", "reply"}, call : Calls \cup {0}])
    /\ incoming \in Seq(Calls) /\ methods \in Seq(Calls)
    /\ exports \subseteq Keys
    /\ invocations \subseteq Calls
    /\ connection \in 0..MaxDials /\ dials \in 0..MaxDials
    /\ connected \in BOOLEAN /\ dialling \in BOOLEAN /\ shuttingDown \in BOOLEAN
    /\ connected => connection # 0 /\ ~dialling
    /\ shuttingDown => connection = 0 /\ exports = {} /\ invocations = {}
    /\ calls \in Seq([key : Keys, on : 1..MaxDials, noReply : BOOLEAN])
    /\ Len(calls) <= MaxCalls
    /\ finished \subseteq Calls /\ held \subseteq Calls /\ undone \subseteq Calls
    /\ answers \in [Calls -> Seq([what : {"reply", "error", "failed", "unknown", "unknownObject"},
                                  on : 1..MaxDials])]

\* No call is answered twice, by whatever combination of reply(), error(), an exception,
\* unexportObject() and reconnect, unless it was completed from within the conversion of
\* its own reply.
AnsweredOnce == \A c \in Made \ undone : Len(answers[c]) <= 1

\* A call without an answer is still in one queue, or in the map, unless its caller wants
\* none or its connection is gone: none is forgotten, and none waits in two places.
NoCallForgotten ==
    /\ \A c \in Made :
          /\ ~calls[c].noReply /\ calls[c].on = connection
          /\ answers[c] = <<>>
          => c \in Range(methods) \cup Range(incoming) \cup invocations
    /\ IsInjective(incoming \o methods)
    /\ Range(incoming \o methods) \cap (invocations \cup finished) = {}
    /\ invocations \cap finished = {}

\* An answer goes out on the connection its call came in on, unless the script
\* reconnected while the update hook held the call.
AnswersOnOwnConnection ==
    \A c \in Made \ (held \cup undone) : \A i \in 1..Len(answers[c]) :
        answers[c][i].on = calls[c].on

\* Every open call belongs to an exported interface: unexportObject leaves none open, from
\* wherever it is called.
OpenCallsAreExported == \A c \in invocations : calls[c].key \in exports
=============================================================================
