# Verification of koya-plugins

koya-plugins is a set of native plugins for a JavaScript engine (QuickJS inside
a host called Helix). Each plugin exports functions to scripts, does its
blocking work on threads of its own, and settles promises or calls back on the
script thread. This directory holds TLA+ models of that machinery, what TLC
checks about them on small instances, and what TLAPS proves about them for
every instance.

The vendored code (cpp-httplib, IXWebSocket, the QuickJS header) is not the
subject; about 6000 lines are the repository's own.

## 1. The system

### The host (plugin sdk)

`sdk/helix/plugin.h`, `sdk/plugin_support.hpp`. The host loads a plugin with
`helix_plugin_integrate`, and then calls, on the script thread, `scriptUpdate`
on every frame and `scriptShutdown` once or more (docs/plugin-abi.md: "Shutdown
callbacks and explicit plugin shutdown functions must be idempotent"); on the
engine's thread `renderBegin`, `engineRender`, `engineShutdown`; and `destroy`
when all callbacks have drained. A plugin may hand work to the script thread
(`helix.script`), revoked when shutdown starts. The wrappers keep no state. The
host is in the models as the threads it gives a plugin and the order of its
calls; the rules it lays down ("Stop and join workers during shutdown", README
of the repository, line 113) are the properties every plugin is held to.

### Components

| component | state | operations | with whom | what is hard | what makes it correct |
|---|---|---|---|---|---|
| dbus client (`dbus/src/module.cpp`) | one `DbusState` per bus handle: connection, connect thread, pump thread, promises, serialToPromiseId, replies queue, connect waiters, match rules, flags | connect, call, callComplex, addMatch, onSignal, offSignal, update, shutdown | script thread, connect thread and pump thread share it; the bus and its peers on the other end | connect and reconnect race with both threads; serials restart on a new connection; answers race with timeouts; two joins on the script thread | a promise is settled once, with its own answer; nobody waits for a thread that has finished; rules survive a reconnect; joins end |
| dbus service (`dbus/src/service.hpp`) | exports, methods queue, invocations | exportObject, unexportObject, incoming call, reply, error, emitSignal, emitSignalTo | fed by the pump; handlers are script code that calls back in | handlers and argument conversions re-enter the module while it iterates; reconnect inside a handler | every incoming call is answered exactly once, on its own connection |
| dbus marshalling (`dbus/src/marshal.hpp`) | none | script values to and from wire types | both of the above | nested containers, ranges of integers | what is read back is what was written |
| pam (`pam/src/module.cpp`) | requests and results queues, promises, worker | authenticate, worker loop, update, shutdown | script thread and one worker | condition variable against shutdown; limit of 16 | a queue served in order, none lost or answered twice; shutdown ends |
| sqlite (`sqlite/src/module.cpp`) | databases, jobs and completions queues, worker started on demand | open, close, exec, query, update, shutdown | script thread and one worker | close while a statement runs on the worker; the same condition variable | a database is used only while open; jobs in order; shutdown ends |
| process (`process/src/module.cpp`) | child processes, pipes, listeners, exec promises | spawn, exec, write, kill, on, off, update, shutdown | operating system | output between the last read and the exit; listeners changed while walked; kill deadline | all output is delivered before exit; each promise settled once; no signal to a reaped pid |
| http (`http/src`) | request queue with a semaphore, pending requests, active flag | request, worker, completion, cleanup | script thread, worker, the host's scheduling | completion against cleanup; plain flag against semaphore | each request settled or released once; no wake-up lost |
| hypr (`hypr/src/module.cpp`) | event socket and thread, bounded event queue, a job per command | command, on, off, event loop, update, shutdown | compositor's sockets | closing a socket under a reader; back-off; overflow of the queue | shutdown ends; the last state seen is the last sent |
| ws (`ws/src/module.cpp`) | sockets and message queue under one mutex | create, send, stop, destroy, update | a thread of the library per socket | joins with the mutex held | no deadlock; no message to a destroyed socket |
| ffmpeg (`ffmpeg/src/module.cpp`) | streams with a decode thread and a latest frame | open, stop, decode, render, cleanup | script, decode and render threads | stopping a stream that is being drawn | a frame is used only while it lives |

`PROJECT.json` lists them with their status, and under "hazards" the places in
the code where each of these difficulties bites.

## 2. Plan

In order, the most important behaviour first. All of it is done.

1. **DbusClient**, implementing **PromiseTable**: safety, liveness,
   refinement; theorems in DbusClient_proofs.
2. **PamWorker**, implementing **WorkQueue**: the pattern of one worker
   with a condition variable, and what shutdown does to it; proved, refinement
   included, in PamWorker_proofs.
3. **DbusService**: incoming calls, handlers that re-enter, reconnect inside a
   handler; proved in DbusService_proofs.
4. **Process**: polling of pipes and exits, listeners, shutdown; one
   passing run, one for the output that is lost, one for the write that blocks;
   proved in Process_proofs.
5. **HttpRequests**, implementing **WorkQueue** too: the worker and its semaphore,
   settlement through the host; safety and refinement proved in
   HttpRequests_proofs.
6. **SqlPlugin** (whose queue implements **WorkQueue** as well), **HyprPlugin** and
   **WsPlugin**: a worker on demand, threads with sockets that shutdown closes under
   them, and a library's threads with one mutex; proved in Plugins_proofs, the last
   in WsPlugin_proofs.
7. **VideoPlugin**: streams between three threads; proved in Plugins_proofs.
8. **DbusSignals**, the way of a signal to the listeners; proved in Plugins_proofs.
   **DbusMarshal**, encoding and decoding one level of a tree at a time, compared with a
   reference definition; **DbusTrees**, which ties the levels into recursive operators
   for TLC; and **DbusBodies**, which puts signals and arguments together and is proved
   in Plugins_proofs.
9. **Plugins**: the host with any one of the modules of 6 to 8; it refines each of
   them, which is proved in Plugins_proofs and carries their theorems over.

**SequenceLemmas** has what several of the proofs need of sequences. Every safety property
of a passing run is a theorem now.

## 3. The modules

### PromiseTable

What every asynchronous function of the dbus plugin promises: an id is handed
out once, settled at most once and never changed afterwards, and an answer is the
answer to that very call. Abstract; no line of code stands behind it.

### DbusClient (dbus/src/module.cpp)

One bus handle. Three threads:

- the *script thread*, `js`: `js.pc` is where it stands inside an exported
  function, the update hook or shutdown, "idle" between them;
- the *connect thread*, `worker` (the lambda started by js_connect): dials, checks
  shuttingDown, installs the match rules, publishes the connection, claims and
  starts the pump, takes the waiters and delivers to them;
- the *pump thread*, `pump` (pump_loop): reads the connection, matches replies to
  ids, queues them, and ends when the bus is gone.

A step is what one thread does between two points where another can see it: one
critical section, or one access to an atomic. The conversion of an argument is one of
those points too: js_to_string runs the script's toString, which may call the handle
again, so call() and addMatch() test the connection in one step (CallBegin,
AddMatchBegin), and what they do with it comes after any number of steps of the script
and the threads (CallSends, AddMatchSends, AddMatchRemembers), or they throw (CallThrows);
`stack` holds the calls whose arguments are being converted, to a depth of MaxDepth. They
may find the connection gone or another in its place. On a NULL connection libdbus reports
a failed check and does nothing (as it is built by default it then ends the program): the
model takes the first, as it has more behaviours. The walk of the connect thread over
matchRules is two steps (WalkBegin, WalkEnds); a push_back in between is a data race, and the
walk then installs any of the rules. `astray` holds the rules that may be missing on a
connection for one of these two reasons. Variables carry the names of the
fields of DbusState; `batch` and `timedOut` are the update hook's locals,
`worker.took` is the connect thread's. `dials` to `answered` are the bus and its
peers behind libdbus: which bus the connection reaches, whether it is up, the
serial it counts from 1, the calls the peer has received, the replies that
arrived, the rules the daemon holds. `outcome` and `granted` record what a script
was told. The clock is not modelled: an update may find any set of pending
promises past their timeout.

Abstracted: the contents of messages (a reply carries the id of the call it
answers, so that a wrong match is seen), what conversions make of the arguments, the name of the
error a promise is rejected with beyond its kind. Signals are in DbusSignals.

### WorkQueue and PamWorker (pam/src/module.cpp)

WorkQueue is the abstract promise: requests are served one at a time in order,
each answer delivered once and in order, at most Limit outstanding, closing drops
the rest. Batches says how many answers may be delivered at once: one in pam and http,
any number in sqlite, whose update hook empties its results in one go. Three plugins
are shown to implement it, each with variables of its own. PamWorker is the plugin: the script thread in `js`, the worker in
`worker.pc`. The condition variable is in the model as it works: the predicate is
tested with requestMutex held ("test"), the mutex is kept until the worker blocks
("parking", then "asleep") or has taken a request ("chosen"), and a notification
reaches it only when it is asleep. `passed` records the stages of the PAM
conversation (pam_start, pam_authenticate, pam_acct_mgmt) a request got
through; PAM may pass or fail any of them. The prompts conv_func answers, and the
erasing of passwords, are left out.

### DbusService (dbus/src/service.hpp)

The other direction of a bus handle: the objects a script exports, and the calls
peers make on them. The connection is that of DbusClient with its threads left
out: Connect, Publish, DialFails and BusDrops keep of it what the service sees.
There is one thread here, and the difficulty is that it runs script code in three
places: between hooks, in a handler called by service_update, and while reply()
converts its arguments (marshal.hpp calls toString and getters). `stack` holds
the frames under way below the script, so that an action of the script may happen
in any of them, to any depth up to MaxDepth: a handler may reconnect, unexport its
own interface, answer another call and so on. `incoming` is service_update's local
queue, which a reconnect does not empty; `held` records the calls it held when one
happened. reply() keeps the place of its invocation in the map and the request
over the conversion: when the script completes the same call from within it, both
are gone when it goes on, and what it sends then is undefined: ReplyEnds
leaves it open, and `undone` records those calls. `finished` are the calls whose
handling is over. emitSignal and emitSignalTo are in DbusSignals.

### Process (process/src/module.cpp)

The script thread (`js`, with the process it is busy with, and where a blocked
write() returns to) and the children, which run beside it. `todo`, `emits`,
`walk`, `finals` and `dead` are locals of process_update_callback: it reads both
pipes of each process (UpdateRead), then calls waitpid (UpdateWait), and when all
were visited calls the listeners, settles exec promises and forgets the
processes that have exited. A function registered twice is two listeners, which off()
takes out together. A listener is script code: while `js.pc` is "call", any
function of the plugin may be called. on() and off() change the list that is being
walked, whose iterators push_back and erase make invalid: from then on `walk.stale`
holds and the next function called is any (the code's behaviour is undefined).
kill() by pid is on the pid, also of a child that was reaped by this very update:
`stray` counts such signals.

A child's output is the chunks 1, 2, ... of each stream, so that a gap, a repetition
or a change of order is seen; a pipe holds Cap chunks, a child may write on its own
or because it was fed on its stdin, and exit at any moment. `heard`, `gave`,
`outcome`, `via` and `touched` record what the script was told and did. The two
pipes of a process are read in one step (nothing tells the orders apart). Left
out: failures of pipe and fork, descriptors inherited by later children, SIGPIPE,
the functions drain(), read() and those by id, which are compiled and never
exported, and the file and environment functions, which keep no state.

### HttpRequests (http/src)

The script thread (`js`), the worker (`worker`) and the host's queue for the script
thread (`tasks`). request() notes the promise, pushes the job and releases
jobSignal, in three steps the worker may come between; the worker tests
`running`, looks at the queue, acquires the semaphore only if it is empty, and looks
again. jobSignal is a binary semaphore and may be released when it is set
already, which the standard leaves undefined: Release lets the counter stay or go
past 1, as the libraries the plugin is built with do. `running` is a plain bool
read by the worker while ~Http clears it; the calls between two reads keep a
compiler from holding on to the value, and it is modelled as read when it is
read. drain() hands each finished job to the host, which may run the settlement
at once, keep it for later (RunTask), or refuse it; Revoke, the beginning of the
host's own shutdown, may come before scriptShutdown or after it. Cleanup drops
the last reference to the context (the promises hold weak ones), and with it goes
~Http: Stop, Wake, Join. The exchange with the server is one step with either
result; parsing of the URL, multipart bodies and fnv1a are left out.

`Line` is what WorkQueue's queue is here: the jobs done, the one in the worker's hands
(`InHand`), the ones that wait; a request leaves it when drain() hands it to the host, in
order and one at a time. What the host has in `tasks` it may run in any order, so the
refinement ends there. `UnderWay` are the requests in any place, the host's included.

### HyprPlugin (hypr/src/module.cpp)

The script thread (`hyprJs`), the event thread (`hyprNet`) and one thread for each
command (`hyprJob[j]`). The event thread stores the number of its socket
(`hyprFd`), tells the script, reads `running` again and reads lines until the
compositor leaves or its socket is shut down; then it closes the socket and
waits for its back-off, from which the timeout takes it whether notified or not.
The queue of events keeps the latest HyprMaxQueue. A command's thread dials,
registers its socket, exchanges, unregisters, reports unless `stopping`. Shutdown
clears the flags, loads eventFd, shuts the sockets down, and joins; between any
two of these the threads go on. What a line says is not told apart; what one
callback does to the subscriptions of the list it is called from is `HyprOff`. A
number of a descriptor that was closed and given to another thread is left out.

### SqlPlugin (sqlite/src/module.cpp)

One worker, started by the first exec() or query(), with the condition variable as in
PamWorker. A job is looked up with the mutex of the map held, and used without it
(`prepare`, `stepping`); close() takes the entry out under the mutex and calls
sqlite3_close after it, which frees the handle, or fails and leaks it while a
statement is prepared. `sqlStale` records the jobs that used a freed handle: the
code lets that happen, and SqlOneStaleUse says how far it goes. SQL is left out.
`SqlLine` (the jobs queued, in hand and done) is the queue of WorkQueue; the mapping
SqlQueue says so.

### WsPlugin (ws/src/module.cpp, IXWebSocket)

The functions of the plugin and, for each socket, the thread of the library
(`wsNet[s]`), from WebSocket::run: check the connection, dial, poll, call back. The
library's part is as much of IXWebSocket.cpp and IXWebSocketTransport.cpp as decides
when that thread calls the plugin and when it ends: `wsReady` (_readyState),
`wsStop`, `wsCancel` (_requestInitCancellation), `_socketMutex` (held while
dialling). A callback takes the mutex of the plugin, which close(), stop() and destroy()
hold to their end. `wsDrains` is the stack of the drain() calls under way, since
a callback may call drain(). The contents of messages, pings, compression and TLS
are left out, and sending but for its failure (WsSendFails), after which the
script thread waits for a mutex of its own.

### VideoPlugin (ffmpeg/src/module.cpp)

One key of one window: the stream in the map (`videoMap`; streams are numbered by
load()), a decode thread per stream, the render thread and the texture requests
handed to it. load() and stop() take the stream out of the map with the mutex held
and join its thread. A stream is `videoFresh` when it has a frame not uploaded yet;
its clock is startTp, pauseTp and pausedAccumSec, changed under the clock mutex.
Decoding gives a frame or the end of the file, where the thread rewinds. Time is a
counter up to VideoMaxTime.

### DbusMarshal, DbusTrees, DbusSignals and DbusBodies (dbus/src/marshal.hpp, module.cpp)

DbusMarshal has the functions that call themselves one level at a time: AppendLevel
is the body of append_value, from a type (a tree) and a script value to what goes on
the wire, or to a refusal, with the function it calls on the parts as a parameter; JsonLevel
(dbus_value_to_json) and ReplyLevel (decode_reply) go the other way; AppendAll is
append_values. `ConformsLevel`, `PlainLevel` and `ModestLevel` are the reference: what is
of a type, what a script should get of a value, and which values are asked about. Strings
are a few values, of which BeforeNul gives those with a NUL inside and what stands before it:
js_to_string makes a std::string of a `const char*`, so a string ends at its first NUL, and
the test for one in append_value, which comes after it (marshal.hpp:109), never finds any:
such a string is sent, shortened (CString). Keys that become equal this way
are all written, and JSON.parse keeps the last of them on the other side (ObjectOf). IntMax, SafeMax and WideMax stand for
2^31-1, 2^53-1 and 2^63-1, so that all numbers fit TLC's integers (the widths of 8 and 16
bits are the true ones). DbusTrees passes each level to itself: RECURSIVE operators on
trees of any height, for TLC.

DbusSignals sends bodies over the bus, through the pump's queue and to the callbacks of
onSignal(), which may add and remove callbacks. A callback removed by another still hears
the signals of the update under way (the list is copied), which the repository's own test
asks for. What encodes and decodes the bodies are its constants SigEncode and SigDecode, as
the way of a signal does not depend on them and its theorems hold for any. DbusBodies
extends both modules and says what becomes of the arguments, SigBodyArrives. As a module with
recursive operators is out of the prover's reach, they are constants there (WriteValue,
ReadValue, ReadReply, Plain, Modest, Conforms), and so are the sets Types and Values they are
about; what is assumed of each is its own defining equation on these sets, and of the sets
that they hold finite trees (Height) together with their parts. plugins.cfg gives the
constants the operators of DbusTrees and the trees of the run, and TLC evaluates every
assumption on them.

### Plugins

The host with one of these loaded; `plugin` says which. They share nothing but the
script thread, which is in one function of one plugin at a time: what one
promises it promises beside the others as long as they give the thread back, and
that is JoinsEnd.

### Variants

Operators with a comment "Variant: ..." are not in Next. Each is an action as a
plausible mistake would have made it (a lock left out, a flag not reset, a join
skipped). Put in the place of the real one, it must break the property listed
beside it in PROJECT.json: so each property is known to be able to fail.

## 4. The runs

| run | specification and bounds | what it shows |
|---|---|---|
| dbus_client | Spec; one bus, no rules, 4 ids, 2 connections, 2 connect() calls, conversions 2 deep; 4.0 million states | NoStrandedWaiter, PumpUsesLiveConnection, LiveConnectionIsPumped, ShutdownLeavesNothing, ReplyIsForItsCall, AnswerFindsItsCall, and that DbusClient implements PromiseTable |
| dbus_live | FairSpec; two buses, one rule, 2 ids, 2 connections, 2 connect() calls, conversions 1 deep; 0.14 million states | RulesInstalled, PromisesSettle, ReconnectCompletes, ShutdownCompletes |
| dbus_other_bus | Spec; two buses, one connection | violates ConnectsToRequestedBus (finding 1) |
| pam_worker | FairSpec; 4 requests, limit 3 | PendingAreInLine, NoMissedWork, ResolvedIfAllPassed, ShutdownLeavesNothing, AuthSettles, and that PamWorker implements WorkQueue |
| pam_shutdown | FairSpec; 2 requests | violates ShutdownCompletes (finding 2) |
| process | Spec; 2 processes, 2 chunks of output, 2 calls besides spawn and exec, pipes of 1 chunk, 2 listeners (symmetric); 2.7 million states | HeardInOrder, ExecSettledTruly, ShutdownLeavesNothing, NoStraySignal |
| process_output | Spec; 2 processes, 1 chunk | violates ExecOutputIsWhole (finding 3) |
| process_write | FairSpec; 1 process, 2 chunks, 4 calls | violates WriteReturns (finding 4) |
| dbus_service | Spec; 2 interfaces (symmetric), 2 incoming calls, 2 connections, a stack of 4 frames; 0.5 million states | AnsweredOnce, NoCallForgotten, AnswersOnOwnConnection, OpenCallsAreExported |
| http_requests | FairSpec; 3 requests; 31 thousand states | NoWakeUpLost, SettledOnce, RequestsSettle, ShutdownEnds, and that HttpRequests implements WorkQueue |
| plugins | FairSpec; each plugin in turn: 2 commands of which 1 may be pending, 2 connections, a queue of 2 events; 2 databases, 3 jobs; 1 socket, 2 dials, 1 message, drain() within drain(); 2 streams and 3 ticks; 3 signals, the first with any of 47 bodies, 2 callbacks; 0.3 million states | HyprNoPromiseForgotten, HyprConnectionIsReal, SqlOneStaleUse, WsEventsAccounted, VideoClockNeverNegative, VideoNoOldFrame, SigBodyArrives, SigNoneMissed, JoinsEnd, RequestsSettle |
| ws_destroy | WsFairSpec; 1 socket, 1 dial, 1 message | violates WsCallbackMayDestroy (finding 5) |

**Why the bounds are enough.** In dbus_client two connections are the fewest that
let a serial be used twice, an old answer meet a new call, a pump of the first
connection meet the connect thread of the second; with four ids one connect()
waits on each connection and a call is made on each, so every kind of settlement
meets every other. MaxConnectCalls counts only calls of connect(): two suffice to
meet the waiters of another. In dbus_live two buses and one rule are what mixing
them up takes, and two ids are enough for a promise and one that overtakes it. A
conversion within another (two deep) lets a call meet one that began before it and goes on
after it. In dbus_live the script of a conversion does all that a script can but convert
again (with conversions two deep the run finds no violation either, in several times the time). In
pam_worker four requests against a limit of three: calls are refused and accepted
again, and all of the queues, the worker and the batch can be occupied at once.
In process two children let one be reaped while the other is read, and one be
started or killed by a listener of the other; two callbacks let one be removed
while the other is called; two chunks in pipes of one fill a pipe, and are enough
for a gap, a repetition or an exchange. In dbus_service two calls, possibly on two
interfaces, let one be answered from the handler or the conversion of the other;
two connections let a handler lose one and get another; four frames are an
update, a handler and two conversions, the second within the first.
In http_requests three requests let one be in the worker's hands, one
queued and one being queued, or one queued, one done and one with the host.
In plugins the compositor may go and come back once while a queue of two drops what
it must; two databases let one be closed while a job of the other runs, and three
jobs follow one another in the worker; one socket is enough for a callback that
destroys it, and two dials for a socket started again or reconnecting; two streams are one and its
successor; three signals and two callbacks let one be removed and come back
between two signals. Calls made when a bound is reached are left out, all else goes on.
Deadlock is checked in the dbus, process and http runs (the update hook is always
possible until shutdown, and shutdown can always be called again). In the pam runs and
in plugins (the lost wake-up of sqlite, the mutex of ws) the system may stop in the
hangs of findings 2 and 5, so it is not.

**Fairness.** The script thread goes on inside a function it has entered; the
threads of a plugin run; the host calls the update hook on every frame
(docs/plugin-abi.md). For timeouts the clock matters: each promise has a timeout
(dbus_update compares the clock with it), so an update that finds it past comes if
updates keep coming; as the promise may be settled meanwhile this is strong
fairness of "an update that finds id past its timeout", for each id. The script that a
conversion of the dbus client runs comes to its end; as it may call functions that
convert arguments themselves, which interrupts it, this is strong fairness of going on, for
each depth of the stack. In PamWorker
the PAM modules are assumed to return. In Process a child that was sent SIGKILL
dies, and a child reads its stdin, and writes what comes of it, whenever its pipes
let it. In HttpRequests an exchange ends (its connection and each read and write
have timeouts of seconds, Http.cpp), and the host runs the work it has accepted
and, once it stops, calls scriptShutdown. In the plugins run each thread of the plugin
loaded runs, its update hook is called again and again, callbacks return, statements,
dials and exchanges with the compositor end (connect and the sockets of commands
have timeouts), and the render thread draws. JoinsEnd leaves two states out:
sqlite's worker about to sleep when shutdown has cleared workerRunning (finding 2
once more), and a socket of ws that reconnects by itself, whose thread may dial
again and again between the two loads with which it looks for `_stop`. Nothing is assumed of scripts, peers, the
bus, the moment of shutdown, or of spurious wake-ups.

### Findings

1. *dbus_other_bus*. docs/dbus.md says that once connected or connecting,
   requesting another bus raises an error. js_connect reads the connection and
   then `connecting`; the connect thread sets the first and clears the second in
   between, the test passes, and a connect("system") is resolved on a connection
   to the session bus.
2. *pam_shutdown*. The repository's README asks that workers be stopped and
   joined during shutdown. pam_shutdown clears `running` and notifies without
   requestMutex; a worker that has tested its predicate and is not asleep yet
   misses the notification and the join never ends.
3. *process_output*. The update hook reads the pipes of a process before it
   calls waitpid. What a command writes between the two, just before it exits, is
   never read: exec() is settled without it (line 14 of the module promises
   stdout and stderr), and the listeners of a spawn() never hear it.
4. *process_write*. The repository's README asks to keep blocking work on worker
   threads (line 110). write() is a blocking ::write on the script thread: a child
   that blocks on its own output, which only the update hook would read, and so
   does not read its input, freezes the script.

5. *ws_destroy*. The comment at ws/src/module.cpp:280 says that callbacks run outside
   the lock so that they may destroy their own socket. destroy() takes that lock and,
   with it held, erases the instance, whose destructor joins the library's thread. The
   close that destroy() causes is itself an event to report: the thread waits for the
   lock, the script thread for the thread.

No document of the repository promises that a rule is installed, so what follows is
not a finding but the exemption that RulesInstalled makes. js_addMatch tests the connection
(line 539) before it converts its argument (541). A toString that calls connect() when
the bus has dropped makes it lose the connection it tested: the send at 557 finds none,
and the rule is remembered for the next connection alone, or, if its walk is
over by then, for the one after. If the push_back at 563 meets the walk at 513 it is a data race
on the vector. Without the exemption (`astray`) TLC finds both with the bounds of dbus_live;
with it, RulesInstalled says that nothing else loses a rule.

## 5. The proofs

`DbusClient_proofs` proves, for any sets of buses and rules and any bounds, that
every behaviour of Spec satisfies

- `TypeCorrect`: TypeOK,
- `AnswersMatch`: ReplyIsForItsCall,
- `CallsAnswered`: AnswerFindsItsCall,
- `WaitersServed`: NoStrandedWaiter,
- `RulesKept`: RulesInstalled.

The assumptions are that the bounds are natural numbers (BoundsAssumption) and
that there is a bus (BusesAssumption); TLC evaluates both in every run.

The properties are not inductive by themselves. The invariant IInv adds:

- *TypeInv*: what the threads carry has been given out (an id in the hands of a
  thread or in a place of the script is a real id);
- *ControlInv*: `connecting` is set exactly while somebody will serve the waiters,
  a connect thread is started only when there is no connection, and what
  shutdown has stopped stays stopped. From it, NoStrandedWaiter: the waiters are
  taken and `connecting` is cleared in the same critical section that
  ConnectRegister tests them in;
- *StackInv*: no hook runs and the handle is not shut down while a function converts its
  arguments, and addMatch(), when it remembers its rule, is the innermost of those;
- *RulesInv*: what a walk over matchRules has read, and no push_back met, is installed when the
  connection is published; and a rule about to be remembered for the first time was
  sent on the connection in use, or is astray. A connection cannot be published between
  the send and the push_back unnoticed: there is none to publish while one is in use;
- *EntryInv*, *OnceInv*: a serial under way has at most one message, and an entry
  of serialToPromiseId for it belongs to it. They make ReplyIsForItsCall true
  over a reconnect: entries go with the connection, before a serial can be
  used again;
- *CarryInv*: messages under way carry ids already given out, a connection not
  published carries none, and the update hook's `timedOut` is empty outside of it;
- *AnswerInv*: every queued reply, wherever it stands between the pump and the
  promise, is honest: it has the id of the call it answers.

Each is preserved by every step of Next (one lemma per part, one step per action),
Invariance puts them together, and each theorem reads its property off IInv.

Its second half proves, under the same assumptions:

- `TableImplemented`: ImplementsTable, the refinement of PromiseTable,
- `PumpReadsLive`: PumpUsesLiveConnection,
- `ConnectionPumped`: LiveConnectionIsPumped,
- `ShutdownClean`: ShutdownLeavesNothing.

For the refinement, FullInv adds *TableInv* to IInv: an id not yet given out has no
outcome, so that what nextId makes is new to the table, and what is queued without an
answer names no call. The lemma TableStep then takes the steps one by one: a promise is
made (ConnectCheckConn, CallSends), the peer answers (PeerAnswers), promises are settled (SettleReply,
where AnswerInv says that the answer is the right one, and SettleTimeouts), the table is
closed (ShutdownClear), and every other step leaves it alone.

The other three follow the joins. *JoinInv*: past the join of the connect thread there is
none until the script thread starts another, so nobody sets `running` or publishes a
connection while one is released. *CarriesConn*: a connect thread past its dialling has a
connection. *RunningInv*: `running` stands for a pump, or for the one SpawnPump is about
to start, and a published connection that works has it set. ClaimPump may therefore
leave the pump alone when it finds `running` set.

`PamWorker_proofs` proves, for any number of requests and any positive limit
(PamBoundsAssumption), that every behaviour of Spec satisfies

- `TypeCorrect`: TypeOK, the limit included,
- `RequestsAccounted`: PendingAreInLine,
- `RequestsWakeWorker`: NoMissedWork,
- `VerdictsTrue`: ResolvedIfAllPassed,
- `ShutdownClean`: ShutdownLeavesNothing,
- `QueueImplemented`: it implements WorkQueue.

All rest on the line of ids from the oldest answer being settled to the newest
request: batch, results, the request in the worker's hands, requests. The
invariant IInv has five parts. *TypeInv* and *ControlInv* are as above. *LineInv*:
the line is sorted by id, its ids are the pending promises, it is no longer than
Limit (js_authenticate counts promises, the line is what is queued: they agree
only because nothing else settles a promise), and it is empty after shutdown. A
sorted line has no id twice, hence RequestsAccounted. *NoMissedWork* is inductive
once ControlInv says that a worker about to sleep saw an empty queue. *StageInv*
says how far the conversation of each request has gone by where the request
stands, and that every result tells the truth about it; hence VerdictsTrue.

For LineInv, a lemma for each step that touches a queue says what becomes of the
line (LineAuthenticate appends, LineTake and LinePost and LineUpdate move an id
from one part to the next, LineSettle takes the head, LineShutdown empties it).
The same lemmas give the refinement: each step of Next either leaves the line and
its served part alone, or is Submit, Serve, Deliver or Close of WorkQueue.

`DbusService_proofs` proves, for any interfaces and any number of calls, connections
and nested frames of the script (ServiceBoundsAssumption),

- `TypeCorrect`: TypeOK,
- `OneAnswer`: AnsweredOnce,
- `CallsRemembered`: NoCallForgotten,
- `AnswersRouted`: AnswersOnOwnConnection,
- `OpenExported`: OpenCallsAreExported.

*PlaceInv* carries most of it: a call is in one place, in the queue `methods`, in the
queue the update hook has taken, in the map of open invocations or finished, and once in
each queue. *OnceInv* then says that nothing is answered before it is finished, and
*ReplyInv* that a reply() in the middle of its conversion is for a call which is still
open, or for one that a script completed from inside that conversion (`undone`, the one
exception OneAnswer makes). *WaitInv* is NoCallForgotten for the connection in use. For
the routing, *HomeInv*: what is queued or open came in on the connection in use, but for
what the hook held while its script reconnected (`held`), and *RouteInv*, that the
answers already sent went where they belong. *HookInv* and *LinkInv* say when the hook's
queue is empty and how connections are numbered. The lemma ForgetFrames carries
*ReplyInv* over every operation that takes calls out of the map (unexportObject, a
reconnect, a destroyed handle): a reply() in conversion keeps its call open, or finds it
undone.

`Process_proofs` proves, for any number of children, chunks of output and calls
(ProcessBoundsAssumption),

- `ExecTrue`: ExecSettledTruly,
- `SignalsReach`: NoStraySignal,
- `ShutdownClean`: ShutdownLeavesNothing,
- `ListenersInOrder`: HeardInOrder.

The first three rest on IInv. TypeInv has the types of what they are about and leaves out
what listeners heard.
*MapInv*: a child not reaped is in the map, and one that was reaped leaves it with the
update that reaped it, so that between updates every pid in the map can be signalled.
*FreshInv*: a number not given out has no child, hence a new child is not taken for an
old one. *RequestInv*: the request of an exec() is for a child not reaped and has
collected exactly what is no longer in the pipe; the lemma WaitingType says that what a
read takes continues it. *FinalInv*: what UpdateWait puts aside for settlement is true,
and stays so while listeners call back (lemma ReapedStays); *HookInv* says that between
two updates nothing is put aside. *ShutdownInv*: a child not reaped is one that
scriptShutdown has still to go to, or the one it is at.

ListenersInOrder needs HInv besides, which every step keeps where IInv holds. An event of
the output carries the last chunks that were taken from the pipe (*ChunkInv*), and an
update has one event of each kind for a process, its exit after the others
(*EmitInv*). So a listener may be behind by one event of a stream at most: *HeardInv* says
that whoever heard anything of a stream is still in its list and has heard all that was
taken, but for the chunks of an event that is to come to its place in the list. Which
places those are is what the loop over the list must get right: *WalkInv* and *ListInv*
say that a list the script left alone has no listener twice (a function registered twice
is two listeners, which off() takes out together) and is walked as it is. For
the lists the script did touch nothing is claimed (`touched` in HeardInOrder).
*ExitInv*: after the exit nothing else of a process is left to emit. *PhaseInv* says when
there are events in the hands of the hook, and *EventType* has the types. The lemma
ReadAppends is the step that matters most: chunks just taken go on where the chunks heard
end; CallStep and DoneStep follow the walk from one listener to the next.

`HttpRequests_proofs` proves, for any number of requests,

- `TypeCorrect`: TypeOK,
- `WakeUpsArrive`: NoWakeUpLost,
- `PromisesSettleOnce`: SettledOnce,
- `PromisesKept`: PromisesAccounted, whatever is under way has an open promise, as long
  as the host takes work every open promise is under way, and cleanup leaves none open,
- `QueueImplemented`: it implements WorkQueue.

NoWakeUpLost needs StopInv: when `running` has been cleared and the signal of ~Http
given, a worker still on its way to the semaphore will find it set. SettledOnce
needs of TypeOK that what cleanup releases, the pending map, is what is open.
For QueueImplemented, *LineInvariance* shows that ids are given out one after the other
and that what is outstanding are the last of those queued (`Numbered`): the line is known
from its length and the number of requests made, and LineNext has only to follow how these
two change. PromisesKept rests on *AccountInv*, which splits the ids at the head of the line:
those behind it are open, those before it have left the line, and of them the host holds,
in one task each, what it has accepted and not settled (`Accounted`).

`Plugins_proofs` has the theorems of hypr, sqlite, ffmpeg and the signals of dbus, one
after the other, and then those of the host. Of hypr, for any number of commands,
connections and lines and any positive length of the queue (HyprBoundsAssumption),

- `HyprTypeCorrect`: HyprTypeOK,
- `PromisesKept`: HyprNoPromiseForgotten,
- `ConnectionReal`: HyprConnectionIsReal.

PromisesKept is a matter of who holds an id. ConnectionReal needs *HyprLastInv*: between
two connections the last of what was queued, taken by the hook or told is the
"disconnected" of the one before, because a push that finds the queue full drops an
older entry; and *HyprHookInv*, where the hook's locals are empty and what shutdown has
set.

Of sqlite, for any number of databases and jobs (SqlBoundsAssumption),

- `SqlTypeCorrect`: SqlTypeOK,
- `OneStaleUse`: SqlOneStaleUse,
- `SqlCallsKept`: SqlCallsAccounted, every call not yet settled is in the line, once,
- `SqlQueueImplemented`: its queue implements WorkQueue.

It needs *SqlHandleInv*, that a database in the map is open and that what close() has
taken from it is still to be closed; *SqlHandsInv*, that the job in the worker's hands
was given a database; and *SqlStaleInv*, that a job which used a freed handle keeps it
freed, and that the job in the worker's hands is the only one which may still join it.
The last two rest on *SqlNumbered*, as in http: the line is the last of the jobs made.
Before the first call there is no worker (*SqlStartInv*), so that the call which starts one
takes no job out of another's hands.

Of ffmpeg, for any number of streams and ticks,

- `VideoTypeCorrect`: VideoTypeOK,
- `ClockCorrect`: VideoClockNeverNegative, from *VideoClockInv*: start and pauses lie in
  the past, and a stream that play() would resume was paused after its start,
- `FramesCorrect`: VideoNoOldFrame, from *VideoTextureInv*: the render thread makes the
  textures itself, so none is made in the middle of a pass, and the stream it looks up in
  the map is the last one loaded (*VideoLoadInv*).

Of the signals of dbus, for any number of signals and callbacks and any encoding
(SigAssumption),

- `SigTypeCorrect`: SigTypeOK,
- `NoneMissed`: SigNoneMissed,
- `BodiesArrive`: SigBodyArrives.

Signals lie on the bus, in the queue and in the batch in the order of their numbers
(*SigNumberInv*), and everything that is numbered and not there was delivered (SigDone).
*SigHeardInv*: whoever is in the list and has heard anything has heard the last signal
delivered, those whose turn has passed also the one being delivered, and one added during
an update, who has no place in the copy of the list, has heard nothing yet. *SigTurnInv*
says that no registration is twice in a list (a function registered twice is two), which is
why a turn appends to one history only.

BodiesArrive holds for any types and values which are finite trees, of any height, and any
operators that satisfy the equations of DbusMarshal on them (WriteAssumption, ReadAssumption,
AgreedAssumption). SigSound says of one value that, if append_value lets it through for a
type, what it wrote conforms to the type and, if the value is modest, reads as what it
plainly is: the value without the wrappers that force a type, its strings and keys up to
their first NUL, whatever strings have one and wherever (BeforeNul). It is
shown for a value of some height, assuming it for lower ones, by a lemma for each kind of
type (a basic one, an array of bytes, another array, a struct, a dictionary, a variant with its
guess); SigAllSound puts them together by SetInduction over Height. *SigBodyInv* carries it
along the way of a signal: what lies on the bus was let through by append_values, and
what is in the queue and the batch was decoded from it.

Of the host, that it implements each of the five: `RunsHypr`, `RunsSqlite`, `RunsWs`,
`RunsFfmpeg` and `RunsDbus` say that a behaviour of Plugins is one of that plugin alone,
by stuttering while another is loaded. Hence `HostTypeCorrect` (TypeOK of Plugins) and
`HostSafe`: all of the above holds in the host, the arguments of signals and the calls of
sqlite included. That is what the run `plugins` checks on a small instance.
`HostImplementsQueue` carries the refinement over as well.

`WsPlugin_proofs` proves, for any number of sockets, dials, messages and drain() calls
within one another (WsBoundsAssumption),

- `WsTypeCorrect`: WsTypeOK,
- `EventsAccounted`: WsEventsAccounted.

The events of a socket are heard, in the hands of one of the nested drain() calls, or
queued, and WsEventsAccounted, over the concatenation of these, is not a convenient thing to
carry over a step that moves a batch from one to the other. *WsAccountInv* says the same by
counting: the lengths add up to the number of events told, and the sets together are all of
their numbers, which leaves no room for one that is there twice (lemma WsAccounts). A drain
takes the queues of all sockets in an order nobody knows (the map is unordered): lemma
DrainTakes says that of each socket it takes exactly that socket's queue, as *WsOwnInv*
keeps foreign events out of it. *WsFreshInv*: of a socket to be created there is nothing
under way, so its count starts at none. *WsControlInv* says where the script thread can be,
and that no socket lives any more once shutdown stops them.

`SequenceLemmas` has what these proofs need of sequences and the library does not state.
FlattenSeq is defined by recursion over the length; that it goes along with appending and
concatenating is shown by induction, which the library's theorems state with an operator as
parameter, out of the provers' reach. SetInduction states it for a set of naturals instead,
and follows from the well-foundedness of their order (WFMin), where no operator is passed.
JoinsExists, JoinsAgree, JoinsType and FlattenConcat apply it. RemoveAtProperties, FrontLast
and SetToSeqsIs do the like for other operators of the community modules, without
induction. Sequences of consecutive numbers (CountsTo, LastNumbers) come with what becomes of
them when one is appended, some are taken from the front, or they are seen as the parts they
were put together from (LastNumbersInParts): the queues of http and sqlite are such sequences.

Besides type correctness, three properties are theorems that no run lists: PromisesAccounted of http, and
SqlCallsAccounted and SqlImplementsQueue of sqlite. TLC found each of them to hold on the small
instances too before it was proved.

Only model-checked: everything about liveness (AuthSettles, PromisesSettle, RequestsSettle,
ShutdownEnds, JoinsEnd and the like), which is outside of the prover's reach. And that the
operators of DbusTrees satisfy the equations assumed of them: each is defined by its
equation, but a RECURSIVE definition is one the prover cannot use, so it is TLC that evaluates
them, on the bodies of the run.

## 6. Not modelled

- *The vendored code*: cpp-httplib, the QuickJS header, FFmpeg, sqlite3, libdbus and
  PAM, and of IXWebSocket all but the thread of a socket. They appear as the
  environment's actions. They are also more than nine tenths of the lines under
  `src/`, which is why the part of all lines that is modelled must stay small.
- *The plugin sdk*: declarations and wrappers that forward a call. What they promise (one
  script thread, hooks in order) is built into every module.
- *Conversions*: the arguments of call() by their JavaScript type, parsing of
  URLs and multipart bodies, SQL parameters and rows, JSON of the compositor's answers,
  decoding of video. None of them keeps state or touches another thread; each is a
  step with its possible results. BigInts beyond 64 bits, which append_value reduces
  silently, are outside of SigBodyArrives; so are strings with a lone surrogate, which
  libdbus is given as invalid UTF-8. In HttpRequests a port that std::stoi cannot hold
  (Http.cpp:201) is left out: nothing catches what it throws on the worker, which ends the
  program.
- *The library of ws closing by itself*: on protocol errors and invalid UTF-8
  (IXWebSocketTransport.cpp 476, 551, 576, 583, 793, 805), and the callback of the close after
  a failed send (1059-1078), which comes with `_txbufMutex` held while close() and send() of
  the plugin take that mutex with ws_mutex held: two locks taken in opposite orders.
- *Functions without state*: files, environment and fnv1a; in process the functions by id,
  drain() and read(), which are compiled and never exported.
- *Descriptors*: their inheritance by children started later, and numbers that
  are given out again while an old one is still in use.
- *Memory management* of script values (JS_FreeValue): the models say when a promise is settled or
  dropped, and the code frees it there.
- The comment at the head of ffmpeg/src/module.cpp lists seek and unload, which the
  module does not have.
