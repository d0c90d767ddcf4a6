------------------------- MODULE DbusClient_proofs -------------------------
(***************************************************************************)
(* Proofs about one bus handle, for every set of buses and rules and every *)
(* bound: type correctness, no answer given to another call, no connect()  *)
(* left waiting for a thread that has finished, and every remembered match *)
(* rule installed on the connection in use; then the refinement of         *)
(* PromiseTable, and the end of the threads.                               *)
(***************************************************************************)
EXTENDS DbusClient, FiniteSetTheorems, SequenceTheorems, TLAPS

(* The ids the threads carry: connect() holds room for a promise until it  *)
(* makes one, the pump carries the id of a call, and addMatch() its rule.  *)
CarriedIds ==
    /\ js.pc \in {"checkConnecting", "checkDead", "joinWorker", "joinPump", "checkConn"}
          => nextId \in Ids
    /\ js.pc \in {"register", "spawn"} => js.id \in Ids
    /\ pump.pc = "push" => pump.id \in Ids

TypeInv == TypeOK /\ CarriedIds

(* Where the script thread may stand once shutdown has begun.              *)
ShutdownInv ==
    shuttingDown => /\ js.pc \in {"idle", "sdWorker", "sdPump"}
                    /\ js.pc = "idle" => ~context

(* connecting is the claim on the connect thread: it is set exactly while  *)
(* one is about to be started or has not taken the waiters.                *)
ConnectInv ==
    /\ ~shuttingDown => (connecting <=> js.pc = "spawn" \/ WorkerServing)
    /\ js.pc = "spawn" => conn = NULL /\ ~WorkerServing
    /\ WorkerDialling => conn = NULL

ControlInv == ShutdownInv /\ ConnectInv /\ NoStrandedWaiter

(* No hook runs while a function converts its arguments, and the handle is *)
(* not shut down then; addMatch() has its rule from the innermost one.     *)
StackInv ==
    /\ stack # <<>> => context /\ ~shuttingDown
    /\ js.pc \in {"drain", "settle", "sdWorker", "sdPump"} => stack = <<>>
    /\ js.pc = "remember" => stack # <<>> /\ Last(stack).in = "addMatch"

(* The rule addMatch() is about to remember.                               *)
NewRule == Last(stack).rule

(* What a walk has read and none of whose push_backs met it is installed;  *)
(* and a rule about to be remembered for the first time was sent on the    *)
(* connection in use, or is astray.                                        *)
RulesInv ==
    /\ worker.pc = "publish" /\ linkUp => matchRules \ astray \subseteq installed
    /\ js.pc = "remember" /\ NewRule \notin matchRules =>
          NewRule \in astray \/ (conn # NULL /\ (linkUp => NewRule \in installed))

(* An entry of serialToPromiseId is never for another call than the one    *)
(* that was sent with its serial on the connection in use.                 *)
EntryInv ==
    /\ conn = NULL => DOMAIN serialMap = {}
    /\ \A s \in DOMAIN serialMap : s <= serial
    /\ \A req \in requests :
          /\ req.serial <= serial
          /\ req.serial \in DOMAIN serialMap => serialMap[req.serial] = req.id
    /\ \A i \in 1..Len(inbox) :
          /\ inbox[i].serial <= serial
          /\ inbox[i].serial \in DOMAIN serialMap => serialMap[inbox[i].serial] = inbox[i].call

(* A call is on the connection once, as a request or as its answer.        *)
OnceInv ==
    /\ \A r1, r2 \in requests : r1.serial = r2.serial => r1 = r2
    /\ \A i, j \in 1..Len(inbox) : inbox[i].serial = inbox[j].serial => i = j
    /\ \A req \in requests : \A i \in 1..Len(inbox) : req.serial # inbox[i].serial

(* The ids on the connection are those of calls made, and an answer is one *)
(* the peer gave; a connection not yet published carries nothing.          *)
CarryInv ==
    /\ \A req \in requests : req.id < nextId
    /\ \A i \in 1..Len(inbox) : inbox[i].call < nextId /\ inbox[i].call \in answered
    /\ worker.pc \in {"dialled", "rules", "walking", "publish"} => requests = {} /\ inbox = <<>>
    /\ js.pc \notin {"drain", "settle"} => timedOut = {}

Honest(item) == item.kind = "reply" => item.call = item.id /\ item.id \in answered

(* An answer keeps the id of its call on its way to the promise.           *)
AnswerInv ==
    /\ pump.pc = "push" => pump.id \in Ids /\ pump.call = pump.id /\ pump.id \in answered
    /\ \A i \in 1..Len(replies) : Honest(replies[i])
    /\ \A i \in 1..Len(batch) : Honest(batch[i])

IInv ==
    /\ TypeInv
    /\ StackInv
    /\ ControlInv
    /\ RulesInv
    /\ RulesInstalled
    /\ EntryInv
    /\ OnceInv
    /\ CarryInv
    /\ AnswerFindsItsCall
    /\ AnswerInv
    /\ ReplyIsForItsCall

(* The first and the last calls under way.                                 *)
LEMMA StackProperties ==
  ASSUME stack \in Seq(Frame), stack # <<>>
  PROVE  Last(stack) \in Frame /\ Front(stack) \in Seq(Frame)
  BY DEF Last, Front

LEMMA AnyBusType == AnyBus \in Buses
  BY BusesAssumption DEF AnyBus

(* A function on 1..n is a sequence.                                       *)
LEMMA FunctionIsSeq ==
  ASSUME NEW S, NEW n \in Nat, NEW f \in [1..n -> S]
  PROVE  f \in Seq(S) /\ Len(f) = n
  BY SeqDef

(* The promises pending are finitely many, so an order of them exists.     *)
LEMMA PromisesFinite == PromiseTypes => Cardinality(promises) \in Nat
  <1> SUFFICES ASSUME PromiseTypes PROVE Cardinality(promises) \in Nat
    OBVIOUS
  <1>1. promises \subseteq 1..MaxId
    BY DEF PromiseTypes, Ids
  <1>2. IsFiniteSet(1..MaxId)
    BY BoundsAssumption, FS_Interval
  <1>3. IsFiniteSet(promises)
    BY <1>1, <1>2, FS_Subset
  <1> QED
    BY <1>3, FS_CardinalityType

LEMMA TypeInit == Init => TypeInv
  <1> USE AnyBusType, BoundsAssumption DEF Init
  <1> SUFFICES ASSUME Init PROVE TypeInv
    OBVIOUS
  <1>1. ThreadTypes
    BY DEF ThreadTypes, Idle, NoThread, NULL, JsPcs, WorkerPcs, PumpPcs
  <1>2. PromiseTypes
    BY DEF PromiseTypes, Outcome
  <1>3. FlagTypes
    BY DEF FlagTypes
  <1>4. LinkTypes
    BY DEF LinkTypes
  <1>5. StackType
    BY DEF StackType
  <1>6. CarriedIds
    BY DEF CarriedIds, Idle
  <1> QED
    BY <1>1, <1>2, <1>3, <1>4, <1>5, <1>6 DEF TypeInv, TypeOK

LEMMA StackTypeNext == TypeInv /\ StackInv /\ [Next]_vars => StackType'
  <1> SUFFICES ASSUME StackType, LinkTypes, StackInv, [Next]_vars PROVE StackType'
    BY DEF TypeInv, TypeOK
  <1>1. CASE UNCHANGED stack
    BY <1>1 DEF StackType
  <1>2. CASE CallBegin
    <2>1. [in |-> "call"] \in Frame
      BY DEF Frame
    <2> QED
      BY <2>1, <1>2 DEF CallBegin, StackType
  <1>3. ASSUME NEW rule \in Rules, AddMatchBegin(rule)
        PROVE  StackType'
    <2>1. [in |-> "addMatch", rule |-> rule, on |-> conn] \in Frame
      BY <1>3 DEF AddMatchBegin, Frame, LinkTypes
    <2> QED
      BY <2>1, <1>3 DEF AddMatchBegin, StackType
  <1>4. CASE CallThrows \/ CallSends \/ AddMatchRemembers
    <2>1. stack # <<>> /\ stack' = Front(stack)
      BY <1>4 DEF CallThrows, CallSends, AddMatchRemembers, Converted, StackInv
    <2> QED
      BY <2>1, StackProperties DEF StackType
  <1>5. CASE \/ ConnectSteps \/ WorkerSteps \/ PumpSteps \/ UpdateSteps
             \/ ShutdownSteps \/ BusSteps
    <2>1. UNCHANGED stack
      BY <1>5
      DEF ConnectSteps, ConnectCall, ConnectCheckConnecting, ConnectCheckDead,
          ReconnectJoinWorker, ReconnectForget, ConnectCheckConn, ConnectRegister,
          ConnectSpawn, WorkerSteps, DialFails, DialSucceeds, DialledCheck, WalkBegin,
          WalkEnds, Publish, ClaimPump, SpawnPump, TakeWaiters, DeliverToWaiters,
          PumpSteps, PumpLoop, PumpPop, PumpPush, PumpEmpty, PumpCheck, UpdateSteps,
          UpdateTimeouts, UpdateDrain, SettleReply, SettleTimeouts, ShutdownSteps,
          ShutdownBegin, ShutdownJoinWorker, ShutdownClear, BusSteps, PeerAnswers,
          BusDrops, stateVars
    <2> QED
      BY <2>1, <1>1
  <1>6. CASE AddMatchSends
    BY <1>6, <1>1 DEF AddMatchSends
  <1> QED
    BY <1>1, <1>2, <1>3, <1>4, <1>5, <1>6 DEF Next, vars, stateVars, CallSteps, AddMatchSteps

LEMMA TypeNext == TypeInv /\ StackInv /\ [Next]_vars => TypeInv'
  <1> SUFFICES ASSUME TypeInv, StackInv, [Next]_vars PROVE TypeInv'
    OBVIOUS
  <1>0. StackType'
    BY StackTypeNext
  <1> USE AnyBusType, BoundsAssumption
      DEF jsVars, promiseVars, updateVars, stateVars, linkVars, TypeInv, TypeOK
  <1>1. CASE UNCHANGED vars
    BY <1>0, <1>1 DEF vars, ThreadTypes, PromiseTypes, FlagTypes, LinkTypes, CarriedIds
  <1>2. CASE Next
    <2>1. ASSUME NEW bus \in Buses, ConnectCall(bus)
          PROVE  TypeInv'
      <3>1. ThreadTypes'
        <4>1. js' \in [pc : JsPcs, bus : Buses, id : Ids \cup {0}]
          BY <2>1 DEF ConnectCall, ThreadTypes, JsPcs
        <4>2. connectCalls' \in Nat
          BY <2>1 DEF ConnectCall, ThreadTypes
        <4> QED
          BY <4>1, <4>2, <2>1 DEF ConnectCall, ThreadTypes
      <3>2. PromiseTypes'  BY <2>1 DEF ConnectCall, PromiseTypes
      <3>3. FlagTypes'  BY <2>1 DEF ConnectCall, FlagTypes
      <3>4. LinkTypes'  BY <2>1 DEF ConnectCall, LinkTypes
      <3>5. CarriedIds'  BY <2>1 DEF ConnectCall, CarriedIds, Ids
      <3> QED BY <1>0, <3>1, <3>2, <3>3, <3>4, <3>5
    <2>2. CASE ConnectCheckConnecting
      <3>1. ThreadTypes'  BY <2>2 DEF ConnectCheckConnecting, ThreadTypes, Idle, JsPcs
      <3>2. PromiseTypes'  BY <2>2 DEF ConnectCheckConnecting, PromiseTypes
      <3>3. FlagTypes'  BY <2>2 DEF ConnectCheckConnecting, FlagTypes
      <3>4. LinkTypes'  BY <2>2 DEF ConnectCheckConnecting, LinkTypes
      <3>5. CarriedIds'  BY <2>2 DEF ConnectCheckConnecting, CarriedIds, Idle
      <3> QED BY <1>0, <3>1, <3>2, <3>3, <3>4, <3>5
    <2>3. CASE ConnectCheckDead
      <3>1. ThreadTypes'  BY <2>3 DEF ConnectCheckDead, ThreadTypes, JsPcs
      <3>2. PromiseTypes'  BY <2>3 DEF ConnectCheckDead, PromiseTypes
      <3>3. FlagTypes'  BY <2>3 DEF ConnectCheckDead, FlagTypes
      <3>4. LinkTypes'  BY <2>3 DEF ConnectCheckDead, LinkTypes
      <3>5. CarriedIds'  BY <2>3 DEF ConnectCheckDead, CarriedIds, ThreadTypes
      <3> QED BY <1>0, <3>1, <3>2, <3>3, <3>4, <3>5
    <2>4. CASE ReconnectJoinWorker
      <3>1. ThreadTypes'  BY <2>4 DEF ReconnectJoinWorker, ThreadTypes, NoThread, JsPcs, WorkerPcs
      <3>2. PromiseTypes'  BY <2>4 DEF ReconnectJoinWorker, PromiseTypes
      <3>3. FlagTypes'  BY <2>4 DEF ReconnectJoinWorker, FlagTypes
      <3>4. LinkTypes'  BY <2>4 DEF ReconnectJoinWorker, LinkTypes
      <3>5. CarriedIds'  BY <2>4 DEF ReconnectJoinWorker, CarriedIds, ThreadTypes
      <3> QED BY <1>0, <3>1, <3>2, <3>3, <3>4, <3>5
    <2>5. CASE ReconnectForget
      <3>1. ThreadTypes'  BY <2>5 DEF ReconnectForget, ThreadTypes, JsPcs, PumpPcs
      <3>2. PromiseTypes'
        <4>1. PICK order \in SetToSeqs(promises) :
                 replies' = replies \o
                     [i \in DOMAIN order |-> Reply(order[i], "disconnected", 0)]
          BY <2>5 DEF ReconnectForget
        <4>3. Cardinality(promises) \in Nat
          BY PromisesFinite
        <4>4. order \in [1..Cardinality(promises) -> promises]
          BY DEF SetToSeqs
        <4>5. [i \in DOMAIN order |-> Reply(order[i], "disconnected", 0)]
                 \in [1..Cardinality(promises) -> ReplyItem]
          BY <4>4 DEF PromiseTypes, Reply, ReplyItem, LocalKinds
        <4>6. replies' \in Seq(ReplyItem)
          BY <4>1, <4>3, <4>5, FunctionIsSeq DEF PromiseTypes
        <4> QED
          BY <4>6, <2>5 DEF ReconnectForget, PromiseTypes
      <3>3. FlagTypes'  BY <2>5 DEF ReconnectForget, FlagTypes
      <3>4. LinkTypes'  BY <2>5 DEF ReconnectForget, LinkTypes
      <3>5. CarriedIds'  BY <2>5 DEF ReconnectForget, CarriedIds, ThreadTypes
      <3> QED BY <1>0, <3>1, <3>2, <3>3, <3>4, <3>5
    <2>6. CASE ConnectCheckConn
      <3>1. ThreadTypes'
        <4>1. CASE conn # NULL
          <5>1. js' = Idle /\ granted' = granted \cup {<<js.bus, linkBus>>}
            BY <4>1, <2>6 DEF ConnectCheckConn
          <5> QED
            BY <5>1, <2>6 DEF ConnectCheckConn, ThreadTypes, LinkTypes, Idle, JsPcs
        <4>2. CASE conn = NULL
          <5>1. js' = [js EXCEPT !.pc = "register", !.id = nextId] /\ nextId \in Ids
            BY <4>2, <2>6 DEF ConnectCheckConn, CarriedIds
          <5>2. granted' = granted
            BY <4>2, <2>6 DEF ConnectCheckConn
          <5> QED
            BY <5>1, <5>2, <2>6 DEF ConnectCheckConn, ThreadTypes, JsPcs
        <4> QED
          BY <4>1, <4>2
      <3>2. PromiseTypes'  BY <2>6 DEF ConnectCheckConn, PromiseTypes, NewPromise, CarriedIds
      <3>3. FlagTypes'  BY <2>6 DEF ConnectCheckConn, FlagTypes
      <3>4. LinkTypes'  BY <2>6 DEF ConnectCheckConn, LinkTypes, ThreadTypes
      <3>5. CarriedIds'
        <4>1. CASE conn # NULL
          <5>1. js' = Idle
            BY <4>1, <2>6 DEF ConnectCheckConn
          <5> QED
            BY <5>1, <2>6 DEF ConnectCheckConn, CarriedIds, Idle
        <4>2. CASE conn = NULL
          <5>1. js' = [js EXCEPT !.pc = "register", !.id = nextId] /\ nextId \in Ids
            BY <4>2, <2>6 DEF ConnectCheckConn, CarriedIds
          <5> QED
            BY <5>1, <2>6 DEF ConnectCheckConn, CarriedIds, ThreadTypes
        <4> QED
          BY <4>1, <4>2
      <3> QED BY <1>0, <3>1, <3>2, <3>3, <3>4, <3>5
    <2>7. CASE ConnectRegister
      <3>1. ThreadTypes'
        <4>1. js' \in [pc : JsPcs, bus : Buses, id : Ids \cup {0}]
          BY <2>7 DEF ConnectRegister, ThreadTypes, Idle, JsPcs
        <4>2. granted' \subseteq Buses \X Buses
          BY <2>7 DEF ConnectRegister, ThreadTypes, LinkTypes
        <4> QED
          BY <4>1, <4>2, <2>7 DEF ConnectRegister, ThreadTypes
      <3>2. PromiseTypes'
        <4>1. js.id \in Ids
          BY <2>7 DEF ConnectRegister, CarriedIds
        <4>2. Reply(js.id, "connected", 0) \in ReplyItem
          BY <4>1 DEF Reply, ReplyItem, LocalKinds
        <4>3. CASE conn # NULL
          <5>1. replies' = Append(replies, Reply(js.id, "connected", 0)) /\ waiters' = waiters
            BY <4>3, <2>7 DEF ConnectRegister
          <5> QED
            BY <4>2, <5>1, <2>7 DEF ConnectRegister, PromiseTypes
        <4>4. CASE conn = NULL
          <5>1. replies' = replies /\ waiters' = Append(waiters, js.id)
            BY <4>4, <2>7 DEF ConnectRegister
          <5> QED
            BY <4>1, <5>1, <2>7 DEF ConnectRegister, PromiseTypes
        <4> QED
          BY <4>3, <4>4
      <3>3. FlagTypes'  BY <2>7 DEF ConnectRegister, FlagTypes
      <3>4. LinkTypes'  BY <2>7 DEF ConnectRegister, LinkTypes
      <3>5. CarriedIds'  BY <2>7 DEF ConnectRegister, CarriedIds, Idle, ThreadTypes
      <3> QED BY <1>0, <3>1, <3>2, <3>3, <3>4, <3>5
    <2>8. CASE ConnectSpawn
      <3>1. ThreadTypes'  BY <2>8 DEF ConnectSpawn, ThreadTypes, Idle, JsPcs, WorkerPcs
      <3>2. PromiseTypes'  BY <2>8 DEF ConnectSpawn, PromiseTypes
      <3>3. FlagTypes'  BY <2>8 DEF ConnectSpawn, FlagTypes
      <3>4. LinkTypes'  BY <2>8 DEF ConnectSpawn, LinkTypes
      <3>5. CarriedIds'  BY <2>8 DEF ConnectSpawn, CarriedIds, Idle
      <3> QED BY <1>0, <3>1, <3>2, <3>3, <3>4, <3>5
    <2>9. CASE DialFails
      <3>1. ThreadTypes'  BY <2>9 DEF DialFails, ThreadTypes, WorkerPcs
      <3>2. PromiseTypes'  BY <2>9 DEF DialFails, PromiseTypes
      <3>3. FlagTypes'  BY <2>9 DEF DialFails, FlagTypes
      <3>4. LinkTypes'  BY <2>9 DEF DialFails, LinkTypes
      <3>5. CarriedIds'  BY <2>9 DEF DialFails, CarriedIds
      <3> QED BY <1>0, <3>1, <3>2, <3>3, <3>4, <3>5
    <2>10. CASE DialSucceeds
      <3>1. ThreadTypes'
        <4>1. dials + 1 \in Conns
          BY <2>10 DEF DialSucceeds, Conns
        <4>2. worker' \in [pc : WorkerPcs, bus : Buses, conn : Conns \cup {NULL}, took : Seq(Ids)]
          BY <4>1, <2>10 DEF DialSucceeds, ThreadTypes, WorkerPcs
        <4> QED
          BY <4>2, <2>10 DEF DialSucceeds, ThreadTypes
      <3>2. PromiseTypes'  BY <2>10 DEF DialSucceeds, PromiseTypes
      <3>3. FlagTypes'  BY <2>10 DEF DialSucceeds, FlagTypes
      <3>4. LinkTypes'  BY <2>10 DEF DialSucceeds, LinkTypes, ThreadTypes
      <3>5. CarriedIds'  BY <2>10 DEF DialSucceeds, CarriedIds
      <3> QED BY <1>0, <3>1, <3>2, <3>3, <3>4, <3>5
    <2>11. CASE DialledCheck
      <3>1. ThreadTypes'
        <4>1. CASE worker' = NoThread("done")
          BY <4>1, <2>11 DEF DialledCheck, ThreadTypes, NoThread, NULL, WorkerPcs
        <4>2. CASE worker' = [worker EXCEPT !.pc = "rules"]
          BY <4>2, <2>11 DEF DialledCheck, ThreadTypes, WorkerPcs
        <4> QED
          BY <4>1, <4>2, <2>11 DEF DialledCheck
      <3>2. PromiseTypes'  BY <2>11 DEF DialledCheck, PromiseTypes
      <3>3. FlagTypes'  BY <2>11 DEF DialledCheck, FlagTypes
      <3>4. LinkTypes'  BY <2>11 DEF DialledCheck, LinkTypes
      <3>5. CarriedIds'  BY <2>11 DEF DialledCheck, CarriedIds
      <3> QED BY <1>0, <3>1, <3>2, <3>3, <3>4, <3>5
    <2>12. CASE WalkBegin
      <3>1. ThreadTypes'  BY <2>12 DEF WalkBegin, ThreadTypes, WorkerPcs
      <3>2. PromiseTypes'  BY <2>12 DEF WalkBegin, PromiseTypes
      <3>3. FlagTypes'  BY <2>12 DEF WalkBegin, FlagTypes
      <3>4. LinkTypes'  BY <2>12 DEF WalkBegin, LinkTypes
      <3>5. CarriedIds'  BY <2>12 DEF WalkBegin, CarriedIds
      <3> QED BY <1>0, <3>1, <3>2, <3>3, <3>4, <3>5
    <2>13. CASE WalkEnds
      <3>1. ThreadTypes'  BY <2>13 DEF WalkEnds, ThreadTypes, WorkerPcs
      <3>2. PromiseTypes'  BY <2>13 DEF WalkEnds, PromiseTypes
      <3>3. FlagTypes'  BY <2>13 DEF WalkEnds, FlagTypes
      <3>4. LinkTypes'  BY <2>13 DEF WalkEnds, LinkTypes
      <3>5. CarriedIds'  BY <2>13 DEF WalkEnds, CarriedIds
      <3> QED BY <1>0, <3>1, <3>2, <3>3, <3>4, <3>5
    <2>14. CASE Publish
      <3>1. ThreadTypes'  BY <2>14 DEF Publish, ThreadTypes, WorkerPcs
      <3>2. PromiseTypes'  BY <2>14 DEF Publish, PromiseTypes
      <3>3. FlagTypes'  BY <2>14 DEF Publish, FlagTypes
      <3>4. LinkTypes'  BY <2>14 DEF Publish, LinkTypes, ThreadTypes
      <3>5. CarriedIds'  BY <2>14 DEF Publish, CarriedIds
      <3> QED BY <1>0, <3>1, <3>2, <3>3, <3>4, <3>5
    <2>15. CASE ClaimPump
      <3>1. ThreadTypes'  BY <2>15 DEF ClaimPump, ThreadTypes, WorkerPcs
      <3>2. PromiseTypes'  BY <2>15 DEF ClaimPump, PromiseTypes
      <3>3. FlagTypes'  BY <2>15 DEF ClaimPump, FlagTypes
      <3>4. LinkTypes'  BY <2>15 DEF ClaimPump, LinkTypes
      <3>5. CarriedIds'  BY <2>15 DEF ClaimPump, CarriedIds
      <3> QED BY <1>0, <3>1, <3>2, <3>3, <3>4, <3>5
    <2>16. CASE SpawnPump
      <3>1. ThreadTypes'  BY <2>16 DEF SpawnPump, ThreadTypes, WorkerPcs, PumpPcs
      <3>2. PromiseTypes'  BY <2>16 DEF SpawnPump, PromiseTypes
      <3>3. FlagTypes'  BY <2>16 DEF SpawnPump, FlagTypes
      <3>4. LinkTypes'  BY <2>16 DEF SpawnPump, LinkTypes
      <3>5. CarriedIds'  BY <2>16 DEF SpawnPump, CarriedIds
      <3> QED BY <1>0, <3>1, <3>2, <3>3, <3>4, <3>5
    <2>17. CASE TakeWaiters
      <3>1. ThreadTypes'  BY <2>17 DEF TakeWaiters, ThreadTypes, WorkerPcs, PromiseTypes
      <3>2. PromiseTypes'  BY <2>17 DEF TakeWaiters, PromiseTypes
      <3>3. FlagTypes'  BY <2>17 DEF TakeWaiters, FlagTypes
      <3>4. LinkTypes'  BY <2>17 DEF TakeWaiters, LinkTypes
      <3>5. CarriedIds'  BY <2>17 DEF TakeWaiters, CarriedIds
      <3> QED BY <1>0, <3>1, <3>2, <3>3, <3>4, <3>5
    <2>18. CASE DeliverToWaiters
      <3>1. ThreadTypes'  BY <2>18 DEF DeliverToWaiters, ThreadTypes, NoThread, WorkerPcs, LinkTypes
      <3>2. PromiseTypes'
        <4> DEFINE kind == IF worker.conn # NULL THEN "connected" ELSE "connectFailed"
                   sent == [i \in DOMAIN worker.took |-> Reply(worker.took[i], kind, 0)]
        <4>1. worker.took \in Seq(Ids)
          BY DEF ThreadTypes
        <4>2. sent \in [1..Len(worker.took) -> ReplyItem]
          BY <4>1 DEF Reply, ReplyItem, LocalKinds
        <4>3. sent \in Seq(ReplyItem)
          BY <4>1, <4>2, FunctionIsSeq
        <4>4. replies' = replies \o sent
          BY <2>18 DEF DeliverToWaiters
        <4>5. replies' \in Seq(ReplyItem)
          BY <4>3, <4>4 DEF PromiseTypes
        <4> QED
          BY <4>5, <2>18 DEF DeliverToWaiters, PromiseTypes
      <3>3. FlagTypes'  BY <2>18 DEF DeliverToWaiters, FlagTypes
      <3>4. LinkTypes'  BY <2>18 DEF DeliverToWaiters, LinkTypes
      <3>5. CarriedIds'  BY <2>18 DEF DeliverToWaiters, CarriedIds
      <3> QED BY <1>0, <3>1, <3>2, <3>3, <3>4, <3>5
    <2>19. CASE PumpLoop
      <3>1. ThreadTypes'  BY <2>19 DEF PumpLoop, ThreadTypes, PumpPcs
      <3>2. PromiseTypes'  BY <2>19 DEF PumpLoop, PromiseTypes
      <3>3. FlagTypes'  BY <2>19 DEF PumpLoop, FlagTypes
      <3>4. LinkTypes'  BY <2>19 DEF PumpLoop, LinkTypes
      <3>5. CarriedIds'  BY <2>19 DEF PumpLoop, CarriedIds, ThreadTypes
      <3> QED BY <1>0, <3>1, <3>2, <3>3, <3>4, <3>5
    <2>20. CASE PumpPop
      <3>1. ThreadTypes'
        <4>1. inbox # <<>> => Head(inbox) \in Message
          BY DEF LinkTypes
        <4>2. pump' \in [pc : PumpPcs, id : Ids \cup {0}, call : Ids \cup {0}]
          BY <4>1, <2>20 DEF PumpPop, ThreadTypes, PumpPcs, PromiseTypes, Message
        <4> QED
          BY <4>2, <2>20 DEF PumpPop, ThreadTypes
      <3>2. PromiseTypes'  BY <2>20 DEF PumpPop, PromiseTypes
      <3>3. FlagTypes'  BY <2>20 DEF PumpPop, FlagTypes
      <3>4. LinkTypes'  BY <2>20 DEF PumpPop, LinkTypes
      <3>5. CarriedIds'
        <4>1. pump'.pc = "push" => pump'.id \in Ids
          BY <2>20 DEF PumpPop, PromiseTypes, ThreadTypes
        <4> QED
          BY <4>1, <2>20 DEF PumpPop, CarriedIds
      <3> QED BY <1>0, <3>1, <3>2, <3>3, <3>4, <3>5
    <2>21. CASE PumpPush
      <3>1. ThreadTypes'  BY <2>21 DEF PumpPush, ThreadTypes, PumpPcs
      <3>2. PromiseTypes'
        <4>1. Reply(pump.id, "reply", pump.call) \in ReplyItem
          BY <2>21 DEF PumpPush, CarriedIds, ThreadTypes, Reply, ReplyItem
        <4>2. replies' \in Seq(ReplyItem)
          BY <4>1, <2>21 DEF PumpPush, PromiseTypes
        <4> QED
          BY <4>2, <2>21 DEF PumpPush, PromiseTypes
      <3>3. FlagTypes'  BY <2>21 DEF PumpPush, FlagTypes
      <3>4. LinkTypes'  BY <2>21 DEF PumpPush, LinkTypes
      <3>5. CarriedIds'  BY <2>21 DEF PumpPush, CarriedIds
      <3> QED BY <1>0, <3>1, <3>2, <3>3, <3>4, <3>5
    <2>22. CASE PumpEmpty
      <3>1. ThreadTypes'  BY <2>22 DEF PumpEmpty, ThreadTypes, PumpPcs
      <3>2. PromiseTypes'  BY <2>22 DEF PumpEmpty, PromiseTypes
      <3>3. FlagTypes'  BY <2>22 DEF PumpEmpty, FlagTypes
      <3>4. LinkTypes'  BY <2>22 DEF PumpEmpty, LinkTypes
      <3>5. CarriedIds'  BY <2>22 DEF PumpEmpty, CarriedIds, ThreadTypes
      <3> QED BY <1>0, <3>1, <3>2, <3>3, <3>4, <3>5
    <2>23. CASE PumpCheck
      <3>1. ThreadTypes'  BY <2>23 DEF PumpCheck, ThreadTypes, PumpPcs
      <3>2. PromiseTypes'  BY <2>23 DEF PumpCheck, PromiseTypes
      <3>3. FlagTypes'  BY <2>23 DEF PumpCheck, FlagTypes
      <3>4. LinkTypes'  BY <2>23 DEF PumpCheck, LinkTypes
      <3>5. CarriedIds'  BY <2>23 DEF PumpCheck, CarriedIds, ThreadTypes
      <3> QED BY <1>0, <3>1, <3>2, <3>3, <3>4, <3>5
    <2>24. CASE CallBegin
      <3>1. ThreadTypes'  BY <2>24 DEF CallBegin, ThreadTypes, Frame
      <3>2. PromiseTypes'  BY <2>24 DEF CallBegin, PromiseTypes
      <3>3. FlagTypes'  BY <2>24 DEF CallBegin, FlagTypes
      <3>4. LinkTypes'  BY <2>24 DEF CallBegin, LinkTypes
      <3>5. CarriedIds'  BY <2>24 DEF CallBegin, CarriedIds, Callable
      <3> QED BY <1>0, <3>1, <3>2, <3>3, <3>4, <3>5
    <2>25. CASE CallThrows
      <3>1. ThreadTypes'  BY <2>25 DEF CallThrows, ThreadTypes
      <3>2. PromiseTypes'  BY <2>25 DEF CallThrows, PromiseTypes
      <3>3. FlagTypes'  BY <2>25 DEF CallThrows, FlagTypes
      <3>4. LinkTypes'  BY <2>25 DEF CallThrows, LinkTypes
      <3>5. CarriedIds'  BY <2>25 DEF CallThrows, CarriedIds, Converted
      <3> QED BY <1>0, <3>1, <3>2, <3>3, <3>4, <3>5
    <2>26. CASE CallSends
      <3>1. ThreadTypes'  BY <2>26 DEF CallSends, ThreadTypes
      <3>2. serialMap' \in [DOMAIN serialMap' -> Ids] /\ DOMAIN serialMap' \subseteq Nat
        <4>1. CASE conn = NULL
          BY <4>1, <2>26 DEF CallSends, PromiseTypes
        <4>2. CASE conn # NULL
          BY <4>2, <2>26 DEF CallSends, PromiseTypes, LinkTypes
        <4> QED
          BY <4>1, <4>2
      <3>3. PromiseTypes'
        <4>1. promises' \subseteq Ids /\ nextId' \in Nat \ {0} /\ outcome' = outcome
          BY <2>26 DEF CallSends, NewPromise, PromiseTypes
        <4> QED
          BY <3>2, <4>1, <2>26 DEF CallSends, PromiseTypes
      <3>4. FlagTypes'  BY <2>26 DEF CallSends, FlagTypes
      <3>5. serial' \in Nat /\ requests' \subseteq [serial : Nat, id : Ids]
        <4>1. CASE conn = NULL
          BY <4>1, <2>26 DEF CallSends, LinkTypes
        <4>2. CASE conn # NULL
          BY <4>2, <2>26 DEF CallSends, LinkTypes, Ids
        <4> QED
          BY <4>1, <4>2
      <3>6. LinkTypes'  BY <3>5, <2>26 DEF CallSends, LinkTypes
      <3>7. CarriedIds'  BY <2>26 DEF CallSends, Converted, CarriedIds
      <3> QED BY <1>0, <3>1, <3>3, <3>4, <3>6, <3>7
    <2>27. ASSUME NEW rule \in Rules, AddMatchBegin(rule)
          PROVE  TypeInv'
      <3>1. ThreadTypes'  BY <2>27 DEF AddMatchBegin, ThreadTypes
      <3>2. PromiseTypes'  BY <2>27 DEF AddMatchBegin, PromiseTypes
      <3>3. FlagTypes'  BY <2>27 DEF AddMatchBegin, FlagTypes
      <3>4. LinkTypes'  BY <2>27 DEF AddMatchBegin, LinkTypes
      <3>5. CarriedIds'  BY <2>27 DEF AddMatchBegin, CarriedIds, Callable
      <3> QED BY <1>0, <3>1, <3>2, <3>3, <3>4, <3>5
    <2>28. CASE AddMatchSends
      <3>1. Last(stack) \in Frame /\ Last(stack).in = "addMatch"
        BY <2>28, StackProperties DEF AddMatchSends, Converted, StackType
      <3>2. Last(stack).rule \in Rules
        BY <3>1 DEF Frame
      <3>3. ThreadTypes'  BY <2>28 DEF AddMatchSends, ThreadTypes, JsPcs
      <3>4. PromiseTypes'  BY <2>28 DEF AddMatchSends, PromiseTypes
      <3>5. FlagTypes'  BY <2>28 DEF AddMatchSends, FlagTypes
      <3>6. LinkTypes'  BY <3>2, <2>28 DEF AddMatchSends, LinkTypes
      <3>7. CarriedIds'  BY <2>28 DEF AddMatchSends, Converted, CarriedIds, ThreadTypes
      <3> QED BY <1>0, <3>3, <3>4, <3>5, <3>6, <3>7
    <2>29. CASE AddMatchRemembers
      <3>1. stack # <<>> /\ Last(stack).in = "addMatch"
        BY <2>29 DEF AddMatchRemembers, StackInv
      <3>2. Last(stack) \in Frame
        BY <3>1, StackProperties DEF StackType
      <3>3. Last(stack).rule \in Rules
        BY <3>1, <3>2 DEF Frame
      <3>4. ThreadTypes'  BY <2>29 DEF AddMatchRemembers, ThreadTypes, Idle, JsPcs
      <3>5. PromiseTypes'  BY <2>29 DEF AddMatchRemembers, PromiseTypes
      <3>6. FlagTypes'  BY <2>29 DEF AddMatchRemembers, FlagTypes
      <3>7. LinkTypes'  BY <3>3, <2>29 DEF AddMatchRemembers, LinkTypes
      <3>8. CarriedIds'  BY <2>29 DEF AddMatchRemembers, CarriedIds, Idle
      <3> QED BY <1>0, <3>4, <3>5, <3>6, <3>7, <3>8
    <2>30. ASSUME NEW due \in SUBSET promises, UpdateTimeouts(due)
          PROVE  TypeInv'
      <3>1. ThreadTypes'  BY <2>30 DEF UpdateTimeouts, ThreadTypes, JsPcs
      <3>2. PromiseTypes'  BY <2>30 DEF UpdateTimeouts, PromiseTypes
      <3>3. FlagTypes'  BY <2>30 DEF UpdateTimeouts, FlagTypes
      <3>4. LinkTypes'  BY <2>30 DEF UpdateTimeouts, LinkTypes
      <3>5. CarriedIds'  BY <2>30 DEF UpdateTimeouts, CarriedIds, ThreadTypes
      <3> QED BY <1>0, <3>1, <3>2, <3>3, <3>4, <3>5
    <2>31. CASE UpdateDrain
      <3>1. ThreadTypes'  BY <2>31 DEF UpdateDrain, ThreadTypes, JsPcs
      <3>2. PromiseTypes'  BY <2>31 DEF UpdateDrain, PromiseTypes
      <3>3. FlagTypes'  BY <2>31 DEF UpdateDrain, FlagTypes
      <3>4. LinkTypes'  BY <2>31 DEF UpdateDrain, LinkTypes
      <3>5. CarriedIds'  BY <2>31 DEF UpdateDrain, CarriedIds, ThreadTypes
      <3> QED BY <1>0, <3>1, <3>2, <3>3, <3>4, <3>5
    <2>32. CASE SettleReply
      <3>1. ThreadTypes'  BY <2>32 DEF SettleReply, ThreadTypes
      <3>2. PromiseTypes'
        <4>1. Head(batch) \in ReplyItem /\ Tail(batch) \in Seq(ReplyItem)
          BY <2>32 DEF SettleReply, PromiseTypes
        <4>2. [kind |-> Head(batch).kind, call |-> Head(batch).call] \in Outcome
          BY <4>1 DEF ReplyItem, Outcome
        <4>3. outcome' \in [Ids -> Outcome]
          BY <4>2, <2>32 DEF SettleReply, PromiseTypes
        <4> QED
          BY <4>1, <4>3, <2>32 DEF SettleReply, PromiseTypes
      <3>3. FlagTypes'  BY <2>32 DEF SettleReply, FlagTypes
      <3>4. LinkTypes'  BY <2>32 DEF SettleReply, LinkTypes
      <3>5. CarriedIds'  BY <2>32 DEF SettleReply, CarriedIds
      <3> QED BY <1>0, <3>1, <3>2, <3>3, <3>4, <3>5
    <2>33. CASE SettleTimeouts
      <3>1. ThreadTypes'  BY <2>33 DEF SettleTimeouts, ThreadTypes, Idle, JsPcs
      <3>2. PromiseTypes'
        <4>1. [kind |-> "timeout", call |-> 0] \in Outcome
          BY DEF Outcome, LocalKinds
        <4>2. outcome' \in [Ids -> Outcome]
          BY <4>1, <2>33 DEF SettleTimeouts, PromiseTypes
        <4> QED
          BY <4>2, <2>33 DEF SettleTimeouts, PromiseTypes
      <3>3. FlagTypes'  BY <2>33 DEF SettleTimeouts, FlagTypes
      <3>4. LinkTypes'  BY <2>33 DEF SettleTimeouts, LinkTypes
      <3>5. CarriedIds'  BY <2>33 DEF SettleTimeouts, CarriedIds, Idle
      <3> QED BY <1>0, <3>1, <3>2, <3>3, <3>4, <3>5
    <2>34. CASE ShutdownBegin
      <3>1. ThreadTypes'  BY <2>34 DEF ShutdownBegin, ThreadTypes, JsPcs
      <3>2. PromiseTypes'  BY <2>34 DEF ShutdownBegin, PromiseTypes
      <3>3. FlagTypes'  BY <2>34 DEF ShutdownBegin, FlagTypes
      <3>4. LinkTypes'  BY <2>34 DEF ShutdownBegin, LinkTypes
      <3>5. CarriedIds'  BY <2>34 DEF ShutdownBegin, CarriedIds, ThreadTypes
      <3> QED BY <1>0, <3>1, <3>2, <3>3, <3>4, <3>5
    <2>35. CASE ShutdownJoinWorker
      <3>1. ThreadTypes'  BY <2>35 DEF ShutdownJoinWorker, ThreadTypes, NoThread, JsPcs, WorkerPcs
      <3>2. PromiseTypes'  BY <2>35 DEF ShutdownJoinWorker, PromiseTypes
      <3>3. FlagTypes'  BY <2>35 DEF ShutdownJoinWorker, FlagTypes
      <3>4. LinkTypes'  BY <2>35 DEF ShutdownJoinWorker, LinkTypes
      <3>5. CarriedIds'  BY <2>35 DEF ShutdownJoinWorker, CarriedIds, ThreadTypes
      <3> QED BY <1>0, <3>1, <3>2, <3>3, <3>4, <3>5
    <2>36. CASE ShutdownClear
      <3>1. ThreadTypes'  BY <2>36 DEF ShutdownClear, ThreadTypes, Idle, JsPcs, PumpPcs
      <3>2. PromiseTypes'  BY <2>36 DEF ShutdownClear, PromiseTypes
      <3>3. FlagTypes'  BY <2>36 DEF ShutdownClear, FlagTypes
      <3>4. LinkTypes'  BY <2>36 DEF ShutdownClear, LinkTypes
      <3>5. CarriedIds'  BY <2>36 DEF ShutdownClear, CarriedIds, Idle, ThreadTypes
      <3> QED BY <1>0, <3>1, <3>2, <3>3, <3>4, <3>5
    <2>37. ASSUME NEW req \in requests, PeerAnswers(req)
          PROVE  TypeInv'
      <3>1. ThreadTypes'  BY <2>37 DEF PeerAnswers, ThreadTypes
      <3>2. PromiseTypes'  BY <2>37 DEF PeerAnswers, PromiseTypes
      <3>3. FlagTypes'  BY <2>37 DEF PeerAnswers, FlagTypes
      <3>4. LinkTypes'  BY <2>37 DEF PeerAnswers, LinkTypes, Message
      <3>5. CarriedIds'  BY <2>37 DEF PeerAnswers, CarriedIds
      <3> QED BY <1>0, <3>1, <3>2, <3>3, <3>4, <3>5
    <2>38. CASE BusDrops
      <3>1. ThreadTypes'  BY <2>38 DEF BusDrops, ThreadTypes
      <3>2. PromiseTypes'  BY <2>38 DEF BusDrops, PromiseTypes
      <3>3. FlagTypes'  BY <2>38 DEF BusDrops, FlagTypes
      <3>4. LinkTypes'  BY <2>38 DEF BusDrops, LinkTypes
      <3>5. CarriedIds'  BY <2>38 DEF BusDrops, CarriedIds
      <3> QED BY <1>0, <3>1, <3>2, <3>3, <3>4, <3>5
    <2> QED
      BY <1>2,
         <2>1, <2>2, <2>3, <2>4, <2>5, <2>6, <2>7, <2>8, <2>9, <2>10,
         <2>11, <2>12, <2>13, <2>14, <2>15, <2>16, <2>17, <2>18, <2>19, <2>20,
         <2>21, <2>22, <2>23, <2>24, <2>25, <2>26, <2>27, <2>28, <2>29, <2>30,
         <2>31, <2>32, <2>33, <2>34, <2>35, <2>36, <2>37, <2>38
      DEF Next, ConnectSteps, WorkerSteps, PumpSteps, CallSteps, AddMatchSteps, UpdateSteps,
          ShutdownSteps, BusSteps
  <1> QED
    BY <1>1, <1>2

(* The calls under way.                                                    *)
LEMMA StackNext == TypeInv /\ StackInv /\ [Next]_vars => StackInv'
  <1> SUFFICES ASSUME TypeInv /\ StackInv, [Next]_vars PROVE StackInv'
    OBVIOUS
  <1> USE DEF jsVars, promiseVars, updateVars, stateVars, linkVars, TypeInv, TypeOK,
              ThreadTypes, StackInv
  <1>1. CASE UNCHANGED vars
    BY <1>1 DEF vars
  <1>2. CASE Next
    <2>1. CASE CallBegin \/ \E rule \in Rules : AddMatchBegin(rule)
      <3>1. UNCHANGED <<js, context, shuttingDown>>
        BY <2>1 DEF CallBegin, AddMatchBegin
      <3>2. js.pc = "idle" /\ context /\ ~shuttingDown
        BY <2>1 DEF CallBegin, AddMatchBegin, Callable
      <3> QED
        BY <3>1, <3>2
    <2>2. CASE CallThrows \/ CallSends
      BY <2>2 DEF CallThrows, CallSends, Converted
    <2>3. CASE AddMatchSends
      BY <2>3 DEF AddMatchSends, Converted
    <2>4. CASE AddMatchRemembers
      BY <2>4 DEF AddMatchRemembers, Idle
    <2>5. CASE (\E due \in SUBSET promises : UpdateTimeouts(due)) \/ ShutdownBegin
      BY <2>5 DEF UpdateTimeouts, ShutdownBegin, ScriptOver
    <2>6. CASE ShutdownClear
      BY <2>6 DEF ShutdownClear, Idle
    <2>7. CASE UpdateDrain \/ SettleReply \/ SettleTimeouts \/ ShutdownJoinWorker
      BY <2>7 DEF UpdateDrain, SettleReply, SettleTimeouts, ShutdownJoinWorker, Idle
    <2>8. CASE ConnectSteps
      <3>1. UNCHANGED <<stack, context, shuttingDown>>
        BY <2>8
        DEF ConnectSteps, ConnectCall, ConnectCheckConnecting, ConnectCheckDead,
            ReconnectJoinWorker, ReconnectForget, ConnectCheckConn, ConnectRegister,
            ConnectSpawn
      <3>2. js'.pc \notin {"remember", "drain", "settle", "sdWorker", "sdPump"}
        <4>1. CASE \E bus \in Buses : ConnectCall(bus)
          BY <4>1 DEF ConnectCall
        <4>2. CASE ConnectCheckConn
          <5>1. CASE conn # NULL
            BY <5>1, <4>2 DEF ConnectCheckConn, Idle
          <5>2. CASE conn = NULL
            BY <5>2, <4>2 DEF ConnectCheckConn
          <5> QED
            BY <5>1, <5>2
        <4>3. CASE ConnectRegister
          BY <4>3 DEF ConnectRegister, Idle
        <4>4. CASE ConnectSpawn
          BY <4>4 DEF ConnectSpawn, Idle
        <4>5. CASE ConnectCheckConnecting
          BY <4>5 DEF ConnectCheckConnecting, Idle
        <4>6. CASE ConnectCheckDead
          BY <4>6 DEF ConnectCheckDead
        <4>7. CASE ReconnectJoinWorker
          BY <4>7 DEF ReconnectJoinWorker
        <4>8. CASE ReconnectForget
          BY <4>8 DEF ReconnectForget
        <4> QED
          BY <2>8, <4>1, <4>2, <4>3, <4>4, <4>5, <4>6, <4>7, <4>8 DEF ConnectSteps
      <3> QED
        BY <3>1, <3>2
    <2>9. CASE WorkerSteps \/ PumpSteps \/ BusSteps
      <3>1. UNCHANGED <<js, stack, context, shuttingDown>>
        BY <2>9
        DEF WorkerSteps, DialFails, DialSucceeds, DialledCheck, WalkBegin, WalkEnds,
            Publish, ClaimPump, SpawnPump, TakeWaiters, DeliverToWaiters, PumpSteps,
            PumpLoop, PumpPop, PumpPush, PumpEmpty, PumpCheck, BusSteps, PeerAnswers,
            BusDrops
      <3> QED
        BY <3>1
    <2> QED
      BY <1>2, <2>1, <2>2, <2>3, <2>4, <2>5, <2>6, <2>7, <2>8, <2>9
      DEF Next, CallSteps, AddMatchSteps, UpdateSteps, ShutdownSteps
  <1> QED
    BY <1>1, <1>2

(* The claim on the connect thread, and who waits for it.                  *)
LEMMA ControlNext ==
  TypeInv /\ StackInv /\ ControlInv /\ [Next]_vars => ControlInv'
  <1> SUFFICES ASSUME TypeInv /\ StackInv /\ ControlInv, [Next]_vars PROVE ControlInv'
    OBVIOUS
  <1> USE DEF jsVars, promiseVars, updateVars, stateVars, linkVars, TypeInv, TypeOK,
              ThreadTypes, FlagTypes, ControlInv, ShutdownInv, ConnectInv,
              NoStrandedWaiter, WorkerServing, WorkerDialling
  <1>1. CASE UNCHANGED vars
    BY <1>1 DEF vars
  <1>2. CASE Next
    <2>1. ASSUME NEW bus \in Buses, ConnectCall(bus)
          PROVE  ControlInv'
      BY <2>1 DEF ConnectCall, Callable
    <2>2. CASE ConnectCheckConnecting
      BY <2>2 DEF ConnectCheckConnecting, Idle
    <2>3. CASE ConnectCheckDead
      BY <2>3 DEF ConnectCheckDead
    <2>4. CASE ReconnectJoinWorker
      BY <2>4 DEF ReconnectJoinWorker, NoThread, WorkerEnded
    <2>5. CASE ReconnectForget
      BY <2>5 DEF ReconnectForget
    <2>6. CASE ConnectCheckConn
      <3>1. UNCHANGED <<worker, conn, connecting, shuttingDown, waiters, context>>
        BY <2>6 DEF ConnectCheckConn
      <3>2. js'.pc \in {"idle", "register"}
        <4>1. CASE conn # NULL
          BY <4>1, <2>6 DEF ConnectCheckConn, Idle
        <4>2. CASE conn = NULL
          BY <4>2, <2>6 DEF ConnectCheckConn
        <4> QED
          BY <4>1, <4>2
      <3> QED
        BY <3>1, <3>2, <2>6 DEF ConnectCheckConn
    <2>7. CASE ConnectRegister
      BY <2>7 DEF ConnectRegister, Idle
    <2>8. CASE ConnectSpawn
      BY <2>8 DEF ConnectSpawn, Idle, WorkerEnded
    <2>9. CASE DialFails
      BY <2>9 DEF DialFails
    <2>10. CASE DialSucceeds
      BY <2>10 DEF DialSucceeds
    <2>11. CASE DialledCheck
      BY <2>11 DEF DialledCheck, NoThread
    <2>12. CASE WalkBegin
      BY <2>12 DEF WalkBegin
    <2>13. CASE WalkEnds
      BY <2>13 DEF WalkEnds
    <2>14. CASE Publish
      BY <2>14 DEF Publish
    <2>15. CASE ClaimPump
      BY <2>15 DEF ClaimPump
    <2>16. CASE SpawnPump
      BY <2>16 DEF SpawnPump
    <2>17. CASE TakeWaiters
      BY <2>17 DEF TakeWaiters
    <2>18. CASE DeliverToWaiters
      BY <2>18 DEF DeliverToWaiters, NoThread
    <2>19. ASSUME NEW due \in SUBSET promises, UpdateTimeouts(due)
          PROVE  ControlInv'
      BY <2>19 DEF UpdateTimeouts, ScriptOver
    <2>20. CASE UpdateDrain
      BY <2>20 DEF UpdateDrain
    <2>21. CASE SettleTimeouts
      BY <2>21 DEF SettleTimeouts, Idle
    <2>22. CASE ShutdownBegin
      BY <2>22 DEF ShutdownBegin, ScriptOver
    <2>23. CASE ShutdownJoinWorker
      BY <2>23 DEF ShutdownJoinWorker, NoThread, WorkerEnded
    <2>24. CASE ShutdownClear
      BY <2>24 DEF ShutdownClear, Idle
    <2>25. CASE \/ PumpLoop
                \/ PumpPop
                \/ PumpPush
                \/ PumpEmpty
                \/ PumpCheck
                \/ CallSends
                \/ CallBegin
                \/ CallThrows
                \/ \E rule \in Rules : AddMatchBegin(rule)
                \/ SettleReply
                \/ \E req \in requests : PeerAnswers(req)
                \/ BusDrops
      <3>1. UNCHANGED <<js, worker, conn, connecting, shuttingDown, context, waiters>>
        BY <2>25
        DEF PumpLoop, PumpPop, PumpPush, PumpEmpty, PumpCheck, CallBegin, CallThrows,
            CallSends, AddMatchBegin, SettleReply, PeerAnswers, BusDrops, NewPromise
      <3> QED
        BY <3>1
    <2>26. CASE AddMatchSends
      BY <2>26 DEF AddMatchSends, Converted, StackInv
    <2>27. CASE AddMatchRemembers
      BY <2>27 DEF AddMatchRemembers, Idle
    <2> QED
      BY <1>2, <2>1, <2>2, <2>3, <2>4, <2>5, <2>6, <2>7, <2>8, <2>9, <2>10, <2>11,
         <2>12, <2>13, <2>14, <2>15, <2>16, <2>17, <2>18, <2>19, <2>20, <2>21, <2>22,
         <2>23, <2>24, <2>25, <2>26, <2>27
      DEF Next, ConnectSteps, WorkerSteps, PumpSteps, CallSteps, AddMatchSteps, UpdateSteps,
          ShutdownSteps, BusSteps
  <1> QED
    BY <1>1, <1>2

(* The match rules, remembered and installed.                              *)
LEMMA RulesNext ==
  TypeInv /\ ControlInv /\ RulesInv /\ RulesInstalled /\ [Next]_vars =>
      (RulesInv /\ RulesInstalled)'
  <1> SUFFICES ASSUME TypeInv /\ ControlInv /\ RulesInv /\ RulesInstalled,
                      [Next]_vars
               PROVE  (RulesInv /\ RulesInstalled)'
    OBVIOUS
  <1> USE DEF jsVars, promiseVars, updateVars, stateVars, linkVars, TypeInv, TypeOK,
              ThreadTypes, FlagTypes, RulesInv, RulesInstalled, NewRule
  <1>1. CASE UNCHANGED vars
    BY <1>1 DEF vars
  <1>2. CASE Next
    <2>1. CASE ReconnectJoinWorker
      BY <2>1 DEF ReconnectJoinWorker, NoThread
    <2>2. CASE ReconnectForget
      BY <2>2 DEF ReconnectForget
    <2>3. CASE ConnectSpawn
      BY <2>3 DEF ConnectSpawn, Idle
    <2>4. CASE DialFails
      BY <2>4 DEF DialFails
    <2>5. CASE DialSucceeds
      BY <2>5 DEF DialSucceeds, ControlInv, ConnectInv, WorkerDialling
    <2>6. CASE DialledCheck
      BY <2>6 DEF DialledCheck, NoThread
    <2>7. CASE WalkBegin
      BY <2>7 DEF WalkBegin, ControlInv, ConnectInv, WorkerDialling
    <2>8. CASE WalkEnds
      BY <2>8 DEF WalkEnds
    <2>9. CASE Publish
      BY <2>9 DEF Publish, ControlInv, ConnectInv, WorkerDialling
    <2>10. CASE ClaimPump
      BY <2>10 DEF ClaimPump
    <2>11. CASE SpawnPump
      BY <2>11 DEF SpawnPump
    <2>12. CASE TakeWaiters
      BY <2>12 DEF TakeWaiters
    <2>13. CASE DeliverToWaiters
      BY <2>13 DEF DeliverToWaiters, NoThread
    <2>14. CASE CallBegin \/ CallThrows \/ CallSends \/ \E rule \in Rules : AddMatchBegin(rule)
      <3>1. js' = js /\ js.pc = "idle"
        BY <2>14
        DEF CallBegin, CallThrows, CallSends, AddMatchBegin, Callable, Converted
      <3>2. UNCHANGED <<worker, conn, linkUp, matchRules, astray, installed>>
        BY <2>14 DEF CallBegin, CallThrows, CallSends, AddMatchBegin
      <3> QED
        BY <3>1, <3>2
    <2>15. CASE AddMatchSends
      <3>1. UNCHANGED <<worker, stack, conn, linkUp, matchRules>>
        BY <2>15 DEF AddMatchSends
      <3>2. CASE conn # NULL
        <4>1. /\ installed' = IF linkUp THEN installed \cup {NewRule} ELSE installed
              /\ astray' = astray \ {NewRule}
          BY <3>2, <2>15 DEF AddMatchSends
        <4>2. worker.pc # "publish"
          BY <3>2 DEF ControlInv, ConnectInv, WorkerDialling
        <4> QED
          BY <3>1, <3>2, <4>1, <4>2
      <3>3. CASE conn = NULL
        <4>1. Last(stack) \in Frame /\ Last(stack).in = "addMatch"
          BY <2>15, StackProperties DEF AddMatchSends, Converted, StackType
        <4>2. Last(stack).on # NULL
          BY <4>1, BoundsAssumption DEF Frame, Conns, NULL
        <4>3. astray' = astray \cup ({NewRule} \ matchRules) /\ installed' = installed
          BY <3>3, <4>2, <2>15 DEF AddMatchSends
        <4> QED
          BY <3>1, <3>3, <4>3
      <3> QED
        BY <3>2, <3>3
    <2>16. CASE AddMatchRemembers
      <3>1. UNCHANGED <<worker, conn, linkUp, installed>> /\ js'.pc = "idle"
        BY <2>16 DEF AddMatchRemembers, Idle
      <3>2. matchRules' = matchRules \cup {NewRule}
        BY <2>16 DEF AddMatchRemembers
      <3>3. CASE NewRule \notin matchRules /\ worker.pc = "walking"
        <4>1. astray' = matchRules'
          BY <3>2, <3>3, <2>16 DEF AddMatchRemembers
        <4> QED
          BY <3>1, <4>1
      <3>4. CASE ~(NewRule \notin matchRules /\ worker.pc = "walking")
        <4>1. astray' = astray
          BY <3>4, <2>16 DEF AddMatchRemembers
        <4>2. worker.pc = "publish" => conn = NULL
          BY DEF ControlInv, ConnectInv, WorkerDialling
        <4>3. js.pc = "remember"
          BY <2>16 DEF AddMatchRemembers
        <4>4. CASE NewRule \in matchRules
          BY <3>1, <3>2, <4>1, <4>4
        <4>5. CASE NewRule \notin matchRules
          BY <3>1, <3>2, <4>1, <4>2, <4>3, <4>5
        <4> QED
          BY <4>4, <4>5
      <3> QED
        BY <3>3, <3>4
    <2>17. CASE ShutdownJoinWorker
      BY <2>17 DEF ShutdownJoinWorker, NoThread
    <2>18. CASE ShutdownClear
      BY <2>18 DEF ShutdownClear, Idle
    <2>19. CASE BusDrops
      BY <2>19 DEF BusDrops
    <2>20. CASE \/ \E bus \in Buses : ConnectCall(bus)
                \/ ConnectCheckConnecting
                \/ ConnectCheckDead
                \/ ConnectCheckConn
                \/ ConnectRegister
                \/ \E due \in SUBSET promises : UpdateTimeouts(due)
                \/ UpdateDrain
                \/ SettleTimeouts
                \/ ShutdownBegin
      <3>1. UNCHANGED <<worker, conn, linkUp, matchRules, astray, installed>>
        BY <2>20
        DEF ConnectCall, ConnectCheckConnecting, ConnectCheckDead, ConnectCheckConn,
            ConnectRegister, UpdateTimeouts, UpdateDrain, SettleTimeouts, ShutdownBegin,
            NewPromise
      <3>2. js'.pc # "remember"
        <4>1. CASE ConnectCheckConn
          <5>1. CASE conn # NULL
            BY <5>1, <4>1 DEF ConnectCheckConn, Idle
          <5>2. CASE conn = NULL
            BY <5>2, <4>1 DEF ConnectCheckConn
          <5> QED
            BY <5>1, <5>2
        <4>2. CASE \E bus \in Buses : ConnectCall(bus)
          BY <4>2 DEF ConnectCall
        <4>3. CASE ConnectCheckConnecting
          BY <4>3 DEF ConnectCheckConnecting, Idle
        <4>4. CASE ConnectCheckDead
          BY <4>4 DEF ConnectCheckDead
        <4>5. CASE ConnectRegister
          BY <4>5 DEF ConnectRegister, Idle
        <4>6. CASE \E due \in SUBSET promises : UpdateTimeouts(due)
          BY <4>6 DEF UpdateTimeouts
        <4>7. CASE UpdateDrain \/ SettleTimeouts \/ ShutdownBegin
          BY <4>7 DEF UpdateDrain, SettleTimeouts, ShutdownBegin, Idle
        <4> QED
          BY <2>20, <4>1, <4>2, <4>3, <4>4, <4>5, <4>6, <4>7
      <3> QED
        BY <3>1, <3>2
    <2>21. CASE \/ PumpLoop
                \/ PumpPop
                \/ PumpPush
                \/ PumpEmpty
                \/ PumpCheck
                \/ SettleReply
                \/ \E req \in requests : PeerAnswers(req)
      <3>1. UNCHANGED <<js, stack, worker, conn, linkUp, matchRules, astray, installed>>
        BY <2>21
        DEF PumpLoop, PumpPop, PumpPush, PumpEmpty, PumpCheck, SettleReply, PeerAnswers
      <3> QED
        BY <3>1
    <2> QED
      BY <1>2, <2>1, <2>2, <2>3, <2>4, <2>5, <2>6, <2>7, <2>8, <2>9, <2>10, <2>11,
         <2>12, <2>13, <2>14, <2>15, <2>16, <2>17, <2>18, <2>19, <2>20, <2>21
      DEF Next, ConnectSteps, WorkerSteps, PumpSteps, CallSteps, AddMatchSteps, UpdateSteps,
          ShutdownSteps, BusSteps
  <1> QED
    BY <1>1, <1>2

(* Entries stay those of the connection in use.                           *)
LEMMA EntryNext ==
  TypeInv /\ ControlInv /\ CarryInv /\ EntryInv /\ [Next]_vars =>
      EntryInv'
  <1> SUFFICES ASSUME TypeInv /\ ControlInv /\ CarryInv /\ EntryInv,
                      [Next]_vars
               PROVE  EntryInv'
    OBVIOUS
  <1> USE DEF jsVars, promiseVars, updateVars, stateVars, linkVars, TypeInv, TypeOK,
             PromiseTypes, LinkTypes, EntryInv
  <1>1. CASE UNCHANGED vars
    BY <1>1 DEF vars
  <1>2. CASE Next
    <2>1. CASE ReconnectForget
      BY <2>1 DEF ReconnectForget
    <2>2. CASE DialSucceeds
      BY <2>2 DEF DialSucceeds, ControlInv, ConnectInv, WorkerDialling
    <2>3. CASE Publish
      BY <2>3 DEF Publish, ControlInv, ConnectInv, WorkerDialling
    <2>4. CASE PumpPop
      <3>1. \A i \in 1..Len(inbox') : i + 1 \in 1..Len(inbox) /\ inbox'[i] = inbox[i + 1]
        BY <2>4 DEF PumpPop
      <3>2. /\ DOMAIN serialMap' \subseteq DOMAIN serialMap
            /\ \A s \in DOMAIN serialMap' : serialMap'[s] = serialMap[s]
        BY <2>4 DEF PumpPop
      <3>3. UNCHANGED <<conn, serial, requests>>
        BY <2>4 DEF PumpPop
      <3>4. ASSUME NEW i \in 1..Len(inbox')
            PROVE  /\ inbox'[i].serial <= serial'
                   /\ inbox'[i].serial \in DOMAIN serialMap'
                        => serialMap'[inbox'[i].serial] = inbox'[i].call
        <4>1. PICK j \in 1..Len(inbox) : inbox'[i] = inbox[j]
          BY <3>1
        <4> QED
          BY <3>2, <3>3, <4>1
      <3>5. conn' = NULL => DOMAIN serialMap' = {}
        BY <3>2, <3>3
      <3>6. \A s \in DOMAIN serialMap' : s <= serial'
        BY <3>2, <3>3
      <3>7. \A req \in requests' :
               /\ req.serial <= serial'
               /\ req.serial \in DOMAIN serialMap' => serialMap'[req.serial] = req.id
        BY <3>2, <3>3
      <3> QED
        BY <3>4, <3>5, <3>6, <3>7
    <2>5. CASE CallSends
      <3>1. CASE conn = NULL
        <4>1. UNCHANGED <<conn, serial, serialMap, requests, inbox>>
          BY <3>1, <2>5 DEF CallSends
        <4> QED
          BY <3>1, <4>1
      <3>2. CASE conn # NULL
        <4>1. serial' = serial + 1 /\ serial + 1 \notin DOMAIN serialMap
          BY <3>2, <2>5 DEF CallSends
        <4>2. /\ DOMAIN serialMap' = DOMAIN serialMap \cup {serial + 1}
              /\ serialMap'[serial + 1] = nextId
              /\ \A s \in DOMAIN serialMap : serialMap'[s] = serialMap[s]
          BY <4>1, <3>2, <2>5 DEF CallSends
        <4>3. requests' \subseteq requests \cup {[serial |-> serial + 1, id |-> nextId]}
          BY <3>2, <2>5 DEF CallSends
        <4>4. UNCHANGED <<conn, inbox>> /\ conn # NULL
          BY <3>2, <2>5 DEF CallSends
        <4>5. \A s \in DOMAIN serialMap' : s <= serial'
          BY <4>1, <4>2
        <4>6. ASSUME NEW req \in requests'
              PROVE  /\ req.serial <= serial'
                     /\ req.serial \in DOMAIN serialMap' => serialMap'[req.serial] = req.id
          <5>1. CASE req \in requests
            BY <4>1, <4>2, <5>1
          <5>2. CASE req = [serial |-> serial + 1, id |-> nextId]
            BY <4>1, <4>2, <5>2
          <5> QED
            BY <4>3, <5>1, <5>2
        <4>7. ASSUME NEW i \in 1..Len(inbox')
              PROVE  /\ inbox'[i].serial <= serial'
                     /\ inbox'[i].serial \in DOMAIN serialMap'
                          => serialMap'[inbox'[i].serial] = inbox'[i].call
          <5>1. i \in 1..Len(inbox) /\ inbox'[i] = inbox[i]
            BY <4>4
          <5>2. inbox[i] \in Message
            BY <5>1
          <5>3. inbox[i].serial \in Nat /\ inbox[i].serial <= serial
            BY <5>1, <5>2 DEF Message
          <5>4. inbox[i].serial # serial + 1
            BY <5>3
          <5>5. inbox[i].serial \in DOMAIN serialMap => serialMap[inbox[i].serial] = inbox[i].call
            BY <5>1
          <5> QED
            BY <4>1, <4>2, <5>1, <5>3, <5>4, <5>5
        <4> QED
          BY <4>4, <4>5, <4>6, <4>7
      <3> QED
        BY <3>1, <3>2
    <2>6. ASSUME NEW due \in SUBSET promises, UpdateTimeouts(due)
          PROVE  EntryInv'
      BY <2>6 DEF UpdateTimeouts
    <2>7. CASE ShutdownClear
      BY <2>7 DEF ShutdownClear
    <2>8. ASSUME NEW req \in requests, PeerAnswers(req)
          PROVE  EntryInv'
      BY <2>8 DEF PeerAnswers
    <2>9. CASE BusDrops
      BY <2>9 DEF BusDrops
    <2>10. CASE \/ \E bus \in Buses : ConnectCall(bus)
                \/ ConnectCheckConnecting
                \/ ConnectCheckDead
                \/ ReconnectJoinWorker
                \/ ConnectCheckConn
                \/ ConnectRegister
                \/ ConnectSpawn
                \/ DialFails
                \/ DialledCheck
                \/ WalkBegin
                \/ WalkEnds
                \/ ClaimPump
                \/ SpawnPump
                \/ TakeWaiters
                \/ DeliverToWaiters
                \/ PumpLoop
                \/ PumpPush
                \/ PumpEmpty
                \/ PumpCheck
                \/ CallBegin
                \/ CallThrows
                \/ \E rule \in Rules : AddMatchBegin(rule)
                \/ AddMatchSends
                \/ AddMatchRemembers
                \/ UpdateDrain
                \/ SettleReply
                \/ SettleTimeouts
                \/ ShutdownBegin
                \/ ShutdownJoinWorker
      <3>1. UNCHANGED <<conn, serialMap, serial, requests, inbox>>
        BY <2>10
        DEF ConnectCall, ConnectCheckConnecting, ConnectCheckDead, ReconnectJoinWorker,
            ConnectCheckConn, ConnectRegister, ConnectSpawn, DialFails, DialledCheck,
            WalkBegin, WalkEnds, ClaimPump, SpawnPump, TakeWaiters, DeliverToWaiters,
            PumpLoop, PumpPush, PumpEmpty, PumpCheck, CallBegin, CallThrows,
            AddMatchBegin, AddMatchSends, AddMatchRemembers, UpdateDrain, SettleReply,
            SettleTimeouts, ShutdownBegin, ShutdownJoinWorker
      <3> QED
        BY <3>1
    <2> QED
      BY <1>2, <2>1, <2>2, <2>3, <2>4, <2>5, <2>6, <2>7, <2>8, <2>9, <2>10
      DEF Next, ConnectSteps, WorkerSteps, PumpSteps, CallSteps, AddMatchSteps, UpdateSteps,
          ShutdownSteps, BusSteps
  <1> QED
    BY <1>1, <1>2

(* A serial is used once on a connection.                                  *)
LEMMA OnceNext == TypeInv /\ EntryInv /\ OnceInv /\ [Next]_vars => OnceInv'
  <1> SUFFICES ASSUME TypeInv /\ EntryInv /\ OnceInv, [Next]_vars PROVE OnceInv'
    OBVIOUS
  <1> USE DEF jsVars, promiseVars, updateVars, stateVars, linkVars, TypeInv, TypeOK,
             LinkTypes, OnceInv
  <1>1. CASE UNCHANGED vars
    BY <1>1 DEF vars
  <1>2. CASE Next
    <2>1. CASE DialSucceeds
      BY <2>1 DEF DialSucceeds
    <2>2. CASE PumpPop
      <3>1. \A i \in 1..Len(inbox') : i + 1 \in 1..Len(inbox) /\ inbox'[i] = inbox[i + 1]
        BY <2>2 DEF PumpPop
      <3>2. requests' = requests /\ Len(inbox) \in Nat /\ Len(inbox') \in Nat
        BY <2>2 DEF PumpPop
      <3>3. ASSUME NEW i \in 1..Len(inbox'), NEW j \in 1..Len(inbox'),
                   inbox'[i].serial = inbox'[j].serial
            PROVE  i = j
        <4>1. i + 1 = j + 1
          BY <3>1, <3>3
        <4> QED
          BY <3>2, <4>1
      <3>4. \A req \in requests' : \A i \in 1..Len(inbox') : req.serial # inbox'[i].serial
        BY <3>1, <3>2
      <3> QED
        BY <3>2, <3>3, <3>4
    <2>3. CASE CallSends
      <3>1. CASE conn = NULL
        <4>1. UNCHANGED <<requests, inbox>>
          BY <3>1, <2>3 DEF CallSends
        <4> QED
          BY <3>1, <4>1
      <3>2. CASE conn # NULL
        <4>1. requests' \subseteq requests \cup {[serial |-> serial + 1, id |-> nextId]}
          BY <3>2, <2>3 DEF CallSends
        <4>2. inbox' = inbox
          BY <3>2, <2>3 DEF CallSends
        <4>3. \A req \in requests : req.serial < serial + 1
          BY DEF EntryInv
        <4>4. \A i \in 1..Len(inbox) : inbox[i].serial < serial + 1
          <5> SUFFICES ASSUME NEW i \in 1..Len(inbox) PROVE inbox[i].serial < serial + 1
            OBVIOUS
          <5>1. inbox[i] \in Message
            OBVIOUS
          <5> QED
            BY <5>1 DEF EntryInv, Message
        <4> QED
          BY <4>1, <4>2, <4>3, <4>4
      <3> QED
        BY <3>1, <3>2
    <2>4. ASSUME NEW req \in requests, PeerAnswers(req)
          PROVE  OnceInv'
      <3>1. requests' = requests \ {req} /\ Len(inbox) \in Nat
        BY <2>4 DEF PeerAnswers
      <3>2. /\ Len(inbox') = Len(inbox) + 1
            /\ inbox'[Len(inbox) + 1] = [serial |-> req.serial, call |-> req.id]
            /\ \A i \in 1..Len(inbox) : inbox'[i] = inbox[i]
        BY <2>4 DEF PeerAnswers
      <3>3. \A i \in 1..Len(inbox) : inbox'[i].serial # inbox'[Len(inbox) + 1].serial
        BY <3>2
      <3> QED
        BY <3>1, <3>2, <3>3
    <2>5. CASE BusDrops
      BY <2>5 DEF BusDrops
    <2>6. CASE \/ \E bus \in Buses : ConnectCall(bus)
               \/ ConnectCheckConnecting
               \/ ConnectCheckDead
               \/ ReconnectJoinWorker
               \/ ReconnectForget
               \/ ConnectCheckConn
               \/ ConnectRegister
               \/ ConnectSpawn
               \/ DialFails
               \/ DialledCheck
               \/ WalkBegin
               \/ WalkEnds
               \/ Publish
               \/ ClaimPump
               \/ SpawnPump
               \/ TakeWaiters
               \/ DeliverToWaiters
               \/ PumpLoop
               \/ PumpPush
               \/ PumpEmpty
               \/ PumpCheck
               \/ CallBegin
               \/ CallThrows
               \/ \E rule \in Rules : AddMatchBegin(rule)
               \/ AddMatchSends
               \/ AddMatchRemembers
               \/ \E due \in SUBSET promises : UpdateTimeouts(due)
               \/ UpdateDrain
               \/ SettleReply
               \/ SettleTimeouts
               \/ ShutdownBegin
               \/ ShutdownJoinWorker
               \/ ShutdownClear
      <3>1. UNCHANGED <<requests, inbox>>
        BY <2>6
        DEF ConnectCall, ConnectCheckConnecting, ConnectCheckDead,
            ReconnectJoinWorker, ReconnectForget, ConnectCheckConn, ConnectRegister,
            ConnectSpawn, DialFails, DialledCheck, WalkBegin, WalkEnds, Publish, ClaimPump,
            SpawnPump, TakeWaiters, DeliverToWaiters, PumpLoop, PumpPush, PumpEmpty,
            PumpCheck, CallBegin, CallThrows, AddMatchBegin,
            AddMatchSends, AddMatchRemembers, UpdateTimeouts, UpdateDrain, SettleReply,
            SettleTimeouts, ShutdownBegin, ShutdownJoinWorker, ShutdownClear
      <3> QED
        BY <3>1
    <2> QED
      BY <1>2, <2>1, <2>2, <2>3, <2>4, <2>5, <2>6
      DEF Next, ConnectSteps, WorkerSteps, PumpSteps, CallSteps, AddMatchSteps, UpdateSteps,
          ShutdownSteps, BusSteps
  <1> QED
    BY <1>1, <1>2

(* What the connection carries.                                            *)
LEMMA CarryNext == TypeInv /\ ControlInv /\ CarryInv /\ [Next]_vars => CarryInv'
  <1> SUFFICES ASSUME TypeInv /\ ControlInv /\ CarryInv, [Next]_vars PROVE CarryInv'
    OBVIOUS
  <1> USE DEF jsVars, promiseVars, updateVars, stateVars, linkVars, TypeInv, TypeOK,
             ThreadTypes, PromiseTypes, LinkTypes, CarryInv
  <1>1. CASE UNCHANGED vars
    BY <1>1 DEF vars
  <1>2. CASE Next
    <2>1. ASSUME NEW bus \in Buses, ConnectCall(bus)
          PROVE  CarryInv'
      BY <2>1 DEF ConnectCall, Callable
    <2>2. CASE ConnectCheckConnecting
      BY <2>2 DEF ConnectCheckConnecting, Idle
    <2>3. CASE ConnectCheckDead
      BY <2>3 DEF ConnectCheckDead
    <2>4. CASE ReconnectJoinWorker
      BY <2>4 DEF ReconnectJoinWorker, NoThread
    <2>5. CASE ReconnectForget
      BY <2>5 DEF ReconnectForget
    <2>6. CASE ConnectCheckConn
      <3>1. UNCHANGED <<worker, requests, inbox, answered, timedOut>>
        BY <2>6 DEF ConnectCheckConn
      <3>2. nextId <= nextId'
        BY <2>6 DEF ConnectCheckConn, NewPromise
      <3>3. timedOut = {}
        BY <2>6 DEF ConnectCheckConn
      <3>4. ASSUME NEW i \in 1..Len(inbox)
            PROVE  inbox[i].call \in Nat
        <4>1. inbox[i] \in Message
          OBVIOUS
        <4> QED
          BY <4>1 DEF Message, Ids
      <3>5. \A req \in requests : req.id < nextId'
        BY <3>2, <2>6 DEF Ids, ConnectCheckConn, NewPromise
      <3>6. \A i \in 1..Len(inbox) : inbox[i].call < nextId'
        BY <3>2, <3>4, <2>6 DEF ConnectCheckConn, NewPromise
      <3> QED
        BY <3>1, <3>3, <3>5, <3>6
    <2>7. CASE ConnectRegister
      BY <2>7 DEF ConnectRegister, Idle
    <2>8. CASE ConnectSpawn
      BY <2>8 DEF ConnectSpawn, Idle
    <2>9. CASE DialFails
      BY <2>9 DEF DialFails
    <2>10. CASE DialSucceeds
      BY <2>10 DEF DialSucceeds
    <2>11. CASE DialledCheck
      BY <2>11 DEF DialledCheck, NoThread
    <2>12. CASE WalkBegin
      BY <2>12 DEF WalkBegin
    <2>13. CASE WalkEnds
      BY <2>13 DEF WalkEnds
    <2>14. CASE Publish
      BY <2>14 DEF Publish
    <2>15. CASE ClaimPump
      BY <2>15 DEF ClaimPump
    <2>16. CASE SpawnPump
      BY <2>16 DEF SpawnPump
    <2>17. CASE TakeWaiters
      BY <2>17 DEF TakeWaiters
    <2>18. CASE DeliverToWaiters
      BY <2>18 DEF DeliverToWaiters, NoThread
    <2>19. CASE PumpPop
      <3>1. \A i \in 1..Len(inbox') : i + 1 \in 1..Len(inbox) /\ inbox'[i] = inbox[i + 1]
        BY <2>19 DEF PumpPop
      <3>2. UNCHANGED <<worker, js, requests, answered, timedOut, nextId>> /\ inbox # <<>>
        BY <2>19 DEF PumpPop
      <3> QED
        BY <3>1, <3>2
    <2>20. CASE CallSends
      <3>1. requests' \subseteq requests \cup {[serial |-> serial + 1, id |-> nextId]}
        BY <2>20 DEF CallSends
      <3>2. UNCHANGED <<worker, js, inbox, answered, timedOut>> /\ nextId' = nextId + 1
        BY <2>20 DEF CallSends, NewPromise
      <3>3. requests' = requests \/ worker.pc \notin {"dialled", "rules", "walking", "publish"}
        BY <2>20 DEF CallSends, ControlInv, ConnectInv, WorkerDialling
      <3>4. \A i \in 1..Len(inbox) : inbox[i].call < nextId'
        <4> SUFFICES ASSUME NEW i \in 1..Len(inbox) PROVE inbox[i].call < nextId'
          OBVIOUS
        <4>1. inbox[i] \in Message /\ inbox[i].call < nextId
          OBVIOUS
        <4> QED
          BY <3>2, <4>1 DEF Message, Ids
      <3>5. \A req \in requests' : req.id < nextId'
        BY <3>1, <3>2 DEF Ids
      <3> QED
        BY <3>2, <3>3, <3>4, <3>5
    <2>21. ASSUME NEW due \in SUBSET promises, UpdateTimeouts(due)
          PROVE  CarryInv'
      BY <2>21 DEF UpdateTimeouts, ScriptOver
    <2>22. CASE UpdateDrain
      BY <2>22 DEF UpdateDrain
    <2>23. CASE SettleTimeouts
      BY <2>23 DEF SettleTimeouts, Idle
    <2>24. CASE ShutdownBegin
      BY <2>24 DEF ShutdownBegin, ScriptOver
    <2>25. CASE ShutdownJoinWorker
      BY <2>25 DEF ShutdownJoinWorker, NoThread
    <2>26. CASE ShutdownClear
      BY <2>26 DEF ShutdownClear, Idle
    <2>27. ASSUME NEW req \in requests, PeerAnswers(req)
          PROVE  CarryInv'
      BY <2>27 DEF PeerAnswers
    <2>28. CASE BusDrops
      BY <2>28 DEF BusDrops
    <2>29. CASE \/ PumpLoop
                \/ PumpPush
                \/ PumpEmpty
                \/ PumpCheck
                \/ CallBegin
                \/ CallThrows
                \/ \E rule \in Rules : AddMatchBegin(rule)
                \/ SettleReply
      <3>1. UNCHANGED <<worker, js, requests, inbox, nextId, answered, timedOut>>
        BY <2>29
        DEF PumpLoop, PumpPush, PumpEmpty, PumpCheck, CallBegin, CallThrows, AddMatchBegin,
            SettleReply
      <3> QED
        BY <3>1
    <2>30. CASE AddMatchSends
      BY <2>30 DEF AddMatchSends, Converted
    <2>31. CASE AddMatchRemembers
      BY <2>31 DEF AddMatchRemembers, Idle
    <2> QED
      BY <1>2, <2>1, <2>2, <2>3, <2>4, <2>5, <2>6, <2>7, <2>8, <2>9, <2>10, <2>11,
         <2>12, <2>13, <2>14, <2>15, <2>16, <2>17, <2>18, <2>19, <2>20, <2>21, <2>22,
         <2>23, <2>24, <2>25, <2>26, <2>27, <2>28, <2>29, <2>30, <2>31
      DEF Next, ConnectSteps, WorkerSteps, PumpSteps, CallSteps, AddMatchSteps, UpdateSteps,
          ShutdownSteps, BusSteps
  <1> QED
    BY <1>1, <1>2

(* No entry that is still waited for is lost.                              *)
LEMMA WaitNext ==
  TypeInv /\ EntryInv /\ OnceInv /\ CarryInv /\ AnswerFindsItsCall /\ [Next]_vars =>
      AnswerFindsItsCall'
  <1> SUFFICES ASSUME TypeInv /\ EntryInv /\ OnceInv /\ CarryInv /\ AnswerFindsItsCall,
                      [Next]_vars
               PROVE  AnswerFindsItsCall'
    OBVIOUS
  <1> USE DEF jsVars, promiseVars, updateVars, stateVars, linkVars, TypeInv, TypeOK,
             PromiseTypes, LinkTypes, AnswerFindsItsCall
  <1>1. CASE UNCHANGED vars
    BY <1>1 DEF vars
  <1>2. CASE Next
    <2>1. CASE ReconnectForget
      BY <2>1 DEF ReconnectForget
    <2>2. CASE ConnectCheckConn
      <3>1. UNCHANGED <<conn, serialMap, requests, inbox, timedOut>>
        BY <2>2 DEF ConnectCheckConn
      <3>2. promises' \subseteq promises \cup {nextId}
        BY <2>2 DEF ConnectCheckConn, NewPromise
      <3>3. \A req \in requests : req.id # nextId
        BY DEF CarryInv, Ids
      <3>4. \A i \in 1..Len(inbox) : inbox[i].call # nextId
        <4> SUFFICES ASSUME NEW i \in 1..Len(inbox) PROVE inbox[i].call # nextId
          OBVIOUS
        <4>1. inbox[i] \in Message /\ inbox[i].call < nextId
          BY DEF CarryInv
        <4> QED
          BY <4>1 DEF Message, Ids
      <3> QED
        BY <3>1, <3>2, <3>3, <3>4
    <2>3. CASE DialSucceeds
      BY <2>3 DEF DialSucceeds
    <2>4. CASE Publish
      BY <2>4 DEF Publish, CarryInv
    <2>5. CASE PumpPop
      <3>1. \A i \in 1..Len(inbox') : i + 1 \in 1..Len(inbox) /\ inbox'[i] = inbox[i + 1]
        BY <2>5 DEF PumpPop
      <3>2. UNCHANGED <<conn, requests, promises, timedOut>> /\ inbox # <<>>
        BY <2>5 DEF PumpPop
      <3>3. /\ DOMAIN serialMap \ {inbox[1].serial} \subseteq DOMAIN serialMap'
            /\ \A s \in DOMAIN serialMap' : serialMap'[s] = serialMap[s]
        BY <2>5 DEF PumpPop
      <3>4. 1 \in 1..Len(inbox)
        BY <3>2
      <3>5. \A req \in requests : req.serial # inbox[1].serial
        BY <3>4 DEF OnceInv
      <3>6. \A i \in 1..Len(inbox') : inbox'[i].serial # inbox[1].serial
        <4> SUFFICES ASSUME NEW i \in 1..Len(inbox') PROVE inbox'[i].serial # inbox[1].serial
          OBVIOUS
        <4>1. i + 1 \in 1..Len(inbox) /\ i + 1 # 1 /\ inbox'[i] = inbox[i + 1]
          BY <3>1
        <4> QED
          BY <4>1, <3>4 DEF OnceInv
      <3> SUFFICES ASSUME conn # NULL PROVE AnswerFindsItsCall'
        BY <3>2
      <3>7. ASSUME NEW req \in requests', req.id \in promises' \ timedOut'
            PROVE  req.serial \in DOMAIN serialMap' /\ serialMap'[req.serial] = req.id
        BY <3>2, <3>3, <3>5, <3>7
      <3>8. ASSUME NEW i \in 1..Len(inbox'), inbox'[i].call \in promises' \ timedOut'
            PROVE  /\ inbox'[i].serial \in DOMAIN serialMap'
                   /\ serialMap'[inbox'[i].serial] = inbox'[i].call
        <4>1. PICK j \in 1..Len(inbox) : inbox'[i] = inbox[j]
          BY <3>1
        <4>2. inbox[j].serial \in DOMAIN serialMap /\ serialMap[inbox[j].serial] = inbox[j].call
          BY <4>1, <3>2, <3>8
        <4>3. inbox[j].serial \in DOMAIN serialMap'
          BY <4>1, <4>2, <3>3, <3>6
        <4> QED
          BY <4>1, <4>2, <4>3, <3>3
      <3> QED
        BY <3>7, <3>8
    <2>6. CASE CallSends
      <3>1. CASE conn = NULL
        <4>1. UNCHANGED <<conn, requests, inbox>>
          BY <3>1, <2>6 DEF CallSends
        <4> QED
          BY <3>1, <4>1
      <3>2. CASE conn # NULL
        <4>1. requests' \subseteq requests \cup {[serial |-> serial + 1, id |-> nextId]}
          BY <3>2, <2>6 DEF CallSends
        <4>2. UNCHANGED <<conn, inbox, timedOut>> /\ promises' = promises \cup {nextId}
          BY <3>2, <2>6 DEF CallSends, NewPromise
        <4>3. serial + 1 \notin DOMAIN serialMap
          BY DEF EntryInv
        <4>4. /\ serial + 1 \in DOMAIN serialMap' /\ serialMap'[serial + 1] = nextId
              /\ DOMAIN serialMap \subseteq DOMAIN serialMap'
              /\ \A s \in DOMAIN serialMap : serialMap'[s] = serialMap[s]
          BY <4>3, <3>2, <2>6 DEF CallSends
        <4>5. \A req \in requests : req.id # nextId
          BY DEF CarryInv, Ids
        <4>6. \A i \in 1..Len(inbox) : inbox[i].call # nextId
          <5> SUFFICES ASSUME NEW i \in 1..Len(inbox) PROVE inbox[i].call # nextId
            OBVIOUS
          <5>1. inbox[i] \in Message /\ inbox[i].call < nextId
            BY DEF CarryInv
          <5> QED
            BY <5>1 DEF Message, Ids
        <4>7. conn # NULL
          BY <3>2, <2>6 DEF CallSends
        <4>8. ASSUME NEW req \in requests', req.id \in promises' \ timedOut'
              PROVE  req.serial \in DOMAIN serialMap' /\ serialMap'[req.serial] = req.id
          BY <4>1, <4>2, <4>4, <4>5, <4>7, <4>8
        <4>9. ASSUME NEW i \in 1..Len(inbox'), inbox'[i].call \in promises' \ timedOut'
              PROVE  /\ inbox'[i].serial \in DOMAIN serialMap'
                     /\ serialMap'[inbox'[i].serial] = inbox'[i].call
          BY <4>2, <4>4, <4>6, <4>7, <4>9
        <4> QED
          BY <4>8, <4>9
      <3> QED
        BY <3>1, <3>2
    <2>7. ASSUME NEW due \in SUBSET promises, UpdateTimeouts(due)
          PROVE  AnswerFindsItsCall'
      BY <2>7 DEF UpdateTimeouts, ScriptOver, CarryInv
    <2>8. CASE SettleReply
      BY <2>8 DEF SettleReply
    <2>9. CASE SettleTimeouts
      BY <2>9 DEF SettleTimeouts
    <2>10. CASE ShutdownClear
      BY <2>10 DEF ShutdownClear
    <2>11. ASSUME NEW req \in requests, PeerAnswers(req)
          PROVE  AnswerFindsItsCall'
      BY <2>11 DEF PeerAnswers
    <2>12. CASE BusDrops
      BY <2>12 DEF BusDrops
    <2>13. CASE \/ \E bus \in Buses : ConnectCall(bus)
                \/ ConnectCheckConnecting
                \/ ConnectCheckDead
                \/ ReconnectJoinWorker
                \/ ConnectRegister
                \/ ConnectSpawn
                \/ DialFails
                \/ DialledCheck
                \/ WalkBegin
                \/ WalkEnds
                \/ ClaimPump
                \/ SpawnPump
                \/ TakeWaiters
                \/ DeliverToWaiters
                \/ PumpLoop
                \/ PumpPush
                \/ PumpEmpty
                \/ PumpCheck
                \/ CallBegin
                \/ CallThrows
                \/ \E rule \in Rules : AddMatchBegin(rule)
                \/ AddMatchSends
                \/ AddMatchRemembers
                \/ UpdateDrain
                \/ ShutdownBegin
                \/ ShutdownJoinWorker
      <3>1. UNCHANGED <<conn, serialMap, requests, inbox, promises, timedOut>>
        BY <2>13
        DEF ConnectCall, ConnectCheckConnecting, ConnectCheckDead, ReconnectJoinWorker,
            ConnectRegister, ConnectSpawn, DialFails, DialledCheck, WalkBegin, WalkEnds,
            ClaimPump, SpawnPump, TakeWaiters, DeliverToWaiters, PumpLoop, PumpPush,
            PumpEmpty, PumpCheck, CallBegin, CallThrows, AddMatchBegin, AddMatchSends,
            AddMatchRemembers, UpdateDrain, ShutdownBegin, ShutdownJoinWorker
      <3> QED
        BY <3>1
    <2> QED
      BY <1>2, <2>1, <2>2, <2>3, <2>4, <2>5, <2>6, <2>7, <2>8, <2>9, <2>10, <2>11, <2>12, <2>13
      DEF Next, ConnectSteps, WorkerSteps, PumpSteps, CallSteps, AddMatchSteps, UpdateSteps,
          ShutdownSteps, BusSteps
  <1> QED
    BY <1>1, <1>2

(* Replies that are no answers may be queued behind honest ones.            *)
LEMMA HonestConcat ==
  ASSUME NEW s \in Seq(ReplyItem), NEW t \in Seq(ReplyItem),
         \A i \in 1..Len(s) : Honest(s[i]),
         \A i \in 1..Len(t) : t[i].kind # "reply"
  PROVE  \A i \in 1..Len(s \o t) : Honest((s \o t)[i])
  BY DEF Honest

LEMMA HonestAppend ==
  ASSUME NEW s \in Seq(ReplyItem), NEW item \in ReplyItem,
         \A i \in 1..Len(s) : Honest(s[i]), Honest(item)
  PROVE  \A i \in 1..Len(Append(s, item)) : Honest(Append(s, item)[i])
  BY DEF Honest

(* An answer stays with its call.                                          *)
LEMMA AnswerNext ==
  TypeInv /\ EntryInv /\ CarryInv /\ AnswerInv /\ ReplyIsForItsCall /\ [Next]_vars =>
      (AnswerInv /\ ReplyIsForItsCall)'
  <1> SUFFICES ASSUME TypeInv /\ EntryInv /\ CarryInv /\ AnswerInv /\ ReplyIsForItsCall,
                      [Next]_vars
               PROVE  (AnswerInv /\ ReplyIsForItsCall)'
    OBVIOUS
  <1> USE DEF jsVars, promiseVars, updateVars, stateVars, linkVars, TypeInv, TypeOK,
             ThreadTypes, PromiseTypes, LinkTypes, AnswerInv, ReplyIsForItsCall, Honest
  <1>1. CASE UNCHANGED vars
    BY <1>1 DEF vars
  <1>2. CASE Next
    <2>1. CASE ReconnectForget
      <3>1. PICK order \in SetToSeqs(promises) :
               replies' = replies \o [i \in DOMAIN order |-> Reply(order[i], "disconnected", 0)]
        BY <2>1 DEF ReconnectForget
      <3> DEFINE sent == [i \in DOMAIN order |-> Reply(order[i], "disconnected", 0)]
      <3>2. Cardinality(promises) \in Nat
        BY PromisesFinite
      <3>3. order \in [1..Cardinality(promises) -> promises]
        BY DEF SetToSeqs
      <3>4. sent \in [1..Cardinality(promises) -> ReplyItem]
        BY <3>3 DEF PromiseTypes, Reply, ReplyItem, LocalKinds
      <3>5. sent \in Seq(ReplyItem) /\ Len(sent) = Cardinality(promises)
        BY <3>2, <3>4, FunctionIsSeq
      <3>6. \A i \in 1..Len(sent) : sent[i].kind # "reply"
        BY <3>3, <3>5 DEF Reply
      <3>7. \A i \in 1..Len(replies') : Honest(replies'[i])
        BY <3>1, <3>5, <3>6, HonestConcat
      <3> QED
        BY <3>7, <2>1 DEF ReconnectForget, Honest
    <2>2. CASE ConnectRegister
      <3>1. CASE conn # NULL
        <4>1. Reply(js.id, "connected", 0) \in ReplyItem /\ Honest(Reply(js.id, "connected", 0))
          BY <2>2 DEF ConnectRegister, CarriedIds, Reply, ReplyItem, LocalKinds
        <4>2. replies' = Append(replies, Reply(js.id, "connected", 0))
          BY <2>2, <3>1 DEF ConnectRegister
        <4>3. \A i \in 1..Len(replies') : Honest(replies'[i])
          BY <4>1, <4>2, HonestAppend
        <4> QED
          BY <4>3, <2>2 DEF ConnectRegister
      <3>2. CASE conn = NULL
        BY <3>2, <2>2 DEF ConnectRegister
      <3> QED
        BY <3>1, <3>2
    <2>3. CASE SpawnPump
      BY <2>3 DEF SpawnPump
    <2>4. CASE DeliverToWaiters
      <3> DEFINE kind == IF worker.conn # NULL THEN "connected" ELSE "connectFailed"
                 sent == [i \in DOMAIN worker.took |-> Reply(worker.took[i], kind, 0)]
      <3>1. worker.took \in Seq(Ids) /\ Len(worker.took) \in Nat
        BY DEF ThreadTypes
      <3>2. sent \in [1..Len(worker.took) -> ReplyItem]
        BY <3>1 DEF Reply, ReplyItem, LocalKinds
      <3>3. sent \in Seq(ReplyItem) /\ Len(sent) = Len(worker.took)
        <4> DEFINE n == Len(worker.took)
        <4>1. n \in Nat /\ sent \in [1..n -> ReplyItem]
          BY <3>1, <3>2
        <4> HIDE DEF sent, n
        <4>2. sent \in Seq(ReplyItem) /\ Len(sent) = n
          BY <4>1, FunctionIsSeq
        <4> QED
          BY <4>2 DEF n
      <3>4. \A i \in 1..Len(sent) : sent[i].kind # "reply"
        BY <3>1, <3>3 DEF Reply
      <3>5. replies' = replies \o sent
        BY <2>4 DEF DeliverToWaiters
      <3> HIDE DEF sent
      <3>6. replies \in Seq(ReplyItem) /\ \A i \in 1..Len(replies) : Honest(replies[i])
        OBVIOUS
      <3>7. \A i \in 1..Len(replies') : Honest(replies'[i])
        BY ONLY <3>3, <3>4, <3>5, <3>6, HonestConcat
      <3> QED
        BY <3>7, <2>4 DEF DeliverToWaiters
    <2>5. CASE PumpLoop
      BY <2>5 DEF PumpLoop
    <2>6. CASE PumpPop
      <3>1. UNCHANGED <<replies, batch, outcome, answered>>
        BY <2>6 DEF PumpPop
      <3>2. CASE inbox[1].serial \in DOMAIN serialMap
        <4>1. 1 \in 1..Len(inbox) /\ Head(inbox) = inbox[1] /\ inbox[1].call \in Ids
          <5>1. inbox # <<>> /\ inbox \in Seq(Message)
            BY <2>6 DEF PumpPop
          <5>2. 1 \in 1..Len(inbox) /\ Head(inbox) = inbox[1] /\ inbox[1] \in Message
            BY <5>1
          <5> QED
            BY <5>2 DEF Message
        <4>2. serialMap[inbox[1].serial] = inbox[1].call
          BY <4>1, <3>2 DEF EntryInv
        <4>3. inbox[1].call \in answered
          BY <4>1 DEF CarryInv
        <4>4. pump' = [pc |-> "push", id |-> serialMap[inbox[1].serial], call |-> inbox[1].call]
          BY <4>1, <3>2, <2>6 DEF PumpPop
        <4> QED
          BY <4>1, <4>2, <4>3, <4>4, <3>1
      <3>3. CASE inbox[1].serial \notin DOMAIN serialMap
        <4>1. Head(inbox) = inbox[1]
          BY <2>6 DEF PumpPop
        <4>2. UNCHANGED pump
          BY <4>1, <3>3, <2>6 DEF PumpPop
        <4> QED
          BY <4>2, <3>1
      <3> QED
        BY <3>2, <3>3
    <2>7. CASE PumpPush
      <3>1. /\ Reply(pump.id, "reply", pump.call) \in ReplyItem
            /\ Honest(Reply(pump.id, "reply", pump.call))
        BY <2>7 DEF PumpPush, Reply, ReplyItem
      <3>2. replies' = Append(replies, Reply(pump.id, "reply", pump.call))
        BY <2>7 DEF PumpPush
      <3>3. \A i \in 1..Len(replies') : Honest(replies'[i])
        BY <3>1, <3>2, HonestAppend
      <3> QED
        BY <3>3, <2>7 DEF PumpPush
    <2>8. CASE PumpEmpty
      BY <2>8 DEF PumpEmpty
    <2>9. CASE PumpCheck
      BY <2>9 DEF PumpCheck
    <2>10. CASE UpdateDrain
      BY <2>10 DEF UpdateDrain
    <2>11. CASE SettleReply
      <3>1. UNCHANGED <<pump, replies, answered>>
        BY <2>11 DEF SettleReply
      <3>2. batch[1] \in ReplyItem /\ Honest(batch[1]) /\ Head(batch) = batch[1]
        <4>1. batch # <<>> /\ batch \in Seq(ReplyItem)
          BY <2>11 DEF SettleReply
        <4>2. 1 \in 1..Len(batch) /\ Head(batch) = batch[1] /\ batch[1] \in ReplyItem
          BY <4>1
        <4> QED
          BY <4>2
      <3>3. \A i \in 1..Len(batch') : Honest(batch'[i])
        <4> SUFFICES ASSUME NEW i \in 1..Len(batch') PROVE Honest(batch'[i])
          OBVIOUS
        <4>1. i + 1 \in 1..Len(batch) /\ batch'[i] = batch[i + 1]
          BY <2>11 DEF SettleReply
        <4> QED
          BY <4>1
      <3>4. ASSUME NEW id \in Ids, outcome'[id].kind = "reply"
            PROVE  outcome'[id].call = id /\ id \in answered'
        <4>1. CASE outcome'[id] = outcome[id]
          BY <4>1, <3>1, <3>4
        <4>2. CASE id = batch[1].id /\ outcome'[id] = [kind |-> batch[1].kind, call |-> batch[1].call]
          BY <4>2, <3>1, <3>2, <3>4
        <4>3. \/ outcome'[id] = outcome[id]
              \/ id = batch[1].id /\ outcome'[id] = [kind |-> batch[1].kind, call |-> batch[1].call]
          BY <3>2, <2>11 DEF SettleReply
        <4> QED
          BY <4>1, <4>2, <4>3
      <3> QED
        BY <3>1, <3>3, <3>4
    <2>12. CASE SettleTimeouts
      BY <2>12 DEF SettleTimeouts
    <2>13. CASE ShutdownClear
      BY <2>13 DEF ShutdownClear
    <2>14. ASSUME NEW req \in requests, PeerAnswers(req)
          PROVE  (AnswerInv /\ ReplyIsForItsCall)'
      BY <2>14 DEF PeerAnswers
    <2>15. CASE \/ \E bus \in Buses : ConnectCall(bus)
                \/ ConnectCheckConnecting
                \/ ConnectCheckDead
                \/ ReconnectJoinWorker
                \/ ConnectCheckConn
                \/ ConnectSpawn
                \/ DialFails
                \/ DialSucceeds
                \/ DialledCheck
                \/ WalkBegin
                \/ WalkEnds
                \/ Publish
                \/ ClaimPump
                \/ TakeWaiters
                \/ CallSends
                \/ CallBegin
                \/ CallThrows
                \/ \E rule \in Rules : AddMatchBegin(rule)
                \/ AddMatchSends
                \/ AddMatchRemembers
                \/ \E due \in SUBSET promises : UpdateTimeouts(due)
                \/ ShutdownBegin
                \/ ShutdownJoinWorker
                \/ BusDrops
      <3>1. UNCHANGED <<pump, replies, batch, answered, outcome>>
        BY <2>15
        DEF ConnectCall, ConnectCheckConnecting, ConnectCheckDead,
            ReconnectJoinWorker, ConnectCheckConn, ConnectSpawn, DialFails,
            DialSucceeds, DialledCheck, WalkBegin, WalkEnds, Publish, ClaimPump,
            TakeWaiters, CallSends, CallBegin, CallThrows, AddMatchBegin,
            AddMatchSends, AddMatchRemembers, UpdateTimeouts, ShutdownBegin,
            ShutdownJoinWorker, BusDrops, NewPromise
      <3> QED
        BY <3>1
    <2> QED
      BY <1>2, <2>1, <2>2, <2>3, <2>4, <2>5, <2>6, <2>7, <2>8, <2>9, <2>10, <2>11,
         <2>12, <2>13, <2>14, <2>15
      DEF Next, ConnectSteps, WorkerSteps, PumpSteps, CallSteps, AddMatchSteps, UpdateSteps,
          ShutdownSteps, BusSteps
  <1> QED
    BY <1>1, <1>2

LEMMA IInvInit == Init => IInv
  <1> SUFFICES ASSUME Init PROVE IInv
    OBVIOUS
  <1>1. TypeInv
    BY TypeInit
  <1>2. StackInv /\ ControlInv
    BY DEF Init, StackInv, ControlInv, ShutdownInv, ConnectInv, NoStrandedWaiter, Idle, NoThread,
           WorkerServing, WorkerDialling, NULL
  <1>3. RulesInv /\ RulesInstalled
    BY DEF Init, RulesInv, RulesInstalled, Idle, NoThread, NULL
  <1>4. EntryInv /\ OnceInv /\ CarryInv
    BY DEF Init, EntryInv, OnceInv, CarryInv, Idle, NoThread, NULL
  <1>5. AnswerFindsItsCall /\ AnswerInv /\ ReplyIsForItsCall
    BY DEF Init, AnswerFindsItsCall, AnswerInv, ReplyIsForItsCall, None, NULL
  <1> QED
    BY <1>1, <1>2, <1>3, <1>4, <1>5 DEF IInv

LEMMA IInvNext == IInv /\ [Next]_vars => IInv'
  BY TypeNext, StackNext, ControlNext, RulesNext, EntryNext, OnceNext, CarryNext, WaitNext, AnswerNext
  DEF IInv

LEMMA Invariance == Spec => []IInv
  BY IInvInit, IInvNext, PTL DEF Spec

(* Type correctness: a promise's id is always one that was given out, and  *)
(* the ids the three threads carry between their steps are too.            *)
THEOREM TypeCorrect == Spec => []TypeOK
  <1>1. IInv => TypeOK
    BY DEF IInv, TypeInv
  <1> QED
    BY <1>1, Invariance, PTL

(* A promise of call() or callComplex() settled with an answer got the     *)
(* answer to its own call, whatever reconnects, timeouts and late answers  *)
(* came between.                                                           *)
THEOREM AnswersMatch == Spec => []ReplyIsForItsCall
  <1>1. IInv => ReplyIsForItsCall
    BY DEF IInv
  <1> QED
    BY <1>1, Invariance, PTL

(* The answer to a call that is still waited for finds its promise through *)
(* serialToPromiseId.                                                      *)
THEOREM CallsAnswered == Spec => []AnswerFindsItsCall
  <1>1. IInv => AnswerFindsItsCall
    BY DEF IInv
  <1> QED
    BY <1>1, Invariance, PTL

(* A connect() that waits has a connect thread that will deliver to it.    *)
THEOREM WaitersServed == Spec => []NoStrandedWaiter
  <1>1. IInv => NoStrandedWaiter
    BY DEF IInv, ControlInv
  <1> QED
    BY <1>1, Invariance, PTL

(* The rules of addMatch survive a reconnect: all but those astray, which  *)
(* the script run by a conversion of addMatch's own argument made it lose. *)
THEOREM RulesKept == Spec => []RulesInstalled
  <1>1. IInv => RulesInstalled
    BY DEF IInv
  <1> QED
    BY <1>1, Invariance, PTL

(***************************************************************************)
(* One bus handle implements PromiseTable, and its threads end: the pump   *)
(* reads no connection that was released, a connection that works is read, *)
(* and shutdown leaves nothing behind.  On top of IInv.                    *)
(***************************************************************************)

\* What is queued without an answer names no call.
Local(item) == item.kind # "reply" => item.call = 0

\* Ids not yet given out have no promise, pending or settled; and no item for a promise
\* claims a call it has no answer to.
TableInv ==
    /\ \A id \in promises : id < nextId
    /\ \A id \in Ids : id >= nextId => outcome[id] = None
    /\ \A i \in 1..Len(replies) : Local(replies[i])
    /\ \A i \in 1..Len(batch) : Local(batch[i])

\* Past the first join there is no connect thread, and past the one of shutdown nobody
\* sets running again.
JoinInv ==
    /\ js.pc \in {"joinPump", "sdPump"} => worker.pc = "none"
    /\ js.pc \in {"sdWorker", "sdPump"} => shuttingDown
    /\ js.pc = "sdPump" => ~running
    /\ ~context => shuttingDown

\* A connect thread past its dialling has a connection, published or to be published.
CarriesConn ==
    /\ worker.pc \in {"dialled", "rules", "walking", "publish"} => worker.conn # NULL
    /\ worker.pc \in {"startPump", "spawnPump"} => conn # NULL

\* running stands for a pump, from the moment one is about to be started.
RunningInv ==
    /\ running => PumpRuns \/ worker.pc = "spawnPump"
    /\ conn # NULL /\ linkUp /\ ~shuttingDown /\ worker.pc # "startPump" => running

ThreadInv ==
    /\ JoinInv /\ CarriesConn /\ RunningInv
    /\ PumpUsesLiveConnection
    /\ ShutdownLeavesNothing

(* The threads, step by step.                                              *)
LEMMA ThreadNext ==
  TypeInv /\ StackInv /\ ControlInv /\ ThreadInv /\ [Next]_vars => ThreadInv'
  <1> SUFFICES ASSUME TypeInv /\ StackInv /\ ControlInv /\ ThreadInv, [Next]_vars PROVE ThreadInv'
    OBVIOUS
  <1> USE DEF jsVars, promiseVars, updateVars, stateVars, linkVars, TypeInv, TypeOK,
              ThreadTypes, FlagTypes, ControlInv, ShutdownInv, ConnectInv, WorkerServing,
              WorkerDialling, ThreadInv, JoinInv, CarriesConn, RunningInv, PumpRuns,
              PumpEnded, WorkerEnded, PumpUsesLiveConnection, ShutdownLeavesNothing
  <1>1. CASE UNCHANGED vars
    BY <1>1 DEF vars
  <1>2. CASE Next
    <2>1. ASSUME NEW bus \in Buses, ConnectCall(bus)
          PROVE  ThreadInv'
      BY <2>1 DEF ConnectCall, Callable
    <2>2. CASE ConnectCheckConnecting
      BY <2>2 DEF ConnectCheckConnecting, Idle
    <2>3. CASE ConnectCheckDead
      BY <2>3 DEF ConnectCheckDead
    <2>4. CASE ReconnectJoinWorker
      BY <2>4 DEF ReconnectJoinWorker, NoThread
    <2>5. CASE ReconnectForget
      BY <2>5 DEF ReconnectForget
    <2>6. CASE ConnectCheckConn
      <3>1. UNCHANGED <<worker, pump, conn, connecting, running, linkUp, shuttingDown,
                        context>>
        BY <2>6 DEF ConnectCheckConn
      <3>2. js'.pc \in {"idle", "register"}
        <4>1. CASE conn # NULL
          BY <4>1, <2>6 DEF ConnectCheckConn, Idle
        <4>2. CASE conn = NULL
          BY <4>2, <2>6 DEF ConnectCheckConn
        <4> QED
          BY <4>1, <4>2
      <3>3. ~shuttingDown /\ context
        BY <2>6 DEF ConnectCheckConn
      <3> QED
        BY <3>1, <3>2, <3>3
    <2>7. CASE ConnectRegister
      BY <2>7 DEF ConnectRegister, Idle
    <2>8. CASE ConnectSpawn
      BY <2>8 DEF ConnectSpawn, Idle
    <2>9. CASE DialFails
      BY <2>9 DEF DialFails
    <2>10. CASE DialSucceeds
      BY <2>10 DEF DialSucceeds, NULL
    <2>11. CASE DialledCheck
      BY <2>11 DEF DialledCheck, NoThread
    <2>12. CASE WalkBegin
      BY <2>12 DEF WalkBegin
    <2>13. CASE WalkEnds
      BY <2>13 DEF WalkEnds
    <2>14. CASE Publish
      BY <2>14 DEF Publish
    <2>15. CASE ClaimPump
      BY <2>15 DEF ClaimPump
    <2>16. CASE SpawnPump
      BY <2>16 DEF SpawnPump
    <2>17. CASE TakeWaiters
      BY <2>17 DEF TakeWaiters
    <2>18. CASE DeliverToWaiters
      BY <2>18 DEF DeliverToWaiters, NoThread
    <2>19. CASE PumpLoop
      BY <2>19 DEF PumpLoop
    <2>20. CASE PumpPop
      BY <2>20 DEF PumpPop
    <2>21. CASE PumpPush
      BY <2>21 DEF PumpPush
    <2>22. CASE PumpEmpty
      BY <2>22 DEF PumpEmpty
    <2>23. CASE PumpCheck
      BY <2>23 DEF PumpCheck
    <2>24. CASE CallBegin
      BY <2>24 DEF CallBegin
    <2>25. CASE CallThrows
      BY <2>25 DEF CallThrows
    <2>26. CASE CallSends
      <3>1. UNCHANGED <<js, worker, pump, conn, linkUp, running, shuttingDown, replies,
                        waiters>>
        BY <2>26 DEF CallSends
      <3>2. context /\ context' = context
        BY <2>26 DEF CallSends, Converted, StackInv
      <3> QED
        BY <3>1, <3>2
    <2>27. ASSUME NEW rule \in Rules, AddMatchBegin(rule)
          PROVE  ThreadInv'
      BY <2>27 DEF AddMatchBegin
    <2>28. CASE AddMatchSends
      BY <2>28 DEF AddMatchSends, Converted
    <2>29. CASE AddMatchRemembers
      BY <2>29 DEF AddMatchRemembers, Idle
    <2>30. ASSUME NEW due \in SUBSET promises, UpdateTimeouts(due)
          PROVE  ThreadInv'
      BY <2>30 DEF UpdateTimeouts
    <2>31. CASE UpdateDrain
      BY <2>31 DEF UpdateDrain
    <2>32. CASE SettleReply
      BY <2>32 DEF SettleReply
    <2>33. CASE SettleTimeouts
      BY <2>33 DEF SettleTimeouts, Idle
    <2>34. CASE ShutdownBegin
      BY <2>34 DEF ShutdownBegin
    <2>35. CASE ShutdownJoinWorker
      BY <2>35 DEF ShutdownJoinWorker, NoThread
    <2>36. CASE ShutdownClear
      BY <2>36 DEF ShutdownClear, Idle
    <2>37. ASSUME NEW req \in requests, PeerAnswers(req)
          PROVE  ThreadInv'
      BY <2>37 DEF PeerAnswers
    <2>38. CASE BusDrops
      BY <2>38 DEF BusDrops
    <2> QED
      BY <1>2,
         <2>1, <2>2, <2>3, <2>4, <2>5, <2>6, <2>7, <2>8, <2>9, <2>10,
         <2>11, <2>12, <2>13, <2>14, <2>15, <2>16, <2>17, <2>18, <2>19, <2>20,
         <2>21, <2>22, <2>23, <2>24, <2>25, <2>26, <2>27, <2>28, <2>29, <2>30,
         <2>31, <2>32, <2>33, <2>34, <2>35, <2>36, <2>37, <2>38
      DEF Next, ConnectSteps, WorkerSteps, PumpSteps, CallSteps, AddMatchSteps, UpdateSteps,
          ShutdownSteps, BusSteps
  <1> QED
    BY <1>1, <1>2

(* Two lists of items that name no call without an answer, put together.   *)
LEMMA LocalConcat ==
  ASSUME NEW s \in Seq(ReplyItem), \A i \in 1..Len(s) : Local(s[i]),
         NEW t \in Seq({r \in ReplyItem : Local(r)})
  PROVE  \A i \in 1..Len(s \o t) : Local((s \o t)[i])
  <1>1. s \in Seq({r \in ReplyItem : Local(r)})
    <2>1. s \in [1..Len(s) -> {r \in ReplyItem : Local(r)}]
      OBVIOUS
    <2> QED
      BY <2>1, FunctionIsSeq
  <1>2. s \o t \in Seq({r \in ReplyItem : Local(r)})
    BY <1>1
  <1> QED
    BY <1>2

(* The promises and what is queued for them, step by step.                 *)
LEMMA TableNext == TypeInv /\ TableInv /\ [Next]_vars => TableInv'
  <1> SUFFICES ASSUME TypeInv /\ TableInv, [Next]_vars PROVE TableInv'
    OBVIOUS
  <1> USE DEF jsVars, promiseVars, updateVars, stateVars, linkVars, TypeInv, TypeOK,
              ThreadTypes, PromiseTypes, TableInv
  <1>1. CASE UNCHANGED vars
    BY <1>1 DEF vars
  <1>2. CASE Next
    <2>1. CASE ReconnectForget
      <3>1. PICK order \in SetToSeqs(promises) :
               replies' = replies \o [i \in DOMAIN order |-> Reply(order[i], "disconnected", 0)]
        BY <2>1 DEF ReconnectForget
      <3>2. order \in [1..Cardinality(promises) -> promises]
        BY DEF SetToSeqs
      <3>3. [i \in DOMAIN order |-> Reply(order[i], "disconnected", 0)]
               \in Seq({r \in ReplyItem : Local(r)})
        <4>1. [i \in DOMAIN order |-> Reply(order[i], "disconnected", 0)]
                 \in [1..Cardinality(promises) -> {r \in ReplyItem : Local(r)}]
          BY <3>2 DEF Reply, ReplyItem, LocalKinds, Local
        <4> QED
          BY <4>1, PromisesFinite, FunctionIsSeq
      <3>4. \A i \in 1..Len(replies') : Local(replies'[i])
        BY <3>1, <3>3, LocalConcat
      <3> QED
        BY <3>4, <2>1 DEF ReconnectForget
    <2>2. CASE ConnectCheckConn
      <3>1. UNCHANGED <<replies, batch, outcome>>
        BY <2>2 DEF ConnectCheckConn, NewPromise
      <3>2. \/ promises' = promises /\ nextId' = nextId
            \/ promises' = promises \cup {nextId} /\ nextId' = nextId + 1
        BY <2>2 DEF ConnectCheckConn, NewPromise
      <3>3. CASE promises' = promises /\ nextId' = nextId
        BY <3>1, <3>3
      <3>4. CASE promises' = promises \cup {nextId} /\ nextId' = nextId + 1
        BY <3>1, <3>4 DEF Ids
      <3> QED
        BY <3>2, <3>3, <3>4
    <2>3. CASE ConnectRegister
      <3>1. UNCHANGED <<promises, outcome, nextId, batch>>
        BY <2>3 DEF ConnectRegister
      <3>2. \/ replies' = replies
            \/ replies' = Append(replies, Reply(js.id, "connected", 0))
        BY <2>3 DEF ConnectRegister
      <3>3. js.id \in Ids
        BY <2>3 DEF ConnectRegister, CarriedIds
      <3>4. Reply(js.id, "connected", 0) \in ReplyItem /\ Local(Reply(js.id, "connected", 0))
        BY <3>3 DEF Reply, ReplyItem, LocalKinds, Local
      <3>5. \A i \in 1..Len(replies') : Local(replies'[i])
        BY <3>2, <3>4
      <3> QED
        BY <3>1, <3>5
    <2>4. CASE DeliverToWaiters
      <3> DEFINE kind == IF worker.conn # NULL THEN "connected" ELSE "connectFailed"
                 sent == [i \in DOMAIN worker.took |-> Reply(worker.took[i], kind, 0)]
      <3>1. worker.took \in Seq(Ids) /\ Len(worker.took) \in Nat
        OBVIOUS
      <3>2. sent \in [1..Len(worker.took) -> {r \in ReplyItem : Local(r)}]
        BY <3>1 DEF Reply, ReplyItem, LocalKinds, Local
      <3>3. sent \in Seq({r \in ReplyItem : Local(r)})
        <4> HIDE DEF sent
        <4> QED
          BY ONLY <3>1, <3>2, FunctionIsSeq
      <3>4. replies' = replies \o sent
        BY <2>4 DEF DeliverToWaiters
      <3>5. \A i \in 1..Len(replies') : Local(replies'[i])
        BY <3>3, <3>4, LocalConcat
      <3> QED
        BY <3>5, <2>4 DEF DeliverToWaiters
    <2>5. CASE PumpPush
      <3>1. UNCHANGED <<promises, outcome, nextId, batch>>
            /\ replies' = Append(replies, Reply(pump.id, "reply", pump.call))
        BY <2>5 DEF PumpPush
      <3>2. pump.id \in Ids /\ pump.call \in Ids \cup {0}
        BY <2>5 DEF PumpPush, CarriedIds
      <3>3. Reply(pump.id, "reply", pump.call) \in ReplyItem
            /\ Local(Reply(pump.id, "reply", pump.call))
        BY <3>2 DEF Reply, ReplyItem, Local
      <3>4. \A i \in 1..Len(replies') : Local(replies'[i])
        BY <3>1, <3>3
      <3> QED
        BY <3>1, <3>4
    <2>6. CASE CallSends
      <3>1. /\ UNCHANGED <<replies, batch, outcome>>
            /\ promises' = promises \cup {nextId} /\ nextId' = nextId + 1
        BY <2>6 DEF CallSends, NewPromise
      <3> QED
        BY <3>1 DEF Ids
    <2>7. CASE UpdateDrain
      BY <2>7 DEF UpdateDrain
    <2>8. CASE SettleReply
      <3> DEFINE r == Head(batch)
      <3>1. batch # <<>> /\ batch' = Tail(batch) /\ UNCHANGED <<replies, nextId>>
            /\ promises' = promises \ {r.id}
        BY <2>8 DEF SettleReply
      <3>2. \A i \in 1..Len(batch') : i + 1 \in 1..Len(batch) /\ batch'[i] = batch[i + 1]
        BY <3>1
      <3>3. \A id \in Ids : id >= nextId => outcome'[id] = outcome[id]
        <4> SUFFICES ASSUME NEW id \in Ids, id >= nextId PROVE outcome'[id] = outcome[id]
          OBVIOUS
        <4>1. id \notin promises
          BY DEF Ids
        <4>2. CASE r.id \in promises
          <5>1. id # r.id /\ outcome' = [outcome EXCEPT ![r.id] = [kind |-> r.kind, call |-> r.call]]
            BY <4>1, <4>2, <2>8 DEF SettleReply
          <5> QED
            BY <5>1
        <4>3. CASE r.id \notin promises
          BY <4>3, <2>8 DEF SettleReply
        <4> QED
          BY <4>2, <4>3
      <3> QED
        BY <3>1, <3>2, <3>3
    <2>9. CASE SettleTimeouts
      <3>1. UNCHANGED <<replies, batch, nextId>> /\ promises' \subseteq promises
        BY <2>9 DEF SettleTimeouts
      <3>2. \A id \in Ids : id >= nextId => outcome'[id] = outcome[id]
        BY <2>9 DEF SettleTimeouts, Ids
      <3> QED
        BY <3>1, <3>2
    <2>10. CASE ShutdownClear
      BY <2>10 DEF ShutdownClear
    <2>11. CASE \/ \E bus \in Buses : ConnectCall(bus)
                \/ ConnectCheckConnecting
                \/ ConnectCheckDead
                \/ ReconnectJoinWorker
                \/ ConnectSpawn
                \/ DialFails
                \/ DialSucceeds
                \/ DialledCheck
                \/ WalkBegin
                \/ WalkEnds
                \/ Publish
                \/ ClaimPump
                \/ SpawnPump
                \/ TakeWaiters
                \/ PumpLoop
                \/ PumpPop
                \/ PumpEmpty
                \/ PumpCheck
                \/ CallBegin
                \/ CallThrows
                \/ \E rule \in Rules : AddMatchBegin(rule)
                \/ AddMatchSends
                \/ AddMatchRemembers
                \/ \E due \in SUBSET promises : UpdateTimeouts(due)
                \/ ShutdownBegin
                \/ ShutdownJoinWorker
                \/ \E req \in requests : PeerAnswers(req)
                \/ BusDrops
      <3>1. UNCHANGED <<promises, outcome, nextId, replies, batch>>
        BY <2>11
        DEF ConnectCall, ConnectCheckConnecting, ConnectCheckDead,
            ReconnectJoinWorker, ConnectSpawn, DialFails, DialSucceeds, DialledCheck,
            WalkBegin, WalkEnds, Publish, ClaimPump, SpawnPump, TakeWaiters, PumpLoop,
            PumpPop, PumpEmpty, PumpCheck, CallBegin, CallThrows, AddMatchBegin,
            AddMatchSends, AddMatchRemembers, UpdateTimeouts, ShutdownBegin,
            ShutdownJoinWorker, PeerAnswers, BusDrops
      <3> QED
        BY <3>1
    <2> QED
      BY <1>2, <2>1, <2>2, <2>3, <2>4, <2>5, <2>6, <2>7, <2>8, <2>9, <2>10, <2>11
      DEF Next, ConnectSteps, WorkerSteps, PumpSteps, CallSteps, AddMatchSteps, UpdateSteps,
          ShutdownSteps, BusSteps
  <1> QED
    BY <1>1, <1>2

(* All that holds of a bus handle: the invariant of DbusClient_proofs, the  *)
(* threads and the table.                                                  *)
FullInv == IInv /\ ThreadInv /\ TableInv

(* Nothing has happened yet.                                               *)
LEMMA FullInit == Init => FullInv
  <1> SUFFICES ASSUME Init PROVE FullInv
    OBVIOUS
  <1>1. IInv
    BY IInvInit
  <1>2. ThreadInv
    BY DEF Init, Idle, NoThread, ThreadInv, JoinInv, CarriesConn, RunningInv, PumpRuns,
           PumpEnded, PumpUsesLiveConnection, ShutdownLeavesNothing
  <1>3. TableInv
    BY DEF Init, TableInv
  <1> QED
    BY <1>1, <1>2, <1>3 DEF FullInv

(* It holds initially and every step preserves it.                         *)
LEMMA FullInvariance == Spec => []FullInv
  <1>1. FullInv /\ [Next]_vars => FullInv'
    BY IInvNext, ThreadNext, TableNext DEF FullInv, IInv
  <1> QED
    BY <1>1, FullInit, PTL DEF Spec

(* A step that leaves the table alone.                                     *)
TableStays == UNCHANGED <<promises, outcome, answered, context>>

(* What each step does to the table: it makes a promise, the peer answers, *)
(* promises are settled, the table is closed, or nothing happens to it.    *)
LEMMA TableStep ==
  FullInv /\ [Next]_vars => (Table!TableNext \/ TableStays)
  <1> SUFFICES ASSUME FullInv, [Next]_vars PROVE Table!TableNext \/ TableStays
    OBVIOUS
  <1> USE DEF jsVars, promiseVars, updateVars, stateVars, linkVars, FullInv, IInv, TypeInv,
             TypeOK, ThreadTypes, PromiseTypes, LinkTypes, ThreadInv
  <1>1. CASE UNCHANGED vars
    BY <1>1 DEF vars, TableStays
  <1>2. CASE Next
    <2>1. CASE ConnectCheckConn
      <3>1. CASE conn # NULL
        BY <3>1, <2>1 DEF ConnectCheckConn, TableStays
      <3>2. CASE conn = NULL
        <4>1. context /\ nextId \in Ids
          BY <2>1 DEF ConnectCheckConn, CarriedIds, ControlInv, ShutdownInv, JoinInv
        <4>2. nextId \notin promises /\ outcome[nextId] = None
          BY <4>1 DEF TableInv, Ids
        <4>3. promises' = promises \cup {nextId} /\ UNCHANGED <<outcome, answered, context>>
          BY <3>2, <2>1 DEF ConnectCheckConn, NewPromise
        <4>4. Table!Create(nextId)
          BY <4>1, <4>2, <4>3 DEF Table!Create, None, Table!None
        <4> QED
          BY <4>1, <4>4 DEF Table!TableNext
      <3> QED
        BY <3>1, <3>2
    <2>2. CASE CallSends
      <3>1. context /\ nextId \in Ids
        BY <2>2 DEF CallSends, Converted, StackInv
      <3>2. nextId \notin promises /\ outcome[nextId] = None
        BY <3>1 DEF TableInv, Ids
      <3>3. promises' = promises \cup {nextId} /\ UNCHANGED <<outcome, answered, context>>
        BY <2>2 DEF CallSends, NewPromise
      <3>4. Table!Create(nextId)
        BY <3>1, <3>2, <3>3 DEF Table!Create, None, Table!None
      <3> QED
        BY <3>1, <3>4 DEF Table!TableNext
    <2>3. CASE SettleReply
      <3> DEFINE r == Head(batch)
                 out == [kind |-> r.kind, call |-> r.call]
      <3>1. batch # <<>> /\ promises' = promises \ {r.id} /\ UNCHANGED <<answered, context>>
        BY <2>3 DEF SettleReply
      <3>2. CASE r.id \notin promises
        <4>1. outcome' = outcome /\ promises' = promises
          BY <3>1, <3>2, <2>3 DEF SettleReply
        <4> QED
          BY <3>1, <4>1 DEF TableStays
      <3>3. CASE r.id \in promises
        <4>1. r.id \in Ids /\ r \in ReplyItem /\ Honest(r) /\ Local(r)
          <5>1. r = batch[1] /\ 1 \in 1..Len(batch)
            BY <3>1
          <5>2. r \in ReplyItem /\ Honest(r) /\ Local(r)
            BY <5>1 DEF AnswerInv, TableInv
          <5> QED
            BY <5>2 DEF ReplyItem
        <4>2. outcome' = [outcome EXCEPT ![r.id] = out]
          BY <3>3, <2>3 DEF SettleReply
        <4>3. out \in Table!Allowed(r.id)
          <5>1. CASE r.kind = "reply"
            <6>1. out = [kind |-> "reply", call |-> r.call] /\ r.call \in {r.id} \cap answered
              BY <4>1, <5>1 DEF Honest
            <6> QED
              BY <6>1 DEF Table!Allowed
          <5>2. CASE r.kind # "reply"
            <6>1. r.kind \in LocalKinds /\ r.call = 0
              BY <4>1, <5>2 DEF Local, ReplyItem
            <6> QED
              BY <6>1 DEF Table!Allowed
          <5> QED
            BY <5>1, <5>2
        <4>4. outcome' = [id \in Ids |-> IF id \in {r.id} THEN outcome'[id] ELSE outcome[id]]
          BY <4>1, <4>2
        <4>5. \A id \in {r.id} : outcome'[id] \in Table!Allowed(id)
          BY <4>1, <4>2, <4>3
        <4>6. Table!SettleAll({r.id})
          BY <3>1, <4>4, <4>5 DEF Table!SettleAll
        <4>7. {r.id} \in SUBSET promises /\ {r.id} # {}
          BY <3>3
        <4> QED
          BY <4>6, <4>7 DEF Table!TableNext
      <3> QED
        BY <3>2, <3>3
    <2>4. CASE SettleTimeouts
      <3> DEFINE S == timedOut \cap promises
      <3>1. promises' = promises \ S /\ UNCHANGED <<answered, context>>
        BY <2>4 DEF SettleTimeouts
      <3>2. outcome' = [id \in Ids |-> IF id \in S THEN [kind |-> "timeout", call |-> 0]
                                        ELSE outcome[id]]
        BY <2>4 DEF SettleTimeouts
      <3>3. CASE S = {}
        <4>1. outcome' = outcome /\ promises' = promises
          BY <3>1, <3>2, <3>3
        <4> QED
          BY <3>1, <4>1 DEF TableStays
      <3>4. CASE S # {}
        <4>1. \A id \in S : outcome'[id] = [kind |-> "timeout", call |-> 0]
          BY <3>2
        <4>2. outcome' = [id \in Ids |-> IF id \in S THEN outcome'[id] ELSE outcome[id]]
          BY <3>2, <4>1
        <4>3. \A id \in S : outcome'[id] \in Table!Allowed(id)
          BY <4>1 DEF Table!Allowed, LocalKinds
        <4>4. Table!SettleAll(S)
          BY <3>1, <4>2, <4>3 DEF Table!SettleAll
        <4>5. S \in SUBSET promises
          OBVIOUS
        <4> QED
          BY <3>4, <4>4, <4>5 DEF Table!TableNext
      <3> QED
        BY <3>3, <3>4
    <2>5. CASE ShutdownClear
      <3>1. Table!Close
        BY <2>5 DEF ShutdownClear, Table!Close
      <3> QED
        BY <3>1 DEF Table!TableNext
    <2>6. ASSUME NEW req \in requests, PeerAnswers(req)
          PROVE  Table!TableNext \/ TableStays
      <3>1. Table!Answer(req.id)
        BY <2>6 DEF PeerAnswers, Table!Answer
      <3>2. req.id \in Ids
        OBVIOUS
      <3> QED
        BY <3>1, <3>2 DEF Table!TableNext
    <2>7. CASE \/ \E bus \in Buses : ConnectCall(bus)
               \/ ConnectCheckConnecting
               \/ ConnectCheckDead
               \/ ReconnectJoinWorker
               \/ ReconnectForget
               \/ ConnectRegister
               \/ ConnectSpawn
               \/ DialFails
               \/ DialSucceeds
               \/ DialledCheck
               \/ WalkBegin
               \/ WalkEnds
               \/ Publish
               \/ ClaimPump
               \/ SpawnPump
               \/ TakeWaiters
               \/ DeliverToWaiters
               \/ PumpLoop
               \/ PumpPop
               \/ PumpPush
               \/ PumpEmpty
               \/ PumpCheck
               \/ CallBegin
               \/ CallThrows
               \/ \E rule \in Rules : AddMatchBegin(rule)
               \/ AddMatchSends
               \/ AddMatchRemembers
               \/ \E due \in SUBSET promises : UpdateTimeouts(due)
               \/ UpdateDrain
               \/ ShutdownBegin
               \/ ShutdownJoinWorker
               \/ BusDrops
      <3>1. UNCHANGED <<promises, outcome, answered, context>>
        BY <2>7
        DEF ConnectCall, ConnectCheckConnecting, ConnectCheckDead,
            ReconnectJoinWorker, ReconnectForget, ConnectRegister, ConnectSpawn,
            DialFails, DialSucceeds, DialledCheck, WalkBegin, WalkEnds, Publish, ClaimPump,
            SpawnPump, TakeWaiters, DeliverToWaiters, PumpLoop, PumpPop, PumpPush,
            PumpEmpty, PumpCheck, CallBegin, CallThrows, AddMatchBegin,
            AddMatchSends, AddMatchRemembers, UpdateTimeouts, UpdateDrain,
            ShutdownBegin, ShutdownJoinWorker, BusDrops
      <3> QED
        BY <3>1 DEF TableStays
    <2> QED
      BY <1>2, <2>1, <2>2, <2>3, <2>4, <2>5, <2>6, <2>7
      DEF Next, ConnectSteps, WorkerSteps, PumpSteps, CallSteps, AddMatchSteps, UpdateSteps,
          ShutdownSteps, BusSteps
  <1> QED
    BY <1>1, <1>2

(* connect(), call() and callComplex() keep what PromiseTable promises:    *)
(* an id is given out once, settled at most once, and with the answer to   *)
(* its own call if with one; shutdown drops what is left.                  *)
THEOREM TableImplemented == Spec => ImplementsTable
  <1>1. Init => Table!TableInit
    BY DEF Init, Table!TableInit, None, Table!None
  <1>2. FullInv /\ [Next]_vars => [Table!TableNext]_(Table!tableVars)
    BY TableStep DEF TableStays, Table!tableVars
  <1> QED
    BY <1>1, <1>2, FullInvariance, PTL DEF Spec, ImplementsTable, Table!TableSpec

(* A reconnect and shutdown release the connection after the pump ended    *)
(* (js_connect, dbus_shutdown).                                            *)
THEOREM PumpReadsLive == Spec => []PumpUsesLiveConnection
  <1>1. FullInv => PumpUsesLiveConnection
    BY DEF FullInv, ThreadInv
  <1> QED
    BY <1>1, FullInvariance, PTL

(* A published connection that works has its pump, whatever ran when it    *)
(* was published (running.exchange in the connect thread).                 *)
THEOREM ConnectionPumped == Spec => []LiveConnectionIsPumped
  <1>1. FullInv => LiveConnectionIsPumped
    BY DEF FullInv, ThreadInv, RunningInv, LiveConnectionIsPumped
  <1> QED
    BY <1>1, FullInvariance, PTL

(* After dbus_shutdown no thread runs and nothing is left for one.         *)
THEOREM ShutdownClean == Spec => []ShutdownLeavesNothing
  <1>1. FullInv => ShutdownLeavesNothing
    BY DEF FullInv, ThreadInv
  <1> QED
    BY <1>1, FullInvariance, PTL

=============================================================================
