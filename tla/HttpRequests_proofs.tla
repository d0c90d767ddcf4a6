------------------------ MODULE HttpRequests_proofs -------------------------
(***************************************************************************)
(* For any number of requests: the http plugin's state is well formed, its *)
(* worker never misses a wake-up, and a promise is settled or released     *)
(* once.                                                                   *)
(***************************************************************************)
EXTENDS HttpRequests, SequenceLemmas

\* Whoever carries a request carries a real one.
HandsInv ==
    /\ js.pc = "push" => js.id \in Ids
    /\ worker.pc = "perform" => worker.id \in Ids

\* A worker that has seen "running" set and will find it cleared has a signal to come
\* back for, once ~Http has given it.
StopInv ==
    ~running /\ js.pc # "wake" /\ worker.pc \in {"look", "acquire"} => signal > 0

IInv == TypeOK /\ HandsInv /\ StopInv /\ NoWakeUpLost

\* After release() the counter is not zero.
LEMMA ReleaseSignals ==
    ASSUME TypeOK, Release
    PROVE  signal' \in Nat /\ signal' > 0
BY DEF TypeOK, Release

\* A settlement changes nothing but an open promise.
LEMMA SettleKeepsType ==
    ASSUME TypeOK, NEW job \in Job, Settle(job)
    PROVE  /\ outcome' \in [Ids -> {"none", "open", "resolved", "rejected", "released"}]
           /\ pending' = {id \in Ids : outcome'[id] = "open"}
BY DEF TypeOK, Settle, Job

LEMMA InitInv == Init => IInv
<1> SUFFICES ASSUME Init PROVE IInv
    OBVIOUS
<1>1. waiting \in Seq(Ids) /\ done \in Seq(Job)
    BY DEF Init
<1>2. pending = {id \in Ids : outcome[id] = "open"}
    BY DEF Init
<1>3. outcome \in [Ids -> {"none", "open", "resolved", "rejected", "released"}]
    BY DEF Init
<1>4. TypeOK
    BY <1>1, <1>2, <1>3 DEF Init, TypeOK, Script, Worker
<1>5. HandsInv /\ StopInv /\ NoWakeUpLost
    BY DEF Init, HandsInv, StopInv, NoWakeUpLost, Script, Worker
<1> QED
    BY <1>4, <1>5 DEF IInv

\* Well-formedness, one step of Next at a time.
LEMMA TypeStep ==
    ASSUME IInv, [Next]_vars
    PROVE  TypeOK' /\ HandsInv'
<1> USE DEF IInv, HandsInv
<1>1. ASSUME NEW id \in Ids, Request(id) PROVE TypeOK' /\ HandsInv'
    BY <1>1 DEF TypeOK, Request, host, Job
<1>2. CASE RequestPush
    BY <1>2 DEF TypeOK, RequestPush, Script, host
<1>3. CASE RequestSignal
    <2>1. signal' \in Nat
        BY <1>3, ReleaseSignals DEF RequestSignal
    <2> QED
        BY <1>3, <2>1 DEF TypeOK, RequestSignal, Script, host
<1>4. CASE WorkerTest
    BY <1>4 DEF TypeOK, WorkerTest, Worker, http, host
<1>5. CASE WorkerLook
    BY <1>5 DEF TypeOK, WorkerLook, Worker, http, host
<1>6. CASE WorkerAcquire
    BY <1>6 DEF TypeOK, WorkerAcquire, Worker, host
<1>7. CASE WorkerTake
    <2>1. CASE waiting = <<>>
        BY <1>7, <2>1 DEF TypeOK, WorkerTake, Worker, host
    <2>2. CASE waiting # <<>>
        <3>1. Head(waiting) \in Ids /\ Tail(waiting) \in Seq(Ids)
            BY <2>2 DEF TypeOK
        <3> QED
            <4>1. /\ worker' = [pc |-> "perform", id |-> Head(waiting)]
                  /\ waiting' = Tail(waiting)
                  /\ UNCHANGED <<js, running, signal, done, pending, context, host, outcome>>
                BY <1>7, <2>2 DEF WorkerTake
            <4>2. worker'.id \in Ids /\ waiting' \in Seq(Ids)
                BY <3>1, <4>1
            <4> QED
                BY <4>1, <4>2, <3>1 DEF TypeOK, host
    <2> QED
        BY <2>1, <2>2
<1>8. ASSUME NEW succeed \in BOOLEAN, WorkerPerform(succeed) PROVE TypeOK' /\ HandsInv'
    <2>1. [id |-> worker.id, succeed |-> succeed] \in Job
        BY <1>8 DEF WorkerPerform, Job
    <2>2. done' \in Seq(Job)
        BY <1>8, <2>1 DEF TypeOK, WorkerPerform
    <2> QED
        BY <1>8, <2>2 DEF TypeOK, WorkerPerform, Worker, host
<1>9. CASE DrainBegin
    BY <1>9 DEF TypeOK, DrainBegin, Script, http, host
<1>10. ASSUME done # <<>> PROVE Head(done) \in Job /\ Tail(done) \in Seq(Job)
    BY <1>10 DEF TypeOK
<1>11. CASE DrainHandsOver
    BY <1>10, <1>11 DEF TypeOK, DrainHandsOver
<1>12. CASE DrainSettles
    BY <1>10, <1>12, SettleKeepsType DEF TypeOK, DrainSettles, host
<1>13. CASE DrainIsRefused
    BY <1>10, <1>13 DEF TypeOK, DrainIsRefused, host
<1>14. CASE DrainEnd
    BY <1>14 DEF TypeOK, DrainEnd, Script, http, host
<1>15. ASSUME NEW job \in tasks, RunTask(job) PROVE TypeOK' /\ HandsInv'
    <2>1. job \in Job
        BY DEF TypeOK
    <2>2. /\ outcome' \in [Ids -> {"none", "open", "resolved", "rejected", "released"}]
          /\ pending' = {id \in Ids : outcome'[id] = "open"}
        BY <1>15, <2>1, SettleKeepsType DEF RunTask
    <2> QED
        BY <1>15, <2>2 DEF TypeOK, RunTask
<1>16. CASE Revoke
    BY <1>16 DEF TypeOK, Revoke, http
<1>17. CASE Cleanup
    BY <1>17 DEF TypeOK, Cleanup, Script, host
<1>18. CASE Stop
    BY <1>18 DEF TypeOK, Stop, Script, host
<1>19. CASE Wake
    <2>1. signal' \in Nat
        BY <1>19, ReleaseSignals DEF Wake
    <2> QED
        BY <1>19, <2>1 DEF TypeOK, Wake, Script, host
<1>20. CASE Join
    BY <1>20 DEF TypeOK, Join, Script, host
<1>21. CASE UNCHANGED vars
    BY <1>21 DEF TypeOK, vars, http, host
<1> QED
    BY <1>1, <1>2, <1>3, <1>4, <1>5, <1>6, <1>7, <1>8, <1>9, <1>11, <1>12, <1>13, <1>14,
       <1>15, <1>16, <1>17, <1>18, <1>19, <1>20, <1>21
    DEF Next, RequestSteps, WorkerSteps, DrainSteps, RunTasks, ShutdownSteps, CleanupAgain

\* Wake-ups.
LEMMA WakeStep ==
    ASSUME IInv, [Next]_vars
    PROVE  StopInv' /\ NoWakeUpLost'
<1> USE DEF IInv, StopInv, NoWakeUpLost
<1>1. ASSUME NEW id \in Ids, Request(id) PROVE StopInv' /\ NoWakeUpLost'
    BY <1>1 DEF Request
<1>2. CASE RequestPush
    BY <1>2 DEF RequestPush, Script
<1>3. CASE RequestSignal
    BY <1>3, ReleaseSignals DEF RequestSignal, Script
<1>4. CASE WorkerTest
    BY <1>4 DEF WorkerTest, Worker, http
<1>5. CASE WorkerLook
    BY <1>5 DEF WorkerLook, Worker, http, TypeOK
<1>6. CASE WorkerAcquire
    BY <1>6 DEF WorkerAcquire, Worker
<1>7. CASE WorkerTake
    BY <1>7 DEF WorkerTake, Worker
<1>8. ASSUME NEW succeed \in BOOLEAN, WorkerPerform(succeed) PROVE StopInv' /\ NoWakeUpLost'
    BY <1>8 DEF WorkerPerform, Worker
<1>9. CASE DrainBegin
    BY <1>9 DEF DrainBegin, Script, http
<1>10. CASE DrainSteps
    BY <1>10 DEF DrainSteps, DrainHandsOver, DrainSettles, DrainIsRefused, DrainEnd, Script,
                 http
<1>11. ASSUME NEW job \in tasks, RunTask(job) PROVE StopInv' /\ NoWakeUpLost'
    BY <1>11 DEF RunTask
<1>12. CASE Revoke
    BY <1>12 DEF Revoke, http
<1>13. CASE Cleanup
    BY <1>13 DEF Cleanup, Script
<1>14. CASE Stop
    BY <1>14 DEF Stop, Script
<1>15. CASE Wake
    BY <1>15, ReleaseSignals DEF Wake, Script
<1>16. CASE Join
    BY <1>16 DEF Join, Script
<1>17. CASE UNCHANGED vars
    BY <1>17 DEF vars, http
<1> QED
    BY <1>1, <1>2, <1>3, <1>4, <1>5, <1>6, <1>7, <1>8, <1>9, <1>10, <1>11, <1>12, <1>13,
       <1>14, <1>15, <1>16, <1>17
    DEF Next, RequestSteps, WorkerSteps, RunTasks, ShutdownSteps, CleanupAgain

LEMMA Invariance == Spec => []IInv
<1>1. IInv /\ [Next]_vars => IInv'
    BY TypeStep, WakeStep DEF IInv
<1> QED
    BY InitInv, <1>1, PTL DEF Spec

\* Every variable keeps its values, and the pending map is the open promises.
THEOREM TypeCorrect == Spec => []TypeOK
<1>1. IInv => TypeOK
    BY DEF IInv
<1> QED
    BY Invariance, <1>1, PTL

\* The worker is never left waiting with a job queued, or asked to stop.
THEOREM WakeUpsArrive == Spec => []NoWakeUpLost
<1>1. IInv => NoWakeUpLost
    BY DEF IInv
<1> QED
    BY Invariance, <1>1, PTL

\* A promise that was settled or released stays so.
THEOREM PromisesSettleOnce == Spec => SettledOnce
<1>1. ASSUME TypeOK, [Next]_vars, NEW id \in Ids,
             outcome[id] \in {"resolved", "rejected", "released"}
      PROVE  outcome'[id] = outcome[id]
    <2>1. CASE UNCHANGED outcome
        BY <2>1
    <2>2. ASSUME NEW other \in Ids, Request(other) PROVE outcome'[id] = outcome[id]
        BY <1>1, <2>2 DEF TypeOK, Request
    <2>3. ASSUME NEW job, Settle(job) PROVE outcome'[id] = outcome[id]
        BY <1>1, <2>3 DEF TypeOK, Settle
    <2>4. CASE Cleanup
        BY <1>1, <2>4 DEF TypeOK, Cleanup
    <2> QED
        BY <1>1, <2>1, <2>2, <2>3, <2>4
        DEF Next, RequestSteps, RequestPush, RequestSignal, WorkerSteps, WorkerTest, WorkerLook,
            WorkerAcquire, WorkerTake, WorkerPerform, DrainBegin, DrainSteps, DrainHandsOver,
            DrainSettles, DrainIsRefused, DrainEnd, RunTasks, RunTask, Revoke, ShutdownSteps,
            Stop, Wake, Join, CleanupAgain, vars
<1>2. TypeOK /\ [Next]_vars
        => [\A id \in Ids : outcome[id] \in {"resolved", "rejected", "released"}
                => outcome'[id] = outcome[id]]_vars
    BY <1>1
<1> QED
    BY TypeCorrect, <1>2, PTL DEF Spec, SettledOnce

-----------------------------------------------------------------------------
(* The queue.  Requests are numbered as they are made, so that the line is *)
(* known from how long it is and the last number in it.                    *)

Outstanding == Len(done) + Len(InHand) + Len(waiting)

\* p requests have been queued, and those outstanding are the last of them.
Numbered(p) ==
    /\ Outstanding <= p /\ p <= MaxRequests
    /\ js.pc = "push" => js.id = p + 1
    /\ \A id \in Ids : outcome[id] # "none" <=> id <= p \/ (js.pc = "push" /\ id = p + 1)
    /\ \A i \in 1..Len(done) : done[i].id = p - Outstanding + i
    /\ worker.pc = "perform" => worker.id = p - Len(waiting)
    /\ \A i \in 1..Len(waiting) : waiting[i] = p - Len(waiting) + i

LineInv == \E p \in Nat : Numbered(p)

LEMMA OutstandingIsNat ==
    ASSUME TypeOK
    PROVE  /\ Outstanding \in Nat /\ Len(done) \in Nat /\ Len(waiting) \in Nat
           /\ worker.pc = "perform" => Len(InHand) = 1
           /\ worker.pc # "perform" => Len(InHand) = 0
    BY DEF TypeOK, Outstanding, InHand

\* The line is the last numbers up to p, here and after a step.
LEMMA LineIsLast ==
    ASSUME TypeOK, NEW p \in Nat, Numbered(p)
    PROVE  Line = LastNumbers(p, Outstanding)
<1> DEFINE a == [i \in 1..Len(done) |-> done[i].id]
           b == InHand
<1>1. a \in Seq(Int) /\ Len(a) = Len(done) /\ Len(done) \in Nat
    <2>1. done \in Seq(Job) /\ Len(done) \in Nat
        BY DEF TypeOK
    <2>2. \A i \in 1..Len(done) : done[i] \in Job
        BY <2>1, ElementOfSeq
    <2>3. \A i \in 1..Len(done) : done[i].id \in Int
        BY <2>2 DEF Job, Ids
    <2> QED
        BY <2>1, <2>3
<1>2. b \in Seq(Int) /\ Len(b) \in {0, 1} /\ (worker.pc = "perform" => Len(b) = 1)
      /\ (worker.pc # "perform" => Len(b) = 0)
    BY DEF TypeOK, InHand, Ids
<1>3. waiting \in Seq(Int) /\ Len(waiting) \in Nat
    <2>1. waiting \in Seq(Ids) /\ Len(waiting) \in Nat
        BY DEF TypeOK
    <2>2. Ids \subseteq Int
        BY DEF Ids
    <2>3. waiting \in Seq(Int)
        BY <2>1, <2>2, SeqMonotonic
    <2> QED
        BY <2>1, <2>3
<1>4. Line = (a \o b) \o waiting /\ Outstanding = Len(a) + Len(b) + Len(waiting)
    BY <1>1 DEF Line, Outstanding
<1>5. /\ \A i \in 1..Len(a) : a[i] = p - Outstanding + i
      /\ \A i \in 1..Len(b) : b[i] = p - Len(b) - Len(waiting) + i
      /\ \A i \in 1..Len(waiting) : waiting[i] = p - Len(waiting) + i
    BY <1>1, <1>2 DEF Numbered, InHand
<1> HIDE DEF a, b
<1> DEFINE n == Outstanding
<1>6. n = Len(a) + Len(b) + Len(waiting)
    BY <1>4
<1>7. \A i \in 1..Len(a) : a[i] = p - n + i
    BY <1>5
<1> HIDE DEF n
<1>8. (a \o b) \o waiting = LastNumbers(p, n)
    <2>1. CountsTo(a, p - Len(b) - Len(waiting))
        BY <1>1, <1>2, <1>3, <1>6, <1>7 DEF CountsTo
    <2>3. CountsTo(b, p - Len(waiting))
        BY <1>2, <1>3, <1>5 DEF CountsTo
    <2>4. CountsTo(waiting, p)
        BY <1>3, <1>5 DEF CountsTo
    <2>2. /\ n \in Nat /\ n = Len(a) + Len(b) + Len(waiting)
          /\ a \in Seq(Int) /\ b \in Seq(Int) /\ waiting \in Seq(Int)
        BY <1>1, <1>2, <1>3, <1>6
    <2> QED
        BY <2>1, <2>2, <2>3, <2>4, LastNumbersInParts
<1> QED
    BY <1>4, <1>8 DEF n

LEMMA LineIsLastHere ==
    \A p \in Nat : TypeOK /\ Numbered(p) => Line = LastNumbers(p, Outstanding)
    BY LineIsLast

LEMMA LineIsLastNext ==
    (\A p \in Nat : TypeOK /\ Numbered(p) => Line = LastNumbers(p, Outstanding))'
    BY LineIsLastHere, PTL

\* What a step does to the line: nothing,
LineStays(p) ==
    /\ Numbered(p)' /\ Outstanding' = Outstanding /\ Len(done') = Len(done)
    /\ js'.pc = "gone" <=> js.pc = "gone"

\* add a request, perform the next, hand over the first, or drop all.
LinePushes(p) ==
    /\ js.pc = "push" /\ js'.pc # "gone" /\ js.id = p + 1 /\ js.id \in Ids
    /\ Numbered(p + 1)' /\ Outstanding' = Outstanding + 1 /\ Len(done') = Len(done)
LinePerforms(p) ==
    /\ Numbered(p)' /\ Outstanding' = Outstanding /\ Len(done') = Len(done) + 1
    /\ Len(done) < Outstanding
    /\ js' = js
LineDelivers(p) ==
    /\ Numbered(p)' /\ Outstanding' = Outstanding - 1 /\ Len(done') = Len(done) - 1
    /\ Len(done) > 0
    /\ js' = js
LineDrops(p) ==
    Numbered(p)' /\ Outstanding' = 0 /\ Len(done') = 0 /\ js'.pc = "gone"

LEMMA LineNext ==
    ASSUME IInv, NEW p \in Nat, Numbered(p), [Next]_vars
    PROVE  LineStays(p) \/ LinePushes(p) \/ LinePerforms(p) \/ LineDelivers(p) \/ LineDrops(p)
<1> USE DEF IInv
<1>0. /\ Len(done) \in Nat /\ Len(waiting) \in Nat /\ Outstanding \in Nat
      /\ done \in Seq(Job) /\ waiting \in Seq(Ids)
      /\ Len(InHand) = IF worker.pc = "perform" THEN 1 ELSE 0
    BY OutstandingIsNat DEF TypeOK
<1>00. MaxRequests \in Nat
    BY RequestsAssumption
\* Steps that change neither queue nor hand, nor make a request.
<1> DEFINE Apart == /\ UNCHANGED <<done, waiting>>
                    /\ InHand' = InHand
                    /\ worker'.pc = "perform" => worker.pc = "perform" /\ worker' = worker
                    /\ js.pc # "push" /\ js'.pc # "push" /\ (js'.pc = "gone" <=> js.pc = "gone")
                    /\ \A id \in Ids : outcome'[id] # "none" <=> outcome[id] # "none"
<1>a. ASSUME Apart PROVE LineStays(p)
    BY <1>a DEF LineStays, Numbered, Outstanding
<1>1. ASSUME NEW id \in Ids, Request(id) PROVE LineStays(p)
    <2>1. /\ js.pc = "idle" /\ js' = [pc |-> "push", id |-> id]
          /\ outcome[id] = "none" /\ \A other \in 1..(id - 1) : outcome[other] # "none"
          /\ outcome' = [outcome EXCEPT ![id] = "open"]
          /\ UNCHANGED <<worker, waiting, done>>
        BY <1>1 DEF Request
    <2>2. id = p + 1
        <3>1. ~(id <= p)
            BY <2>1 DEF Numbered
        <3>2. ASSUME p + 1 < id PROVE FALSE
            <4>1. p + 1 \in 1..(id - 1) /\ p + 1 \in Ids
                BY <1>00, <3>2 DEF Ids
            <4>2. outcome[p + 1] # "none"
                BY <2>1, <4>1
            <4> QED
                BY <2>1, <4>1, <4>2 DEF Numbered
        <3> QED
            BY <3>1, <3>2 DEF Ids
    <2>3. \A other \in Ids : outcome'[other] # "none" <=> other <= p \/ other = p + 1
        <3> TAKE other \in Ids
        <3>1. outcome[other] # "none" <=> other <= p
            BY <2>1 DEF Numbered
        <3>2. CASE other = id
            BY <2>1, <2>2, <3>2 DEF TypeOK
        <3>3. CASE other # id
            BY <2>1, <2>2, <3>1, <3>3 DEF TypeOK
        <3> QED
            BY <3>2, <3>3
    <2>4. InHand' = InHand
        BY <2>1 DEF InHand
    <2> QED
        BY <2>1, <2>2, <2>3, <2>4 DEF LineStays, Numbered, Outstanding
<1>2. CASE RequestPush
    <2>1. /\ js.pc = "push" /\ waiting' = Append(waiting, js.id) /\ js' = Script("signal")
          /\ UNCHANGED <<worker, done, outcome>>
        BY <1>2 DEF RequestPush
    <2>2. js.id = p + 1 /\ js.id \in Ids
        BY <2>1 DEF Numbered, HandsInv
    <2>3. /\ Len(waiting') = Len(waiting) + 1
          /\ \A i \in 1..Len(waiting) : waiting'[i] = waiting[i]
          /\ waiting'[Len(waiting) + 1] = p + 1
        BY <1>0, <2>1, <2>2, AppendProperties
    <2>4. InHand' = InHand /\ Outstanding' = Outstanding + 1
        <3>1. InHand' = InHand /\ Len(InHand) \in Nat
            BY <1>0, <2>1 DEF InHand
        <3> QED
            <4>1. Outstanding' = Len(done) + Len(InHand) + Len(waiting')
                BY <2>1, <3>1 DEF Outstanding
            <4>2. Outstanding = Len(done) + Len(InHand) + Len(waiting)
                BY DEF Outstanding
            <4>3. Len(waiting') = Len(waiting) + 1 /\ Len(waiting) \in Nat /\ Len(done) \in Nat
                BY <1>0, <2>3
            <4>4. Outstanding' = Outstanding + 1
                BY <3>1, <4>1, <4>2, <4>3
            <4> QED
                BY <3>1, <4>4
    <2>5. \A i \in 1..Len(waiting') : waiting'[i] = (p + 1) - Len(waiting') + i
        <3> TAKE i \in 1..Len(waiting')
        <3>1. CASE i = Len(waiting) + 1
            BY <1>0, <2>3, <3>1
        <3>2. CASE i # Len(waiting) + 1
            <4>1. i \in 1..Len(waiting)
                BY <1>0, <2>3, <3>2
            <4>2. waiting[i] = p - Len(waiting) + i
                BY <4>1 DEF Numbered
            <4> QED
                BY <1>0, <2>3, <4>1, <4>2
        <3> QED
            BY <3>1, <3>2
    <2>6. \A id \in Ids : outcome'[id] # "none" <=> id <= p + 1
        BY <2>1 DEF Numbered, Ids
    <2>7. \A i \in 1..Len(done) : done[i].id = (p + 1) - (Outstanding + 1) + i
        BY <1>0 DEF Numbered
    <2>8. worker.pc = "perform" => worker.id = (p + 1) - (Len(waiting) + 1)
        BY <1>0 DEF Numbered
    <2>9. js'.pc = "signal"
        BY <2>1 DEF Script
    <2>10. Numbered(p + 1)'
        BY <1>0, <2>1, <2>2, <2>3, <2>4, <2>5, <2>6, <2>7, <2>8, <2>9 DEF Numbered, Ids
    <2> QED
        BY <2>1, <2>2, <2>4, <2>9, <2>10 DEF LinePushes
<1>3. CASE RequestSignal
    <2>1. Apart
        BY <1>3 DEF RequestSignal, Script, InHand
    <2> QED
        BY <1>a, <2>1
<1>4. CASE WorkerTest \/ WorkerLook \/ WorkerAcquire
    <2>1. /\ UNCHANGED <<js, waiting, done, outcome>>
          /\ worker.pc # "perform" /\ worker'.pc # "perform"
        BY <1>4 DEF WorkerTest, WorkerLook, WorkerAcquire, Worker, http
    <2>2. InHand' = InHand
        BY <2>1 DEF InHand
    <2> QED
        BY <2>1, <2>2 DEF LineStays, Numbered, Outstanding
<1>5. CASE WorkerTake
    <2>1. UNCHANGED <<js, done, outcome>> /\ worker.pc = "take"
        BY <1>5 DEF WorkerTake
    <2>2. CASE waiting = <<>>
        <3>1. UNCHANGED waiting /\ worker'.pc = "test"
            BY <1>5, <2>2 DEF WorkerTake, Worker
        <3>2. InHand' = InHand
            BY <2>1, <3>1 DEF InHand
        <3> QED
            BY <2>1, <3>1, <3>2 DEF LineStays, Numbered, Outstanding
    <2>3. CASE waiting # <<>>
        <3>1. worker' = [pc |-> "perform", id |-> Head(waiting)] /\ waiting' = Tail(waiting)
            BY <1>5, <2>3 DEF WorkerTake
        <3>2. /\ Len(waiting) > 0 /\ Head(waiting) = waiting[1]
              /\ Len(waiting') = Len(waiting) - 1
              /\ \A i \in 1..Len(waiting') : waiting'[i] = waiting[i + 1]
            BY <1>0, <2>3, <3>1, HeadTailProperties, EmptySeq
        <3>3. InHand' = <<Head(waiting)>> /\ InHand = <<>>
            BY <2>1, <3>1 DEF InHand
        <3>4. Outstanding' = Outstanding
            BY <1>0, <2>1, <3>2, <3>3 DEF Outstanding
        <3>5. worker'.id = p - Len(waiting')
            BY <1>0, <3>1, <3>2 DEF Numbered
        <3>6. \A i \in 1..Len(waiting') : waiting'[i] = p - Len(waiting') + i
            <4> TAKE i \in 1..Len(waiting')
            <4>1. i + 1 \in 1..Len(waiting) /\ waiting'[i] = waiting[i + 1]
                BY <1>0, <3>2
            <4>2. waiting[i + 1] = p - Len(waiting) + (i + 1)
                BY <4>1 DEF Numbered
            <4> QED
                BY <1>0, <3>2, <4>1, <4>2
        <3> QED
            BY <2>1, <3>4, <3>5, <3>6 DEF LineStays, Numbered
    <2> QED
        BY <2>2, <2>3
<1>6. ASSUME NEW succeed \in BOOLEAN, WorkerPerform(succeed) PROVE LinePerforms(p)
    <2> DEFINE job == [id |-> worker.id, succeed |-> succeed]
    <2>1. /\ worker.pc = "perform" /\ done' = Append(done, job) /\ worker' = Worker("test")
          /\ UNCHANGED <<js, waiting, outcome>>
        BY <1>6 DEF WorkerPerform
    <2>2. job \in Job /\ job.id = worker.id
        BY <2>1 DEF HandsInv, Job
    <2> HIDE DEF job
    <2>3. /\ Len(done') = Len(done) + 1
          /\ \A i \in 1..Len(done) : done'[i] = done[i]
          /\ done'[Len(done) + 1] = job
        BY <1>0, <2>1, <2>2, AppendProperties
    <2>4. Len(InHand) = 1 /\ Len(InHand') = 0
        BY <1>0, <2>1 DEF InHand, Worker
    <2>5. Outstanding' = Outstanding /\ Outstanding = Len(done) + 1 + Len(waiting)
        BY <1>0, <2>1, <2>3, <2>4 DEF Outstanding
    <2>6. \A i \in 1..Len(done') : done'[i].id = p - Outstanding + i
        <3> TAKE i \in 1..Len(done')
        <3>1. CASE i = Len(done) + 1
            <4>1. done'[i] = job
                BY <2>3, <3>1
            <4>2. worker.id = p - Len(waiting)
                BY <2>1 DEF Numbered
            <4> QED
                BY <1>0, <2>2, <2>5, <3>1, <4>1, <4>2
        <3>2. CASE i # Len(done) + 1
            <4>1. i \in 1..Len(done)
                BY <1>0, <2>3, <3>2
            <4> QED
                BY <2>3, <4>1 DEF Numbered
        <3> QED
            BY <3>1, <3>2
    <2>7. worker'.pc # "perform"
        BY <2>1 DEF Worker
    <2> QED
        BY <1>0, <2>1, <2>3, <2>5, <2>6, <2>7 DEF LinePerforms, Numbered
<1>7. CASE DrainBegin \/ DrainEnd
    <2>1. Apart
        BY <1>7 DEF DrainBegin, DrainEnd, Script, InHand, http
    <2> QED
        BY <1>a, <2>1
<1>8. CASE DrainHandsOver \/ DrainSettles \/ DrainIsRefused
    <2>1. /\ done # <<>> /\ done' = Tail(done) /\ js.pc = "drain"
          /\ UNCHANGED <<js, worker, waiting>>
        BY <1>8 DEF DrainHandsOver, DrainSettles, DrainIsRefused
    <2>2. \A id \in Ids : outcome'[id] # "none" <=> outcome[id] # "none"
        BY <1>8 DEF DrainHandsOver, DrainSettles, DrainIsRefused, Settle, TypeOK
    <2>3. /\ Len(done) > 0 /\ Len(done') = Len(done) - 1
          /\ \A i \in 1..Len(done') : done'[i] = done[i + 1]
        BY <1>0, <2>1, HeadTailProperties, EmptySeq
    <2>4. InHand' = InHand
        BY <2>1 DEF InHand
    <2>5. Outstanding' = Outstanding - 1
        <3>1. Len(InHand) \in Nat
            BY <1>0
        <3> QED
            <4>1. Outstanding' = Len(done') + Len(InHand) + Len(waiting)
                BY <2>1, <2>4 DEF Outstanding
            <4>2. Outstanding = Len(done) + Len(InHand) + Len(waiting)
                BY DEF Outstanding
            <4> QED
                BY <1>0, <2>3, <3>1, <4>1, <4>2
    <2>6. \A i \in 1..Len(done') : done'[i].id = p - Outstanding' + i
        <3> TAKE i \in 1..Len(done')
        <3>1. i + 1 \in 1..Len(done) /\ done'[i] = done[i + 1]
            BY <1>0, <2>3
        <3>2. done[i + 1].id = p - Outstanding + (i + 1)
            BY <3>1 DEF Numbered
        <3> QED
            BY <1>0, <2>5, <3>1, <3>2
    <2> QED
        BY <1>0, <2>1, <2>2, <2>3, <2>5, <2>6 DEF LineDelivers, Numbered
<1>9. ASSUME NEW job \in tasks, RunTask(job) PROVE LineStays(p)
    <2>1. Apart
        BY <1>9 DEF RunTask, Settle, InHand, TypeOK
    <2> QED
        BY <1>a, <2>1
<1>10. CASE Revoke \/ CleanupAgain \/ UNCHANGED vars
    <2>1. UNCHANGED <<js, worker, waiting, done, outcome>>
        BY <1>10 DEF Revoke, CleanupAgain, vars, http
    <2>2. InHand' = InHand
        BY <2>1 DEF InHand
    <2> QED
        BY <2>1, <2>2 DEF LineStays, Numbered, Outstanding
<1>11. CASE Cleanup
    <2>1. js.pc = "idle" /\ js'.pc = "stop" /\ UNCHANGED <<worker, waiting, done>>
        BY <1>11 DEF Cleanup, Script
    <2>2. \A id \in Ids : outcome'[id] # "none" <=> outcome[id] # "none"
        BY <1>11 DEF Cleanup, TypeOK
    <2>3. Apart
        BY <2>1, <2>2 DEF InHand
    <2> QED
        BY <1>a, <2>3
<1>12. CASE Stop \/ Wake
    <2>1. Apart
        BY <1>12 DEF Stop, Wake, Script, InHand
    <2> QED
        BY <1>a, <2>1
<1>13. CASE Join
    <2>1. /\ js.pc = "join" /\ js'.pc = "gone" /\ worker.pc = "ended"
          /\ waiting' = <<>> /\ done' = <<>> /\ UNCHANGED <<worker, outcome>>
        BY <1>13 DEF Join, Script
    <2>2. InHand' = <<>>
        BY <2>1 DEF InHand
    <2>3. Outstanding' = 0 /\ Len(done') = 0 /\ Len(waiting') = 0
        BY <2>1, <2>2 DEF Outstanding
    <2>4. Numbered(p)'
        BY <1>0, <2>1, <2>3 DEF Numbered
    <2> QED
        BY <2>1, <2>3, <2>4 DEF LineDrops
<1> HIDE DEF Apart, IInv
<1> QED
    BY <1>1, <1>2, <1>3, <1>4, <1>5, <1>6, <1>7, <1>8, <1>9, <1>10, <1>11, <1>12, <1>13
    DEF Next, RequestSteps, WorkerSteps, DrainSteps, RunTasks, ShutdownSteps

LEMMA LineInvInit == Init => LineInv
<1> SUFFICES ASSUME Init PROVE LineInv
    OBVIOUS
<1>1. InHand = <<>> /\ done = <<>> /\ waiting = <<>> /\ js.pc = "idle" /\ worker.pc = "test"
      /\ \A id \in Ids : outcome[id] = "none" /\ id > 0
    BY DEF Init, InHand, Script, Worker, Ids
<1>2. Outstanding = 0
    BY <1>1 DEF Outstanding
<1>3. Numbered(0)
    BY <1>1, <1>2, RequestsAssumption DEF Numbered, Ids
<1> QED
    BY <1>3 DEF LineInv

LEMMA LineInvariance == Spec => []LineInv
<1>1. IInv /\ LineInv /\ [Next]_vars => LineInv'
    <2> SUFFICES ASSUME IInv, LineInv, [Next]_vars PROVE LineInv'
        OBVIOUS
    <2>1. PICK p \in Nat : Numbered(p)
        BY DEF LineInv
    <2>2. Numbered(p)' \/ Numbered(p + 1)'
        BY <2>1, LineNext DEF LineStays, LinePushes, LinePerforms, LineDelivers, LineDrops
    <2> QED
        BY <2>2 DEF LineInv
<1> QED
    BY <1>1, LineInvInit, Invariance, PTL DEF Spec

\* The http plugin is a queue: each of its steps is one of WorkQueue's or leaves the queue
\* as it is (request, worker, drain, ~Http).
THEOREM QueueImplemented == Spec => ImplementsQueue
<1>1. Init => Queue!QueueInit
    <2> SUFFICES ASSUME Init PROVE Queue!QueueInit
        OBVIOUS
    <2>1. InHand = <<>> /\ done = <<>> /\ waiting = <<>> /\ js.pc = "idle"
        BY DEF Init, InHand, Script, Worker
    <2>2. [i \in 1..Len(done) |-> done[i].id] = <<>>
        BY <2>1
    <2>3. Line = <<>>
        BY <2>1, <2>2 DEF Line
    <2> QED
        BY <2>1, <2>3 DEF Queue!QueueInit
<1>2. IInv /\ IInv' /\ LineInv /\ [Next]_vars => [Queue!QueueNext]_(Queue!queueVars)
    <2> SUFFICES ASSUME IInv, IInv', LineInv, [Next]_vars
                 PROVE  [Queue!QueueNext]_(Queue!queueVars)
        OBVIOUS
    <2>1. PICK p \in Nat : Numbered(p)
        BY DEF LineInv
    <2>2. TypeOK /\ TypeOK'
        BY DEF IInv
    <2>3. Line = LastNumbers(p, Outstanding) /\ Outstanding \in Nat /\ Len(done) \in Nat
        BY <2>1, <2>2, LineIsLast, OutstandingIsNat
    <2>4. \A q \in Nat : Numbered(q)' => Line' = LastNumbers(q, Outstanding')
        BY <2>2, LineIsLastNext DEF LastNumbers
    <2>5. /\ Len(Line) = Outstanding
          /\ \A i \in 1..Outstanding : Line[i] = p - Outstanding + i
        BY <2>3 DEF LastNumbers
    <2>6. CASE LineStays(p)
        <3>1. Line' = Line /\ Len(done') = Len(done) /\ (js'.pc # "gone") = (js.pc # "gone")
            BY <2>1, <2>3, <2>4, <2>6 DEF LineStays
        <3> QED
            BY <3>1 DEF Queue!queueVars
    <2>7. CASE LinePushes(p)
        <3>1. Line' = Append(Line, p + 1)
            <4>1. p + 1 \in Nat /\ Numbered(p + 1)' /\ Outstanding' = Outstanding + 1
                BY <2>7 DEF LinePushes
            <4>2. Line' = LastNumbers(p + 1, Outstanding + 1)
                BY <2>4, <4>1
            <4> QED
                BY <2>3, <4>2, LastNumbersAppend
        <3>2. p + 1 \in Ids /\ Outstanding <= p
            BY <2>1, <2>7 DEF LinePushes, Numbered
        <3>3. Len(Line) < MaxRequests /\ \A i \in 1..Len(Line) : Line[i] < p + 1
            BY <2>3, <2>5, <3>2, RequestsAssumption DEF Ids
        <3>4. Len(done') = Len(done) /\ js.pc # "gone" /\ js'.pc # "gone"
            BY <2>7 DEF LinePushes
        <3>5. Queue!Submit(p + 1)
            BY <3>1, <3>3, <3>4 DEF Queue!Submit
        <3> QED
            BY <3>2, <3>5 DEF Queue!QueueNext
    <2>8. CASE LinePerforms(p)
        <3>1. Line' = Line
            BY <2>3, <2>4, <2>8 DEF LinePerforms
        <3>2. Queue!Serve
            BY <2>5, <2>8, <3>1 DEF LinePerforms, Queue!Serve
        <3> QED
            BY <3>2 DEF Queue!QueueNext
    <2>9. CASE LineDelivers(p)
        <3>1. Outstanding > 0
            BY <2>2, <2>9, OutstandingIsNat DEF LineDelivers, Outstanding
        <3>2. Line' = SubSeq(Line, 2, Len(Line))
            <4>1. LastNumbers(p, Outstanding - 1) = SubSeq(LastNumbers(p, Outstanding), 2, Outstanding)
                <5> DEFINE n == Outstanding
                <5>1. n \in Nat /\ 1 \in 0..n
                    BY <2>3, <3>1
                <5> HIDE DEF n
                <5>2. LastNumbers(p, n - 1) = SubSeq(LastNumbers(p, n), 1 + 1, n)
                    BY <5>1, LastNumbersRest
                <5>3. 1 + 1 = 2
                    OBVIOUS
                <5> QED
                    BY <5>2, <5>3 DEF n
            <4> QED
                BY <2>3, <2>4, <2>5, <2>9, <4>1 DEF LineDelivers
        <3>3. Queue!Deliver(1)
            BY <2>3, <2>9, <3>2 DEF LineDelivers, Queue!Deliver
        <3> QED
            BY <2>3, <2>9, <3>3 DEF Queue!QueueNext, LineDelivers
    <2>10. CASE LineDrops(p)
        <3>1. Line' = <<>>
            BY <2>4, <2>10 DEF LineDrops, LastNumbers
        <3>2. Queue!Close
            BY <2>10, <3>1 DEF LineDrops, Queue!Close
        <3> QED
            BY <3>2 DEF Queue!QueueNext
    <2> QED
        BY <2>1, <2>6, <2>7, <2>8, <2>9, <2>10, LineNext
<1> QED
    BY <1>1, <1>2, Invariance, LineInvariance, PTL DEF Spec, ImplementsQueue, Queue!QueueSpec
-----------------------------------------------------------------------------
(* The promises.  Those of the first f requests have left the queue.       *)

\* A promise that has left the queue is settled unless its task is still with the host, in
\* which case nothing else settles it; the others are open.
Accounted(f) ==
    /\ \A id \in Ids : id > f /\ outcome[id] # "none" => outcome[id] = "open"
    /\ \A task \in tasks : task.id <= f /\ outcome[task.id] = "open"
    /\ \A task, other \in tasks : task.id = other.id => task = other
    /\ ~stopping => \A id \in Ids : outcome[id] = "open" /\ id <= f
                        => \E task \in tasks : task.id = id

AccountInv ==
    /\ \E p \in Nat : Numbered(p) /\ (context => Accounted(p - Outstanding))
    /\ ~context => pending = {}
    /\ js.pc \in {"stop", "wake", "join", "gone"} => ~context

\* A drain takes the first of those done; other steps leave what has left the queue alone.
LEMMA FrontNext ==
    ASSUME IInv, NEW p \in Nat, Numbered(p), [Next]_vars, context, js'.pc # "gone",
           js.pc \notin {"stop", "wake", "join", "gone"}
    PROVE  \E q \in Nat : /\ Numbered(q)'
                          /\ Len(done') >= Len(done) => q - Outstanding' = p - Outstanding
                          /\ Len(done') < Len(done)
                             => q - Outstanding' = p - Outstanding + 1 /\ Outstanding > 0
                                /\ Len(done) > 0
<1>1. Outstanding \in Nat /\ Len(done) \in Nat /\ Len(done) <= Outstanding
    BY OutstandingIsNat DEF IInv, Outstanding
<1>2. p + 1 \in Nat
    OBVIOUS
<1>3. CASE LineStays(p)
    BY <1>1, <1>3 DEF LineStays
<1>4. CASE LinePushes(p)
    BY <1>1, <1>2, <1>4 DEF LinePushes
<1>5. CASE LinePerforms(p)
    BY <1>1, <1>5 DEF LinePerforms
<1>6. CASE LineDelivers(p)
    BY <1>1, <1>6 DEF LineDelivers
<1>7. CASE LineDrops(p)
    BY <1>7 DEF LineDrops
<1> QED
    BY <1>3, <1>4, <1>5, <1>6, <1>7, LineNext

\* While the context is there, and stays.
LEMMA AccountedStep ==
    ASSUME IInv, IInv', [Next]_vars, context, context',
           js.pc \notin {"stop", "wake", "join", "gone"}, js'.pc # "gone",
           NEW p \in Nat, Numbered(p), Accounted(p - Outstanding)
    PROVE  \E q \in Nat : Numbered(q)' /\ Accounted(q - Outstanding)'
<1> DEFINE f == p - Outstanding
<1>1. PICK q \in Nat : /\ Numbered(q)'
                       /\ Len(done') >= Len(done) => q - Outstanding' = p - Outstanding
                       /\ Len(done') < Len(done)
                          => q - Outstanding' = p - Outstanding + 1 /\ Outstanding > 0
                             /\ Len(done) > 0
    BY FrontNext
<1>2. /\ TypeOK /\ Outstanding \in Nat /\ Len(done) \in Nat /\ Outstanding <= p
      /\ \A task \in tasks : task.id \in Ids
      /\ done \in Seq(Job)
    BY OutstandingIsNat DEF IInv, TypeOK, Numbered, Job
<1>3. f \in Nat /\ Accounted(f)
    BY <1>2
<1>4. \A id \in Ids : outcome[id] # "none" <=> id <= p \/ (js.pc = "push" /\ id = p + 1)
    BY DEF Numbered
<1> DEFINE g == q - Outstanding'
           Goal(x) ==
               /\ \A id \in Ids : id > x /\ outcome'[id] # "none" => outcome'[id] = "open"
               /\ \A task \in tasks' : task.id <= x /\ outcome'[task.id] = "open"
               /\ \A task, other \in tasks' : task.id = other.id => task = other
               /\ ~stopping' => \A id \in Ids : outcome'[id] = "open" /\ id <= x
                                    => \E task \in tasks' : task.id = id
<1> SUFFICES Goal(g)
    <2>1. Goal(q - Outstanding') => Accounted(q - Outstanding)'
        BY DEF Accounted
    <2> QED
        BY <1>1, <2>1
\* What has left the queue stays the same but for a task.
<1>5. ASSUME Len(done') >= Len(done), UNCHANGED <<outcome, stopping>>, tasks' = tasks
      PROVE  Goal(g)
    <2>1. g = f
        BY <1>1, <1>5
    <2> QED
        BY <1>3, <1>5, <2>1 DEF Accounted
<1>6. ASSUME NEW id \in Ids, Request(id) PROVE Goal(g)
    <2>1. /\ outcome[id] = "none" /\ outcome' = [outcome EXCEPT ![id] = "open"]
          /\ UNCHANGED <<done, tasks, stopping>>
        BY <1>6 DEF Request, host
    <2>2. g = f
        BY <1>1, <1>2, <2>1
    <2>3. id > f
        <3>1. ~(id <= p) /\ id \in Nat
            BY <1>4, <2>1 DEF Ids
        <3> QED
            BY <1>2, <3>1
    <2>4. /\ outcome'[id] = "open"
          /\ \A other \in Ids : other # id => outcome'[other] = outcome[other]
        BY <1>2, <2>1 DEF TypeOK
    <2>5. \A task \in tasks : task.id # id
        BY <1>3, <2>1 DEF Accounted
    <2>6. \A other \in Ids : other > f /\ outcome'[other] # "none" => outcome'[other] = "open"
        BY <1>3, <2>4 DEF Accounted
    <2>7. \A task \in tasks : task.id <= f /\ outcome'[task.id] = "open"
        BY <1>2, <1>3, <2>4, <2>5 DEF Accounted
    <2>8. ~stopping => \A other \in Ids : outcome'[other] = "open" /\ other <= f
                            => \E task \in tasks : task.id = other
        BY <1>3, <2>3, <2>4 DEF Accounted, Ids
    <2>9. \A task, other \in tasks : task.id = other.id => task = other
        BY <1>3 DEF Accounted
    <2> QED
        BY <2>1, <2>2, <2>6, <2>7, <2>8, <2>9 DEF Accounted
<1>7. CASE RequestSteps
    <2>1. Len(done') >= Len(done) /\ UNCHANGED <<outcome, stopping>> /\ tasks' = tasks
        BY <1>2, <1>7 DEF RequestSteps, RequestPush, RequestSignal, host
    <2> QED
        BY <1>5, <2>1
<1>8. CASE WorkerSteps
    <2>1. UNCHANGED <<outcome, stopping>> /\ tasks' = tasks
        BY <1>8 DEF WorkerSteps, WorkerTest, WorkerLook, WorkerAcquire, WorkerTake,
                    WorkerPerform, host
    <2>2. Len(done') >= Len(done)
        <3>1. CASE done' = done
            BY <1>2, <3>1
        <3>2. ASSUME NEW succeed \in BOOLEAN, WorkerPerform(succeed)
              PROVE  Len(done') >= Len(done)
            <4>1. [id |-> worker.id, succeed |-> succeed] \in Job
                BY <3>2 DEF WorkerPerform, Job, IInv, HandsInv
            <4>2. Len(done') = Len(done) + 1
                BY <1>2, <3>2, <4>1, AppendProperties DEF WorkerPerform
            <4> QED
                BY <1>2, <4>2
        <3> QED
            BY <1>8, <3>1, <3>2 DEF WorkerSteps, WorkerTest, WorkerLook, WorkerAcquire,
                                    WorkerTake, http
    <2> QED
        BY <1>5, <2>1, <2>2
<1>9. CASE DrainBegin \/ DrainEnd \/ UNCHANGED vars
    <2>1. Len(done') >= Len(done) /\ UNCHANGED <<outcome, stopping>> /\ tasks' = tasks
        BY <1>2, <1>9 DEF DrainBegin, DrainEnd, vars, http, host
    <2> QED
        BY <1>5, <2>1
<1>10. CASE DrainHandsOver \/ DrainSettles \/ DrainIsRefused
    <2> DEFINE job == Head(done)
    <2>1. done # <<>> /\ done' = Tail(done)
        BY <1>10 DEF DrainHandsOver, DrainSettles, DrainIsRefused
    <2>2. job \in Job /\ job = done[1] /\ Len(done') = Len(done) - 1 /\ Len(done) > 0
        BY <1>2, <2>1, HeadTailProperties, EmptySeq
    <2>3. g = f + 1
        BY <1>1, <1>2, <2>2
    <2>4. job.id = f + 1 /\ job.id \in Ids
        <3>1. \A i \in 1..Len(done) : done[i].id = p - Outstanding + i
            BY DEF Numbered
        <3>2. 1 \in 1..Len(done)
            BY <1>2, <2>2
        <3> QED
            BY <2>2, <3>1, <3>2 DEF Job
    <2> HIDE DEF job, f, g
    <2>5. outcome[job.id] = "open"
        <3>1. f + 1 <= p
            BY <1>1, <1>2, <2>2 DEF f
        <3>2. outcome[job.id] # "none"
            BY <1>4, <2>4, <3>1
        <3> QED
            BY <1>3, <2>4, <3>2 DEF Accounted
    <2>6. \A id \in Ids : id # job.id => (id > f <=> id > f + 1) /\ (id <= f <=> id <= f + 1)
        BY <1>3, <2>4 DEF Ids
    <2>7. \A task \in tasks : task.id <= f + 1 /\ task.id # job.id /\ task.id \in Ids
        BY <1>2, <1>3, <2>4 DEF Accounted, Ids
    <2>8. CASE DrainHandsOver
        <3>1. tasks' = tasks \cup {job} /\ UNCHANGED <<outcome, stopping>>
            BY <2>8 DEF DrainHandsOver, job
        <3>2. \A id \in Ids : id > f + 1 /\ outcome[id] # "none" => outcome[id] = "open"
            BY <1>3, <2>4, <2>6 DEF Accounted, Ids
        <3>3. \A task \in tasks \cup {job} : task.id <= f + 1 /\ outcome[task.id] = "open"
            BY <1>3, <2>4, <2>5, <2>7 DEF Accounted
        <3>4. \A task, other \in tasks \cup {job} : task.id = other.id => task = other
            BY <1>3, <2>7 DEF Accounted
        <3>5. ~stopping => \A id \in Ids : outcome[id] = "open" /\ id <= f + 1
                               => \E task \in tasks \cup {job} : task.id = id
            BY <1>3, <2>6 DEF Accounted
        <3> QED
            BY <2>3, <3>1, <3>2, <3>3, <3>4, <3>5 DEF Accounted
    <2>9. CASE DrainSettles
        <3>1. /\ UNCHANGED <<tasks, stopping>>
              /\ outcome' = [outcome EXCEPT ![job.id] = IF job.succeed THEN "resolved"
                                                                       ELSE "rejected"]
            BY <2>5, <2>9 DEF DrainSettles, Settle, host, job
        <3>2. /\ outcome'[job.id] # "open"
              /\ \A id \in Ids : id # job.id => outcome'[id] = outcome[id]
            BY <1>2, <2>4, <3>1 DEF TypeOK
        <3>3. \A id \in Ids : id > f + 1 /\ outcome'[id] # "none" => outcome'[id] = "open"
            <4>1. \A id \in Ids : id > f + 1 => id # job.id /\ id > f
                BY <1>3, <2>4 DEF Ids
            <4> QED
                BY <1>3, <3>2, <4>1 DEF Accounted
        <3>4. \A task \in tasks : task.id <= f + 1 /\ outcome'[task.id] = "open"
            BY <1>3, <2>7, <3>2 DEF Accounted
        <3>5. \A task, other \in tasks : task.id = other.id => task = other
            BY <1>3 DEF Accounted
        <3>6. ~stopping => \A id \in Ids : outcome'[id] = "open" /\ id <= f + 1
                               => \E task \in tasks : task.id = id
            BY <1>3, <2>6, <3>2 DEF Accounted
        <3> QED
            BY <2>3, <3>1, <3>3, <3>4, <3>5, <3>6 DEF Accounted
    <2>10. CASE DrainIsRefused
        <3>1. UNCHANGED <<outcome, tasks, stopping>> /\ stopping
            BY <2>10 DEF DrainIsRefused, host
        <3>2. \A id \in Ids : id > f + 1 /\ outcome[id] # "none" => outcome[id] = "open"
            BY <1>3, <2>4, <2>6 DEF Accounted, Ids
        <3>3. \A task \in tasks : task.id <= f + 1 /\ outcome[task.id] = "open"
            BY <1>3, <2>7 DEF Accounted
        <3>4. \A task, other \in tasks : task.id = other.id => task = other
            BY <1>3 DEF Accounted
        <3> QED
            BY <2>3, <3>1, <3>2, <3>3, <3>4 DEF Accounted
    <2> QED
        BY <1>10, <2>8, <2>9, <2>10
<1>11. ASSUME NEW job \in tasks, RunTask(job) PROVE Goal(g)
    <2>1. /\ tasks' = tasks \ {job} /\ UNCHANGED <<done, stopping>> /\ ~stopping
          /\ Settle(job)
        BY <1>11 DEF RunTask
    <2>2. g = f
        BY <1>1, <1>2, <2>1
    <2>3. job.id \in Ids /\ job.id <= f /\ outcome[job.id] = "open"
        BY <1>2, <1>3, <1>11 DEF Accounted
    <2>4. outcome' = [outcome EXCEPT ![job.id] = IF job.succeed THEN "resolved" ELSE "rejected"]
        BY <2>1, <2>3 DEF Settle
    <2>5. /\ outcome'[job.id] # "open"
          /\ \A id \in Ids : id # job.id => outcome'[id] = outcome[id]
        BY <1>2, <2>3, <2>4 DEF TypeOK
    <2>6. \A task \in tasks \ {job} : task.id # job.id /\ task.id \in Ids
        BY <1>2, <1>3, <1>11 DEF Accounted
    <2> HIDE DEF f, g
    <2>7. \A id \in Ids : id > f /\ outcome'[id] # "none" => outcome'[id] = "open"
        <3>1. \A id \in Ids : id > f => id # job.id
            BY <1>3, <2>3 DEF Ids
        <3> QED
            BY <1>3, <2>5, <3>1 DEF Accounted
    <2>8. \A task \in tasks \ {job} : task.id <= f /\ outcome'[task.id] = "open"
        BY <1>3, <2>5, <2>6 DEF Accounted
    <2>9. \A id \in Ids : outcome'[id] = "open" /\ id <= f
               => \E task \in tasks \ {job} : task.id = id
        BY <1>3, <2>1, <2>5 DEF Accounted
    <2>10. \A task, other \in tasks \ {job} : task.id = other.id => task = other
        BY <1>3 DEF Accounted
    <2> QED
        BY <2>1, <2>2, <2>7, <2>8, <2>9, <2>10 DEF Accounted
<1>12. CASE Revoke
    <2>1. UNCHANGED <<outcome, done>> /\ tasks' = {} /\ stopping'
        BY <1>12 DEF Revoke, http
    <2>2. g = f
        BY <1>1, <1>2, <2>1
    <2> QED
        BY <1>3, <2>1, <2>2 DEF Accounted
<1>13. CASE Cleanup
    BY <1>13 DEF Cleanup
<1>14. CASE ShutdownSteps \/ CleanupAgain
    BY <1>14 DEF ShutdownSteps, Stop, Wake, Join, CleanupAgain
<1> HIDE DEF f, g, Goal
<1> QED
    BY <1>6, <1>7, <1>8, <1>9, <1>10, <1>11, <1>12, <1>13, <1>14
    DEF Next, DrainSteps, RunTasks

\* Once the context is gone nothing is pending.
LEMMA ContextStep ==
    ASSUME IInv, IInv', AccountInv, [Next]_vars
    PROVE  /\ context' => context
           /\ ~context' => pending' = {}
           /\ js'.pc \in {"stop", "wake", "join", "gone"} => ~context'
<1> USE DEF AccountInv
<1>1. ASSUME NEW id \in Ids, Request(id)
      PROVE  context /\ context' /\ js'.pc = "push"
    BY <1>1 DEF Request
<1>2. CASE RequestSteps
    BY <1>2 DEF RequestSteps, RequestPush, RequestSignal, Script
<1>3. CASE WorkerSteps
    <2>1. UNCHANGED <<js, pending, context>>
        BY <1>3 DEF WorkerSteps, WorkerTest, WorkerLook, WorkerAcquire, WorkerTake,
                    WorkerPerform, http
    <2> QED
        BY <2>1
<1>4. CASE DrainBegin \/ DrainEnd \/ DrainHandsOver \/ DrainIsRefused
    BY <1>4 DEF DrainBegin, DrainEnd, DrainHandsOver, DrainIsRefused, Script, http
<1>5. CASE DrainSettles
    BY <1>5 DEF DrainSettles, Settle
<1>6. ASSUME NEW job \in tasks, RunTask(job)
      PROVE  /\ context' = context /\ js' = js /\ (~context => pending' = pending)
    BY <1>6 DEF RunTask, Settle
<1>7. CASE Revoke \/ CleanupAgain \/ UNCHANGED vars
    BY <1>7 DEF Revoke, CleanupAgain, vars, http
<1>8. CASE Cleanup
    BY <1>8 DEF Cleanup, Script
<1>9. CASE ShutdownSteps
    BY <1>9 DEF ShutdownSteps, Stop, Wake, Join, Script
<1> QED
    BY <1>1, <1>2, <1>3, <1>4, <1>5, <1>6, <1>7, <1>8, <1>9 DEF Next, DrainSteps, RunTasks

LEMMA AccountInvariance == Spec => []AccountInv
<1>1. Init => AccountInv
    <2> SUFFICES ASSUME Init PROVE AccountInv
        OBVIOUS
    <2>1. PICK p \in Nat : Numbered(p)
        BY LineInvInit DEF LineInv
    <2>2. /\ context /\ js.pc = "idle" /\ tasks = {} /\ \A id \in Ids : outcome[id] = "none"
        BY DEF Init, Script
    <2>3. Accounted(p - Outstanding)
        BY <2>2 DEF Accounted
    <2> QED
        BY <2>1, <2>2, <2>3 DEF AccountInv
<1>2. IInv /\ IInv' /\ AccountInv /\ [Next]_vars => AccountInv'
    <2> SUFFICES ASSUME IInv, IInv', AccountInv, [Next]_vars PROVE AccountInv'
        OBVIOUS
    <2>1. PICK p \in Nat : Numbered(p) /\ (context => Accounted(p - Outstanding))
        BY DEF AccountInv
    <2>2. /\ context' => context
          /\ ~context' => pending' = {}
          /\ js'.pc \in {"stop", "wake", "join", "gone"} => ~context'
          /\ js.pc \in {"stop", "wake", "join", "gone"} => ~context
        BY ContextStep DEF AccountInv
    <2>3. CASE context'
        <3>1. \E q \in Nat : Numbered(q)' /\ Accounted(q - Outstanding)'
            BY <2>1, <2>2, <2>3, AccountedStep
        <3> QED
            BY <2>2, <2>3, <3>1 DEF AccountInv
    <2>4. CASE ~context'
        <3>1. Numbered(p)' \/ Numbered(p + 1)'
            BY <2>1, LineNext DEF LineStays, LinePushes, LinePerforms, LineDelivers, LineDrops
        <3> QED
            BY <2>2, <2>4, <3>1 DEF AccountInv
    <2> QED
        BY <2>3, <2>4
<1> QED
    BY <1>1, <1>2, Invariance, PTL DEF Spec

\* Every open promise is about to be settled by somebody, nobody settles one that is settled
\* already, and scriptShutdown leaves none open (settle_request, cleanup_http_context).
THEOREM PromisesKept == Spec => []PromisesAccounted
<1>1. IInv /\ AccountInv => PromisesAccounted
    <2> SUFFICES ASSUME IInv, AccountInv PROVE PromisesAccounted
        OBVIOUS
    <2>1. PICK p \in Nat : Numbered(p) /\ (context => Accounted(p - Outstanding))
        BY DEF AccountInv
    <2>2. TypeOK
        BY DEF IInv
    <2>3. CASE ~context
        BY <2>2, <2>3 DEF AccountInv, TypeOK, PromisesAccounted
    <2>4. CASE context
        <3> DEFINE n == Outstanding
        <3>1. Line = LastNumbers(p, n) /\ n \in Nat /\ n <= p
            BY <2>1, <2>2, LineIsLast, OutstandingIsNat DEF Numbered
        <3>2. Accounted(p - n)
            BY <2>1, <2>4
        <3>3. \A id \in Ids : outcome[id] # "none" <=> id <= p \/ (js.pc = "push" /\ id = p + 1)
            BY <2>1 DEF Numbered
        <3>4. js.pc = "push" => js.id = p + 1
            BY <2>1 DEF Numbered
        <3> HIDE DEF n
        <3>5. Len(Line) = n /\ \A i \in 1..n : Line[i] = p - n + i
            BY <3>1, LastNumbersAre
        <3>6. ASSUME NEW id \in UnderWay PROVE outcome[id] = "open"
            <4>1. id \in Ids /\ id \in Nat
                BY DEF UnderWay, Ids
            <4>2. CASE js.pc = "push" /\ js.id = id
                <5>1. id = p + 1 /\ id > p - n
                    BY <3>1, <3>4, <4>2
                <5> QED
                    BY <3>2, <3>3, <4>1, <4>2, <5>1 DEF Accounted
            <4>3. CASE \E i \in 1..Len(Line) : Line[i] = id
                <5>1. id <= p /\ id > p - n
                    BY <3>1, <3>5, <4>3
                <5> QED
                    BY <3>2, <3>3, <4>1, <5>1 DEF Accounted
            <4>4. CASE \E task \in tasks : task.id = id
                BY <3>2, <4>4 DEF Accounted
            <4> QED
                BY <4>2, <4>3, <4>4 DEF UnderWay
        <3>7. ASSUME ~stopping, NEW id \in Ids, outcome[id] = "open" PROVE id \in UnderWay
            <4>1. id \in Nat /\ (id <= p \/ (js.pc = "push" /\ js.id = id))
                BY <3>3, <3>4, <3>7 DEF Ids
            <4>2. CASE js.pc = "push" /\ js.id = id
                BY <4>2 DEF UnderWay
            <4>3. CASE id <= p - n
                <5>1. \E task \in tasks : task.id = id
                    BY <3>2, <3>7, <4>3 DEF Accounted
                <5> QED
                    BY <5>1 DEF UnderWay
            <4>4. CASE id <= p /\ ~(id <= p - n)
                <5>1. id - (p - n) \in 1..n
                    BY <3>1, <4>1, <4>4
                <5>2. Line[id - (p - n)] = id
                    BY <3>1, <3>5, <4>1, <5>1
                <5> QED
                    BY <3>5, <5>1, <5>2 DEF UnderWay
            <4> QED
                BY <4>1, <4>2, <4>3, <4>4
        <3> QED
            BY <2>4, <3>6, <3>7 DEF PromisesAccounted
    <2> QED
        BY <2>3, <2>4
<1> QED
    BY <1>1, Invariance, AccountInvariance, PTL
=============================================================================
