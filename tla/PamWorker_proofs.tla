-------------------------- MODULE PamWorker_proofs --------------------------
(***************************************************************************)
(* Proofs about the pam plugin, for every bound on ids and every limit:    *)
(* type correctness, no request lost, doubled or slept on, what shutdown   *)
(* leaves behind, and that the plugin implements WorkQueue.                *)
(***************************************************************************)
EXTENDS PamWorker, SequenceLemmas

(* The types, but for the limit, which follows from the line.              *)
TypeInv ==
    /\ js \in {"idle", "notify", "settle", "sdNotify", "sdJoin"}
    /\ worker \in [pc : Stages \cup {"none", "check", "test", "parking", "asleep", "chosen",
                                     "post", "done"},
                   id : Ids \cup {0}]
    /\ Serving => worker.id \in Ids
    /\ requests \in Seq(Ids)
    /\ results \in Seq(Result)
    /\ batch \in Seq(Result)
    /\ promises \subseteq Ids
    /\ nextId \in 1..(MaxId + 1)
    /\ running \in BOOLEAN
    /\ context \in BOOLEAN
    /\ passed \in [Ids -> SUBSET Stages]
    /\ outcome \in [Ids -> {"none", "resolved", "rejected"}]

(* Where each thread may stand: the worker takes a request only when there *)
(* is one, the batch is kept for as long as it is walked, and shutdown is  *)
(* not undone.                                                             *)
ControlInv ==
    /\ worker.pc = "chosen" /\ running => requests # <<>>
    /\ worker.pc = "parking" => requests = <<>>
    /\ js = "settle" <=> batch # <<>>
    /\ js \in {"sdNotify", "sdJoin"} => ~running
    /\ ~context => ~running /\ WorkerEnded /\ js \notin {"notify", "settle"}

(* The requests under way stand in the order in which they were made, and  *)
(* they are those whose promises are pending.                              *)
LineInv ==
    /\ \A i, j \in 1..Len(Line) : i < j => Line[i] < Line[j]
    /\ \A i \in 1..Len(Line) : Line[i] < nextId
    /\ promises = {Line[i] : i \in 1..Len(Line)}
    /\ Len(Line) <= Limit
    /\ ~context => Line = <<>>

LEMMA FunctionIsSeq ==
  ASSUME NEW S, NEW n \in Nat, NEW f \in [1..n -> S]
  PROVE  f \in Seq(S) /\ Len(f) = n
  BY SeqDef

(* IdsOf gives one id for every item.                                      *)
LEMMA IdsOfType ==
  ASSUME NEW s \in Seq(Result)
  PROVE  /\ IdsOf(s) \in Seq(Ids)
         /\ Len(IdsOf(s)) = Len(s)
         /\ \A i \in 1..Len(s) : IdsOf(s)[i] = s[i].id
  <1> DEFINE n == Len(s)
             f == IdsOf(s)
  <1>1. n \in Nat
    OBVIOUS
  <1>2. \A i \in 1..n : s[i].id \in Ids
    <2> SUFFICES ASSUME NEW i \in 1..n PROVE s[i].id \in Ids
      OBVIOUS
    <2>1. s[i] \in Result
      OBVIOUS
    <2> QED
      BY <2>1 DEF Result
  <1>3. f \in [1..n -> Ids] /\ \A i \in 1..n : f[i] = s[i].id
    BY <1>2 DEF IdsOf
  <1> HIDE DEF n, f
  <1>4. f \in Seq(Ids) /\ Len(f) = n
    BY <1>1, <1>3, FunctionIsSeq
  <1> QED
    BY <1>3, <1>4 DEF n, f

LEMMA IdsOfEmpty == IdsOf(<<>>) = <<>>
  BY IdsOfType, EmptySeq

LEMMA IdsOfAppend ==
  ASSUME NEW s \in Seq(Result), NEW r \in Result
  PROVE  IdsOf(Append(s, r)) = IdsOf(s) \o <<r.id>>
  <1> DEFINE t == Append(s, r)
             u == IdsOf(t)
             v == IdsOf(s)
             w == Append(v, r.id)
  <1>1. t \in Seq(Result) /\ Len(t) = Len(s) + 1
    OBVIOUS
  <1>2. r.id \in Ids
    BY DEF Result
  <1>3. /\ u \in Seq(Ids) /\ Len(u) = Len(t)
        /\ \A i \in 1..Len(t) : u[i] = t[i].id
    BY <1>1, IdsOfType
  <1>4. /\ v \in Seq(Ids) /\ Len(v) = Len(s)
        /\ \A i \in 1..Len(s) : v[i] = s[i].id
    BY IdsOfType
  <1> HIDE DEF u, v
  <1>5. /\ w \in Seq(Ids) /\ Len(w) = Len(s) + 1
        /\ \A i \in 1..Len(s) : w[i] = v[i]
        /\ w[Len(s) + 1] = r.id
    BY <1>2, <1>4, AppendProperties
  <1>6. \A i \in 1..Len(s) : t[i] = s[i]
    OBVIOUS
  <1>7. t[Len(s) + 1] = r
    OBVIOUS
  <1>8. Len(s) \in Nat
    OBVIOUS
  <1> HIDE DEF t, w
  <1>9. \A i \in 1..Len(u) : u[i] = w[i]
    BY <1>1, <1>3, <1>4, <1>5, <1>6, <1>7, <1>8
  <1>10. u = w
    BY <1>1, <1>3, <1>5, <1>9, SeqEqual
  <1> QED
    BY <1>2, <1>4, <1>10, AppendIsConcat DEF u, v, w, t

LEMMA IdsOfTail ==
  ASSUME NEW s \in Seq(Result), s # <<>>
  PROVE  /\ IdsOf(Tail(s)) = Tail(IdsOf(s))
         /\ IdsOf(s) # <<>>
         /\ Head(IdsOf(s)) = Head(s).id
  <1> DEFINE t == Tail(s)
             u == IdsOf(t)
             v == IdsOf(s)
             w == Tail(v)
  <1>1. /\ t \in Seq(Result) /\ Len(t) = Len(s) - 1 /\ Len(s) \in Nat \ {0}
        /\ \A i \in 1..Len(t) : t[i] = s[i + 1]
    BY HeadTailProperties, EmptySeq
  <1>2. /\ u \in Seq(Ids) /\ Len(u) = Len(t)
        /\ \A i \in 1..Len(t) : u[i] = t[i].id
    BY <1>1, IdsOfType
  <1>3. /\ v \in Seq(Ids) /\ Len(v) = Len(s)
        /\ \A i \in 1..Len(s) : v[i] = s[i].id
    BY IdsOfType
  <1> HIDE DEF t, u, v
  <1>4. v # <<>>
    BY <1>1, <1>3
  <1>5. /\ w \in Seq(Ids) /\ Len(w) = Len(v) - 1
        /\ \A i \in 1..Len(w) : w[i] = v[i + 1]
    BY <1>3, <1>4, HeadTailProperties
  <1>6. Head(v) = v[1] /\ Head(s) = s[1]
    BY <1>3, <1>4
  <1> HIDE DEF w
  <1>7. \A i \in 1..Len(u) : u[i] = w[i]
    BY <1>1, <1>2, <1>3, <1>5
  <1>8. u = w
    BY <1>1, <1>2, <1>3, <1>5, <1>7, SeqEqual
  <1>9. Head(v) = Head(s).id
    BY <1>1, <1>3, <1>6
  <1> QED
    BY <1>4, <1>8, <1>9 DEF t, u, v, w

LEMMA TailOfConcat ==
  ASSUME NEW S, NEW s \in Seq(S), NEW t \in Seq(S), s # <<>>
  PROVE  /\ Tail(s \o t) = Tail(s) \o t
         /\ Head(s \o t) = Head(s)
         /\ s \o t # <<>>
  <1>1. /\ Head(s) \in S /\ Tail(s) \in Seq(S) /\ Head(s) = s[1]
        /\ Len(Tail(s)) = Len(s) - 1 /\ Len(s) \in Nat \ {0} /\ Len(t) \in Nat
        /\ \A i \in 1..Len(Tail(s)) : Tail(s)[i] = s[i + 1]
    BY HeadTailProperties, EmptySeq, LenProperties
  <1> DEFINE c == s \o t
             r == Tail(s)
             d == Tail(c)
             e == r \o t
  <1>2. /\ c \in Seq(S) /\ Len(c) = Len(s) + Len(t)
        /\ \A i \in 1..(Len(s) + Len(t)) : c[i] = IF i <= Len(s) THEN s[i] ELSE t[i - Len(s)]
    BY ConcatProperties
  <1> HIDE DEF c
  <1>3. c # <<>>
    BY <1>1, <1>2, EmptySeq
  <1>4. /\ d \in Seq(S) /\ Len(d) = Len(c) - 1
        /\ \A i \in 1..Len(d) : d[i] = c[i + 1]
    BY <1>2, <1>3, HeadTailProperties
  <1>5. Head(c) = c[1]
    BY <1>2, <1>3
  <1>6. /\ e \in Seq(S) /\ Len(e) = Len(r) + Len(t)
        /\ \A i \in 1..(Len(r) + Len(t)) : e[i] = IF i <= Len(r) THEN r[i] ELSE t[i - Len(r)]
    BY <1>1, ConcatProperties
  <1> HIDE DEF r, d, e
  <1>7. Len(d) = Len(e)
    BY <1>1, <1>2, <1>4, <1>6 DEF r
  <1>8. \A i \in 1..Len(d) : d[i] = e[i]
    <2> SUFFICES ASSUME NEW i \in 1..Len(d) PROVE d[i] = e[i]
      OBVIOUS
    <2>1. Len(r) = Len(s) - 1 /\ \A k \in 1..Len(r) : r[k] = s[k + 1]
      BY <1>1 DEF r
    <2>2. i \in Int /\ i + 1 \in 1..(Len(s) + Len(t)) /\ i \in 1..(Len(r) + Len(t))
      BY <1>1, <1>2, <1>4, <2>1
    <2>3. CASE i <= Len(r)
      BY <1>1, <1>2, <1>4, <1>6, <2>1, <2>2, <2>3
    <2>4. CASE ~(i <= Len(r))
      <3>1. i + 1 - Len(s) = i - Len(r) /\ ~(i + 1 <= Len(s))
        BY <1>1, <2>1, <2>2, <2>4
      <3>2. d[i] = t[i + 1 - Len(s)]
        BY <1>2, <1>4, <2>2, <3>1
      <3>3. e[i] = t[i - Len(r)]
        BY <1>6, <2>2, <2>4
      <3> QED
        BY <3>1, <3>2, <3>3
    <2> QED
      BY <2>3, <2>4
  <1>9. d = e
    BY <1>4, <1>6, <1>7, <1>8, SeqEqual
  <1>10. c[1] = s[1]
    BY <1>1, <1>2
  <1> QED
    BY <1>1, <1>3, <1>5, <1>9, <1>10 DEF c, d, e, r

-----------------------------------------------------------------------------

LEMMA TypeInit == Init => TypeInv
  BY PamBoundsAssumption DEF Init, TypeInv, NoWorker, Stages, Serving, Ids

LEMMA TypeNext == TypeInv /\ ControlInv /\ [Next]_vars => TypeInv'
  <1> SUFFICES ASSUME TypeInv, ControlInv, [Next]_vars PROVE TypeInv'
    OBVIOUS
  <1> USE PamBoundsAssumption DEF TypeInv, Serving
  <1>1. CASE UNCHANGED vars
    BY <1>1 DEF vars
  <1>2. CASE Authenticate
    BY <1>2 DEF Authenticate, Ids
  <1>3. CASE NotifyOne
    BY <1>3 DEF NotifyOne, Notified, Stages
  <1>4. CASE WorkerCheck
    BY <1>4 DEF WorkerCheck, Stages
  <1>5. CASE WorkerTest
    BY <1>5 DEF WorkerTest, Stages
  <1>6. CASE WorkerPark
    BY <1>6 DEF WorkerPark, Stages
  <1>7. CASE WorkerWakesSpuriously
    BY <1>7 DEF WorkerWakesSpuriously, Stages
  <1>8. CASE WorkerTake
    <2>1. CASE running
      <3>1. requests # <<>>
        BY <1>8, <2>1 DEF ControlInv, WorkerTake
      <3>2. Head(requests) \in Ids /\ Tail(requests) \in Seq(Ids)
        BY <3>1, HeadTailProperties
      <3>3. worker' = [pc |-> "start", id |-> Head(requests)] /\ requests' = Tail(requests)
        BY <1>8, <2>1 DEF WorkerTake
      <3>4. UNCHANGED <<js, results, batch, promises, nextId, running, context, passed, outcome>>
        BY <1>8 DEF WorkerTake
      <3> QED
        BY <3>2, <3>3, <3>4 DEF Stages
    <2>2. CASE ~running
      BY <1>8, <2>2 DEF WorkerTake, NoWorker, Stages
    <2> QED
      BY <2>1, <2>2
  <1>9. ASSUME NEW ok \in BOOLEAN, Stage(ok)
        PROVE  TypeInv'
    <2>1. CASE ok
      <3>1. NextStage[worker.pc] \in Stages \cup {"post"}
        BY <1>9 DEF Stage, Stages, NextStage
      <3>2. passed' \in [Ids -> SUBSET Stages]
        BY <1>9 DEF Stage, Stages
      <3> QED
        BY <1>9, <2>1, <3>1, <3>2 DEF Stage
    <2>2. CASE ~ok
      <3>1. [id |-> worker.id, ok |-> FALSE] \in Result
        BY <1>9 DEF Stage, Result
      <3>2. /\ worker' = [pc |-> "check", id |-> 0]
            /\ results' = Append(results, [id |-> worker.id, ok |-> FALSE])
            /\ UNCHANGED <<js, requests, batch, promises, nextId, running, context, passed,
                           outcome>>
        BY <1>9, <2>2 DEF Stage, NoWorker
      <3> QED
        BY <3>1, <3>2 DEF Stages
    <2> QED
      BY <2>1, <2>2
  <1>10. CASE PostSuccess
    <2>1. [id |-> worker.id, ok |-> TRUE] \in Result
      BY <1>10 DEF PostSuccess, Result
    <2> QED
      BY <1>10, <2>1 DEF PostSuccess, NoWorker, Stages
  <1>11. CASE UpdateTake
    BY <1>11 DEF UpdateTake
  <1>12. CASE Settle
    <2>1. batch # <<>>
      BY <1>12 DEF ControlInv, Settle
    <2>2. Head(batch) \in Result /\ Tail(batch) \in Seq(Result)
      BY <2>1, HeadTailProperties
    <2>3. outcome' \in [Ids -> {"none", "resolved", "rejected"}]
      BY <1>12, <2>2 DEF Settle, Result
    <2> QED
      BY <1>12, <2>2, <2>3 DEF Settle
  <1>13. CASE ShutdownBegin
    BY <1>13 DEF ShutdownBegin
  <1>14. CASE ShutdownNotify
    BY <1>14 DEF ShutdownNotify, Notified, Stages
  <1>15. CASE ShutdownJoin
    <2>1. worker' = [pc |-> "none", id |-> 0] /\ js' = "idle"
      BY <1>15 DEF ShutdownJoin, NoWorker
    <2>2. promises' = {} /\ results' = <<>> /\ requests' = <<>> /\ context' = FALSE
      BY <1>15 DEF ShutdownJoin
    <2>3. UNCHANGED <<batch, nextId, running, passed, outcome>>
      BY <1>15 DEF ShutdownJoin
    <2>4. context' \in BOOLEAN
      BY <2>2
    <2>5. results' \in Seq(Result) /\ requests' \in Seq(Ids) /\ promises' \subseteq Ids
      BY <2>2, EmptySeq
    <2>6. /\ worker' \in [pc : Stages \cup {"none", "check", "test", "parking", "asleep",
                                           "chosen", "post", "done"},
                          id : Ids \cup {0}]
          /\ ~Serving'
      BY <2>1 DEF Stages
    <2> QED
      BY <2>1, <2>3, <2>4, <2>5, <2>6
  <1> QED
    BY <1>1, <1>2, <1>3, <1>4, <1>5, <1>6, <1>7, <1>8, <1>9, <1>10, <1>11, <1>12, <1>13,
       <1>14, <1>15 DEF Next, WorkerSteps, UpdateSteps, ShutdownSteps

LEMMA ControlInit == Init => ControlInv
  BY DEF Init, ControlInv, NoWorker

LEMMA ControlNext == TypeInv /\ ControlInv /\ [Next]_vars => ControlInv'
  <1> SUFFICES ASSUME TypeInv, ControlInv, [Next]_vars PROVE ControlInv'
    OBVIOUS
  <1> USE DEF TypeInv, ControlInv, WorkerEnded
  <1>1. CASE UNCHANGED vars
    BY <1>1 DEF vars
  <1>2. CASE Authenticate
    BY <1>2 DEF Authenticate, RequestMutexFree
  <1>3. CASE NotifyOne
    BY <1>3 DEF NotifyOne, Notified
  <1>4. CASE WorkerCheck
    BY <1>4 DEF WorkerCheck
  <1>5. CASE WorkerTest
    BY <1>5 DEF WorkerTest
  <1>6. CASE WorkerPark
    BY <1>6 DEF WorkerPark
  <1>7. CASE WorkerWakesSpuriously
    BY <1>7 DEF WorkerWakesSpuriously
  <1>8. CASE WorkerTake
    BY <1>8 DEF WorkerTake, NoWorker
  <1>9. ASSUME NEW ok \in BOOLEAN, Stage(ok)
        PROVE  ControlInv'
    <2>1. NextStage[worker.pc] \notin {"chosen", "parking", "none", "done"}
      BY <1>9 DEF Stage, Stages, NextStage
    <2> QED
      BY <1>9, <2>1 DEF Stage, NoWorker, Stages
  <1>10. CASE PostSuccess
    BY <1>10 DEF PostSuccess, NoWorker
  <1>11. CASE UpdateTake
    BY <1>11 DEF UpdateTake
  <1>12. CASE Settle
    <2>1. batch # <<>>
      BY <1>12 DEF Settle
    <2>2. Len(batch) = 1 <=> Tail(batch) = <<>>
      <3>1. Tail(batch) \in Seq(Result) /\ Len(Tail(batch)) = Len(batch) - 1
        BY <2>1, HeadTailProperties
      <3> HIDE DEF TypeInv
      <3>2. Tail(batch) = <<>> <=> Len(Tail(batch)) = 0
        BY <3>1, EmptySeq
      <3>3. Len(batch) \in Nat
        BY LenProperties DEF TypeInv
      <3> QED
        BY <3>1, <3>2, <3>3
    <2> QED
      BY <1>12, <2>2 DEF Settle
  <1>13. CASE ShutdownBegin
    BY <1>13 DEF ShutdownBegin
  <1>14. CASE ShutdownNotify
    BY <1>14 DEF ShutdownNotify, Notified
  <1>15. CASE ShutdownJoin
    BY <1>15 DEF ShutdownJoin, NoWorker
  <1> QED
    BY <1>1, <1>2, <1>3, <1>4, <1>5, <1>6, <1>7, <1>8, <1>9, <1>10, <1>11, <1>12, <1>13,
       <1>14, <1>15 DEF Next, WorkerSteps, UpdateSteps, ShutdownSteps

-----------------------------------------------------------------------------
(* How each step changes the line.                                         *)

LEMMA LineType ==
  ASSUME TypeInv
  PROVE  /\ IdsOf(batch) \in Seq(Ids) /\ IdsOf(results) \in Seq(Ids)
         /\ InHand \in Seq(Ids) /\ requests \in Seq(Ids)
         /\ IdsOf(batch) \o IdsOf(results) \in Seq(Ids)
         /\ IdsOf(batch) \o IdsOf(results) \o InHand \in Seq(Ids)
         /\ Line \in Seq(Ids)
  <1>1. IdsOf(batch) \in Seq(Ids) /\ IdsOf(results) \in Seq(Ids)
    BY IdsOfType DEF TypeInv
  <1>2. InHand \in Seq(Ids)
    BY DEF TypeInv, InHand
  <1>3. requests \in Seq(Ids)
    BY DEF TypeInv
  <1>4. IdsOf(batch) \o IdsOf(results) \in Seq(Ids)
    BY <1>1, ConcatProperties
  <1>5. IdsOf(batch) \o IdsOf(results) \o InHand \in Seq(Ids)
    BY <1>2, <1>4, ConcatProperties
  <1>6. Line \in Seq(Ids)
    BY <1>3, <1>5, ConcatProperties DEF Line
  <1> QED
    BY <1>1, <1>2, <1>3, <1>4, <1>5, <1>6

(* A request joins at the end.                                             *)
LEMMA LineAuthenticate ==
  ASSUME TypeInv, Authenticate
  PROVE  Line' = Append(Line, nextId)
  <1> DEFINE front == IdsOf(batch) \o IdsOf(results) \o InHand
  <1>1. front \in Seq(Ids) /\ requests \in Seq(Ids) /\ nextId \in Ids /\ Line \in Seq(Ids)
    BY LineType DEF Authenticate
  <1>2. requests' = requests \o <<nextId>>
    BY <1>1, AppendIsConcat DEF Authenticate
  <1>3. UNCHANGED <<batch, results, worker>>
    BY DEF Authenticate
  <1>4. front' = front
    BY <1>3 DEF InHand, Serving
  <1>5. Line = front \o requests /\ Line' = front' \o requests'
    BY DEF Line
  <1>6. <<nextId>> \in Seq(Ids)
    BY <1>1
  <1> HIDE DEF front
  <1>7. Line' = (front \o requests) \o <<nextId>>
    BY <1>1, <1>2, <1>4, <1>5, <1>6, ConcatAssociative
  <1> QED
    BY <1>1, <1>5, <1>7, AppendIsConcat

(* The worker takes the first of the queue in hand.                        *)
LEMMA LineTake ==
  ASSUME TypeInv, ControlInv, WorkerTake
  PROVE  Line' = Line
  <1> DEFINE front == IdsOf(batch) \o IdsOf(results)
  <1>1. front \in Seq(Ids) /\ requests \in Seq(Ids)
    BY LineType
  <1>2. UNCHANGED <<batch, results>>
    BY DEF WorkerTake
  <1>3. front' = front
    BY <1>2
  <1>4. InHand = <<>>
    BY DEF WorkerTake, InHand, Serving, Stages
  <1>5. CASE ~running
    <2>1. requests' = requests /\ InHand' = <<>>
      BY <1>5 DEF WorkerTake, InHand, Serving, Stages, NoWorker
    <2> QED
      BY <1>2, <1>4, <2>1 DEF Line
  <1>6. CASE running
    <2>1. requests # <<>>
      BY <1>6 DEF WorkerTake, ControlInv
    <2>2. requests' = Tail(requests) /\ InHand' = <<Head(requests)>>
      BY <1>6 DEF WorkerTake, InHand, Serving, Stages
    <2>3. requests = InHand' \o requests'
      BY <1>1, <2>1, <2>2, HeadTailConcat
    <2>4. InHand' \in Seq(Ids) /\ requests' \in Seq(Ids)
      BY <1>1, <2>1, <2>2, HeadTailProperties
    <2>5. Line = (front \o InHand) \o requests /\ Line' = (front' \o InHand') \o requests'
      BY DEF Line
    <2> HIDE DEF front
    <2>6. Line = front \o requests
      BY <1>1, <1>4, <2>5, ConcatEmptySeq
    <2>7. (front \o InHand') \o requests' = front \o (InHand' \o requests')
      BY <1>1, <2>4, ConcatAssociative
    <2>8. Line' = front \o (InHand' \o requests')
      BY <1>3, <2>5, <2>7
    <2> QED
      BY <2>3, <2>6, <2>8
  <1> QED
    BY <1>5, <1>6

(* A result leaves the worker's hands for the queue.                       *)
LEMMA LinePost ==
  ASSUME TypeInv, Serving,
         NEW ok \in BOOLEAN,
         results' = Append(results, [id |-> worker.id, ok |-> ok]),
         worker' = NoWorker("check"),
         UNCHANGED <<batch, requests>>
  PROVE  /\ Line' = Line
         /\ Len(results') = Len(results) + 1
  <1> DEFINE b == IdsOf(batch)
             r == IdsOf(results)
             q == IdsOf(results')
  <1>1. b \in Seq(Ids) /\ r \in Seq(Ids) /\ InHand \in Seq(Ids)
    BY LineType
  <1>2. [id |-> worker.id, ok |-> ok] \in Result /\ results \in Seq(Result)
    BY DEF TypeInv, Result
  <1>3. InHand = <<worker.id>> /\ InHand' = <<>>
    BY DEF InHand, Serving, NoWorker, Stages
  <1>4. q = r \o InHand
    BY <1>2, <1>3, IdsOfAppend
  <1>5. Line = ((b \o r) \o InHand) \o requests /\ Line' = ((b \o q) \o <<>>) \o requests
    BY <1>3 DEF Line
  <1>6. Len(results') = Len(results) + 1
    BY <1>2, AppendProperties
  <1> HIDE DEF b, r, q
  <1>7. b \o (r \o InHand) = (b \o r) \o InHand
    BY <1>1, ConcatAssociative
  <1>8. b \o q \in Seq(Ids)
    BY <1>1, <1>4, ConcatProperties
  <1>9. (b \o q) \o <<>> = b \o q
    BY <1>8, ConcatEmptySeq
  <1> QED
    BY <1>4, <1>5, <1>6, <1>7, <1>9

(* The update hook takes all results.                                      *)
LEMMA LineUpdate ==
  ASSUME TypeInv, ControlInv, UpdateTake
  PROVE  Line' = Line
  <1>1. batch = <<>> /\ batch' = results /\ results' = <<>>
    BY DEF UpdateTake, ControlInv
  <1>2. UNCHANGED <<worker, requests>>
    BY DEF UpdateTake
  <1>3. InHand' = InHand
    BY <1>2 DEF InHand, Serving
  <1>4. IdsOf(results) \in Seq(Ids)
    BY LineType
  <1>5. IdsOf(batch) \o IdsOf(results) = IdsOf(results)
    BY <1>1, <1>4, IdsOfEmpty, ConcatEmptySeq
  <1>6. IdsOf(batch') \o IdsOf(results') = IdsOf(results)
    BY <1>1, <1>4, IdsOfEmpty, ConcatEmptySeq
  <1> QED
    BY <1>2, <1>3, <1>5, <1>6 DEF Line

(* The oldest request leaves the line.                                     *)
LEMMA LineSettle ==
  ASSUME TypeInv, ControlInv, Settle
  PROVE  /\ Line # <<>>
         /\ Head(Line) = Head(batch).id
         /\ Line' = Tail(Line)
         /\ Len(batch') = Len(batch) - 1
         /\ Len(batch) \in Nat \ {0}
  <1> DEFINE b == IdsOf(batch)
             r == IdsOf(results)
             c == IdsOf(batch')
  <1>1. b \in Seq(Ids) /\ r \in Seq(Ids) /\ InHand \in Seq(Ids) /\ requests \in Seq(Ids)
    BY LineType
  <1>2. batch # <<>> /\ batch \in Seq(Result) /\ batch' = Tail(batch)
    BY DEF Settle, ControlInv, TypeInv
  <1>3. b # <<>> /\ Head(b) = Head(batch).id /\ c = Tail(b)
    BY <1>2, IdsOfTail
  <1>4. UNCHANGED <<results, worker, requests>>
    BY DEF Settle
  <1>5. Line = ((b \o r) \o InHand) \o requests /\ Line' = ((c \o r) \o InHand) \o requests
    BY <1>4 DEF Line, InHand, Serving
  <1>6. Len(batch') = Len(batch) - 1 /\ Len(batch) \in Nat \ {0}
    BY <1>2, HeadTailProperties, EmptySeq
  <1> HIDE DEF b, r, c
  <1>7. b \o r \in Seq(Ids) /\ b \o r # <<>> /\ Head(b \o r) = Head(b) /\ Tail(b \o r) = c \o r
    BY <1>1, <1>3, TailOfConcat, ConcatProperties
  <1> DEFINE d == b \o r
             e == c \o r
  <1>8. d \in Seq(Ids) /\ d # <<>> /\ Head(d) = Head(b) /\ Tail(d) = e
    BY <1>7
  <1>9. Line = (d \o InHand) \o requests /\ Line' = (e \o InHand) \o requests
    BY <1>5
  <1> HIDE DEF d, e
  <1>10. /\ d \o InHand \in Seq(Ids) /\ d \o InHand # <<>>
         /\ Head(d \o InHand) = Head(b) /\ Tail(d \o InHand) = e \o InHand
    BY <1>1, <1>8, TailOfConcat, ConcatProperties
  <1> DEFINE f == d \o InHand
             g == e \o InHand
  <1>11. f \in Seq(Ids) /\ f # <<>> /\ Head(f) = Head(b) /\ Tail(f) = g
    BY <1>10
  <1>12. Line = f \o requests /\ Line' = g \o requests
    BY <1>9
  <1> HIDE DEF f, g
  <1>13. Line # <<>> /\ Head(Line) = Head(b) /\ Tail(Line) = g \o requests
    BY <1>1, <1>11, <1>12, TailOfConcat
  <1> QED
    BY <1>3, <1>6, <1>12, <1>13

(* Shutdown leaves nobody in the line.                                     *)
LEMMA LineShutdown ==
  ASSUME TypeInv, ControlInv, ShutdownJoin
  PROVE  Line' = <<>> /\ batch' = <<>> /\ results' = <<>>
  <1>1. batch' = <<>> /\ results' = <<>> /\ requests' = <<>>
    BY DEF ShutdownJoin, ControlInv
  <1>2. InHand' = <<>>
    BY DEF ShutdownJoin, InHand, Serving, NoWorker, Stages
  <1>3. Line' = ((<<>> \o <<>>) \o <<>>) \o <<>>
    BY <1>1, <1>2, IdsOfEmpty DEF Line
  <1> QED
    BY <1>1, <1>3, ConcatEmptySeq, EmptySeq

(* Where in the line each request stands.                                  *)
LEMMA LineParts ==
  ASSUME TypeInv
  PROVE  /\ Len(batch) \in Nat /\ Len(results) \in Nat /\ Len(requests) \in Nat
         /\ Len(InHand) = IF Serving THEN 1 ELSE 0
         /\ Len(Line) = Len(batch) + Len(results) + Len(InHand) + Len(requests)
         /\ \A i \in 1..Len(batch) : Line[i] = batch[i].id
         /\ \A i \in 1..Len(results) : Line[Len(batch) + i] = results[i].id
         /\ Serving => Line[Len(batch) + Len(results) + 1] = worker.id
         /\ \A i \in 1..Len(requests) :
               Line[Len(batch) + Len(results) + Len(InHand) + i] = requests[i]
  <1> DEFINE b == IdsOf(batch)
             r == IdsOf(results)
             c == b \o r
             d == c \o InHand
  <1>1. /\ b \in Seq(Ids) /\ r \in Seq(Ids) /\ InHand \in Seq(Ids) /\ requests \in Seq(Ids)
        /\ c \in Seq(Ids) /\ d \in Seq(Ids)
    BY LineType
  <1>2. Len(b) = Len(batch) /\ \A i \in 1..Len(batch) : b[i] = batch[i].id
    BY IdsOfType DEF TypeInv
  <1>3. Len(r) = Len(results) /\ \A i \in 1..Len(results) : r[i] = results[i].id
    BY IdsOfType DEF TypeInv
  <1>4. Line = d \o requests
    BY DEF Line
  <1>5. Len(InHand) = (IF Serving THEN 1 ELSE 0) /\ (Serving => InHand[1] = worker.id)
    BY DEF InHand
  <1>6. Len(b) \in Nat /\ Len(r) \in Nat /\ Len(requests) \in Nat
    BY <1>1, LenProperties
  <1> HIDE DEF b, r
  <1>7. /\ Len(c) = Len(b) + Len(r)
        /\ \A i \in 1..(Len(b) + Len(r)) : c[i] = IF i <= Len(b) THEN b[i] ELSE r[i - Len(b)]
    BY <1>1, ConcatProperties
  <1> HIDE DEF c
  <1>8. /\ Len(d) = Len(c) + Len(InHand)
        /\ \A i \in 1..(Len(c) + Len(InHand)) :
              d[i] = IF i <= Len(c) THEN c[i] ELSE InHand[i - Len(c)]
    BY <1>1, ConcatProperties
  <1> HIDE DEF d
  <1>9. /\ Len(Line) = Len(d) + Len(requests)
        /\ \A i \in 1..(Len(d) + Len(requests)) :
              Line[i] = IF i <= Len(d) THEN d[i] ELSE requests[i - Len(d)]
    BY <1>1, <1>4, ConcatProperties
  <1> DEFINE nb == Len(batch)
             nr == Len(results)
             nh == Len(InHand)
             nq == Len(requests)
  <1>10. nb \in Nat /\ nr \in Nat /\ nq \in Nat /\ nh \in {0, 1} /\ (Serving => nh = 1)
    BY <1>2, <1>3, <1>5, <1>6
  <1>11. Len(c) = nb + nr /\ Len(d) = nb + nr + nh /\ Len(Line) = nb + nr + nh + nq
    BY <1>2, <1>3, <1>7, <1>8, <1>9
  <1>12. \A i \in 1..nb : Line[i] = batch[i].id
    BY <1>2, <1>3, <1>7, <1>8, <1>9, <1>10, <1>11
  <1>13. \A i \in 1..nr : Line[nb + i] = results[i].id
    <2> SUFFICES ASSUME NEW i \in 1..nr PROVE Line[nb + i] = results[i].id
      OBVIOUS
    <2>1. nb + i \in 1..(nb + nr) /\ ~(nb + i <= nb) /\ nb + i - nb = i
      BY <1>10
    <2>2. c[nb + i] = r[i]
      BY <1>2, <1>3, <1>7, <2>1
    <2>3. d[nb + i] = c[nb + i]
      BY <1>8, <1>10, <1>11, <2>1
    <2>4. Line[nb + i] = d[nb + i]
      BY <1>9, <1>10, <1>11, <2>1
    <2> QED
      BY <1>3, <2>2, <2>3, <2>4
  <1>14. Serving => Line[nb + nr + 1] = worker.id
    BY <1>5, <1>8, <1>9, <1>10, <1>11
  <1>15. \A i \in 1..nq : Line[nb + nr + nh + i] = requests[i]
    BY <1>9, <1>10, <1>11
  <1> QED
    BY <1>5, <1>10, <1>11, <1>12, <1>13, <1>14, <1>15

Ready == Len(batch) + Len(results)

(* The steps that leave the queue as it is, and those that serve a request. *)
QueueStays ==
    /\ Line' = Line /\ Ready' = Ready
    /\ UNCHANGED <<promises, nextId, context>>

QueueServes ==
    /\ Ready < Len(Line)
    /\ Line' = Line /\ Ready' = Ready + 1
    /\ UNCHANGED <<promises, nextId, context>>

LEMMA LineUnmoved ==
  ASSUME UNCHANGED <<batch, results, requests, promises, nextId, context>>, InHand' = InHand
  PROVE  QueueStays
  BY DEF QueueStays, Line, Ready

LEMMA ServingCounts ==
  ASSUME TypeInv, Serving
  PROVE  Ready < Len(Line)
  BY LineParts DEF Ready

LEMMA LineNext ==
  ASSUME TypeInv, ControlInv, [Next]_vars
  PROVE  QueueStays \/ QueueServes \/ Authenticate \/ Settle \/ ShutdownJoin
  <1>1. CASE UNCHANGED vars
    BY <1>1, LineUnmoved DEF vars, InHand, Serving
  <1>2. CASE NotifyOne \/ ShutdownNotify
    <2>1. worker' = Notified
      BY <1>2 DEF NotifyOne, ShutdownNotify
    <2>2. InHand' = InHand
      BY <2>1 DEF Notified, InHand, Serving, Stages, TypeInv
    <2>3. UNCHANGED <<batch, results, requests, promises, nextId, context>>
      BY <1>2 DEF NotifyOne, ShutdownNotify
    <2> QED
      BY <2>2, <2>3, LineUnmoved
  <1>3. CASE WorkerCheck \/ WorkerTest \/ WorkerPark \/ WorkerWakesSpuriously
    <2>1. InHand = <<>> /\ InHand' = <<>>
      BY <1>3 DEF WorkerCheck, WorkerTest, WorkerPark, WorkerWakesSpuriously, InHand, Serving,
                  Stages, TypeInv
    <2>2. UNCHANGED <<batch, results, requests, promises, nextId, context>>
      BY <1>3 DEF WorkerCheck, WorkerTest, WorkerPark, WorkerWakesSpuriously
    <2> QED
      BY <2>1, <2>2, LineUnmoved
  <1>4. CASE WorkerTake
    BY <1>4, LineTake DEF WorkerTake, QueueStays, Ready
  <1>5. ASSUME NEW ok \in BOOLEAN, Stage(ok)
        PROVE  QueueStays \/ QueueServes
    <2>1. CASE ok
      <3>1. InHand' = InHand
        BY <1>5, <2>1 DEF Stage, InHand, Serving, Stages, NextStage, TypeInv
      <3>2. UNCHANGED <<batch, results, requests, promises, nextId, context>>
        BY <1>5, <2>1 DEF Stage
      <3> QED
        BY <3>1, <3>2, LineUnmoved
    <2>2. CASE ~ok
      <3>1. /\ Serving
            /\ results' = Append(results, [id |-> worker.id, ok |-> FALSE])
            /\ worker' = NoWorker("check")
            /\ UNCHANGED <<batch, requests, promises, nextId, context>>
        BY <1>5, <2>2 DEF Stage, Serving
      <3>2. Line' = Line /\ Len(results') = Len(results) + 1
        BY <3>1, LinePost
      <3>3. Len(batch) \in Nat /\ Len(results) \in Nat
        BY LineParts
      <3> QED
        BY <3>1, <3>2, <3>3, ServingCounts DEF QueueServes, Ready
    <2> QED
      BY <2>1, <2>2
  <1>6. CASE PostSuccess
    <2>1. /\ Serving
          /\ results' = Append(results, [id |-> worker.id, ok |-> TRUE])
          /\ worker' = NoWorker("check")
          /\ UNCHANGED <<batch, requests, promises, nextId, context>>
      BY <1>6 DEF PostSuccess, Serving
    <2>2. Line' = Line /\ Len(results') = Len(results) + 1
      BY <2>1, LinePost
    <2>3. Len(batch) \in Nat /\ Len(results) \in Nat
      BY LineParts
    <2> QED
      BY <2>1, <2>2, <2>3, ServingCounts DEF QueueServes, Ready
  <1>7. CASE UpdateTake
    <2>1. Line' = Line
      BY <1>7, LineUpdate
    <2>2. batch = <<>> /\ batch' = results /\ results' = <<>>
      BY <1>7 DEF UpdateTake, ControlInv
    <2>3. Len(results) \in Nat
      BY LineParts
    <2>4. Ready' = Ready
      BY <2>2, <2>3, EmptySeq DEF Ready
    <2> QED
      BY <1>7, <2>1, <2>4 DEF UpdateTake, QueueStays
  <1>8. CASE ShutdownBegin
    BY <1>8, LineUnmoved DEF ShutdownBegin, InHand, Serving
  <1> QED
    BY <1>1, <1>2, <1>3, <1>4, <1>5, <1>6, <1>7, <1>8
    DEF Next, WorkerSteps, UpdateSteps, ShutdownSteps

-----------------------------------------------------------------------------

(* A line that is in order has as many requests as there are promises.     *)
LEMMA LineCounts ==
  ASSUME TypeInv, LineInv
  PROVE  Cardinality(promises) = Len(Line)
  <1> DEFINE n == Len(Line)
             f == [i \in 1..n |-> Line[i]]
  <1>1. Line \in Seq(Ids) /\ n \in Nat
    BY LineType, LenProperties
  <1>2. f \in [1..n -> promises]
    BY DEF LineInv
  <1>3. \A i, j \in 1..n : f[i] = f[j] => i = j
    <2> SUFFICES ASSUME NEW i \in 1..n, NEW j \in 1..n, i # j PROVE f[i] # f[j]
      OBVIOUS
    <2>1. Line[i] \in Ids /\ Line[j] \in Ids
      BY <1>1, ElementOfSeq
    <2>2. i < j \/ j < i
      BY <1>1
    <2> QED
      BY <2>1, <2>2 DEF LineInv, Ids
  <1>4. \A t \in promises : \E i \in 1..n : f[i] = t
    BY DEF LineInv
  <1>5. f \in Bijection(1..n, promises)
    BY <1>2, <1>3, <1>4 DEF Bijection, Injection, Surjection, IsInjective
  <1>6. ExistsBijection(1..n, promises)
    BY <1>5 DEF ExistsBijection
  <1> QED
    BY <1>1, <1>6, FS_CountingElements

LEMMA LineInvInit == Init => LineInv
  <1> SUFFICES ASSUME Init PROVE LineInv
    OBVIOUS
  <1>1. Line = <<>>
    BY IdsOfEmpty, ConcatEmptySeq, EmptySeq
    DEF Init, Line, InHand, Serving, NoWorker, Stages
  <1> QED
    BY <1>1, PamBoundsAssumption DEF Init, LineInv

LEMMA LineInvNext == TypeInv /\ ControlInv /\ LineInv /\ [Next]_vars => LineInv'
  <1> SUFFICES ASSUME TypeInv, ControlInv, LineInv, [Next]_vars PROVE LineInv'
    OBVIOUS
  <1> DEFINE n == Len(Line)
  <1>1. Line \in Seq(Ids) /\ n \in Nat /\ nextId \in Nat
    BY LineType, LenProperties DEF TypeInv
  <1>2. \A i \in 1..n : Line[i] \in Ids
    BY <1>1, ElementOfSeq
  <1>3. CASE QueueStays \/ QueueServes
    BY <1>3 DEF QueueStays, QueueServes, LineInv
  <1>4. CASE Authenticate
    <2>1. nextId \in Ids /\ nextId' = nextId + 1 /\ promises' = promises \cup {nextId}
      BY <1>4 DEF Authenticate
    <2>2. /\ Len(Line') = n + 1
          /\ \A i \in 1..n : Line'[i] = Line[i]
          /\ Line'[n + 1] = nextId
      BY <1>1, <1>4, <2>1, LineAuthenticate, AppendProperties
    <2>3. n + 1 <= Limit
      BY <1>1, <1>4, LineCounts, PamBoundsAssumption DEF Authenticate
    <2>4. \A i \in 1..Len(Line') : Line'[i] < nextId'
      BY <1>1, <1>2, <2>1, <2>2 DEF LineInv, Ids
    <2>5. \A i, j \in 1..Len(Line') : i < j => Line'[i] < Line'[j]
      <3> SUFFICES ASSUME NEW i \in 1..(n + 1), NEW j \in 1..(n + 1), i < j
                   PROVE  Line'[i] < Line'[j]
        BY <2>2
      <3>1. i \in 1..n /\ Line'[i] = Line[i] /\ Line[i] < nextId
        BY <1>1, <2>2 DEF LineInv
      <3>2. CASE j = n + 1
        BY <2>2, <3>1, <3>2
      <3>3. CASE j # n + 1
        <4>1. j \in 1..n /\ Line'[j] = Line[j]
          BY <1>1, <2>2, <3>3
        <4> QED
          BY <3>1, <4>1 DEF LineInv
      <3> QED
        BY <3>2, <3>3
    <2>6. promises' = {Line'[i] : i \in 1..Len(Line')}
      <3>1. 1..(n + 1) = 1..n \cup {n + 1}
        BY <1>1
      <3>2. promises = {Line[i] : i \in 1..n}
        BY DEF LineInv
      <3> QED
        BY <2>1, <2>2, <3>1, <3>2
    <2>7. context'
      BY <1>4 DEF Authenticate
    <2> QED
      BY <2>2, <2>3, <2>4, <2>5, <2>6, <2>7 DEF LineInv
  <1>5. CASE Settle
    <2>1. /\ Line # <<>> /\ Head(Line) = Head(batch).id /\ Line' = Tail(Line)
      BY <1>5, LineSettle
    <2>2. /\ Len(Line') = n - 1 /\ n >= 1
          /\ \A i \in 1..(n - 1) : Line'[i] = Line[i + 1]
      BY <1>1, <2>1, HeadTailProperties, EmptySeq
    <2>3. promises' = promises \ {Line[1]}
      BY <1>1, <1>5, <2>1, <2>2 DEF Settle
    <2>4. UNCHANGED <<nextId, context>>
      BY <1>5 DEF Settle
    <2>5. \A i, j \in 1..(n - 1) : i < j => Line'[i] < Line'[j]
      BY <1>1, <2>2 DEF LineInv
    <2>6. \A i \in 1..(n - 1) : Line'[i] < nextId'
      BY <1>1, <2>2, <2>4 DEF LineInv
    <2>7. promises' = {Line'[i] : i \in 1..(n - 1)}
      <3>1. promises = {Line[i] : i \in 1..n}
        BY DEF LineInv
      <3>2. \A i \in 1..(n - 1) : i + 1 \in 1..n /\ Line[i + 1] # Line[1]
        <4> SUFFICES ASSUME NEW i \in 1..(n - 1) PROVE i + 1 \in 1..n /\ Line[i + 1] # Line[1]
          OBVIOUS
        <4>1. i + 1 \in 1..n /\ 1 \in 1..n /\ 1 < i + 1
          BY <1>1, <2>2
        <4>2. Line[1] < Line[i + 1] /\ Line[1] \in Nat /\ Line[i + 1] \in Nat
          BY <1>2, <4>1 DEF LineInv, Ids
        <4> QED
          BY <4>1, <4>2
      <3>3. \A k \in 1..n : k = 1 \/ (k - 1 \in 1..(n - 1) /\ (k - 1) + 1 = k)
        BY <1>1
      <3>4. {Line'[i] : i \in 1..(n - 1)} \subseteq promises'
        BY <2>2, <2>3, <3>1, <3>2
      <3>5. promises' \subseteq {Line'[i] : i \in 1..(n - 1)}
        <4> SUFFICES ASSUME NEW p \in promises' PROVE p \in {Line'[i] : i \in 1..(n - 1)}
          OBVIOUS
        <4>1. PICK k \in 1..n : p = Line[k]
          BY <2>3, <3>1
        <4>2. k # 1
          BY <2>3, <4>1
        <4>3. k - 1 \in 1..(n - 1) /\ Line'[k - 1] = p
          BY <2>2, <3>3, <4>1, <4>2
        <4> QED
          BY <4>3
      <3> QED
        BY <3>4, <3>5
    <2>8. n - 1 <= Limit
      BY <1>1, PamBoundsAssumption DEF LineInv
    <2>9. context
      BY <1>5 DEF Settle, ControlInv
    <2> QED
      BY <2>2, <2>4, <2>5, <2>6, <2>7, <2>8, <2>9 DEF LineInv
  <1>6. CASE ShutdownJoin
    <2>1. Line' = <<>> /\ promises' = {}
      BY <1>6, LineShutdown DEF ShutdownJoin
    <2>2. Len(Line') = 0
      BY <2>1
    <2> QED
      BY <2>1, <2>2, PamBoundsAssumption DEF LineInv
  <1> QED
    BY <1>3, <1>4, <1>5, <1>6, LineNext

LEMMA MissedNext ==
  TypeInv /\ ControlInv /\ NoMissedWork /\ [Next]_vars => NoMissedWork'
  <1> SUFFICES ASSUME TypeInv, ControlInv, NoMissedWork, [Next]_vars PROVE NoMissedWork'
    OBVIOUS
  <1> USE DEF ControlInv, NoMissedWork
  <1>1. CASE UNCHANGED vars
    BY <1>1 DEF vars
  <1>2. CASE Authenticate
    BY <1>2 DEF Authenticate
  <1>3. CASE NotifyOne \/ ShutdownNotify
    <2>1. requests' = requests /\ worker' = Notified
      BY <1>3 DEF NotifyOne, ShutdownNotify
    <2>2. worker'.pc # "asleep" /\ (worker'.pc = "parking" => worker.pc = "parking")
      BY <2>1 DEF Notified, TypeInv
    <2> QED
      BY <2>1, <2>2
  <1>4. CASE WorkerCheck \/ WorkerTest \/ WorkerPark \/ WorkerWakesSpuriously
    BY <1>4 DEF WorkerCheck, WorkerTest, WorkerPark, WorkerWakesSpuriously, TypeInv
  <1>5. CASE WorkerTake
    BY <1>5 DEF WorkerTake, NoWorker
  <1>6. ASSUME NEW ok \in BOOLEAN, Stage(ok)
        PROVE  NoMissedWork'
    <2>1. NextStage[worker.pc] \notin {"parking", "asleep"}
      BY <1>6 DEF Stage, Stages, NextStage
    <2>2. worker'.pc \notin {"parking", "asleep"}
      BY <1>6, <2>1 DEF Stage, NoWorker, TypeInv
    <2> QED
      BY <2>2
  <1>7. CASE PostSuccess
    BY <1>7 DEF PostSuccess, NoWorker
  <1>8. CASE UpdateTake
    BY <1>8 DEF UpdateTake
  <1>9. CASE Settle
    BY <1>9 DEF Settle
  <1>10. CASE ShutdownBegin
    BY <1>10 DEF ShutdownBegin
  <1>11. CASE ShutdownJoin
    BY <1>11 DEF ShutdownJoin
  <1> QED
    BY <1>1, <1>2, <1>3, <1>4, <1>5, <1>6, <1>7, <1>8, <1>9, <1>10, <1>11
    DEF Next, WorkerSteps, UpdateSteps, ShutdownSteps

-----------------------------------------------------------------------------

(* A result says what the conversation came to.                            *)
Truthful(items) == \A i \in 1..Len(items) : items[i].ok <=> passed[items[i].id] = Stages

(* How far the conversation of each request has gone, by where it stands.  *)
StageInv ==
    /\ Truthful(batch)
    /\ Truthful(results)
    /\ worker.pc = "start" => passed[worker.id] = {}
    /\ worker.pc = "authenticate" => passed[worker.id] = {"start"}
    /\ worker.pc = "acctMgmt" => passed[worker.id] = {"start", "authenticate"}
    /\ worker.pc = "post" => passed[worker.id] = Stages
    /\ \A i \in 1..Len(requests) : passed[requests[i]] = {}
    /\ \A id \in Ids : id >= nextId => passed[id] = {}
    /\ \A id \in Ids : outcome[id] # "none" => id < nextId /\ id \notin promises
    /\ ResolvedIfAllPassed

(* The request in hand is pending and stands nowhere else.                 *)
LEMMA InHandApart ==
  ASSUME TypeInv, LineInv, Serving
  PROVE  /\ worker.id \in promises /\ worker.id < nextId
         /\ \A i \in 1..Len(batch) : batch[i].id # worker.id
         /\ \A i \in 1..Len(results) : results[i].id # worker.id
         /\ \A i \in 1..Len(requests) : requests[i] # worker.id
  <1> DEFINE h == Len(batch) + Len(results) + 1
  <1>1. /\ Len(batch) \in Nat /\ Len(results) \in Nat /\ Len(requests) \in Nat
        /\ Len(InHand) = 1
        /\ Len(Line) = h + Len(requests)
        /\ Line[h] = worker.id
        /\ \A i \in 1..Len(batch) : Line[i] = batch[i].id
        /\ \A i \in 1..Len(results) : Line[Len(batch) + i] = results[i].id
        /\ \A i \in 1..Len(requests) : Line[h + i] = requests[i]
    BY LineParts
  <1>2. h \in 1..Len(Line) /\ \A k \in 1..Len(Line) : Line[k] \in Nat
    <2>1. \A k \in 1..Len(Line) : Line[k] \in Ids
      BY LineType, ElementOfSeq
    <2> QED
      BY <1>1, <2>1 DEF Ids
  <1>3. \A k \in 1..Len(Line) : k # h => Line[k] # Line[h]
    <2> SUFFICES ASSUME NEW k \in 1..Len(Line), k # h PROVE Line[k] # Line[h]
      OBVIOUS
    <2>1. k \in Int /\ h \in Int
      BY <1>1
    <2>2. k < h \/ h < k
      BY <2>1
    <2>3. Line[k] < Line[h] \/ Line[h] < Line[k]
      BY <1>2, <2>2 DEF LineInv
    <2> QED
      BY <1>2, <2>3
  <1>4. worker.id \in promises /\ worker.id < nextId
    BY <1>1, <1>2 DEF LineInv
  <1>5. \A i \in 1..Len(batch) : batch[i].id # worker.id
    <2> SUFFICES ASSUME NEW i \in 1..Len(batch) PROVE batch[i].id # worker.id
      OBVIOUS
    <2>1. i \in 1..Len(Line) /\ i # h
      BY <1>1
    <2> QED
      BY <1>1, <1>3, <2>1
  <1>6. \A i \in 1..Len(results) : results[i].id # worker.id
    <2> SUFFICES ASSUME NEW i \in 1..Len(results) PROVE results[i].id # worker.id
      OBVIOUS
    <2>1. Len(batch) + i \in 1..Len(Line) /\ Len(batch) + i # h
      BY <1>1
    <2> QED
      BY <1>1, <1>3, <2>1
  <1>7. \A i \in 1..Len(requests) : requests[i] # worker.id
    <2> SUFFICES ASSUME NEW i \in 1..Len(requests) PROVE requests[i] # worker.id
      OBVIOUS
    <2>1. h + i \in 1..Len(Line) /\ h + i # h
      BY <1>1
    <2> QED
      BY <1>1, <1>3, <2>1
  <1> QED
    BY <1>4, <1>5, <1>6, <1>7

LEMMA StageInit == Init => StageInv
  BY DEF Init, StageInv, Truthful, NoWorker, ResolvedIfAllPassed, Ids

(* Steps that change neither the results nor how far a request has gone.   *)
LEMMA StageUnmoved ==
  ASSUME StageInv, UNCHANGED <<batch, results, requests, nextId, promises, passed, outcome>>,
         worker'.pc \in Stages \cup {"post"} => worker' = worker
  PROVE  StageInv'
  BY DEF StageInv, Truthful, ResolvedIfAllPassed, Stages

(* A result is queued.                                                     *)
LEMMA TruthfulAppend ==
  ASSUME NEW items \in Seq(Result), Truthful(items),
         NEW id \in Ids, NEW ok \in BOOLEAN, ok <=> passed[id] = Stages
  PROVE  Truthful(Append(items, [id |-> id, ok |-> ok]))
  <1> DEFINE r == [id |-> id, ok |-> ok]
             t == Append(items, r)
  <1>1. r \in Result /\ r.id = id /\ r.ok = ok
    BY DEF Result
  <1> HIDE DEF r
  <1>2. /\ Len(t) = Len(items) + 1 /\ Len(items) \in Nat
        /\ \A i \in 1..Len(items) : t[i] = items[i]
        /\ t[Len(items) + 1] = r
    BY <1>1, AppendProperties, LenProperties
  <1> HIDE DEF t
  <1>3. \A i \in 1..Len(t) : t[i].ok <=> passed[t[i].id] = Stages
    <2> SUFFICES ASSUME NEW i \in 1..Len(t) PROVE t[i].ok <=> passed[t[i].id] = Stages
      OBVIOUS
    <2>1. CASE i \in 1..Len(items)
      BY <1>2, <2>1 DEF Truthful
    <2>2. CASE i = Len(items) + 1
      <3>1. t[i] = r
        BY <1>2, <2>2
      <3> QED
        BY <1>1, <3>1
    <2> QED
      BY <1>2, <2>1, <2>2
  <1> QED
    BY <1>3 DEF Truthful, t, r

(* The stages of a request that has gone further are not those of another. *)
LEMMA TruthfulElsewhere ==
  ASSUME TypeInv,
         NEW items \in Seq(Result), Truthful(items),
         NEW id \in Ids, NEW stage \in Stages,
         \A i \in 1..Len(items) : items[i].id # id,
         passed' = [passed EXCEPT ![id] = @ \cup {stage}],
         items' = items
  PROVE  Truthful(items)'
  <1> SUFFICES ASSUME NEW i \in 1..Len(items)
               PROVE  items[i].ok <=> passed'[items[i].id] = Stages
    BY DEF Truthful
  <1>1. items[i] \in Result
    OBVIOUS
  <1>2. items[i].id \in Ids /\ items[i].id # id
    BY <1>1 DEF Result
  <1>3. passed'[items[i].id] = passed[items[i].id]
    BY <1>2 DEF TypeInv
  <1>4. items[i].ok <=> passed[items[i].id] = Stages
    BY DEF Truthful
  <1> QED
    BY <1>3, <1>4

LEMMA StageNext ==
  TypeInv /\ ControlInv /\ LineInv /\ StageInv /\ [Next]_vars => StageInv'
  <1> SUFFICES ASSUME TypeInv, ControlInv, LineInv, StageInv, [Next]_vars PROVE StageInv'
    OBVIOUS
  <1>1. CASE UNCHANGED vars
    BY <1>1, StageUnmoved DEF vars
  <1>2. CASE Authenticate
    <2>1. UNCHANGED <<worker, results, batch, passed, outcome>>
      BY <1>2 DEF Authenticate
    <2>2. /\ nextId \in Ids /\ nextId' = nextId + 1 /\ promises' = promises \cup {nextId}
          /\ requests' = Append(requests, nextId)
      BY <1>2 DEF Authenticate
    <2>3. /\ Len(requests') = Len(requests) + 1 /\ Len(requests) \in Nat
          /\ \A i \in 1..Len(requests) : requests'[i] = requests[i]
          /\ requests'[Len(requests) + 1] = nextId
      BY <2>2, AppendProperties, LenProperties DEF TypeInv
    <2>4. passed[nextId] = {} /\ nextId \in Nat
      BY <2>2 DEF StageInv, Ids
    <2>5. \A i \in 1..Len(requests') : passed'[requests'[i]] = {}
      BY <2>1, <2>3, <2>4 DEF StageInv
    <2>6. \A id \in Ids : id >= nextId' => passed'[id] = {}
      BY <2>1, <2>2, <2>4 DEF StageInv, Ids
    <2>7. \A id \in Ids : outcome'[id] # "none" => id < nextId' /\ id \notin promises'
      BY <2>1, <2>2, <2>4 DEF StageInv, Ids
    <2> QED
      BY <2>1, <2>5, <2>6, <2>7 DEF StageInv, Truthful, ResolvedIfAllPassed
  <1>3. CASE NotifyOne \/ ShutdownNotify
    <2>1. /\ worker' = Notified
          /\ UNCHANGED <<batch, results, requests, nextId, promises, passed, outcome>>
      BY <1>3 DEF NotifyOne, ShutdownNotify
    <2>2. worker'.pc \in Stages \cup {"post"} => worker' = worker
      BY <2>1 DEF Notified, Stages, TypeInv
    <2> QED
      BY <2>1, <2>2, StageUnmoved
  <1>4. CASE WorkerCheck \/ WorkerTest \/ WorkerPark \/ WorkerWakesSpuriously
    <2>1. UNCHANGED <<batch, results, requests, nextId, promises, passed, outcome>>
      BY <1>4 DEF WorkerCheck, WorkerTest, WorkerPark, WorkerWakesSpuriously
    <2>2. worker'.pc \notin Stages \cup {"post"}
      BY <1>4 DEF WorkerCheck, WorkerTest, WorkerPark, WorkerWakesSpuriously, Stages, TypeInv
    <2> QED
      BY <2>1, <2>2, StageUnmoved
  <1>5. CASE WorkerTake
    <2>1. UNCHANGED <<batch, results, nextId, promises, passed, outcome>>
      BY <1>5 DEF WorkerTake
    <2>2. CASE ~running
      <3>1. requests' = requests /\ worker'.pc \notin Stages \cup {"post"}
        BY <1>5, <2>2 DEF WorkerTake, NoWorker, Stages
      <3> QED
        BY <2>1, <3>1, StageUnmoved
    <2>3. CASE running
      <3>1. requests # <<>> /\ requests \in Seq(Ids)
        BY <1>5, <2>3 DEF WorkerTake, ControlInv, TypeInv
      <3>2. worker' = [pc |-> "start", id |-> Head(requests)] /\ requests' = Tail(requests)
        BY <1>5, <2>3 DEF WorkerTake
      <3>3. Len(requests) \in Nat \ {0} /\ Head(requests) = requests[1]
        BY <3>1, EmptySeq
      <3>4. /\ Len(requests') = Len(requests) - 1
            /\ \A i \in 1..Len(requests') : requests'[i] = requests[i + 1]
        BY <3>1, <3>2, HeadTailProperties
      <3>5. \A i \in 1..Len(requests') : passed'[requests'[i]] = {}
        BY <2>1, <3>3, <3>4 DEF StageInv
      <3>6. worker'.pc = "start" /\ passed'[worker'.id] = {}
        BY <2>1, <3>2, <3>3 DEF StageInv
      <3> QED
        BY <2>1, <3>5, <3>6 DEF StageInv, Truthful, ResolvedIfAllPassed
    <2> QED
      BY <2>2, <2>3
  <1>6. ASSUME NEW ok \in BOOLEAN, Stage(ok)
        PROVE  StageInv'
    <2>1. Serving /\ worker.pc \in Stages /\ worker.id \in Ids
      BY <1>6 DEF Stage, Serving, TypeInv
    <2>2. UNCHANGED <<batch, requests, nextId, promises, outcome>>
      BY <1>6 DEF Stage
    <2>3. CASE ok
      <3>1. /\ worker' = [worker EXCEPT !.pc = NextStage[worker.pc]]
            /\ results' = results
            /\ passed' = [passed EXCEPT ![worker.id] = @ \cup {worker.pc}]
        BY <1>6, <2>3 DEF Stage
      <3>2. passed'[worker.id] = passed[worker.id] \cup {worker.pc}
        BY <2>1, <3>1 DEF TypeInv
      <3>3. \A id \in Ids : id # worker.id => passed'[id] = passed[id]
        BY <3>1 DEF TypeInv
      <3>4. worker'.id = worker.id /\ worker'.pc = NextStage[worker.pc]
        BY <3>1 DEF TypeInv
      <3>5. /\ worker'.pc = "start" => passed'[worker'.id] = {}
            /\ worker'.pc = "authenticate" => passed'[worker'.id] = {"start"}
            /\ worker'.pc = "acctMgmt" => passed'[worker'.id] = {"start", "authenticate"}
            /\ worker'.pc = "post" => passed'[worker'.id] = Stages
        <4>1. CASE worker.pc = "start"
          BY <3>2, <3>4, <4>1 DEF StageInv, Stages, NextStage
        <4>2. CASE worker.pc = "authenticate"
          BY <3>2, <3>4, <4>2 DEF StageInv, Stages, NextStage
        <4>3. CASE worker.pc = "acctMgmt"
          BY <3>2, <3>4, <4>3 DEF StageInv, Stages, NextStage
        <4> QED
          BY <2>1, <4>1, <4>2, <4>3 DEF Stages
      <3>6. Truthful(batch)' /\ Truthful(results)'
        <4>1. \A i \in 1..Len(batch) : batch[i].id # worker.id
          BY <2>1, InHandApart
        <4>2. \A i \in 1..Len(results) : results[i].id # worker.id
          BY <2>1, InHandApart
        <4>3. Truthful(batch) /\ Truthful(results)
          BY DEF StageInv
        <4>4. batch \in Seq(Result) /\ results \in Seq(Result)
          BY DEF TypeInv
        <4>5. Truthful(batch)'
          BY <2>1, <2>2, <3>1, <4>1, <4>3, <4>4, TruthfulElsewhere
        <4>6. Truthful(results)'
          BY <2>1, <3>1, <4>2, <4>3, <4>4, TruthfulElsewhere
        <4> QED
          BY <4>5, <4>6
      <3>7. \A i \in 1..Len(requests') : passed'[requests'[i]] = {}
        <4> SUFFICES ASSUME NEW i \in 1..Len(requests) PROVE passed'[requests[i]] = {}
          BY <2>2
        <4>1. requests[i] \in Ids /\ requests[i] # worker.id
          BY <2>1, InHandApart, ElementOfSeq DEF TypeInv
        <4> QED
          BY <3>3, <4>1 DEF StageInv
      <3>8. worker.id \in promises /\ worker.id < nextId
        BY <2>1, InHandApart
      <3>9. \A id \in Ids : id >= nextId' => passed'[id] = {}
        <4> SUFFICES ASSUME NEW id \in Ids, id >= nextId PROVE passed'[id] = {}
          BY <2>2
        <4>1. id # worker.id
          BY <3>8 DEF Ids, TypeInv
        <4> QED
          BY <3>3, <4>1 DEF StageInv
      <3>10. ResolvedIfAllPassed'
        <4> SUFFICES ASSUME NEW id \in Ids
                     PROVE  /\ outcome[id] = "resolved" => passed'[id] = Stages
                            /\ outcome[id] = "rejected" => passed'[id] # Stages
          BY <2>2 DEF ResolvedIfAllPassed
        <4>1. CASE id = worker.id
          BY <3>8, <4>1 DEF StageInv
        <4>2. CASE id # worker.id
          BY <3>3, <4>2 DEF StageInv, ResolvedIfAllPassed
        <4> QED
          BY <4>1, <4>2
      <3>11. \A id \in Ids : outcome'[id] # "none" => id < nextId' /\ id \notin promises'
        BY <2>2 DEF StageInv
      <3> QED
        BY <3>5, <3>6, <3>7, <3>9, <3>10, <3>11 DEF StageInv
    <2>4. CASE ~ok
      <3>1. /\ worker' = NoWorker("check")
            /\ results' = Append(results, [id |-> worker.id, ok |-> FALSE])
            /\ passed' = passed
        BY <1>6, <2>4 DEF Stage
      <3>2. passed[worker.id] # Stages
        BY <2>1 DEF StageInv, Stages
      <3>3. results \in Seq(Result) /\ Truthful(results)
        BY DEF TypeInv, StageInv
      <3>4. Truthful(results')
        BY <2>1, <3>1, <3>2, <3>3, TruthfulAppend
      <3>5. Truthful(results)'
        BY <3>1, <3>4 DEF Truthful
      <3>6. worker'.pc = "check"
        BY <3>1 DEF NoWorker
      <3> QED
        BY <2>2, <3>1, <3>5, <3>6 DEF StageInv, Truthful, ResolvedIfAllPassed
    <2> QED
      BY <2>3, <2>4
  <1>7. CASE PostSuccess
    <2>1. worker.id \in Ids /\ passed[worker.id] = Stages
      BY <1>7 DEF PostSuccess, Serving, TypeInv, StageInv
    <2>2. /\ worker' = NoWorker("check")
          /\ results' = Append(results, [id |-> worker.id, ok |-> TRUE])
          /\ UNCHANGED <<batch, requests, nextId, promises, passed, outcome>>
      BY <1>7 DEF PostSuccess
    <2>3. results \in Seq(Result) /\ Truthful(results)
      BY DEF TypeInv, StageInv
    <2>4. Truthful(results')
      BY <2>1, <2>2, <2>3, TruthfulAppend
    <2>5. Truthful(results)'
      BY <2>2, <2>4 DEF Truthful
    <2>6. worker'.pc = "check"
      BY <2>2 DEF NoWorker
    <2> QED
      BY <2>2, <2>5, <2>6 DEF StageInv, Truthful, ResolvedIfAllPassed
  <1>8. CASE UpdateTake
    <2>1. /\ batch' = results /\ results' = <<>>
          /\ UNCHANGED <<worker, requests, nextId, promises, passed, outcome>>
      BY <1>8 DEF UpdateTake
    <2>2. Truthful(batch)' /\ Truthful(results)'
      BY <2>1 DEF StageInv, Truthful
    <2> QED
      BY <2>1, <2>2 DEF StageInv, ResolvedIfAllPassed
  <1>9. CASE Settle
    <2>1. UNCHANGED <<worker, requests, results, nextId, passed>>
      BY <1>9 DEF Settle
    <2>2. batch # <<>> /\ batch \in Seq(Result) /\ batch' = Tail(batch)
      BY <1>9 DEF Settle, ControlInv, TypeInv
    <2>3. /\ Len(batch) \in Nat \ {0} /\ Head(batch) = batch[1]
          /\ Len(batch') = Len(batch) - 1
          /\ \A i \in 1..Len(batch') : batch'[i] = batch[i + 1]
      BY <2>2, HeadTailProperties, EmptySeq
    <2> DEFINE r == Head(batch)
    <2>4. r \in Result /\ (r.ok <=> passed[r.id] = Stages)
      BY <2>2, <2>3, HeadTailProperties DEF StageInv, Truthful
    <2>5. r.id \in Ids
      BY <2>4 DEF Result
    <2>6. r.id < nextId
      BY <2>3, LineParts DEF LineInv
    <2>7. /\ promises' = promises \ {r.id}
          /\ outcome' = IF r.id \in promises
                        THEN [outcome EXCEPT ![r.id] = IF r.ok THEN "resolved" ELSE "rejected"]
                        ELSE outcome
      BY <1>9 DEF Settle
    <2> HIDE DEF r
    <2>8. Truthful(batch)'
      BY <2>1, <2>3 DEF StageInv, Truthful
    <2>9. \A id \in Ids : id # r.id => outcome'[id] = outcome[id]
      BY <2>7 DEF TypeInv
    <2>10. outcome'[r.id] = outcome[r.id] \/ outcome'[r.id] = IF r.ok THEN "resolved" ELSE "rejected"
      BY <2>5, <2>7 DEF TypeInv
    <2>11. \A id \in Ids : outcome'[id] # "none" => id < nextId' /\ id \notin promises'
      BY <2>1, <2>6, <2>7, <2>9 DEF StageInv
    <2>12. ResolvedIfAllPassed'
      BY <2>1, <2>4, <2>5, <2>9, <2>10 DEF StageInv, ResolvedIfAllPassed
    <2>13. Truthful(results)'
      BY <2>1 DEF StageInv, Truthful
    <2> QED
      BY <2>1, <2>8, <2>11, <2>12, <2>13 DEF StageInv
  <1>10. CASE ShutdownBegin
    BY <1>10, StageUnmoved DEF ShutdownBegin
  <1>11. CASE ShutdownJoin
    <2>1. /\ worker' = NoWorker("none") /\ promises' = {} /\ results' = <<>> /\ requests' = <<>>
          /\ UNCHANGED <<batch, nextId, passed, outcome>>
      BY <1>11 DEF ShutdownJoin
    <2>2. worker'.pc = "none"
      BY <2>1 DEF NoWorker
    <2> QED
      BY <2>1, <2>2 DEF StageInv, Truthful, ResolvedIfAllPassed
  <1> QED
    BY <1>1, <1>2, <1>3, <1>4, <1>5, <1>6, <1>7, <1>8, <1>9, <1>10, <1>11
    DEF Next, WorkerSteps, UpdateSteps, ShutdownSteps

-----------------------------------------------------------------------------

IInv ==
    /\ TypeInv
    /\ ControlInv
    /\ LineInv
    /\ NoMissedWork
    /\ StageInv

LEMMA Invariance == Spec => []IInv
  <1>1. Init => IInv
    BY TypeInit, ControlInit, LineInvInit, StageInit DEF IInv, Init, NoMissedWork, NoWorker
  <1>2. IInv /\ [Next]_vars => IInv'
    BY TypeNext, ControlNext, LineInvNext, MissedNext, StageNext DEF IInv
  <1> QED
    BY <1>1, <1>2, PTL DEF Spec

(* Type correctness, and the limit on pending promises.                    *)
THEOREM TypeCorrect == Spec => []TypeOK
  <1>1. IInv => TypeOK
    <2> SUFFICES ASSUME IInv PROVE TypeOK
      OBVIOUS
    <2>1. Cardinality(promises) <= Limit
      BY LineCounts DEF IInv, LineInv
    <2> QED
      BY <2>1 DEF IInv, TypeInv, TypeOK
  <1> QED
    BY <1>1, Invariance, PTL

(* Every pending promise has its request in exactly one place between the  *)
(* call and the promise.                                                   *)
THEOREM RequestsAccounted == Spec => []PendingAreInLine
  <1>1. IInv => PendingAreInLine
    <2> SUFFICES ASSUME IInv PROVE PendingAreInLine
      OBVIOUS
    <2>1. Line \in Seq(Ids)
      BY LineType DEF IInv
    <2>2. DOMAIN Line = 1..Len(Line) /\ Len(Line) \in Nat
      BY <2>1, LenProperties
    <2> HIDE DEF IInv
    <2>3. \A i \in 1..Len(Line) : Line[i] \in Nat
      <3>1. \A i \in 1..Len(Line) : Line[i] \in Ids
        BY <2>1, ElementOfSeq
      <3> QED
        BY <3>1 DEF Ids
    <2>4. IsInjective(Line)
      <3> SUFFICES ASSUME NEW i \in 1..Len(Line), NEW j \in 1..Len(Line), i # j
                   PROVE  Line[i] # Line[j]
        BY <2>2 DEF IsInjective
      <3>1. i < j \/ j < i
        BY <2>2
      <3> QED
        BY <2>3, <3>1 DEF IInv, LineInv
    <2> QED
      BY <2>4 DEF IInv, LineInv, PendingAreInLine
  <1> QED
    BY <1>1, Invariance, PTL

(* The worker never sleeps on a request.                                   *)
THEOREM RequestsWakeWorker == Spec => []NoMissedWork
  <1>1. IInv => NoMissedWork
    BY DEF IInv
  <1> QED
    BY <1>1, Invariance, PTL

(* A promise is resolved for a request that passed every stage of the PAM  *)
(* conversation, and rejected for one that did not.                        *)
THEOREM VerdictsTrue == Spec => []ResolvedIfAllPassed
  <1>1. IInv => ResolvedIfAllPassed
    BY DEF IInv, StageInv
  <1> QED
    BY <1>1, Invariance, PTL

(* What pam_shutdown leaves when it returns.                               *)
THEOREM ShutdownClean == Spec => []ShutdownLeavesNothing
  <1>1. IInv => ShutdownLeavesNothing
    <2> SUFFICES ASSUME IInv, ~context PROVE ShutdownLeavesNothing
      BY DEF ShutdownLeavesNothing
    <2>1. Line = <<>> /\ promises = {Line[i] : i \in 1..Len(Line)}
      BY DEF IInv, LineInv
    <2>2. promises = {}
      BY <2>1
    <2> QED
      BY <2>1, <2>2 DEF IInv, ControlInv, ShutdownLeavesNothing
  <1> QED
    BY <1>1, Invariance, PTL

(* The pam plugin is a queue: each of its steps is one of WorkQueue's or   *)
(* leaves the queue as it is.                                              *)
THEOREM QueueImplemented == Spec => ImplementsQueue
  <1>1. Init => Queue!QueueInit
    <2> SUFFICES ASSUME Init PROVE Queue!QueueInit
      OBVIOUS
    <2>1. Line = <<>>
      BY IdsOfEmpty, ConcatEmptySeq, EmptySeq
      DEF Init, Line, InHand, Serving, NoWorker, Stages
    <2> QED
      BY <2>1 DEF Init, Queue!QueueInit
  <1>2. IInv /\ [Next]_vars => [Queue!QueueNext]_(Queue!queueVars)
    <2> SUFFICES ASSUME IInv, [Next]_vars PROVE [Queue!QueueNext]_(Queue!queueVars)
      OBVIOUS
    <2> USE DEF IInv
    <2>1. CASE QueueStays
      BY <2>1 DEF QueueStays, Ready, Queue!queueVars
    <2>2. CASE QueueServes
      <3>1. Queue!Serve
        BY <2>2 DEF QueueServes, Ready, Queue!Serve
      <3> QED
        BY <3>1 DEF Queue!QueueNext
    <2>3. CASE Authenticate
      <3>1. context /\ nextId \in Ids
        BY <2>3 DEF Authenticate
      <3>2. Len(Line) < Limit
        BY <2>3, LineCounts DEF Authenticate
      <3>3. \A i \in 1..Len(Line) : Line[i] < nextId
        BY DEF LineInv
      <3>4. Line' = Append(Line, nextId)
        BY <2>3, LineAuthenticate
      <3>5. UNCHANGED <<batch, results, context>>
        BY <2>3 DEF Authenticate
      <3>6. Queue!Submit(nextId)
        BY <3>1, <3>2, <3>3, <3>4, <3>5 DEF Queue!Submit
      <3> QED
        BY <3>1, <3>6 DEF Queue!QueueNext
    <2>4. CASE Settle
      <3>1. /\ Line' = Tail(Line)
            /\ Len(batch') = Len(batch) - 1
            /\ Len(batch) \in Nat \ {0}
        BY <2>4, LineSettle
      <3>2. UNCHANGED <<results, context>> /\ Len(results) \in Nat
        BY <2>4, LineParts DEF Settle
      <3>3. Line' = SubSeq(Line, 2, Len(Line))
        BY <3>1, LineType, TailIsSubSeq DEF Settle
      <3>4. Queue!Deliver(1)
        BY <3>1, <3>2, <3>3 DEF Queue!Deliver
      <3> QED
        BY <3>1, <3>2, <3>4 DEF Queue!QueueNext
    <2>5. CASE ShutdownJoin
      <3>1. Line' = <<>> /\ batch' = <<>> /\ results' = <<>> /\ context' = FALSE
        BY <2>5, LineShutdown DEF ShutdownJoin
      <3>2. Queue!Close
        BY <3>1 DEF Queue!Close
      <3> QED
        BY <3>2 DEF Queue!QueueNext
    <2> QED
      BY <2>1, <2>2, <2>3, <2>4, <2>5, LineNext
  <1> QED
    BY <1>1, <1>2, Invariance, PTL DEF Spec, ImplementsQueue, Queue!QueueSpec
=============================================================================
