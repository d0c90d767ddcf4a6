--------------------------- MODULE WsPlugin_proofs --------------------------
(***************************************************************************)
(* For any number of sockets, connections, messages and drain() calls      *)
(* within one another: no event of a socket that lives is lost or heard    *)
(* twice.                                                                  *)
(***************************************************************************)
EXTENDS WsPlugin, SequenceLemmas

-----------------------------------------------------------------------------
(* The numbers of the events of one socket in a sequence of events         *)

\* Events as they are queued.
WsEvents == [sock : Sockets, n : Nat \ {0}]

\* For each event of a sequence what it adds to the numbers of s.
WsMarks(events, s) ==
    [i \in 1..Len(events) |-> IF events[i].sock = s THEN <<events[i].n>> ELSE <<>>]

\* Each adds a sequence of numbers.
LEMMA WsMarksType ==
    ASSUME NEW events \in Seq(WsEvents), NEW s
    PROVE  WsMarks(events, s) \in Seq(Seq(Nat)) /\ Len(WsMarks(events, s)) = Len(events)
<1>1. Len(events) \in Nat /\ \A i \in 1..Len(events) : events[i] \in WsEvents
    BY LenProperties, ElementOfSeq
<1>2. \A i \in 1..Len(events) : events[i].n \in Nat
    BY <1>1 DEF WsEvents
<1>3. ASSUME NEW i \in 1..Len(events)
      PROVE  (IF events[i].sock = s THEN <<events[i].n>> ELSE <<>>) \in Seq(Nat)
    BY <1>2
<1>4. WsMarks(events, s) \in [1..Len(events) -> Seq(Nat)]
    BY <1>3 DEF WsMarks
<1> QED
    BY <1>1, <1>4, SeqDef

\* The numbers of the events of one socket are a sequence of numbers,
LEMMA WsNumbersType ==
    ASSUME NEW events \in Seq(WsEvents), NEW s
    PROVE  WsNumbers(events, s) \in Seq(Nat)
<1>1. WsNumbers(events, s) = FlattenSeq(WsMarks(events, s))
    BY DEF WsNumbers, WsMarks
<1> QED
    BY <1>1, WsMarksType, FlattenType

\* none for no events,
LEMMA WsNumbersNone == \A s : WsNumbers(<<>>, s) = <<>>
<1> TAKE s
<1>1. <<>> = [i \in 1..0 |-> IF <<>>[i].sock = s THEN <<(<<>>)[i].n>> ELSE <<>>]
    OBVIOUS
<1> QED
    BY <1>1, FlattenEmpty DEF WsNumbers

\* one for an event of the socket,
LEMMA WsNumbersOne ==
    ASSUME NEW e \in WsEvents, NEW s
    PROVE  WsNumbers(<<e>>, s) = IF e.sock = s THEN <<e.n>> ELSE <<>>
<1> DEFINE mark == IF e.sock = s THEN <<e.n>> ELSE <<>>
<1>1. mark \in Seq(Nat)
    BY DEF WsEvents
<1>2. [i \in 1..Len(<<e>>) |-> IF <<e>>[i].sock = s THEN <<(<<e>>)[i].n>> ELSE <<>>] = <<mark>>
    OBVIOUS
<1> QED
    BY <1>1, <1>2, FlattenOne DEF WsNumbers

\* and those of the first part before those of the second.
LEMMA WsNumbersConcat ==
    ASSUME NEW a \in Seq(WsEvents), NEW b \in Seq(WsEvents), NEW s
    PROVE  WsNumbers(a \o b, s) = WsNumbers(a, s) \o WsNumbers(b, s)
<1>1. a \o b \in Seq(WsEvents) /\ Len(a \o b) = Len(a) + Len(b)
      /\ \A i \in 1..Len(a) + Len(b) : (a \o b)[i] = IF i <= Len(a) THEN a[i] ELSE b[i - Len(a)]
    BY ConcatProperties
<1>2. Len(a) \in Nat /\ Len(b) \in Nat
    BY LenProperties
<1>3. WsMarks(a, s) \in Seq(Seq(Nat)) /\ WsMarks(b, s) \in Seq(Seq(Nat))
      /\ WsMarks(a \o b, s) \in Seq(Seq(Nat))
      /\ Len(WsMarks(a, s)) = Len(a) /\ Len(WsMarks(b, s)) = Len(b)
      /\ Len(WsMarks(a \o b, s)) = Len(a) + Len(b)
    BY <1>1, WsMarksType
<1>4. WsMarks(a \o b, s) = WsMarks(a, s) \o WsMarks(b, s)
    <2> DEFINE l == WsMarks(a \o b, s)
               r == WsMarks(a, s) \o WsMarks(b, s)
    <2>1. r \in Seq(Seq(Nat)) /\ Len(r) = Len(a) + Len(b)
          /\ \A i \in 1..Len(a) + Len(b) : r[i] = IF i <= Len(a) THEN WsMarks(a, s)[i]
                                                 ELSE WsMarks(b, s)[i - Len(a)]
        BY <1>3, ConcatProperties
    <2>2. ASSUME NEW i \in 1..Len(l) PROVE l[i] = r[i]
        <3>1. i \in 1..Len(a) + Len(b)
            BY <1>3
        <3>2. CASE i <= Len(a)
            <4>1. i \in 1..Len(a)
                BY <1>2, <3>1, <3>2
            <4> QED
                BY <1>1, <1>2, <2>1, <3>1, <3>2, <4>1 DEF WsMarks
        <3>3. CASE ~(i <= Len(a))
            <4>1. i - Len(a) \in 1..Len(b)
                BY <1>2, <3>1, <3>3
            <4>2. l[i] = WsMarks(b, s)[i - Len(a)]
                BY <1>1, <3>1, <3>3, <4>1 DEF WsMarks
            <4> QED
                BY <2>1, <3>1, <3>3, <4>2
        <3> QED
            BY <3>2, <3>3
    <2> HIDE DEF l, r
    <2>3. l \in Seq(Seq(Nat)) /\ Len(l) = Len(r)
        BY <1>3, <2>1 DEF l
    <2>4. l = r
        BY <2>1, <2>2, <2>3, SeqEqual
    <2> QED
        BY <2>4 DEF l, r
<1>5. WsNumbers(a \o b, s) = FlattenSeq(WsMarks(a, s) \o WsMarks(b, s))
    BY <1>4 DEF WsNumbers, WsMarks
<1>6. WsNumbers(a, s) = FlattenSeq(WsMarks(a, s)) /\ WsNumbers(b, s) = FlattenSeq(WsMarks(b, s))
    BY DEF WsNumbers, WsMarks
<1>7. \A x, y \in Seq(Seq(Nat)) : FlattenSeq(x \o y) = FlattenSeq(x) \o FlattenSeq(y)
    BY FlattenConcat
<1>8. FlattenSeq(WsMarks(a, s) \o WsMarks(b, s))
      = FlattenSeq(WsMarks(a, s)) \o FlattenSeq(WsMarks(b, s))
    BY Zenon, <1>3, <1>7
<1> QED
    BY <1>5, <1>6, <1>8

\* How many events of s a sequence of events has, and their numbers.
WsCount(events, s) == Len(WsNumbers(events, s))
WsSet(events, s)   == Range(WsNumbers(events, s))

\* Of how many there are the same can be said:
LEMMA WsCountType ==
    ASSUME NEW events \in Seq(WsEvents), NEW s
    PROVE  WsCount(events, s) \in Nat
    BY WsNumbersType, LenProperties DEF WsCount

\* What small sequences hold.
LEMMA RangeSmall == Range(<<>>) = {} /\ \A n : Range(<<n>>) = {n}
    BY DEF Range

\* none of no events,
LEMMA WsCountNone == \A s : WsCount(<<>>, s) = 0 /\ WsSet(<<>>, s) = {}
    BY WsNumbersNone, RangeSmall DEF WsCount, WsSet

\* one of an event of the socket,
LEMMA WsCountOne ==
    ASSUME NEW e \in WsEvents, NEW s
    PROVE  /\ WsCount(<<e>>, s) = IF e.sock = s THEN 1 ELSE 0
           /\ WsSet(<<e>>, s) = IF e.sock = s THEN {e.n} ELSE {}
<1>1. WsNumbers(<<e>>, s) = IF e.sock = s THEN <<e.n>> ELSE <<>>
    BY WsNumbersOne
<1>2. CASE e.sock = s
    <2>1. WsNumbers(<<e>>, s) = <<e.n>> /\ Len(<<e.n>>) = 1
        BY <1>1, <1>2
    <2> QED
        BY <1>2, <2>1, RangeSmall DEF WsCount, WsSet
<1>3. CASE e.sock # s
    <2>1. WsNumbers(<<e>>, s) = <<>> /\ Len(<<>>) = 0
        BY <1>1, <1>3
    <2> QED
        BY <1>3, <2>1, RangeSmall DEF WsCount, WsSet
<1> QED
    BY <1>2, <1>3

\* and two parts add up.
LEMMA WsCountConcat ==
    ASSUME NEW a \in Seq(WsEvents), NEW b \in Seq(WsEvents), NEW s
    PROVE  /\ WsCount(a \o b, s) = WsCount(a, s) + WsCount(b, s)
           /\ WsSet(a \o b, s) = WsSet(a, s) \cup WsSet(b, s)
<1>1. WsNumbers(a, s) \in Seq(Nat) /\ WsNumbers(b, s) \in Seq(Nat)
    BY WsNumbersType
<1>2. WsNumbers(a \o b, s) = WsNumbers(a, s) \o WsNumbers(b, s)
    BY WsNumbersConcat
<1> QED
    BY <1>1, <1>2, ConcatProperties, RangeConcatenation DEF WsCount, WsSet

\* An event more,
LEMMA WsCountAppend ==
    ASSUME NEW a \in Seq(WsEvents), NEW e \in WsEvents, NEW s
    PROVE  /\ WsCount(Append(a, e), s) = WsCount(a, s) + (IF e.sock = s THEN 1 ELSE 0)
           /\ WsSet(Append(a, e), s) = WsSet(a, s) \cup (IF e.sock = s THEN {e.n} ELSE {})
<1>1. Append(a, e) = a \o <<e>> /\ <<e>> \in Seq(WsEvents)
    BY AppendIsConcat
<1>2. WsCount(a \o <<e>>, s) = WsCount(a, s) + WsCount(<<e>>, s)
      /\ WsSet(a \o <<e>>, s) = WsSet(a, s) \cup WsSet(<<e>>, s)
    BY <1>1, WsCountConcat
<1>3. WsCount(<<e>>, s) = (IF e.sock = s THEN 1 ELSE 0)
      /\ WsSet(<<e>>, s) = (IF e.sock = s THEN {e.n} ELSE {})
    BY WsCountOne
<1> QED
    BY <1>1, <1>2, <1>3

\* and an event less.
LEMMA WsCountTail ==
    ASSUME NEW a \in Seq(WsEvents), a # <<>>, NEW s
    PROVE  /\ WsCount(a, s) = WsCount(Tail(a), s) + (IF Head(a).sock = s THEN 1 ELSE 0)
           /\ WsSet(a, s) = WsSet(Tail(a), s) \cup (IF Head(a).sock = s THEN {Head(a).n} ELSE {})
<1>1. Head(a) \in WsEvents /\ Tail(a) \in Seq(WsEvents) /\ <<Head(a)>> \in Seq(WsEvents)
      /\ Len(Tail(a)) = Len(a) - 1 /\ \A i \in 1..Len(Tail(a)) : Tail(a)[i] = a[i + 1]
    BY HeadTailProperties
<1>2. a = <<Head(a)>> \o Tail(a)
    BY <1>1
<1>3. WsCount(a, s) = WsCount(<<Head(a)>>, s) + WsCount(Tail(a), s)
      /\ WsSet(a, s) = WsSet(<<Head(a)>>, s) \cup WsSet(Tail(a), s)
    <2>1. WsCount(<<Head(a)>> \o Tail(a), s) = WsCount(<<Head(a)>>, s) + WsCount(Tail(a), s)
          /\ WsSet(<<Head(a)>> \o Tail(a), s) = WsSet(<<Head(a)>>, s) \cup WsSet(Tail(a), s)
        BY <1>1, WsCountConcat
    <2> QED
        BY <1>2, <2>1
<1>4. WsCount(Tail(a), s) \in Nat
    BY <1>1, WsCountType
<1>5. WsCount(<<Head(a)>>, s) = (IF Head(a).sock = s THEN 1 ELSE 0)
      /\ WsSet(<<Head(a)>>, s) = (IF Head(a).sock = s THEN {Head(a).n} ELSE {})
    BY <1>1, WsCountOne
<1> QED
    BY <1>3, <1>4, <1>5

\* The events of all sockets, socket by socket: of each socket in the order what its
\* queue holds.
LEMMA BatchCount ==
    ASSUME NEW q \in [Sockets -> Seq(WsEvents)],
           \A s, t \in Sockets : s # t => WsCount(q[t], s) = 0 /\ WsSet(q[t], s) = {},
           NEW order \in Seq(Sockets),
           \A i, j \in 1..Len(order) : i # j => order[i] # order[j],
           NEW s \in Sockets
    PROVE  LET parts == [i \in 1..Len(order) |-> q[order[i]]]
               there == \E i \in 1..Len(order) : order[i] = s
           IN /\ parts \in Seq(Seq(WsEvents))
              /\ WsCount(FlattenSeq(parts), s) = IF there THEN WsCount(q[s], s) ELSE 0
              /\ WsSet(FlattenSeq(parts), s) = IF there THEN WsSet(q[s], s) ELSE {}
<1> DEFINE n == Len(order)
           Parts(k) == [i \in 1..k |-> q[order[i]]]
           There(k) == \E i \in 1..k : order[i] = s
           P(k) == /\ WsCount(FlattenSeq(Parts(k)), s) = IF There(k) THEN WsCount(q[s], s) ELSE 0
                   /\ WsSet(FlattenSeq(Parts(k)), s) = IF There(k) THEN WsSet(q[s], s) ELSE {}
           N == {k \in Nat : k <= n => P(k)}
<1>1. n \in Nat /\ \A i \in 1..n : order[i] \in Sockets
    BY LenProperties, ElementOfSeq
<1>2. \A k \in Nat : k <= n => Parts(k) \in Seq(Seq(WsEvents)) /\ Len(Parts(k)) = k
    BY <1>1, SeqDef
<1>3. 0 \in N
    <2>1. Parts(0) = <<>> /\ ~There(0)
        OBVIOUS
    <2> QED
        BY <2>1, WsCountNone, FlattenEmpty
<1>4. ASSUME NEW k \in N PROVE k + 1 \in N
    <2> DEFINE m == k + 1
               part == q[order[m]]
    <2> SUFFICES ASSUME m <= n PROVE P(m)
        OBVIOUS
    <2>1. /\ k \in Nat /\ k <= n /\ m \in 1..n /\ m \in Nat
          /\ order[m] \in Sockets /\ part \in Seq(WsEvents)
        BY <1>1
    <2>2. P(k)
        BY <2>1
    <2>3. Parts(k) \in Seq(Seq(WsEvents)) /\ Len(Parts(k)) = k
        BY <1>2, <2>1
    <2>4. Parts(m) = Append(Parts(k), part)
        <3>1. Parts(m) \in Seq(Seq(WsEvents)) /\ Len(Parts(m)) = k + 1
            BY <1>2, <2>1
        <3>2. Append(Parts(k), part) \in Seq(Seq(WsEvents)) /\ Len(Append(Parts(k), part)) = k + 1
              /\ \A i \in 1..k : Append(Parts(k), part)[i] = Parts(k)[i]
              /\ Append(Parts(k), part)[k + 1] = part
            BY <2>1, <2>3, AppendProperties
        <3>3. ASSUME NEW i \in 1..(k + 1) PROVE Parts(m)[i] = Append(Parts(k), part)[i]
            BY <2>1, <3>2
        <3> HIDE DEF Parts, part, m
        <3> QED
            BY <3>1, <3>2, <3>3, SeqEqual
    <2>5. FlattenSeq(Parts(m)) = FlattenSeq(Parts(k)) \o part
        <3> HIDE DEF Parts, part, m
        <3> QED
            BY <2>1, <2>3, <2>4, FlattenAppend
    <2>6. FlattenSeq(Parts(k)) \in Seq(WsEvents)
        <3> HIDE DEF Parts, part, m
        <3> QED
            BY <2>3, FlattenType
    <2>7. /\ WsCount(FlattenSeq(Parts(m)), s) = WsCount(FlattenSeq(Parts(k)), s) + WsCount(part, s)
          /\ WsSet(FlattenSeq(Parts(m)), s) = WsSet(FlattenSeq(Parts(k)), s) \cup WsSet(part, s)
        <3> HIDE DEF Parts, part, m
        <3> QED
            BY <2>1, <2>5, <2>6, WsCountConcat
    <2>8. WsCount(part, s) \in Nat
        <3> HIDE DEF part
        <3> QED
            BY <2>1, WsCountType
    <2>9. CASE order[m] = s
        <3>1. ~There(k) /\ There(m)
            BY <2>1, <2>9
        <3>2. WsCount(FlattenSeq(Parts(k)), s) = 0 /\ WsSet(FlattenSeq(Parts(k)), s) = {}
            <4> HIDE DEF There, Parts
            <4> QED
                BY <2>2, <3>1
        <3>3. part = q[s]
            BY <2>9
        <3> HIDE DEF There, Parts, part, m
        <3> QED
            BY <2>7, <2>8, <3>1, <3>2, <3>3
    <2>10. CASE order[m] # s
        <3>1. There(m) <=> There(k)
            BY <2>1, <2>10
        <3>2. WsCount(part, s) = 0 /\ WsSet(part, s) = {}
            BY <2>1, <2>10
        <3>3. WsCount(FlattenSeq(Parts(k)), s) \in Nat
            <4> HIDE DEF Parts
            <4> QED
                BY <2>6, WsCountType
        <3> HIDE DEF There, Parts, part, m
        <3> QED
            BY <2>2, <2>7, <3>1, <3>2, <3>3
    <2> QED
        BY <2>9, <2>10
<1>5. N = Nat
    <2> HIDE DEF N
    <2>1. N \in SUBSET Nat
        BY DEF N
    <2> QED
        BY <1>3, <1>4, <2>1, SetInduction
<1>6. P(n)
    <2>1. n \in N /\ n <= n
        <3> HIDE DEF N
        <3> QED
            BY <1>1, <1>5
    <2> HIDE DEF P
    <2> QED
        BY <2>1
<1> QED
    BY <1>1, <1>2, <1>6

-----------------------------------------------------------------------------
(* The parts of the invariant                                              *)

\* What is shared between the threads and the callbacks.
WsDataType ==
    /\ wsDrains \in Seq(Seq(WsEvents))
    /\ wsQueue \in [Sockets -> Seq(WsEvents)]
    /\ wsTold \in [Sockets -> Nat]
    /\ wsHeard \in [Sockets -> Seq(Nat)]

\* A drain() under way has its queue; when all sockets are being stopped no instance is
\* left, and only stop(), the destructor and shutdown come to a join.
WsControlInv ==
    /\ wsJs.pc = "drain" => wsDrains # <<>>
    /\ wsJs.pc \in {"script", "drain"} => wsJs.op = "none"
    /\ wsJs.pc \in {"halt", "join"} => wsJs.op \in {"stop", "erase", "end"}
    /\ wsJs.pc \in {"close", "closed"} => wsJs.op \in {"close", "stop", "destroy", "erase", "end"}
    /\ wsJs.pc \in {"close", "closed", "halt", "join"} => wsJs.sock \in Sockets
    /\ wsJs.op = "end" \/ wsJs.pc \in {"ending", "over"} => wsInstances = {}

\* A queue holds events of its own socket only.
WsOwnInv ==
    \A s, t \in Sockets : s # t => WsCount(wsQueue[t], s) = 0 /\ WsSet(wsQueue[t], s) = {}

\* The places of the script thread.
WsJsType ==
    [pc : {"script", "close", "closed", "halt", "join", "relock", "drain", "ending", "over"},
     op : {"none", "close", "stop", "destroy", "erase", "send", "end"},
     sock : 0..WsMaxSockets]

\* Of a socket not created yet there is nothing.
WsFreshInv ==
    \A s \in Sockets : s >= wsNextId =>
        /\ s \notin wsInstances
        /\ wsTold[s] = 0 /\ wsHeard[s] = <<>>
        /\ WsCount(wsQueue[s], s) = 0 /\ WsSet(wsQueue[s], s) = {}
        /\ WsCount(FlattenSeq(wsDrains), s) = 0 /\ WsSet(FlattenSeq(wsDrains), s) = {}

\* Of a socket that lives each event is heard, in hand or queued: as many as were told,
\* and none missing, which leaves no room for one that is there twice.
WsAccountInv ==
    \A s \in wsInstances :
        /\ Len(wsHeard[s]) + WsCount(FlattenSeq(wsDrains), s) + WsCount(wsQueue[s], s) = wsTold[s]
        /\ Range(wsHeard[s]) \cup WsSet(FlattenSeq(wsDrains), s) \cup WsSet(wsQueue[s], s)
           = 1..wsTold[s]

WsInv == WsTypeOK /\ WsDataType /\ WsControlInv /\ WsOwnInv /\ WsFreshInv /\ WsAccountInv

\* This is what WsEventsAccounted says, counted place by place.
LEMMA WsAccounts ==
    ASSUME WsTypeOK, WsDataType, WsAccountInv
    PROVE  WsEventsAccounted
<1> SUFFICES ASSUME NEW s \in wsInstances
             PROVE  LET places == wsHeard[s] \o WsNumbers(FlattenSeq(wsDrains), s)
                                             \o WsNumbers(wsQueue[s], s)
                    IN Len(places) = wsTold[s] /\ Range(places) = 1..wsTold[s]
    BY DEF WsEventsAccounted
<1> DEFINE h == wsHeard[s]
           d == WsNumbers(FlattenSeq(wsDrains), s)
           q == WsNumbers(wsQueue[s], s)
<1>1. s \in Sockets /\ FlattenSeq(wsDrains) \in Seq(WsEvents)
    BY FlattenType DEF WsTypeOK, WsDataType
<1>2. h \in Seq(Nat) /\ d \in Seq(Nat) /\ q \in Seq(Nat)
    BY <1>1, WsNumbersType DEF WsDataType
<1>3. Len(h) + Len(d) + Len(q) = wsTold[s] /\ Range(h) \cup Range(d) \cup Range(q) = 1..wsTold[s]
    BY DEF WsAccountInv, WsCount, WsSet
<1> HIDE DEF h, d, q
<1>4. h \o d \in Seq(Nat) /\ Len(h \o d) = Len(h) + Len(d)
      /\ Range(h \o d) = Range(h) \cup Range(d)
    BY <1>2, ConcatProperties, RangeConcatenation
<1>5. Len((h \o d) \o q) = Len(h) + Len(d) + Len(q)
      /\ Range((h \o d) \o q) = Range(h) \cup Range(d) \cup Range(q)
    <2>1. \A x, y \in Seq(Nat) : Len(x \o y) = Len(x) + Len(y)
                                   /\ Range(x \o y) = Range(x) \cup Range(y)
        BY ConcatProperties, RangeConcatenation
    <2>2. Len((h \o d) \o q) = Len(h \o d) + Len(q)
          /\ Range((h \o d) \o q) = Range(h \o d) \cup Range(q)
        BY <1>2, <1>4, <2>1
    <2> QED
        BY <1>4, <2>2
<1> QED
    BY <1>3, <1>5 DEF h, d, q

-----------------------------------------------------------------------------
(* What the steps do to the numbers of events                              *)

\* The innermost batch goes, or loses its first event.
LEMMA DrainsLess ==
    ASSUME WsDataType, wsDrains # <<>>, NEW rest \in Seq(WsEvents), NEW s
    PROVE  LET last == Last(wsDrains)
           IN /\ last \in Seq(WsEvents)
              /\ Front(wsDrains) \in Seq(Seq(WsEvents))
              /\ [wsDrains EXCEPT ![Len(wsDrains)] = rest] \in Seq(Seq(WsEvents))
              /\ Len([wsDrains EXCEPT ![Len(wsDrains)] = rest]) = Len(wsDrains)
              /\ WsCount(FlattenSeq(wsDrains), s)
                 = WsCount(FlattenSeq(Front(wsDrains)), s) + WsCount(last, s)
              /\ WsSet(FlattenSeq(wsDrains), s)
                 = WsSet(FlattenSeq(Front(wsDrains)), s) \cup WsSet(last, s)
              /\ WsCount(FlattenSeq([wsDrains EXCEPT ![Len(wsDrains)] = rest]), s)
                 = WsCount(FlattenSeq(Front(wsDrains)), s) + WsCount(rest, s)
              /\ WsSet(FlattenSeq([wsDrains EXCEPT ![Len(wsDrains)] = rest]), s)
                 = WsSet(FlattenSeq(Front(wsDrains)), s) \cup WsSet(rest, s)
              /\ WsCount(FlattenSeq(Front(wsDrains)), s) \in Nat
<1> DEFINE front == Front(wsDrains)
           last  == Last(wsDrains)
           less  == [wsDrains EXCEPT ![Len(wsDrains)] = rest]
<1>1. wsDrains \in Seq(Seq(WsEvents))
    BY DEF WsDataType
<1>2. front \in Seq(Seq(WsEvents)) /\ last \in Seq(WsEvents) /\ wsDrains = Append(front, last)
      /\ less = Append(front, rest)
    <2>1. front \in Seq(Seq(WsEvents)) /\ last \in Seq(WsEvents) /\ wsDrains = Append(front, last)
          /\ \A t \in Seq(WsEvents) : [wsDrains EXCEPT ![Len(wsDrains)] = t] = Append(front, t)
        BY Zenon, <1>1, FrontLast
    <2> QED
        BY Zenon, <2>1
<1>3. less \in Seq(Seq(WsEvents)) /\ Len(less) = Len(wsDrains)
    BY <1>1, EmptySeq, ExceptSeq
<1> HIDE DEF front, last, less
<1>4. FlattenSeq(front) \in Seq(WsEvents)
    BY <1>2, FlattenType
<1>5. FlattenSeq(wsDrains) = FlattenSeq(front) \o last
      /\ FlattenSeq(less) = FlattenSeq(front) \o rest
    BY <1>2, FlattenAppend
<1>6. WsCount(FlattenSeq(front) \o last, s) = WsCount(FlattenSeq(front), s) + WsCount(last, s)
      /\ WsSet(FlattenSeq(front) \o last, s) = WsSet(FlattenSeq(front), s) \cup WsSet(last, s)
    BY <1>2, <1>4, WsCountConcat
<1>7. WsCount(FlattenSeq(front) \o rest, s) = WsCount(FlattenSeq(front), s) + WsCount(rest, s)
      /\ WsSet(FlattenSeq(front) \o rest, s) = WsSet(FlattenSeq(front), s) \cup WsSet(rest, s)
    BY <1>4, WsCountConcat
<1>8. WsCount(FlattenSeq(front), s) \in Nat
    BY <1>4, WsCountType
<1> QED
    BY <1>2, <1>3, <1>5, <1>6, <1>7, <1>8 DEF front, last, less

\* One turn of the loop takes one event out of the innermost batch.
LEMMA DeliverTakes ==
    ASSUME WsDataType, WsControlInv, WsDeliver, NEW s
    PROVE  LET m == Head(Last(wsDrains))
           IN /\ m \in WsEvents
              /\ wsDrains' \in Seq(Seq(WsEvents)) /\ Len(wsDrains') = Len(wsDrains)
              /\ WsCount(FlattenSeq(wsDrains'), s) \in Nat
              /\ WsCount(FlattenSeq(wsDrains), s)
                 = WsCount(FlattenSeq(wsDrains'), s) + (IF m.sock = s THEN 1 ELSE 0)
              /\ WsSet(FlattenSeq(wsDrains), s)
                 = WsSet(FlattenSeq(wsDrains'), s) \cup (IF m.sock = s THEN {m.n} ELSE {})
<1> DEFINE last == Last(wsDrains)
           rest == Tail(last)
           front == Front(wsDrains)
<1>1. wsDrains # <<>> /\ last # <<>>
    BY DEF WsDeliver, WsControlInv
<1>2. last \in Seq(WsEvents)
    BY <1>1, FrontLast DEF WsDataType
<1>3. Head(last) \in WsEvents /\ rest \in Seq(WsEvents)
    BY <1>1, <1>2, HeadTailProperties
<1>4. wsDrains' = [wsDrains EXCEPT ![Len(wsDrains)] = rest]
    BY <1>1, FrontLast DEF WsDeliver, Last, WsDataType
<1>5. WsCount(last, s) = WsCount(rest, s) + (IF Head(last).sock = s THEN 1 ELSE 0)
      /\ WsSet(last, s) = WsSet(rest, s) \cup (IF Head(last).sock = s THEN {Head(last).n} ELSE {})
    BY <1>1, <1>2, WsCountTail
<1>6. WsCount(rest, s) \in Nat
    BY <1>3, WsCountType
<1> HIDE DEF last, rest, front
<1>7. /\ wsDrains' \in Seq(Seq(WsEvents)) /\ Len(wsDrains') = Len(wsDrains)
      /\ WsCount(FlattenSeq(front), s) \in Nat
      /\ WsCount(FlattenSeq(wsDrains), s) = WsCount(FlattenSeq(front), s) + WsCount(last, s)
      /\ WsSet(FlattenSeq(wsDrains), s) = WsSet(FlattenSeq(front), s) \cup WsSet(last, s)
      /\ WsCount(FlattenSeq(wsDrains'), s) = WsCount(FlattenSeq(front), s) + WsCount(rest, s)
      /\ WsSet(FlattenSeq(wsDrains'), s) = WsSet(FlattenSeq(front), s) \cup WsSet(rest, s)
    BY <1>1, <1>3, <1>4, DrainsLess DEF last, front
<1>8. WsCount(FlattenSeq(wsDrains), s)
      = WsCount(FlattenSeq(wsDrains'), s) + (IF Head(last).sock = s THEN 1 ELSE 0)
    BY <1>5, <1>6, <1>7
<1>9. WsSet(FlattenSeq(wsDrains), s)
      = WsSet(FlattenSeq(wsDrains'), s) \cup (IF Head(last).sock = s THEN {Head(last).n} ELSE {})
    BY <1>5, <1>7
<1>10. WsCount(FlattenSeq(wsDrains'), s) \in Nat
    BY <1>6, <1>7
<1> QED
    BY <1>3, <1>7, <1>8, <1>9, <1>10 DEF last

\* An empty batch goes without a trace.
LEMMA DrainEndsKeeps ==
    ASSUME WsDataType, WsControlInv, WsDrainEnds, NEW s
    PROVE  /\ wsDrains' \in Seq(Seq(WsEvents)) /\ Len(wsDrains') = Len(wsDrains) - 1
           /\ WsCount(FlattenSeq(wsDrains'), s) = WsCount(FlattenSeq(wsDrains), s)
           /\ WsSet(FlattenSeq(wsDrains'), s) = WsSet(FlattenSeq(wsDrains), s)
<1>1. wsDrains # <<>> /\ Last(wsDrains) = <<>> /\ wsDrains' = Front(wsDrains)
    BY DEF WsDrainEnds, WsControlInv
<1>2. <<>> \in Seq(WsEvents)
    OBVIOUS
<1>3. /\ wsDrains' \in Seq(Seq(WsEvents))
      /\ WsCount(FlattenSeq(wsDrains'), s) \in Nat
      /\ WsCount(FlattenSeq(wsDrains), s) = WsCount(FlattenSeq(wsDrains'), s) + WsCount(<<>>, s)
      /\ WsSet(FlattenSeq(wsDrains), s) = WsSet(FlattenSeq(wsDrains'), s) \cup WsSet(<<>>, s)
    BY <1>1, <1>2, DrainsLess
<1>4. Len(wsDrains') = Len(wsDrains) - 1
    BY <1>1, FrontLast DEF WsDataType
<1>5. WsCount(<<>>, s) = 0 /\ WsSet(<<>>, s) = {}
    BY WsCountNone
<1> QED
    BY <1>3, <1>4, <1>5

\* drain() takes over what the queues of all instances hold.
LEMMA DrainTakes ==
    ASSUME WsTypeOK, WsDataType, WsOwnInv, WsDrain, NEW s \in Sockets
    PROVE  /\ wsDrains' \in Seq(Seq(WsEvents)) /\ Len(wsDrains') = Len(wsDrains) + 1
           /\ wsDrains' # <<>>
           /\ WsCount(FlattenSeq(wsDrains'), s)
              = WsCount(FlattenSeq(wsDrains), s)
                + (IF s \in wsInstances THEN WsCount(wsQueue[s], s) ELSE 0)
           /\ WsSet(FlattenSeq(wsDrains'), s)
              = WsSet(FlattenSeq(wsDrains), s)
                \cup (IF s \in wsInstances THEN WsSet(wsQueue[s], s) ELSE {})
<1>1. wsDrains \in Seq(Seq(WsEvents)) /\ wsQueue \in [Sockets -> Seq(WsEvents)]
      /\ wsInstances \in SUBSET Sockets
    BY DEF WsTypeOK, WsDataType
<1>2. IsFiniteSet(wsInstances)
    <2>1. IsFiniteSet(Sockets)
        BY FS_Interval, WsBoundsAssumption DEF Sockets
    <2> QED
        BY <1>1, <2>1, FS_Subset
<1>3. PICK order \in SetToSeqs(wsInstances) : wsDrains' = Append(wsDrains, WsBatch(order))
    BY DEF WsDrain
<1>4. /\ order \in Seq(wsInstances)
      /\ \A i, j \in 1..Len(order) : i # j => order[i] # order[j]
      /\ \A x \in wsInstances : \E i \in 1..Len(order) : order[i] = x
    BY <1>2, SetToSeqsIs
<1>5. order \in Seq(Sockets) /\ \A i \in 1..Len(order) : order[i] \in wsInstances
    BY <1>1, <1>4, SeqMonotonic, ElementOfSeq
<1>6. (\E i \in 1..Len(order) : order[i] = s) <=> s \in wsInstances
    BY <1>4, <1>5
<1> DEFINE parts == [i \in 1..Len(order) |-> wsQueue[order[i]]]
           batch == FlattenSeq(parts)
           there == \E i \in 1..Len(order) : order[i] = s
<1>7. parts \in Seq(Seq(WsEvents))
      /\ WsCount(batch, s) = (IF there THEN WsCount(wsQueue[s], s) ELSE 0)
      /\ WsSet(batch, s) = (IF there THEN WsSet(wsQueue[s], s) ELSE {})
    BY <1>1, <1>4, <1>5, BatchCount DEF WsOwnInv
<1>8. wsDrains' = Append(wsDrains, batch)
    BY <1>3 DEF WsBatch
<1> HIDE DEF parts
<1>9. batch \in Seq(WsEvents)
    BY <1>7, FlattenType
<1> HIDE DEF batch
<1>10. FlattenSeq(wsDrains) \in Seq(WsEvents)
    BY <1>1, FlattenType
<1>11. FlattenSeq(wsDrains') = FlattenSeq(wsDrains) \o batch
    BY <1>1, <1>8, <1>9, FlattenAppend
<1>12. WsCount(FlattenSeq(wsDrains'), s) = WsCount(FlattenSeq(wsDrains), s) + WsCount(batch, s)
       /\ WsSet(FlattenSeq(wsDrains'), s) = WsSet(FlattenSeq(wsDrains), s) \cup WsSet(batch, s)
    BY <1>9, <1>10, <1>11, WsCountConcat
<1>13. wsDrains' \in Seq(Seq(WsEvents)) /\ Len(wsDrains') = Len(wsDrains) + 1 /\ wsDrains' # <<>>
    BY <1>1, <1>8, <1>9, AppendProperties
<1> HIDE DEF there
<1> QED
    BY <1>6, <1>7, <1>12, <1>13 DEF there

-----------------------------------------------------------------------------
(* The invariant                                                           *)

\* At first nothing is anywhere.
LEMMA WsInitInv == WsInit => WsInv
<1> SUFFICES ASSUME WsInit PROVE WsInv
    OBVIOUS
<1>1. WsTypeOK
    BY WsBoundsAssumption DEF WsInit, WsTypeOK, WsAt, Sockets
<1>2. WsDataType
    BY DEF WsInit, WsDataType
<1>3. WsControlInv
    BY DEF WsInit, WsControlInv, WsAt
<1>4. \A s : /\ WsCount(<<>>, s) = 0 /\ WsSet(<<>>, s) = {}
             /\ WsCount(FlattenSeq(<<>>), s) = 0 /\ WsSet(FlattenSeq(<<>>), s) = {}
    BY WsCountNone, FlattenEmpty
<1>5. WsOwnInv
    BY <1>4 DEF WsInit, WsOwnInv
<1>6. WsFreshInv
    BY <1>4 DEF WsInit, WsFreshInv
<1>7. WsAccountInv
    BY DEF WsInit, WsAccountInv
<1> QED
    BY <1>1, <1>2, <1>3, <1>5, <1>6, <1>7 DEF WsInv

\* The steps that touch what drain() and the callbacks share.
WsMoves ==
    \/ \E s \in Sockets : WsTell(s)
    \/ WsCreate
    \/ WsJoin
    \/ WsDrain
    \/ WsDeliver
    \/ WsDrainEnds
    \/ WsShutdown
    \/ WsShutdownEnds

\* What they share.
WsShared == <<wsDrains, wsInstances, wsQueue, wsNextId, wsTold, wsHeard>>

\* All other steps leave it alone.
LEMMA WsNextMoves == [WsNext]_wsVars => WsMoves \/ UNCHANGED WsShared
<1> SUFFICES ASSUME [WsNext]_wsVars PROVE WsMoves \/ UNCHANGED WsShared
    OBVIOUS
<1> USE DEF WsShared, wsApi
<1>1. CASE WsScriptSteps
    BY <1>1 DEF WsScriptSteps, WsMoves, WsCallbackReturns, WsStart, WsSetAutoReconnect,
       WsSendFails, WsBegin
<1>2. CASE WsHostSteps
    BY <1>2 DEF WsHostSteps, WsMoves, WsClose, WsCloseWakes, WsHalt, WsShutdownStops
<1>3. ASSUME NEW s \in Sockets, WsThreadSteps(s) \/ WsReadMessage(s) \/ WsServerLeaves(s)
      PROVE  WsMoves \/ UNCHANGED WsShared
    BY <1>3 DEF WsThreadSteps, WsMoves, WsCheck, WsDialSucceeds, WsDialFails, WsReadClose,
       WsReadLost, WsClosingEnds, WsPollReturns, WsReadMessage, WsServerLeaves
<1>4. CASE UNCHANGED wsVars
    BY <1>4 DEF wsVars
<1> QED
    BY <1>1, <1>2, <1>3, <1>4 DEF WsNext

\* The parts of the invariant, one by one: types,
LEMMA WsDataStep ==
    ASSUME WsInv, [WsNext]_wsVars
    PROVE  WsDataType'
<1> USE DEF WsDataType
<1>0. WsTypeOK /\ WsDataType /\ WsControlInv /\ WsOwnInv
    BY DEF WsInv
<1>1. ASSUME NEW s \in Sockets, WsTell(s) PROVE WsDataType'
    <2>1. CASE s \in wsInstances
        <3>1. [sock |-> s, n |-> wsTold[s] + 1] \in WsEvents
            BY <1>0 DEF WsEvents
        <3>2. Append(wsQueue[s], [sock |-> s, n |-> wsTold[s] + 1]) \in Seq(WsEvents)
            BY <1>0, <3>1, AppendProperties
        <3> QED
            <4>1. /\ wsQueue' = [wsQueue EXCEPT ![s] =
                                    Append(@, [sock |-> s, n |-> wsTold[s] + 1])]
                  /\ wsTold' = [wsTold EXCEPT ![s] = @ + 1]
                  /\ UNCHANGED <<wsDrains, wsHeard>>
                BY <1>1, <2>1 DEF WsTell
            <4>2. wsQueue' \in [Sockets -> Seq(WsEvents)]
                BY <1>0, <3>2, <4>1
            <4>3. wsTold' \in [Sockets -> Nat]
                BY <1>0, <4>1
            <4> QED
                BY <1>0, <4>1, <4>2, <4>3
    <2>2. CASE s \notin wsInstances
        BY <1>0, <1>1, <2>2 DEF WsTell
    <2> QED
        BY <2>1, <2>2
<1>2. CASE WsCreate
    BY <1>0, <1>2 DEF WsCreate
<1>3. CASE WsJoin
    <2>1. UNCHANGED <<wsDrains, wsTold, wsHeard>>
        BY <1>3 DEF WsJoin
    <2>2. wsQueue' \in [Sockets -> Seq(WsEvents)]
        <3>1. <<>> \in Seq(WsEvents)
            OBVIOUS
        <3>2. wsQueue' = wsQueue \/ wsQueue' = [wsQueue EXCEPT ![wsJs.sock] = <<>>]
            BY <1>3 DEF WsJoin
        <3> QED
            BY <1>0, <3>1, <3>2
    <2> QED
        BY <1>0, <2>1, <2>2
<1>4. CASE WsDrain
    <2>1. wsDrains' \in Seq(Seq(WsEvents))
        <3>1. CASE wsInstances = {}
            BY <1>4, <3>1 DEF WsDrain
        <3>2. CASE wsInstances # {}
            <4>1. PICK s \in Sockets : TRUE
                BY <1>0, <3>2 DEF WsTypeOK
            <4> QED
                BY <1>0, <1>4, DrainTakes
        <3> QED
            BY <3>1, <3>2
    <2>2. wsQueue' \in [Sockets -> Seq(WsEvents)] /\ UNCHANGED <<wsTold, wsHeard>>
        BY <1>4 DEF WsDrain
    <2> QED
        BY <1>0, <2>1, <2>2
<1>5. CASE WsDeliver
    <2> DEFINE m == Head(Last(wsDrains))
    <2>1. m \in WsEvents /\ wsDrains' \in Seq(Seq(WsEvents))
        BY <1>0, <1>5, DeliverTakes
    <2>2. UNCHANGED <<wsQueue, wsTold>>
          /\ (wsHeard' = wsHeard \/ wsHeard' = [wsHeard EXCEPT ![m.sock] = Append(@, m.n)])
        BY <1>5 DEF WsDeliver
    <2> HIDE DEF m
    <2>3. m.sock \in Sockets /\ m.n \in Nat
        BY <2>1 DEF WsEvents
    <2>4. Append(wsHeard[m.sock], m.n) \in Seq(Nat)
        BY <1>0, <2>3
    <2>5. wsHeard' \in [Sockets -> Seq(Nat)]
        BY <1>0, <2>2, <2>4
    <2> QED
        BY <1>0, <2>1, <2>2, <2>5
<1>6. CASE WsDrainEnds
    <2>1. wsDrains' \in Seq(Seq(WsEvents))
        BY <1>0, <1>6, DrainEndsKeeps
    <2> QED
        BY <1>0, <1>6, <2>1 DEF WsDrainEnds
<1>7. CASE WsShutdown
    BY <1>0, <1>7 DEF WsShutdown
<1>8. CASE WsShutdownEnds
    BY <1>0, <1>8 DEF WsShutdownEnds
<1>9. CASE UNCHANGED WsShared
    BY <1>0, <1>9 DEF WsShared
<1> QED
    BY <1>1, <1>2, <1>3, <1>4, <1>5, <1>6, <1>7, <1>8, <1>9, WsNextMoves DEF WsMoves

\* whose events are in a queue,
LEMMA WsOwnStep ==
    ASSUME WsInv, [WsNext]_wsVars
    PROVE  WsOwnInv'
<1>0. WsTypeOK /\ WsDataType /\ WsControlInv /\ WsOwnInv
    BY DEF WsInv
<1> SUFFICES ASSUME NEW s \in Sockets, NEW t \in Sockets, s # t
             PROVE  WsCount(wsQueue'[t], s) = 0 /\ WsSet(wsQueue'[t], s) = {}
    BY DEF WsOwnInv, WsCount, WsSet, WsNumbers
<1>1. WsCount(wsQueue[t], s) = 0 /\ WsSet(wsQueue[t], s) = {}
    BY <1>0 DEF WsOwnInv
<1>2. WsCount(<<>>, s) = 0 /\ WsSet(<<>>, s) = {}
    BY WsCountNone
<1>3. ASSUME NEW u \in Sockets, WsTell(u)
      PROVE  WsCount(wsQueue'[t], s) = 0 /\ WsSet(wsQueue'[t], s) = {}
    <2> DEFINE e == [sock |-> u, n |-> wsTold[u] + 1]
    <2>1. CASE u \in wsInstances /\ u = t
        <3>1. e \in WsEvents /\ e.sock # s /\ wsQueue[t] \in Seq(WsEvents)
            <4>1. wsTold[u] + 1 \in Nat \ {0} /\ wsQueue[t] \in Seq(WsEvents)
                BY <1>0 DEF WsDataType
            <4> QED
                BY <2>1, <4>1 DEF WsEvents
        <3>2. wsQueue'[t] = Append(wsQueue[t], e)
            BY <1>0, <1>3, <2>1 DEF WsTell, WsDataType
        <3> HIDE DEF e
        <3>3. WsCount(Append(wsQueue[t], e), s)
              = WsCount(wsQueue[t], s) + (IF e.sock = s THEN 1 ELSE 0)
              /\ WsSet(Append(wsQueue[t], e), s)
              = WsSet(wsQueue[t], s) \cup (IF e.sock = s THEN {e.n} ELSE {})
            BY <3>1, WsCountAppend
        <3> QED
            BY <1>1, <3>1, <3>2, <3>3
    <2>2. CASE ~(u \in wsInstances /\ u = t)
        <3>1. wsQueue'[t] = wsQueue[t]
            BY <1>0, <1>3, <2>2 DEF WsTell, WsDataType
        <3> QED
            BY <1>1, <3>1
    <2> QED
        BY <2>1, <2>2
<1>4. ASSUME wsQueue'[t] = wsQueue[t] \/ wsQueue'[t] = <<>>
      PROVE  WsCount(wsQueue'[t], s) = 0 /\ WsSet(wsQueue'[t], s) = {}
    BY <1>1, <1>2, <1>4
<1>5. CASE WsMoves /\ ~\E u \in Sockets : WsTell(u)
    <2>1. wsQueue'[t] = wsQueue[t] \/ wsQueue'[t] = <<>>
        BY <1>0, <1>5 DEF WsMoves, WsCreate, WsJoin, WsDrain, WsDeliver, WsDrainEnds,
           WsShutdown, WsShutdownEnds, WsDataType
    <2> QED
        BY <1>4, <2>1
<1>6. CASE UNCHANGED WsShared
    BY <1>4, <1>6 DEF WsShared
<1> QED
    BY <1>3, <1>5, <1>6, WsNextMoves

\* The message callback puts one event more into the queue, with the next number.
LEMMA WsTellPuts ==
    ASSUME WsInv, NEW u \in Sockets, WsTell(u), NEW s \in Sockets
    PROVE  IF u \in wsInstances /\ u = s
           THEN /\ wsTold'[s] = wsTold[s] + 1
                /\ WsCount(wsQueue'[s], s) = WsCount(wsQueue[s], s) + 1
                /\ WsSet(wsQueue'[s], s) = WsSet(wsQueue[s], s) \cup {wsTold[s] + 1}
           ELSE wsTold'[s] = wsTold[s] /\ wsQueue'[s] = wsQueue[s]
<1>0. WsDataType
    BY DEF WsInv
<1>1. CASE u \in wsInstances /\ u = s
    <2> DEFINE e == [sock |-> s, n |-> wsTold[s] + 1]
    <2>1. wsQueue'[s] = Append(wsQueue[s], e) /\ wsTold'[s] = wsTold[s] + 1
        BY <1>0, <1>1 DEF WsTell, WsDataType
    <2>2. wsTold[s] + 1 \in Nat \ {0} /\ wsQueue[s] \in Seq(WsEvents)
        BY <1>0 DEF WsDataType
    <2>3. e \in WsEvents /\ e.sock = s /\ e.n = wsTold[s] + 1
        BY <2>2 DEF WsEvents
    <2> HIDE DEF e
    <2>4. WsCount(Append(wsQueue[s], e), s)
          = WsCount(wsQueue[s], s) + (IF e.sock = s THEN 1 ELSE 0)
          /\ WsSet(Append(wsQueue[s], e), s)
          = WsSet(wsQueue[s], s) \cup (IF e.sock = s THEN {e.n} ELSE {})
        BY <2>2, <2>3, WsCountAppend
    <2> QED
        BY <1>1, <2>1, <2>3, <2>4
<1>2. CASE ~(u \in wsInstances /\ u = s)
    BY <1>0, <1>2 DEF WsTell, WsDataType
<1> QED
    BY <1>1, <1>2

\* sockets still to come,
LEMMA WsFreshStep ==
    ASSUME WsInv, [WsNext]_wsVars
    PROVE  WsFreshInv'
<1>0. WsTypeOK /\ WsDataType /\ WsControlInv /\ WsOwnInv /\ WsFreshInv
    BY DEF WsInv
<1>a. wsNextId \in Nat /\ wsNextId' \in Nat /\ wsNextId <= wsNextId'
    <2>1. wsNextId \in Nat
        BY <1>0, WsBoundsAssumption DEF WsTypeOK
    <2>2. wsNextId' = wsNextId \/ wsNextId' = wsNextId + 1
        BY WsNextMoves DEF WsMoves, WsShared, WsTell, WsCreate, WsJoin, WsDrain, WsDeliver,
           WsDrainEnds, WsShutdown, WsShutdownEnds
    <2> QED
        BY <2>1, <2>2
<1> DEFINE Fresh(s) ==
               /\ s \notin wsInstances
               /\ wsTold[s] = 0 /\ wsHeard[s] = <<>>
               /\ WsCount(wsQueue[s], s) = 0 /\ WsSet(wsQueue[s], s) = {}
               /\ WsCount(FlattenSeq(wsDrains), s) = 0 /\ WsSet(FlattenSeq(wsDrains), s) = {}
<1>b. ASSUME \A s \in Sockets : s >= wsNextId' => Fresh(s)' PROVE WsFreshInv'
    BY <1>b DEF WsFreshInv
<1> SUFFICES ASSUME NEW s \in Sockets, s >= wsNextId' PROVE Fresh(s)'
    BY <1>b
<1>1. s >= wsNextId
    BY <1>a DEF Sockets
<1>2. Fresh(s)
    BY <1>0, <1>1 DEF WsFreshInv
<1>3. WsCount(<<>>, s) = 0 /\ WsSet(<<>>, s) = {}
    BY WsCountNone
<1>4. ASSUME NEW u \in Sockets, WsTell(u) PROVE Fresh(s)'
    <2>1. wsTold'[s] = wsTold[s] /\ wsQueue'[s] = wsQueue[s]
        BY <1>2, <1>4, WsTellPuts
    <2>2. UNCHANGED <<wsInstances, wsDrains, wsHeard>>
        BY <1>4 DEF WsTell
    <2> QED
        BY <1>2, <2>1, <2>2 DEF WsCount, WsSet, WsNumbers
<1>5. CASE WsCreate
    <2>1. wsInstances' = wsInstances \cup {wsNextId} /\ wsNextId' = wsNextId + 1
          /\ UNCHANGED <<wsDrains, wsQueue, wsTold, wsHeard>>
        BY <1>5 DEF WsCreate
    <2>2. s # wsNextId
        BY <1>a, <2>1 DEF Sockets
    <2> QED
        BY <1>2, <2>1, <2>2
<1>6. CASE WsJoin
    <2>1. /\ wsInstances' \subseteq wsInstances /\ UNCHANGED <<wsDrains, wsTold, wsHeard>>
          /\ wsQueue'[s] = wsQueue[s] \/ wsQueue'[s] = <<>>
        BY <1>0, <1>6 DEF WsJoin, WsDataType
    <2> QED
        BY <1>2, <1>3, <2>1
<1>7. CASE WsDrain
    <2>1. /\ WsCount(FlattenSeq(wsDrains'), s)
             = WsCount(FlattenSeq(wsDrains), s)
               + (IF s \in wsInstances THEN WsCount(wsQueue[s], s) ELSE 0)
          /\ WsSet(FlattenSeq(wsDrains'), s)
             = WsSet(FlattenSeq(wsDrains), s)
               \cup (IF s \in wsInstances THEN WsSet(wsQueue[s], s) ELSE {})
        BY <1>0, <1>7, DrainTakes
    <2>2. wsQueue'[s] = <<>> /\ UNCHANGED <<wsInstances, wsTold, wsHeard>>
        BY <1>7 DEF WsDrain
    <2> QED
        BY <1>2, <1>3, <2>1, <2>2
<1>8. CASE WsDeliver
    <2> DEFINE m == Head(Last(wsDrains))
    <2>1. /\ m \in WsEvents
          /\ WsCount(FlattenSeq(wsDrains'), s) \in Nat
          /\ WsCount(FlattenSeq(wsDrains), s)
             = WsCount(FlattenSeq(wsDrains'), s) + (IF m.sock = s THEN 1 ELSE 0)
          /\ WsSet(FlattenSeq(wsDrains), s)
             = WsSet(FlattenSeq(wsDrains'), s) \cup (IF m.sock = s THEN {m.n} ELSE {})
        BY <1>0, <1>8, DeliverTakes
    <2>2. UNCHANGED <<wsInstances, wsQueue, wsTold>> /\ wsHeard'[s] = wsHeard[s]
        BY <1>0, <1>2, <1>8 DEF WsDeliver, WsDataType
    <2> HIDE DEF m
    <2>3. WsCount(FlattenSeq(wsDrains'), s) = 0
        BY <1>2, <2>1
    <2>4. WsSet(FlattenSeq(wsDrains'), s) = {}
        BY <1>2, <2>1
    <2> QED
        BY <1>2, <2>2, <2>3, <2>4
<1>9. CASE WsDrainEnds
    <2>1. WsCount(FlattenSeq(wsDrains'), s) = WsCount(FlattenSeq(wsDrains), s)
          /\ WsSet(FlattenSeq(wsDrains'), s) = WsSet(FlattenSeq(wsDrains), s)
        BY <1>0, <1>9, DrainEndsKeeps
    <2>2. UNCHANGED <<wsInstances, wsQueue, wsTold, wsHeard>>
        BY <1>9 DEF WsDrainEnds
    <2> QED
        BY <1>2, <2>1, <2>2
<1>10. CASE WsShutdown
    BY <1>2, <1>10 DEF WsShutdown
<1>11. CASE WsShutdownEnds
    BY <1>2, <1>3, <1>11 DEF WsShutdownEnds
<1>12. CASE UNCHANGED WsShared
    BY <1>2, <1>12 DEF WsShared
<1> QED
    BY <1>4, <1>5, <1>6, <1>7, <1>8, <1>9, <1>10, <1>11, <1>12, WsNextMoves DEF WsMoves

\* the sum of the places,
LEMMA WsAccountStep ==
    ASSUME WsInv, [WsNext]_wsVars
    PROVE  WsAccountInv'
<1>0. WsTypeOK /\ WsDataType /\ WsControlInv /\ WsOwnInv /\ WsFreshInv /\ WsAccountInv
    BY DEF WsInv
<1> DEFINE Drained(s) == WsCount(FlattenSeq(wsDrains), s)
           Queued(s)  == WsCount(wsQueue[s], s)
           DrainedSet(s) == WsSet(FlattenSeq(wsDrains), s)
           QueuedSet(s)  == WsSet(wsQueue[s], s)
           Account(s) ==
               /\ Len(wsHeard[s]) + Drained(s) + Queued(s) = wsTold[s]
               /\ Range(wsHeard[s]) \cup DrainedSet(s) \cup QueuedSet(s) = 1..wsTold[s]
<1>a. ASSUME \A s \in wsInstances' : Account(s)' PROVE WsAccountInv'
    BY <1>a DEF WsAccountInv
<1> SUFFICES ASSUME NEW s \in wsInstances' PROVE Account(s)'
    BY <1>a
<1>b. wsNextId \in Sockets => wsNextId \in Nat
    BY DEF Sockets
<1>1. CASE WsCreate /\ s = wsNextId
    <2>1. s \in Sockets
        BY <1>0, <1>1, WsBoundsAssumption DEF WsCreate, WsTypeOK, Sockets
    <2>2. /\ wsTold[s] = 0 /\ wsHeard[s] = <<>> /\ Queued(s) = 0 /\ QueuedSet(s) = {}
          /\ Drained(s) = 0 /\ DrainedSet(s) = {}
        BY <1>0, <1>1, <1>b, <2>1 DEF WsFreshInv
    <2>3. UNCHANGED <<wsDrains, wsQueue, wsTold, wsHeard>>
        BY <1>1 DEF WsCreate
    <2>4. Len(<<>>) = 0 /\ Range(<<>>) = {} /\ 1..0 = {}
        BY RangeSmall
    <2> HIDE DEF Queued, QueuedSet, Drained, DrainedSet
    <2>5. Account(s)
        BY <2>2, <2>4
    <2> QED
        BY <2>3, <2>5 DEF Queued, QueuedSet, Drained, DrainedSet
<1>2. CASE ~(WsCreate /\ s = wsNextId)
    <2>1. s \in wsInstances /\ s \in Sockets
        <3>1. s \in wsInstances
            <4>1. CASE WsCreate
                BY <1>2, <4>1 DEF WsCreate
            <4>2. CASE WsJoin
                BY <4>2 DEF WsJoin
            <4>3. CASE (WsMoves /\ ~WsCreate /\ ~WsJoin) \/ UNCHANGED WsShared
                BY <4>3 DEF WsMoves, WsShared, WsTell, WsDrain, WsDeliver, WsDrainEnds,
                   WsShutdown, WsShutdownEnds
            <4> QED
                BY <4>1, <4>2, <4>3, WsNextMoves
        <3> QED
            BY <1>0, <3>1 DEF WsTypeOK
    <2>2. Account(s)
        BY <1>0, <2>1 DEF WsAccountInv
    <2>3. /\ wsTold[s] \in Nat /\ wsHeard[s] \in Seq(Nat) /\ wsQueue[s] \in Seq(WsEvents)
          /\ Len(wsHeard[s]) \in Nat
        BY <1>0, <2>1 DEF WsDataType
    <2>4. FlattenSeq(wsDrains) \in Seq(WsEvents)
        BY <1>0, FlattenType DEF WsDataType
    <2>5. Drained(s) \in Nat /\ Queued(s) \in Nat
        BY <2>3, <2>4, WsCountType
    <2>6. ASSUME NEW u \in Sockets, WsTell(u) PROVE Account(s)'
        <3>0. UNCHANGED <<wsDrains, wsHeard>>
            BY <2>6 DEF WsTell
        <3>1. CASE u = s
            <4>1. /\ wsTold'[s] = wsTold[s] + 1
                  /\ Queued(s)' = Queued(s) + 1
                  /\ QueuedSet(s)' = QueuedSet(s) \cup {wsTold[s] + 1}
                BY <2>1, <2>6, <3>1, WsTellPuts DEF WsCount, WsSet, WsNumbers
            <4>2. Drained(s)' = Drained(s) /\ DrainedSet(s)' = DrainedSet(s)
                BY <3>0
            <4>3. 1..wsTold[s] \cup {wsTold[s] + 1} = 1..(wsTold[s] + 1)
                BY <2>3
            <4> HIDE DEF Queued, QueuedSet, Drained, DrainedSet
            <4>4. Len(wsHeard'[s]) + Drained(s)' + Queued(s)' = wsTold'[s]
                BY <2>2, <2>3, <2>5, <3>0, <4>1, <4>2
            <4>5. Range(wsHeard'[s]) \cup DrainedSet(s)' \cup QueuedSet(s)' = 1..wsTold'[s]
                BY <2>2, <3>0, <4>1, <4>2, <4>3
            <4> QED
                BY <4>4, <4>5
        <3>2. CASE u # s
            <4>1. wsTold'[s] = wsTold[s] /\ wsQueue'[s] = wsQueue[s]
                BY <2>1, <2>6, <3>2, WsTellPuts
            <4> QED
                BY <2>2, <3>0, <4>1
        <3> QED
            BY <3>1, <3>2
    <2>7. CASE WsCreate
        BY <2>2, <2>7 DEF WsCreate
    <2>8. CASE WsJoin
        <3>1. wsQueue'[s] = wsQueue[s] /\ UNCHANGED <<wsDrains, wsTold, wsHeard>>
            BY <1>0, <2>1, <2>8 DEF WsJoin, WsControlInv, WsDataType
        <3> QED
            BY <2>2, <3>1
    <2>9. CASE WsDrain
        <3>1. /\ Drained(s)' = Drained(s) + Queued(s)
              /\ DrainedSet(s)' = DrainedSet(s) \cup QueuedSet(s)
            BY <1>0, <2>1, <2>9, DrainTakes
        <3>2. wsQueue'[s] = <<>> /\ UNCHANGED <<wsTold, wsHeard>>
            BY <2>1, <2>9 DEF WsDrain
        <3>3. Queued(s)' = 0 /\ QueuedSet(s)' = {}
            BY <3>2, WsCountNone
        <3> HIDE DEF Queued, QueuedSet, Drained, DrainedSet
        <3>4. Len(wsHeard'[s]) + Drained(s)' + Queued(s)' = wsTold'[s]
            BY <2>2, <2>3, <2>5, <3>1, <3>2, <3>3
        <3>5. Range(wsHeard'[s]) \cup DrainedSet(s)' \cup QueuedSet(s)' = 1..wsTold'[s]
            BY <2>2, <3>1, <3>2, <3>3
        <3> QED
            BY <3>4, <3>5
    <2>10. CASE WsDeliver
        <3> DEFINE m == Head(Last(wsDrains))
        <3>1. /\ m \in WsEvents
              /\ Drained(s)' \in Nat
              /\ Drained(s) = Drained(s)' + (IF m.sock = s THEN 1 ELSE 0)
              /\ DrainedSet(s) = DrainedSet(s)' \cup (IF m.sock = s THEN {m.n} ELSE {})
            BY <1>0, <2>10, DeliverTakes
        <3>2. UNCHANGED <<wsQueue, wsTold>>
              /\ wsHeard'[s] = IF m.sock = s THEN Append(wsHeard[s], m.n) ELSE wsHeard[s]
            BY <1>0, <2>1, <2>10 DEF WsDeliver, WsDataType
        <3>3. Queued(s)' = Queued(s) /\ QueuedSet(s)' = QueuedSet(s)
            BY <3>2
        <3> HIDE DEF m, Queued, QueuedSet, Drained, DrainedSet
        <3>4. CASE m.sock = s
            <4>1. m.n \in Nat
                BY <3>1 DEF WsEvents
            <4>2. Len(wsHeard'[s]) = Len(wsHeard[s]) + 1
                  /\ Range(wsHeard'[s]) = Range(wsHeard[s]) \cup {m.n}
                BY <2>3, <3>2, <3>4, <4>1, RangeAppend
            <4>3. Len(wsHeard'[s]) + Drained(s)' + Queued(s)' = wsTold'[s]
                <5>1. Drained(s) = Drained(s)' + 1 /\ Drained(s)' \in Nat
                    BY <3>1, <3>4
                <5>2. Len(wsHeard[s]) + Drained(s) + Queued(s) = wsTold[s]
                    BY <2>2
                <5>3. wsTold'[s] = wsTold[s]
                    BY <3>2
                <5> QED
                    <6>1. \A l, d, q \in Nat : (l + 1) + d + q = l + (d + 1) + q
                        OBVIOUS
                    <6>2. (Len(wsHeard[s]) + 1) + Drained(s)' + Queued(s)
                          = Len(wsHeard[s]) + (Drained(s)' + 1) + Queued(s)
                        BY <2>3, <2>5, <5>1, <6>1
                    <6> QED
                        BY Zenon, <3>3, <4>2, <5>1, <5>2, <5>3, <6>2
            <4>4. Range(wsHeard'[s]) \cup DrainedSet(s)' \cup QueuedSet(s)' = 1..wsTold'[s]
                BY <2>2, <3>1, <3>2, <3>3, <3>4, <4>2
            <4> QED
                BY <4>3, <4>4
        <3>5. CASE m.sock # s
            BY <2>2, <3>1, <3>2, <3>3, <3>5
        <3> QED
            BY <3>4, <3>5
    <2>11. CASE WsDrainEnds
        <3>1. Drained(s)' = Drained(s) /\ DrainedSet(s)' = DrainedSet(s)
            BY <1>0, <2>11, DrainEndsKeeps
        <3>2. UNCHANGED <<wsQueue, wsTold, wsHeard>>
            BY <2>11 DEF WsDrainEnds
        <3> QED
            BY <2>2, <3>1, <3>2
    <2>12. CASE WsShutdown
        BY <2>12 DEF WsShutdown
    <2>13. CASE WsShutdownEnds
        BY <1>0, <2>1, <2>13 DEF WsShutdownEnds, WsControlInv
    <2>14. CASE UNCHANGED WsShared
        BY <2>2, <2>14 DEF WsShared
    <2> QED
        BY <2>6, <2>7, <2>8, <2>9, <2>10, <2>11, <2>12, <2>13, <2>14, WsNextMoves DEF WsMoves
<1> QED
    BY <1>1, <1>2

\* where the script thread is,
LEMMA WsControlStep ==
    ASSUME WsInv, [WsNext]_wsVars
    PROVE  WsControlInv'
<1> USE DEF WsControlInv
<1>0. WsTypeOK /\ WsDataType /\ WsControlInv /\ WsOwnInv
    BY DEF WsInv
<1>1. ASSUME NEW s \in Sockets, WsThreadSteps(s) \/ WsReadMessage(s) \/ WsServerLeaves(s)
      PROVE  WsControlInv'
    BY <1>0, <1>1 DEF WsThreadSteps, WsCheck, WsDialSucceeds, WsDialFails, WsReadClose,
       WsReadLost, WsClosingEnds, WsPollReturns, WsReadMessage, WsServerLeaves, WsTell, wsApi
<1>2. CASE WsCreate
    BY <1>0, <1>2 DEF WsCreate, WsInScript, WsTypeOK
<1>3. CASE WsDrain
    <2>1. wsDrains' # <<>>
        <3>1. PICK s \in Sockets : TRUE
            BY <1>0, <1>3 DEF WsDrain, WsTypeOK
        <3> QED
            BY <1>0, <1>3, DrainTakes
    <2> QED
        BY <1>0, <1>3, <2>1 DEF WsDrain, WsAt
<1>4. CASE WsCallbackReturns
    BY <1>0, <1>4 DEF WsCallbackReturns, WsInCallback, wsApi, WsAt
<1>5. CASE WsShutdown
    BY <1>0, <1>5 DEF WsShutdown, WsAt
<1>6. ASSUME NEW s \in Sockets,
             \/ WsStart(s)
             \/ \E enable \in BOOLEAN : WsSetAutoReconnect(s, enable)
             \/ WsSendFails(s)
             \/ \E op \in {"close", "stop", "destroy"} : WsBegin(s, op)
      PROVE  WsControlInv'
    BY <1>0, <1>6 DEF WsStart, WsSetAutoReconnect, WsSendFails, WsBegin, WsInScript, wsApi
<1>7. CASE WsClose \/ WsCloseWakes
    <2>1. wsJs.pc \in {"close", "closed"} /\ UNCHANGED <<wsDrains, wsInstances>>
          /\ (WsClosed \/ wsJs' = [wsJs EXCEPT !.pc = "closed"])
        BY <1>7 DEF WsClose, WsCloseWakes, wsApi
    <2>2. wsJs \in WsJsType
        BY <1>0 DEF WsTypeOK, WsJsType
    <2>3. CASE wsJs' = [wsJs EXCEPT !.pc = "closed"]
        BY <1>0, <2>1, <2>2, <2>3 DEF WsJsType
    <2>4. CASE WsClosed /\ wsJs.op = "close"
        BY <2>1, <2>4 DEF WsClosed, WsAt
    <2>5. CASE WsClosed /\ wsJs.op = "destroy"
        <3>1. wsJs' = [wsJs EXCEPT !.pc = "close", !.op = "erase"]
            BY <2>5 DEF WsClosed
        <3> QED
            BY <1>0, <2>1, <2>2, <3>1 DEF WsJsType
    <2>6. CASE WsClosed /\ wsJs.op \notin {"close", "destroy"}
        <3>1. wsJs' = [wsJs EXCEPT !.pc = "halt"]
            BY <2>6 DEF WsClosed
        <3> QED
            BY <1>0, <2>1, <2>2, <2>6, <3>1 DEF WsJsType
    <2> QED
        BY <2>1, <2>3, <2>4, <2>5, <2>6
<1>8. CASE WsHalt
    BY <1>0, <1>8 DEF WsHalt, wsApi, WsTypeOK
<1>9. CASE WsJoin
    <2>1. wsJs'.op = "none" /\ wsJs'.pc \in {"ending", "script"}
          /\ (wsJs'.pc = "ending" => wsJs.op = "end") /\ wsInstances' \subseteq wsInstances
        BY <1>9 DEF WsJoin, WsAt
    <2> QED
        BY <1>0, <2>1
<1>10. CASE WsDeliver
    <2>1. wsDrains' # <<>>
        <3>1. Len(wsDrains') = Len(wsDrains) /\ wsDrains' \in Seq(Seq(WsEvents))
            BY <1>0, <1>10, DeliverTakes
        <3>2. wsDrains # <<>> /\ wsDrains \in Seq(Seq(WsEvents))
            BY <1>0, <1>10 DEF WsDeliver, WsDataType
        <3> QED
            BY <3>1, <3>2, EmptySeq
    <2>2. UNCHANGED wsInstances /\ (wsJs' = wsJs \/ wsJs' = WsAt("script"))
        BY <1>10 DEF WsDeliver
    <2> QED
        BY <1>0, <2>1, <2>2 DEF WsAt
<1>11. CASE WsDrainEnds
    BY <1>0, <1>11 DEF WsDrainEnds, WsAt
<1>12. ASSUME NEW s \in Sockets, WsShutdownStops(s) PROVE WsControlInv'
    BY <1>0, <1>12 DEF WsShutdownStops, wsApi
<1>13. CASE WsShutdownEnds
    BY <1>0, <1>13 DEF WsShutdownEnds, WsAt
<1>14. CASE UNCHANGED wsVars
    BY <1>0, <1>14 DEF wsVars
<1> QED
    BY <1>1, <1>2, <1>3, <1>4, <1>5, <1>6, <1>7, <1>8, <1>9, <1>10, <1>11, <1>12, <1>13, <1>14
       DEF WsNext, WsScriptSteps, WsHostSteps

\* The places without a socket.
LEMMA WsAtType ==
    \A pc \in {"script", "drain", "ending", "over"} : WsAt(pc) \in WsJsType
    BY WsBoundsAssumption DEF WsAt, WsJsType

\* and that it goes nowhere else.
LEMMA WsJsStep ==
    ASSUME WsInv, [WsNext]_wsVars
    PROVE  wsJs' \in WsJsType
<1>0. wsJs \in WsJsType
    BY DEF WsInv, WsTypeOK, WsJsType
<1>1. ASSUME NEW s \in Sockets, WsThreadSteps(s) \/ WsReadMessage(s) \/ WsServerLeaves(s)
      PROVE  wsJs' \in WsJsType
    <2>1. wsJs' = wsJs
        BY <1>1 DEF WsThreadSteps, WsCheck, WsDialSucceeds, WsDialFails, WsReadClose,
           WsReadLost, WsClosingEnds, WsPollReturns, WsReadMessage, WsServerLeaves, WsTell
    <2> QED
        BY <1>0, <2>1
<1>2. CASE WsCreate \/ WsDrain \/ WsCallbackReturns \/ WsShutdown \/ WsJoin \/ WsDeliver
           \/ WsDrainEnds \/ WsShutdownEnds
    <2>1. wsJs' = wsJs \/ \E pc \in {"script", "drain", "ending", "over"} : wsJs' = WsAt(pc)
        BY <1>2, Zenon DEF WsCreate, WsDrain, WsCallbackReturns, WsShutdown, WsJoin, WsDeliver,
           WsDrainEnds, WsShutdownEnds
    <2> QED
        BY <1>0, <2>1, WsAtType
<1>3. ASSUME NEW s \in Sockets,
             \/ WsStart(s)
             \/ \E enable \in BOOLEAN : WsSetAutoReconnect(s, enable)
             \/ WsSendFails(s)
             \/ \E op \in {"close", "stop", "destroy"} : WsBegin(s, op)
             \/ WsShutdownStops(s)
      PROVE  wsJs' \in WsJsType
    <2>1. s \in 0..WsMaxSockets
        BY WsBoundsAssumption DEF Sockets
    <2>2. \/ wsJs' = wsJs
          \/ \E pc \in {"close", "relock"}, op \in {"close", "stop", "destroy", "send", "end"} :
                wsJs' = [pc |-> pc, op |-> op, sock |-> s]
        BY <1>3 DEF WsStart, WsSetAutoReconnect, WsSendFails, WsBegin, WsShutdownStops
    <2> QED
        BY <1>0, <2>1, <2>2 DEF WsJsType
<1>4. CASE WsClose \/ WsCloseWakes \/ WsHalt
    <2>1. \/ wsJs' = WsAt("script")
          \/ wsJs' = [wsJs EXCEPT !.pc = "close", !.op = "erase"]
          \/ \E pc \in {"closed", "halt", "join"} : wsJs' = [wsJs EXCEPT !.pc = pc]
        <3>1. WsClosed => \/ wsJs' = WsAt("script")
                          \/ wsJs' = [wsJs EXCEPT !.pc = "close", !.op = "erase"]
                          \/ wsJs' = [wsJs EXCEPT !.pc = "halt"]
            BY DEF WsClosed
        <3> QED
            BY <1>4, <3>1 DEF WsClose, WsCloseWakes, WsHalt
    <2>2. CASE wsJs' = WsAt("script")
        BY <2>2, WsAtType
    <2>3. CASE wsJs' # WsAt("script")
        BY <1>0, <2>1, <2>3 DEF WsJsType
    <2> QED
        BY <2>2, <2>3
<1>5. CASE UNCHANGED wsVars
    BY <1>0, <1>5 DEF wsVars
<1> QED
    BY <1>1, <1>2, <1>3, <1>4, <1>5 DEF WsNext, WsScriptSteps, WsHostSteps

\* The type invariant.
LEMMA WsTypeStep ==
    ASSUME WsInv, [WsNext]_wsVars
    PROVE  WsTypeOK'
<1>0. WsTypeOK /\ WsDataType /\ WsControlInv /\ WsOwnInv
    BY DEF WsInv
<1>b. WsTypeOK <=> /\ wsJs \in WsJsType
                   /\ wsInstances \in SUBSET Sockets
                   /\ wsAuto \in [Sockets -> BOOLEAN] /\ wsStop \in [Sockets -> BOOLEAN]
                   /\ wsReady \in [Sockets -> {"closed", "open", "closing"}]
                   /\ wsPeer \in [Sockets -> {"none", "up", "closing", "lost"}]
                   /\ wsFrames \in 0..WsMaxFrames
                   /\ wsNextId \in 1..(WsMaxSockets + 1)
                   /\ Len(wsDrains) <= WsMaxDepth
    BY DEF WsTypeOK, WsJsType
<1> DEFINE Rest == /\ wsInstances \in SUBSET Sockets
                   /\ wsAuto \in [Sockets -> BOOLEAN] /\ wsStop \in [Sockets -> BOOLEAN]
                   /\ wsReady \in [Sockets -> {"closed", "open", "closing"}]
                   /\ wsPeer \in [Sockets -> {"none", "up", "closing", "lost"}]
                   /\ wsFrames \in 0..WsMaxFrames
                   /\ wsNextId \in 1..(WsMaxSockets + 1)
                   /\ Len(wsDrains) <= WsMaxDepth
<1>c. Rest
    BY <1>0, <1>b
<1> SUFFICES Rest'
    BY WsJsStep DEF WsTypeOK, WsJsType
<1>1. ASSUME NEW s \in Sockets, WsThreadSteps(s) \/ WsServerLeaves(s), ~WsTell(s)
      PROVE  Rest'
    BY <1>c, <1>1 DEF WsThreadSteps, WsCheck, WsDialSucceeds, WsDialFails, WsReadClose,
       WsReadLost, WsClosingEnds, WsPollReturns, WsServerLeaves, wsApi, wsState, wsLink
<1>2. ASSUME NEW s \in Sockets, WsTell(s) PROVE Rest'
    <2>1. wsFrames' \in 0..WsMaxFrames
        <3>1. PICK another \in {0} \cup (IF /\ wsNet[s].event = "message"
                                            /\ wsFrames < WsMaxFrames THEN {1} ELSE {}) :
                  wsFrames' = wsFrames + another
            BY <1>2, Zenon DEF WsTell
        <3> QED
            BY <1>c, <3>1, WsBoundsAssumption
    <2>2. wsReady' \in [Sockets -> {"closed", "open", "closing"}]
        BY <1>c, <1>2 DEF WsTell
    <2>3. UNCHANGED <<wsDrains, wsInstances, wsAuto, wsNextId, wsStop, wsPeer>>
        BY <1>2 DEF WsTell
    <2> QED
        BY <1>c, <2>1, <2>2, <2>3
<1>3. ASSUME NEW s \in Sockets, WsReadMessage(s) PROVE Rest'
    BY <1>c, <1>3, WsBoundsAssumption DEF WsReadMessage, wsApi, wsState
<1>4. CASE WsCreate
    <2>1. wsNextId \in Sockets /\ wsNextId' \in 1..(WsMaxSockets + 1)
        BY <1>c, <1>4, WsBoundsAssumption DEF WsCreate, Sockets
    <2> QED
        BY <1>c, <1>4, <2>1 DEF WsCreate, wsState, wsLink
<1>5. CASE WsDrain
    <2>1. Len(wsDrains') = Len(wsDrains) + 1 /\ Len(wsDrains) \in Nat
        <3>1. PICK s \in Sockets : TRUE
            BY <1>c, <1>5 DEF WsDrain
        <3> QED
            BY <1>0, <1>5, DrainTakes, LenProperties DEF WsDataType
    <2>2. Len(wsDrains') <= WsMaxDepth
        BY <1>5, <2>1, WsBoundsAssumption DEF WsDrain
    <2> QED
        BY <1>c, <1>5, <2>2 DEF WsDrain, wsState, wsLink
<1>6. CASE WsCallbackReturns \/ WsShutdown
    BY <1>c, <1>6 DEF WsCallbackReturns, WsShutdown, wsApi, wsState, wsLink
<1>8. ASSUME NEW s \in Sockets,
             \/ WsStart(s)
             \/ \E enable \in BOOLEAN : WsSetAutoReconnect(s, enable)
             \/ WsSendFails(s)
             \/ \E op \in {"close", "stop", "destroy"} : WsBegin(s, op)
             \/ WsShutdownStops(s)
      PROVE  Rest'
    BY <1>c, <1>8 DEF WsStart, WsSetAutoReconnect, WsSendFails, WsBegin, WsShutdownStops, wsApi,
       wsState, wsLink
<1>9. CASE WsClose
    <2>1. wsReady' \in [Sockets -> {"closed", "open", "closing"}]
        BY <1>c, <1>9 DEF WsClose
    <2> QED
        BY <1>c, <1>9, <2>1 DEF WsClose, wsApi, wsLink
<1>10. CASE WsCloseWakes
    BY <1>c, <1>10 DEF WsCloseWakes, wsApi, wsState, wsLink
<1>11. CASE WsHalt
    BY <1>c, <1>11 DEF WsHalt, wsApi, wsLink
<1>12. CASE WsJoin
    BY <1>c, <1>12 DEF WsJoin, wsLink
<1>13. CASE WsDeliver
    <2>1. Len(wsDrains') = Len(wsDrains)
        BY <1>0, <1>13, DeliverTakes
    <2> QED
        BY <1>c, <1>13, <2>1 DEF WsDeliver, wsState, wsLink
<1>14. CASE WsDrainEnds
    <2>1. Len(wsDrains') = Len(wsDrains) - 1 /\ Len(wsDrains) \in Nat
        BY <1>0, <1>14, DrainEndsKeeps, LenProperties DEF WsDataType
    <2>2. Len(wsDrains') <= WsMaxDepth
        BY <1>c, <2>1, WsBoundsAssumption
    <2> QED
        BY <1>c, <1>14, <2>2 DEF WsDrainEnds, wsState, wsLink
<1>16. CASE WsShutdownEnds
    BY <1>c, <1>16 DEF WsShutdownEnds, wsState, wsLink
<1>17. CASE UNCHANGED wsVars
    BY <1>c, <1>17 DEF wsVars
<1>18. ASSUME NEW s \in Sockets, WsThreadSteps(s) PROVE Rest'
    BY <1>1, <1>2, <1>18
<1> HIDE DEF Rest
<1> QED
    BY <1>1, <1>2, <1>3, <1>4, <1>5, <1>6, <1>8, <1>9, <1>10, <1>11, <1>12, <1>13, <1>14,
       <1>16, <1>17, <1>18 DEF WsNext, WsScriptSteps, WsHostSteps, WsTell

\* The invariant holds in every state (all steps of the plugin).
THEOREM WsInvariance == WsSpec => []WsInv
<1>1. WsInv /\ [WsNext]_wsVars => WsInv'
    BY WsTypeStep, WsDataStep, WsControlStep, WsOwnStep, WsFreshStep, WsAccountStep DEF WsInv
<1> QED
    BY <1>1, WsInitInv, PTL DEF WsSpec

\* The variables have their types (the plugin and its library).
THEOREM WsTypeCorrect == WsSpec => []WsTypeOK
<1>1. WsInv => WsTypeOK
    BY DEF WsInv
<1> QED
    BY <1>1, WsInvariance, PTL

\* Every event the library reported of a socket that lives is heard, in the hands of a
\* drain() or queued, and only once (ws_drain, the message callback).
THEOREM EventsAccounted == WsSpec => []WsEventsAccounted
<1>1. WsInv => WsEventsAccounted
    BY WsAccounts DEF WsInv
<1> QED
    BY <1>1, WsInvariance, PTL

=============================================================================
