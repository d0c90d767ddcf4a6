------------------------ MODULE DbusService_proofs -------------------------
(***************************************************************************)
(* For any interfaces and any number of calls, connections and frames: a   *)
(* call is answered at most once, on its own connection, and not forgotten *)
(* (but for those completed from within the conversion of their reply, or  *)
(* held by the hook over a reconnect), and every open call belongs to an   *)
(* exported interface.                                                     *)
(***************************************************************************)
EXTENDS DbusService, SequenceTheorems, TLAPS

\* The hook's queue is its own, and nothing runs after shutdown.
HookInv ==
    /\ incoming # <<>> => stack # <<>> /\ stack[1].in = "update"
    /\ shuttingDown => stack = <<>>

\* A connect thread is started only without a connection, and connections are numbered.
LinkInv ==
    /\ dialling => connection = 0 /\ dials < MaxDials /\ ~shuttingDown
    /\ connection <= dials
    /\ \A c \in Made : calls[c].on <= dials

\* A reply() under conversion is for an open call, or for one that was completed from
\* within the conversion.
ReplyInv ==
    \A i \in 1..Len(stack) : stack[i].in = "reply" =>
        \/ stack[i].call \in invocations
        \/ stack[i].call \in undone /\ stack[i].call \in finished

\* A call is in one place: a queue, the map, or finished.
PlaceInv ==
    /\ Range(incoming) \cup Range(methods) \cup invocations \cup finished \subseteq Made
    /\ IsInjective(incoming) /\ IsInjective(methods)
    /\ Range(incoming) \cap Range(methods) = {}
    /\ (Range(incoming) \cup Range(methods)) \cap (invocations \cup finished) = {}
    /\ invocations \cap finished = {}

\* Nothing was answered before it was finished, and nothing twice.
OnceInv ==
    /\ \A c \in Calls \ finished : answers[c] = <<>>
    /\ \A c \in Calls \ undone : Len(answers[c]) <= 1

\* A call of the connection in use whose caller waits is somewhere.
WaitInv ==
    \A c \in Made :
        ~calls[c].noReply /\ calls[c].on = connection /\ answers[c] = <<>>
        => c \in Range(methods) \cup Range(incoming) \cup invocations

\* What is queued or open came in on the connection in use, unless the hook held it over
\* a reconnect.
HomeInv ==
    \A c \in Range(methods) \cup ((Range(incoming) \cup invocations) \ held) :
        calls[c].on = connection

\* Answers went where they belong.
RouteInv ==
    \A c \in Calls \ (held \cup undone) : \A i \in 1..Len(answers[c]) :
        c \in Made /\ answers[c][i].on = calls[c].on

IInv ==
    /\ TypeOK /\ OpenCallsAreExported
    /\ HookInv /\ LinkInv /\ ReplyInv /\ PlaceInv
    /\ OnceInv /\ WaitInv /\ HomeInv /\ RouteInv

\* The type invariant in parts: the flags, the frames, the answers, and the rest.
FlagType == connected \in BOOLEAN /\ dialling \in BOOLEAN /\ shuttingDown \in BOOLEAN

Frames == [in : {"update", "handler", "reply"}, call : Calls \cup {0}]

StackType == stack \in Seq(Frames)

Answers == [what : {"reply", "error", "failed", "unknown", "unknownObject"}, on : 1..MaxDials]

AnswerType == answers \in [Calls -> Seq(Answers)]

CallType ==
    /\ calls \in Seq([key : Keys, on : 1..MaxDials, noReply : BOOLEAN])
    /\ Len(calls) <= MaxCalls

PlaceType ==
    /\ incoming \in Seq(Calls) /\ methods \in Seq(Calls)
    /\ exports \subseteq Keys
    /\ invocations \subseteq Calls
    /\ finished \subseteq Calls /\ held \subseteq Calls /\ undone \subseteq Calls

BusType ==
    /\ connection \in 0..MaxDials /\ dials \in 0..MaxDials
    /\ connected => connection # 0 /\ ~dialling
    /\ shuttingDown => connection = 0 /\ exports = {} /\ invocations = {}

LEMMA TypeParts ==
    TypeOK <=> FlagType /\ StackType /\ AnswerType /\ CallType /\ PlaceType /\ BusType
BY Zenon DEF TypeOK, FlagType, StackType, Frames, AnswerType, Answers, CallType, PlaceType,
   BusType

-----------------------------------------------------------------------------
(* Sequences                                                               *)

\* What is left of the stack when its last frame returns.
LEMMA FrontProperties ==
    ASSUME NEW S, NEW s \in Seq(S), s # <<>>
    PROVE  /\ Front(s) \in Seq(S)
           /\ Len(Front(s)) = Len(s) - 1
           /\ \A i \in 1..(Len(s) - 1) : Front(s)[i] = s[i]
           /\ Last(s) = s[Len(s)] /\ Last(s) \in S /\ Len(s) \in Nat \ {0}
<1>1. Len(s) \in Nat \ {0} /\ \A i \in 1..Len(s) : s[i] \in S
    OBVIOUS
<1>2. Last(s) = s[Len(s)] /\ Last(s) \in S
    BY <1>1 DEF Last
<1>3. /\ SubSeq(s, 1, Len(s) - 1) \in Seq(S)
      /\ Len(SubSeq(s, 1, Len(s) - 1)) = IF 1 <= Len(s) - 1 THEN Len(s) - 1 - 1 + 1 ELSE 0
      /\ \A i \in 1..(Len(s) - 1 - 1 + 1) : SubSeq(s, 1, Len(s) - 1)[i] = s[1 + i - 1]
    <2>1. \A i \in 1..(Len(s) - 1) : s[i] \in S
        BY <1>1
    <2> QED
        BY ONLY <1>1, <2>1, SubSeqProperties, Len(s) - 1 \in Int, 1 \in Int
<1>4. /\ Len(SubSeq(s, 1, Len(s) - 1)) = Len(s) - 1
      /\ \A i \in 1..(Len(s) - 1) : SubSeq(s, 1, Len(s) - 1)[i] = s[i]
    <2> DEFINE f == SubSeq(s, 1, Len(s) - 1)
    <2>1. Len(f) = Len(s) - 1
        <3>1. CASE Len(s) = 1
            BY <1>1, <1>3, <3>1
        <3>2. CASE Len(s) > 1
            <4>1. 1 <= Len(s) - 1 /\ Len(f) = Len(s) - 1 - 1 + 1
                BY <1>1, <1>3, <3>2
            <4> QED
                BY <1>1, <4>1
        <3>3. Len(s) = 1 \/ Len(s) > 1
            <4>1. Len(s) \in Nat /\ Len(s) # 0
                BY <1>1
            <4>2. \A n \in Nat : n # 0 => n = 1 \/ n > 1
                OBVIOUS
            <4> QED
                BY ONLY <4>1, <4>2, Zenon
        <3> QED
            BY ONLY <3>1, <3>2, <3>3
    <2>2. \A i \in 1..(Len(s) - 1) : 1 + i - 1 = i /\ i \in 1..(Len(s) - 1 - 1 + 1)
        BY <1>1
    <2>3. \A i \in 1..(Len(s) - 1) : f[i] = s[i]
        <3> SUFFICES ASSUME NEW i \in 1..(Len(s) - 1) PROVE f[i] = s[i]
            OBVIOUS
        <3>1. f[i] = s[1 + i - 1]
            BY <1>3, <2>2
        <3> QED
            BY <2>2, <3>1
    <2> QED
        BY <2>1, <2>3
<1> QED
    BY <1>1, <1>2, <1>3, <1>4 DEF Front

\* The numbers of a queue without its head.
LEMMA TailRange ==
    ASSUME NEW S, NEW s \in Seq(S), s # <<>>, IsInjective(s)
    PROVE  /\ Head(s) \in S /\ Tail(s) \in Seq(S)
           /\ Range(s) = {Head(s)} \cup Range(Tail(s))
           /\ Head(s) \notin Range(Tail(s))
           /\ IsInjective(Tail(s))
<1>1. /\ Len(s) \in Nat \ {0} /\ DOMAIN s = 1..Len(s) /\ Head(s) = s[1] /\ s[1] \in S
      /\ Tail(s) \in Seq(S) /\ DOMAIN Tail(s) = 1..(Len(s) - 1)
      /\ \A i \in 1..(Len(s) - 1) : Tail(s)[i] = s[i + 1]
    OBVIOUS
<1>2. \A i, j \in 1..Len(s) : s[i] = s[j] => i = j
    BY <1>1 DEF IsInjective
<1>3. IsInjective(Tail(s))
    <2> SUFFICES ASSUME NEW i \in 1..(Len(s) - 1), NEW j \in 1..(Len(s) - 1),
                        Tail(s)[i] = Tail(s)[j]
                 PROVE  i = j
        BY <1>1 DEF IsInjective
    <2>1. i + 1 \in 1..Len(s) /\ j + 1 \in 1..Len(s) /\ s[i + 1] = s[j + 1]
        BY <1>1
    <2>2. i + 1 = j + 1
        BY <2>1, <1>2
    <2> QED
        BY <2>2
<1>4. Head(s) \notin Range(Tail(s))
    <2> SUFFICES ASSUME NEW i \in 1..(Len(s) - 1), Tail(s)[i] = s[1] PROVE FALSE
        BY <1>1 DEF Range
    <2>1. i + 1 \in 1..Len(s) /\ 1 \in 1..Len(s) /\ s[i + 1] = s[1]
        BY <1>1
    <2>2. i + 1 = 1
        BY <2>1, <1>2
    <2> QED
        BY <2>2
<1>5. Range(s) \subseteq {Head(s)} \cup Range(Tail(s))
    <2> SUFFICES ASSUME NEW i \in 1..Len(s), i # 1 PROVE s[i] \in Range(Tail(s))
        BY <1>1 DEF Range
    <2>1. i - 1 \in 1..(Len(s) - 1) /\ s[i] = Tail(s)[i - 1]
        BY <1>1
    <2> QED
        BY <1>1, <2>1 DEF Range
<1>6. {Head(s)} \cup Range(Tail(s)) \subseteq Range(s)
    <2>1. s[1] \in Range(s)
        BY <1>1 DEF Range
    <2>2. ASSUME NEW i \in 1..(Len(s) - 1) PROVE Tail(s)[i] \in Range(s)
        <3>1. i + 1 \in 1..Len(s) /\ Tail(s)[i] = s[i + 1]
            BY <1>1
        <3> QED
            BY <1>1, <3>1 DEF Range
    <2> QED
        BY <1>1, <2>1, <2>2 DEF Range
<1> QED
    BY <1>1, <1>3, <1>4, <1>5, <1>6

\* The numbers of a queue with one more.
LEMMA AppendRange ==
    ASSUME NEW S, NEW s \in Seq(S), NEW x \in S, x \notin Range(s), IsInjective(s)
    PROVE  /\ Append(s, x) \in Seq(S)
           /\ Range(Append(s, x)) = Range(s) \cup {x}
           /\ IsInjective(Append(s, x))
<1>1. /\ Len(s) \in Nat /\ DOMAIN s = 1..Len(s)
      /\ Append(s, x) \in Seq(S) /\ DOMAIN Append(s, x) = 1..(Len(s) + 1)
      /\ \A i \in 1..Len(s) : Append(s, x)[i] = s[i]
      /\ Append(s, x)[Len(s) + 1] = x
    OBVIOUS
<1>2. \A i \in 1..(Len(s) + 1) : i \in 1..Len(s) \/ i = Len(s) + 1
    BY <1>1
<1>3. Range(Append(s, x)) \subseteq Range(s) \cup {x}
    BY <1>1, <1>2 DEF Range
<1>4. Range(s) \cup {x} \subseteq Range(Append(s, x))
    <2>1. Len(s) + 1 \in 1..(Len(s) + 1) /\ 1..Len(s) \subseteq 1..(Len(s) + 1)
        BY <1>1
    <2> QED
        BY <1>1, <2>1 DEF Range
<1>5. IsInjective(Append(s, x))
    <2> SUFFICES ASSUME NEW i \in 1..(Len(s) + 1), NEW j \in 1..(Len(s) + 1),
                        Append(s, x)[i] = Append(s, x)[j]
                 PROVE  i = j
        BY <1>1 DEF IsInjective
    <2>1. CASE i \in 1..Len(s) /\ j \in 1..Len(s)
        BY <1>1, <2>1 DEF IsInjective
    <2>2. CASE i \in 1..Len(s) /\ j = Len(s) + 1
        BY <1>1, <2>2 DEF Range
    <2>3. CASE i = Len(s) + 1 /\ j \in 1..Len(s)
        BY <1>1, <2>3 DEF Range
    <2> QED
        BY <1>2, <2>1, <2>2, <2>3
<1> QED
    BY <1>1, <1>3, <1>4, <1>5

\* A position in the concatenation of lists of m and n elements lies in one of the two.
LEMMA SplitIndex ==
    ASSUME NEW m \in Nat, NEW n \in Nat, NEW i \in 1..(m + n)
    PROVE  i \in 1..m \/ (i \in (m + 1)..(m + n) /\ i - m \in 1..n)
<1>1. CASE i <= m
    BY <1>1
<1>2. CASE i > m
    <2>1. i \in (m + 1)..(m + n)
        BY <1>2
    <2>2. i - m \in 1..n
        BY <1>2
    <2> QED
        BY <2>1, <2>2
<1> QED
    BY <1>1, <1>2

\* The numbers of two queues in line.
LEMMA LineRange ==
    ASSUME NEW S, NEW s \in Seq(S), NEW t \in Seq(S), IsInjective(s), IsInjective(t),
           Range(s) \cap Range(t) = {}
    PROVE  IsInjective(s \o t) /\ Range(s \o t) = Range(s) \cup Range(t)
<1>1. /\ Len(s) \in Nat /\ DOMAIN s = 1..Len(s) /\ Len(t) \in Nat /\ DOMAIN t = 1..Len(t)
      /\ DOMAIN (s \o t) = 1..(Len(s) + Len(t))
      /\ \A i \in 1..Len(s) : (s \o t)[i] = s[i]
      /\ \A i \in (Len(s) + 1)..(Len(s) + Len(t)) : (s \o t)[i] = t[i - Len(s)]
    OBVIOUS
<1>2. ASSUME NEW i \in 1..(Len(s) + Len(t))
      PROVE  \/ i \in 1..Len(s)
             \/ /\ i \in (Len(s) + 1)..(Len(s) + Len(t))
                /\ i - Len(s) \in 1..Len(t)
    BY <1>1, SplitIndex
<1>3. \A i \in 1..(Len(s) + Len(t)) :
          \/ i \in 1..Len(s) /\ (s \o t)[i] = s[i] /\ (s \o t)[i] \in Range(s)
          \/ /\ i - Len(s) \in 1..Len(t) /\ (s \o t)[i] = t[i - Len(s)]
             /\ (s \o t)[i] \in Range(t)
    BY <1>1, <1>2 DEF Range
<1>4. IsInjective(s \o t)
    <2> SUFFICES ASSUME NEW i \in 1..(Len(s) + Len(t)), NEW j \in 1..(Len(s) + Len(t)),
                        (s \o t)[i] = (s \o t)[j]
                 PROVE  i = j
        BY <1>1 DEF IsInjective
    <2>1. CASE i \in 1..Len(s) /\ (s \o t)[i] = s[i] /\ (s \o t)[i] \in Range(s)
        <3>1. j \in 1..Len(s) /\ (s \o t)[j] = s[j]
            BY <1>3, <2>1
        <3> QED
            BY <1>1, <2>1, <3>1 DEF IsInjective
    <2>2. CASE i - Len(s) \in 1..Len(t) /\ (s \o t)[i] = t[i - Len(s)] /\ (s \o t)[i] \in Range(t)
        <3>1. j - Len(s) \in 1..Len(t) /\ (s \o t)[j] = t[j - Len(s)]
            BY <1>3, <2>2
        <3>2. i - Len(s) = j - Len(s)
            BY <1>1, <2>2, <3>1 DEF IsInjective
        <3> QED
            BY <1>1, <3>2
    <2> QED
        BY <1>3, <2>1, <2>2
<1>5. Range(s \o t) \subseteq Range(s) \cup Range(t)
    BY <1>1, <1>3 DEF Range
<1>6. Range(s) \subseteq Range(s \o t)
    <2>1. 1..Len(s) \subseteq 1..(Len(s) + Len(t))
        BY <1>1
    <2> QED
        BY <1>1, <2>1 DEF Range
<1>7. Range(t) \subseteq Range(s \o t)
    <2> SUFFICES ASSUME NEW i \in 1..Len(t) PROVE t[i] \in Range(s \o t)
        BY <1>1 DEF Range
    <2>1. /\ i + Len(s) \in (Len(s) + 1)..(Len(s) + Len(t)) /\ i + Len(s) - Len(s) = i
          /\ i + Len(s) \in 1..(Len(s) + Len(t))
        BY <1>1
    <2>2. (s \o t)[i + Len(s)] = t[i]
        BY <1>1, <2>1
    <2> QED
        BY <1>1, <2>1, <2>2 DEF Range
<1> QED
    BY <1>4, <1>5, <1>6, <1>7

\* An empty queue has no numbers.
LEMMA EmptyRange ==
    /\ Range(<<>>) = {} /\ IsInjective(<<>>)
BY DEF Range, IsInjective

\* A call came in on a connection.
LEMMA CallElement ==
    ASSUME CallType, NEW d \in Made
    PROVE  calls[d].on \in 1..MaxDials
<1>1. calls \in Seq([key : Keys, on : 1..MaxDials, noReply : BOOLEAN]) /\ d \in 1..Len(calls)
    BY DEF CallType, Made
<1>2. calls[d] \in [key : Keys, on : 1..MaxDials, noReply : BOOLEAN]
    BY ONLY <1>1, ElementOfSeq
<1> QED
    BY ONLY <1>2

\* What is sent is an answer.
LEMMA SentType ==
    ASSUME AnswerType, BusType, NEW c \in Calls, NEW what \in {"reply", "error", "failed", "unknown", "unknownObject"}
    PROVE  Sent(c, what) \in Seq(Answers)
<1>1. CASE calls[c].noReply \/ connection = 0
    BY <1>1 DEF Sent, AnswerType
<1>2. CASE ~(calls[c].noReply \/ connection = 0)
    <2>1. connection \in 1..MaxDials
        BY <1>2 DEF BusType
    <2>2. [what |-> what, on |-> connection] \in Answers
        BY <2>1 DEF Answers
    <2>3. Sent(c, what) = Append(answers[c], [what |-> what, on |-> connection])
        BY <1>2 DEF Sent
    <2> QED
        BY <2>2, <2>3 DEF AnswerType
<1> QED
    BY <1>1, <1>2

\* The first answer to a call: sent on the connection in use if there is one and the
\* caller wants it.
LEMMA SentProperties ==
    ASSUME AnswerType, BusType, NEW c \in Calls, answers[c] = <<>>,
           NEW what \in {"reply", "error", "failed", "unknown", "unknownObject"}
    PROVE  /\ Sent(c, what) \in Seq(Answers)
           /\ Len(Sent(c, what)) <= 1
           /\ \A i \in 1..Len(Sent(c, what)) : Sent(c, what)[i].on = connection
           /\ ~calls[c].noReply /\ connection # 0 => Sent(c, what) # <<>>
<1>1. CASE calls[c].noReply \/ connection = 0
    <2>1. Sent(c, what) = <<>>
        BY <1>1 DEF Sent
    <2> QED
        BY <1>1, <2>1
<1>2. CASE ~(calls[c].noReply \/ connection = 0)
    <2>1. Sent(c, what) = <<[what |-> what, on |-> connection]>>
        BY <1>2 DEF Sent
    <2>2. connection \in 1..MaxDials
        BY <1>2 DEF BusType
    <2>3. [what |-> what, on |-> connection] \in Answers
        BY <2>2 DEF Answers
    <2> QED
        BY <2>1, <2>3
<1> QED
    BY <1>1, <1>2

-----------------------------------------------------------------------------
(* Types                                                                   *)

LEMMA InitInv == Init => IInv
<1> SUFFICES ASSUME Init PROVE IInv
    OBVIOUS
<1> USE ServiceBoundsAssumption DEF Init
<1>1. TypeOK
    <2>1. FlagType
        BY DEF FlagType
    <2>3. BusType
        <3>1. ~connected /\ ~shuttingDown
            OBVIOUS
        <3>2. connection \in 0..MaxDials /\ dials \in 0..MaxDials
            OBVIOUS
        <3> QED
            BY <3>1, <3>2 DEF BusType
    <2>2. StackType /\ AnswerType /\ CallType /\ PlaceType
        BY DEF StackType, AnswerType, CallType, PlaceType
    <2> QED
        BY <2>1, <2>2, <2>3, TypeParts
<1>2. Made = {}
    BY DEF Made
<1>3. OpenCallsAreExported
    BY DEF OpenCallsAreExported
<1>4. HookInv /\ LinkInv /\ ReplyInv
    BY <1>2 DEF HookInv, LinkInv, ReplyInv
<1>5. PlaceInv
    BY <1>2, EmptyRange DEF PlaceInv
<1>6. OnceInv /\ WaitInv
    BY <1>2, EmptyRange DEF OnceInv, WaitInv
<1>7. HomeInv /\ RouteInv
    BY <1>2, EmptyRange DEF HomeInv, RouteInv
<1> QED
    BY <1>1, <1>3, <1>4, <1>5, <1>6, <1>7 DEF IInv

\* The flags.
LEMMA FlagStep ==
    ASSUME FlagType, [Next]_vars
    PROVE  FlagType'
<1> USE DEF service, bus, record, FlagType
<1>1. CASE Publish
    BY <1>1 DEF Publish
<1>2. CASE DialFails
    BY <1>2 DEF DialFails
<1>3. CASE BusDrops
    BY <1>3 DEF BusDrops
<1>4. ASSUME NEW k \in Keys, NEW noReply \in BOOLEAN, PumpQueues(k, noReply) PROVE FlagType'
    BY <1>4 DEF PumpQueues
<1>5. CASE Connect
    BY <1>5 DEF Connect, Forget
<1>6. ASSUME NEW k \in Keys, ExportObject(k) PROVE FlagType'
    BY <1>6 DEF ExportObject
<1>7. ASSUME NEW k \in Keys, UnexportObject(k) PROVE FlagType'
    BY <1>7 DEF UnexportObject, Forget
<1>8. ASSUME NEW c \in Calls, Error(c) PROVE FlagType'
    BY <1>8 DEF Error, Forget
<1>9. ASSUME NEW c \in Calls, ReplyBegin(c) PROVE FlagType'
    BY <1>9 DEF ReplyBegin
<1>10. CASE ReplyThrows
    BY <1>10 DEF ReplyThrows
<1>11. CASE ReplyEnds
    BY <1>11 DEF ReplyEnds
<1>12. CASE UpdateBegin
    BY <1>12 DEF UpdateBegin
<1>13. CASE UpdateRefuses
    BY <1>13 DEF UpdateRefuses
<1>14. CASE UpdateCalls
    BY <1>14 DEF UpdateCalls
<1>15. CASE HandlerReturns
    BY <1>15 DEF HandlerReturns
<1>16. CASE HandlerThrows
    BY <1>16 DEF HandlerThrows, Forget
<1>17. CASE UpdateEnd
    BY <1>17 DEF UpdateEnd
<1>18. CASE Shutdown
    BY <1>18 DEF Shutdown, Forget
<1>19. CASE UNCHANGED vars
    BY <1>19 DEF vars
<1> QED
    BY <1>1, <1>2, <1>3, <1>4, <1>5, <1>6, <1>7, <1>8, <1>9, <1>10, <1>11, <1>12, <1>13,
       <1>14, <1>15, <1>16, <1>17, <1>18, <1>19
    DEF Next, BusSteps, ScriptSteps, HookSteps

\* The frames.
LEMMA StackStep ==
    ASSUME StackType, PlaceType, [Next]_vars
    PROVE  StackType'
<1> USE DEF service, bus, record, StackType
<1>1. CASE Publish
    BY <1>1 DEF Publish
<1>2. CASE DialFails
    BY <1>2 DEF DialFails
<1>3. CASE BusDrops
    BY <1>3 DEF BusDrops
<1>4. ASSUME NEW k \in Keys, NEW noReply \in BOOLEAN, PumpQueues(k, noReply) PROVE StackType'
    BY <1>4 DEF PumpQueues
<1>5. CASE Connect
    BY <1>5 DEF Connect, Forget
<1>6. ASSUME NEW k \in Keys, ExportObject(k) PROVE StackType'
    BY <1>6 DEF ExportObject
<1>7. ASSUME NEW k \in Keys, UnexportObject(k) PROVE StackType'
    BY <1>7 DEF UnexportObject, Forget
<1>8. ASSUME NEW c \in Calls, Error(c) PROVE StackType'
    BY <1>8 DEF Error, Forget
<1>9. ASSUME NEW c \in Calls, ReplyBegin(c) PROVE StackType'
    <2>1. PICK f \in Frames : stack' = Append(stack, f)
        BY <1>9 DEF ReplyBegin, Frames
    <2> QED
        BY <2>1
<1>10. CASE ReplyThrows
    <2>1. Front(stack) \in Seq(Frames)
        BY <1>10, FrontProperties DEF ReplyThrows, In
    <2> QED
        BY <1>10, <2>1 DEF ReplyThrows
<1>11. CASE ReplyEnds
    <2>1. Front(stack) \in Seq(Frames)
        BY <1>11, FrontProperties DEF ReplyEnds, In
    <2> QED
        BY <1>11, <2>1 DEF ReplyEnds
<1>12. CASE UpdateBegin
    <2>1. [in |-> "update", call |-> 0] \in Frames
        BY DEF Frames
    <2> QED
        BY <1>12, <2>1 DEF UpdateBegin
<1>13. CASE UpdateRefuses
    BY <1>13 DEF UpdateRefuses
<1>14. CASE UpdateCalls
    <2>1. Head(incoming) \in Calls
        BY <1>14 DEF UpdateCalls, PlaceType
    <2>2. stack' = Append(stack, [in |-> "handler", call |-> Head(incoming)])
        BY <1>14 DEF UpdateCalls
    <2> QED
        BY <2>1, <2>2 DEF Frames
<1>15. CASE HandlerReturns
    <2>1. Front(stack) \in Seq(Frames)
        BY <1>15, FrontProperties DEF HandlerReturns, In
    <2> QED
        BY <1>15, <2>1 DEF HandlerReturns
<1>16. CASE HandlerThrows
    <2>1. Front(stack) \in Seq(Frames)
        BY <1>16, FrontProperties DEF HandlerThrows, In
    <2> QED
        BY <1>16, <2>1 DEF HandlerThrows
<1>17. CASE UpdateEnd
    BY <1>17 DEF UpdateEnd
<1>18. CASE Shutdown
    BY <1>18 DEF Shutdown, Forget
<1>19. CASE UNCHANGED vars
    BY <1>19 DEF vars
<1> QED
    BY <1>1, <1>2, <1>3, <1>4, <1>5, <1>6, <1>7, <1>8, <1>9, <1>10, <1>11, <1>12, <1>13,
       <1>14, <1>15, <1>16, <1>17, <1>18, <1>19
    DEF Next, BusSteps, ScriptSteps, HookSteps

\* The calls the bus has delivered.
LEMMA CallStep ==
    ASSUME CallType, BusType, [Next]_vars
    PROVE  CallType'
<1> USE DEF service, bus, record, CallType
<1>1. CASE Publish
    BY <1>1 DEF Publish
<1>2. CASE DialFails
    BY <1>2 DEF DialFails
<1>3. CASE BusDrops
    BY <1>3 DEF BusDrops
<1>4. ASSUME NEW k \in Keys, NEW noReply \in BOOLEAN, PumpQueues(k, noReply) PROVE CallType'
    <2>1. connection \in 1..MaxDials
        BY <1>4 DEF PumpQueues, BusType
    <2>2. [key |-> k, on |-> connection, noReply |-> noReply]
          \in [key : Keys, on : 1..MaxDials, noReply : BOOLEAN]
        BY <2>1
    <2>3. Len(calls) < MaxCalls /\ MaxCalls \in Nat
          /\ calls' = Append(calls, [key |-> k, on |-> connection, noReply |-> noReply])
        BY <1>4, ServiceBoundsAssumption DEF PumpQueues
    <2> QED
        BY <2>2, <2>3
<1>5. CASE Connect
    BY <1>5 DEF Connect, Forget
<1>6. ASSUME NEW k \in Keys, ExportObject(k) PROVE CallType'
    BY <1>6 DEF ExportObject
<1>7. ASSUME NEW k \in Keys, UnexportObject(k) PROVE CallType'
    BY <1>7 DEF UnexportObject, Forget
<1>8. ASSUME NEW c \in Calls, Error(c) PROVE CallType'
    BY <1>8 DEF Error, Forget
<1>9. ASSUME NEW c \in Calls, ReplyBegin(c) PROVE CallType'
    BY <1>9 DEF ReplyBegin
<1>10. CASE ReplyThrows
    BY <1>10 DEF ReplyThrows
<1>11. CASE ReplyEnds
    BY <1>11 DEF ReplyEnds
<1>12. CASE UpdateBegin
    BY <1>12 DEF UpdateBegin
<1>13. CASE UpdateRefuses
    BY <1>13 DEF UpdateRefuses
<1>14. CASE UpdateCalls
    BY <1>14 DEF UpdateCalls
<1>15. CASE HandlerReturns
    BY <1>15 DEF HandlerReturns
<1>16. CASE HandlerThrows
    BY <1>16 DEF HandlerThrows, Forget
<1>17. CASE UpdateEnd
    BY <1>17 DEF UpdateEnd
<1>18. CASE Shutdown
    BY <1>18 DEF Shutdown, Forget
<1>19. CASE UNCHANGED vars
    BY <1>19 DEF vars
<1> QED
    BY <1>1, <1>2, <1>3, <1>4, <1>5, <1>6, <1>7, <1>8, <1>9, <1>10, <1>11, <1>12, <1>13,
       <1>14, <1>15, <1>16, <1>17, <1>18, <1>19
    DEF Next, BusSteps, ScriptSteps, HookSteps

\* Where the connection stands.
LEMMA BusStep ==
    ASSUME FlagType, LinkInv, BusType, PlaceType, [Next]_vars
    PROVE  BusType'
<1> USE DEF service, bus, record, BusType, ScriptRuns
<1>1. CASE Publish
    <2>1. dials \in 0..(MaxDials - 1) /\ ~shuttingDown
        BY <1>1, ServiceBoundsAssumption DEF Publish, LinkInv, BusType
    <2>2. connection' = dials + 1 /\ dials' = dials + 1 /\ ~dialling' /\ ~shuttingDown'
        BY <1>1, <2>1 DEF Publish
    <2>3. connection' \in 1..MaxDials /\ dials' \in 1..MaxDials
        BY <2>1, <2>2, ServiceBoundsAssumption
    <2> QED
        BY <2>2, <2>3
<1>2. CASE DialFails
    BY <1>2 DEF DialFails
<1>3. CASE BusDrops
    BY <1>3 DEF BusDrops
<1>4. ASSUME NEW k \in Keys, NEW noReply \in BOOLEAN, PumpQueues(k, noReply) PROVE BusType'
    BY <1>4 DEF PumpQueues
<1>5. CASE Connect
    <2>1. ~connected' /\ ~shuttingDown'
        BY <1>5 DEF Connect, ScriptRuns
    <2>2. connection' = 0 /\ dials' = dials
        BY <1>5 DEF Connect
    <2> QED
        BY <2>1, <2>2, ServiceBoundsAssumption
<1>6. ASSUME NEW k \in Keys, ExportObject(k) PROVE BusType'
    BY <1>6 DEF ExportObject
<1>7. ASSUME NEW k \in Keys, UnexportObject(k) PROVE BusType'
    BY <1>7 DEF UnexportObject, Forget
<1>8. ASSUME NEW c \in Calls, Error(c) PROVE BusType'
    BY <1>8 DEF Error, Forget
<1>9. ASSUME NEW c \in Calls, ReplyBegin(c) PROVE BusType'
    BY <1>9 DEF ReplyBegin
<1>10. CASE ReplyThrows
    BY <1>10 DEF ReplyThrows
<1>11. CASE ReplyEnds
    BY <1>11 DEF ReplyEnds
<1>12. CASE UpdateBegin
    BY <1>12 DEF UpdateBegin
<1>13. CASE UpdateRefuses
    BY <1>13 DEF UpdateRefuses
<1>14. CASE UpdateCalls
    BY <1>14 DEF UpdateCalls
<1>15. CASE HandlerReturns
    BY <1>15 DEF HandlerReturns
<1>16. CASE HandlerThrows
    BY <1>16 DEF HandlerThrows, Forget
<1>17. CASE UpdateEnd
    BY <1>17 DEF UpdateEnd
<1>18. CASE Shutdown
    <2>1. ~connected' /\ exports' = {} /\ invocations' = {}
        BY <1>18 DEF Shutdown, Forget
    <2>2. connection' = 0 /\ dials' = dials
        BY <1>18 DEF Shutdown
    <2> QED
        BY <2>1, <2>2, ServiceBoundsAssumption
<1>19. CASE UNCHANGED vars
    BY <1>19 DEF vars
<1> QED
    BY <1>1, <1>2, <1>3, <1>4, <1>5, <1>6, <1>7, <1>8, <1>9, <1>10, <1>11, <1>12, <1>13,
       <1>14, <1>15, <1>16, <1>17, <1>18, <1>19
    DEF Next, BusSteps, ScriptSteps, HookSteps

\* What was answered.
LEMMA AnswerStep ==
    ASSUME StackType, AnswerType, PlaceType, BusType, ReplyInv, [Next]_vars
    PROVE  AnswerType'
<1> USE DEF service, bus, record, AnswerType
<1>1. CASE Publish
    BY <1>1 DEF Publish
<1>2. CASE DialFails
    BY <1>2 DEF DialFails
<1>3. CASE BusDrops
    BY <1>3 DEF BusDrops
<1>4. ASSUME NEW k \in Keys, NEW noReply \in BOOLEAN, PumpQueues(k, noReply) PROVE AnswerType'
    BY <1>4 DEF PumpQueues
<1>5. CASE Connect
    BY <1>5 DEF Connect, Forget
<1>6. ASSUME NEW k \in Keys, ExportObject(k) PROVE AnswerType'
    BY <1>6 DEF ExportObject
<1>7. ASSUME NEW k \in Keys, UnexportObject(k) PROVE AnswerType'
    <2>1. \A d \in Calls : Sent(d, "unknownObject") \in Seq(Answers)
        BY SentType
    <2>2. answers' = [d \in Calls |-> IF d \in CallsTo(k) THEN Sent(d, "unknownObject")
                                                        ELSE answers[d]]
        BY <1>7 DEF UnexportObject
    <2> QED
        BY <2>1, <2>2
<1>8. ASSUME NEW c \in Calls, Error(c) PROVE AnswerType'
    <2>1. Sent(c, "error") \in Seq(Answers) /\ c \in Calls
        BY <1>8, SentType DEF Error
    <2>2. answers' = [answers EXCEPT ![c] = Sent(c, "error")]
        BY <1>8 DEF Error
    <2> QED
        BY <2>1, <2>2
<1>9. ASSUME NEW c \in Calls, ReplyBegin(c) PROVE AnswerType'
    BY <1>9 DEF ReplyBegin
<1>10. CASE ReplyThrows
    BY <1>10 DEF ReplyThrows
<1>11. CASE ReplyEnds
    <2> DEFINE c == Last(stack).call
    <2>1. c \in Calls
        <3>1. Last(stack) = stack[Len(stack)] /\ Last(stack).in = "reply" /\ Len(stack) \in Nat \ {0}
            BY <1>11, FrontProperties DEF ReplyEnds, In, StackType
        <3>2. c \in invocations \/ c \in undone
            BY <3>1 DEF ReplyInv
        <3> QED
            BY <3>2 DEF PlaceType
    <2>2. Sent(c, "reply") \in Seq(Answers)
        BY <2>1, SentType
    <2>3. answers' = answers \/ answers' = [answers EXCEPT ![c] = Sent(c, "reply")]
        BY <1>11 DEF ReplyEnds
    <2> QED
        BY <2>1, <2>2, <2>3
<1>12. CASE UpdateBegin
    BY <1>12 DEF UpdateBegin
<1>13. CASE UpdateRefuses
    <2>1. Sent(Head(incoming), "unknown") \in Seq(Answers) /\ Head(incoming) \in Calls
        BY <1>13, SentType DEF UpdateRefuses, PlaceType
    <2>2. answers' = [answers EXCEPT ![Head(incoming)] = Sent(Head(incoming), "unknown")]
        BY <1>13 DEF UpdateRefuses
    <2> QED
        BY <2>1, <2>2
<1>14. CASE UpdateCalls
    BY <1>14 DEF UpdateCalls
<1>15. CASE HandlerReturns
    BY <1>15 DEF HandlerReturns
<1>16. CASE HandlerThrows
    <2> DEFINE c == Last(stack).call
    <2>1. CASE c \in invocations
        <3>1. c \in Calls /\ answers' = [answers EXCEPT ![c] = Sent(c, "failed")]
            BY <1>16, <2>1 DEF HandlerThrows, PlaceType
        <3>2. Sent(c, "failed") \in Seq(Answers)
            BY <3>1, SentType
        <3> QED
            BY <3>1, <3>2
    <2>2. CASE c \notin invocations
        BY <1>16, <2>2 DEF HandlerThrows
    <2> QED
        BY <2>1, <2>2
<1>17. CASE UpdateEnd
    BY <1>17 DEF UpdateEnd
<1>18. CASE Shutdown
    BY <1>18 DEF Shutdown, Forget
<1>19. CASE UNCHANGED vars
    BY <1>19 DEF vars
<1> QED
    BY <1>1, <1>2, <1>3, <1>4, <1>5, <1>6, <1>7, <1>8, <1>9, <1>10, <1>11, <1>12, <1>13,
       <1>14, <1>15, <1>16, <1>17, <1>18, <1>19
    DEF Next, BusSteps, ScriptSteps, HookSteps

\* The queues, the map and the record.
LEMMA PlaceTypeStep ==
    ASSUME StackType, CallType, PlaceType, [Next]_vars
    PROVE  PlaceType'
<1> USE DEF service, bus, record, PlaceType
<1>1. CASE Publish
    BY <1>1 DEF Publish
<1>2. CASE DialFails
    BY <1>2 DEF DialFails
<1>3. CASE BusDrops
    BY <1>3 DEF BusDrops
<1>4. ASSUME NEW k \in Keys, NEW noReply \in BOOLEAN, PumpQueues(k, noReply) PROVE PlaceType'
    <2>1. Len(calls) + 1 \in Calls
        BY <1>4, ServiceBoundsAssumption DEF PumpQueues, CallType, Calls
    <2> QED
        BY <1>4, <2>1 DEF PumpQueues
<1>5. CASE Connect
    <2>1. Range(incoming) \subseteq Calls
        BY DEF Range
    <2>2. /\ invocations' \subseteq invocations /\ finished' \subseteq finished \cup invocations
          /\ undone' \subseteq undone \cup invocations
          /\ held' \subseteq held \cup Range(incoming)
        <3>1. CASE connection # 0
            BY <1>5, <3>1 DEF Connect, Forget
        <3>2. CASE connection = 0
            BY <1>5, <3>2 DEF Connect
        <3> QED
            BY <3>1, <3>2
    <2>3. incoming' = incoming /\ exports' = exports
        BY <1>5 DEF Connect
    <2>4. methods' = <<>> \/ methods' = methods
        BY <1>5 DEF Connect
    <2>5. methods' \in Seq(Calls)
        <3>1. methods \in Seq(Calls) /\ <<>> \in Seq(Calls)
            OBVIOUS
        <3> QED
            BY ONLY <2>4, <3>1
    <2> QED
        BY <2>1, <2>2, <2>3, <2>5
<1>6. ASSUME NEW k \in Keys, ExportObject(k) PROVE PlaceType'
    BY <1>6 DEF ExportObject
<1>7. ASSUME NEW k \in Keys, UnexportObject(k) PROVE PlaceType'
    <2>1. CallsTo(k) \subseteq invocations
        BY DEF CallsTo
    <2>2. /\ invocations' \subseteq invocations /\ finished' \subseteq finished \cup invocations
          /\ undone' \subseteq undone \cup invocations
        BY <1>7, <2>1 DEF UnexportObject, Forget
    <2>3. exports' \subseteq exports /\ incoming' = incoming /\ methods' = methods /\ held' = held
        BY <1>7 DEF UnexportObject
    <2> QED
        BY <2>2, <2>3
<1>8. ASSUME NEW c \in Calls, Error(c) PROVE PlaceType'
    BY <1>8 DEF Error, Forget
<1>9. ASSUME NEW c \in Calls, ReplyBegin(c) PROVE PlaceType'
    BY <1>9 DEF ReplyBegin
<1>10. CASE ReplyThrows
    BY <1>10 DEF ReplyThrows
<1>11. CASE ReplyEnds
    <2>1. CASE Last(stack).call \in invocations
        <3>1. /\ invocations' \subseteq invocations
              /\ finished' = finished \cup {Last(stack).call}
              /\ undone' \subseteq undone \cup {Last(stack).call}
            BY <1>11, <2>1 DEF ReplyEnds
        <3>2. UNCHANGED <<incoming, exports, methods, held>>
            BY <1>11 DEF ReplyEnds
        <3> QED
            BY <2>1, <3>1, <3>2
    <2>2. CASE Last(stack).call \notin invocations
        BY <1>11, <2>2 DEF ReplyEnds
    <2> QED
        BY <2>1, <2>2
<1>12. CASE UpdateBegin
    BY <1>12 DEF UpdateBegin
<1>13. CASE UpdateRefuses
    <2>1. Head(incoming) \in Calls /\ Tail(incoming) \in Seq(Calls)
        BY <1>13 DEF UpdateRefuses
    <2> QED
        BY <1>13, <2>1 DEF UpdateRefuses
<1>14. CASE UpdateCalls
    <2>1. Head(incoming) \in Calls /\ Tail(incoming) \in Seq(Calls)
        BY <1>14 DEF UpdateCalls
    <2> QED
        BY <1>14, <2>1 DEF UpdateCalls
<1>15. CASE HandlerReturns
    BY <1>15 DEF HandlerReturns
<1>16. CASE HandlerThrows
    BY <1>16 DEF HandlerThrows, Forget
<1>17. CASE UpdateEnd
    BY <1>17 DEF UpdateEnd
<1>18. CASE Shutdown
    BY <1>18 DEF Shutdown, Forget
<1>19. CASE UNCHANGED vars
    BY <1>19 DEF vars
<1> QED
    BY <1>1, <1>2, <1>3, <1>4, <1>5, <1>6, <1>7, <1>8, <1>9, <1>10, <1>11, <1>12, <1>13,
       <1>14, <1>15, <1>16, <1>17, <1>18, <1>19
    DEF Next, BusSteps, ScriptSteps, HookSteps

\* The type invariant is kept.
LEMMA TypeStep ==
    ASSUME TypeOK, LinkInv, ReplyInv, [Next]_vars
    PROVE  TypeOK'
<1>1. FlagType /\ StackType /\ AnswerType /\ CallType /\ PlaceType /\ BusType
    BY TypeParts
<1>2. FlagType' /\ StackType' /\ AnswerType' /\ CallType' /\ PlaceType' /\ BusType'
    BY <1>1, FlagStep, StackStep, AnswerStep, CallStep, PlaceTypeStep, BusStep
<1> QED
    BY <1>2, TypeParts, PTL

-----------------------------------------------------------------------------
(* Where calls and frames stand                                            *)

\* What the bus has delivered stays as it is.
LEMMA CallsKept ==
    ASSUME CallType, [Next]_vars
    PROVE  \A d \in Made : d \in Made' /\ calls'[d] = calls[d]
<1> USE DEF service, bus, record, Made
<1>1. CASE Publish
    BY <1>1 DEF Publish
<1>2. CASE DialFails
    BY <1>2 DEF DialFails
<1>3. CASE BusDrops
    BY <1>3 DEF BusDrops
<1>4. ASSUME NEW k \in Keys, NEW noReply \in BOOLEAN, PumpQueues(k, noReply) PROVE \A d \in Made : d \in Made' /\ calls'[d] = calls[d]
    <2>1. calls' = Append(calls, [key |-> k, on |-> connection, noReply |-> noReply])
        BY <1>4 DEF PumpQueues
    <2>2. Len(calls') = Len(calls) + 1 /\ \A d \in 1..Len(calls) : calls'[d] = calls[d]
        BY <2>1 DEF CallType
    <2>3. Len(calls) \in Nat
        BY DEF CallType
    <2> QED
        BY <2>2, <2>3
<1>5. CASE Connect
    BY <1>5 DEF Connect, Forget
<1>6. ASSUME NEW k \in Keys, ExportObject(k) PROVE \A d \in Made : d \in Made' /\ calls'[d] = calls[d]
    BY <1>6 DEF ExportObject
<1>7. ASSUME NEW k \in Keys, UnexportObject(k) PROVE \A d \in Made : d \in Made' /\ calls'[d] = calls[d]
    BY <1>7 DEF UnexportObject, Forget
<1>8. ASSUME NEW c \in Calls, Error(c) PROVE \A d \in Made : d \in Made' /\ calls'[d] = calls[d]
    BY <1>8 DEF Error, Forget
<1>9. ASSUME NEW c \in Calls, ReplyBegin(c) PROVE \A d \in Made : d \in Made' /\ calls'[d] = calls[d]
    BY <1>9 DEF ReplyBegin
<1>10. CASE ReplyThrows
    BY <1>10 DEF ReplyThrows
<1>11. CASE ReplyEnds
    BY <1>11 DEF ReplyEnds
<1>12. CASE UpdateBegin
    BY <1>12 DEF UpdateBegin
<1>13. CASE UpdateRefuses
    BY <1>13 DEF UpdateRefuses
<1>14. CASE UpdateCalls
    BY <1>14 DEF UpdateCalls
<1>15. CASE HandlerReturns
    BY <1>15 DEF HandlerReturns
<1>16. CASE HandlerThrows
    BY <1>16 DEF HandlerThrows, Forget
<1>17. CASE UpdateEnd
    BY <1>17 DEF UpdateEnd
<1>18. CASE Shutdown
    BY <1>18 DEF Shutdown, Forget
<1>19. CASE UNCHANGED vars
    BY <1>19 DEF vars
<1> QED
    BY <1>1, <1>2, <1>3, <1>4, <1>5, <1>6, <1>7, <1>8, <1>9, <1>10, <1>11, <1>12, <1>13,
       <1>14, <1>15, <1>16, <1>17, <1>18, <1>19
    DEF Next, BusSteps, ScriptSteps, HookSteps

\* Open calls belong to exported interfaces.
LEMMA OpenStep ==
    ASSUME CallType, PlaceType, PlaceInv, OpenCallsAreExported, [Next]_vars
    PROVE  OpenCallsAreExported'
<1> USE DEF service, bus, record, OpenCallsAreExported
<1>1. CASE Publish
    BY <1>1 DEF Publish
<1>2. CASE DialFails
    BY <1>2 DEF DialFails
<1>3. CASE BusDrops
    BY <1>3 DEF BusDrops
<1>4. ASSUME NEW k \in Keys, NEW noReply \in BOOLEAN, PumpQueues(k, noReply) PROVE OpenCallsAreExported'
    <2>1. invocations' = invocations /\ exports' = exports
        BY <1>4 DEF PumpQueues
    <2> QED
        BY <1>4, <2>1, CallsKept DEF PlaceInv, Next, BusSteps
<1>5. CASE Connect
    <2>1. invocations' \subseteq invocations
        <3>1. CASE connection # 0
            BY <1>5, <3>1 DEF Connect, Forget
        <3>2. CASE connection = 0
            BY <1>5, <3>2 DEF Connect
        <3> QED
            BY <3>1, <3>2
    <2> QED
        BY <1>5, <2>1 DEF Connect
<1>6. ASSUME NEW k \in Keys, ExportObject(k) PROVE OpenCallsAreExported'
    BY <1>6 DEF ExportObject
<1>7. ASSUME NEW k \in Keys, UnexportObject(k) PROVE OpenCallsAreExported'
    <2>1. invocations' = invocations \ CallsTo(k) /\ exports' = exports \ {k} /\ calls' = calls
        BY <1>7 DEF UnexportObject, Forget
    <2> QED
        BY <2>1 DEF CallsTo
<1>8. ASSUME NEW c \in Calls, Error(c) PROVE OpenCallsAreExported'
    BY <1>8 DEF Error, Forget
<1>9. ASSUME NEW c \in Calls, ReplyBegin(c) PROVE OpenCallsAreExported'
    BY <1>9 DEF ReplyBegin
<1>10. CASE ReplyThrows
    BY <1>10 DEF ReplyThrows
<1>11. CASE ReplyEnds
    <2>1. invocations' \subseteq invocations /\ exports' = exports /\ calls' = calls
        BY <1>11 DEF ReplyEnds
    <2> QED
        BY <2>1
<1>12. CASE UpdateBegin
    BY <1>12 DEF UpdateBegin
<1>13. CASE UpdateRefuses
    BY <1>13 DEF UpdateRefuses
<1>14. CASE UpdateCalls
    <2>1. invocations' = invocations \cup {Head(incoming)} /\ calls[Head(incoming)].key \in exports
        BY <1>14 DEF UpdateCalls
    <2> QED
        BY <1>14, <2>1 DEF UpdateCalls
<1>15. CASE HandlerReturns
    BY <1>15 DEF HandlerReturns
<1>16. CASE HandlerThrows
    <2>1. invocations' \subseteq invocations /\ exports' = exports /\ calls' = calls
        BY <1>16 DEF HandlerThrows, Forget
    <2> QED
        BY <2>1
<1>17. CASE UpdateEnd
    BY <1>17 DEF UpdateEnd
<1>18. CASE Shutdown
    BY <1>18 DEF Shutdown, Forget
<1>19. CASE UNCHANGED vars
    BY <1>19 DEF vars
<1> QED
    BY <1>1, <1>2, <1>3, <1>4, <1>5, <1>6, <1>7, <1>8, <1>9, <1>10, <1>11, <1>12, <1>13,
       <1>14, <1>15, <1>16, <1>17, <1>18, <1>19
    DEF Next, BusSteps, ScriptSteps, HookSteps

\* The hook's queue and shutdown.
LEMMA HookStep ==
    ASSUME StackType, PlaceType, HookInv, [Next]_vars
    PROVE  HookInv'
<1> USE DEF service, bus, record, HookInv, ScriptRuns, In
<1>1. CASE Publish
    BY <1>1 DEF Publish
<1>2. CASE DialFails
    BY <1>2 DEF DialFails
<1>3. CASE BusDrops
    BY <1>3 DEF BusDrops
<1>4. ASSUME NEW k \in Keys, NEW noReply \in BOOLEAN, PumpQueues(k, noReply) PROVE HookInv'
    BY <1>4 DEF PumpQueues
<1>5. CASE Connect
    BY <1>5 DEF Connect, Forget
<1>6. ASSUME NEW k \in Keys, ExportObject(k) PROVE HookInv'
    BY <1>6 DEF ExportObject
<1>7. ASSUME NEW k \in Keys, UnexportObject(k) PROVE HookInv'
    BY <1>7 DEF UnexportObject, Forget
<1>8. ASSUME NEW c \in Calls, Error(c) PROVE HookInv'
    BY <1>8 DEF Error, Forget
<1>9. ASSUME NEW c \in Calls, ReplyBegin(c) PROVE HookInv'
    <2>1. PICK f \in Frames : stack' = Append(stack, f)
        BY <1>9 DEF ReplyBegin, Frames
    <2>2. stack' # <<>> /\ (stack # <<>> => stack'[1] = stack[1])
        BY <2>1 DEF StackType
    <2> QED
        BY <1>9, <2>2 DEF ReplyBegin, ScriptRuns
<1>10. CASE ReplyThrows
    <2>1. stack' = Front(stack) /\ stack # <<>> /\ Last(stack).in # "update"
          /\ incoming' = incoming /\ shuttingDown' = shuttingDown
        BY <1>10 DEF ReplyThrows, In
    <2>2. ASSUME incoming # <<>> PROVE stack' # <<>> /\ stack'[1].in = "update"
        <3>1. stack[1].in = "update" /\ Last(stack) = stack[Len(stack)] /\ Len(stack) \in Nat \ {0}
            BY <2>1, <2>2, FrontProperties DEF StackType
        <3>2. Len(stack) # 1 /\ 1 \in 1..(Len(stack) - 1)
            BY <2>1, <3>1
        <3>3. stack'[1] = stack[1] /\ Len(stack') # 0
            BY <2>1, <3>1, <3>2, FrontProperties DEF StackType
        <3> QED
            BY <3>1, <3>3
    <2>3. ~shuttingDown
        BY <2>1
    <2> QED
        BY <2>1, <2>2, <2>3
<1>11. CASE ReplyEnds
    <2>1. stack' = Front(stack) /\ stack # <<>> /\ Last(stack).in # "update"
          /\ incoming' = incoming /\ shuttingDown' = shuttingDown
        BY <1>11 DEF ReplyEnds, In
    <2>2. ASSUME incoming # <<>> PROVE stack' # <<>> /\ stack'[1].in = "update"
        <3>1. stack[1].in = "update" /\ Last(stack) = stack[Len(stack)] /\ Len(stack) \in Nat \ {0}
            BY <2>1, <2>2, FrontProperties DEF StackType
        <3>2. Len(stack) # 1 /\ 1 \in 1..(Len(stack) - 1)
            BY <2>1, <3>1
        <3>3. stack'[1] = stack[1] /\ Len(stack') # 0
            BY <2>1, <3>1, <3>2, FrontProperties DEF StackType
        <3> QED
            BY <3>1, <3>3
    <2>3. ~shuttingDown
        BY <2>1
    <2> QED
        BY <2>1, <2>2, <2>3
<1>12. CASE UpdateBegin
    BY <1>12 DEF UpdateBegin
<1>13. CASE UpdateRefuses
    <2>1. stack # <<>> /\ stack' = stack /\ incoming # <<>> /\ shuttingDown' = shuttingDown
        BY <1>13 DEF UpdateRefuses, In
    <2> QED
        BY <2>1
<1>14. CASE UpdateCalls
    <2>1. stack # <<>> /\ stack' = Append(stack, [in |-> "handler", call |-> Head(incoming)])
          /\ incoming # <<>> /\ shuttingDown' = shuttingDown
        BY <1>14 DEF UpdateCalls, In
    <2>2. [in |-> "handler", call |-> Head(incoming)] \in Frames
        BY <2>1 DEF PlaceType, Frames
    <2>3. stack' # <<>> /\ stack'[1] = stack[1]
        BY <2>1, <2>2 DEF StackType
    <2> QED
        BY <2>1, <2>3
<1>15. CASE HandlerReturns
    <2>1. stack' = Front(stack) /\ stack # <<>> /\ Last(stack).in # "update"
          /\ incoming' = incoming /\ shuttingDown' = shuttingDown
        BY <1>15 DEF HandlerReturns, In
    <2>2. ASSUME incoming # <<>> PROVE stack' # <<>> /\ stack'[1].in = "update"
        <3>1. stack[1].in = "update" /\ Last(stack) = stack[Len(stack)] /\ Len(stack) \in Nat \ {0}
            BY <2>1, <2>2, FrontProperties DEF StackType
        <3>2. Len(stack) # 1 /\ 1 \in 1..(Len(stack) - 1)
            BY <2>1, <3>1
        <3>3. stack'[1] = stack[1] /\ Len(stack') # 0
            BY <2>1, <3>1, <3>2, FrontProperties DEF StackType
        <3> QED
            BY <3>1, <3>3
    <2>3. ~shuttingDown
        BY <2>1
    <2> QED
        BY <2>1, <2>2, <2>3
<1>16. CASE HandlerThrows
    <2>1. stack' = Front(stack) /\ stack # <<>> /\ Last(stack).in # "update"
          /\ incoming' = incoming /\ shuttingDown' = shuttingDown
        BY <1>16 DEF HandlerThrows, In
    <2>2. ASSUME incoming # <<>> PROVE stack' # <<>> /\ stack'[1].in = "update"
        <3>1. stack[1].in = "update" /\ Last(stack) = stack[Len(stack)] /\ Len(stack) \in Nat \ {0}
            BY <2>1, <2>2, FrontProperties DEF StackType
        <3>2. Len(stack) # 1 /\ 1 \in 1..(Len(stack) - 1)
            BY <2>1, <3>1
        <3>3. stack'[1] = stack[1] /\ Len(stack') # 0
            BY <2>1, <3>1, <3>2, FrontProperties DEF StackType
        <3> QED
            BY <3>1, <3>3
    <2>3. ~shuttingDown
        BY <2>1
    <2> QED
        BY <2>1, <2>2, <2>3
<1>17. CASE UpdateEnd
    BY <1>17 DEF UpdateEnd
<1>18. CASE Shutdown
    BY <1>18 DEF Shutdown, Forget
<1>19. CASE UNCHANGED vars
    BY <1>19 DEF vars
<1> QED
    BY <1>1, <1>2, <1>3, <1>4, <1>5, <1>6, <1>7, <1>8, <1>9, <1>10, <1>11, <1>12, <1>13,
       <1>14, <1>15, <1>16, <1>17, <1>18, <1>19
    DEF Next, BusSteps, ScriptSteps, HookSteps

\* The connection and its number.
LEMMA LinkStep ==
    ASSUME FlagType, CallType, BusType, LinkInv, [Next]_vars
    PROVE  LinkInv'
<1> USE DEF service, bus, record, LinkInv, Made
<1>1. CASE Publish
    <2>1. ~dialling' /\ connection' = dials + 1 /\ dials' = dials + 1 /\ calls' = calls
        BY <1>1 DEF Publish
    <2>2. dials \in Nat
        BY DEF BusType
    <2>3. \A d \in Made : calls[d].on <= dials + 1
        <3> SUFFICES ASSUME NEW d \in Made PROVE calls[d].on <= dials + 1
            OBVIOUS
        <3>2. calls[d].on \in 1..MaxDials
            BY CallElement
        <3>3. calls[d].on <= dials
            OBVIOUS
        <3> QED
            BY <2>2, <3>2, <3>3, ServiceBoundsAssumption
    <2> QED
        BY <2>1, <2>2, <2>3 DEF Made
<1>2. CASE DialFails
    BY <1>2 DEF DialFails
<1>3. CASE BusDrops
    BY <1>3 DEF BusDrops
<1>4. ASSUME NEW k \in Keys, NEW noReply \in BOOLEAN, PumpQueues(k, noReply) PROVE LinkInv'
    <2>1. calls' = Append(calls, [key |-> k, on |-> connection, noReply |-> noReply])
          /\ UNCHANGED <<dialling, connection, dials, shuttingDown>>
        BY <1>4 DEF PumpQueues
    <2>2. connection <= dials
        OBVIOUS
    <2>3. \A d \in 1..Len(calls') : calls'[d].on <= dials
        <3>1. connection \in 1..MaxDials
            BY <1>4 DEF PumpQueues, BusType
        <3>2. [key |-> k, on |-> connection, noReply |-> noReply]
              \in [key : Keys, on : 1..MaxDials, noReply : BOOLEAN]
            BY <3>1
        <3>3. /\ Len(calls) \in Nat /\ Len(calls') = Len(calls) + 1
              /\ \A d \in 1..Len(calls) : calls'[d] = calls[d]
              /\ calls'[Len(calls) + 1].on = connection
            BY <2>1, <3>2 DEF CallType
        <3>4. \A d \in 1..Len(calls) : calls'[d].on <= dials
            BY <3>3 DEF Made
        <3> QED
            BY <2>2, <3>3, <3>4
    <2> QED
        BY <2>1, <2>2, <2>3 DEF Made
<1>5. CASE Connect
    <2>1. connection' = 0 /\ dials' = dials /\ calls' = calls /\ dials < MaxDials /\ ~shuttingDown'
        BY <1>5 DEF Connect, ScriptRuns
    <2>2. 0 <= dials
        BY DEF BusType
    <2> QED
        BY <2>1, <2>2 DEF Made
<1>6. ASSUME NEW k \in Keys, ExportObject(k) PROVE LinkInv'
    BY <1>6 DEF ExportObject
<1>7. ASSUME NEW k \in Keys, UnexportObject(k) PROVE LinkInv'
    BY <1>7 DEF UnexportObject, Forget
<1>8. ASSUME NEW c \in Calls, Error(c) PROVE LinkInv'
    BY <1>8 DEF Error, Forget
<1>9. ASSUME NEW c \in Calls, ReplyBegin(c) PROVE LinkInv'
    BY <1>9 DEF ReplyBegin
<1>10. CASE ReplyThrows
    BY <1>10 DEF ReplyThrows
<1>11. CASE ReplyEnds
    BY <1>11 DEF ReplyEnds
<1>12. CASE UpdateBegin
    BY <1>12 DEF UpdateBegin
<1>13. CASE UpdateRefuses
    BY <1>13 DEF UpdateRefuses
<1>14. CASE UpdateCalls
    BY <1>14 DEF UpdateCalls
<1>15. CASE HandlerReturns
    BY <1>15 DEF HandlerReturns
<1>16. CASE HandlerThrows
    BY <1>16 DEF HandlerThrows, Forget
<1>17. CASE UpdateEnd
    BY <1>17 DEF UpdateEnd
<1>18. CASE Shutdown
    <2>1. connection' = 0 /\ dials' = dials /\ calls' = calls /\ ~dialling'
        BY <1>18 DEF Shutdown
    <2>2. 0 <= dials
        BY DEF BusType
    <2> QED
        BY <2>1, <2>2 DEF Made
<1>19. CASE UNCHANGED vars
    BY <1>19 DEF vars
<1> QED
    BY <1>1, <1>2, <1>3, <1>4, <1>5, <1>6, <1>7, <1>8, <1>9, <1>10, <1>11, <1>12, <1>13,
       <1>14, <1>15, <1>16, <1>17, <1>18, <1>19
    DEF Next, BusSteps, ScriptSteps, HookSteps

\* What leaves the map while a reply to it is converted is undone.
LEMMA ForgetFrames ==
    ASSUME StackType, ReplyInv, NEW gone, Forget(gone)
    PROVE  \A i \in 1..Len(stack) : stack[i].in = "reply" =>
              \/ stack[i].call \in invocations'
              \/ stack[i].call \in undone' /\ stack[i].call \in finished'
<1> SUFFICES ASSUME NEW i \in 1..Len(stack), stack[i].in = "reply",
                    stack[i].call \notin invocations'
             PROVE  stack[i].call \in undone' /\ stack[i].call \in finished'
    OBVIOUS
<1>1. stack[i].call \in Converting(stack)
    BY DEF Converting
<1>2. CASE stack[i].call \in invocations
    BY <1>1, <1>2 DEF Forget
<1>3. CASE stack[i].call \notin invocations
    BY <1>3 DEF Forget, ReplyInv
<1> QED
    BY <1>2, <1>3

\* Replies under conversion.
LEMMA ReplyStep ==
    ASSUME StackType, PlaceType, HookInv, ReplyInv, [Next]_vars
    PROVE  ReplyInv'
<1> USE DEF service, bus, record, ReplyInv
<1>1. CASE Publish
    BY <1>1 DEF Publish
<1>2. CASE DialFails
    BY <1>2 DEF DialFails
<1>3. CASE BusDrops
    BY <1>3 DEF BusDrops
<1>4. ASSUME NEW k \in Keys, NEW noReply \in BOOLEAN, PumpQueues(k, noReply) PROVE ReplyInv'
    BY <1>4 DEF PumpQueues
<1>5. CASE Connect
    <2>1. CASE connection # 0
        <3>1. Forget(invocations) /\ stack' = stack
            BY <1>5, <2>1 DEF Connect
        <3> QED
            BY <3>1, ForgetFrames
    <2>2. CASE connection = 0
        BY <1>5, <2>2 DEF Connect
    <2> QED
        BY <2>1, <2>2
<1>6. ASSUME NEW k \in Keys, ExportObject(k) PROVE ReplyInv'
    BY <1>6 DEF ExportObject
<1>7. ASSUME NEW k \in Keys, UnexportObject(k) PROVE ReplyInv'
    <2>1. Forget(CallsTo(k)) /\ stack' = stack
        BY <1>7 DEF UnexportObject
    <2> QED
        BY <2>1, ForgetFrames
<1>8. ASSUME NEW c \in Calls, Error(c) PROVE ReplyInv'
    <2>1. Forget({c}) /\ stack' = stack
        BY <1>8 DEF Error
    <2> QED
        BY <2>1, ForgetFrames
<1>9. ASSUME NEW c \in Calls, ReplyBegin(c) PROVE ReplyInv'
    <2>1. stack' = Append(stack, [in |-> "reply", call |-> c]) /\ c \in invocations
        BY <1>9 DEF ReplyBegin
    <2>2. [in |-> "reply", call |-> c] \in Frames
        BY DEF Frames
    <2>3. /\ Len(stack) \in Nat /\ Len(stack') = Len(stack) + 1
          /\ \A i \in 1..Len(stack) : stack'[i] = stack[i]
          /\ stack'[Len(stack) + 1] = [in |-> "reply", call |-> c]
        BY <2>1, <2>2 DEF StackType
    <2>4. \A i \in 1..(Len(stack) + 1) : i \in 1..Len(stack) \/ i = Len(stack) + 1
        BY <2>3
    <2> QED
        BY <1>9, <2>1, <2>3, <2>4 DEF ReplyBegin
<1>10. CASE ReplyThrows
    <2>1. stack' = Front(stack) /\ stack # <<>>
        BY <1>10 DEF ReplyThrows, In
    <2>2. /\ \A i \in 1..(Len(stack) - 1) : stack'[i] = stack[i]
          /\ Len(stack') = Len(stack) - 1 /\ Len(stack) \in Nat
        <3>1. stack \in Seq(Frames)
            BY DEF StackType
        <3> QED
            BY ONLY <2>1, <3>1, FrontProperties
    <2>5. 1..(Len(stack) - 1) \subseteq 1..Len(stack)
        BY <2>2
    <2> QED
        BY <1>10, <2>2, <2>5 DEF ReplyThrows
<1>11. CASE ReplyEnds
    <2>1. stack' = Front(stack) /\ stack # <<>>
        BY <1>11 DEF ReplyEnds, In
    <2>2. /\ \A i \in 1..(Len(stack) - 1) : stack'[i] = stack[i]
          /\ Len(stack') = Len(stack) - 1 /\ Len(stack) \in Nat
        <3>1. stack \in Seq(Frames)
            BY DEF StackType
        <3> QED
            BY ONLY <2>1, <3>1, FrontProperties
    <2>5. 1..(Len(stack) - 1) \subseteq 1..Len(stack)
        BY <2>2
    <2> DEFINE c == Last(stack).call
    <2>3. CASE c \in invocations
        <3>1. /\ invocations' = invocations \ {c} /\ finished' = finished \cup {c}
              /\ undone' = undone \cup ({c} \cap Converting(stack'))
            BY <1>11, <2>1, <2>3 DEF ReplyEnds
        <3> SUFFICES ASSUME NEW i \in 1..Len(stack'), stack'[i].in = "reply",
                            stack'[i].call \notin invocations'
                     PROVE  stack'[i].call \in undone' /\ stack'[i].call \in finished'
            OBVIOUS
        <3>2. stack'[i].call \in Converting(stack')
            BY DEF Converting
        <3>3. i \in 1..Len(stack) /\ stack'[i] = stack[i]
            BY <2>2, <2>5
        <3>4. CASE stack'[i].call = c
            BY <3>1, <3>2, <3>4
        <3>5. CASE stack'[i].call # c
            BY <3>1, <3>3, <3>5
        <3> QED
            BY <3>4, <3>5
    <2>4. CASE c \notin invocations
        BY <1>11, <2>2, <2>4, <2>5 DEF ReplyEnds
    <2> QED
        BY <2>3, <2>4
<1>12. CASE UpdateBegin
    BY <1>12 DEF UpdateBegin
<1>13. CASE UpdateRefuses
    BY <1>13 DEF UpdateRefuses
<1>14. CASE UpdateCalls
    <2>1. /\ stack' = Append(stack, [in |-> "handler", call |-> Head(incoming)])
          /\ invocations \subseteq invocations' /\ undone' = undone /\ finished' = finished
        BY <1>14 DEF UpdateCalls
    <2>2. [in |-> "handler", call |-> Head(incoming)] \in Frames
        BY <1>14 DEF UpdateCalls, PlaceType, Frames
    <2>3. /\ Len(stack) \in Nat /\ Len(stack') = Len(stack) + 1
          /\ \A i \in 1..Len(stack) : stack'[i] = stack[i]
          /\ stack'[Len(stack) + 1].in = "handler"
        BY <2>1, <2>2 DEF StackType
    <2>4. \A i \in 1..(Len(stack) + 1) : i \in 1..Len(stack) \/ i = Len(stack) + 1
        BY <2>3
    <2> QED
        BY <2>1, <2>3, <2>4
<1>15. CASE HandlerReturns
    <2>1. stack' = Front(stack) /\ stack # <<>>
        BY <1>15 DEF HandlerReturns, In
    <2>2. /\ \A i \in 1..(Len(stack) - 1) : stack'[i] = stack[i]
          /\ Len(stack') = Len(stack) - 1 /\ Len(stack) \in Nat
        <3>1. stack \in Seq(Frames)
            BY DEF StackType
        <3> QED
            BY ONLY <2>1, <3>1, FrontProperties
    <2>5. 1..(Len(stack) - 1) \subseteq 1..Len(stack)
        BY <2>2
    <2> QED
        BY <1>15, <2>2, <2>5 DEF HandlerReturns
<1>16. CASE HandlerThrows
    <2>1. stack' = Front(stack) /\ stack # <<>>
        BY <1>16 DEF HandlerThrows, In
    <2>2. /\ \A i \in 1..(Len(stack) - 1) : stack'[i] = stack[i]
          /\ Len(stack') = Len(stack) - 1 /\ Len(stack) \in Nat
        <3>1. stack \in Seq(Frames)
            BY DEF StackType
        <3> QED
            BY ONLY <2>1, <3>1, FrontProperties
    <2>5. 1..(Len(stack) - 1) \subseteq 1..Len(stack)
        BY <2>2
    <2> DEFINE c == Last(stack).call
    <2>3. CASE c \in invocations
        <3>1. Forget({c})
            BY <1>16, <2>3 DEF HandlerThrows
        <3> QED
            BY <2>2, <2>5, <3>1, ForgetFrames
    <2>4. CASE c \notin invocations
        BY <1>16, <2>2, <2>4, <2>5 DEF HandlerThrows
    <2> QED
        BY <2>3, <2>4
<1>17. CASE UpdateEnd
    BY <1>17 DEF UpdateEnd
<1>18. CASE Shutdown
    <2>1. Forget(invocations) /\ stack' = stack
        BY <1>18 DEF Shutdown
    <2> QED
        BY <2>1, ForgetFrames
<1>19. CASE UNCHANGED vars
    BY <1>19 DEF vars
<1> QED
    BY <1>1, <1>2, <1>3, <1>4, <1>5, <1>6, <1>7, <1>8, <1>9, <1>10, <1>11, <1>12, <1>13,
       <1>14, <1>15, <1>16, <1>17, <1>18, <1>19
    DEF Next, BusSteps, ScriptSteps, HookSteps

\* A call that leaves the map is finished.
LEMMA ForgetPlaces ==
    ASSUME PlaceInv, NEW gone, gone \subseteq invocations, Forget(gone),
           UNCHANGED <<incoming, methods, calls>>
    PROVE  PlaceInv'
<1>1. invocations' \subseteq invocations /\ finished' = finished \cup gone
      /\ invocations' \cap gone = {}
    BY DEF Forget
<1> QED
    BY <1>1 DEF PlaceInv, Made

\* The hook takes the first of its calls.
LEMMA HeadProperties ==
    ASSUME PlaceType, PlaceInv, incoming # <<>>, incoming' = Tail(incoming)
    PROVE  /\ Head(incoming) \in Calls
           /\ Range(incoming) = {Head(incoming)} \cup Range(incoming')
           /\ Head(incoming) \notin Range(incoming')
           /\ IsInjective(incoming')
BY TailRange DEF PlaceType, PlaceInv

\* A call is in one place.
LEMMA PlaceStep ==
    ASSUME StackType, CallType, PlaceType, HookInv, PlaceInv, [Next]_vars
    PROVE  PlaceInv'
<1> USE DEF service, bus, record, PlaceInv
<1>1. CASE Publish
    BY <1>1 DEF Publish, Made
<1>2. CASE DialFails
    BY <1>2 DEF DialFails, Made
<1>3. CASE BusDrops
    BY <1>3 DEF BusDrops, Made
<1>4. ASSUME NEW k \in Keys, NEW noReply \in BOOLEAN, PumpQueues(k, noReply) PROVE PlaceInv'
    <2>1. /\ methods' = Append(methods, Len(calls) + 1)
          /\ UNCHANGED <<incoming, invocations, finished>>
          /\ Len(calls) < MaxCalls
        BY <1>4 DEF PumpQueues
    <2>2. Len(calls) \in Nat /\ Len(calls') = Len(calls) + 1
        BY <1>4 DEF PumpQueues, CallType
    <2>3. Made' = Made \cup {Len(calls) + 1} /\ Len(calls) + 1 \notin Made
        BY <2>2 DEF Made
    <2>4. Len(calls) + 1 \in Calls
        BY <2>1, <2>2, ServiceBoundsAssumption DEF Calls
    <2>5. Len(calls) + 1 \notin Range(methods)
        BY <2>3
    <2>6. Range(methods') = Range(methods) \cup {Len(calls) + 1} /\ IsInjective(methods')
        BY <2>1, <2>4, <2>5, AppendRange DEF PlaceType
    <2> QED
        BY <2>1, <2>3, <2>6
<1>5. CASE Connect
    <2>1. UNCHANGED <<incoming, calls>> /\ (methods' = methods \/ methods' = <<>>)
        BY <1>5 DEF Connect
    <2>2. \/ invocations' = {} /\ finished' = finished \cup invocations
          \/ UNCHANGED <<invocations, finished>>
        BY <1>5 DEF Connect, Forget
    <2>3. Range(methods') \subseteq Range(methods) /\ IsInjective(methods')
        BY <2>1, EmptyRange
    <2>4. Made' = Made /\ Range(incoming') = Range(incoming) /\ IsInjective(incoming')
        BY <2>1 DEF Made
    <2> QED
        BY <2>2, <2>3, <2>4
<1>6. ASSUME NEW k \in Keys, ExportObject(k) PROVE PlaceInv'
    BY <1>6 DEF ExportObject, Made
<1>7. ASSUME NEW k \in Keys, UnexportObject(k) PROVE PlaceInv'
    <2>1. Forget(CallsTo(k)) /\ UNCHANGED <<incoming, methods, calls>> /\ CallsTo(k) \subseteq invocations
        BY <1>7 DEF UnexportObject, CallsTo
    <2> QED
        BY <2>1, ForgetPlaces
<1>8. ASSUME NEW c \in Calls, Error(c) PROVE PlaceInv'
    <2>1. Forget({c}) /\ UNCHANGED <<incoming, methods, calls>> /\ {c} \subseteq invocations
        BY <1>8 DEF Error, CallsTo
    <2> QED
        BY <2>1, ForgetPlaces
<1>9. ASSUME NEW c \in Calls, ReplyBegin(c) PROVE PlaceInv'
    BY <1>9 DEF ReplyBegin, Made
<1>10. CASE ReplyThrows
    BY <1>10 DEF ReplyThrows, Made
<1>11. CASE ReplyEnds
    <2>1. CASE Last(stack).call \in invocations
        <3>1. /\ invocations' = invocations \ {Last(stack).call}
              /\ finished' = finished \cup {Last(stack).call}
              /\ UNCHANGED <<incoming, methods, calls>>
            BY <1>11, <2>1 DEF ReplyEnds
        <3> QED
            BY <2>1, <3>1 DEF Made
    <2>2. CASE Last(stack).call \notin invocations
        BY <1>11, <2>2 DEF ReplyEnds, Made
    <2> QED
        BY <2>1, <2>2
<1>12. CASE UpdateBegin
    <2>1. incoming = <<>> /\ incoming' = methods /\ methods' = <<>>
          /\ UNCHANGED <<invocations, finished, calls>>
        BY <1>12 DEF UpdateBegin, HookInv
    <2> QED
        BY <2>1, EmptyRange DEF Made
<1>13. CASE UpdateRefuses
    <2>1. /\ incoming # <<>> /\ incoming' = Tail(incoming)
          /\ finished' = finished \cup {Head(incoming)}
          /\ UNCHANGED <<methods, invocations, calls>>
        BY <1>13 DEF UpdateRefuses
    <2> QED
        BY <2>1, HeadProperties DEF Made
<1>14. CASE UpdateCalls
    <2>1. /\ incoming # <<>> /\ incoming' = Tail(incoming)
          /\ invocations' = invocations \cup {Head(incoming)}
          /\ UNCHANGED <<methods, finished, calls>>
        BY <1>14 DEF UpdateCalls
    <2> QED
        BY <2>1, HeadProperties DEF Made
<1>15. CASE HandlerReturns
    BY <1>15 DEF HandlerReturns, Made
<1>16. CASE HandlerThrows
    <2> DEFINE c == Last(stack).call
    <2>1. CASE c \in invocations
        <3>1. Forget({c}) /\ UNCHANGED <<incoming, methods, calls>> /\ {c} \subseteq invocations
            BY <1>16, <2>1 DEF HandlerThrows
        <3> QED
            BY <3>1, ForgetPlaces
    <2>2. CASE c \notin invocations
        BY <1>16, <2>2 DEF HandlerThrows, Made
    <2> QED
        BY <2>1, <2>2
<1>17. CASE UpdateEnd
    BY <1>17 DEF UpdateEnd, Made
<1>18. CASE Shutdown
    <2>1. /\ invocations' = {} /\ finished' = finished \cup invocations
          /\ UNCHANGED <<incoming, calls>> /\ methods' = <<>>
        BY <1>18 DEF Shutdown, Forget
    <2> QED
        BY <2>1, EmptyRange DEF Made
<1>19. CASE UNCHANGED vars
    BY <1>19 DEF vars, Made
<1> QED
    BY <1>1, <1>2, <1>3, <1>4, <1>5, <1>6, <1>7, <1>8, <1>9, <1>10, <1>11, <1>12, <1>13,
       <1>14, <1>15, <1>16, <1>17, <1>18, <1>19
    DEF Next, BusSteps, ScriptSteps, HookSteps

-----------------------------------------------------------------------------
(* Answers                                                                 *)

\* Some open calls are answered and finished.
LEMMA AnswersGiven ==
    ASSUME AnswerType, BusType, OnceInv, NEW gone, gone \subseteq Calls \ finished,
           NEW what \in {"reply", "error", "failed", "unknown", "unknownObject"},
           answers' = [d \in Calls |-> IF d \in gone THEN Sent(d, what) ELSE answers[d]],
           finished' = finished \cup gone, undone \subseteq undone'
    PROVE  /\ OnceInv'
           /\ \A d \in gone : ~calls[d].noReply /\ connection # 0 => answers'[d] # <<>>
           /\ \A d \in gone : \A i \in 1..Len(answers'[d]) : answers'[d][i].on = connection
           /\ \A d \in Calls \ gone : answers'[d] = answers[d]
<1>1. ASSUME NEW d \in gone
      PROVE  /\ answers'[d] = Sent(d, what) /\ Len(answers'[d]) <= 1
             /\ \A i \in 1..Len(answers'[d]) : answers'[d][i].on = connection
             /\ ~calls[d].noReply /\ connection # 0 => answers'[d] # <<>>
    <2>1. d \in Calls /\ answers[d] = <<>> /\ answers'[d] = Sent(d, what)
        BY DEF OnceInv
    <2> QED
        BY <2>1, SentProperties
<1>2. \A d \in Calls \ gone : answers'[d] = answers[d]
    OBVIOUS
<1>3. OnceInv'
    BY <1>1, <1>2 DEF OnceInv
<1> QED
    BY <1>1, <1>2, <1>3

\* One answer is given to an open call.
LEMMA AnswerGiven ==
    ASSUME AnswerType, BusType, OnceInv, NEW c \in Calls \ finished,
           NEW what \in {"reply", "error", "failed", "unknown", "unknownObject"},
           answers' = [answers EXCEPT ![c] = Sent(c, what)],
           finished' = finished \cup {c}, undone \subseteq undone'
    PROVE  /\ OnceInv'
           /\ ~calls[c].noReply /\ connection # 0 => answers'[c] # <<>>
           /\ \A i \in 1..Len(answers'[c]) : answers'[c][i].on = connection
           /\ \A d \in Calls \ {c} : answers'[d] = answers[d]
<1>1. answers' = [d \in Calls |-> IF d \in {c} THEN Sent(d, what) ELSE answers[d]]
    BY DEF AnswerType
<1> QED
    BY <1>1, AnswersGiven

\* The call of the frame that is about to send its reply, or to fail.
LEMMA FrameCall ==
    ASSUME StackType, PlaceType, ReplyInv, In("reply")
    PROVE  \/ Last(stack).call \in invocations
           \/ Last(stack).call \in undone /\ Last(stack).call \in finished
<1>1. stack \in Seq(Frames) /\ stack # <<>> /\ Last(stack).in = "reply"
    BY DEF StackType, In
<1>2. Last(stack) = stack[Len(stack)] /\ Len(stack) \in Nat \ {0}
    BY <1>1, FrontProperties
<1>3. Len(stack) \in 1..Len(stack)
    BY <1>2
<1> QED
    BY <1>1, <1>2, <1>3 DEF ReplyInv

\* A call is answered once.
LEMMA OnceStep ==
    ASSUME StackType, AnswerType, PlaceType, BusType, ReplyInv, PlaceInv, OnceInv, [Next]_vars
    PROVE  OnceInv'
<1> USE DEF service, bus, record, OnceInv
<1>1. CASE Publish
    BY <1>1 DEF Publish
<1>2. CASE DialFails
    BY <1>2 DEF DialFails
<1>3. CASE BusDrops
    BY <1>3 DEF BusDrops
<1>4. ASSUME NEW k \in Keys, NEW noReply \in BOOLEAN, PumpQueues(k, noReply) PROVE OnceInv'
    BY <1>4 DEF PumpQueues
<1>5. CASE Connect
    BY <1>5 DEF Connect, Forget
<1>6. ASSUME NEW k \in Keys, ExportObject(k) PROVE OnceInv'
    BY <1>6 DEF ExportObject
<1>7. ASSUME NEW k \in Keys, UnexportObject(k) PROVE OnceInv'
    <2>1. CallsTo(k) \subseteq Calls \ finished
        BY DEF CallsTo, PlaceInv, PlaceType
    <2>2. /\ answers' = [d \in Calls |-> IF d \in CallsTo(k) THEN Sent(d, "unknownObject")
                                                           ELSE answers[d]]
          /\ finished' = finished \cup CallsTo(k) /\ undone \subseteq undone'
        BY <1>7 DEF UnexportObject, Forget
    <2> QED
        BY <2>1, <2>2, AnswersGiven
<1>8. ASSUME NEW c \in Calls, Error(c) PROVE OnceInv'
    <2>1. c \in Calls \ finished
        BY <1>8 DEF Error, PlaceInv, PlaceType
    <2>2. /\ answers' = [answers EXCEPT ![c] = Sent(c, "error")]
          /\ finished' = finished \cup {c} /\ undone \subseteq undone'
        BY <1>8 DEF Error, Forget
    <2> QED
        BY <2>1, <2>2, AnswerGiven
<1>9. ASSUME NEW c \in Calls, ReplyBegin(c) PROVE OnceInv'
    BY <1>9 DEF ReplyBegin
<1>10. CASE ReplyThrows
    BY <1>10 DEF ReplyThrows
<1>11. CASE ReplyEnds
    <2> DEFINE c == Last(stack).call
    <2>1. CASE c \in invocations
        <3>1. c \in Calls \ finished
            BY <2>1 DEF PlaceInv, PlaceType
        <3>2. /\ answers' = [answers EXCEPT ![c] = Sent(c, "reply")]
              /\ finished' = finished \cup {c} /\ undone \subseteq undone'
            BY <1>11, <2>1 DEF ReplyEnds
        <3> QED
            BY <3>1, <3>2, AnswerGiven
    <2>2. CASE c \notin invocations
        <3>1. c \in undone /\ c \in finished
            BY <1>11, <2>2, FrameCall DEF ReplyEnds
        <3>2. UNCHANGED <<finished, undone>>
            BY <1>11, <2>2 DEF ReplyEnds
        <3>3. answers' = answers \/ answers' = [answers EXCEPT ![c] = Sent(c, "reply")]
            BY <1>11, <2>2 DEF ReplyEnds
        <3>4. \A d \in Calls \ {c} : answers'[d] = answers[d]
            BY <3>3 DEF AnswerType
        <3> QED
            BY <3>1, <3>2, <3>4
    <2> QED
        BY <2>1, <2>2
<1>12. CASE UpdateBegin
    BY <1>12 DEF UpdateBegin
<1>13. CASE UpdateRefuses
    <2>1. incoming # <<>> /\ incoming' = Tail(incoming)
        BY <1>13 DEF UpdateRefuses
    <2>2. Head(incoming) \in Calls \ finished
        BY <2>1, HeadProperties DEF PlaceInv
    <2>3. /\ answers' = [answers EXCEPT ![Head(incoming)] = Sent(Head(incoming), "unknown")]
          /\ finished' = finished \cup {Head(incoming)} /\ undone \subseteq undone'
        BY <1>13 DEF UpdateRefuses
    <2> QED
        BY <2>2, <2>3, AnswerGiven
<1>14. CASE UpdateCalls
    BY <1>14 DEF UpdateCalls
<1>15. CASE HandlerReturns
    BY <1>15 DEF HandlerReturns
<1>16. CASE HandlerThrows
    <2> DEFINE c == Last(stack).call
    <2>1. CASE c \in invocations
        <3>1. c \in Calls \ finished
            BY <2>1 DEF PlaceInv, PlaceType
        <3>2. /\ answers' = [answers EXCEPT ![c] = Sent(c, "failed")]
              /\ finished' = finished \cup {c} /\ undone \subseteq undone'
            BY <1>16, <2>1 DEF HandlerThrows, Forget
        <3> QED
            BY <3>1, <3>2, AnswerGiven
    <2>2. CASE c \notin invocations
        BY <1>16, <2>2 DEF HandlerThrows
    <2> QED
        BY <2>1, <2>2
<1>17. CASE UpdateEnd
    BY <1>17 DEF UpdateEnd
<1>18. CASE Shutdown
    BY <1>18 DEF Shutdown, Forget
<1>19. CASE UNCHANGED vars
    BY <1>19 DEF vars
<1> QED
    BY <1>1, <1>2, <1>3, <1>4, <1>5, <1>6, <1>7, <1>8, <1>9, <1>10, <1>11, <1>12, <1>13,
       <1>14, <1>15, <1>16, <1>17, <1>18, <1>19
    DEF Next, BusSteps, ScriptSteps, HookSteps

\* A call made is one of those there may be.
LEMMA MadeCalls ==
    ASSUME CallType
    PROVE  Made \subseteq Calls
BY ServiceBoundsAssumption DEF CallType, Made, Calls

\* The connections calls came in on, for the connection in use.
LEMMA CallConnection ==
    ASSUME CallType, NEW d \in Made
    PROVE  calls[d].on # 0
BY CallElement

\* A caller that waits is somewhere.
LEMMA WaitStep ==
    ASSUME StackType, AnswerType, CallType, PlaceType, BusType,
           HookInv, LinkInv, ReplyInv, PlaceInv, OnceInv, WaitInv, [Next]_vars
    PROVE  WaitInv'
<1> USE DEF service, bus, record, WaitInv
<1>1. CASE Publish
    <2>1. calls' = calls /\ connection' = dials + 1 /\ dials \in Nat
        BY <1>1 DEF Publish, BusType
    <2>2. ASSUME NEW d \in Made PROVE calls[d].on # dials + 1
        <3>1. calls[d].on <= dials
            BY DEF LinkInv
        <3>2. calls[d].on \in Nat
            BY CallElement
        <3> QED
            BY <2>1, <3>1, <3>2
    <2> QED
        BY <2>1, <2>2 DEF Made
<1>2. CASE DialFails
    BY <1>2 DEF DialFails, Made
<1>3. CASE BusDrops
    BY <1>3 DEF BusDrops, Made
<1>4. ASSUME NEW k \in Keys, NEW noReply \in BOOLEAN, PumpQueues(k, noReply) PROVE WaitInv'
    <2>1. /\ calls' = Append(calls, [key |-> k, on |-> connection, noReply |-> noReply])
          /\ methods' = Append(methods, Len(calls) + 1) /\ Len(calls) < MaxCalls
          /\ UNCHANGED <<incoming, invocations, answers, connection>>
        BY <1>4 DEF PumpQueues
    <2>2. Len(calls) \in Nat /\ Len(calls') = Len(calls) + 1
        BY <2>1 DEF CallType
    <2>3. Made' = Made \cup {Len(calls) + 1} /\ Len(calls) + 1 \notin Made
        BY <2>2 DEF Made
    <2>4. Len(calls) + 1 \in Calls
        BY <2>1, <2>2, ServiceBoundsAssumption DEF Calls
    <2>5. Len(calls) + 1 \notin Range(methods)
        BY <2>3 DEF PlaceInv
    <2>6. Range(methods') = Range(methods) \cup {Len(calls) + 1}
        BY <2>1, <2>4, <2>5, AppendRange DEF PlaceType, PlaceInv
    <2>7. \A d \in Made : calls'[d] = calls[d]
        BY <1>4, CallsKept DEF Next, BusSteps
    <2> QED
        BY <2>1, <2>3, <2>6, <2>7
<1>5. CASE Connect
    <2>1. calls' = calls /\ connection' = 0
        BY <1>5 DEF Connect
    <2> QED
        BY <2>1, CallConnection DEF Made
<1>6. ASSUME NEW k \in Keys, ExportObject(k) PROVE WaitInv'
    BY <1>6 DEF ExportObject, Made
<1>7. ASSUME NEW k \in Keys, UnexportObject(k) PROVE WaitInv'
    <2>1. CallsTo(k) \subseteq Calls \ finished
        BY DEF CallsTo, PlaceInv, PlaceType
    <2>2. /\ answers' = [d \in Calls |-> IF d \in CallsTo(k) THEN Sent(d, "unknownObject")
                                                           ELSE answers[d]]
          /\ finished' = finished \cup CallsTo(k) /\ undone \subseteq undone'
          /\ invocations' = invocations \ CallsTo(k)
          /\ UNCHANGED <<methods, incoming, calls, connection>>
        BY <1>7 DEF UnexportObject, Forget
    <2>3. /\ \A d \in CallsTo(k) : ~calls[d].noReply /\ connection # 0 => answers'[d] # <<>>
          /\ \A d \in Calls \ CallsTo(k) : answers'[d] = answers[d]
        BY <2>1, <2>2, AnswersGiven
    <2> QED
        BY <2>2, <2>3, CallConnection, MadeCalls DEF Made
<1>8. ASSUME NEW c \in Calls, Error(c) PROVE WaitInv'
    <2>1. c \in Calls \ finished
        BY <1>8 DEF Error, PlaceInv, PlaceType
    <2>2. /\ answers' = [answers EXCEPT ![c] = Sent(c, "error")]
          /\ finished' = finished \cup {c} /\ undone \subseteq undone'
          /\ invocations' = invocations \ {c}
          /\ UNCHANGED <<methods, incoming, calls, connection>>
        BY <1>8 DEF Error, Forget
    <2>3. /\ ~calls[c].noReply /\ connection # 0 => answers'[c] # <<>>
          /\ \A d \in Calls \ {c} : answers'[d] = answers[d]
        BY <2>1, <2>2, AnswerGiven
    <2> QED
        BY <2>2, <2>3, CallConnection, MadeCalls DEF Made
<1>9. ASSUME NEW c \in Calls, ReplyBegin(c) PROVE WaitInv'
    BY <1>9 DEF ReplyBegin, Made
<1>10. CASE ReplyThrows
    BY <1>10 DEF ReplyThrows, Made
<1>11. CASE ReplyEnds
    <2> DEFINE c == Last(stack).call
    <2>1. CASE c \in invocations
        <3>1. c \in Calls \ finished
            BY <2>1 DEF PlaceInv, PlaceType
        <3>2. /\ answers' = [answers EXCEPT ![c] = Sent(c, "reply")]
              /\ finished' = finished \cup {c} /\ undone \subseteq undone'
              /\ invocations' = invocations \ {c}
              /\ UNCHANGED <<methods, incoming, calls, connection>>
            BY <1>11, <2>1 DEF ReplyEnds
        <3>3. /\ ~calls[c].noReply /\ connection # 0 => answers'[c] # <<>>
              /\ \A d \in Calls \ {c} : answers'[d] = answers[d]
            BY <3>1, <3>2, AnswerGiven
        <3> QED
            BY <3>2, <3>3, CallConnection, MadeCalls DEF Made
    <2>2. CASE c \notin invocations
        <3>1. UNCHANGED <<methods, incoming, invocations, calls, connection>>
            BY <1>11, <2>2 DEF ReplyEnds
        <3>2. answers' = answers \/ answers' = [answers EXCEPT ![c] = Sent(c, "reply")]
            BY <1>11, <2>2 DEF ReplyEnds
        <3>3. c \in Calls
            BY <1>11, FrameCall DEF ReplyEnds, PlaceType
        <3>4. \A d \in Calls : answers'[d] = <<>> => answers[d] = <<>>
            <4>1. CASE answers' = answers
                BY <4>1
            <4>2. CASE answers' = [answers EXCEPT ![c] = Sent(c, "reply")]
                <5>1. answers'[c] = Sent(c, "reply") /\ \A d \in Calls \ {c} : answers'[d] = answers[d]
                    BY <3>3, <4>2 DEF AnswerType
                <5>2. Sent(c, "reply") = answers[c] \/ Sent(c, "reply") # <<>>
                    <6>1. answers[c] \in Seq(Answers)
                        BY <3>3 DEF AnswerType
                    <6>2. Append(answers[c], [what |-> "reply", on |-> connection]) # <<>>
                        BY <6>1
                    <6> QED
                        BY <6>2 DEF Sent
                <5> QED
                    BY <5>1, <5>2
            <4> QED
                BY <3>2, <4>1, <4>2
        <3> QED
            BY <3>1, <3>4, MadeCalls DEF Made
    <2> QED
        BY <2>1, <2>2
<1>12. CASE UpdateBegin
    <2>1. incoming = <<>> /\ incoming' = methods /\ methods' = <<>>
          /\ UNCHANGED <<invocations, answers, calls, connection>>
        BY <1>12 DEF UpdateBegin, HookInv
    <2> QED
        BY <2>1, EmptyRange DEF Made
<1>13. CASE UpdateRefuses
    <2>1. incoming # <<>> /\ incoming' = Tail(incoming)
          /\ UNCHANGED <<methods, invocations, calls, connection>>
        BY <1>13 DEF UpdateRefuses
    <2>2. /\ Head(incoming) \in Calls \ finished
          /\ Range(incoming) = {Head(incoming)} \cup Range(incoming')
        BY <2>1, HeadProperties DEF PlaceInv
    <2>3. /\ answers' = [answers EXCEPT ![Head(incoming)] = Sent(Head(incoming), "unknown")]
          /\ finished' = finished \cup {Head(incoming)} /\ undone \subseteq undone'
        BY <1>13 DEF UpdateRefuses
    <2>4. /\ ~calls[Head(incoming)].noReply /\ connection # 0 => answers'[Head(incoming)] # <<>>
          /\ \A d \in Calls \ {Head(incoming)} : answers'[d] = answers[d]
        BY <2>2, <2>3, AnswerGiven
    <2> QED
        BY <2>1, <2>2, <2>4, CallConnection, MadeCalls DEF Made
<1>14. CASE UpdateCalls
    <2>1. incoming # <<>> /\ incoming' = Tail(incoming)
          /\ invocations' = invocations \cup {Head(incoming)}
          /\ UNCHANGED <<methods, answers, calls, connection>>
        BY <1>14 DEF UpdateCalls
    <2> QED
        BY <2>1, HeadProperties DEF Made
<1>15. CASE HandlerReturns
    BY <1>15 DEF HandlerReturns, Made
<1>16. CASE HandlerThrows
    <2> DEFINE c == Last(stack).call
    <2>1. CASE c \in invocations
        <3>1. c \in Calls \ finished
            BY <2>1 DEF PlaceInv, PlaceType
        <3>2. /\ answers' = [answers EXCEPT ![c] = Sent(c, "failed")]
              /\ finished' = finished \cup {c} /\ undone \subseteq undone'
              /\ invocations' = invocations \ {c}
              /\ UNCHANGED <<methods, incoming, calls, connection>>
            BY <1>16, <2>1 DEF HandlerThrows, Forget
        <3>3. /\ ~calls[c].noReply /\ connection # 0 => answers'[c] # <<>>
              /\ \A d \in Calls \ {c} : answers'[d] = answers[d]
            BY <3>1, <3>2, AnswerGiven
        <3> QED
            BY <3>2, <3>3, CallConnection, MadeCalls DEF Made
    <2>2. CASE c \notin invocations
        BY <1>16, <2>2 DEF HandlerThrows, Made
    <2> QED
        BY <2>1, <2>2
<1>17. CASE UpdateEnd
    BY <1>17 DEF UpdateEnd, Made
<1>18. CASE Shutdown
    <2>1. calls' = calls /\ connection' = 0
        BY <1>18 DEF Shutdown
    <2> QED
        BY <2>1, CallConnection DEF Made
<1>19. CASE UNCHANGED vars
    BY <1>19 DEF vars, Made
<1> QED
    BY <1>1, <1>2, <1>3, <1>4, <1>5, <1>6, <1>7, <1>8, <1>9, <1>10, <1>11, <1>12, <1>13,
       <1>14, <1>15, <1>16, <1>17, <1>18, <1>19
    DEF Next, BusSteps, ScriptSteps, HookSteps

\* Calls queued or open are of the connection in use.
LEMMA HomeStep ==
    ASSUME CallType, PlaceType, HookInv, LinkInv, PlaceInv, HomeInv, [Next]_vars
    PROVE  HomeInv'
<1> USE DEF service, bus, record, HomeInv
<1>1. CASE Publish
    <2>1. connection = 0 /\ UNCHANGED <<methods, incoming, invocations, held, calls>>
        BY <1>1 DEF Publish, LinkInv
    <2> QED
        BY <2>1, CallConnection DEF PlaceInv
<1>2. CASE DialFails
    BY <1>2 DEF DialFails
<1>3. CASE BusDrops
    BY <1>3 DEF BusDrops
<1>4. ASSUME NEW k \in Keys, NEW noReply \in BOOLEAN, PumpQueues(k, noReply) PROVE HomeInv'
    <2>1. /\ calls' = Append(calls, [key |-> k, on |-> connection, noReply |-> noReply])
          /\ methods' = Append(methods, Len(calls) + 1) /\ Len(calls) < MaxCalls
          /\ UNCHANGED <<incoming, invocations, held, connection>>
        BY <1>4 DEF PumpQueues
    <2>2. Len(calls) \in Nat /\ calls'[Len(calls) + 1].on = connection
        BY <2>1 DEF CallType
    <2>3. Len(calls) + 1 \notin Made /\ Len(calls) + 1 \in Calls
        BY <2>1, <2>2, ServiceBoundsAssumption DEF Made, Calls
    <2>4. Range(methods') = Range(methods) \cup {Len(calls) + 1}
        BY <2>1, <2>3, AppendRange DEF PlaceType, PlaceInv
    <2>5. \A d \in Made : calls'[d] = calls[d]
        BY <1>4, CallsKept DEF Next, BusSteps
    <2> QED
        BY <2>1, <2>2, <2>4, <2>5 DEF PlaceInv
<1>5. CASE Connect
    <2>1. CASE connection # 0
        <3>1. /\ invocations' = {} /\ methods' = <<>> /\ incoming' = incoming
              /\ held' = held \cup Range(incoming)
            BY <1>5, <2>1 DEF Connect, Forget
        <3> QED
            BY <3>1, EmptyRange
    <2>2. CASE connection = 0
        <3>1. UNCHANGED <<methods, incoming, invocations, held, calls, connection>>
            BY <1>5, <2>2 DEF Connect
        <3> QED
            BY <3>1
    <2> QED
        BY <2>1, <2>2
<1>6. ASSUME NEW k \in Keys, ExportObject(k) PROVE HomeInv'
    BY <1>6 DEF ExportObject
<1>7. ASSUME NEW k \in Keys, UnexportObject(k) PROVE HomeInv'
    <2>1. /\ invocations' \subseteq invocations
          /\ UNCHANGED <<methods, incoming, held, calls, connection>>
        BY <1>7 DEF UnexportObject, Forget
    <2> QED
        BY <2>1
<1>8. ASSUME NEW c \in Calls, Error(c) PROVE HomeInv'
    <2>1. /\ invocations' \subseteq invocations
          /\ UNCHANGED <<methods, incoming, held, calls, connection>>
        BY <1>8 DEF Error, Forget
    <2> QED
        BY <2>1
<1>9. ASSUME NEW c \in Calls, ReplyBegin(c) PROVE HomeInv'
    BY <1>9 DEF ReplyBegin
<1>10. CASE ReplyThrows
    BY <1>10 DEF ReplyThrows
<1>11. CASE ReplyEnds
    <2>1. /\ invocations' \subseteq invocations
          /\ UNCHANGED <<methods, incoming, held, calls, connection>>
        BY <1>11 DEF ReplyEnds
    <2> QED
        BY <2>1
<1>12. CASE UpdateBegin
    <2>1. incoming = <<>> /\ incoming' = methods /\ methods' = <<>>
          /\ UNCHANGED <<invocations, held, calls, connection>>
        BY <1>12 DEF UpdateBegin, HookInv
    <2> QED
        BY <2>1, EmptyRange
<1>13. CASE UpdateRefuses
    <2>1. incoming # <<>> /\ incoming' = Tail(incoming)
          /\ UNCHANGED <<methods, invocations, held, calls, connection>>
        BY <1>13 DEF UpdateRefuses
    <2> QED
        BY <2>1, HeadProperties
<1>14. CASE UpdateCalls
    <2>1. incoming # <<>> /\ incoming' = Tail(incoming)
          /\ invocations' = invocations \cup {Head(incoming)}
          /\ UNCHANGED <<methods, held, calls, connection>>
        BY <1>14 DEF UpdateCalls
    <2> QED
        BY <2>1, HeadProperties
<1>15. CASE HandlerReturns
    BY <1>15 DEF HandlerReturns
<1>16. CASE HandlerThrows
    <2>1. /\ invocations' \subseteq invocations
          /\ UNCHANGED <<methods, incoming, held, calls, connection>>
        BY <1>16 DEF HandlerThrows, Forget
    <2> QED
        BY <2>1
<1>17. CASE UpdateEnd
    BY <1>17 DEF UpdateEnd
<1>18. CASE Shutdown
    <2>1. incoming' = <<>> /\ methods' = <<>> /\ invocations' = {}
        BY <1>18 DEF Shutdown, Forget, HookInv
    <2> QED
        BY <2>1, EmptyRange
<1>19. CASE UNCHANGED vars
    BY <1>19 DEF vars
<1> QED
    BY <1>1, <1>2, <1>3, <1>4, <1>5, <1>6, <1>7, <1>8, <1>9, <1>10, <1>11, <1>12, <1>13,
       <1>14, <1>15, <1>16, <1>17, <1>18, <1>19
    DEF Next, BusSteps, ScriptSteps, HookSteps

\* Answers go where they belong.
LEMMA RouteStep ==
    ASSUME StackType, AnswerType, CallType, PlaceType, BusType,
           HookInv, LinkInv, ReplyInv, PlaceInv, OnceInv, HomeInv, RouteInv, [Next]_vars
    PROVE  RouteInv'
<1> USE DEF service, bus, record, RouteInv
<1>1. CASE Publish
    BY <1>1 DEF Publish, Made
<1>2. CASE DialFails
    BY <1>2 DEF DialFails, Made
<1>3. CASE BusDrops
    BY <1>3 DEF BusDrops, Made
<1>4. ASSUME NEW k \in Keys, NEW noReply \in BOOLEAN, PumpQueues(k, noReply) PROVE RouteInv'
    <2>1. UNCHANGED <<answers, held, undone>>
        BY <1>4 DEF PumpQueues
    <2>2. \A d \in Made : d \in Made' /\ calls'[d] = calls[d]
        BY <1>4, CallsKept DEF Next, BusSteps
    <2> QED
        BY <2>1, <2>2
<1>5. CASE Connect
    <2>1. UNCHANGED <<answers, calls>> /\ held \subseteq held' /\ undone \subseteq undone'
        BY <1>5 DEF Connect, Forget
    <2> QED
        BY <2>1 DEF Made
<1>6. ASSUME NEW k \in Keys, ExportObject(k) PROVE RouteInv'
    BY <1>6 DEF ExportObject, Made
<1>7. ASSUME NEW k \in Keys, UnexportObject(k) PROVE RouteInv'
    <2>1. CallsTo(k) \subseteq Calls \ finished /\ CallsTo(k) \subseteq invocations
        BY DEF CallsTo, PlaceInv, PlaceType
    <2>2. /\ answers' = [d \in Calls |-> IF d \in CallsTo(k) THEN Sent(d, "unknownObject")
                                                           ELSE answers[d]]
          /\ finished' = finished \cup CallsTo(k) /\ undone \subseteq undone'
          /\ UNCHANGED <<calls, held>>
        BY <1>7 DEF UnexportObject, Forget
    <2>3. /\ \A d \in CallsTo(k) : \A i \in 1..Len(answers'[d]) : answers'[d][i].on = connection
          /\ \A d \in Calls \ CallsTo(k) : answers'[d] = answers[d]
        BY <2>1, <2>2, AnswersGiven
    <2>4. \A d \in CallsTo(k) \ held : d \in Made /\ calls[d].on = connection
        BY <2>1 DEF HomeInv, PlaceInv
    <2> QED
        BY <2>2, <2>3, <2>4 DEF Made
<1>8. ASSUME NEW c \in Calls, Error(c) PROVE RouteInv'
    <2>1. c \in Calls \ finished /\ c \in invocations
        BY <1>8 DEF Error, PlaceInv, PlaceType
    <2>2. /\ answers' = [answers EXCEPT ![c] = Sent(c, "error")]
          /\ finished' = finished \cup {c} /\ undone \subseteq undone'
          /\ UNCHANGED <<calls, held>>
        BY <1>8 DEF Error, Forget
    <2>3. /\ \A i \in 1..Len(answers'[c]) : answers'[c][i].on = connection
          /\ \A d \in Calls \ {c} : answers'[d] = answers[d]
        BY <2>1, <2>2, AnswerGiven
    <2>4. c \notin held => c \in Made /\ calls[c].on = connection
        BY <2>1 DEF HomeInv, PlaceInv
    <2> QED
        BY <2>2, <2>3, <2>4 DEF Made
<1>9. ASSUME NEW c \in Calls, ReplyBegin(c) PROVE RouteInv'
    BY <1>9 DEF ReplyBegin, Made
<1>10. CASE ReplyThrows
    BY <1>10 DEF ReplyThrows, Made
<1>11. CASE ReplyEnds
    <2> DEFINE c == Last(stack).call
    <2>1. CASE c \in invocations
        <3>1. c \in Calls \ finished
            BY <2>1 DEF PlaceInv, PlaceType
        <3>2. /\ answers' = [answers EXCEPT ![c] = Sent(c, "reply")]
              /\ finished' = finished \cup {c} /\ undone \subseteq undone'
              /\ UNCHANGED <<calls, held>>
            BY <1>11, <2>1 DEF ReplyEnds
        <3>3. /\ \A i \in 1..Len(answers'[c]) : answers'[c][i].on = connection
              /\ \A d \in Calls \ {c} : answers'[d] = answers[d]
            BY <3>1, <3>2, AnswerGiven
        <3>4. c \notin held => c \in Made /\ calls[c].on = connection
            BY <2>1 DEF HomeInv, PlaceInv
        <3> QED
            BY <3>2, <3>3, <3>4 DEF Made
    <2>2. CASE c \notin invocations
        <3>1. c \in undone
            BY <1>11, <2>2, FrameCall DEF ReplyEnds
        <3>2. UNCHANGED <<undone, held, calls>>
            BY <1>11, <2>2 DEF ReplyEnds
        <3>3. answers' = answers \/ answers' = [answers EXCEPT ![c] = Sent(c, "reply")]
            BY <1>11, <2>2 DEF ReplyEnds
        <3>4. \A d \in Calls \ {c} : answers'[d] = answers[d]
            BY <3>3 DEF AnswerType
        <3> QED
            BY <3>1, <3>2, <3>4 DEF Made
    <2> QED
        BY <2>1, <2>2
<1>12. CASE UpdateBegin
    BY <1>12 DEF UpdateBegin, Made
<1>13. CASE UpdateRefuses
    <2>1. incoming # <<>> /\ incoming' = Tail(incoming) /\ UNCHANGED <<calls, held>>
        BY <1>13 DEF UpdateRefuses
    <2>2. Head(incoming) \in Calls \ finished /\ Head(incoming) \in Range(incoming)
        BY <2>1, HeadProperties DEF PlaceInv
    <2>3. /\ answers' = [answers EXCEPT ![Head(incoming)] = Sent(Head(incoming), "unknown")]
          /\ finished' = finished \cup {Head(incoming)} /\ undone \subseteq undone'
        BY <1>13 DEF UpdateRefuses
    <2>4. /\ \A i \in 1..Len(answers'[Head(incoming)]) :
                answers'[Head(incoming)][i].on = connection
          /\ \A d \in Calls \ {Head(incoming)} : answers'[d] = answers[d]
        BY <2>2, <2>3, AnswerGiven
    <2>5. Head(incoming) \notin held
          => Head(incoming) \in Made /\ calls[Head(incoming)].on = connection
        BY <2>2 DEF HomeInv, PlaceInv
    <2> QED
        BY <2>1, <2>3, <2>4, <2>5 DEF Made
<1>14. CASE UpdateCalls
    BY <1>14 DEF UpdateCalls, Made
<1>15. CASE HandlerReturns
    BY <1>15 DEF HandlerReturns, Made
<1>16. CASE HandlerThrows
    <2> DEFINE c == Last(stack).call
    <2>1. CASE c \in invocations
        <3>1. c \in Calls \ finished
            BY <2>1 DEF PlaceInv, PlaceType
        <3>2. /\ answers' = [answers EXCEPT ![c] = Sent(c, "failed")]
              /\ finished' = finished \cup {c} /\ undone \subseteq undone'
              /\ UNCHANGED <<calls, held>>
            BY <1>16, <2>1 DEF HandlerThrows, Forget
        <3>3. /\ \A i \in 1..Len(answers'[c]) : answers'[c][i].on = connection
              /\ \A d \in Calls \ {c} : answers'[d] = answers[d]
            BY <3>1, <3>2, AnswerGiven
        <3>4. c \notin held => c \in Made /\ calls[c].on = connection
            BY <2>1 DEF HomeInv, PlaceInv
        <3> QED
            BY <3>2, <3>3, <3>4 DEF Made
    <2>2. CASE c \notin invocations
        BY <1>16, <2>2 DEF HandlerThrows, Made
    <2> QED
        BY <2>1, <2>2
<1>17. CASE UpdateEnd
    BY <1>17 DEF UpdateEnd, Made
<1>18. CASE Shutdown
    <2>1. UNCHANGED <<answers, calls, held>> /\ undone \subseteq undone'
        BY <1>18 DEF Shutdown, Forget
    <2> QED
        BY <2>1 DEF Made
<1>19. CASE UNCHANGED vars
    BY <1>19 DEF vars, Made
<1> QED
    BY <1>1, <1>2, <1>3, <1>4, <1>5, <1>6, <1>7, <1>8, <1>9, <1>10, <1>11, <1>12, <1>13,
       <1>14, <1>15, <1>16, <1>17, <1>18, <1>19
    DEF Next, BusSteps, ScriptSteps, HookSteps

-----------------------------------------------------------------------------

\* The invariant holds initially and every step preserves it.
THEOREM Invariance == Spec => []IInv
<1>1. IInv => /\ FlagType /\ StackType /\ AnswerType /\ CallType /\ PlaceType /\ BusType
              /\ HookInv /\ LinkInv /\ ReplyInv /\ PlaceInv
              /\ OnceInv /\ WaitInv /\ HomeInv /\ RouteInv /\ OpenCallsAreExported
    BY TypeParts DEF IInv
<1>2. IInv /\ [Next]_vars => TypeOK'
    BY TypeStep DEF IInv
<1>3. IInv /\ [Next]_vars => OpenCallsAreExported'
    BY <1>1, OpenStep
<1>4. IInv /\ [Next]_vars => HookInv' /\ LinkInv' /\ ReplyInv' /\ PlaceInv'
    BY <1>1, HookStep, LinkStep, ReplyStep, PlaceStep
<1>5. IInv /\ [Next]_vars => OnceInv' /\ WaitInv' /\ HomeInv' /\ RouteInv'
    BY <1>1, OnceStep, WaitStep, HomeStep, RouteStep
<1>6. IInv /\ [Next]_vars => IInv'
    BY <1>2, <1>3, <1>4, <1>5 DEF IInv
<1> QED
    BY <1>6, InitInv, PTL DEF Spec

\* The state of the service is well formed, and shutdown leaves no export, no open call
\* and no connection.
THEOREM TypeCorrect == Spec => []TypeOK
<1>1. IInv => TypeOK
    BY DEF IInv
<1> QED
    BY <1>1, Invariance, PTL

\* No call is answered twice, unless it was completed from within the conversion of its
\* own reply (service_update, invocation_finish, js_unexportObject).
THEOREM OneAnswer == Spec => []AnsweredOnce
<1>1. IInv => AnsweredOnce
    BY TypeParts, MadeCalls DEF IInv, OnceInv, AnsweredOnce
<1> QED
    BY <1>1, Invariance, PTL

\* A caller that waits is waited for: its call is in a queue or in the map, in one place
\* (service_update, invocation_finish, js_connect).
THEOREM CallsRemembered == Spec => []NoCallForgotten
<1>1. IInv => NoCallForgotten
    <2> SUFFICES ASSUME IInv PROVE NoCallForgotten
        OBVIOUS
    <2>1. incoming \in Seq(Calls) /\ methods \in Seq(Calls)
        BY TypeParts DEF IInv, PlaceType
    <2>2. IsInjective(incoming) /\ IsInjective(methods) /\ Range(incoming) \cap Range(methods) = {}
        BY DEF IInv, PlaceInv
    <2>3. /\ IsInjective(incoming \o methods)
          /\ Range(incoming \o methods) = Range(incoming) \cup Range(methods)
        BY <2>1, <2>2, LineRange
    <2> QED
        BY <2>3 DEF IInv, PlaceInv, WaitInv, NoCallForgotten
<1> QED
    BY <1>1, Invariance, PTL

\* An answer goes out on the connection of its call, unless the script reconnected while
\* the update hook held the call (service_update, js_connect).
THEOREM AnswersRouted == Spec => []AnswersOnOwnConnection
<1>1. IInv => AnswersOnOwnConnection
    BY TypeParts, MadeCalls DEF IInv, RouteInv, AnswersOnOwnConnection
<1> QED
    BY <1>1, Invariance, PTL

\* Every open call belongs to an exported interface (js_unexportObject).
THEOREM OpenExported == Spec => []OpenCallsAreExported
<1>1. IInv => OpenCallsAreExported
    BY DEF IInv
<1> QED
    BY <1>1, Invariance, PTL

=============================================================================
