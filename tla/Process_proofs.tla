--------------------------- MODULE Process_proofs --------------------------
(***************************************************************************)
(* For any number of children, chunks and calls: an exec promise is settled *)
(* truly, no signal goes astray but from a listener, shutdown leaves no     *)
(* child behind, and listeners hear a stream in order.                      *)
(***************************************************************************)
EXTENDS Process, SequenceLemmas, FiniteSetTheorems, TLAPS

Output == [Streams -> Seq(Nat)]

\* How an exec promise is to be settled.
Finals == [id : Ids, ok : BOOLEAN, out : Output]

JsPcs == {"idle", "read", "wait", "emit", "call", "write", "sdWait", "sdTry", "sdReap"}

ScriptType ==
    /\ js \in [pc : JsPcs, id : Ids \cup {0}, back : {"idle", "call"}]
    /\ js.pc \in {"wait", "sdTry", "sdReap"} => js.id \in Ids
    /\ todo \subseteq Ids /\ dead \subseteq Ids
    /\ finals \in Seq(Finals)

TableType ==
    /\ processes \subseteq Ids /\ execRequests \subseteq Ids
    /\ execOut \in [Ids -> Output]
    /\ nextId \in Nat \ {0} /\ context \in BOOLEAN

ChildType ==
    /\ child \in [Ids -> {"none", "running", "zombie", "reaped"}]
    /\ ok \in [Ids -> BOOLEAN]
    /\ wrote \in [Ids -> [Streams -> Nat]] /\ pipe \in [Ids -> [Streams -> Nat]]

SeenType ==
    /\ stray \in Nat
    /\ outcome \in [Ids -> {"none", "resolved", "rejected"}]
    /\ gave \in [Ids -> Output]

\* The types of what the first three theorems are about; those of the listeners and of
\* what they heard come with EventType below.
TypeInv == ScriptType /\ TableType /\ ChildType /\ SeenType

Alive(id) == child[id] \in {"running", "zombie"}

\* A number not given out has no child, and what has no child has written nothing.
FreshInv ==
    /\ \A id \in Ids : id >= nextId => child[id] = "none"
    /\ \A id \in Ids : child[id] = "none" => wrote[id] = EmptyPipes /\ pipe[id] = EmptyPipes

\* A child not reaped is in the map, and one that is reaped leaves it with the update
\* that reaped it.
MapInv ==
    /\ \A id \in Ids : Alive(id) => id \in processes
    /\ \A id \in processes : child[id] = "reaped" => id \in dead \/ InShutdown
    /\ \A id \in dead : child[id] = "reaped"

\* Between two hooks their locals are empty.
HookInv ==
    js.pc \in {"idle", "sdWait", "sdTry", "sdReap"} \/ (js.pc = "write" /\ js.back = "idle")
        => dead = {} /\ finals = <<>>

\* out is the beginning of what id wrote.
Begins(out, id) ==
    \A s \in Streams : /\ Len(out[s]) <= wrote[id][s]
                       /\ \A i \in 1..Len(out[s]) : out[s][i] = i

\* A request is for a child not reaped, and has collected what is no longer in the pipe.
RequestInv ==
    /\ \A id \in execRequests : Alive(id) /\ Begins(execOut[id], id)
    /\ \A id \in execRequests, s \in Streams : Len(execOut[id][s]) + pipe[id][s] = wrote[id][s]
    /\ \A id \in Ids \ execRequests : execOut[id] = NoOutput

\* A settlement that is true.
Truth(f) == child[f.id] = "reaped" /\ f.ok = ok[f.id] /\ Begins(f.out, f.id)

\* What is to be settled is true.
FinalInv == \A i \in 1..Len(finals) : Truth(finals[i])

\* Shutdown frees what the script has, then goes through the children.
ShutdownInv ==
    /\ InShutdown \/ ~context =>
          /\ execRequests = {} /\ stdin = {}
          /\ \A id \in Ids, k \in Kinds : listeners[id][k] = <<>>
    /\ InShutdown => \A id \in Ids : Alive(id) =>
          id \in todo \/ (js.pc \in {"sdTry", "sdReap"} /\ js.id = id)
    /\ ~context => processes = {} /\ (js.pc = "idle" \/ (js.pc = "sdWait" /\ todo = {}))

IInv ==
    /\ TypeInv /\ FreshInv /\ MapInv /\ HookInv
    /\ RequestInv /\ FinalInv /\ ShutdownInv /\ ExecSettledTruly

\* A request that has collected nothing.
LEMMA NoOutputType == NoOutput \in Output
    BY DEF NoOutput, Output

\* The number of signals that go astray is a number.
LEMMA StraysType ==
    ASSUME TypeInv, NEW ids \in SUBSET Ids
    PROVE  Strays(ids) \in Nat
<1> DEFINE S == {id \in ids : child[id] = "reaped"}
<1>1. IsFiniteSet(S)
    <2>1. S \subseteq 1..MaxId
        BY DEF Ids
    <2>2. IsFiniteSet(1..MaxId)
        BY ProcessBoundsAssumption, FS_Interval
    <2> QED
        BY <2>1, <2>2, FS_Subset
<1>2. Cardinality(S) \in Nat
    BY <1>1, FS_CardinalityType
<1> QED
    BY <1>2 DEF Strays, TypeInv, SeenType

\* Nothing strays to children that were not reaped.
LEMMA NoStrays ==
    ASSUME TypeInv, NEW ids \in SUBSET Ids, \A id \in ids : child[id] # "reaped"
    PROVE  Strays(ids) = stray
<1>1. {id \in ids : child[id] = "reaped"} = {}
    OBVIOUS
<1> QED
    BY <1>1, FS_EmptySet DEF Strays, TypeInv, SeenType

\* What waits in the pipes of a process, as its request collects it.
LEMMA WaitingType ==
    ASSUME TypeInv, NEW id \in Ids, NEW s \in Streams, pipe[id][s] <= wrote[id][s]
    PROVE  /\ Waiting(id, s) \in Seq(Nat) /\ Len(Waiting(id, s)) = pipe[id][s]
           /\ \A k \in 1..pipe[id][s] : Waiting(id, s)[k] = wrote[id][s] - pipe[id][s] + k
<1>1. pipe[id][s] \in Nat /\ wrote[id][s] \in Nat
    BY DEF TypeInv, ChildType
<1>2. Waiting(id, s) \in [1..pipe[id][s] -> Nat]
    BY <1>1 DEF Waiting
<1> QED
    BY <1>1, <1>2, SeqDef DEF Waiting

\* Every step keeps the types.
LEMMA TypeNext == TypeInv /\ RequestInv /\ [Next]_vars => TypeInv'
<1> SUFFICES ASSUME TypeInv /\ RequestInv, [Next]_vars
             PROVE  TypeInv'
    OBVIOUS
<1> USE DEF script, tables, os, seen, TypeInv, ScriptType, TableType, ChildType,
            SeenType, JsPcs
<1>1. CASE Spawn
    BY <1>1 DEF Spawn, Start
<1>2. CASE Exec
    BY <1>2 DEF Exec, Start
<1>3. ASSUME NEW id \in Ids, Write(id)
      PROVE  TypeInv'
    BY <1>3 DEF Write, CallOn, Callable
<1>4. ASSUME NEW id \in Ids, Kill(id)
      PROVE  TypeInv'
    <2>1. stray' \in Nat
        BY <1>4, StraysType DEF Kill
    <2>2. UNCHANGED <<js, todo, dead, finals, processes, execRequests, execOut, nextId, context,
                      child, ok, wrote, pipe, outcome, gave>>
        BY <1>4 DEF Kill, CallOn
    <2> QED
        BY <2>1, <2>2
<1>5. CASE WriteReturnsNow
    BY <1>5 DEF WriteReturnsNow, At
<1>6. CASE UpdateBegin
    BY <1>6 DEF UpdateBegin, At
<1>7. ASSUME NEW id \in Ids, UpdateRead(id)
      PROVE  TypeInv'
    <2>1. /\ js' = [js EXCEPT !.pc = "wait", !.id = id] /\ todo' = todo \ {id}
          /\ pipe' = [pipe EXCEPT ![id] = EmptyPipes]
          /\ UNCHANGED <<dead, finals, processes, execRequests, nextId, context, child, ok,
                         wrote,
                         stray, outcome, gave>>
        BY <1>7 DEF UpdateRead
    <2>2. execOut' \in [Ids -> Output]
        <3>1. CASE id \in execRequests
            <4>1. execOut' = [execOut EXCEPT ![id] = [s \in Streams |-> @[s] \o Waiting(id, s)]]
                BY <3>1, <1>7 DEF UpdateRead
            <4>2. \A s \in Streams : execOut[id][s] \o Waiting(id, s) \in Seq(Nat)
                BY <3>1, WaitingType DEF Output, RequestInv
            <4> QED
                BY <4>1, <4>2 DEF Output
        <3>2. CASE id \notin execRequests
            BY <3>2, <1>7 DEF UpdateRead
        <3> QED
            BY <3>1, <3>2
    <2>3. pipe' \in [Ids -> [Streams -> Nat]]
        BY <2>1 DEF EmptyPipes
    <2> QED
        BY <2>1, <2>2, <2>3
<1>8. CASE UpdateWait
    <2> DEFINE f == [id |-> js.id, ok |-> ok[js.id], out |-> execOut[js.id]]
    <2>1. js.id \in Ids /\ f \in Finals
        BY <1>8 DEF UpdateWait, Finals
    <2>2. finals' = finals \/ finals' = Append(finals, f)
        BY <1>8 DEF UpdateWait
    <2>3. finals' \in Seq(Finals)
        <3> HIDE DEF f
        <3>1. finals \in Seq(Finals)
            OBVIOUS
        <3> QED
            BY ONLY <2>1, <2>2, <3>1
    <2>4. execOut' = execOut \/ execOut' = [execOut EXCEPT ![js.id] = NoOutput]
        BY <1>8 DEF UpdateWait
    <2>5. execOut' \in [Ids -> Output]
        <3>1. js.id \in Ids /\ execOut \in [Ids -> Output]
            BY <2>1
        <3> QED
            BY ONLY <2>4, <3>1, NoOutputType
    <2>6. /\ js' \in [pc : JsPcs, id : Ids \cup {0}, back : {"idle", "call"}]
          /\ js'.pc \in {"emit", "read"}
        BY <1>8 DEF UpdateWait, At
    <2>7. UNCHANGED <<todo, processes, nextId, context, ok, wrote, pipe, stray, outcome, gave>>
        BY <1>8 DEF UpdateWait
    <2>8. dead' \subseteq Ids /\ execRequests' \subseteq Ids
        BY <2>1, <1>8 DEF UpdateWait
    <2>9. child' \in [Ids -> {"none", "running", "zombie", "reaped"}]
        BY <2>1, <1>8 DEF UpdateWait, Reaped
    <2> QED
        BY <2>3, <2>5, <2>6, <2>7, <2>8, <2>9
<1>9. ASSUME NEW cb \in Callbacks, CallListener(cb)
      PROVE  TypeInv'
    BY <1>9 DEF CallListener, At
<1>10. CASE ListenerReturns
    BY <1>10 DEF ListenerReturns, At
<1>11. CASE UpdateEnd
    <2>1. \A id \in Settling : FinalOf(id) \in Finals
        <3> SUFFICES ASSUME NEW id \in Settling
                     PROVE  FinalOf(id) \in Finals
            OBVIOUS
        <3>1. \E f \in Range(finals) : f.id = id
            BY DEF Settling, Range
        <3>2. FinalOf(id) \in Range(finals)
            BY <3>1 DEF FinalOf
        <3>3. PICK i \in DOMAIN finals : FinalOf(id) = finals[i]
            BY <3>2 DEF Range
        <3> QED
            BY <3>3
    <2>2. outcome' \in [Ids -> {"none", "resolved", "rejected"}]
        BY <1>11 DEF UpdateEnd
    <2>3. gave' \in [Ids -> Output]
        BY <2>1, <1>11 DEF UpdateEnd, Finals
    <2>4. pipe' \in [Ids -> [Streams -> Nat]]
        BY <1>11 DEF UpdateEnd, EmptyPipes
    <2>5. /\ js' = At("idle") /\ dead' = {} /\ finals' = <<>>
          /\ processes' \subseteq processes
          /\ UNCHANGED <<todo, execRequests, execOut, nextId, context, child, ok, wrote, stray>>
        BY <1>11 DEF UpdateEnd
    <2>6. <<>> \in Seq(Finals)
        OBVIOUS
    <2> QED
        BY <2>2, <2>3, <2>4, <2>5, <2>6 DEF At
<1>12. CASE ShutdownBegin
    <2>1. /\ js' = At("sdWait") /\ todo' = processes /\ execRequests' = {}
          /\ UNCHANGED <<dead, finals, processes, nextId, context, child, ok, wrote, outcome,
                         gave>>
        BY <1>12 DEF ShutdownBegin
    <2>2. stray' \in Nat
        BY <1>12, StraysType DEF ShutdownBegin
    <2>3. execOut' \in [Ids -> Output] /\ pipe' \in [Ids -> [Streams -> Nat]]
        BY <1>12 DEF ShutdownBegin, NoOutput, EmptyPipes, Output
    <2> QED
        BY <2>1, <2>2, <2>3 DEF At
<1>13. ASSUME NEW id \in Ids, ShutdownWait(id)
      PROVE  TypeInv'
    BY <1>13 DEF ShutdownWait, At, Reaped
<1>14. CASE ShutdownTry
    <2>1. js.id \in Ids /\ UNCHANGED <<todo, dead, finals, processes, execRequests, execOut,
                                       nextId,
                                       context, ok, wrote, pipe, stray, outcome, gave>>
        BY <1>14 DEF ShutdownTry
    <2>2. child' \in [Ids -> {"none", "running", "zombie", "reaped"}]
        BY <2>1, <1>14 DEF ShutdownTry, Reaped
    <2>3. js' = [js EXCEPT !.pc = "sdReap"] \/ js' = At("sdWait")
        BY <1>14 DEF ShutdownTry
    <2>4. CASE js' = [js EXCEPT !.pc = "sdReap"]
        BY <2>1, <2>2, <2>4
    <2>5. CASE js' = At("sdWait")
        BY <2>1, <2>2, <2>5 DEF At
    <2> QED
        BY <2>3, <2>4, <2>5
<1>15. CASE ShutdownReap
    BY <1>15 DEF ShutdownReap, At, Reaped
<1>16. CASE ShutdownEnd
    BY <1>16 DEF ShutdownEnd, At
<1>17. ASSUME NEW id \in Ids, NEW s \in Streams, ChildWrites(id, s)
      PROVE  TypeInv'
    BY <1>17 DEF ChildWrites
<1>18. ASSUME NEW id \in Ids, NEW well \in BOOLEAN, ChildExits(id, well)
      PROVE  TypeInv'
    BY <1>18 DEF ChildExits
<1>19. CASE \/ \E id \in Ids : CloseStdin(id)
            \/ \E id \in Ids, k \in Kinds, cb \in Callbacks : On(id, k, cb)
            \/ \E id \in Ids, k \in Kinds, cb \in Callbacks : Off(id, k, cb)
            \/ EventDone
            \/ \E id \in Ids : ChildReads(id)
            \/ UNCHANGED vars
    <2>1. UNCHANGED <<js, todo, dead, finals, processes, execRequests, execOut, nextId,
                      context, child, ok, wrote, pipe, stray, outcome, gave>>
        <3>1. ASSUME NEW id \in Ids, CloseStdin(id)
               PROVE  UNCHANGED <<js, todo, dead, finals, processes, execRequests, execOut,
                                  nextId, context, child, ok, wrote, pipe, stray, outcome,
                                  gave>>
            BY <3>1 DEF CloseStdin, CallOn, script, tables, os, seen
        <3>2. ASSUME NEW id \in Ids, NEW k \in Kinds, NEW cb \in Callbacks, On(id, k, cb)
               PROVE  UNCHANGED <<js, todo, dead, finals, processes, execRequests, execOut,
                                  nextId, context, child, ok, wrote, pipe, stray, outcome,
                                  gave>>
            BY <3>2 DEF On, CallOn, script, tables, os, seen
        <3>3. ASSUME NEW id \in Ids, NEW k \in Kinds, NEW cb \in Callbacks, Off(id, k, cb)
               PROVE  UNCHANGED <<js, todo, dead, finals, processes, execRequests, execOut,
                                  nextId, context, child, ok, wrote, pipe, stray, outcome,
                                  gave>>
            BY <3>3 DEF Off, CallOn, script, tables, os, seen
        <3>4. CASE EventDone
            BY <3>4 DEF EventDone, script, tables, os, seen
        <3>5. ASSUME NEW id \in Ids, ChildReads(id)
               PROVE  UNCHANGED <<js, todo, dead, finals, processes, execRequests, execOut,
                                  nextId, context, child, ok, wrote, pipe, stray, outcome,
                                  gave>>
            BY <3>5 DEF ChildReads, script, tables, os, seen
        <3>6. CASE UNCHANGED vars
            BY <3>6 DEF vars, script, tables, os, seen
        <3> QED
            BY <1>19, <3>1, <3>2, <3>3, <3>4, <3>5, <3>6
    <2> QED
        BY <2>1
<1> HIDE DEF script, tables, os, seen, TypeInv, ScriptType, TableType, ChildType,
             SeenType, JsPcs
<1> QED
    BY <1>1, <1>2, <1>3, <1>4, <1>5, <1>6, <1>7, <1>8, <1>9, <1>10, <1>11, <1>12,
       <1>13, <1>14, <1>15, <1>16, <1>17, <1>18, <1>19
    DEF Next, ScriptSteps, UpdateSteps, ShutdownSteps, ChildSteps

\* The numbers not given out.
LEMMA FreshNext == TypeInv /\ MapInv /\ FreshInv /\ [Next]_vars => FreshInv'
<1> SUFFICES ASSUME TypeInv /\ MapInv /\ FreshInv, [Next]_vars
             PROVE  FreshInv'
    OBVIOUS
<1> USE DEF script, tables, os, seen, FreshInv
<1>1. child \in [Ids -> {"none", "running", "zombie", "reaped"}] /\ nextId \in Nat \ {0}
      /\ wrote \in [Ids -> [Streams -> Nat]] /\ pipe \in [Ids -> [Streams -> Nat]]
    BY DEF TypeInv, TableType, ChildType
<1>2. CASE Spawn
    BY <1>1, <1>2 DEF Spawn, Start, Ids
<1>3. CASE Exec
    BY <1>1, <1>3 DEF Exec, Start, Ids
<1>4. ASSUME NEW id \in Ids, UpdateRead(id)
      PROVE  FreshInv'
    BY <1>1, <1>4 DEF UpdateRead
<1>5. CASE UpdateWait
    BY <1>1, <1>5 DEF UpdateWait, Reaped
<1>6. CASE UpdateEnd
    BY <1>1, <1>6 DEF UpdateEnd, MapInv
<1>7. CASE ShutdownBegin
    BY <1>1, <1>7 DEF ShutdownBegin
<1>8. ASSUME NEW id \in Ids, ShutdownWait(id)
      PROVE  FreshInv'
    BY <1>1, <1>8 DEF ShutdownWait, Reaped
<1>9. CASE ShutdownTry
    BY <1>1, <1>9 DEF ShutdownTry, Reaped
<1>10. CASE ShutdownReap
    BY <1>1, <1>10 DEF ShutdownReap, Reaped
<1>11. ASSUME NEW id \in Ids, NEW s \in Streams, ChildWrites(id, s)
      PROVE  FreshInv'
    BY <1>1, <1>11 DEF ChildWrites
<1>12. ASSUME NEW id \in Ids, NEW well \in BOOLEAN, ChildExits(id, well)
      PROVE  FreshInv'
    BY <1>1, <1>12 DEF ChildExits
<1>13. CASE \/ \E id \in Ids : Write(id)
            \/ \E id \in Ids : CloseStdin(id)
            \/ \E id \in Ids : Kill(id)
            \/ \E id \in Ids, k \in Kinds, cb \in Callbacks : On(id, k, cb)
            \/ \E id \in Ids, k \in Kinds, cb \in Callbacks : Off(id, k, cb)
            \/ WriteReturnsNow
            \/ UpdateBegin
            \/ \E cb \in Callbacks : CallListener(cb)
            \/ ListenerReturns
            \/ EventDone
            \/ ShutdownEnd
            \/ \E id \in Ids : ChildReads(id)
            \/ UNCHANGED vars
    <2>1. UNCHANGED <<nextId, child, wrote, pipe>>
        <3>1. ASSUME NEW id \in Ids, Write(id)
               PROVE  UNCHANGED <<nextId, child, wrote, pipe>>
            BY <3>1 DEF Write, CallOn, script, tables, os, seen
        <3>2. ASSUME NEW id \in Ids, CloseStdin(id)
               PROVE  UNCHANGED <<nextId, child, wrote, pipe>>
            BY <3>2 DEF CloseStdin, CallOn, script, tables, os, seen
        <3>3. ASSUME NEW id \in Ids, Kill(id)
               PROVE  UNCHANGED <<nextId, child, wrote, pipe>>
            BY <3>3 DEF Kill, CallOn, script, tables, os, seen
        <3>4. ASSUME NEW id \in Ids, NEW k \in Kinds, NEW cb \in Callbacks, On(id, k, cb)
               PROVE  UNCHANGED <<nextId, child, wrote, pipe>>
            BY <3>4 DEF On, CallOn, script, tables, os, seen
        <3>5. ASSUME NEW id \in Ids, NEW k \in Kinds, NEW cb \in Callbacks, Off(id, k, cb)
               PROVE  UNCHANGED <<nextId, child, wrote, pipe>>
            BY <3>5 DEF Off, CallOn, script, tables, os, seen
        <3>6. CASE WriteReturnsNow
            BY <3>6 DEF WriteReturnsNow, script, tables, os, seen
        <3>7. CASE UpdateBegin
            BY <3>7 DEF UpdateBegin, script, tables, os, seen
        <3>8. ASSUME NEW cb \in Callbacks, CallListener(cb)
               PROVE  UNCHANGED <<nextId, child, wrote, pipe>>
            BY <3>8 DEF CallListener, script, tables, os, seen
        <3>9. CASE ListenerReturns
            BY <3>9 DEF ListenerReturns, script, tables, os, seen
        <3>10. CASE EventDone
            BY <3>10 DEF EventDone, script, tables, os, seen
        <3>11. CASE ShutdownEnd
            BY <3>11 DEF ShutdownEnd, script, tables, os, seen
        <3>12. ASSUME NEW id \in Ids, ChildReads(id)
               PROVE  UNCHANGED <<nextId, child, wrote, pipe>>
            BY <3>12 DEF ChildReads, script, tables, os, seen
        <3>13. CASE UNCHANGED vars
            BY <3>13 DEF vars, script, tables, os, seen
        <3> QED
            BY <1>13, <3>1, <3>2, <3>3, <3>4, <3>5, <3>6, <3>7, <3>8, <3>9, <3>10, <3>11,
               <3>12, <3>13
    <2> QED
        BY <1>1, <2>1
<1> HIDE DEF script, tables, os, seen, FreshInv
<1> QED
    BY <1>2, <1>3, <1>4, <1>5, <1>6, <1>7, <1>8, <1>9, <1>10, <1>11, <1>12, <1>13
    DEF Next, ScriptSteps, UpdateSteps, ShutdownSteps, ChildSteps

\* The children and the map.
LEMMA MapNext ==
    TypeInv /\ FreshInv /\ ShutdownInv /\ HookInv /\ MapInv /\ [Next]_vars => MapInv'
<1> SUFFICES ASSUME TypeInv /\ FreshInv /\ ShutdownInv /\ HookInv /\ MapInv, [Next]_vars
             PROVE  MapInv'
    OBVIOUS
<1> USE DEF script, tables, os, seen, MapInv, Alive, InShutdown
<1>1. child \in [Ids -> {"none", "running", "zombie", "reaped"}] /\ nextId \in Nat \ {0}
      /\ processes \subseteq Ids /\ dead \subseteq Ids
      /\ js \in [pc : JsPcs, id : Ids \cup {0}, back : {"idle", "call"}]
      /\ (js.pc \in {"wait", "sdTry", "sdReap"} => js.id \in Ids)
    BY DEF TypeInv, ScriptType, TableType, ChildType
<1>2. CASE Spawn
    BY <1>1, <1>2 DEF Spawn, Start, FreshInv, Ids, Callable
<1>3. CASE Exec
    BY <1>1, <1>3 DEF Exec, Start, FreshInv, Ids, Callable
<1>4. ASSUME NEW id \in Ids, Write(id)
      PROVE  MapInv'
    BY <1>1, <1>4 DEF Write, CallOn, Callable
<1>5. CASE WriteReturnsNow
    BY <1>1, <1>5 DEF WriteReturnsNow, At
<1>6. CASE UpdateBegin
    BY <1>1, <1>6 DEF UpdateBegin, At
<1>7. ASSUME NEW id \in Ids, UpdateRead(id)
      PROVE  MapInv'
    BY <1>1, <1>7 DEF UpdateRead
<1>8. CASE UpdateWait
    BY <1>1, <1>8 DEF UpdateWait, At, Reaped
<1>9. ASSUME NEW cb \in Callbacks, CallListener(cb)
      PROVE  MapInv'
    BY <1>1, <1>9 DEF CallListener, At
<1>10. CASE ListenerReturns
    BY <1>1, <1>10 DEF ListenerReturns, At
<1>11. CASE UpdateEnd
    BY <1>1, <1>11 DEF UpdateEnd, At, HookInv
<1>12. CASE ShutdownBegin
    BY <1>1, <1>12 DEF ShutdownBegin, At, HookInv
<1>13. ASSUME NEW id \in Ids, ShutdownWait(id)
      PROVE  MapInv'
    BY <1>1, <1>13 DEF ShutdownWait, At, Reaped
<1>14. CASE ShutdownTry
    BY <1>1, <1>14 DEF ShutdownTry, At, Reaped
<1>15. CASE ShutdownReap
    BY <1>1, <1>15 DEF ShutdownReap, At, Reaped
<1>16. CASE ShutdownEnd
    BY <1>1, <1>16 DEF ShutdownEnd, At, ShutdownInv, HookInv, Alive
<1>17. ASSUME NEW id \in Ids, NEW well \in BOOLEAN, ChildExits(id, well)
      PROVE  MapInv'
    BY <1>1, <1>17 DEF ChildExits
<1>18. CASE \/ \E id \in Ids : CloseStdin(id)
            \/ \E id \in Ids : Kill(id)
            \/ \E id \in Ids, k \in Kinds, cb \in Callbacks : On(id, k, cb)
            \/ \E id \in Ids, k \in Kinds, cb \in Callbacks : Off(id, k, cb)
            \/ EventDone
            \/ \E id \in Ids : ChildReads(id)
            \/ \E id \in Ids, s \in Streams : ChildWrites(id, s)
            \/ UNCHANGED vars
    <2>1. UNCHANGED <<js, processes, child, dead>>
        <3>1. ASSUME NEW id \in Ids, CloseStdin(id)
               PROVE  UNCHANGED <<js, processes, child, dead>>
            BY <3>1 DEF CloseStdin, CallOn, script, tables, os, seen
        <3>2. ASSUME NEW id \in Ids, Kill(id)
               PROVE  UNCHANGED <<js, processes, child, dead>>
            BY <3>2 DEF Kill, CallOn, script, tables, os, seen
        <3>3. ASSUME NEW id \in Ids, NEW k \in Kinds, NEW cb \in Callbacks, On(id, k, cb)
               PROVE  UNCHANGED <<js, processes, child, dead>>
            BY <3>3 DEF On, CallOn, script, tables, os, seen
        <3>4. ASSUME NEW id \in Ids, NEW k \in Kinds, NEW cb \in Callbacks, Off(id, k, cb)
               PROVE  UNCHANGED <<js, processes, child, dead>>
            BY <3>4 DEF Off, CallOn, script, tables, os, seen
        <3>5. CASE EventDone
            BY <3>5 DEF EventDone, script, tables, os, seen
        <3>6. ASSUME NEW id \in Ids, ChildReads(id)
               PROVE  UNCHANGED <<js, processes, child, dead>>
            BY <3>6 DEF ChildReads, script, tables, os, seen
        <3>7. ASSUME NEW id \in Ids, NEW s \in Streams, ChildWrites(id, s)
               PROVE  UNCHANGED <<js, processes, child, dead>>
            BY <3>7 DEF ChildWrites, script, tables, os, seen
        <3>8. CASE UNCHANGED vars
            BY <3>8 DEF vars, script, tables, os, seen
        <3> QED
            BY <1>18, <3>1, <3>2, <3>3, <3>4, <3>5, <3>6, <3>7, <3>8
    <2> QED
        BY <1>1, <2>1
<1> HIDE DEF script, tables, os, seen, MapInv, Alive, InShutdown
<1> QED
    BY <1>2, <1>3, <1>4, <1>5, <1>6, <1>7, <1>8, <1>9, <1>10, <1>11, <1>12, <1>13,
       <1>14, <1>15, <1>16, <1>17, <1>18
    DEF Next, ScriptSteps, UpdateSteps, ShutdownSteps, ChildSteps

\* The locals of the hooks.
LEMMA HookNext == TypeInv /\ HookInv /\ [Next]_vars => HookInv'
<1> SUFFICES ASSUME TypeInv /\ HookInv, [Next]_vars
             PROVE  HookInv'
    OBVIOUS
<1> USE DEF script, tables, os, seen, HookInv
<1>1. js \in [pc : JsPcs, id : Ids \cup {0}, back : {"idle", "call"}]
    BY DEF TypeInv, ScriptType
<1>2. ASSUME NEW id \in Ids, Write(id)
      PROVE  HookInv'
    BY <1>1, <1>2 DEF Write, CallOn, Callable
<1>3. CASE WriteReturnsNow
    BY <1>1, <1>3 DEF WriteReturnsNow, At
<1>4. CASE UpdateBegin
    BY <1>1, <1>4 DEF UpdateBegin, At
<1>5. ASSUME NEW id \in Ids, UpdateRead(id)
      PROVE  HookInv'
    BY <1>1, <1>5 DEF UpdateRead
<1>6. CASE UpdateWait
    BY <1>1, <1>6 DEF UpdateWait, At
<1>7. ASSUME NEW cb \in Callbacks, CallListener(cb)
      PROVE  HookInv'
    BY <1>1, <1>7 DEF CallListener, At
<1>8. CASE ListenerReturns
    BY <1>1, <1>8 DEF ListenerReturns, At
<1>9. CASE UpdateEnd
    BY <1>1, <1>9 DEF UpdateEnd, At
<1>10. CASE ShutdownBegin
    BY <1>1, <1>10 DEF ShutdownBegin, At
<1>11. ASSUME NEW id \in Ids, ShutdownWait(id)
      PROVE  HookInv'
    BY <1>1, <1>11 DEF ShutdownWait, At
<1>12. CASE ShutdownTry
    BY <1>1, <1>12 DEF ShutdownTry, At
<1>13. CASE ShutdownReap
    BY <1>1, <1>13 DEF ShutdownReap, At
<1>14. CASE ShutdownEnd
    BY <1>1, <1>14 DEF ShutdownEnd, At
<1>15. CASE \/ Spawn
            \/ Exec
            \/ \E id \in Ids : CloseStdin(id)
            \/ \E id \in Ids : Kill(id)
            \/ \E id \in Ids, k \in Kinds, cb \in Callbacks : On(id, k, cb)
            \/ \E id \in Ids, k \in Kinds, cb \in Callbacks : Off(id, k, cb)
            \/ EventDone
            \/ \E id \in Ids : ChildReads(id)
            \/ \E id \in Ids, s \in Streams : ChildWrites(id, s)
            \/ \E id \in Ids, well \in BOOLEAN : ChildExits(id, well)
            \/ UNCHANGED vars
    <2>1. UNCHANGED <<js, dead, finals>>
        <3>1. CASE Spawn
            BY <3>1 DEF Spawn, Start, script, tables, os, seen
        <3>2. CASE Exec
            BY <3>2 DEF Exec, Start, script, tables, os, seen
        <3>3. ASSUME NEW id \in Ids, CloseStdin(id)
               PROVE  UNCHANGED <<js, dead, finals>>
            BY <3>3 DEF CloseStdin, CallOn, script, tables, os, seen
        <3>4. ASSUME NEW id \in Ids, Kill(id)
               PROVE  UNCHANGED <<js, dead, finals>>
            BY <3>4 DEF Kill, CallOn, script, tables, os, seen
        <3>5. ASSUME NEW id \in Ids, NEW k \in Kinds, NEW cb \in Callbacks, On(id, k, cb)
               PROVE  UNCHANGED <<js, dead, finals>>
            BY <3>5 DEF On, CallOn, script, tables, os, seen
        <3>6. ASSUME NEW id \in Ids, NEW k \in Kinds, NEW cb \in Callbacks, Off(id, k, cb)
               PROVE  UNCHANGED <<js, dead, finals>>
            BY <3>6 DEF Off, CallOn, script, tables, os, seen
        <3>7. CASE EventDone
            BY <3>7 DEF EventDone, script, tables, os, seen
        <3>8. ASSUME NEW id \in Ids, ChildReads(id)
               PROVE  UNCHANGED <<js, dead, finals>>
            BY <3>8 DEF ChildReads, script, tables, os, seen
        <3>9. ASSUME NEW id \in Ids, NEW s \in Streams, ChildWrites(id, s)
               PROVE  UNCHANGED <<js, dead, finals>>
            BY <3>9 DEF ChildWrites, script, tables, os, seen
        <3>10. ASSUME NEW id \in Ids, NEW well \in BOOLEAN, ChildExits(id, well)
               PROVE  UNCHANGED <<js, dead, finals>>
            BY <3>10 DEF ChildExits, script, tables, os, seen
        <3>11. CASE UNCHANGED vars
            BY <3>11 DEF vars, script, tables, os, seen
        <3> QED
            BY <1>15, <3>1, <3>2, <3>3, <3>4, <3>5, <3>6, <3>7, <3>8, <3>9, <3>10, <3>11
    <2> QED
        BY <1>1, <2>1
<1> HIDE DEF script, tables, os, seen, HookInv
<1> QED
    BY <1>2, <1>3, <1>4, <1>5, <1>6, <1>7, <1>8, <1>9, <1>10, <1>11, <1>12, <1>13,
       <1>14, <1>15
    DEF Next, ScriptSteps, UpdateSteps, ShutdownSteps, ChildSteps

\* What the exec requests have collected.
LEMMA RequestNext ==
    TypeInv /\ FreshInv /\ MapInv /\ ShutdownInv /\ RequestInv /\ [Next]_vars => RequestInv'
<1> SUFFICES ASSUME TypeInv /\ FreshInv /\ MapInv /\ ShutdownInv /\ RequestInv, [Next]_vars
             PROVE  RequestInv'
    OBVIOUS
<1> USE DEF script, tables, os, seen
<1>1. child \in [Ids -> {"none", "running", "zombie", "reaped"}] /\ nextId \in Nat \ {0}
      /\ wrote \in [Ids -> [Streams -> Nat]] /\ pipe \in [Ids -> [Streams -> Nat]]
      /\ execRequests \subseteq Ids /\ execOut \in [Ids -> Output]
    BY DEF TypeInv, TableType, ChildType
<1>2. CASE Spawn
    <2>1. UNCHANGED <<execRequests, execOut, wrote, pipe>>
          /\ child' = [child EXCEPT ![nextId] = "running"]
        BY <1>1, <1>2 DEF Spawn, Start
    <2> QED
        BY <1>1, <2>1 DEF RequestInv, Begins, Alive
<1>3. CASE Exec
    <2>1. nextId \in Ids /\ child[nextId] = "none" /\ nextId \notin execRequests
        BY <1>1, <1>3 DEF Exec, Start, FreshInv, RequestInv, Alive, Ids
    <2>2. execOut[nextId] = NoOutput /\ wrote[nextId] = EmptyPipes /\ pipe[nextId] = EmptyPipes
        BY <2>1 DEF RequestInv, FreshInv
    <2>3. /\ execRequests' = execRequests \cup {nextId}
          /\ child' = [child EXCEPT ![nextId] = "running"]
          /\ UNCHANGED <<execOut, wrote, pipe>>
        BY <1>1, <1>3 DEF Exec, Start
    <2>4. \A id \in execRequests' : Alive(id)'
        BY <1>1, <2>1, <2>3 DEF RequestInv, Alive
    <2>5. \A s \in Streams :
             Len(execOut[nextId][s]) = 0 /\ wrote[nextId][s] = 0 /\ pipe[nextId][s] = 0
        BY <2>2 DEF NoOutput, EmptyPipes
    <2>6. Begins(execOut[nextId], nextId)
        BY <2>5 DEF Begins
    <2> QED
        BY <2>3, <2>4, <2>5, <2>6 DEF RequestInv, Begins
<1>4. ASSUME NEW id \in Ids, UpdateRead(id)
      PROVE  RequestInv'
    <2>1. /\ UNCHANGED <<execRequests, child, wrote>>
          /\ pipe' = [pipe EXCEPT ![id] = EmptyPipes]
        BY <1>1, <1>4 DEF UpdateRead
    <2>2. CASE id \notin execRequests
        <3>1. execOut' = execOut
            BY <2>2, <1>1, <1>4 DEF UpdateRead
        <3> QED
            BY <1>1, <2>1, <2>2, <3>1 DEF RequestInv, Alive, Begins
    <2>3. CASE id \in execRequests
        <3>1. execOut' = [execOut EXCEPT ![id] = [s \in Streams |-> @[s] \o Waiting(id, s)]]
            BY <2>3, <1>1, <1>4 DEF UpdateRead
        <3>2. ASSUME NEW s \in Streams
              PROVE  /\ Len(execOut'[id][s]) = wrote[id][s] /\ pipe'[id][s] = 0
                     /\ \A i \in 1..Len(execOut'[id][s]) : execOut'[id][s][i] = i
            <4> DEFINE had == execOut[id][s]
                       more == Waiting(id, s)
            <4>1. had \in Seq(Nat) /\ Len(had) + pipe[id][s] = wrote[id][s]
                  /\ \A i \in 1..Len(had) : had[i] = i
                BY <1>1, <2>3 DEF Output, RequestInv, Begins
            <4>2. pipe[id][s] \in Nat /\ wrote[id][s] \in Nat /\ Len(had) \in Nat
                BY <1>1, <4>1
            <4>3. /\ more \in Seq(Nat) /\ Len(more) = pipe[id][s]
                  /\ \A k \in 1..pipe[id][s] : more[k] = wrote[id][s] - pipe[id][s] + k
                BY <4>1, <4>2, WaitingType
            <4>4. execOut'[id][s] = had \o more
                BY <1>1, <2>3, <3>1
            <4>5. pipe'[id][s] = 0
                BY <1>1, <2>1 DEF EmptyPipes
            <4> HIDE DEF had, more
            <4>6. Len(had \o more) = wrote[id][s]
                <5>1. Len(had \o more) = Len(had) + Len(more)
                    BY <4>1, <4>3
                <5>2. Len(had) + pipe[id][s] = wrote[id][s] /\ Len(more) = pipe[id][s]
                    BY <4>1, <4>3
                <5> QED
                    BY ONLY <5>1, <5>2
            <4>7. ASSUME NEW i \in 1..Len(had \o more)
                  PROVE  (had \o more)[i] = i
                <5>1. CASE i <= Len(had)
                    <6>1. i \in 1..Len(had)
                        BY <4>2, <4>6, <5>1
                    <6>2. (had \o more)[i] = had[i]
                        BY <4>1, <4>3, <6>1
                    <6> QED
                        BY <4>1, <6>1, <6>2
                <5>2. CASE i > Len(had)
                    <6>1. i - Len(had) \in 1..pipe[id][s]
                        BY <4>1, <4>2, <4>6, <5>2
                    <6>2. (had \o more)[i] = more[i - Len(had)]
                        BY <4>1, <4>3, <4>6, <5>2, <6>1
                    <6>3. more[i - Len(had)] = wrote[id][s] - pipe[id][s] + (i - Len(had))
                        BY <4>3, <6>1
                    <6> QED
                        BY <4>1, <4>2, <6>2, <6>3
                <5> QED
                    BY <4>2, <5>1, <5>2
            <4> QED
                BY <4>4, <4>5, <4>6, <4>7
        <3>3. \A s \in Streams : wrote[id][s] \in Nat
            BY <1>1
        <3>4. \A s \in Streams : /\ Len(execOut'[id][s]) <= wrote'[id][s]
                                /\ \A i \in 1..Len(execOut'[id][s]) : execOut'[id][s][i] = i
            BY <2>1, <3>2, <3>3
        <3>5. ASSUME NEW x \in Ids, x # id
              PROVE  execOut'[x] = execOut[x] /\ pipe'[x] = pipe[x]
            BY <1>1, <2>1, <3>1, <3>5
        <3>6. \A x \in execRequests' : (Alive(x) /\ Begins(execOut[x], x))'
            <4> SUFFICES ASSUME NEW x \in execRequests
                         PROVE  (Alive(x) /\ Begins(execOut[x], x))'
                BY <2>1
            <4>1. CASE x = id
                BY <2>1, <3>4, <4>1 DEF RequestInv, Begins, Alive
            <4>2. CASE x # id
                BY <1>1, <2>1, <3>5, <4>2 DEF RequestInv, Begins, Alive
            <4> QED
                BY <4>1, <4>2
        <3>7. \A x \in execRequests', s \in Streams :
                 Len(execOut'[x][s]) + pipe'[x][s] = wrote'[x][s]
            BY <1>1, <2>1, <3>2, <3>3, <3>5 DEF RequestInv
        <3>8. \A x \in Ids \ execRequests' : execOut'[x] = NoOutput
            BY <2>1, <2>3, <3>5 DEF RequestInv
        <3> QED
            BY <3>6, <3>7, <3>8 DEF RequestInv
    <2> QED
        BY <2>2, <2>3
<1>5. CASE UpdateWait
    <2>1. js.id \in Ids
        BY <1>1, <1>5 DEF UpdateWait, TypeInv, ScriptType
    <2>2. child' = Reaped(js.id) /\ UNCHANGED <<wrote, pipe>>
        BY <1>1, <1>5 DEF UpdateWait
    <2>3. CASE child[js.id] = "zombie"
        <3>1. /\ execRequests' = execRequests \ {js.id}
              /\ execOut' = [execOut EXCEPT ![js.id] = NoOutput]
            BY <2>3, <1>1, <1>5 DEF UpdateWait
        <3>2. ASSUME NEW x \in Ids, x # js.id
              PROVE  execOut'[x] = execOut[x] /\ child'[x] = child[x]
            BY <1>1, <2>1, <2>2, <3>1, <3>2 DEF Reaped
        <3>3. execOut'[js.id] = NoOutput
            BY <1>1, <2>1, <3>1
        <3> QED
            BY <1>1, <2>1, <2>2, <3>1, <3>2, <3>3 DEF RequestInv, Begins, Alive
    <2>4. CASE child[js.id] # "zombie"
        <3>1. UNCHANGED <<execRequests, execOut>> /\ child' = child
            BY <1>1, <2>1, <2>2, <2>4, <1>1, <1>5 DEF UpdateWait, Reaped
        <3> QED
            BY <2>2, <3>1 DEF RequestInv, Begins, Alive
    <2> QED
        BY <2>3, <2>4
<1>6. CASE UpdateEnd
    <2>1. UNCHANGED <<execRequests, execOut, wrote, child>>
          /\ pipe' = [x \in Ids |-> IF x \in dead THEN EmptyPipes ELSE pipe[x]]
        BY <1>1, <1>6 DEF UpdateEnd
    <2>2. \A x \in execRequests : pipe'[x] = pipe[x]
        BY <1>1, <2>1 DEF RequestInv, Alive, MapInv
    <2> QED
        BY <2>1, <2>2 DEF RequestInv, Begins, Alive
<1>7. CASE ShutdownBegin
    <2>1. execRequests' = {} /\ execOut' = [x \in Ids |-> NoOutput]
        BY <1>1, <1>7 DEF ShutdownBegin
    <2> QED
        BY <2>1 DEF RequestInv
<1>8. ASSUME NEW id \in Ids, ShutdownWait(id)
      PROVE  RequestInv'
    <2>1. execRequests = {} /\ UNCHANGED <<execRequests, execOut>>
        BY <1>1, <1>8 DEF ShutdownWait, ShutdownInv, InShutdown
    <2> QED
        BY <2>1 DEF RequestInv
<1>9. CASE ShutdownTry
    <2>1. execRequests = {} /\ UNCHANGED <<execRequests, execOut>>
        BY <1>1, <1>9 DEF ShutdownTry, ShutdownInv, InShutdown
    <2> QED
        BY <2>1 DEF RequestInv
<1>10. CASE ShutdownReap
    <2>1. execRequests = {} /\ UNCHANGED <<execRequests, execOut>>
        BY <1>1, <1>10 DEF ShutdownReap, ShutdownInv, InShutdown
    <2> QED
        BY <2>1 DEF RequestInv
<1>11. ASSUME NEW id \in Ids, NEW s \in Streams, ChildWrites(id, s)
      PROVE  RequestInv'
    <2>1. /\ UNCHANGED <<execRequests, execOut, child>>
          /\ wrote' = [wrote EXCEPT ![id][s] = @ + 1] /\ pipe' = [pipe EXCEPT ![id][s] = @ + 1]
        BY <1>1, <1>11 DEF ChildWrites
    <2>2. ASSUME NEW x \in Ids, NEW t \in Streams
          PROVE  /\ wrote'[x][t] - pipe'[x][t] = wrote[x][t] - pipe[x][t]
                 /\ wrote'[x][t] >= wrote[x][t] /\ wrote'[x][t] \in Nat /\ pipe'[x][t] \in Nat
                 /\ wrote[x][t] \in Nat /\ pipe[x][t] \in Nat
        BY <1>1, <2>1
    <2>3. \A x \in Ids, t \in Streams : Len(execOut[x][t]) \in Nat
        BY <1>1 DEF Output
    <2>4. \A x \in execRequests : Begins(execOut[x], x)'
        <3> SUFFICES ASSUME NEW x \in execRequests, NEW t \in Streams
                     PROVE  /\ Len(execOut[x][t]) <= wrote'[x][t]
                            /\ \A i \in 1..Len(execOut[x][t]) : execOut[x][t][i] = i
            BY <2>1 DEF Begins
        <3>1. x \in Ids /\ Begins(execOut[x], x)
            BY <1>1 DEF RequestInv
        <3> QED
            BY <2>2, <2>3, <3>1 DEF Begins
    <2>5. \A x \in execRequests, t \in Streams : Len(execOut[x][t]) + pipe'[x][t] = wrote'[x][t]
        <3> SUFFICES ASSUME NEW x \in execRequests, NEW t \in Streams
                     PROVE  Len(execOut[x][t]) + pipe'[x][t] = wrote'[x][t]
            OBVIOUS
        <3>1. x \in Ids /\ Len(execOut[x][t]) + pipe[x][t] = wrote[x][t]
            BY <1>1 DEF RequestInv
        <3> QED
            BY <2>2, <2>3, <3>1
    <2> QED
        BY <2>1, <2>4, <2>5 DEF RequestInv, Alive
<1>12. ASSUME NEW id \in Ids, NEW well \in BOOLEAN, ChildExits(id, well)
      PROVE  RequestInv'
    <2>1. UNCHANGED <<execRequests, execOut, wrote, pipe>>
          /\ child' = [child EXCEPT ![id] = "zombie"]
        BY <1>1, <1>12 DEF ChildExits
    <2> QED
        BY <1>1, <2>1 DEF RequestInv, Begins, Alive
<1>13. CASE \/ \E id \in Ids : Write(id)
            \/ \E id \in Ids : CloseStdin(id)
            \/ \E id \in Ids : Kill(id)
            \/ \E id \in Ids, k \in Kinds, cb \in Callbacks : On(id, k, cb)
            \/ \E id \in Ids, k \in Kinds, cb \in Callbacks : Off(id, k, cb)
            \/ WriteReturnsNow
            \/ UpdateBegin
            \/ \E cb \in Callbacks : CallListener(cb)
            \/ ListenerReturns
            \/ EventDone
            \/ ShutdownEnd
            \/ \E id \in Ids : ChildReads(id)
            \/ UNCHANGED vars
    <2>1. UNCHANGED <<execRequests, execOut, child, wrote, pipe>>
        <3>1. ASSUME NEW id \in Ids, Write(id)
               PROVE  UNCHANGED <<execRequests, execOut, child, wrote, pipe>>
            BY <3>1 DEF Write, CallOn, script, tables, os, seen
        <3>2. ASSUME NEW id \in Ids, CloseStdin(id)
               PROVE  UNCHANGED <<execRequests, execOut, child, wrote, pipe>>
            BY <3>2 DEF CloseStdin, CallOn, script, tables, os, seen
        <3>3. ASSUME NEW id \in Ids, Kill(id)
               PROVE  UNCHANGED <<execRequests, execOut, child, wrote, pipe>>
            BY <3>3 DEF Kill, CallOn, script, tables, os, seen
        <3>4. ASSUME NEW id \in Ids, NEW k \in Kinds, NEW cb \in Callbacks, On(id, k, cb)
               PROVE  UNCHANGED <<execRequests, execOut, child, wrote, pipe>>
            BY <3>4 DEF On, CallOn, script, tables, os, seen
        <3>5. ASSUME NEW id \in Ids, NEW k \in Kinds, NEW cb \in Callbacks, Off(id, k, cb)
               PROVE  UNCHANGED <<execRequests, execOut, child, wrote, pipe>>
            BY <3>5 DEF Off, CallOn, script, tables, os, seen
        <3>6. CASE WriteReturnsNow
            BY <3>6 DEF WriteReturnsNow, script, tables, os, seen
        <3>7. CASE UpdateBegin
            BY <3>7 DEF UpdateBegin, script, tables, os, seen
        <3>8. ASSUME NEW cb \in Callbacks, CallListener(cb)
               PROVE  UNCHANGED <<execRequests, execOut, child, wrote, pipe>>
            BY <3>8 DEF CallListener, script, tables, os, seen
        <3>9. CASE ListenerReturns
            BY <3>9 DEF ListenerReturns, script, tables, os, seen
        <3>10. CASE EventDone
            BY <3>10 DEF EventDone, script, tables, os, seen
        <3>11. CASE ShutdownEnd
            BY <3>11 DEF ShutdownEnd, script, tables, os, seen
        <3>12. ASSUME NEW id \in Ids, ChildReads(id)
               PROVE  UNCHANGED <<execRequests, execOut, child, wrote, pipe>>
            BY <3>12 DEF ChildReads, script, tables, os, seen
        <3>13. CASE UNCHANGED vars
            BY <3>13 DEF vars, script, tables, os, seen
        <3> QED
            BY <1>13, <3>1, <3>2, <3>3, <3>4, <3>5, <3>6, <3>7, <3>8, <3>9, <3>10, <3>11,
               <3>12, <3>13
    <2> QED
        BY <1>1, <2>1 DEF RequestInv, Begins, Alive
<1> HIDE DEF script, tables, os, seen
<1> QED
    BY <1>2, <1>3, <1>4, <1>5, <1>6, <1>7, <1>8, <1>9, <1>10, <1>11, <1>12, <1>13
    DEF Next, ScriptSteps, UpdateSteps, ShutdownSteps, ChildSteps

\* What was reaped stays as it was.
LEMMA ReapedStays ==
    ASSUME TypeInv, FreshInv, [Next]_vars, NEW x \in Ids, child[x] = "reaped"
    PROVE  child'[x] = "reaped" /\ ok'[x] = ok[x] /\ wrote'[x] = wrote[x]
<1> USE DEF script, tables, os, seen
<1>1. child \in [Ids -> {"none", "running", "zombie", "reaped"}] /\ nextId \in Nat \ {0}
      /\ ok \in [Ids -> BOOLEAN] /\ wrote \in [Ids -> [Streams -> Nat]]
    BY DEF TypeInv, TableType, ChildType
<1>2. CASE Spawn
    BY <1>1, <1>2 DEF Spawn, Start, FreshInv, Ids
<1>3. CASE Exec
    BY <1>1, <1>3 DEF Exec, Start, FreshInv, Ids
<1>4. CASE UpdateWait
    BY <1>1, <1>4 DEF UpdateWait, Reaped, TypeInv, ScriptType
<1>5. ASSUME NEW id \in Ids, ShutdownWait(id)
      PROVE  child'[x] = "reaped" /\ ok'[x] = ok[x] /\ wrote'[x] = wrote[x]
    BY <1>1, <1>5 DEF ShutdownWait, Reaped
<1>6. CASE ShutdownTry
    BY <1>1, <1>6 DEF ShutdownTry, Reaped, TypeInv, ScriptType
<1>7. CASE ShutdownReap
    BY <1>1, <1>7 DEF ShutdownReap, Reaped, TypeInv, ScriptType
<1>8. ASSUME NEW id \in Ids, NEW s \in Streams, ChildWrites(id, s)
      PROVE  child'[x] = "reaped" /\ ok'[x] = ok[x] /\ wrote'[x] = wrote[x]
    BY <1>1, <1>8 DEF ChildWrites
<1>9. ASSUME NEW id \in Ids, NEW well \in BOOLEAN, ChildExits(id, well)
      PROVE  child'[x] = "reaped" /\ ok'[x] = ok[x] /\ wrote'[x] = wrote[x]
    BY <1>1, <1>9 DEF ChildExits
<1>10. CASE \/ \E id \in Ids : Write(id)
            \/ \E id \in Ids : CloseStdin(id)
            \/ \E id \in Ids : Kill(id)
            \/ \E id \in Ids, k \in Kinds, cb \in Callbacks : On(id, k, cb)
            \/ \E id \in Ids, k \in Kinds, cb \in Callbacks : Off(id, k, cb)
            \/ WriteReturnsNow
            \/ UpdateBegin
            \/ \E id \in Ids : UpdateRead(id)
            \/ \E cb \in Callbacks : CallListener(cb)
            \/ ListenerReturns
            \/ EventDone
            \/ UpdateEnd
            \/ ShutdownBegin
            \/ ShutdownEnd
            \/ \E id \in Ids : ChildReads(id)
            \/ UNCHANGED vars
    <2>1. UNCHANGED <<child, ok, wrote>>
        <3>1. ASSUME NEW id \in Ids, Write(id)
               PROVE  UNCHANGED <<child, ok, wrote>>
            BY <3>1 DEF Write, CallOn
        <3>2. ASSUME NEW id \in Ids, CloseStdin(id)
               PROVE  UNCHANGED <<child, ok, wrote>>
            BY <3>2 DEF CloseStdin, CallOn
        <3>3. ASSUME NEW id \in Ids, Kill(id)
               PROVE  UNCHANGED <<child, ok, wrote>>
            BY <3>3 DEF Kill, CallOn
        <3>4. ASSUME NEW id \in Ids, NEW k \in Kinds, NEW cb \in Callbacks, On(id, k, cb)
               PROVE  UNCHANGED <<child, ok, wrote>>
            BY <3>4 DEF On, CallOn
        <3>5. ASSUME NEW id \in Ids, NEW k \in Kinds, NEW cb \in Callbacks, Off(id, k, cb)
               PROVE  UNCHANGED <<child, ok, wrote>>
            BY <3>5 DEF Off, CallOn
        <3>6. CASE WriteReturnsNow
            BY <3>6 DEF WriteReturnsNow
        <3>7. CASE UpdateBegin
            BY <3>7 DEF UpdateBegin
        <3>8. ASSUME NEW id \in Ids, UpdateRead(id)
               PROVE  UNCHANGED <<child, ok, wrote>>
            BY <3>8 DEF UpdateRead
        <3>9. ASSUME NEW cb \in Callbacks, CallListener(cb)
               PROVE  UNCHANGED <<child, ok, wrote>>
            BY <3>9 DEF CallListener
        <3>10. CASE ListenerReturns
            BY <3>10 DEF ListenerReturns
        <3>11. CASE EventDone
            BY <3>11 DEF EventDone
        <3>12. CASE UpdateEnd
            BY <3>12 DEF UpdateEnd
        <3>13. CASE ShutdownBegin
            BY <3>13 DEF ShutdownBegin
        <3>14. CASE ShutdownEnd
            BY <3>14 DEF ShutdownEnd
        <3>15. ASSUME NEW id \in Ids, ChildReads(id)
               PROVE  UNCHANGED <<child, ok, wrote>>
            BY <3>15 DEF ChildReads
        <3>16. CASE UNCHANGED vars
            BY <3>16 DEF vars
        <3> QED
            BY <1>10, <3>1, <3>2, <3>3, <3>4, <3>5, <3>6, <3>7, <3>8, <3>9, <3>10, <3>11,
               <3>12, <3>13, <3>14, <3>15, <3>16
    <2> QED
        BY <2>1
<1> HIDE DEF script, tables, os, seen
<1> QED
    BY <1>2, <1>3, <1>4, <1>5, <1>6, <1>7, <1>8, <1>9, <1>10
    DEF Next, ScriptSteps, UpdateSteps, ShutdownSteps, ChildSteps

\* What is to be settled stays true.
LEMMA FinalNext == TypeInv /\ FreshInv /\ RequestInv /\ FinalInv /\ [Next]_vars => FinalInv'
<1> SUFFICES ASSUME TypeInv /\ FreshInv /\ RequestInv /\ FinalInv, [Next]_vars
             PROVE  FinalInv'
    OBVIOUS
<1> USE DEF script, tables, os, seen
<1>1. /\ finals \in Seq(Finals) /\ Len(finals) \in Nat
      /\ \A i \in 1..Len(finals) :
            /\ child'[finals[i].id] = "reaped" /\ finals[i].ok = ok'[finals[i].id]
            /\ \A s \in Streams :
                  /\ Len(finals[i].out[s]) <= wrote'[finals[i].id][s]
                  /\ \A k \in 1..Len(finals[i].out[s]) : finals[i].out[s][k] = k
    <2>1. finals \in Seq(Finals) /\ Len(finals) \in Nat
        BY DEF TypeInv, ScriptType
    <2>2. ASSUME NEW i \in 1..Len(finals)
          PROVE  finals[i].id \in Ids /\ Truth(finals[i])
        <3>1. finals[i] \in Finals
            BY <2>1
        <3> QED
            BY <3>1 DEF Finals, FinalInv
    <2> QED
        BY <2>1, <2>2, ReapedStays DEF Truth, Begins
<1>2. CASE UpdateWait
    <2> DEFINE f == [id |-> js.id, ok |-> ok[js.id], out |-> execOut[js.id]]
    <2>1. js.id \in Ids /\ child' = Reaped(js.id) /\ UNCHANGED <<ok, wrote>>
        BY <1>1, <1>2 DEF UpdateWait, TypeInv, ScriptType
    <2>2. \/ finals' = finals
          \/ finals' = Append(finals, f) /\ js.id \in execRequests /\ child[js.id] = "zombie"
        BY <1>1, <1>2 DEF UpdateWait
    <2>3. CASE finals' = finals
        BY <1>1, <2>3 DEF FinalInv, Truth, Begins
    <2>4. CASE finals' = Append(finals, f) /\ js.id \in execRequests /\ child[js.id] = "zombie"
        <3>1. child'[js.id] = "reaped"
            BY <2>1, <2>4 DEF Reaped, TypeInv, ChildType
        <3>2. Begins(execOut[js.id], js.id)
            BY <2>4 DEF RequestInv
        <3>3. /\ child'[f.id] = "reaped" /\ f.ok = ok'[f.id]
              /\ \A s \in Streams : /\ Len(f.out[s]) <= wrote'[f.id][s]
                                   /\ \A i \in 1..Len(f.out[s]) : f.out[s][i] = i
            BY <2>1, <3>1, <3>2 DEF Begins
        <3> HIDE DEF f
        <3>4. ASSUME NEW i \in 1..Len(finals')
              PROVE  Truth(finals[i])'
            <4>1. CASE i \in 1..Len(finals)
                <5>1. finals'[i] = finals[i]
                    BY <1>1, <2>4, <4>1
                <5> QED
                    BY <1>1, <4>1, <5>1 DEF Truth, Begins
            <4>2. CASE i \notin 1..Len(finals)
                <5>1. finals'[i] = f
                    BY <1>1, <2>4, <4>2
                <5> QED
                    BY <3>3, <5>1 DEF Truth, Begins
            <4> QED
                BY <4>1, <4>2
        <3> QED
            BY <3>4 DEF FinalInv
    <2> QED
        BY <2>2, <2>3, <2>4
<1>3. CASE UpdateEnd
    <2>1. finals' = <<>>
        BY <1>1, <1>3 DEF UpdateEnd
    <2> QED
        BY <2>1 DEF FinalInv
<1>4. CASE \/ Spawn
           \/ Exec
           \/ \E id \in Ids : Write(id)
           \/ \E id \in Ids : CloseStdin(id)
           \/ \E id \in Ids : Kill(id)
           \/ \E id \in Ids, k \in Kinds, cb \in Callbacks : On(id, k, cb)
           \/ \E id \in Ids, k \in Kinds, cb \in Callbacks : Off(id, k, cb)
           \/ WriteReturnsNow
           \/ UpdateBegin
           \/ \E id \in Ids : UpdateRead(id)
           \/ \E cb \in Callbacks : CallListener(cb)
           \/ ListenerReturns
           \/ EventDone
           \/ ShutdownBegin
           \/ \E id \in Ids : ShutdownWait(id)
           \/ ShutdownTry
           \/ ShutdownReap
           \/ ShutdownEnd
           \/ \E id \in Ids : ChildReads(id)
           \/ \E id \in Ids, s \in Streams : ChildWrites(id, s)
           \/ \E id \in Ids, well \in BOOLEAN : ChildExits(id, well)
           \/ UNCHANGED vars
    <2>1. UNCHANGED <<finals>>
        <3>1. CASE Spawn
            BY <3>1 DEF Spawn, Start, script, tables, os, seen
        <3>2. CASE Exec
            BY <3>2 DEF Exec, Start, script, tables, os, seen
        <3>3. ASSUME NEW id \in Ids, Write(id)
               PROVE  UNCHANGED <<finals>>
            BY <3>3 DEF Write, CallOn, script, tables, os, seen
        <3>4. ASSUME NEW id \in Ids, CloseStdin(id)
               PROVE  UNCHANGED <<finals>>
            BY <3>4 DEF CloseStdin, CallOn, script, tables, os, seen
        <3>5. ASSUME NEW id \in Ids, Kill(id)
               PROVE  UNCHANGED <<finals>>
            BY <3>5 DEF Kill, CallOn, script, tables, os, seen
        <3>6. ASSUME NEW id \in Ids, NEW k \in Kinds, NEW cb \in Callbacks, On(id, k, cb)
               PROVE  UNCHANGED <<finals>>
            BY <3>6 DEF On, CallOn, script, tables, os, seen
        <3>7. ASSUME NEW id \in Ids, NEW k \in Kinds, NEW cb \in Callbacks, Off(id, k, cb)
               PROVE  UNCHANGED <<finals>>
            BY <3>7 DEF Off, CallOn, script, tables, os, seen
        <3>8. CASE WriteReturnsNow
            BY <3>8 DEF WriteReturnsNow, script, tables, os, seen
        <3>9. CASE UpdateBegin
            BY <3>9 DEF UpdateBegin, script, tables, os, seen
        <3>10. ASSUME NEW id \in Ids, UpdateRead(id)
               PROVE  UNCHANGED <<finals>>
            BY <3>10 DEF UpdateRead, script, tables, os, seen
        <3>11. ASSUME NEW cb \in Callbacks, CallListener(cb)
               PROVE  UNCHANGED <<finals>>
            BY <3>11 DEF CallListener, script, tables, os, seen
        <3>12. CASE ListenerReturns
            BY <3>12 DEF ListenerReturns, script, tables, os, seen
        <3>13. CASE EventDone
            BY <3>13 DEF EventDone, script, tables, os, seen
        <3>14. CASE ShutdownBegin
            BY <3>14 DEF ShutdownBegin, script, tables, os, seen
        <3>15. ASSUME NEW id \in Ids, ShutdownWait(id)
               PROVE  UNCHANGED <<finals>>
            BY <3>15 DEF ShutdownWait, script, tables, os, seen
        <3>16. CASE ShutdownTry
            BY <3>16 DEF ShutdownTry, script, tables, os, seen
        <3>17. CASE ShutdownReap
            BY <3>17 DEF ShutdownReap, script, tables, os, seen
        <3>18. CASE ShutdownEnd
            BY <3>18 DEF ShutdownEnd, script, tables, os, seen
        <3>19. ASSUME NEW id \in Ids, ChildReads(id)
               PROVE  UNCHANGED <<finals>>
            BY <3>19 DEF ChildReads, script, tables, os, seen
        <3>20. ASSUME NEW id \in Ids, NEW s \in Streams, ChildWrites(id, s)
               PROVE  UNCHANGED <<finals>>
            BY <3>20 DEF ChildWrites, script, tables, os, seen
        <3>21. ASSUME NEW id \in Ids, NEW well \in BOOLEAN, ChildExits(id, well)
               PROVE  UNCHANGED <<finals>>
            BY <3>21 DEF ChildExits, script, tables, os, seen
        <3>22. CASE UNCHANGED vars
            BY <3>22 DEF vars, script, tables, os, seen
        <3> QED
            BY <1>4, <3>1, <3>2, <3>3, <3>4, <3>5, <3>6, <3>7, <3>8, <3>9, <3>10, <3>11, <3>12,
               <3>13, <3>14, <3>15, <3>16, <3>17, <3>18, <3>19, <3>20, <3>21, <3>22
    <2> QED
        BY <1>1, <2>1 DEF FinalInv, Truth, Begins
<1> HIDE DEF script, tables, os, seen
<1> QED
    BY <1>2, <1>3, <1>4
    DEF Next, ScriptSteps, UpdateSteps, ShutdownSteps, ChildSteps

\* What was settled stays true.
LEMMA SettledNext ==
    TypeInv /\ FreshInv /\ FinalInv /\ ExecSettledTruly /\ [Next]_vars => ExecSettledTruly'
<1> SUFFICES ASSUME TypeInv /\ FreshInv /\ FinalInv /\ ExecSettledTruly, [Next]_vars
             PROVE  ExecSettledTruly'
    OBVIOUS
<1> USE DEF script, tables, os, seen
<1>1. /\ ok \in [Ids -> BOOLEAN]
      /\ \A x \in Ids : outcome[x] # "none" =>
            child'[x] = "reaped" /\ ok'[x] = ok[x] /\ wrote'[x] = wrote[x]
    BY ReapedStays DEF TypeInv, ChildType, ExecSettledTruly
<1>2. CASE UpdateEnd
    <2>1. /\ outcome' = [id \in Ids |-> IF id \notin Settling THEN outcome[id]
                              ELSE IF FinalOf(id).ok THEN "resolved" ELSE "rejected"]
          /\ gave' = [id \in Ids |-> IF id \in Settling THEN FinalOf(id).out ELSE gave[id]]
          /\ UNCHANGED <<child, ok, wrote>>
        BY <1>1, <1>2 DEF UpdateEnd
    <2>2. ASSUME NEW x \in Ids, x \in Settling
          PROVE  FinalOf(x).id = x /\ Truth(FinalOf(x))
        <3>1. \E f \in Range(finals) : f.id = x
            BY <2>2 DEF Settling, Range
        <3>2. FinalOf(x) \in Range(finals) /\ FinalOf(x).id = x
            BY <3>1 DEF FinalOf
        <3>3. PICK i \in DOMAIN finals : FinalOf(x) = finals[i]
            BY <3>2 DEF Range
        <3>4. i \in 1..Len(finals)
            BY <3>3 DEF TypeInv, ScriptType
        <3> QED
            BY <3>2, <3>3, <3>4 DEF FinalInv
    <2> SUFFICES ASSUME NEW x \in Ids, outcome'[x] # "none"
                 PROVE  /\ child[x] = "reaped" /\ (outcome'[x] = "resolved" <=> ok[x])
                        /\ \A s \in Streams :
                              /\ Len(gave'[x][s]) <= wrote[x][s]
                              /\ \A i \in 1..Len(gave'[x][s]) : gave'[x][s][i] = i
        BY <2>1 DEF ExecSettledTruly
    <2>3. CASE x \in Settling
        <3>1. gave'[x] = FinalOf(x).out
              /\ outcome'[x] = IF FinalOf(x).ok THEN "resolved" ELSE "rejected"
            BY <2>1, <2>3
        <3>2. FinalOf(x).ok \in BOOLEAN
            BY <1>1, <2>2, <2>3 DEF Truth
        <3> QED
            BY <2>2, <2>3, <3>1, <3>2 DEF Truth, Begins
    <2>4. CASE x \notin Settling
        <3>1. gave'[x] = gave[x] /\ outcome'[x] = outcome[x]
            BY <2>1, <2>4
        <3> QED
            BY <3>1 DEF ExecSettledTruly
    <2> QED
        BY <2>3, <2>4
<1>3. CASE \/ Spawn
           \/ Exec
           \/ \E id \in Ids : Write(id)
           \/ \E id \in Ids : CloseStdin(id)
           \/ \E id \in Ids : Kill(id)
           \/ \E id \in Ids, k \in Kinds, cb \in Callbacks : On(id, k, cb)
           \/ \E id \in Ids, k \in Kinds, cb \in Callbacks : Off(id, k, cb)
           \/ WriteReturnsNow
           \/ UpdateBegin
           \/ \E id \in Ids : UpdateRead(id)
           \/ UpdateWait
           \/ \E cb \in Callbacks : CallListener(cb)
           \/ ListenerReturns
           \/ EventDone
           \/ ShutdownBegin
           \/ \E id \in Ids : ShutdownWait(id)
           \/ ShutdownTry
           \/ ShutdownReap
           \/ ShutdownEnd
           \/ \E id \in Ids : ChildReads(id)
           \/ \E id \in Ids, s \in Streams : ChildWrites(id, s)
           \/ \E id \in Ids, well \in BOOLEAN : ChildExits(id, well)
           \/ UNCHANGED vars
    <2>1. UNCHANGED <<outcome, gave>>
        <3>1. CASE Spawn
            BY <3>1 DEF Spawn, Start, script, tables, os, seen
        <3>2. CASE Exec
            BY <3>2 DEF Exec, Start, script, tables, os, seen
        <3>3. ASSUME NEW id \in Ids, Write(id)
               PROVE  UNCHANGED <<outcome, gave>>
            BY <3>3 DEF Write, CallOn, script, tables, os, seen
        <3>4. ASSUME NEW id \in Ids, CloseStdin(id)
               PROVE  UNCHANGED <<outcome, gave>>
            BY <3>4 DEF CloseStdin, CallOn, script, tables, os, seen
        <3>5. ASSUME NEW id \in Ids, Kill(id)
               PROVE  UNCHANGED <<outcome, gave>>
            BY <3>5 DEF Kill, CallOn, script, tables, os, seen
        <3>6. ASSUME NEW id \in Ids, NEW k \in Kinds, NEW cb \in Callbacks, On(id, k, cb)
               PROVE  UNCHANGED <<outcome, gave>>
            BY <3>6 DEF On, CallOn, script, tables, os, seen
        <3>7. ASSUME NEW id \in Ids, NEW k \in Kinds, NEW cb \in Callbacks, Off(id, k, cb)
               PROVE  UNCHANGED <<outcome, gave>>
            BY <3>7 DEF Off, CallOn, script, tables, os, seen
        <3>8. CASE WriteReturnsNow
            BY <3>8 DEF WriteReturnsNow, script, tables, os, seen
        <3>9. CASE UpdateBegin
            BY <3>9 DEF UpdateBegin, script, tables, os, seen
        <3>10. ASSUME NEW id \in Ids, UpdateRead(id)
               PROVE  UNCHANGED <<outcome, gave>>
            BY <3>10 DEF UpdateRead, script, tables, os, seen
        <3>11. CASE UpdateWait
            BY <3>11 DEF UpdateWait, script, tables, os, seen
        <3>12. ASSUME NEW cb \in Callbacks, CallListener(cb)
               PROVE  UNCHANGED <<outcome, gave>>
            BY <3>12 DEF CallListener, script, tables, os, seen
        <3>13. CASE ListenerReturns
            BY <3>13 DEF ListenerReturns, script, tables, os, seen
        <3>14. CASE EventDone
            BY <3>14 DEF EventDone, script, tables, os, seen
        <3>15. CASE ShutdownBegin
            BY <3>15 DEF ShutdownBegin, script, tables, os, seen
        <3>16. ASSUME NEW id \in Ids, ShutdownWait(id)
               PROVE  UNCHANGED <<outcome, gave>>
            BY <3>16 DEF ShutdownWait, script, tables, os, seen
        <3>17. CASE ShutdownTry
            BY <3>17 DEF ShutdownTry, script, tables, os, seen
        <3>18. CASE ShutdownReap
            BY <3>18 DEF ShutdownReap, script, tables, os, seen
        <3>19. CASE ShutdownEnd
            BY <3>19 DEF ShutdownEnd, script, tables, os, seen
        <3>20. ASSUME NEW id \in Ids, ChildReads(id)
               PROVE  UNCHANGED <<outcome, gave>>
            BY <3>20 DEF ChildReads, script, tables, os, seen
        <3>21. ASSUME NEW id \in Ids, NEW s \in Streams, ChildWrites(id, s)
               PROVE  UNCHANGED <<outcome, gave>>
            BY <3>21 DEF ChildWrites, script, tables, os, seen
        <3>22. ASSUME NEW id \in Ids, NEW well \in BOOLEAN, ChildExits(id, well)
               PROVE  UNCHANGED <<outcome, gave>>
            BY <3>22 DEF ChildExits, script, tables, os, seen
        <3>23. CASE UNCHANGED vars
            BY <3>23 DEF vars, script, tables, os, seen
        <3> QED
            BY <1>3, <3>1, <3>2, <3>3, <3>4, <3>5, <3>6, <3>7, <3>8, <3>9, <3>10, <3>11, <3>12,
               <3>13, <3>14, <3>15, <3>16, <3>17, <3>18, <3>19, <3>20, <3>21, <3>22, <3>23
    <2> QED
        BY <1>1, <2>1 DEF ExecSettledTruly
<1> HIDE DEF script, tables, os, seen
<1> QED
    BY <1>2, <1>3
    DEF Next, ScriptSteps, UpdateSteps, ShutdownSteps, ChildSteps

\* What shutdown leaves.
LEMMA ShutdownNext == TypeInv /\ MapInv /\ ShutdownInv /\ [Next]_vars => ShutdownInv'
<1> SUFFICES ASSUME TypeInv /\ MapInv /\ ShutdownInv, [Next]_vars
             PROVE  ShutdownInv'
    OBVIOUS
<1> USE DEF script, tables, os, seen, ShutdownInv, InShutdown, Alive
<1>1. child \in [Ids -> {"none", "running", "zombie", "reaped"}] /\ context \in BOOLEAN
      /\ (js.pc \in {"wait", "sdTry", "sdReap"} => js.id \in Ids)
      /\ js \in [pc : JsPcs, id : Ids \cup {0}, back : {"idle", "call"}]
    BY DEF TypeInv, ScriptType, TableType, ChildType
<1>2. CASE Spawn
    BY <1>1, <1>2 DEF Spawn, Start, Callable
<1>3. CASE Exec
    BY <1>1, <1>3 DEF Exec, Start, Callable
<1>4. ASSUME NEW id \in Ids, Write(id)
      PROVE  ShutdownInv'
    BY <1>1, <1>4 DEF Write, CallOn, Callable
<1>5. ASSUME NEW id \in Ids, CloseStdin(id)
      PROVE  ShutdownInv'
    BY <1>1, <1>5 DEF CloseStdin, CallOn, Callable
<1>6. ASSUME NEW id \in Ids, Kill(id)
      PROVE  ShutdownInv'
    BY <1>1, <1>6 DEF Kill, CallOn, Callable
<1>7. ASSUME NEW id \in Ids, NEW k \in Kinds, NEW cb \in Callbacks, On(id, k, cb)
      PROVE  ShutdownInv'
    <2>1. Callable /\ js' = js /\ context' = context
        BY <1>1, <1>7 DEF On, CallOn
    <2> QED
        BY <2>1 DEF Callable
<1>8. ASSUME NEW id \in Ids, NEW k \in Kinds, NEW cb \in Callbacks, Off(id, k, cb)
      PROVE  ShutdownInv'
    <2>1. Callable /\ js' = js /\ context' = context
        BY <1>1, <1>8 DEF Off, CallOn
    <2> QED
        BY <2>1 DEF Callable
<1>9. CASE WriteReturnsNow
    BY <1>1, <1>9 DEF WriteReturnsNow, At
<1>10. CASE UpdateBegin
    BY <1>1, <1>10 DEF UpdateBegin, At
<1>11. ASSUME NEW id \in Ids, UpdateRead(id)
      PROVE  ShutdownInv'
    BY <1>1, <1>11 DEF UpdateRead
<1>12. CASE UpdateWait
    BY <1>1, <1>12 DEF UpdateWait, At
<1>13. ASSUME NEW cb \in Callbacks, CallListener(cb)
      PROVE  ShutdownInv'
    BY <1>1, <1>13 DEF CallListener, At
<1>14. CASE ListenerReturns
    BY <1>1, <1>14 DEF ListenerReturns, At
<1>15. CASE EventDone
    BY <1>1, <1>15 DEF EventDone
<1>16. CASE UpdateEnd
    <2>1. js.pc = "emit" /\ js'.pc = "idle" /\ context' = context
        BY <1>1, <1>16 DEF UpdateEnd, At
    <2> QED
        BY <2>1
<1>17. CASE ShutdownBegin
    BY <1>1, <1>17 DEF ShutdownBegin, At, NoListeners, MapInv
<1>18. ASSUME NEW id \in Ids, ShutdownWait(id)
      PROVE  ShutdownInv'
    BY <1>1, <1>18 DEF ShutdownWait, At, Reaped
<1>19. CASE ShutdownTry
    BY <1>1, <1>19 DEF ShutdownTry, At, Reaped
<1>20. CASE ShutdownReap
    BY <1>1, <1>20 DEF ShutdownReap, At, Reaped
<1>21. CASE ShutdownEnd
    BY <1>1, <1>21 DEF ShutdownEnd, At
<1>22. ASSUME NEW id \in Ids, NEW well \in BOOLEAN, ChildExits(id, well)
      PROVE  ShutdownInv'
    BY <1>1, <1>22 DEF ChildExits
<1>23. CASE \/ \E id \in Ids : ChildReads(id)
            \/ \E id \in Ids, s \in Streams : ChildWrites(id, s)
            \/ UNCHANGED vars
    <2>1. UNCHANGED <<js, todo, processes, stdin, listeners, execRequests, context, child>>
        <3>1. ASSUME NEW id \in Ids, ChildReads(id)
               PROVE  UNCHANGED <<js, todo, processes, stdin, listeners, execRequests, context,
                                  child>>
            BY <3>1 DEF ChildReads, script, tables, os, seen
        <3>2. ASSUME NEW id \in Ids, NEW s \in Streams, ChildWrites(id, s)
               PROVE  UNCHANGED <<js, todo, processes, stdin, listeners, execRequests, context,
                                  child>>
            BY <3>2 DEF ChildWrites, script, tables, os, seen
        <3>3. CASE UNCHANGED vars
            BY <3>3 DEF vars, script, tables, os, seen
        <3> QED
            BY <1>23, <3>1, <3>2, <3>3
    <2> QED
        BY <1>1, <2>1
<1> HIDE DEF script, tables, os, seen, ShutdownInv, InShutdown, Alive
<1> QED
    BY <1>2, <1>3, <1>4, <1>5, <1>6, <1>7, <1>8, <1>9, <1>10, <1>11, <1>12, <1>13,
       <1>14, <1>15, <1>16, <1>17, <1>18, <1>19, <1>20, <1>21, <1>22, <1>23
    DEF Next, ScriptSteps, UpdateSteps, ShutdownSteps, ChildSteps

\* Nothing has happened yet.
LEMMA InitInv == Init => IInv
<1> SUFFICES ASSUME Init PROVE IInv
    OBVIOUS
<1>1. TypeInv
    <2>1. finals \in Seq(Finals) /\ js = At("idle") /\ todo = {} /\ dead = {}
        BY DEF Init
    <2>2. ScriptType
        BY <2>1 DEF ScriptType, At, JsPcs
    <2>3. TableType
        BY NoOutputType DEF Init, TableType
    <2>4. ChildType
        BY DEF Init, ChildType, EmptyPipes
    <2>5. SeenType
        BY NoOutputType DEF Init, SeenType
    <2> QED
        BY <2>2, <2>3, <2>4, <2>5 DEF TypeInv
<1>2. FreshInv /\ MapInv /\ HookInv
    BY DEF Init, FreshInv, MapInv, HookInv, Alive
<1>3. RequestInv /\ FinalInv /\ ExecSettledTruly
    BY DEF Init, RequestInv, FinalInv, ExecSettledTruly
<1>4. ShutdownInv
    BY DEF Init, ShutdownInv, InShutdown, At
<1> QED
    BY <1>1, <1>2, <1>3, <1>4 DEF IInv

\* The invariant holds initially and every step preserves it.
LEMMA Invariance == Spec => []IInv
<1>1. IInv /\ [Next]_vars => IInv'
    BY TypeNext, FreshNext, MapNext, HookNext, RequestNext, FinalNext, SettledNext, ShutdownNext
    DEF IInv
<1> QED
    BY <1>1, InitInv, PTL DEF Spec

\* A signal reaches a child that was not reaped, unless a listener sends it in the middle
\* of an update.
LEMMA SignalStep ==
    IInv /\ [Next]_vars => (stray' # stray => js.pc = "call")
<1> SUFFICES ASSUME IInv, [Next]_vars
             PROVE  stray' # stray => js.pc = "call"
    OBVIOUS
<1> USE DEF script, tables, os, seen
<1>1. ASSUME NEW id \in Ids, Kill(id)
      PROVE  stray' # stray => js.pc = "call"
    <2> SUFFICES ASSUME js.pc # "call" PROVE stray' = stray
        OBVIOUS
    <2>1. js.pc = "idle" /\ id \in processes /\ stray' = Strays({id})
        BY <1>1 DEF Kill, CallOn, Callable
    <2>2. child[id] # "reaped"
        BY <2>1 DEF IInv, MapInv, HookInv, InShutdown
    <2> QED
        BY <2>1, <2>2, NoStrays DEF IInv
<1>2. CASE ShutdownBegin
    <2>1. js.pc = "idle" /\ stray' = Strays(processes)
        BY <1>2 DEF ShutdownBegin
    <2>2. \A id \in processes : child[id] # "reaped"
        BY <2>1 DEF IInv, MapInv, HookInv, InShutdown
    <2>3. processes \in SUBSET Ids
        BY DEF IInv, TypeInv, TableType
    <2> QED
        BY <2>1, <2>2, <2>3, NoStrays DEF IInv
<1>3. CASE \/ Spawn
           \/ Exec
           \/ \E id \in Ids : Write(id)
           \/ \E id \in Ids : CloseStdin(id)
           \/ \E id \in Ids, k \in Kinds, cb \in Callbacks : On(id, k, cb)
           \/ \E id \in Ids, k \in Kinds, cb \in Callbacks : Off(id, k, cb)
           \/ WriteReturnsNow
           \/ UpdateBegin
           \/ \E id \in Ids : UpdateRead(id)
           \/ UpdateWait
           \/ \E cb \in Callbacks : CallListener(cb)
           \/ ListenerReturns
           \/ EventDone
           \/ UpdateEnd
           \/ \E id \in Ids : ShutdownWait(id)
           \/ ShutdownTry
           \/ ShutdownReap
           \/ ShutdownEnd
           \/ \E id \in Ids : ChildReads(id)
           \/ \E id \in Ids, s \in Streams : ChildWrites(id, s)
           \/ \E id \in Ids, well \in BOOLEAN : ChildExits(id, well)
           \/ UNCHANGED vars
    <2>1. UNCHANGED <<stray>>
        <3>1. CASE Spawn
            BY <3>1 DEF Spawn, Start, script, tables, os, seen
        <3>2. CASE Exec
            BY <3>2 DEF Exec, Start, script, tables, os, seen
        <3>3. ASSUME NEW id \in Ids, Write(id)
               PROVE  UNCHANGED <<stray>>
            BY <3>3 DEF Write, CallOn, script, tables, os, seen
        <3>4. ASSUME NEW id \in Ids, CloseStdin(id)
               PROVE  UNCHANGED <<stray>>
            BY <3>4 DEF CloseStdin, CallOn, script, tables, os, seen
        <3>5. ASSUME NEW id \in Ids, NEW k \in Kinds, NEW cb \in Callbacks, On(id, k, cb)
               PROVE  UNCHANGED <<stray>>
            BY <3>5 DEF On, CallOn, script, tables, os, seen
        <3>6. ASSUME NEW id \in Ids, NEW k \in Kinds, NEW cb \in Callbacks, Off(id, k, cb)
               PROVE  UNCHANGED <<stray>>
            BY <3>6 DEF Off, CallOn, script, tables, os, seen
        <3>7. CASE WriteReturnsNow
            BY <3>7 DEF WriteReturnsNow, script, tables, os, seen
        <3>8. CASE UpdateBegin
            BY <3>8 DEF UpdateBegin, script, tables, os, seen
        <3>9. ASSUME NEW id \in Ids, UpdateRead(id)
               PROVE  UNCHANGED <<stray>>
            BY <3>9 DEF UpdateRead, script, tables, os, seen
        <3>10. CASE UpdateWait
            BY <3>10 DEF UpdateWait, script, tables, os, seen
        <3>11. ASSUME NEW cb \in Callbacks, CallListener(cb)
               PROVE  UNCHANGED <<stray>>
            BY <3>11 DEF CallListener, script, tables, os, seen
        <3>12. CASE ListenerReturns
            BY <3>12 DEF ListenerReturns, script, tables, os, seen
        <3>13. CASE EventDone
            BY <3>13 DEF EventDone, script, tables, os, seen
        <3>14. CASE UpdateEnd
            BY <3>14 DEF UpdateEnd, script, tables, os, seen
        <3>15. ASSUME NEW id \in Ids, ShutdownWait(id)
               PROVE  UNCHANGED <<stray>>
            BY <3>15 DEF ShutdownWait, script, tables, os, seen
        <3>16. CASE ShutdownTry
            BY <3>16 DEF ShutdownTry, script, tables, os, seen
        <3>17. CASE ShutdownReap
            BY <3>17 DEF ShutdownReap, script, tables, os, seen
        <3>18. CASE ShutdownEnd
            BY <3>18 DEF ShutdownEnd, script, tables, os, seen
        <3>19. ASSUME NEW id \in Ids, ChildReads(id)
               PROVE  UNCHANGED <<stray>>
            BY <3>19 DEF ChildReads, script, tables, os, seen
        <3>20. ASSUME NEW id \in Ids, NEW s \in Streams, ChildWrites(id, s)
               PROVE  UNCHANGED <<stray>>
            BY <3>20 DEF ChildWrites, script, tables, os, seen
        <3>21. ASSUME NEW id \in Ids, NEW well \in BOOLEAN, ChildExits(id, well)
               PROVE  UNCHANGED <<stray>>
            BY <3>21 DEF ChildExits, script, tables, os, seen
        <3>22. CASE UNCHANGED vars
            BY <3>22 DEF vars, script, tables, os, seen
        <3> QED
            BY <1>3, <3>1, <3>2, <3>3, <3>4, <3>5, <3>6, <3>7, <3>8, <3>9, <3>10, <3>11, <3>12,
               <3>13, <3>14, <3>15, <3>16, <3>17, <3>18, <3>19, <3>20, <3>21, <3>22
    <2> QED
        BY <2>1
<1> HIDE DEF script, tables, os, seen
<1> QED
    BY <1>1, <1>2, <1>3
    DEF Next, ScriptSteps, UpdateSteps, ShutdownSteps, ChildSteps

\* An exec promise is settled for a child that was reaped, as its exit code says, with
\* the beginning of what it wrote (process_update_callback).
THEOREM ExecTrue == Spec => []ExecSettledTruly
<1>1. IInv => ExecSettledTruly
    BY DEF IInv
<1> QED
    BY <1>1, Invariance, PTL

\* No signal goes to a pid that was reaped, but for a kill() from a listener of the
\* update that reaped it (js_kill, scriptShutdown).
THEOREM SignalsReach == Spec => NoStraySignal
<1>1. IInv /\ [Next]_vars => [stray' # stray => js.pc = "call"]_vars
    BY SignalStep
<1> QED
    BY <1>1, Invariance, PTL DEF Spec, NoStraySignal

\* After scriptShutdown no child is left, and nothing is kept for one.
THEOREM ShutdownClean == Spec => []ShutdownLeavesNothing
<1>1. IInv => ShutdownLeavesNothing
    <2> SUFFICES ASSUME IInv, ~context PROVE ShutdownLeavesNothing
        BY DEF ShutdownLeavesNothing
    <2>1. processes = {} /\ stdin = {} /\ execRequests = {}
          /\ \A id \in Ids, k \in Kinds : listeners[id][k] = <<>>
        BY DEF IInv, ShutdownInv
    <2>2. \A id \in Ids : child[id] \in {"none", "reaped"}
        BY <2>1 DEF IInv, MapInv, Alive, TypeInv, ChildType
    <2> QED
        BY <2>1, <2>2 DEF ShutdownLeavesNothing
<1> QED
    BY <1>1, Invariance, PTL

-----------------------------------------------------------------------------
(* What the listeners hear                                                 *)

\* Events as the update hook collects them.
Event == [id : Ids, kind : Kinds, data : Seq(Nat)]

\* The chunks of a stream that were read from its pipe.
Taken(id, s) == wrote[id][s] - pipe[id][s]

\* The script runs in a listener, or is blocked in a write() of one.
InCall == js.pc = "call" \/ (js.pc = "write" /\ js.back = "call")

\* A table with a list of each kind for each process.
IsTable(table) == \E S : table \in [Ids -> [Kinds -> S]]

\* The types of what the listeners are about.
EventType ==
    /\ emits \in Seq(Event)
    /\ heard \in [Callbacks -> Seq(Event)]
    /\ walk = [i |-> walk.i, n |-> walk.n, stale |-> walk.stale]
    /\ walk.i \in Nat /\ walk.stale \in BOOLEAN
    /\ IsTable(listeners)
    /\ \A id \in Ids, s \in Streams : Taken(id, s) \in Nat

\* Events are in the hands of the update hook only; while it reads, no list is walked,
\* and whom it has still to visit is not reaped.
PhaseInv ==
    /\ emits # <<>> => js.pc \in {"read", "wait", "emit"} \/ InCall
    /\ InCall => emits # <<>>
    /\ emits = <<>> \/ js.pc \in {"read", "wait"} => walk = NoWalk
    /\ js.pc \in {"read", "wait"} => \A id \in todo : Alive(id)
    /\ js.pc = "wait" => js.id \notin todo /\ Alive(js.id)
    /\ \A id \in processes : child[id] # "none"

\* An update has one event of each kind for a process, its exit after all others, and
\* none for a process it has still to visit.
EmitInv ==
    /\ \A i \in 1..Len(emits) : emits[i].id \in processes
    /\ \A i \in 1..Len(emits) : emits[i].kind = "exit" => child[emits[i].id] = "reaped"
    /\ js.pc \in {"read", "wait"} => \A i \in 1..Len(emits) : emits[i].id \notin todo
    /\ \A i, j \in 1..Len(emits) :
          i # j /\ emits[i].id = emits[j].id => emits[i].kind # emits[j].kind
    /\ \A i, j \in 1..Len(emits) :
          i < j /\ emits[i].kind = "exit" => emits[i].id # emits[j].id

\* The chunks of an event are the last that were taken.
ChunkInv ==
    \A i \in 1..Len(emits) : emits[i].kind # "exit" =>
        /\ Len(emits[i].data) >= 1
        /\ \A k \in 1..Len(emits[i].data) :
              emits[i].data[k] = Taken(emits[i].id, emits[i].kind) - Len(emits[i].data) + k

\* The loop over a list the script left alone is over that list.
WalkInv ==
    emits # <<>> /\ <<emits[1].id, emits[1].kind>> \notin touched =>
        /\ ~walk.stale
        /\ walk.i <= Len(listeners[emits[1].id][emits[1].kind])
        /\ walk.i > 0 => walk.n = Len(listeners[emits[1].id][emits[1].kind])

\* Such a list has no function twice.
ListInv ==
    \A id \in Ids, k \in Kinds : <<id, k>> \notin touched =>
        /\ listeners[id][k] \in Seq(Callbacks)
        /\ \A i, j \in 1..Len(listeners[id][k]) :
              i # j => listeners[id][k][i] # listeners[id][k][j]

\* The i-th event is one of the stream s of id, and the p-th in the list has not heard it.
Due(i, p, id, s) == emits[i].id = id /\ emits[i].kind = s /\ (i > 1 \/ p > walk.i)

\* The last chunk cb has heard of.
LastHeard(cb, id, s) == HeardFrom(cb, id, s)[Len(HeardFrom(cb, id, s))]

\* cb, at place p of its list, has heard all chunks taken up to those of an event it is due.
UpToDate(cb, id, s, p) ==
    /\ \A i \in 1..Len(emits) :
          Due(i, p, id, s) => LastHeard(cb, id, s) = Taken(id, s) - Len(emits[i].data)
    /\ (\A i \in 1..Len(emits) : ~Due(i, p, id, s)) => LastHeard(cb, id, s) = Taken(id, s)

\* Who heard anything of a stream is still in its list, and up to date.
HeardInv ==
    \A cb \in Callbacks, id \in Ids, s \in Streams :
       /\ child[id] = "none" => HeardFrom(cb, id, s) = <<>>
       /\ /\ <<id, s>> \notin touched /\ id \in processes /\ ~InShutdown
          /\ HeardFrom(cb, id, s) # <<>>
          => \E p \in 1..Len(listeners[id][s]) :
                listeners[id][s][p] = cb /\ UpToDate(cb, id, s, p)

\* After the exit of a process there is nothing left to hear of it.
ExitInv ==
    \A cb \in Callbacks : \A i \in 1..Len(heard[cb]) :
        heard[cb][i].kind = "exit" =>
            /\ child[heard[cb][i].id] = "reaped"
            /\ \A j \in 1..Len(emits) : emits[j].id = heard[cb][i].id => emits[j].kind = "exit"

\* What every step keeps, given IInv.
HInv ==
    /\ EventType /\ PhaseInv /\ EmitInv /\ ChunkInv /\ WalkInv /\ ListInv
    /\ HeardInv /\ ExitInv /\ HeardInOrder

-----------------------------------------------------------------------------

\* What the sequence of its calls says of a callback.
HeardOf(seq, id, s) ==
    FlattenSeq([i \in 1..Len(seq) |->
        IF seq[i].id = id /\ seq[i].kind = s THEN seq[i].data ELSE <<>>])

\* It is a sequence of chunks, and grows at its end with each call.
LEMMA HeardOfGrows ==
    ASSUME NEW seq \in Seq(Event), NEW e \in Event, NEW id, NEW s
    PROVE  /\ HeardOf(seq, id, s) \in Seq(Nat)
           /\ HeardOf(Append(seq, e), id, s)
              = HeardOf(seq, id, s) \o (IF e.id = id /\ e.kind = s THEN e.data ELSE <<>>)
<1> DEFINE mark(x) == IF x.id = id /\ x.kind = s THEN x.data ELSE <<>>
           marks(q) == [i \in 1..Len(q) |-> mark(q[i])]
<1>1. \A x \in Event : mark(x) \in Seq(Nat)
    BY DEF Event
<1>2. \A q \in Seq(Event) : marks(q) \in Seq(Seq(Nat)) /\ Len(marks(q)) = Len(q)
    <2> SUFFICES ASSUME NEW q \in Seq(Event)
                 PROVE  marks(q) \in Seq(Seq(Nat)) /\ Len(marks(q)) = Len(q)
        OBVIOUS
    <2>1. Len(q) \in Nat /\ \A i \in 1..Len(q) : q[i] \in Event
        BY LenProperties, ElementOfSeq
    <2> HIDE DEF mark
    <2>2. marks(q) \in [1..Len(q) -> Seq(Nat)]
        BY <1>1, <2>1
    <2> QED
        BY <2>1, <2>2, SeqDef
<1>3. /\ Append(seq, e) \in Seq(Event) /\ Len(Append(seq, e)) = Len(seq) + 1 /\ Len(seq) \in Nat
      /\ \A i \in 1..Len(seq) : Append(seq, e)[i] = seq[i]
      /\ Append(seq, e)[Len(seq) + 1] = e
    BY AppendProperties, LenProperties
<1> HIDE DEF mark
<1>4. marks(Append(seq, e)) = Append(marks(seq), mark(e))
    <2> DEFINE l == marks(Append(seq, e))
               r == Append(marks(seq), mark(e))
               n == Len(seq)
    <2>1. l \in Seq(Seq(Nat)) /\ Len(l) = n + 1 /\ marks(seq) \in Seq(Seq(Nat))
          /\ Len(marks(seq)) = n /\ mark(e) \in Seq(Nat) /\ n \in Nat
        BY <1>1, <1>2, <1>3
    <2>2. \A i \in 1..n : l[i] = mark(seq[i]) /\ marks(seq)[i] = mark(seq[i])
        BY <1>3
    <2>3. l[n + 1] = mark(e)
        BY <1>3
    <2> HIDE DEF l, marks, n
    <2>4. /\ r \in Seq(Seq(Nat)) /\ Len(r) = n + 1
          /\ \A i \in 1..n : r[i] = marks(seq)[i]
          /\ r[n + 1] = mark(e)
        <3>1. \A S : \A ss \in Seq(S), x \in S :
                 /\ Append(ss, x) \in Seq(S) /\ Len(Append(ss, x)) = Len(ss) + 1
                 /\ \A i \in 1..Len(ss) : Append(ss, x)[i] = ss[i]
                 /\ Append(ss, x)[Len(ss) + 1] = x
            BY AppendProperties
        <3>2. /\ r \in Seq(Seq(Nat)) /\ Len(r) = Len(marks(seq)) + 1
              /\ \A i \in 1..Len(marks(seq)) : r[i] = marks(seq)[i]
              /\ r[Len(marks(seq)) + 1] = mark(e)
            BY Zenon, <2>1, <3>1
        <3> QED
            BY <2>1, <3>2
    <2> HIDE DEF r
    <2>5. \A i \in 1..(n + 1) : l[i] = r[i]
        <3> TAKE i \in 1..(n + 1)
        <3>1. i \in 1..n \/ i = n + 1
            BY <2>1
        <3>2. CASE i \in 1..n
            BY Zenon, <2>2, <2>4, <3>2
        <3>3. CASE i = n + 1
            BY Zenon, <2>3, <2>4, <3>3
        <3> QED
            BY <3>1, <3>2, <3>3
    <2>6. l = r
        BY <2>1, <2>4, <2>5, SeqEqual
    <2> QED
        BY <2>6 DEF l, r
<1>5. mark(e) \in Seq(Nat) /\ marks(seq) \in Seq(Seq(Nat))
    BY <1>1, <1>2
<1>6. HeardOf(seq, id, s) = FlattenSeq(marks(seq))
      /\ HeardOf(Append(seq, e), id, s) = FlattenSeq(marks(Append(seq, e)))
    BY DEF HeardOf, mark
<1> HIDE DEF marks
<1>7. FlattenSeq(Append(marks(seq), mark(e))) = FlattenSeq(marks(seq)) \o mark(e)
    BY <1>5, FlattenAppend
<1>8. FlattenSeq(marks(seq)) \in Seq(Nat)
    BY <1>5, FlattenType
<1> QED
    BY <1>4, <1>6, <1>7, <1>8 DEF mark

\* Consecutive chunks, and consecutive chunks that go on from them.
LEMMA ConsecutiveConcat ==
    ASSUME NEW a \in Seq(Nat), NEW b \in Seq(Nat), Consecutive(a), Consecutive(b),
           b # <<>>, a # <<>> => b[1] = a[Len(a)] + 1
    PROVE  Consecutive(a \o b) /\ a \o b # <<>> /\ (a \o b)[Len(a \o b)] = b[Len(b)]
<1>1. /\ a \o b \in Seq(Nat) /\ Len(a \o b) = Len(a) + Len(b)
      /\ \A i \in 1..Len(a) + Len(b) : (a \o b)[i] = IF i <= Len(a) THEN a[i] ELSE b[i - Len(a)]
    BY ConcatProperties
<1>2. Len(a) \in Nat /\ Len(b) \in Nat \ {0} /\ (a = <<>> <=> Len(a) = 0)
    BY EmptySeq, LenProperties
<1> DEFINE c == a \o b
           m == Len(a)
           n == Len(b)
<1>3. ASSUME NEW i \in 1..(Len(c) - 1) PROVE c[i + 1] = c[i] + 1
    <2>1. CASE i < m
        <3>1. c[i] = a[i] /\ c[i + 1] = a[i + 1] /\ i \in 1..(m - 1)
            BY <1>1, <1>2, <2>1
        <3> QED
            BY <3>1 DEF Consecutive
    <2>2. CASE i = m
        <3>1. c[i] = a[m] /\ c[i + 1] = b[1] /\ a # <<>>
            BY <1>1, <1>2, <2>2
        <3> QED
            BY <3>1
    <2>3. CASE i > m
        <3>1. c[i] = b[i - m] /\ c[i + 1] = b[i + 1 - m] /\ i - m \in 1..(n - 1)
              /\ i + 1 - m = (i - m) + 1
            BY <1>1, <1>2, <2>3
        <3> QED
            BY <3>1 DEF Consecutive
    <2> QED
        BY <1>1, <1>2, <2>1, <2>2, <2>3
<1>4. c # <<>> /\ Len(c) = m + n /\ c[m + n] = b[n]
    BY <1>1, <1>2
<1> QED
    BY <1>3, <1>4 DEF Consecutive

-----------------------------------------------------------------------------
(* The steps that leave the listeners, the events and what was heard alone *)

Listening == <<emits, walk, heard, listeners, touched>>

\* The others.
Loud ==
    \/ \E id \in Ids, k \in Kinds, cb \in Callbacks : On(id, k, cb) \/ Off(id, k, cb)
    \/ \E id \in Ids : UpdateRead(id)
    \/ UpdateWait
    \/ \E cb \in Callbacks : CallListener(cb)
    \/ EventDone
    \/ UpdateEnd
    \/ ShutdownBegin

\* What a step that is not loud may do to the rest.
Quiet ==
    /\ UNCHANGED Listening
    /\ \A id \in Ids : /\ child'[id] = "none" => child[id] = "none"
                       /\ child[id] = "reaped" => child'[id] = "reaped"
    /\ \A id \in Ids, s \in Streams : Taken(id, s)' = Taken(id, s)
    /\ \A id \in processes' : child'[id] # "none"
    /\ \A id \in processes' :
          ~InShutdown' => (id \in processes /\ ~InShutdown) \/ child[id] = "none"
    /\ emits # <<>> => /\ processes \subseteq processes'
                       /\ js'.pc \in {"read", "wait"} => js.pc \in {"read", "wait"} /\ todo' = todo
                       /\ js'.pc \in {"read", "wait", "emit"} \/ InCall'
    /\ InCall' => emits # <<>>
    /\ js'.pc \in {"read", "wait"} => \A id \in todo' : Alive(id)'
    /\ js'.pc = "wait" => js'.id \notin todo' /\ Alive(js.id)'
    /\ js'.pc \in {"read", "wait"} => walk = NoWalk

\* The steps that are not loud are quiet.
LEMMA QuietStep ==
    ASSUME IInv, PhaseInv, [Next]_vars, ~Loud
    PROVE  Quiet
<1>0. TypeInv /\ FreshInv /\ MapInv /\ HookInv /\ ShutdownInv
    BY DEF IInv
<1>a. /\ child \in [Ids -> {"none", "running", "zombie", "reaped"}]
      /\ wrote \in [Ids -> [Streams -> Nat]] /\ pipe \in [Ids -> [Streams -> Nat]]
      /\ js \in [pc : JsPcs, id : Ids \cup {0}, back : {"idle", "call"}]
      /\ js.pc \in {"wait", "sdTry", "sdReap"} => js.id \in Ids
      /\ todo \subseteq Ids /\ processes \subseteq Ids
    BY <1>0 DEF TypeInv, ScriptType, TableType, ChildType
<1>1. CASE Spawn \/ Exec
    <2>1. /\ UNCHANGED <<js, todo, wrote, pipe>> /\ UNCHANGED Listening
          /\ processes' = processes \cup {nextId} /\ nextId \in Ids
          /\ child' = [child EXCEPT ![nextId] = "running"]
        BY <1>1 DEF Spawn, Exec, Start, script, Listening
    <2>2. child[nextId] = "none"
        BY <1>0, <2>1 DEF FreshInv, TypeInv, TableType
    <2>3. \A id \in Ids : child'[id] = IF id = nextId THEN "running" ELSE child[id]
        BY <1>a, <2>1
    <2> QED
        BY <1>a, <2>1, <2>2, <2>3 DEF Quiet, PhaseInv, Taken, InCall, InShutdown, Alive
<1>2. ASSUME NEW id \in Ids, Write(id) PROVE Quiet
    <2>1. /\ UNCHANGED <<todo, child, wrote, pipe, processes>> /\ UNCHANGED Listening
          /\ js.pc \in {"idle", "call"}
          /\ js' = js \/ js' = [pc |-> "write", id |-> id, back |-> js.pc]
        BY <1>2 DEF Write, CallOn, Callable, Listening, tables
    <2>2. js'.pc \in {"idle", "call", "write"} /\ (InCall' <=> js.pc = "call")
          /\ ~InShutdown /\ ~InShutdown'
        BY <1>a, <2>1 DEF InCall, InShutdown
    <2>3. js.pc = "idle" => emits = <<>>
        BY DEF PhaseInv, InCall
    <2>4. js.pc = "call" => emits # <<>>
        BY DEF PhaseInv, InCall
    <2> QED
        BY <2>1, <2>2, <2>3, <2>4 DEF Quiet, PhaseInv, Taken
<1>3. ASSUME NEW id \in Ids, CloseStdin(id) \/ Kill(id) PROVE Quiet
    <2>1. UNCHANGED <<js, todo, child, wrote, pipe, processes>> /\ UNCHANGED Listening
        BY <1>3 DEF CloseStdin, Kill, CallOn, Listening, script, tables, os
    <2> QED
        BY <2>1 DEF Quiet, PhaseInv, Taken, InCall, InShutdown, Alive
<1>4. CASE WriteReturnsNow
    <2>1. /\ UNCHANGED <<todo, child, wrote, pipe, processes>> /\ UNCHANGED Listening
          /\ js.pc = "write" /\ js' = At(js.back)
        BY <1>4 DEF WriteReturnsNow, Listening, tables, seen
    <2>2. js'.pc = js.back /\ js.back \in {"idle", "call"}
        BY <1>a, <2>1 DEF At
    <2> QED
        BY <2>1, <2>2 DEF Quiet, PhaseInv, Taken, InCall, InShutdown
<1>5. CASE UpdateBegin
    <2>1. /\ UNCHANGED <<child, wrote, pipe, processes>> /\ UNCHANGED Listening
          /\ js.pc = "idle" /\ js' = At("read") /\ todo' = processes
        BY <1>5 DEF UpdateBegin, Listening, tables, seen, os
    <2>2. emits = <<>>
        BY <2>1 DEF PhaseInv, InCall
    <2>3. \A id \in processes : Alive(id)
        BY <1>0, <1>a, <2>1 DEF MapInv, HookInv, PhaseInv, InShutdown, Alive
    <2> QED
        BY <2>1, <2>2, <2>3 DEF Quiet, PhaseInv, Taken, InCall, InShutdown, Alive, At
<1>6. CASE ListenerReturns
    <2>1. /\ UNCHANGED <<todo, child, wrote, pipe, processes>> /\ UNCHANGED Listening
          /\ js.pc = "call" /\ js' = At("emit")
        BY <1>6 DEF ListenerReturns, Listening, tables, seen, os
    <2> QED
        BY <2>1 DEF Quiet, PhaseInv, Taken, InCall, InShutdown, At
<1>7. ASSUME NEW id \in Ids, ShutdownWait(id) PROVE Quiet
    <2>1. /\ UNCHANGED <<wrote, pipe, processes>> /\ UNCHANGED Listening
          /\ js.pc = "sdWait" /\ js'.pc \in {"sdWait", "sdTry"}
          /\ child' = Reaped(id)
        BY <1>7 DEF ShutdownWait, Listening, tables, seen, At
    <2>2. emits = <<>>
        BY <2>1 DEF PhaseInv, InCall
    <2>3. \A x \in Ids : child'[x] = child[x] \/ (child[x] = "zombie" /\ child'[x] = "reaped")
        BY <1>a, <2>1 DEF Reaped
    <2> QED
        BY <1>a, <2>1, <2>2, <2>3 DEF Quiet, PhaseInv, Taken, InCall, InShutdown
<1>8. CASE ShutdownTry \/ ShutdownReap
    <2>1. /\ UNCHANGED <<wrote, pipe, processes>> /\ UNCHANGED Listening
          /\ js.pc \in {"sdTry", "sdReap"} /\ child' = Reaped(js.id)
          /\ js' = At("sdWait") \/ js' = [js EXCEPT !.pc = "sdReap"]
        BY <1>8 DEF ShutdownTry, ShutdownReap, Listening, tables, seen
    <2>2. emits = <<>> /\ js'.pc \in {"sdWait", "sdReap"}
        BY <1>a, <2>1 DEF PhaseInv, InCall, At
    <2>3. \A x \in Ids : child'[x] = child[x] \/ (child[x] = "zombie" /\ child'[x] = "reaped")
        BY <1>a, <2>1 DEF Reaped
    <2> QED
        BY <1>a, <2>1, <2>2, <2>3 DEF Quiet, PhaseInv, Taken, InCall, InShutdown
<1>9. CASE ShutdownEnd
    <2>1. /\ UNCHANGED <<todo, child, wrote, pipe>> /\ UNCHANGED Listening
          /\ js.pc = "sdWait" /\ js' = At("idle") /\ processes' = {}
        BY <1>9 DEF ShutdownEnd, Listening, seen, os
    <2>2. emits = <<>>
        BY <2>1 DEF PhaseInv, InCall
    <2> QED
        BY <2>1, <2>2 DEF Quiet, PhaseInv, Taken, InCall, InShutdown, At
<1>10. ASSUME NEW id \in Ids, ChildReads(id) PROVE Quiet
    <2>1. UNCHANGED <<js, todo, child, wrote, pipe, processes>> /\ UNCHANGED Listening
        BY <1>10 DEF ChildReads, Listening, script, tables, seen
    <2> QED
        BY <2>1 DEF Quiet, PhaseInv, Taken, InCall, InShutdown, Alive
<1>11. ASSUME NEW id \in Ids, NEW s \in Streams, ChildWrites(id, s) PROVE Quiet
    <2>1. /\ UNCHANGED <<js, todo, child, processes>> /\ UNCHANGED Listening
          /\ wrote' = [wrote EXCEPT ![id][s] = @ + 1] /\ pipe' = [pipe EXCEPT ![id][s] = @ + 1]
        BY <1>11 DEF ChildWrites, Listening, script, tables, seen
    <2>2. \A x \in Ids, y \in Streams : Taken(x, y)' = Taken(x, y)
        <3> SUFFICES ASSUME NEW x \in Ids, NEW y \in Streams PROVE Taken(x, y)' = Taken(x, y)
            OBVIOUS
        <3>1. wrote[x][y] \in Nat /\ pipe[x][y] \in Nat
            BY <1>a
        <3>2. CASE x = id /\ y = s
            BY <1>a, <2>1, <3>1, <3>2 DEF Taken
        <3>3. CASE ~(x = id /\ y = s)
            BY <1>a, <2>1, <3>3 DEF Taken
        <3> QED
            BY <3>2, <3>3
    <2> QED
        BY <2>1, <2>2 DEF Quiet, PhaseInv, InCall, InShutdown, Alive
<1>12. ASSUME NEW id \in Ids, NEW well \in BOOLEAN, ChildExits(id, well) PROVE Quiet
    <2>1. /\ UNCHANGED <<js, todo, wrote, pipe, processes>> /\ UNCHANGED Listening
          /\ child[id] = "running" /\ child' = [child EXCEPT ![id] = "zombie"]
        BY <1>12 DEF ChildExits, Listening, script, tables, seen
    <2>2. \A x \in Ids : child'[x] = IF x = id THEN "zombie" ELSE child[x]
        BY <1>a, <2>1
    <2> QED
        BY <1>a, <2>1, <2>2 DEF Quiet, PhaseInv, Taken, InCall, InShutdown, Alive
<1>13. CASE UNCHANGED vars
    <2>1. UNCHANGED <<js, todo, child, wrote, pipe, processes>> /\ UNCHANGED Listening
        BY <1>13 DEF vars, Listening, script, tables, os, seen
    <2> QED
        BY <2>1 DEF Quiet, PhaseInv, Taken, InCall, InShutdown, Alive
<1> QED
    BY <1>1, <1>2, <1>3, <1>4, <1>5, <1>6, <1>7, <1>8, <1>9, <1>10, <1>11, <1>12, <1>13
    DEF Next, ScriptSteps, UpdateSteps, ShutdownSteps, ChildSteps, Loud

\* Such a step keeps the invariant.
LEMMA QuietKeeps ==
    ASSUME IInv, HInv, Quiet
    PROVE  HInv'
<1>0. /\ EventType /\ PhaseInv /\ EmitInv /\ ChunkInv /\ WalkInv /\ ListInv
      /\ HeardInv /\ ExitInv /\ HeardInOrder
    BY DEF HInv
<1>1. emits' = emits /\ walk' = walk /\ heard' = heard /\ listeners' = listeners
      /\ touched' = touched
    BY DEF Quiet, Listening
<1>2. EventType'
    BY <1>0, <1>1 DEF EventType, Quiet
<1>3. PhaseInv'
    BY <1>0, <1>1 DEF PhaseInv, Quiet
<1>a. \A i \in 1..Len(emits) : emits[i] \in Event /\ emits[i].id \in Ids /\ emits # <<>>
    <2>1. emits \in Seq(Event)
        BY <1>0 DEF EventType
    <2>2. \A i \in 1..Len(emits) : emits[i] \in Event
        BY <2>1, ElementOfSeq
    <2>3. \A e \in Event : e.id \in Ids
        BY DEF Event
    <2>4. emits = <<>> => Len(emits) = 0
        BY <2>1, EmptySeq
    <2> QED
        BY <2>2, <2>3, <2>4
<1>4. EmitInv'
    BY <1>0, <1>1, <1>a DEF EmitInv, Quiet
<1>5. ChunkInv'
    <2> SUFFICES ASSUME NEW i \in 1..Len(emits), emits[i].kind # "exit"
                 PROVE  /\ Len(emits[i].data) >= 1
                        /\ \A k \in 1..Len(emits[i].data) :
                              emits[i].data[k]
                              = Taken(emits[i].id, emits[i].kind)' - Len(emits[i].data) + k
        BY <1>1 DEF ChunkInv, Taken
    <2>1. emits[i].id \in Ids /\ emits[i].kind \in Streams
        BY <1>a DEF Event, Kinds
    <2>2. Taken(emits[i].id, emits[i].kind)' = Taken(emits[i].id, emits[i].kind)
        BY <1>1, <2>1 DEF Quiet, Taken
    <2> QED
        BY <1>0, <2>2 DEF ChunkInv
<1>6. WalkInv' /\ ListInv'
    BY <1>0, <1>1 DEF WalkInv, ListInv
<1>7. HeardInv'
    <2> SUFFICES ASSUME NEW cb \in Callbacks, NEW id \in Ids, NEW s \in Streams
                 PROVE  /\ child'[id] = "none" => HeardFrom(cb, id, s)' = <<>>
                        /\ /\ <<id, s>> \notin touched' /\ id \in processes' /\ ~InShutdown'
                           /\ HeardFrom(cb, id, s)' # <<>>
                           => \E p \in 1..Len(listeners'[id][s]) :
                                listeners'[id][s][p] = cb /\ UpToDate(cb, id, s, p)'
        BY DEF HeardInv
    <2>1. HeardFrom(cb, id, s)' = HeardFrom(cb, id, s)
        BY <1>1 DEF HeardFrom
    <2>2. LastHeard(cb, id, s)' = LastHeard(cb, id, s)
        BY <2>1 DEF LastHeard
    <2>3. Taken(id, s)' = Taken(id, s)
        BY DEF Quiet
    <2>4. \A p : UpToDate(cb, id, s, p)' <=> UpToDate(cb, id, s, p)
        BY <1>1, <2>2, <2>3 DEF UpToDate, Due
    <2>5. child'[id] = "none" => HeardFrom(cb, id, s) = <<>>
        BY <1>0 DEF Quiet, HeardInv
    <2>6. ASSUME <<id, s>> \notin touched', id \in processes', ~InShutdown',
                 HeardFrom(cb, id, s)' # <<>>
          PROVE  \E p \in 1..Len(listeners'[id][s]) :
                    listeners'[id][s][p] = cb /\ UpToDate(cb, id, s, p)'
        <3>1. child[id] # "none"
            BY <1>0, <2>1, <2>6 DEF HeardInv
        <3>2. id \in processes /\ ~InShutdown
            BY <2>6, <3>1 DEF Quiet
        <3> QED
            BY <1>0, <1>1, <2>1, <2>4, <2>6, <3>2 DEF HeardInv
    <2> QED
        BY <2>1, <2>5, <2>6
<1>8. ExitInv'
    <2>1. \A cb \in Callbacks : \A i \in 1..Len(heard[cb]) : heard[cb][i].id \in Ids
        <3>1. \A cb \in Callbacks : heard[cb] \in Seq(Event)
            BY <1>0 DEF EventType
        <3>2. \A cb \in Callbacks : \A i \in 1..Len(heard[cb]) : heard[cb][i] \in Event
            BY <3>1, ElementOfSeq
        <3> QED
            BY <3>2 DEF Event
    <2> QED
        BY <1>0, <1>1, <2>1 DEF ExitInv, Quiet
<1>9. HeardInOrder'
    BY <1>0, <1>1 DEF HeardInOrder, HeardFrom
<1> QED
    BY <1>2, <1>3, <1>4, <1>5, <1>6, <1>7, <1>8, <1>9 DEF HInv

-----------------------------------------------------------------------------
(* on() and off()                                                          *)

\* A list the script takes from, or lengthens while it is walked, is touched; any other
\* grows at its end by a function it did not have.
LEMMA ListenStep ==
    ASSUME IInv, HInv, NEW id \in Ids, NEW k \in Kinds, NEW cb \in Callbacks,
           On(id, k, cb) \/ Off(id, k, cb)
    PROVE  HInv'
<1>0. /\ EventType /\ PhaseInv /\ EmitInv /\ ChunkInv /\ WalkInv /\ ListInv
      /\ HeardInv /\ ExitInv /\ HeardInOrder
    BY DEF HInv
<1>1. /\ UNCHANGED <<js, todo, emits, processes, child, wrote, pipe, heard>>
      /\ touched \subseteq touched'
      /\ js.pc \in {"idle", "call"}
    BY DEF On, Off, CallOn, Callable, os
<1>2. IsTable(listeners') /\ \A x \in Ids, y \in Kinds :
         <<x, y>> \notin touched' /\ <<x, y>> # <<id, k>> => listeners'[x][y] = listeners[x][y]
    <2>1. PICK l : listeners' = [listeners EXCEPT ![id][k] = l]
        BY DEF On, Off
    <2>2. PICK S : listeners \in [Ids -> [Kinds -> S]]
        BY <1>0 DEF EventType, IsTable
    <2> DEFINE T == S \cup {l}
    <2>3. listeners' \in [Ids -> [Kinds -> T]]
        BY <2>1, <2>2
    <2>4. \A x \in Ids, y \in Kinds : <<x, y>> # <<id, k>> => listeners'[x][y] = listeners[x][y]
        BY <2>1, <2>2
    <2> QED
        BY <2>3, <2>4 DEF IsTable
<1>3. \/ walk' = walk
      \/ walk' = [walk EXCEPT !.stale = TRUE] /\ Walking(id, k) /\ <<id, k>> \in touched'
    <2>1. CASE On(id, k, cb)
        <3>1. \/ walk' = walk
              \/ /\ Walking(id, k)
                 /\ \E moved \in BOOLEAN : walk' = [walk EXCEPT !.stale = @ \/ moved]
            <4>1. CASE Walking(id, k)
                BY Zenon, <2>1, <4>1 DEF On
            <4>2. CASE ~Walking(id, k)
                BY <2>1, <4>2 DEF On
            <4> QED
                BY <4>1, <4>2
        <3>2. \A moved \in BOOLEAN :
                 [walk EXCEPT !.stale = @ \/ moved] \in {walk, [walk EXCEPT !.stale = TRUE]}
            BY <1>0 DEF EventType
        <3>3. Walking(id, k) => <<id, k>> \in touched'
            BY <2>1 DEF On
        <3> QED
            BY <3>1, <3>2, <3>3
    <2>2. CASE Off(id, k, cb)
        <3>1. walk' = [walk EXCEPT !.stale = @ \/ Walking(id, k)] /\ <<id, k>> \in touched'
            BY <2>2 DEF Off
        <3>2. CASE Walking(id, k)
            <4>1. walk' = [walk EXCEPT !.stale = TRUE]
                BY <1>0, <3>1, <3>2 DEF EventType
            <4> QED
                BY <3>1, <3>2, <4>1
        <3>3. CASE ~Walking(id, k)
            BY <1>0, <3>1, <3>3 DEF EventType
        <3> QED
            BY <3>2, <3>3
    <2> QED
        BY <2>1, <2>2
<1>4. /\ walk' = [i |-> walk'.i, n |-> walk'.n, stale |-> walk'.stale]
      /\ walk'.i = walk.i /\ walk'.n = walk.n /\ walk'.stale \in BOOLEAN
    BY <1>0, <1>3 DEF EventType
<1>5. <<id, k>> \notin touched' =>
         On(id, k, cb) /\ listeners'[id][k] = Append(listeners[id][k], cb)
         /\ ~Walking(id, k) /\ cb \notin Range(listeners[id][k])
    <2>1. Off(id, k, cb) => <<id, k>> \in touched'
        BY DEF Off
    <2>2. On(id, k, cb) => listeners' = [listeners EXCEPT ![id][k] = Append(@, cb)]
                           /\ cb \notin Range(listeners[id][k])
                           /\ (Walking(id, k) => <<id, k>> \in touched')
        BY DEF On
    <2>3. PICK S : listeners \in [Ids -> [Kinds -> S]]
        BY <1>0 DEF EventType, IsTable
    <2>4. \A l : listeners' = [listeners EXCEPT ![id][k] = l] => listeners'[id][k] = l
        BY <2>3
    <2> QED
        BY <2>1, <2>2, <2>4
<1>a. \A i \in 1..Len(emits) : emits[i].id \in Ids /\ emits[i].kind \in Kinds
    <2>1. emits \in Seq(Event)
        BY <1>0 DEF EventType
    <2>2. \A i \in 1..Len(emits) : emits[i] \in Event
        BY <2>1, ElementOfSeq
    <2> QED
        BY <2>2 DEF Event
<1>b. \A x \in Ids, y \in Kinds : <<x, y>> \notin touched' =>
          /\ listeners[x][y] \in Seq(Callbacks) /\ listeners'[x][y] \in Seq(Callbacks)
          /\ Len(listeners'[x][y]) >= Len(listeners[x][y])
          /\ \A i \in 1..Len(listeners[x][y]) : listeners'[x][y][i] = listeners[x][y][i]
          /\ \A i, j \in 1..Len(listeners'[x][y]) :
                i # j => listeners'[x][y][i] # listeners'[x][y][j]
    <2> SUFFICES ASSUME NEW x \in Ids, NEW y \in Kinds, <<x, y>> \notin touched'
                 PROVE  /\ listeners[x][y] \in Seq(Callbacks) /\ listeners'[x][y] \in Seq(Callbacks)
                        /\ Len(listeners'[x][y]) >= Len(listeners[x][y])
                        /\ \A i \in 1..Len(listeners[x][y]) :
                              listeners'[x][y][i] = listeners[x][y][i]
                        /\ \A i, j \in 1..Len(listeners'[x][y]) :
                              i # j => listeners'[x][y][i] # listeners'[x][y][j]
        OBVIOUS
    <2> DEFINE l == listeners[x][y]
    <2>1. l \in Seq(Callbacks) /\ Len(l) \in Nat /\ \A i, j \in 1..Len(l) : i # j => l[i] # l[j]
        BY <1>0, <1>1, LenProperties DEF ListInv
    <2>2. CASE <<x, y>> = <<id, k>>
        <3>1. listeners'[x][y] = Append(l, cb) /\ cb \notin Range(l)
            BY <1>5, <2>2
        <3> HIDE DEF l
        <3>2. /\ Append(l, cb) \in Seq(Callbacks) /\ Len(Append(l, cb)) = Len(l) + 1
              /\ \A i \in 1..Len(l) : Append(l, cb)[i] = l[i]
              /\ Append(l, cb)[Len(l) + 1] = cb
            BY <2>1, AppendProperties
        <3>3. \A i \in 1..Len(l) : l[i] # cb
            BY <2>1, <3>1 DEF Range
        <3>4. ASSUME NEW i \in 1..(Len(l) + 1), NEW j \in 1..(Len(l) + 1), i # j
              PROVE  Append(l, cb)[i] # Append(l, cb)[j]
            <4>1. CASE i \in 1..Len(l) /\ j \in 1..Len(l)
                BY <2>1, <3>2, <3>4, <4>1
            <4>2. CASE i = Len(l) + 1
                <5>1. j \in 1..Len(l)
                    BY <2>1, <3>4, <4>2
                <5> QED
                    BY <3>2, <3>3, <4>2, <5>1, Zenon
            <4>3. CASE j = Len(l) + 1
                <5>1. i \in 1..Len(l)
                    BY <2>1, <3>4, <4>3
                <5> QED
                    BY <3>2, <3>3, <4>3, <5>1, Zenon
            <4> QED
                BY <2>1, <4>1, <4>2, <4>3
        <3> QED
            BY <2>1, <3>1, <3>2, <3>4 DEF l
    <2>3. CASE <<x, y>> # <<id, k>>
        BY <1>2, <2>1, <2>3
    <2> QED
        BY <2>2, <2>3
<1>6. EventType'
    BY <1>0, <1>1, <1>2, <1>4 DEF EventType, Taken
<1>7. PhaseInv'
    <2>1. Walking(id, k) => emits # <<>> /\ js.pc = "call"
        BY <1>0 DEF PhaseInv, InCall, Walking
    <2>2. emits = <<>> => walk' = walk
        BY <1>3, <2>1
    <2> QED
        BY <1>0, <1>1, <2>2 DEF PhaseInv, InCall, Alive
<1>8. EmitInv' /\ ChunkInv'
    BY <1>0, <1>1 DEF EmitInv, ChunkInv, Taken
<1>9. WalkInv'
    <2> SUFFICES ASSUME emits # <<>>, <<emits[1].id, emits[1].kind>> \notin touched'
                 PROVE  /\ ~walk'.stale
                        /\ walk'.i <= Len(listeners'[emits[1].id][emits[1].kind])
                        /\ walk'.i > 0 => walk'.n = Len(listeners'[emits[1].id][emits[1].kind])
        BY <1>1 DEF WalkInv
    <2>1. Head(emits) = emits[1] /\ 1 \in 1..Len(emits)
        BY <1>0, EmptySeq, HeadTailProperties DEF EventType
    <2>2. js.pc = "call"
        BY <1>0, <1>1 DEF PhaseInv, InCall
    <2>3. <<emits[1].id, emits[1].kind>> # <<id, k>>
        BY <1>5, <2>1, <2>2 DEF Walking
    <2>4. ~Walking(id, k)
        BY <2>1, <2>3 DEF Walking
    <2>5. walk' = walk
        BY <1>3, <2>4
    <2>6. listeners'[emits[1].id][emits[1].kind] = listeners[emits[1].id][emits[1].kind]
        BY <1>2, <1>a, <2>1, <2>3
    <2>7. <<emits[1].id, emits[1].kind>> \notin touched
        BY <1>1
    <2> QED
        BY <1>0, <2>5, <2>6, <2>7 DEF WalkInv
<1>10. ListInv'
    BY <1>b DEF ListInv
<1>11. HeardInv'
    <2> SUFFICES ASSUME NEW c \in Callbacks, NEW x \in Ids, NEW s \in Streams
                 PROVE  /\ child'[x] = "none" => HeardFrom(c, x, s)' = <<>>
                        /\ /\ <<x, s>> \notin touched' /\ x \in processes' /\ ~InShutdown'
                           /\ HeardFrom(c, x, s)' # <<>>
                           => \E p \in 1..Len(listeners'[x][s]) :
                                listeners'[x][s][p] = c /\ UpToDate(c, x, s, p)'
        BY DEF HeardInv
    <2>1. HeardFrom(c, x, s)' = HeardFrom(c, x, s)
        BY <1>1 DEF HeardFrom
    <2>2. LastHeard(c, x, s)' = LastHeard(c, x, s)
        BY <2>1 DEF LastHeard
    <2>3. \A p : UpToDate(c, x, s, p)' <=> UpToDate(c, x, s, p)
        BY <1>1, <1>4, <2>2 DEF UpToDate, Due, Taken
    <2>4. InShutdown' = InShutdown
        BY <1>1 DEF InShutdown
    <2>5. ASSUME <<x, s>> \notin touched', x \in processes', ~InShutdown',
                 HeardFrom(c, x, s)' # <<>>
          PROVE  \E p \in 1..Len(listeners'[x][s]) :
                    listeners'[x][s][p] = c /\ UpToDate(c, x, s, p)'
        <3>1. <<x, s>> \notin touched /\ s \in Kinds
            BY <1>1, <2>5 DEF Kinds
        <3>2. PICK p \in 1..Len(listeners[x][s]) :
                 listeners[x][s][p] = c /\ UpToDate(c, x, s, p)
            BY <1>0, <1>1, <2>1, <2>4, <2>5, <3>1 DEF HeardInv
        <3>3. p \in 1..Len(listeners'[x][s]) /\ listeners'[x][s][p] = c
            BY <1>b, <2>5, <3>1, <3>2, LenProperties
        <3> QED
            BY <2>3, <3>2, <3>3
    <2> QED
        BY <1>0, <1>1, <2>1, <2>5 DEF HeardInv
<1>12. ExitInv'
    BY <1>0, <1>1 DEF ExitInv
<1>13. HeardInOrder'
    BY <1>0, <1>1 DEF HeardInOrder, HeardFrom
<1> QED
    BY <1>6, <1>7, <1>8, <1>9, <1>10, <1>11, <1>12, <1>13 DEF HInv

-----------------------------------------------------------------------------
(* The update hook                                                         *)

\* What reading the pipes of id adds to the events: one for each stream with chunks.
LEMMA ReadAppends ==
    ASSUME IInv, HInv, NEW id \in Ids, UpdateRead(id)
    PROVE  /\ emits' \in Seq(Event) /\ Len(emits) \in Nat /\ Len(emits') >= Len(emits)
           /\ \A i \in 1..Len(emits) : emits'[i] = emits[i]
           /\ \A i \in 1..Len(emits') : i > Len(emits) =>
                 \E s \in Streams : pipe[id][s] > 0
                                    /\ emits'[i] = [id |-> id, kind |-> s, data |-> Waiting(id, s)]
           /\ \A i, j \in 1..Len(emits') :
                 i > Len(emits) /\ j > Len(emits) /\ i # j => emits'[i].kind # emits'[j].kind
           /\ \A s \in Streams : pipe[id][s] > 0 =>
                 \E i \in 1..Len(emits') :
                    i > Len(emits) /\ emits'[i] = [id |-> id, kind |-> s, data |-> Waiting(id, s)]
<1> DEFINE ev(s) == [id |-> id, kind |-> s, data |-> Waiting(id, s)]
           a == EmitsOf(id, "stdout")
           b == EmitsOf(id, "stderr")
<1>1. emits' = emits \o a \o b /\ emits \in Seq(Event)
    BY DEF UpdateRead, HInv, EventType
<1>2. ASSUME NEW s \in Streams PROVE pipe[id][s] \in Nat /\ pipe[id][s] <= wrote[id][s]
    <2>1. TypeInv
        BY DEF IInv
    <2>2. Taken(id, s) \in Nat
        BY DEF HInv, EventType
    <2> QED
        BY <2>1, <2>2 DEF TypeInv, ChildType, Taken
<1>3. \A s \in Streams : ev(s) \in Event
    BY <1>2, WaitingType DEF IInv, Event, Kinds
<1>4. \A s \in Streams : EmitsOf(id, s) = IF pipe[id][s] = 0 THEN <<>> ELSE <<ev(s)>>
    BY DEF EmitsOf
<1>5. "stdout" \in Streams /\ "stderr" \in Streams /\ Streams = {"stdout", "stderr"}
    BY DEF Streams
<1> HIDE DEF ev
<1>6. a \in Seq(Event) /\ b \in Seq(Event)
    <2>1. <<>> \in Seq(Event) /\ \A e \in Event : <<e>> \in Seq(Event)
        OBVIOUS
    <2> SUFFICES ASSUME NEW s \in Streams PROVE EmitsOf(id, s) \in Seq(Event)
        BY <1>5
    <2>2. CASE pipe[id][s] = 0
        BY Zenon, <1>4, <2>1, <2>2
    <2>3. CASE pipe[id][s] # 0
        BY Zenon, <1>3, <1>4, <2>1, <2>3
    <2> QED
        BY <2>2, <2>3
<1>7. Len(emits) \in Nat /\ \A i \in 1..Len(emits) : emits[i] \in Event
    BY <1>1, LenProperties, ElementOfSeq
<1> HIDE DEF a, b
<1>8. /\ (emits \o a) \o b \in Seq(Event)
      /\ Len((emits \o a) \o b) = Len(emits) + Len(a) + Len(b)
      /\ \A i \in 1..Len(emits) : ((emits \o a) \o b)[i] = emits[i]
      /\ \A i \in 1..Len(a) : ((emits \o a) \o b)[Len(emits) + i] = a[i]
      /\ \A i \in 1..Len(b) : ((emits \o a) \o b)[Len(emits) + Len(a) + i] = b[i]
    <2> DEFINE n == Len(emits)
               c == emits \o a
    <2>1. /\ c \in Seq(Event) /\ Len(c) = n + Len(a)
          /\ \A i \in 1..n + Len(a) : c[i] = IF i <= n THEN emits[i] ELSE a[i - n]
        BY <1>1, <1>6, ConcatProperties
    <2>2. Len(a) \in Nat /\ Len(b) \in Nat /\ n \in Nat
        BY <1>1, <1>6, LenProperties
    <2> HIDE DEF c, n
    <2>3. /\ c \o b \in Seq(Event) /\ Len(c \o b) = Len(c) + Len(b)
          /\ \A i \in 1..Len(c) + Len(b) : (c \o b)[i] = IF i <= Len(c) THEN c[i] ELSE b[i - Len(c)]
        BY <1>6, <2>1, ConcatProperties
    <2>4. \A i \in 1..n : (c \o b)[i] = emits[i]
        BY <2>1, <2>2, <2>3
    <2>5. ASSUME NEW i \in 1..Len(a) PROVE (c \o b)[n + i] = a[i]
        <3>1. n + i \in 1..n + Len(a) /\ ~(n + i <= n) /\ (n + i) - n = i
            BY <2>2
        <3>2. c[n + i] = a[i]
            BY <2>1, <3>1
        <3>3. n + i \in 1..Len(c) + Len(b) /\ n + i <= Len(c)
            BY <2>1, <2>2
        <3> QED
            BY <2>3, <3>2, <3>3
    <2>6. ASSUME NEW i \in 1..Len(b) PROVE (c \o b)[n + Len(a) + i] = b[i]
        <3>1. n + Len(a) + i \in 1..Len(c) + Len(b) /\ ~(n + Len(a) + i <= Len(c))
              /\ (n + Len(a) + i) - Len(c) = i
            BY <2>1, <2>2
        <3> QED
            BY <2>3, <3>1
    <2> QED
        BY <2>1, <2>3, <2>4, <2>5, <2>6 DEF c, n
<1> DEFINE n == Len(emits)
<1>9. CASE pipe[id]["stdout"] = 0 /\ pipe[id]["stderr"] = 0
    <2>1. a = <<>> /\ b = <<>> /\ Len(a) = 0 /\ Len(b) = 0
        BY <1>4, <1>5, <1>9 DEF a, b
    <2>2. Len(emits') = n
        BY <1>1, <1>7, <1>8, <2>1
    <2> QED
        BY <1>1, <1>5, <1>7, <1>8, <1>9, <2>2
<1>10. CASE pipe[id]["stdout"] > 0 /\ pipe[id]["stderr"] = 0
    <2>1. a = <<ev("stdout")>> /\ b = <<>>
        BY <1>2, <1>4, <1>5, <1>10 DEF a, b
    <2>2. Len(a) = 1 /\ a[1] = ev("stdout") /\ Len(b) = 0
        BY <2>1
    <2>3. Len(emits') = n + 1 /\ emits'[n + 1] = ev("stdout")
        BY <1>1, <1>7, <1>8, <2>2
    <2>4. \A i \in 1..Len(emits') : i > n => i = n + 1
        BY <1>7, <2>3
    <2> QED
        BY <1>1, <1>5, <1>7, <1>8, <1>10, <2>3, <2>4 DEF ev
<1>11. CASE pipe[id]["stdout"] = 0 /\ pipe[id]["stderr"] > 0
    <2>1. a = <<>> /\ b = <<ev("stderr")>>
        BY <1>2, <1>4, <1>5, <1>11 DEF a, b
    <2>2. Len(a) = 0 /\ b[1] = ev("stderr") /\ Len(b) = 1
        BY <2>1
    <2>3. Len(emits') = n + 1 /\ emits'[n + 1] = ev("stderr")
        BY <1>1, <1>7, <1>8, <2>2
    <2>4. \A i \in 1..Len(emits') : i > n => i = n + 1
        BY <1>7, <2>3
    <2> QED
        BY <1>1, <1>5, <1>7, <1>8, <1>11, <2>3, <2>4 DEF ev
<1>12. CASE pipe[id]["stdout"] > 0 /\ pipe[id]["stderr"] > 0
    <2>1. a = <<ev("stdout")>> /\ b = <<ev("stderr")>>
        BY <1>2, <1>4, <1>5, <1>12 DEF a, b
    <2>2. Len(a) = 1 /\ a[1] = ev("stdout") /\ b[1] = ev("stderr") /\ Len(b) = 1
        BY <2>1
    <2>3. Len(emits') = n + 2 /\ emits'[n + 1] = ev("stdout") /\ emits'[n + 2] = ev("stderr")
        BY <1>1, <1>7, <1>8, <2>2
    <2>4. \A i \in 1..Len(emits') : i > n => i = n + 1 \/ i = n + 2
        BY <1>7, <2>3
    <2>5. ev("stdout").kind = "stdout" /\ ev("stderr").kind = "stderr"
        BY DEF ev
    <2>6. \A i, j \in 1..Len(emits') : i > n /\ j > n /\ i # j => emits'[i].kind # emits'[j].kind
        <3> SUFFICES ASSUME NEW i \in 1..Len(emits'), NEW j \in 1..Len(emits'), i > n, j > n, i # j
                     PROVE  emits'[i].kind # emits'[j].kind
            OBVIOUS
        <3>1. CASE i = n + 1
            <4>1. j = n + 2
                BY <2>4, <3>1
            <4> QED
                BY Zenon, <2>3, <2>5, <3>1, <4>1
        <3>2. CASE i = n + 2
            <4>1. j = n + 1
                BY <2>4, <3>2
            <4> QED
                BY Zenon, <2>3, <2>5, <3>2, <4>1
        <3> QED
            BY <2>4, <3>1, <3>2
    <2>7. n + 1 \in 1..Len(emits') /\ n + 2 \in 1..Len(emits') /\ n + 1 > n /\ n + 2 > n
          /\ Len(emits') >= n
        BY <1>7, <2>3
    <2>8. \A i \in 1..Len(emits') : i > n => \E s \in Streams : pipe[id][s] > 0 /\ emits'[i] = ev(s)
        <3> SUFFICES ASSUME NEW i \in 1..Len(emits'), i > n
                     PROVE  \E s \in Streams : pipe[id][s] > 0 /\ emits'[i] = ev(s)
            OBVIOUS
        <3>1. CASE i = n + 1
            BY Zenon, <1>5, <1>12, <2>3, <3>1
        <3>2. CASE i = n + 2
            BY Zenon, <1>5, <1>12, <2>3, <3>2
        <3> QED
            BY <2>4, <3>1, <3>2
    <2>9. \A s \in Streams : \E i \in 1..Len(emits') : i > n /\ emits'[i] = ev(s)
        BY Zenon, <1>5, <2>3, <2>7
    <2> QED
        BY <1>1, <1>7, <1>8, <2>6, <2>7, <2>8, <2>9 DEF ev
<1> QED
    BY <1>2, <1>5, <1>9, <1>10, <1>11, <1>12

\* The events are events, numbered from 1.
LEMMA EventFields ==
    ASSUME EventType
    PROVE  /\ emits \in Seq(Event) /\ Len(emits) \in Nat /\ (emits = <<>> <=> Len(emits) = 0)
           /\ \A i \in 1..Len(emits) : /\ emits[i] \in Event
                                       /\ emits[i].id \in Ids /\ emits[i].kind \in Kinds
                                       /\ emits[i].data \in Seq(Nat)
<1>1. emits \in Seq(Event)
    BY DEF EventType
<1>2. \A i \in 1..Len(emits) : emits[i] \in Event
    BY <1>1, ElementOfSeq
<1>3. Len(emits) \in Nat /\ (emits = <<>> <=> Len(emits) = 0)
    BY <1>1, LenProperties, EmptySeq
<1> QED
    BY <1>1, <1>2, <1>3 DEF Event

\* So is what the callbacks heard.
LEMMA HeardFields ==
    ASSUME EventType, NEW cb \in Callbacks
    PROVE  /\ heard[cb] \in Seq(Event) /\ Len(heard[cb]) \in Nat
           /\ \A i \in 1..Len(heard[cb]) : /\ heard[cb][i] \in Event
                                           /\ heard[cb][i].id \in Ids
                                           /\ heard[cb][i].kind \in Kinds
<1>1. heard[cb] \in Seq(Event)
    BY DEF EventType
<1>2. \A i \in 1..Len(heard[cb]) : heard[cb][i] \in Event
    BY <1>1, ElementOfSeq
<1>3. Len(heard[cb]) \in Nat
    BY <1>1, LenProperties
<1> QED
    BY <1>1, <1>2, <1>3 DEF Event

\* The update hook reads the pipes of a process.
LEMMA ReadStep ==
    ASSUME IInv, HInv, NEW id \in Ids, UpdateRead(id)
    PROVE  HInv'
<1> DEFINE n == Len(emits)
           ev(s) == [id |-> id, kind |-> s, data |-> Waiting(id, s)]
<1>0. /\ EventType /\ PhaseInv /\ EmitInv /\ ChunkInv /\ WalkInv /\ ListInv
      /\ HeardInv /\ ExitInv /\ HeardInOrder
    BY DEF HInv
<1>t. /\ TypeInv /\ MapInv /\ js \in [pc : JsPcs, id : Ids \cup {0}, back : {"idle", "call"}]
      /\ wrote \in [Ids -> [Streams -> Nat]] /\ pipe \in [Ids -> [Streams -> Nat]]
    BY DEF IInv, TypeInv, ScriptType, ChildType
<1>1. /\ js.pc = "read" /\ id \in todo /\ todo' = todo \ {id}
      /\ js' = [js EXCEPT !.pc = "wait", !.id = id]
      /\ pipe' = [pipe EXCEPT ![id] = EmptyPipes]
      /\ walk' = walk /\ processes' = processes /\ listeners' = listeners /\ child' = child
      /\ wrote' = wrote /\ heard' = heard /\ touched' = touched
    <2>1. UNCHANGED <<walk, processes, listeners, child, wrote, heard, touched>>
        BY DEF UpdateRead, seen
    <2>2. /\ js.pc = "read" /\ id \in todo /\ todo' = todo \ {id}
          /\ js' = [js EXCEPT !.pc = "wait", !.id = id]
          /\ pipe' = [pipe EXCEPT ![id] = EmptyPipes]
        BY Zenon DEF UpdateRead
    <2> QED
        BY Zenon, <2>1, <2>2
<1>2. js'.pc = "wait" /\ js'.id = id /\ ~InCall' /\ ~InShutdown /\ ~InShutdown'
    BY <1>1, <1>t DEF InCall, InShutdown
<1>3. Alive(id) /\ id \in processes /\ walk = NoWalk
    BY <1>0, <1>1, <1>t DEF PhaseInv, MapInv
<1>4. \A i \in 1..n : emits[i].id # id
    BY <1>0, <1>1 DEF EmitInv
<1>5. /\ emits' \in Seq(Event) /\ n \in Nat /\ Len(emits') >= n
      /\ \A i \in 1..n : emits'[i] = emits[i]
      /\ \A i \in 1..Len(emits') : i > n =>
            \E s \in Streams : pipe[id][s] > 0 /\ emits'[i] = ev(s)
      /\ \A i, j \in 1..Len(emits') : i > n /\ j > n /\ i # j => emits'[i].kind # emits'[j].kind
      /\ \A s \in Streams : pipe[id][s] > 0 =>
            \E i \in 1..Len(emits') : i > n /\ emits'[i] = ev(s)
    BY ReadAppends
<1>6. Len(emits') \in Nat
    BY <1>5, LenProperties
<1>7. \A i \in 1..Len(emits') : (i \in 1..n) \/ (i > n)
    BY <1>5, <1>6
<1>8. \A i \in 1..Len(emits') : i > n => emits'[i].id = id /\ emits'[i].kind \in Streams
    <2>1. \A s \in Streams : ev(s).id = id /\ ev(s).kind = s
        OBVIOUS
    <2> HIDE DEF ev, n
    <2> SUFFICES ASSUME NEW i \in 1..Len(emits'), i > n
                 PROVE  emits'[i].id = id /\ emits'[i].kind \in Streams
        OBVIOUS
    <2>2. PICK s \in Streams : emits'[i] = ev(s)
        BY <1>5
    <2> QED
        BY <2>1, <2>2
<1>9. \A s \in Streams : Waiting(id, s) \in Seq(Nat) /\ Len(Waiting(id, s)) = pipe[id][s]
         /\ \A k \in 1..pipe[id][s] : Waiting(id, s)[k] = wrote[id][s] - pipe[id][s] + k
    <2> SUFFICES ASSUME NEW s \in Streams PROVE pipe[id][s] <= wrote[id][s]
        BY <1>t, WaitingType
    <2>1. Taken(id, s) \in Nat /\ pipe[id][s] \in Nat /\ wrote[id][s] \in Nat
        BY <1>0, <1>t DEF EventType
    <2> QED
        BY <2>1 DEF Taken
<1>10. \A s \in Streams : /\ Taken(id, s)' = wrote[id][s]
                          /\ Taken(id, s) = wrote[id][s] - pipe[id][s]
                          /\ wrote[id][s] \in Nat /\ pipe[id][s] \in Nat
    BY <1>1, <1>t DEF Taken, EmptyPipes
<1>11. \A x \in Ids, s \in Streams : x # id => Taken(x, s)' = Taken(x, s)
    BY <1>1, <1>t DEF Taken
<1>e. \A i \in 1..n : emits[i].id \in Ids /\ emits[i].kind \in Kinds
    BY <1>0, EventFields
<1>f. \A i \in 1..Len(emits') : emits'[i].id \in Ids /\ emits'[i].kind \in Kinds
    BY <1>5, <1>7, <1>8, <1>e DEF Kinds
<1> HIDE DEF ev, n
<1>12. EventType'
    <2>1. \A x \in Ids, s \in Streams : Taken(x, s)' \in Nat
        BY <1>0, <1>10, <1>11 DEF EventType
    <2> QED
        BY <1>0, <1>1, <1>5, <2>1 DEF EventType
<1>13. PhaseInv'
    BY <1>0, <1>1, <1>2, <1>3 DEF PhaseInv, Alive
<1>14. EmitInv'
    <2>1. \A i \in 1..Len(emits') : emits'[i].id \in processes'
        BY <1>0, <1>1, <1>3, <1>5, <1>7, <1>8 DEF EmitInv, n
    <2>2. \A i \in 1..Len(emits') : emits'[i].kind = "exit" => i \in 1..n
        BY <1>7, <1>8 DEF Streams
    <2>3. \A i \in 1..Len(emits') : emits'[i].kind = "exit" => child'[emits'[i].id] = "reaped"
        BY <1>0, <1>1, <1>5, <2>2 DEF EmitInv, n
    <2>4. \A i \in 1..Len(emits') : emits'[i].id \notin todo'
        BY <1>0, <1>1, <1>5, <1>7, <1>8 DEF EmitInv, n
    <2>5. ASSUME NEW i \in 1..Len(emits'), NEW j \in 1..Len(emits'),
                 i # j, emits'[i].id = emits'[j].id
          PROVE  emits'[i].kind # emits'[j].kind
        <3>1. CASE i \in 1..n /\ j \in 1..n
            BY <1>0, <1>5, <2>5, <3>1 DEF EmitInv, n
        <3>2. CASE i > n /\ j > n
            BY <1>5, <2>5, <3>2
        <3>3. CASE i \in 1..n /\ j > n
            BY <1>4, <1>5, <1>8, <2>5, <3>3
        <3>4. CASE i > n /\ j \in 1..n
            BY <1>4, <1>5, <1>8, <2>5, <3>4
        <3> QED
            BY <1>7, <3>1, <3>2, <3>3, <3>4
    <2>6. ASSUME NEW i \in 1..Len(emits'), NEW j \in 1..Len(emits'),
                 i < j, emits'[i].kind = "exit"
          PROVE  emits'[i].id # emits'[j].id
        <3>1. i \in 1..n /\ emits'[i] = emits[i]
            BY <1>5, <2>2, <2>6
        <3>2. CASE j \in 1..n
            BY <1>0, <1>5, <2>6, <3>1, <3>2 DEF EmitInv, n
        <3>3. CASE j > n
            BY <1>4, <1>8, <3>1, <3>3
        <3> QED
            BY <1>7, <3>2, <3>3
    <2> QED
        BY <2>1, <2>3, <2>4, <2>5, <2>6 DEF EmitInv
<1>15. ChunkInv'
    <2> SUFFICES ASSUME NEW i \in 1..Len(emits'), emits'[i].kind # "exit"
                 PROVE  /\ Len(emits'[i].data) >= 1
                        /\ \A k \in 1..Len(emits'[i].data) :
                              emits'[i].data[k]
                              = (wrote'[emits'[i].id][emits'[i].kind]
                                 - pipe'[emits'[i].id][emits'[i].kind])
                                - Len(emits'[i].data) + k
        BY DEF ChunkInv, Taken
    <2>1. CASE i \in 1..n
        <3>1. emits'[i] = emits[i] /\ emits[i].id # id /\ emits[i].id \in Ids
              /\ emits[i].kind \in Streams
            BY <1>4, <1>5, <1>e, <2>1 DEF Kinds
        <3>2. pipe'[emits[i].id] = pipe[emits[i].id] /\ wrote' = wrote
            BY <1>1, <1>t, <3>1
        <3>3. /\ Len(emits[i].data) >= 1
              /\ \A k \in 1..Len(emits[i].data) :
                    emits[i].data[k] = (wrote[emits[i].id][emits[i].kind]
                                        - pipe[emits[i].id][emits[i].kind])
                                       - Len(emits[i].data) + k
            BY <1>0, <2>1, <3>1 DEF ChunkInv, Taken, n
        <3> QED
            BY <3>1, <3>2, <3>3
    <2>2. CASE i > n
        <3>1. PICK s \in Streams : pipe[id][s] > 0 /\ emits'[i] = ev(s)
            BY <1>5, <2>2
        <3>2. emits'[i].id = id /\ emits'[i].kind = s /\ emits'[i].data = Waiting(id, s)
            BY <3>1 DEF ev
        <3>3. wrote'[id][s] = wrote[id][s] /\ pipe'[id][s] = 0
            BY <1>1, <1>t DEF EmptyPipes
        <3> QED
            BY <1>9, <1>10, <3>1, <3>2, <3>3
    <2> QED
        BY <1>7, <2>1, <2>2
<1>16. ListInv'
    BY <1>0, <1>1 DEF ListInv
<1>17. WalkInv'
    <2> SUFFICES ASSUME emits' # <<>>, <<emits'[1].id, emits'[1].kind>> \notin touched'
                 PROVE  /\ ~walk'.stale
                        /\ walk'.i <= Len(listeners'[emits'[1].id][emits'[1].kind])
                        /\ walk'.i > 0
                           => walk'.n = Len(listeners'[emits'[1].id][emits'[1].kind])
        BY DEF WalkInv
    <2>1. 1 \in 1..Len(emits')
        BY <1>5, <1>6, EmptySeq
    <2>2. listeners'[emits'[1].id][emits'[1].kind] \in Seq(Callbacks)
        BY <1>16, <1>f, <2>1 DEF ListInv
    <2>3. Len(listeners'[emits'[1].id][emits'[1].kind]) \in Nat
        BY <2>2, LenProperties
    <2> QED
        BY <1>1, <1>3, <2>3 DEF NoWalk
<1>18. HeardInv'
    <2> SUFFICES ASSUME NEW cb \in Callbacks, NEW x \in Ids, NEW s \in Streams
                 PROVE  /\ child'[x] = "none" => HeardFrom(cb, x, s)' = <<>>
                        /\ /\ <<x, s>> \notin touched' /\ x \in processes' /\ ~InShutdown'
                           /\ HeardFrom(cb, x, s)' # <<>>
                           => \E p \in 1..Len(listeners'[x][s]) :
                                listeners'[x][s][p] = cb /\ UpToDate(cb, x, s, p)'
        BY DEF HeardInv
    <2>1. HeardFrom(cb, x, s)' = HeardFrom(cb, x, s)
        BY <1>1 DEF HeardFrom
    <2>2. LastHeard(cb, x, s)' = LastHeard(cb, x, s)
        BY <2>1 DEF LastHeard
    <2>3. ASSUME <<x, s>> \notin touched', x \in processes', HeardFrom(cb, x, s)' # <<>>
          PROVE  \E p \in 1..Len(listeners'[x][s]) :
                    listeners'[x][s][p] = cb /\ UpToDate(cb, x, s, p)'
        <3>1. PICK p \in 1..Len(listeners[x][s]) :
                 listeners[x][s][p] = cb /\ UpToDate(cb, x, s, p)
            BY <1>0, <1>1, <1>2, <2>1, <2>3 DEF HeardInv
        <3>2. CASE x # id
            <4>1. Taken(x, s)' = Taken(x, s)
                BY <1>11, <3>2
            <4>2. \A i \in 1..n : Due(i, p, x, s)' <=> Due(i, p, x, s)
                BY <1>1, <1>5 DEF Due
            <4>3. \A i \in 1..Len(emits') : i > n => ~Due(i, p, x, s)'
                BY <1>8, <3>2 DEF Due
            <4>4. ASSUME NEW i \in 1..Len(emits'), Due(i, p, x, s)'
                  PROVE  LastHeard(cb, x, s)' = Taken(x, s)' - Len(emits'[i].data)
                <5>1. i \in 1..n /\ emits'[i] = emits[i] /\ Due(i, p, x, s)
                    BY <1>5, <1>7, <4>2, <4>3, <4>4
                <5> QED
                    BY <2>2, <3>1, <4>1, <5>1 DEF UpToDate, n
            <4>5. ASSUME \A i \in 1..Len(emits') : ~Due(i, p, x, s)'
                  PROVE  LastHeard(cb, x, s)' = Taken(x, s)'
                <5>1. \A i \in 1..n : ~Due(i, p, x, s)
                    BY <1>5, <1>6, <4>2, <4>5
                <5> QED
                    BY <2>2, <3>1, <4>1, <5>1 DEF UpToDate, n
            <4>6. UpToDate(cb, x, s, p)'
                BY <4>4, <4>5 DEF UpToDate
            <4> QED
                BY <1>1, <3>1, <4>6
        <3>3. CASE x = id
            <4>1. \A i \in 1..n : ~Due(i, p, x, s)
                BY <1>4, <3>3 DEF Due
            <4>2. LastHeard(cb, x, s) = wrote[id][s] - pipe[id][s] /\ Taken(x, s)' = wrote[id][s]
                BY <1>10, <3>1, <3>3, <4>1 DEF UpToDate, n
            <4>3. ASSUME NEW i \in 1..Len(emits'), Due(i, p, x, s)'
                  PROVE  LastHeard(cb, x, s)' = Taken(x, s)' - Len(emits'[i].data)
                <5>1. emits'[i].id = id /\ emits'[i].kind = s
                    BY <3>3, <4>3 DEF Due
                <5>2. i > n
                    BY <1>4, <1>5, <1>7, <5>1
                <5>3. PICK y \in Streams : emits'[i] = ev(y)
                    BY <1>5, <5>2
                <5>4. emits'[i].data = Waiting(id, s)
                    BY <5>1, <5>3 DEF ev
                <5> QED
                    BY <1>9, <2>2, <4>2, <5>4
            <4>4. ASSUME \A i \in 1..Len(emits') : ~Due(i, p, x, s)'
                  PROVE  LastHeard(cb, x, s)' = Taken(x, s)'
                <5>1. ASSUME pipe[id][s] > 0 PROVE FALSE
                    <6>1. PICK i \in 1..Len(emits') : i > n /\ emits'[i] = ev(s)
                        BY <1>5, <5>1
                    <6>2. emits'[i].id = id /\ emits'[i].kind = s
                        BY <6>1 DEF ev
                    <6>3. walk'.i = 0 /\ p >= 1
                        BY <1>1, <1>3 DEF NoWalk
                    <6>4. Due(i, p, x, s)'
                        BY <3>3, <6>2, <6>3 DEF Due
                    <6> QED
                        BY <4>4, <6>4
                <5>2. pipe[id][s] = 0
                    BY <1>10, <5>1
                <5> QED
                    BY <1>10, <2>2, <4>2, <5>2
            <4>5. UpToDate(cb, x, s, p)'
                BY <4>3, <4>4 DEF UpToDate
            <4> QED
                BY <1>1, <3>1, <4>5
        <3> QED
            BY <3>2, <3>3
    <2> QED
        BY <1>0, <1>1, <2>1, <2>3 DEF HeardInv
<1>19. ExitInv'
    <2> SUFFICES ASSUME NEW cb \in Callbacks, NEW i \in 1..Len(heard[cb]),
                        heard[cb][i].kind = "exit"
                 PROVE  /\ child[heard[cb][i].id] = "reaped"
                        /\ \A j \in 1..Len(emits') :
                              emits'[j].id = heard[cb][i].id => emits'[j].kind = "exit"
        BY <1>1 DEF ExitInv
    <2>1. child[heard[cb][i].id] = "reaped"
        BY <1>0 DEF ExitInv
    <2>2. heard[cb][i].id # id
        BY <1>3, <2>1 DEF Alive
    <2> QED
        BY <1>0, <1>5, <1>7, <1>8, <2>1, <2>2 DEF ExitInv, n
<1>20. HeardInOrder'
    BY <1>0, <1>1 DEF HeardInOrder, HeardFrom
<1> QED
    BY <1>12, <1>13, <1>14, <1>15, <1>16, <1>17, <1>18, <1>19, <1>20 DEF HInv

\* A list the script left alone is a list.
LEMMA ListLength ==
    ASSUME ListInv, NEW id \in Ids, NEW k \in Kinds, <<id, k>> \notin touched
    PROVE  Len(listeners[id][k]) \in Nat
<1>1. listeners[id][k] \in Seq(Callbacks)
    BY DEF ListInv
<1> QED
    BY <1>1, LenProperties

\* The update hook waits for the process it has read.
LEMMA WaitStep ==
    ASSUME IInv, HInv, UpdateWait
    PROVE  HInv'
<1> DEFINE n == Len(emits)
           id == js.id
           ev == [id |-> id, kind |-> "exit", data |-> <<>>]
<1>0. /\ EventType /\ PhaseInv /\ EmitInv /\ ChunkInv /\ WalkInv /\ ListInv
      /\ HeardInv /\ ExitInv /\ HeardInOrder
    BY DEF HInv
<1>t. /\ TypeInv /\ MapInv /\ js \in [pc : JsPcs, id : Ids \cup {0}, back : {"idle", "call"}]
      /\ child \in [Ids -> {"none", "running", "zombie", "reaped"}]
      /\ js.pc = "wait" => js.id \in Ids
    BY DEF IInv, TypeInv, ScriptType, ChildType
<1>1. /\ UNCHANGED <<todo, walk, processes, listeners, wrote, pipe, heard, touched>>
      /\ js.pc = "wait" /\ child' = Reaped(id)
      /\ js' = At(IF todo = {} THEN "emit" ELSE "read")
      /\ child[id] = "zombie" => emits' = Append(emits, ev)
      /\ child[id] # "zombie" => emits' = emits
    BY DEF UpdateWait, seen
<1>2. js'.pc \in {"read", "emit"} /\ ~InCall' /\ ~InShutdown /\ ~InShutdown'
    BY <1>1 DEF InCall, InShutdown, At
<1>3. Alive(id) /\ id \in Ids /\ id \in processes /\ walk = NoWalk /\ id \notin todo
    BY <1>0, <1>1, <1>t DEF PhaseInv, MapInv
<1>4. /\ \A x \in Ids : child'[x] = child[x]
                        \/ (x = id /\ child[x] = "zombie" /\ child'[x] = "reaped")
      /\ child[id] = "zombie" => child'[id] = "reaped"
    BY <1>1, <1>3, <1>t DEF Reaped
<1>e. /\ emits \in Seq(Event) /\ n \in Nat
      /\ \A i \in 1..n : emits[i].id \in Ids /\ emits[i].kind \in Kinds
    BY <1>0, EventFields
<1>5. \A i \in 1..n : emits[i].kind = "exit" => emits[i].id # id
    BY <1>0, <1>3 DEF EmitInv, Alive
<1>6. ev \in Event
    BY <1>3 DEF Event, Kinds
<1>7. ev.id = id /\ ev.kind = "exit"
    OBVIOUS
<1> HIDE DEF ev
<1>8. /\ emits' \in Seq(Event) /\ Len(emits') \in Nat /\ Len(emits') >= n
      /\ \A i \in 1..n : emits'[i] = emits[i]
      /\ \A i \in 1..Len(emits') : i > n => emits'[i] = ev /\ i = n + 1 /\ child[id] = "zombie"
    <2>1. CASE child[id] = "zombie"
        <3>1. emits' = Append(emits, ev)
            BY <1>1, <2>1
        <3>2. /\ Append(emits, ev) \in Seq(Event) /\ Len(Append(emits, ev)) = n + 1
              /\ \A i \in 1..n : Append(emits, ev)[i] = emits[i]
              /\ Append(emits, ev)[n + 1] = ev
            BY <1>6, <1>e, AppendProperties
        <3>3. \A i \in 1..(n + 1) : i > n => i = n + 1
            BY <1>e
        <3> QED
            BY <1>e, <2>1, <3>1, <3>2, <3>3
    <2>2. CASE child[id] # "zombie"
        BY <1>1, <1>e, <2>2
    <2> QED
        BY <2>1, <2>2
<1>9. \A i \in 1..Len(emits') : (i \in 1..n) \/ (i > n)
    BY <1>8, <1>e
<1>10. \A i \in 1..Len(emits') : i > n => emits'[i].id = id /\ emits'[i].kind = "exit"
                                         /\ child'[id] = "reaped"
    BY <1>4, <1>7, <1>8
<1>11. \A i \in 1..Len(emits') : emits'[i].id \in Ids /\ emits'[i].kind \in Kinds
    BY <1>3, <1>8, <1>9, <1>10, <1>e DEF Kinds
<1>12. \A x, s : Taken(x, s)' = Taken(x, s)
    BY <1>1 DEF Taken
<1> HIDE DEF n
<1>13. EventType'
    BY <1>0, <1>1, <1>8, <1>12 DEF EventType
<1>14. PhaseInv'
    <2>1. \A x \in processes' : child'[x] # "none"
        BY <1>0, <1>1, <1>4, <1>t DEF PhaseInv, TypeInv, TableType
    <2>2. \A x \in todo' : Alive(x)'
        <3>1. js.pc = "wait" /\ todo' = todo /\ todo \subseteq Ids
            BY <1>1, <1>t DEF TypeInv, ScriptType
        <3>2. \A x \in todo : Alive(x) /\ x # id
            BY <1>0, <1>3, <3>1 DEF PhaseInv
        <3> QED
            BY <1>4, <3>1, <3>2 DEF Alive
    <2> QED
        BY <1>1, <1>2, <1>3, <2>1, <2>2 DEF PhaseInv
<1>15. EmitInv'
    <2>1. \A i \in 1..Len(emits') : emits'[i].id \in processes'
        BY <1>0, <1>1, <1>3, <1>8, <1>9, <1>10 DEF EmitInv, n
    <2>3. ASSUME NEW i \in 1..Len(emits'), emits'[i].kind = "exit"
          PROVE  child'[emits'[i].id] = "reaped"
        <3>1. CASE i \in 1..n
            BY <1>0, <1>4, <1>8, <1>11, <2>3, <3>1 DEF EmitInv, n
        <3>2. CASE i > n
            BY <1>10, <3>2
        <3> QED
            BY <1>9, <3>1, <3>2
    <2>4. \A i \in 1..Len(emits') : emits'[i].id \notin todo'
        BY <1>0, <1>1, <1>3, <1>8, <1>9, <1>10 DEF EmitInv, n
    <2>5. ASSUME NEW i \in 1..Len(emits'), NEW j \in 1..Len(emits'),
                 i # j, emits'[i].id = emits'[j].id
          PROVE  emits'[i].kind # emits'[j].kind
        <3>1. CASE i \in 1..n /\ j \in 1..n
            BY <1>0, <1>8, <2>5, <3>1 DEF EmitInv, n
        <3>2. CASE i > n /\ j > n
            BY <1>8, <2>5, <3>2
        <3>3. CASE i \in 1..n /\ j > n
            BY <1>5, <1>8, <1>10, <2>5, <3>3
        <3>4. CASE i > n /\ j \in 1..n
            BY <1>5, <1>8, <1>10, <2>5, <3>4
        <3> QED
            BY <1>9, <3>1, <3>2, <3>3, <3>4
    <2>6. ASSUME NEW i \in 1..Len(emits'), NEW j \in 1..Len(emits'),
                 i < j, emits'[i].kind = "exit"
          PROVE  emits'[i].id # emits'[j].id
        <3>1. CASE i \in 1..n /\ j \in 1..n
            BY <1>0, <1>8, <2>6, <3>1 DEF EmitInv, n
        <3>2. CASE i \in 1..n /\ j > n
            BY <1>5, <1>8, <1>10, <2>6, <3>2
        <3>3. CASE i > n
            <4>1. i = n + 1 /\ j > n
                BY <1>8, <1>e, <2>6, <3>3 DEF n
            <4> QED
                BY <1>8, <1>e, <2>6, <4>1 DEF n
        <3> QED
            BY <1>9, <3>1, <3>2, <3>3
    <2> QED
        BY <2>1, <2>3, <2>4, <2>5, <2>6 DEF EmitInv
<1>16. ChunkInv'
    <2> SUFFICES ASSUME NEW i \in 1..Len(emits'), emits'[i].kind # "exit"
                 PROVE  /\ Len(emits'[i].data) >= 1
                        /\ \A k \in 1..Len(emits'[i].data) :
                              emits'[i].data[k]
                              = (wrote'[emits'[i].id][emits'[i].kind]
                                 - pipe'[emits'[i].id][emits'[i].kind])
                                - Len(emits'[i].data) + k
        BY DEF ChunkInv, Taken
    <2>1. i \in 1..n /\ emits'[i] = emits[i] /\ wrote' = wrote /\ pipe' = pipe
        BY <1>1, <1>8, <1>9, <1>10
    <2> QED
        BY <1>0, <2>1 DEF ChunkInv, Taken, n
<1>17. ListInv'
    BY <1>0, <1>1 DEF ListInv
<1>18. WalkInv'
    <2> SUFFICES ASSUME emits' # <<>>, <<emits'[1].id, emits'[1].kind>> \notin touched'
                 PROVE  /\ ~walk'.stale
                        /\ walk'.i <= Len(listeners'[emits'[1].id][emits'[1].kind])
                        /\ walk'.i > 0
                           => walk'.n = Len(listeners'[emits'[1].id][emits'[1].kind])
        BY DEF WalkInv
    <2>1. 1 \in 1..Len(emits')
        BY <1>8, EmptySeq
    <2>2. Len(listeners[emits'[1].id][emits'[1].kind]) \in Nat
        BY <1>0, <1>1, <1>11, <2>1, ListLength
    <2> QED
        BY <1>1, <1>3, <2>2 DEF NoWalk
<1>19. HeardInv'
    <2> SUFFICES ASSUME NEW cb \in Callbacks, NEW x \in Ids, NEW s \in Streams
                 PROVE  /\ child'[x] = "none" => HeardFrom(cb, x, s)' = <<>>
                        /\ /\ <<x, s>> \notin touched' /\ x \in processes' /\ ~InShutdown'
                           /\ HeardFrom(cb, x, s)' # <<>>
                           => \E p \in 1..Len(listeners'[x][s]) :
                                listeners'[x][s][p] = cb /\ UpToDate(cb, x, s, p)'
        BY DEF HeardInv
    <2>1. HeardFrom(cb, x, s)' = HeardFrom(cb, x, s)
        BY <1>1 DEF HeardFrom
    <2>2. LastHeard(cb, x, s)' = LastHeard(cb, x, s)
        BY <2>1 DEF LastHeard
    <2>3. ASSUME NEW p, UpToDate(cb, x, s, p) PROVE UpToDate(cb, x, s, p)'
        <3>1. \A i \in 1..n : Due(i, p, x, s)' <=> Due(i, p, x, s)
            BY <1>1, <1>8 DEF Due
        <3>2. \A i \in 1..Len(emits') : i > n => ~Due(i, p, x, s)'
            BY <1>10 DEF Due, Streams
        <3>3. ASSUME NEW i \in 1..Len(emits'), Due(i, p, x, s)'
              PROVE  LastHeard(cb, x, s)' = Taken(x, s)' - Len(emits'[i].data)
            <4>1. i \in 1..n /\ emits'[i] = emits[i] /\ Due(i, p, x, s)
                BY <1>8, <1>9, <3>1, <3>2, <3>3
            <4> QED
                BY <1>12, <2>2, <2>3, <4>1 DEF UpToDate, n
        <3>4. ASSUME \A i \in 1..Len(emits') : ~Due(i, p, x, s)'
              PROVE  LastHeard(cb, x, s)' = Taken(x, s)'
            <4>1. \A i \in 1..n : ~Due(i, p, x, s)
                BY <1>8, <1>e, <3>1, <3>4 DEF n
            <4> QED
                BY <1>12, <2>2, <2>3, <4>1 DEF UpToDate, n
        <3> QED
            BY <3>3, <3>4 DEF UpToDate
    <2>4. child'[x] = "none" => child[x] = "none"
        BY <1>4
    <2> QED
        BY <1>0, <1>1, <1>2, <2>1, <2>3, <2>4 DEF HeardInv
<1>20. ExitInv'
    <2> SUFFICES ASSUME NEW cb \in Callbacks, NEW i \in 1..Len(heard[cb]),
                        heard[cb][i].kind = "exit"
                 PROVE  /\ child'[heard[cb][i].id] = "reaped"
                        /\ \A j \in 1..Len(emits') :
                              emits'[j].id = heard[cb][i].id => emits'[j].kind = "exit"
        BY <1>1 DEF ExitInv
    <2>1. child[heard[cb][i].id] = "reaped" /\ heard[cb][i].id \in Ids
        BY <1>0, HeardFields DEF ExitInv
    <2> QED
        BY <1>0, <1>4, <1>8, <1>9, <1>10, <2>1 DEF ExitInv, n
<1>21. HeardInOrder'
    BY <1>0, <1>1 DEF HeardInOrder, HeardFrom
<1> QED
    BY <1>13, <1>14, <1>15, <1>16, <1>17, <1>18, <1>19, <1>20, <1>21 DEF HInv

\* The update hook forgets the processes that have exited.
LEMMA EndStep ==
    ASSUME IInv, HInv, UpdateEnd
    PROVE  HInv'
<1>0. /\ EventType /\ PhaseInv /\ EmitInv /\ ChunkInv /\ WalkInv /\ ListInv
      /\ HeardInv /\ ExitInv /\ HeardInOrder
    BY DEF HInv
<1>t. /\ wrote \in [Ids -> [Streams -> Nat]] /\ pipe \in [Ids -> [Streams -> Nat]]
    BY DEF IInv, TypeInv, ChildType
<1>1. /\ UNCHANGED <<emits, walk, wrote, child, heard, touched>>
      /\ js.pc = "emit" /\ js' = At("idle") /\ emits = <<>> /\ processes' = processes \ dead
      /\ listeners' = [id \in Ids |-> IF id \in dead THEN NoListeners ELSE listeners[id]]
      /\ pipe' = [id \in Ids |-> IF id \in dead THEN EmptyPipes ELSE pipe[id]]
    BY DEF UpdateEnd
<1>2. js'.pc = "idle" /\ ~InCall' /\ ~InShutdown /\ ~InShutdown' /\ Len(emits') = 0
    BY <1>1 DEF InCall, InShutdown, At
<1>3. \A id \in Ids, s \in Streams : /\ Taken(id, s)' \in Nat
                                     /\ id \notin dead => Taken(id, s)' = Taken(id, s)
    <2> SUFFICES ASSUME NEW id \in Ids, NEW s \in Streams
                 PROVE  /\ Taken(id, s)' \in Nat
                        /\ id \notin dead => Taken(id, s)' = Taken(id, s)
        OBVIOUS
    <2>1. wrote'[id][s] = wrote[id][s] /\ wrote[id][s] \in Nat /\ Taken(id, s) \in Nat
        BY <1>0, <1>1, <1>t DEF EventType
    <2>2. CASE id \in dead
        <3>1. pipe'[id][s] = 0
            BY <1>1, <2>2 DEF EmptyPipes
        <3> QED
            BY <2>1, <2>2, <3>1 DEF Taken
    <2>3. CASE id \notin dead
        <3>1. pipe'[id] = pipe[id]
            BY <1>1, <2>3
        <3> QED
            BY <2>1, <3>1 DEF Taken
    <2> QED
        BY <2>2, <2>3
<1>4. \A id \in Ids, k \in Kinds : IF id \in dead THEN listeners'[id][k] = <<>>
                                                  ELSE listeners'[id][k] = listeners[id][k]
    BY <1>1 DEF NoListeners
<1>5. EventType'
    <2>1. IsTable(listeners')
        <3>1. PICK S : listeners \in [Ids -> [Kinds -> S]]
            BY <1>0 DEF EventType, IsTable
        <3>2. NoListeners \in [Kinds -> S \cup {<<>>}]
            BY DEF NoListeners
        <3>3. \A id \in Ids : listeners[id] \in [Kinds -> S \cup {<<>>}]
            BY <3>1
        <3>4. listeners' \in [Ids -> [Kinds -> S \cup {<<>>}]]
            BY <1>1, <3>2, <3>3
        <3> QED
            BY <3>4 DEF IsTable
    <2> QED
        BY <1>0, <1>1, <1>3, <2>1 DEF EventType
<1>6. PhaseInv'
    BY <1>0, <1>1, <1>2 DEF PhaseInv
<1>7. EmitInv' /\ ChunkInv' /\ WalkInv' /\ ExitInv'
    <2>1. \A cb \in Callbacks : \A i \in 1..Len(heard'[cb]) :
             heard'[cb][i].kind = "exit" => child'[heard'[cb][i].id] = "reaped"
        BY <1>0, <1>1 DEF ExitInv
    <2>2. \A i \in 1..Len(emits') : FALSE
        BY <1>2
    <2> QED
        BY <1>1, <2>1, <2>2 DEF EmitInv, ChunkInv, WalkInv, ExitInv
<1>8. ListInv'
    <2> SUFFICES ASSUME NEW id \in Ids, NEW k \in Kinds, <<id, k>> \notin touched
                 PROVE  /\ listeners'[id][k] \in Seq(Callbacks)
                        /\ \A i, j \in 1..Len(listeners'[id][k]) :
                              i # j => listeners'[id][k][i] # listeners'[id][k][j]
        BY <1>1 DEF ListInv
    <2>1. CASE id \in dead
        <3>1. listeners'[id][k] = <<>> /\ <<>> \in Seq(Callbacks) /\ Len(<<>>) = 0
            BY <1>4, <2>1
        <3> QED
            BY <3>1
    <2>2. CASE id \notin dead
        <3>1. listeners'[id][k] = listeners[id][k]
            BY <1>4, <2>2
        <3> QED
            BY <1>0, <3>1 DEF ListInv
    <2> QED
        BY <2>1, <2>2
<1>9. HeardInv'
    <2> SUFFICES ASSUME NEW cb \in Callbacks, NEW x \in Ids, NEW s \in Streams
                 PROVE  /\ child'[x] = "none" => HeardFrom(cb, x, s)' = <<>>
                        /\ /\ <<x, s>> \notin touched' /\ x \in processes' /\ ~InShutdown'
                           /\ HeardFrom(cb, x, s)' # <<>>
                           => \E p \in 1..Len(listeners'[x][s]) :
                                listeners'[x][s][p] = cb /\ UpToDate(cb, x, s, p)'
        BY DEF HeardInv
    <2>1. HeardFrom(cb, x, s)' = HeardFrom(cb, x, s)
        BY <1>1 DEF HeardFrom
    <2>2. LastHeard(cb, x, s)' = LastHeard(cb, x, s)
        BY <2>1 DEF LastHeard
    <2>3. ASSUME <<x, s>> \notin touched', x \in processes', HeardFrom(cb, x, s)' # <<>>
          PROVE  \E p \in 1..Len(listeners'[x][s]) :
                    listeners'[x][s][p] = cb /\ UpToDate(cb, x, s, p)'
        <3>1. x \in processes /\ x \notin dead /\ s \in Kinds
            BY <1>1, <2>3 DEF Kinds
        <3>2. PICK p \in 1..Len(listeners[x][s]) :
                 listeners[x][s][p] = cb /\ UpToDate(cb, x, s, p)
            BY <1>0, <1>1, <1>2, <2>1, <2>3, <3>1 DEF HeardInv
        <3>3. listeners'[x][s] = listeners[x][s] /\ Taken(x, s)' = Taken(x, s)
            BY <1>3, <1>4, <3>1
        <3>4. UpToDate(cb, x, s, p)'
            BY <1>1, <1>2, <2>2, <3>2, <3>3 DEF UpToDate
        <3> QED
            BY <3>2, <3>3, <3>4
    <2> QED
        BY <1>0, <1>1, <2>1, <2>3 DEF HeardInv
<1>10. HeardInOrder'
    BY <1>0, <1>1 DEF HeardInOrder, HeardFrom
<1> QED
    BY <1>5, <1>6, <1>7, <1>8, <1>9, <1>10 DEF HInv

\* Shutdown frees every list.
LEMMA ShutdownStep ==
    ASSUME IInv, HInv, ShutdownBegin
    PROVE  HInv'
<1>0. /\ EventType /\ PhaseInv /\ EmitInv /\ ChunkInv /\ WalkInv /\ ListInv
      /\ HeardInv /\ ExitInv /\ HeardInOrder
    BY DEF HInv
<1>t. wrote \in [Ids -> [Streams -> Nat]]
    BY DEF IInv, TypeInv, ChildType
<1>1. /\ UNCHANGED <<emits, walk, processes, wrote, child, heard, touched>>
      /\ js.pc = "idle" /\ js' = At("sdWait")
      /\ listeners' = [id \in Ids |-> NoListeners]
      /\ pipe' = [id \in Ids |-> EmptyPipes]
    BY DEF ShutdownBegin
<1>2. js'.pc = "sdWait" /\ ~InCall' /\ InShutdown' /\ emits = <<>> /\ Len(emits') = 0
    BY <1>0, <1>1 DEF InCall, InShutdown, At, PhaseInv
<1>3. \A id \in Ids, s \in Streams : Taken(id, s)' \in Nat
    <2> SUFFICES ASSUME NEW id \in Ids, NEW s \in Streams PROVE Taken(id, s)' \in Nat
        OBVIOUS
    <2>1. wrote'[id][s] \in Nat /\ pipe'[id][s] = 0
        BY <1>1, <1>t DEF EmptyPipes
    <2> QED
        BY <2>1 DEF Taken
<1>4. \A id \in Ids, k \in Kinds : listeners'[id][k] = <<>>
    BY <1>1 DEF NoListeners
<1>5. EventType'
    <2>1. listeners' \in [Ids -> [Kinds -> {<<>>}]]
        BY <1>1 DEF NoListeners
    <2> QED
        BY <1>0, <1>1, <1>3, <2>1 DEF EventType, IsTable
<1>6. PhaseInv'
    BY <1>0, <1>1, <1>2 DEF PhaseInv
<1>7. EmitInv' /\ ChunkInv' /\ WalkInv' /\ ExitInv'
    <2>1. \A cb \in Callbacks : \A i \in 1..Len(heard'[cb]) :
             heard'[cb][i].kind = "exit" => child'[heard'[cb][i].id] = "reaped"
        BY <1>0, <1>1 DEF ExitInv
    <2>2. \A i \in 1..Len(emits') : FALSE
        BY <1>2
    <2> QED
        BY <1>1, <1>2, <2>1, <2>2 DEF EmitInv, ChunkInv, WalkInv, ExitInv
<1>8. ListInv'
    <2>1. <<>> \in Seq(Callbacks) /\ Len(<<>>) = 0
        OBVIOUS
    <2>2. ASSUME NEW id \in Ids, NEW k \in Kinds
          PROVE  /\ listeners'[id][k] \in Seq(Callbacks)
                 /\ \A i, j \in 1..Len(listeners'[id][k]) :
                       i # j => listeners'[id][k][i] # listeners'[id][k][j]
        <3>1. listeners'[id][k] = <<>>
            BY <1>4
        <3> QED
            BY <2>1, <3>1
    <2> QED
        BY <2>2 DEF ListInv
<1>9. HeardInv'
    <2>1. \A cb \in Callbacks, x \in Ids, s \in Streams :
             child'[x] = "none" => HeardFrom(cb, x, s)' = <<>>
        BY <1>0, <1>1 DEF HeardInv, HeardFrom
    <2> QED
        BY <1>2, <2>1 DEF HeardInv
<1>10. HeardInOrder'
    BY <1>0, <1>1 DEF HeardInOrder, HeardFrom
<1> QED
    BY <1>5, <1>6, <1>7, <1>8, <1>9, <1>10 DEF HInv

\* At first nobody has heard anything.
LEMMA HInit ==
    ASSUME Init
    PROVE  HInv
<1>1. /\ emits = <<>> /\ Len(emits) = 0 /\ js.pc = "idle" /\ walk = NoWalk /\ processes = {}
      /\ listeners = [id \in Ids |-> NoListeners]
      /\ heard = [cb \in Callbacks |-> <<>>]
      /\ wrote = [id \in Ids |-> EmptyPipes] /\ pipe = [id \in Ids |-> EmptyPipes]
    BY DEF Init, At
<1>2. \A cb \in Callbacks, id \in Ids, s \in Streams : HeardFrom(cb, id, s) = <<>>
    <2> SUFFICES ASSUME NEW cb \in Callbacks, NEW id \in Ids, NEW s \in Streams
                 PROVE  HeardFrom(cb, id, s) = <<>>
        OBVIOUS
    <2>1. heard[cb] = <<>> /\ Len(heard[cb]) = 0
        BY <1>1
    <2>2. HeardFrom(cb, id, s)
          = FlattenSeq([i \in 1..0 |->
                IF heard[cb][i].id = id /\ heard[cb][i].kind = s THEN heard[cb][i].data ELSE <<>>])
        BY <2>1 DEF HeardFrom
    <2>3. [i \in 1..0 |->
                IF heard[cb][i].id = id /\ heard[cb][i].kind = s THEN heard[cb][i].data ELSE <<>>]
          = <<>>
        OBVIOUS
    <2> QED
        BY <2>2, <2>3, FlattenEmpty
<1>3. EventType
    <2>1. \A id \in Ids, s \in Streams : Taken(id, s) = 0
        BY <1>1 DEF Taken, EmptyPipes
    <2>2. listeners \in [Ids -> [Kinds -> {<<>>}]]
        BY <1>1 DEF NoListeners
    <2>3. emits \in Seq(Event) /\ heard \in [Callbacks -> Seq(Event)]
        BY <1>1
    <2>4. walk = [i |-> walk.i, n |-> walk.n, stale |-> walk.stale]
          /\ walk.i \in Nat /\ walk.stale \in BOOLEAN
        BY <1>1 DEF NoWalk
    <2>5. IsTable(listeners)
        BY <2>2 DEF IsTable
    <2> QED
        BY <2>1, <2>3, <2>4, <2>5 DEF EventType
<1>4. PhaseInv
    BY <1>1 DEF PhaseInv, InCall
<1>5. \A i \in 1..Len(emits) : FALSE
    BY <1>1
<1>6. \A cb \in Callbacks : \A i \in 1..Len(heard[cb]) : FALSE
    BY <1>1
<1>7. EmitInv /\ ChunkInv /\ WalkInv /\ ExitInv
    BY <1>1, <1>5, <1>6 DEF EmitInv, ChunkInv, WalkInv, ExitInv
<1>8. ListInv
    BY <1>1 DEF ListInv, NoListeners
<1>9. HeardInv
    BY <1>2 DEF HeardInv
<1>10. HeardInOrder
    <2>1. Consecutive(<<>>)
        BY DEF Consecutive
    <2> QED
        BY <1>2, <1>6, <2>1 DEF HeardInOrder
<1> QED
    BY <1>3, <1>4, <1>7, <1>8, <1>9, <1>10 DEF HInv

\* The first event, the only one of its stream.
LEMMA FirstEvent ==
    ASSUME EventType, EmitInv, ChunkInv, emits # <<>>, NEW e, e = Head(emits)
    PROVE  /\ e = emits[1] /\ 1 \in 1..Len(emits) /\ e \in Event
           /\ e.id \in Ids /\ e.kind \in Kinds /\ e.id \in processes
           /\ \A i \in 1..Len(emits) : i > 1 /\ emits[i].id = e.id =>
                 emits[i].kind # e.kind /\ e.kind # "exit"
           /\ e.kind # "exit" =>
                 /\ e.data \in Seq(Nat) /\ e.data # <<>> /\ Consecutive(e.data)
                 /\ e.data[1] = Taken(e.id, e.kind) - Len(e.data) + 1
                 /\ e.data[Len(e.data)] = Taken(e.id, e.kind)
<1>1. /\ emits \in Seq(Event) /\ Len(emits) \in Nat /\ Len(emits) # 0
      /\ \A i \in 1..Len(emits) : /\ emits[i] \in Event
                                  /\ emits[i].id \in Ids /\ emits[i].kind \in Kinds
                                  /\ emits[i].data \in Seq(Nat)
    BY EventFields
<1>2. e = emits[1] /\ 1 \in 1..Len(emits)
    BY <1>1, HeadTailProperties
<1>3. e \in Event /\ e.id \in Ids /\ e.kind \in Kinds /\ e.id \in processes
      /\ e.data \in Seq(Nat)
    BY <1>1, <1>2 DEF EmitInv
<1>4. ASSUME NEW i \in 1..Len(emits), i > 1, emits[i].id = e.id
      PROVE  emits[i].kind # e.kind /\ e.kind # "exit"
    <2>1. i # 1 /\ 1 < i /\ 1 \in 1..Len(emits)
        BY <1>2, <1>4
    <2> QED
        BY <1>2, <1>4, <2>1 DEF EmitInv
<1>5. ASSUME e.kind # "exit"
      PROVE  /\ e.data # <<>> /\ Consecutive(e.data)
             /\ e.data[1] = Taken(e.id, e.kind) - Len(e.data) + 1
             /\ e.data[Len(e.data)] = Taken(e.id, e.kind)
    <2> DEFINE t == Taken(e.id, e.kind)
               m == Len(e.data)
    <2>1. m >= 1 /\ \A k \in 1..m : e.data[k] = t - m + k
        BY <1>2, <1>5 DEF ChunkInv
    <2>2. m \in Nat /\ (e.data = <<>> <=> m = 0)
        BY <1>3, LenProperties, EmptySeq
    <2>3. e.kind \in Streams
        BY <1>3, <1>5 DEF Kinds
    <2>4. t \in Nat
        BY <1>3, <2>3 DEF EventType
    <2> HIDE DEF t
    <2>5. Consecutive(e.data)
        <3> SUFFICES ASSUME NEW i \in 1..(m - 1) PROVE e.data[i + 1] = e.data[i] + 1
            BY DEF Consecutive
        <3>1. i \in 1..m /\ i + 1 \in 1..m
            BY <2>2
        <3>2. e.data[i] = t - m + i /\ e.data[i + 1] = t - m + (i + 1)
            BY <2>1, <3>1
        <3>3. t - m + (i + 1) = (t - m + i) + 1
            BY <2>2, <2>4, <3>1
        <3> QED
            BY Zenon, <3>2, <3>3
    <2>6. e.data[1] = t - m + 1
        BY <2>1, <2>2
    <2>7. e.data[m] = t - m + m
        BY <2>1, <2>2
    <2> QED
        BY <2>1, <2>2, <2>4, <2>5, <2>6, <2>7 DEF t
<1> QED
    BY <1>2, <1>3, <1>4, <1>5

\* The update hook calls a listener.
LEMMA CallStep ==
    ASSUME IInv, HInv, NEW cb \in Callbacks, CallListener(cb)
    PROVE  HInv'
<1> DEFINE e == Head(emits)
           L == listeners[e.id][e.kind]
           q == walk.i + 1
           old == heard[cb]
<1>0. /\ EventType /\ PhaseInv /\ EmitInv /\ ChunkInv /\ WalkInv /\ ListInv
      /\ HeardInv /\ ExitInv /\ HeardInOrder
    BY DEF HInv
<1>1. /\ UNCHANGED <<todo, emits, listeners, processes, child, wrote, pipe, touched>>
      /\ js.pc = "emit" /\ emits # <<>> /\ js' = At("call")
      /\ walk.i < WalkLength /\ (~walk.stale => cb = L[q])
      /\ heard' = [heard EXCEPT ![cb] = Append(@, e)]
      /\ walk' = [walk EXCEPT !.i = @ + 1, !.n = WalkLength]
    BY DEF CallListener, tables, os, Audience
<1>2. js'.pc = "call" /\ InCall' /\ ~InShutdown /\ ~InShutdown'
    BY <1>1 DEF InCall, InShutdown, At
<1>3. /\ e = emits[1] /\ 1 \in 1..Len(emits) /\ e \in Event
      /\ e.id \in Ids /\ e.kind \in Kinds /\ e.id \in processes
      /\ \A i \in 1..Len(emits) : i > 1 /\ emits[i].id = e.id =>
            emits[i].kind # e.kind /\ e.kind # "exit"
      /\ e.kind # "exit" =>
            /\ e.data \in Seq(Nat) /\ e.data # <<>> /\ Consecutive(e.data)
            /\ e.data[1] = Taken(e.id, e.kind) - Len(e.data) + 1
            /\ e.data[Len(e.data)] = Taken(e.id, e.kind)
    BY <1>0, <1>1, FirstEvent
<1>4. /\ walk' = [i |-> walk'.i, n |-> walk'.n, stale |-> walk'.stale]
      /\ walk'.i = walk.i + 1 /\ walk'.n = WalkLength /\ walk'.stale = walk.stale
      /\ walk.i \in Nat /\ walk.stale \in BOOLEAN
    BY <1>0, <1>1 DEF EventType
<1>5. <<e.id, e.kind>> \notin touched =>
         /\ L \in Seq(Callbacks) /\ Len(L) \in Nat /\ WalkLength = Len(L)
         /\ q \in 1..Len(L) /\ cb = L[q] /\ ~walk.stale
         /\ \A i, j \in 1..Len(L) : i # j => L[i] # L[j]
    <2> SUFFICES ASSUME <<e.id, e.kind>> \notin touched
                 PROVE  /\ L \in Seq(Callbacks) /\ Len(L) \in Nat /\ WalkLength = Len(L)
                        /\ q \in 1..Len(L) /\ cb = L[q] /\ ~walk.stale
                        /\ \A i, j \in 1..Len(L) : i # j => L[i] # L[j]
        OBVIOUS
    <2>1. ~walk.stale /\ (walk.i > 0 => walk.n = Len(L))
        BY <1>0, <1>1, <1>3 DEF WalkInv
    <2>2. L \in Seq(Callbacks) /\ \A i, j \in 1..Len(L) : i # j => L[i] # L[j]
        BY <1>0, <1>3 DEF ListInv
    <2>3. Len(L) \in Nat
        BY <2>2, LenProperties
    <2>4. WalkLength = Len(L)
        <3>1. CASE walk.i = 0
            BY <3>1 DEF WalkLength, Audience
        <3>2. CASE walk.i # 0
            BY <1>4, <2>1, <3>2 DEF WalkLength
        <3> QED
            BY <3>1, <3>2
    <2>5. q \in 1..Len(L)
        BY <1>1, <1>4, <2>3, <2>4
    <2> QED
        BY <1>1, <2>1, <2>2, <2>3, <2>4, <2>5
<1>6. \A x, s : Taken(x, s)' = Taken(x, s)
    BY <1>1 DEF Taken
<1>7. \A c \in Callbacks : heard[c] \in Seq(Event)
    BY <1>0 DEF EventType
<1>8. heard'[cb] = Append(old, e) /\ \A c \in Callbacks : c # cb => heard'[c] = heard[c]
    BY <1>0, <1>1 DEF EventType
<1>9. /\ Append(old, e) \in Seq(Event) /\ Len(old) \in Nat
      /\ Len(Append(old, e)) = Len(old) + 1
      /\ \A i \in 1..Len(old) : Append(old, e)[i] = old[i]
      /\ Append(old, e)[Len(old) + 1] = e
    BY <1>3, <1>7, AppendProperties, LenProperties
<1> HIDE DEF e, L, q, old
\* What is heard of a stream, before and after.
<1>10. \A c \in Callbacks, x \in Ids, s \in Streams :
          /\ HeardFrom(c, x, s) \in Seq(Nat)
          /\ c # cb \/ e.id # x \/ e.kind # s => HeardFrom(c, x, s)' = HeardFrom(c, x, s)
          /\ c = cb /\ e.id = x /\ e.kind = s =>
                HeardFrom(c, x, s)' = HeardFrom(c, x, s) \o e.data
    <2> SUFFICES ASSUME NEW c \in Callbacks, NEW x \in Ids, NEW s \in Streams
                 PROVE  /\ HeardFrom(c, x, s) \in Seq(Nat)
                        /\ c # cb \/ e.id # x \/ e.kind # s =>
                              HeardFrom(c, x, s)' = HeardFrom(c, x, s)
                        /\ c = cb /\ e.id = x /\ e.kind = s =>
                              HeardFrom(c, x, s)' = HeardFrom(c, x, s) \o e.data
        OBVIOUS
    <2>1. HeardFrom(c, x, s) = HeardOf(heard[c], x, s)
          /\ HeardFrom(c, x, s)' = HeardOf(heard'[c], x, s)
        BY DEF HeardFrom, HeardOf
    <2>2. /\ HeardOf(heard[c], x, s) \in Seq(Nat)
          /\ HeardOf(Append(heard[c], e), x, s)
             = HeardOf(heard[c], x, s) \o (IF e.id = x /\ e.kind = s THEN e.data ELSE <<>>)
        <3>1. heard[c] \in Seq(Event) /\ e \in Event
            BY <1>3, <1>7
        <3>2. \A seq \in Seq(Event), d \in Event :
                 /\ HeardOf(seq, x, s) \in Seq(Nat)
                 /\ HeardOf(Append(seq, d), x, s)
                    = HeardOf(seq, x, s) \o (IF d.id = x /\ d.kind = s THEN d.data ELSE <<>>)
            BY HeardOfGrows
        <3> QED
            BY Zenon, <3>1, <3>2
    <2>3. CASE c # cb
        BY <1>8, <2>1, <2>2, <2>3
    <2>4. CASE c = cb /\ e.id = x /\ e.kind = s
        <3>1. heard'[c] = Append(heard[c], e)
            BY <1>8, <2>4 DEF old
        <3> QED
            BY Zenon, <2>1, <2>2, <2>4, <3>1
    <2>5. CASE c = cb /\ ~(e.id = x /\ e.kind = s)
        <3>1. heard'[c] = Append(heard[c], e)
            BY <1>8, <2>5 DEF old
        <3>2. HeardOf(heard'[c], x, s) = HeardOf(heard[c], x, s) \o <<>>
            BY Zenon, <2>2, <2>5, <3>1
        <3>3. \A t \in Seq(Nat) : t \o <<>> = t
            BY ConcatEmptySeq
        <3> QED
            BY <2>1, <2>2, <2>5, <3>2, <3>3
    <2> QED
        BY <2>3, <2>4, <2>5
\* The streams whose lists were left alone.
<1>11. ASSUME NEW c \in Callbacks, NEW x \in Ids, NEW s \in Streams,
              <<x, s>> \notin touched, x \in processes, HeardFrom(c, x, s) # <<>>
       PROVE  \E p \in 1..Len(listeners[x][s]) :
                 listeners[x][s][p] = c /\ UpToDate(c, x, s, p)
    BY <1>0, <1>2, <1>11 DEF HeardInv
<1>12. ASSUME NEW x \in Ids, NEW s \in Streams, e.id = x, e.kind = s, NEW p
       PROVE  \A i \in 1..Len(emits) : Due(i, p, x, s) <=> i = 1 /\ p > walk.i
    BY <1>3, <1>12 DEF Due
<1>13. ASSUME NEW x \in Ids, NEW s \in Streams, e.id = x, e.kind = s, NEW p
       PROVE  \A i \in 1..Len(emits) : Due(i, p, x, s)' <=> i = 1 /\ p > walk.i + 1
    BY <1>1, <1>3, <1>4, <1>13 DEF Due
\* One that cb has heard of goes on with this event.
<1>14. ASSUME NEW s \in Streams, e.kind = s, <<e.id, s>> \notin touched,
              HeardFrom(cb, e.id, s) # <<>>
       PROVE  LastHeard(cb, e.id, s) = Taken(e.id, s) - Len(e.data)
    <2>1. listeners[e.id][s] = L
        BY <1>14 DEF L
    <2>2. PICK p \in 1..Len(L) : L[p] = cb /\ UpToDate(cb, e.id, s, p)
        BY <1>3, <1>11, <1>14, <2>1
    <2>3. p = q
        BY <1>5, <1>14, <2>2
    <2>4. Due(1, p, e.id, s)
        BY <1>3, <1>4, <1>12, <1>14, <2>3 DEF q
    <2> QED
        BY <1>3, <2>2, <2>4 DEF UpToDate
\* So what is heard stays consecutive.
<1>15. ASSUME NEW x \in Ids, NEW s \in Streams, e.id = x, e.kind = s, <<x, s>> \notin touched
       PROVE  /\ Consecutive(HeardFrom(cb, x, s)')
              /\ LastHeard(cb, x, s)' = Taken(x, s)
    <2> DEFINE a == HeardFrom(cb, x, s)
    <2>1. a \in Seq(Nat) /\ HeardFrom(cb, x, s)' = a \o e.data
        BY <1>3, <1>10, <1>15
    <2>2. e.kind # "exit"
        BY <1>15 DEF Streams
    <2>3. e.data \in Seq(Nat) /\ e.data # <<>> /\ Consecutive(e.data)
          /\ e.data[1] = Taken(x, s) - Len(e.data) + 1
          /\ e.data[Len(e.data)] = Taken(x, s)
        BY <1>3, <1>15, <2>2
    <2>4. Consecutive(a)
        BY <1>0, <1>3, <1>15 DEF HeardInOrder
    <2>5. a # <<>> => a[Len(a)] = Taken(x, s) - Len(e.data)
        BY <1>14, <1>15 DEF LastHeard
    <2>6. LastHeard(cb, x, s)' = HeardFrom(cb, x, s)'[Len(HeardFrom(cb, x, s)')]
        BY DEF LastHeard
    <2> HIDE DEF a
    <2>7. a # <<>> => e.data[1] = a[Len(a)] + 1
        BY <2>3, <2>5
    <2>8. Consecutive(a \o e.data) /\ (a \o e.data)[Len(a \o e.data)] = e.data[Len(e.data)]
        BY <2>1, <2>3, <2>4, <2>7, ConsecutiveConcat
    <2> QED
        BY <2>1, <2>3, <2>6, <2>8
<1>16. EventType'
    <2>1. heard' \in [Callbacks -> Seq(Event)]
        BY <1>0, <1>1, <1>9 DEF EventType, old
    <2> QED
        BY <1>0, <1>1, <1>4, <1>6, <2>1 DEF EventType
<1>17. PhaseInv'
    BY <1>0, <1>1, <1>2 DEF PhaseInv
<1>18. EmitInv' /\ ChunkInv' /\ ListInv'
    BY <1>0, <1>1, <1>2 DEF EmitInv, ChunkInv, ListInv, Taken
<1>19. WalkInv'
    <2> SUFFICES ASSUME <<e.id, e.kind>> \notin touched
                 PROVE  ~walk'.stale /\ walk'.i <= Len(L) /\ walk'.n = Len(L)
        BY <1>1, <1>3 DEF WalkInv, L
    <2> QED
        BY <1>4, <1>5 DEF q
<1>20. HeardInv'
    <2> SUFFICES ASSUME NEW c \in Callbacks, NEW x \in Ids, NEW s \in Streams
                 PROVE  /\ child'[x] = "none" => HeardFrom(c, x, s)' = <<>>
                        /\ /\ <<x, s>> \notin touched' /\ x \in processes' /\ ~InShutdown'
                           /\ HeardFrom(c, x, s)' # <<>>
                           => \E p \in 1..Len(listeners'[x][s]) :
                                listeners'[x][s][p] = c /\ UpToDate(c, x, s, p)'
        BY DEF HeardInv
    <2>1. child'[x] = "none" => HeardFrom(c, x, s)' = <<>>
        <3> SUFFICES ASSUME child[x] = "none" PROVE HeardFrom(c, x, s)' = <<>>
            BY <1>1
        <3>1. e.id # x
            BY <1>0, <1>3 DEF PhaseInv
        <3> QED
            BY <1>0, <1>10, <3>1 DEF HeardInv
    <2>2. ASSUME <<x, s>> \notin touched', x \in processes', HeardFrom(c, x, s)' # <<>>
          PROVE  \E p \in 1..Len(listeners'[x][s]) :
                    listeners'[x][s][p] = c /\ UpToDate(c, x, s, p)'
        <3>0. <<x, s>> \notin touched /\ x \in processes
            BY <1>1, <2>2
        <3>1. CASE ~(e.id = x /\ e.kind = s)
            <4>1. HeardFrom(c, x, s)' = HeardFrom(c, x, s)
                BY <1>10, <3>1
            <4>2. LastHeard(c, x, s)' = LastHeard(c, x, s)
                BY <4>1 DEF LastHeard
            <4>3. PICK p \in 1..Len(listeners[x][s]) :
                     listeners[x][s][p] = c /\ UpToDate(c, x, s, p)
                BY <1>11, <2>2, <3>0, <4>1
            <4>4. \A i \in 1..Len(emits) : Due(i, p, x, s)' <=> Due(i, p, x, s)
                <5> SUFFICES ASSUME NEW i \in 1..Len(emits)
                             PROVE  Due(i, p, x, s)' <=> Due(i, p, x, s)
                    OBVIOUS
                <5>1. i = 1 => ~Due(i, p, x, s)' /\ ~Due(i, p, x, s)
                    BY <1>1, <1>3, <3>1 DEF Due
                <5>2. i # 1 => i > 1
                    OBVIOUS
                <5> QED
                    BY <1>1, <5>1, <5>2 DEF Due
            <4>5. UpToDate(c, x, s, p)'
                BY <1>1, <1>6, <4>2, <4>3, <4>4 DEF UpToDate
            <4> QED
                BY <1>1, <4>3, <4>5
        <3>2. CASE e.id = x /\ e.kind = s /\ c = cb
            <4>1. PICK p \in 1..Len(listeners[x][s]) : p = q /\ listeners[x][s][p] = c
                BY <1>5, <3>0, <3>2 DEF L
            <4>2. \A i \in 1..Len(emits) : ~Due(i, p, x, s)'
                BY <1>4, <1>13, <3>2, <4>1 DEF q
            <4>3. LastHeard(c, x, s)' = Taken(x, s)
                BY <1>15, <3>0, <3>2
            <4>4. UpToDate(c, x, s, p)'
                BY <1>1, <1>6, <4>2, <4>3 DEF UpToDate
            <4> QED
                BY <1>1, <4>1, <4>4
        <3>3. CASE e.id = x /\ e.kind = s /\ c # cb
            <4>1. HeardFrom(c, x, s)' = HeardFrom(c, x, s)
                BY <1>10, <3>3
            <4>2. LastHeard(c, x, s)' = LastHeard(c, x, s)
                BY <4>1 DEF LastHeard
            <4>3. PICK p \in 1..Len(listeners[x][s]) :
                     listeners[x][s][p] = c /\ UpToDate(c, x, s, p)
                BY <1>11, <2>2, <3>0, <4>1
            <4>4. p # q
                BY <1>5, <3>0, <3>3, <4>3 DEF L
            <4>5. p > walk.i <=> p > walk.i + 1
                <5>1. p \in Int
                    OBVIOUS
                <5> QED
                    BY <1>4, <4>4, <5>1 DEF q
            <4>6. \A i \in 1..Len(emits) : Due(i, p, x, s)' <=> Due(i, p, x, s)
                BY <1>12, <1>13, <3>3, <4>5
            <4>7. UpToDate(c, x, s, p)'
                BY <1>1, <1>6, <4>2, <4>3, <4>6 DEF UpToDate
            <4> QED
                BY <1>1, <4>3, <4>7
        <3> QED
            BY <3>1, <3>2, <3>3
    <2> QED
        BY <2>1, <2>2
<1>21. ASSUME NEW c \in Callbacks, NEW i \in 1..Len(heard'[c])
       PROVE  \/ i \in 1..Len(heard[c]) /\ heard'[c][i] = heard[c][i]
              \/ c = cb /\ i = Len(old) + 1 /\ heard'[c][i] = e
    <2>1. CASE c # cb
        BY <1>8, <1>21, <2>1
    <2>2. CASE c = cb
        <3>1. i \in 1..(Len(old) + 1) /\ heard'[c] = Append(old, e)
            BY <1>8, <1>9, <1>21, <2>2
        <3>2. i \in 1..Len(old) \/ i = Len(old) + 1
            BY <1>9, <3>1
        <3>3. CASE i \in 1..Len(old)
            <4>1. heard'[c][i] = old[i]
                BY <1>9, <3>1, <3>3
            <4> QED
                BY <2>2, <3>3, <4>1 DEF old
        <3>4. CASE i = Len(old) + 1
            BY <1>9, <2>2, <3>1, <3>4
        <3> QED
            BY <3>2, <3>3, <3>4
    <2> QED
        BY <2>1, <2>2
<1>22. ExitInv'
    <2> SUFFICES ASSUME NEW c \in Callbacks, NEW i \in 1..Len(heard'[c]),
                        heard'[c][i].kind = "exit"
                 PROVE  /\ child[heard'[c][i].id] = "reaped"
                        /\ \A j \in 1..Len(emits) :
                              emits[j].id = heard'[c][i].id => emits[j].kind = "exit"
        BY <1>1 DEF ExitInv
    <2>1. CASE i \in 1..Len(heard[c]) /\ heard'[c][i] = heard[c][i]
        BY <1>0, <2>1 DEF ExitInv
    <2>2. CASE heard'[c][i] = e
        <3>1. e.kind = "exit"
            BY <2>2
        <3>2. child[e.id] = "reaped"
            BY <1>0, <1>3, <3>1 DEF EmitInv
        <3>3. \A j \in 1..Len(emits) : j = 1 \/ j > 1
            OBVIOUS
        <3> QED
            BY <1>3, <2>2, <3>1, <3>2, <3>3
    <2> QED
        BY <1>21, <2>1, <2>2
<1>23. HeardInOrder'
    <2>1. ASSUME NEW c \in Callbacks, NEW x \in Ids, NEW s \in Streams, <<x, s>> \notin touched'
          PROVE  Consecutive(HeardFrom(c, x, s)')
        <3>0. <<x, s>> \notin touched
            BY <1>1, <2>1
        <3>1. CASE c = cb /\ e.id = x /\ e.kind = s
            BY <1>15, <3>0, <3>1
        <3>2. CASE ~(c = cb /\ e.id = x /\ e.kind = s)
            BY <1>0, <1>10, <3>0, <3>2 DEF HeardInOrder
        <3> QED
            BY <3>1, <3>2
    <2>2. ASSUME NEW c \in Callbacks, NEW i \in 1..Len(heard'[c]), NEW j \in 1..Len(heard'[c]),
                 i < j, heard'[c][i].kind = "exit", heard'[c][i].id = heard'[c][j].id
          PROVE  heard'[c][j].kind = "exit"
        <3>1. CASE j \in 1..Len(heard[c]) /\ heard'[c][j] = heard[c][j]
            <4>1. i \in 1..Len(heard[c])
                BY <2>2, <3>1, <1>7, LenProperties
            <4>2. heard'[c][i] = heard[c][i]
                BY <1>8, <1>9, <4>1 DEF old
            <4> QED
                BY <1>0, <2>2, <3>1, <4>1, <4>2 DEF HeardInOrder
        <3>2. CASE c = cb /\ j = Len(old) + 1 /\ heard'[c][j] = e
            <4>1. i # Len(old) + 1
                BY <2>2, <3>2
            <4>2. i \in 1..Len(heard[c]) /\ heard'[c][i] = heard[c][i]
                BY <1>21, <4>1
            <4> QED
                BY <1>0, <1>3, <2>2, <3>2, <4>2 DEF ExitInv
        <3> QED
            BY <1>21, <3>1, <3>2
    <2> QED
        BY <2>1, <2>2 DEF HeardInOrder
<1> QED
    BY <1>16, <1>17, <1>18, <1>19, <1>20, <1>22, <1>23 DEF HInv

\* The update hook has called the listeners of an event.
LEMMA DoneStep ==
    ASSUME IInv, HInv, EventDone
    PROVE  HInv'
<1> DEFINE e == Head(emits)
           L == listeners[e.id][e.kind]
           m == Len(emits) - 1
<1>0. /\ EventType /\ PhaseInv /\ EmitInv /\ ChunkInv /\ WalkInv /\ ListInv
      /\ HeardInv /\ ExitInv /\ HeardInOrder
    BY DEF HInv
<1>1. /\ UNCHANGED <<js, todo, listeners, processes, child, wrote, pipe, heard, touched>>
      /\ js.pc = "emit" /\ emits # <<>>
      /\ walk.i >= WalkLength \/ walk.stale
      /\ emits' = Tail(emits) /\ walk' = NoWalk
    BY DEF EventDone, tables, os, seen
<1>2. ~InCall /\ ~InCall' /\ ~InShutdown /\ ~InShutdown'
    BY <1>1 DEF InCall, InShutdown
<1>3. /\ e = emits[1] /\ 1 \in 1..Len(emits) /\ e.id \in Ids /\ e.kind \in Kinds
      /\ \A i \in 1..Len(emits) : i > 1 /\ emits[i].id = e.id => emits[i].kind # e.kind
    BY <1>0, <1>1, FirstEvent
<1>e. emits \in Seq(Event) /\ Len(emits) \in Nat
      /\ \A i \in 1..Len(emits) : emits[i].id \in Ids /\ emits[i].kind \in Kinds
    BY <1>0, EventFields
<1>4. /\ emits' \in Seq(Event) /\ Len(emits') = m /\ m \in Nat
      /\ \A i \in 1..m : emits'[i] = emits[i + 1] /\ i + 1 \in 1..Len(emits)
    BY <1>1, <1>3, <1>e, HeadTailProperties
<1>5. \A x, s : Taken(x, s)' = Taken(x, s)
    BY <1>1 DEF Taken
\* Who is in the list of a stream left alone has heard of the event.
<1>6. ASSUME <<e.id, e.kind>> \notin touched, NEW p \in 1..Len(L)
      PROVE  ~(p > walk.i)
    <2>1. ~walk.stale /\ (walk.i > 0 => walk.n = Len(L))
        BY <1>0, <1>1, <1>3, <1>6 DEF WalkInv
    <2>2. Len(L) \in Nat
        BY <1>0, <1>3, <1>6, ListLength
    <2>3. walk.i \in Nat
        BY <1>0 DEF EventType
    <2>4. WalkLength = Len(L)
        <3>1. CASE walk.i = 0
            BY <3>1 DEF WalkLength, Audience
        <3>2. CASE walk.i # 0
            BY <2>1, <2>3, <3>2 DEF WalkLength
        <3> QED
            BY <3>1, <3>2
    <2> QED
        BY <1>1, <2>1, <2>2, <2>3, <2>4
<1> HIDE DEF e, L, m
<1>7. EventType'
    <2>1. walk' = [i |-> walk'.i, n |-> walk'.n, stale |-> walk'.stale]
          /\ walk'.i \in Nat /\ walk'.stale \in BOOLEAN
        BY <1>1 DEF NoWalk
    <2> QED
        BY <1>0, <1>1, <1>4, <1>5, <2>1 DEF EventType
<1>8. PhaseInv'
    BY <1>0, <1>1, <1>2 DEF PhaseInv
<1>9. EmitInv'
    <2>1. \A i \in 1..m : emits'[i].id \in processes'
        BY <1>0, <1>1, <1>4 DEF EmitInv
    <2>2. \A i \in 1..m : emits'[i].kind = "exit" => child'[emits'[i].id] = "reaped"
        BY <1>0, <1>1, <1>4 DEF EmitInv
    <2>3. ASSUME NEW i \in 1..m, NEW j \in 1..m, i # j, emits'[i].id = emits'[j].id
          PROVE  emits'[i].kind # emits'[j].kind
        <3>1. i + 1 # j + 1
            BY <2>3
        <3> QED
            BY <1>0, <1>4, <2>3, <3>1 DEF EmitInv
    <2>4. ASSUME NEW i \in 1..m, NEW j \in 1..m, i < j, emits'[i].kind = "exit"
          PROVE  emits'[i].id # emits'[j].id
        <3>1. i + 1 < j + 1
            BY <2>4
        <3>2. /\ i + 1 \in 1..Len(emits) /\ j + 1 \in 1..Len(emits)
              /\ emits'[i] = emits[i + 1] /\ emits'[j] = emits[j + 1]
            BY <1>4
        <3>3. \A y, z \in 1..Len(emits) :
                 y < z /\ emits[y].kind = "exit" => emits[y].id # emits[z].id
            BY <1>0 DEF EmitInv
        <3>4. emits[i + 1].kind = "exit"
            BY Zenon, <2>4, <3>2
        <3>5. emits[i + 1].id # emits[j + 1].id
            BY <3>1, <3>2, <3>3, <3>4
        <3> QED
            BY Zenon, <3>2, <3>5
    <2> QED
        BY <1>1, <1>4, <2>1, <2>2, <2>3, <2>4 DEF EmitInv
<1>10. ChunkInv'
    <2> SUFFICES ASSUME NEW i \in 1..m, emits'[i].kind # "exit"
                 PROVE  /\ Len(emits'[i].data) >= 1
                        /\ \A k \in 1..Len(emits'[i].data) :
                              emits'[i].data[k]
                              = (wrote'[emits'[i].id][emits'[i].kind]
                                 - pipe'[emits'[i].id][emits'[i].kind])
                                - Len(emits'[i].data) + k
        BY <1>4 DEF ChunkInv, Taken
    <2>1. emits'[i] = emits[i + 1] /\ i + 1 \in 1..Len(emits) /\ wrote' = wrote /\ pipe' = pipe
        BY <1>1, <1>4
    <2> QED
        BY <1>0, <2>1 DEF ChunkInv, Taken
<1>11. ListInv'
    BY <1>0, <1>1 DEF ListInv
<1>12. WalkInv'
    <2> SUFFICES ASSUME emits' # <<>>, <<emits'[1].id, emits'[1].kind>> \notin touched'
                 PROVE  /\ ~walk'.stale
                        /\ walk'.i <= Len(listeners'[emits'[1].id][emits'[1].kind])
                        /\ walk'.i > 0
                           => walk'.n = Len(listeners'[emits'[1].id][emits'[1].kind])
        BY DEF WalkInv
    <2>1. 1 \in 1..m
        BY <1>4, EmptySeq
    <2>2. emits'[1].id \in Ids /\ emits'[1].kind \in Kinds
        BY <1>4, <1>e, <2>1
    <2>3. Len(listeners[emits'[1].id][emits'[1].kind]) \in Nat
        BY <1>0, <1>1, <2>2, ListLength
    <2> QED
        BY <1>1, <2>3 DEF NoWalk
<1>13. HeardInv'
    <2> SUFFICES ASSUME NEW cb \in Callbacks, NEW x \in Ids, NEW s \in Streams
                 PROVE  /\ child'[x] = "none" => HeardFrom(cb, x, s)' = <<>>
                        /\ /\ <<x, s>> \notin touched' /\ x \in processes' /\ ~InShutdown'
                           /\ HeardFrom(cb, x, s)' # <<>>
                           => \E p \in 1..Len(listeners'[x][s]) :
                                listeners'[x][s][p] = cb /\ UpToDate(cb, x, s, p)'
        BY DEF HeardInv
    <2>1. HeardFrom(cb, x, s)' = HeardFrom(cb, x, s)
        BY <1>1 DEF HeardFrom
    <2>2. LastHeard(cb, x, s)' = LastHeard(cb, x, s)
        BY <2>1 DEF LastHeard
    <2>3. ASSUME <<x, s>> \notin touched', x \in processes', HeardFrom(cb, x, s)' # <<>>
          PROVE  \E p \in 1..Len(listeners'[x][s]) :
                    listeners'[x][s][p] = cb /\ UpToDate(cb, x, s, p)'
        <3>1. PICK p \in 1..Len(listeners[x][s]) :
                 listeners[x][s][p] = cb /\ UpToDate(cb, x, s, p)
            BY <1>0, <1>1, <1>2, <2>1, <2>3 DEF HeardInv
        <3>2. ~Due(1, p, x, s)
            <4> SUFFICES ASSUME Due(1, p, x, s) PROVE FALSE
                OBVIOUS
            <4>1. e.id = x /\ e.kind = s /\ p > walk.i
                BY <1>3 DEF Due
            <4>2. p \in 1..Len(L) /\ <<e.id, e.kind>> \notin touched
                BY <1>1, <2>3, <4>1 DEF L
            <4> QED
                BY <1>6, <4>1, <4>2
        <3>3. \A i \in 1..m : Due(i, p, x, s)' <=> Due(i + 1, p, x, s)
            <4> SUFFICES ASSUME NEW i \in 1..m PROVE Due(i, p, x, s)' <=> Due(i + 1, p, x, s)
                OBVIOUS
            <4>1. i + 1 > 1 /\ p > walk'.i
                BY <1>1 DEF NoWalk
            <4> QED
                BY <1>4, <4>1 DEF Due
        <3>4. ASSUME NEW i \in 1..m, Due(i, p, x, s)'
              PROVE  LastHeard(cb, x, s)' = Taken(x, s)' - Len(emits'[i].data)
            BY <1>4, <1>5, <2>2, <3>1, <3>3, <3>4 DEF UpToDate
        <3>5. ASSUME \A i \in 1..m : ~Due(i, p, x, s)'
              PROVE  LastHeard(cb, x, s)' = Taken(x, s)'
            <4>1. ASSUME NEW j \in 1..Len(emits) PROVE ~Due(j, p, x, s)
                <5>1. CASE j = 1
                    BY <3>2, <5>1
                <5>2. CASE j > 1
                    <6>1. j - 1 \in 1..m /\ (j - 1) + 1 = j
                        BY <1>4, <1>e, <5>2 DEF m
                    <6>2. ~Due((j - 1) + 1, p, x, s)
                        BY <3>3, <3>5, <6>1
                    <6> QED
                        BY Zenon, <6>1, <6>2
                <5> QED
                    BY <5>1, <5>2
            <4> QED
                BY <1>5, <2>2, <3>1, <4>1 DEF UpToDate
        <3>6. UpToDate(cb, x, s, p)'
            BY <1>4, <3>4, <3>5 DEF UpToDate
        <3> QED
            BY <1>1, <3>1, <3>6
    <2> QED
        BY <1>0, <1>1, <2>1, <2>3 DEF HeardInv
<1>14. ExitInv'
    BY <1>0, <1>1, <1>4 DEF ExitInv
<1>15. HeardInOrder'
    BY <1>0, <1>1 DEF HeardInOrder, HeardFrom
<1> QED
    BY <1>7, <1>8, <1>9, <1>10, <1>11, <1>12, <1>13, <1>14, <1>15 DEF HInv

\* Every step keeps the invariant.
LEMMA HeardNext == IInv /\ HInv /\ [Next]_vars => HInv'
<1> SUFFICES ASSUME IInv, HInv, [Next]_vars PROVE HInv'
    OBVIOUS
<1>1. ASSUME NEW id \in Ids, NEW k \in Kinds, NEW cb \in Callbacks, On(id, k, cb) \/ Off(id, k, cb)
      PROVE  HInv'
    BY <1>1, ListenStep
<1>2. ASSUME NEW id \in Ids, UpdateRead(id) PROVE HInv'
    BY <1>2, ReadStep
<1>3. CASE UpdateWait
    BY <1>3, WaitStep
<1>4. ASSUME NEW cb \in Callbacks, CallListener(cb) PROVE HInv'
    BY <1>4, CallStep
<1>5. CASE EventDone
    BY <1>5, DoneStep
<1>6. CASE UpdateEnd
    BY <1>6, EndStep
<1>7. CASE ShutdownBegin
    BY <1>7, ShutdownStep
<1>8. CASE ~Loud
    <2>1. PhaseInv
        BY DEF HInv
    <2> QED
        BY <1>8, <2>1, QuietStep, QuietKeeps
<1> QED
    BY <1>1, <1>2, <1>3, <1>4, <1>5, <1>6, <1>7, <1>8 DEF Loud

\* Whatever other listeners do, and whenever they do it, a listener hears the chunks of
\* a stream in order, each once, as long as the script neither took a listener from the
\* list nor grew it while it was walked; and nothing but exits after an exit
\* (process_update_callback, on() and off()).
THEOREM ListenersInOrder == Spec => []HeardInOrder
<1>1. Init => HInv
    BY HInit
<1>2. HInv => HeardInOrder
    BY DEF HInv
<1> QED
    BY <1>1, <1>2, HeardNext, Invariance, PTL DEF Spec

=============================================================================
