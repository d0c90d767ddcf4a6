---------------------------- MODULE DbusSignals -----------------------------
(***************************************************************************)
(* Signals of one D-Bus connection, from emitSignal() of a script over the *)
(* bus and the pump thread to the callbacks of onSignal(), which a         *)
(* callback may itself add and remove.  DbusClient models the connection   *)
(* and the calls, DbusBodies says what becomes of the arguments.  All      *)
(* names carry the prefix Sig.                                             *)
(***************************************************************************)
EXTENDS Integers, Sequences, SequencesExt

CONSTANTS SigMax,        \* signals sent
          SigCallbacks,  \* registrations: a function registered twice is two of them
          SigBodies,     \* SigBodies[n]: the <<signature, arguments>> its n-th signal may have
          SigEncode(_, _), \* append_values
          SigDecode(_)     \* dbus_value_to_json

ASSUME SigAssumption == SigMax \in Nat

VARIABLES
    sigJs,         \* where the script thread stands
    sigCallbacks,  \* g_signalCallbacks
    sigSent,       \* signals sent so far
    sigWire,       \* on the bus: [n, types, args, body]
    sigQueue,      \* g_signals: [n, args, told]
    sigBatch,      \* dbus_update's sigs
    sigCopies,     \* dbus_update's cbs
    sigTurn,       \* the callback whose turn it is, by its place in sigCopies
    sigHeard       \* sigHeard[c]: numbers of the signals c was called with since onSignal

sigVars == <<sigJs, sigCallbacks, sigSent, sigWire, sigQueue, sigBatch, sigCopies, sigTurn,
             sigHeard>>

SigInit ==
    /\ sigJs = "script"
    /\ sigCallbacks = <<>>
    /\ sigSent = 0
    /\ sigWire = <<>>
    /\ sigQueue = <<>>
    /\ sigBatch = <<>>
    /\ sigCopies = <<>>
    /\ sigTurn = 1
    /\ sigHeard = [c \in SigCallbacks |-> <<>>]

SigInScript == sigJs \in {"script", "callback"}

-----------------------------------------------------------------------------
(* The functions of the script                                             *)

\* push_back of another registration.
SigOn(c) ==
    /\ SigInScript /\ c \notin Range(sigCallbacks)
    /\ sigCallbacks' = Append(sigCallbacks, c)
    /\ sigHeard' = [sigHeard EXCEPT ![c] = <<>>]
    /\ UNCHANGED <<sigJs, sigSent, sigWire, sigQueue, sigBatch, sigCopies, sigTurn>>

\* The first registration of the function is erased: any, as they are told apart here.
SigOff(c) ==
    /\ SigInScript
    /\ \E i \in DOMAIN sigCallbacks :
          sigCallbacks[i] = c /\ sigCallbacks' = RemoveAt(sigCallbacks, i)
    /\ UNCHANGED <<sigJs, sigSent, sigWire, sigQueue, sigBatch, sigCopies, sigTurn, sigHeard>>

SigOffAll ==
    /\ SigInScript /\ Len(sigCallbacks) > 1
    /\ sigCallbacks' = <<>>
    /\ UNCHANGED <<sigJs, sigSent, sigWire, sigQueue, sigBatch, sigCopies, sigTurn, sigHeard>>

\* emitSignal(): arguments that do not match throw and send nothing.
SigEmit(types, args) ==
    /\ SigInScript
    /\ SigEncode(types, args).ok
    /\ sigSent' = sigSent + 1
    /\ sigWire' = Append(sigWire, [n |-> sigSent + 1, types |-> types, args |-> args,
                                   body |-> SigEncode(types, args).wire])
    /\ UNCHANGED <<sigJs, sigCallbacks, sigQueue, sigBatch, sigCopies, sigTurn, sigHeard>>

-----------------------------------------------------------------------------
(* The pump thread                                                         *)

\* decode_signal, and the push.
SigPump ==
    /\ sigJs # "over" /\ sigWire # <<>>
    /\ LET m == Head(sigWire)
       IN sigQueue' = Append(sigQueue, [n    |-> m.n,
                                        args |-> m.args,
                                        told |-> [i \in DOMAIN m.body |-> SigDecode(m.body[i])]])
    /\ sigWire' = Tail(sigWire)
    /\ UNCHANGED <<sigJs, sigCallbacks, sigSent, sigBatch, sigCopies, sigTurn, sigHeard>>

-----------------------------------------------------------------------------
(* dbus_update, "2) signals"                                               *)

\* All that is queued, and the callbacks of now.
SigUpdate ==
    /\ sigJs = "script" /\ sigQueue # <<>>
    /\ sigBatch' = sigQueue
    /\ sigQueue' = <<>>
    /\ sigCopies' = sigCallbacks
    /\ sigTurn' = 1
    /\ sigJs' = "deliver"
    /\ UNCHANGED <<sigCallbacks, sigSent, sigWire, sigHeard>>

\* Variant: the callbacks are not copied but called from the list as it is.
SigCallLive ==
    /\ sigJs = "deliver" /\ sigBatch # <<>>
    /\ sigTurn <= Len(sigCallbacks)
    /\ LET c == sigCallbacks[sigTurn]
       IN sigHeard' = [sigHeard EXCEPT ![c] = Append(@, Head(sigBatch).n)]
    /\ sigTurn' = sigTurn + 1
    /\ sigJs' = "callback"
    /\ UNCHANGED <<sigCallbacks, sigSent, sigWire, sigQueue, sigBatch, sigCopies>>

\* One callback is called, also when it was removed meanwhile.
SigCall ==
    /\ sigJs = "deliver" /\ sigBatch # <<>>
    /\ sigTurn <= Len(sigCopies)
    /\ LET c == sigCopies[sigTurn]
       IN sigHeard' = [sigHeard EXCEPT ![c] = Append(@, Head(sigBatch).n)]
    /\ sigTurn' = sigTurn + 1
    /\ sigJs' = "callback"
    /\ UNCHANGED <<sigCallbacks, sigSent, sigWire, sigQueue, sigBatch, sigCopies>>

\* An exception of the callback is printed and forgotten.
SigCallReturns ==
    /\ sigJs = "callback"
    /\ sigJs' = "deliver"
    /\ UNCHANGED <<sigCallbacks, sigSent, sigWire, sigQueue, sigBatch, sigCopies, sigTurn,
                   sigHeard>>

SigNextSignal ==
    /\ sigJs = "deliver" /\ sigBatch # <<>>
    /\ sigTurn > Len(sigCopies)
    /\ sigBatch' = Tail(sigBatch)
    /\ sigTurn' = 1
    /\ UNCHANGED <<sigJs, sigCallbacks, sigSent, sigWire, sigQueue, sigCopies, sigHeard>>

SigUpdateEnds ==
    /\ sigJs = "deliver" /\ sigBatch = <<>>
    /\ sigCopies' = <<>>
    /\ sigJs' = "script"
    /\ UNCHANGED <<sigCallbacks, sigSent, sigWire, sigQueue, sigBatch, sigTurn, sigHeard>>

\* dbus_shutdown drops the callbacks and what is queued.
SigShutdown ==
    /\ sigJs = "script"
    /\ sigJs' = "over"
    /\ sigCallbacks' = <<>>
    /\ sigQueue' = <<>>
    /\ UNCHANGED <<sigSent, sigWire, sigBatch, sigCopies, sigTurn, sigHeard>>

-----------------------------------------------------------------------------

SigNext ==
    \/ \E c \in SigCallbacks : SigOn(c) \/ SigOff(c)
    \/ SigOffAll
    \/ \E n \in 1..SigMax : n = sigSent + 1 /\ \E b \in SigBodies[n] : SigEmit(b[1], b[2])
    \/ SigPump
    \/ SigUpdate
    \/ SigCall
    \/ SigCallReturns
    \/ SigNextSignal
    \/ SigUpdateEnds
    \/ SigShutdown

SigSpec == SigInit /\ [][SigNext]_sigVars

-----------------------------------------------------------------------------

SigTypeOK ==
    /\ sigJs \in {"script", "deliver", "callback", "over"}
    /\ sigCallbacks \in Seq(SigCallbacks) /\ sigCopies \in Seq(SigCallbacks)
    /\ sigSent \in 0..SigMax
    /\ sigTurn \in 1..(Len(sigCopies) + 1)
    /\ \A c \in SigCallbacks : sigHeard[c] \in Seq(1..SigMax)

\* A callback hears every signal from the first it hears to the last, in order and once,
\* whatever callbacks add and remove meanwhile (dbus_update, js_onSignal, js_offSignal).
SigNoneMissed ==
    \A c \in SigCallbacks :
        \A i \in 1..(Len(sigHeard[c]) - 1) : sigHeard[c][i + 1] = sigHeard[c][i] + 1

=============================================================================
