----------------------------- MODULE DbusBodies -----------------------------
(***************************************************************************)
(* The arguments of the signals of DbusSignals, encoded and decoded as     *)
(* DbusMarshal has it.  The operators of DbusMarshal that call themselves  *)
(* are constants here, of which is assumed that they satisfy their own     *)
(* definitions on Types and Values, two sets of finite trees that have the *)
(* parts of their elements.  DbusTrees has operators that do.              *)
(***************************************************************************)
EXTENDS DbusSignals, DbusMarshal

CONSTANTS Types,             \* types of arguments, with the types inside them
          Values,            \* arguments, with the values inside them
          Height(_),         \* the height of a value
          WriteValue(_, _),  \* append_value
          ReadValue(_),      \* dbus_value_to_json
          ReadReply(_),      \* decode_reply
          Plain(_), Modest(_), Conforms(_, _)

Codes == {"s", "b", "d", "y", "n", "q", "i", "x", "t"}

\* The keys of a dictionary are of a basic type.
TypeForm(t) ==
    \/ DOMAIN t = {"variant"}
    \/ DOMAIN t = {"basic"} /\ t.basic \in Codes
    \/ DOMAIN t = {"array"} /\ t.array \in Types
    \/ DOMAIN t = {"struct"} /\ t.struct \in Seq(Types)
    \/ DOMAIN t = {"dict"} /\ t.dict \in Types \X Types /\ Is("basic", t.dict[1])

\* The types append_value guesses for a variant, and what is inside them.
Guesses == {Basic("s"), Basic("b"), Basic("i"), Basic("y"), [array |-> Basic("y")],
            [array |-> Basic("s")]}

ASSUME TypesAssumption == Guesses \subseteq Types /\ \A t \in Types : TypeForm(t)

Inside(part, v) == part \in Values /\ Height(part) < Height(v)

ValueForm(v) ==
    \/ DOMAIN v \in {{"str"}, {"bool"}, {"frac"}}
    \/ DOMAIN v = {"num"} /\ v = [num |-> v.num] /\ v.num \in Int
    \/ DOMAIN v = {"big"} /\ v.big \in Int
    \/ DOMAIN v = {"arr"} /\ v.arr \in Seq(Values) /\ \A i \in DOMAIN v.arr : Inside(v.arr[i], v)
    \/ /\ DOMAIN v = {"obj"}
       /\ \A i \in DOMAIN v.obj : Inside([str |-> v.obj[i].key], v) /\ Inside(v.obj[i].val, v)
    \/ DOMAIN v = {"tag", "val"} /\ v.tag \in Types /\ Inside(v.val, v)

ASSUME ValuesAssumption == \A v \in Values : Height(v) \in Nat /\ ValueForm(v)

\* What is written of values of some type.
Wiring == {WriteValue(p[1], p[2]).wire :
              p \in {p \in Types \X Values : WriteValue(p[1], p[2]).ok}}

ASSUME WriteAssumption ==
    \A t \in Types, v \in Values : WriteValue(t, v) = AppendLevel(WriteValue, t, v)

ASSUME ReadAssumption ==
    \A w \in Wiring : /\ ReadValue(w) = JsonLevel(ReadValue, w)
                      /\ ReadReply(w) = ReplyLevel(ReadReply, ReadValue, w)

ASSUME AgreedAssumption ==
    /\ \A v \in Values : /\ Plain(v) = PlainLevel(Plain, v)
                         /\ Modest(v) <=> ModestLevel(Modest, v)
    /\ \A t \in Types, w \in Wiring : Conforms(w, t) <=> ConformsLevel(Conforms, w, t)

\* Signals carry such arguments, written and read so.
ASSUME BodiesAssumption ==
    /\ \A n \in 1..SigMax : \A b \in SigBodies[n] :
          /\ b[1] \in Seq(Types) /\ b[2] \in Seq(Values)
          /\ SigEncode(b[1], b[2]) = AppendAll(WriteValue, b[1], b[2])
    /\ \A w \in Wiring : SigDecode(w) = ReadValue(w)

\* What append_values lets through is of the signature asked for, and arrives as it was,
\* in the arguments of a signal and as the answer to a call, whatever the type was guessed
\* or forced to be: but its strings and keys end at their first NUL (js_to_string), of the
\* keys that this makes equal the last one counts, and exempt are BigInts beyond the
\* integers a number holds, which are accepted and reduced (append_value,
\* dbus_value_to_json, decode_reply).
SigBodyArrives ==
    /\ \A m \in Range(sigWire) :
          /\ \A i \in DOMAIN m.types : Conforms(m.body[i], m.types[i])
          /\ \A i \in DOMAIN m.args :
                LET answer == ReadReply(m.body[i])
                IN Modest(m.args[i]) => Is("text", answer) \/ answer = Plain(m.args[i])
    /\ \A m \in Range(sigQueue \o sigBatch) :
          \A i \in DOMAIN m.args : Modest(m.args[i]) => m.told[i] = Plain(m.args[i])

=============================================================================
