---------------------------- MODULE DbusMarshal -----------------------------
(***************************************************************************)
(* The arguments of D-Bus messages: script values written by signature     *)
(* (append_values, append_value) and messages read back as JSON            *)
(* (dbus_value_to_json, decode_reply).  Types, script values and wire      *)
(* values are trees whose only field, or first field, names their kind:    *)
(*                                                                         *)
(*   types    [basic |-> "y"], [array |-> t], [struct |-> <<t, ...>>],     *)
(*            [dict |-> <<key, value>>] for a{..}, [variant |-> TRUE]      *)
(*   values   [str |-> s], [bool |-> b], [num |-> n], [frac |-> x] for a   *)
(*            number with a fraction, [big |-> n] for a BigInt,            *)
(*            [arr |-> <<v, ...>>], [obj |-> <<entry, ...>>] and           *)
(*            [tag |-> t, val |-> v] for {_t: t, _v: v}; as they arrive,   *)
(*            [obj |-> o] with o a function from keys to values            *)
(*   wire     [basic |-> c, val |-> v], [items |-> ws, type |-> t],        *)
(*            [entries |-> ws, type |-> t], [variant |-> w]                *)
(*                                                                         *)
(* Type codes left out are treated like one that is here: o, g like s, u   *)
(* like q.  A string is a name.                                            *)
(*                                                                         *)
(* What calls itself in the code has the operator to call as a parameter   *)
(* here; DbusTrees ties these knots.                                       *)
(***************************************************************************)
EXTENDS Integers, Sequences, SequencesExt

CONSTANTS IntMax,   \* 2^31 - 1 in the code
          WideMax,  \* 2^63 - 1 in the code
          SafeMax,  \* 2^53 - 1 in the code, the largest integer a number tells from its
                    \* neighbours
          BeforeNul \* the strings with a NUL inside, each with what stands before the first

ASSUME WidthAssumption ==
    /\ IntMax \in Nat /\ SafeMax \in Nat /\ WideMax \in Nat
    /\ 65535 <= IntMax /\ IntMax < SafeMax /\ SafeMax <= WideMax

Is(kind, tree) == kind \in DOMAIN tree

Basic(code) == [basic |-> code]

AllOf(results) == \A i \in DOMAIN results : results[i].ok
Wires(results) == [i \in DOMAIN results |-> results[i].wire]

Refused == [ok |-> FALSE]
Written(wire) == [ok |-> TRUE, wire |-> wire]

\* js_to_string, which takes a string of the script for a C string.
CString(s) == IF s \in DOMAIN BeforeNul THEN BeforeNul[s] ELSE s

-----------------------------------------------------------------------------
(* append_value                                                            *)

\* Variant: an int16 is let through up to the bound of a uint16.
IntegerFitsAsUnsigned(code, n) ==
    CASE code = "y" -> 0 <= n /\ n <= 255
      [] code \in {"n", "q"} -> 0 <= n /\ n <= 65535
      [] code = "i" -> -IntMax - 1 <= n /\ n <= IntMax

IntegerFits(code, n) ==
    CASE code = "y" -> 0 <= n /\ n <= 255
      [] code = "n" -> -32768 <= n /\ n <= 32767
      [] code = "q" -> 0 <= n /\ n <= 65535
      [] code = "i" -> -IntMax - 1 <= n /\ n <= IntMax

\* n stored in an integer of that many values, the lowest of them low.
Stored(n, low, values) == ((n - low) % values) + low

\* The C++ integer that is appended.
Cast(code, n) ==
    CASE code = "y" -> Stored(n, 0, 256)
      [] code = "n" -> Stored(n, -32768, 65536)
      [] code = "q" -> Stored(n, 0, 65536)
      [] code = "x" -> Stored(n, -WideMax - 1, 2 * (WideMax + 1))
      [] code = "t" -> Stored(n, 0, 2 * (WideMax + 1))
      [] OTHER      -> n

\* A number must be in range; a BigInt is reduced to 64 bits.
AppendInteger(code, v) ==
    IF \/ code \notin {"x", "t"} /\ Is("num", v) /\ IntegerFits(code, v.num)
       \/ code \in {"x", "t"} /\ Is("num", v) /\ v.num \in -SafeMax..SafeMax
          /\ (code = "t" => v.num >= 0)
       \/ code \in {"x", "t"} /\ Is("big", v)
    THEN Written([basic |-> code,
                  val   |-> [num |-> Cast(code, IF Is("big", v) THEN v.big ELSE v.num)]])
    ELSE Refused

\* append_value's test for a NUL comes after the cut, and never finds one.
AppendBasic(code, v) ==
    LET write(fits, val) == IF fits THEN Written([basic |-> code, val |-> val]) ELSE Refused
    IN CASE code = "s" -> write(Is("str", v), [str |-> CString(v.str)])
         [] code = "b" -> write(Is("bool", v), v)
         [] code = "d" -> write(Is("num", v) \/ Is("frac", v), v)
         [] OTHER      -> AppendInteger(code, v)

\* The type of a variant: named by the value, or guessed; <<>> for none.
InnerType(v) ==
    LET number(x) == Is("num", x) \/ Is("frac", x)
    IN CASE Is("tag", v)  -> <<v.tag>>
         [] Is("str", v)  -> <<Basic("s")>>
         [] Is("bool", v) -> <<Basic("b")>>
         [] number(v)     -> <<Basic("i")>>
         [] Is("arr", v)  -> <<[array |-> Basic(IF v.arr # <<>> /\ number(v.arr[1])
                                                THEN "y" ELSE "s")]>>
         [] OTHER         -> <<>>

\* As many values as the struct has fields.
AppendStruct(Write(_, _), types, v) ==
    LET results == [i \in DOMAIN types |-> Write(types[i], v.arr[i])]
    IN IF Is("arr", v) /\ Len(v.arr) = Len(types) /\ AllOf(results)
       THEN Written([items |-> Wires(results), type |-> [struct |-> types]]) ELSE Refused

AppendArray(Write(_, _), type, v) ==
    LET results == [i \in DOMAIN v.arr |-> Write(type, v.arr[i])]
    IN IF Is("arr", v) /\ AllOf(results)
       THEN Written([items |-> Wires(results), type |-> [array |-> type]]) ELSE Refused

\* Keys are strings: those of a dictionary with keys of another type are refused.
AppendDict(Write(_, _), types, v) ==
    LET keys   == [i \in DOMAIN v.obj |-> Write(types[1], [str |-> v.obj[i].key])]
        values == [i \in DOMAIN v.obj |-> Write(types[2], v.obj[i].val)]
    IN IF Is("obj", v) /\ AllOf(keys) /\ AllOf(values)
       THEN Written([entries |-> [i \in DOMAIN v.obj |-> [key |-> keys[i].wire,
                                                          val |-> values[i].wire]],
                     type |-> [dict |-> types]])
       ELSE Refused

AppendVariant(Write(_, _), v) ==
    LET inner  == InnerType(v)
        result == Write(inner[1], IF Is("tag", v) THEN v.val ELSE v)
    IN IF inner # <<>> /\ result.ok THEN Written([variant |-> result.wire]) ELSE Refused

\* append_value, which writes what is inside by Write.
AppendLevel(Write(_, _), type, v) ==
    CASE Is("variant", type) -> AppendVariant(Write, v)
      [] Is("array", type)   -> AppendArray(Write, type.array, v)
      [] Is("struct", type)  -> AppendStruct(Write, type.struct, v)
      [] Is("dict", type)    -> AppendDict(Write, type.dict, v)
      [] Is("basic", type)   -> AppendBasic(type.basic, v)

\* append_values: as many values as the signature has types.
AppendAll(Write(_, _), types, values) ==
    LET results == [i \in DOMAIN types |-> Write(types[i], values[i])]
    IN IF Len(values) = Len(types) /\ AllOf(results) THEN Written(Wires(results)) ELSE Refused

-----------------------------------------------------------------------------
(* dbus_value_to_json, and JSON.parse of what it writes                    *)

\* Numbers beyond SafeMax are rounded.
Parsed(n) == IF n \in -SafeMax..SafeMax THEN [num |-> n] ELSE [rounded |-> TRUE]

\* An object read from these entries: of two with one key JSON.parse keeps the later.
ObjectOf(entries) ==
    LET last(key) == Max({i \in DOMAIN entries : entries[i].key = key})
    IN [key \in {entries[i].key : i \in DOMAIN entries} |-> entries[last(key)].val]

\* dbus_value_to_json, which reads what is inside by Read.
JsonLevel(Read(_), w) ==
    CASE Is("variant", w) -> Read(w.variant)
      [] Is("items", w)   -> [arr |-> [i \in DOMAIN w.items |-> Read(w.items[i])]]
      [] Is("entries", w) -> [obj |-> ObjectOf([i \in DOMAIN w.entries |->
                                                  [key |-> w.entries[i].key.val.str,
                                                   val |-> Read(w.entries[i].val)]])]
      [] Is("basic", w)   -> IF w.basic \in {"s", "b", "d"} THEN w.val ELSE Parsed(w.val.num)

\* decode_reply, of the first argument: variants are opened, bytes and other
\* containers become values, the rest is text.
ReplyLevel(Open(_), Read(_), w) ==
    CASE Is("variant", w) -> Open(w.variant)
      [] Is("basic", w)   -> [text |-> w.val]
      [] Is("items", w) /\ w.type = [array |-> Basic("y")]
                          -> [arr |-> [i \in DOMAIN w.items |-> w.items[i].val]]
      [] OTHER            -> Read(w)

-----------------------------------------------------------------------------
(* What the caller and the listener agree on, said of the values alone     *)

\* The value without the wrappers that force the type of a variant, its strings and
\* keys as C strings.
PlainLevel(Strip(_), v) ==
    CASE Is("tag", v) -> Strip(v.val)
      [] Is("arr", v) -> [arr |-> [i \in DOMAIN v.arr |-> Strip(v.arr[i])]]
      [] Is("obj", v) -> [obj |-> ObjectOf([i \in DOMAIN v.obj |->
                                               [key |-> CString(v.obj[i].key),
                                                val |-> Strip(v.obj[i].val)]])]
      [] Is("str", v) -> [str |-> CString(v.str)]
      [] Is("big", v) -> [num |-> v.big]
      [] OTHER        -> v

\* A value without BigInts that 64 bits, or then a number, cannot hold.
ModestLevel(Holds(_), v) ==
    CASE Is("tag", v) -> Holds(v.val)
      [] Is("arr", v) -> \A i \in DOMAIN v.arr : Holds(v.arr[i])
      [] Is("obj", v) -> \A i \in DOMAIN v.obj : Holds(v.obj[i].val)
      [] Is("big", v) -> v.big \in 0..SafeMax
      [] OTHER        -> TRUE

\* The type of a wire value is the one asked for, down to the last field.
ConformsLevel(Fits(_, _), w, type) ==
    CASE Is("variant", type) -> Is("variant", w)
      [] Is("basic", type)   -> Is("basic", w) /\ w.basic = type.basic
      [] Is("array", type)   -> Is("items", w) /\ \A i \in DOMAIN w.items : Fits(w.items[i], type.array)
      [] Is("struct", type)  -> /\ Is("items", w) /\ Len(w.items) = Len(type.struct)
                                /\ \A i \in DOMAIN w.items : Fits(w.items[i], type.struct[i])
      [] Is("dict", type)    -> /\ Is("entries", w)
                                /\ \A i \in DOMAIN w.entries :
                                      /\ Fits(w.entries[i].key, type.dict[1])
                                      /\ Fits(w.entries[i].val, type.dict[2])

=============================================================================
