------------------------------ MODULE DbusTrees ------------------------------
(***************************************************************************)
(* The operators of DbusMarshal that call themselves, on trees of any      *)
(* height, for TLC to evaluate; and the parts and the height of a tree.    *)
(***************************************************************************)
EXTENDS DbusMarshal

\* append_value: what it does with a struct, an array, a dictionary and a variant is
\* AppendStruct, AppendArray, AppendDict and AppendVariant of DbusMarshal.
RECURSIVE AppendValue(_, _)
AppendValue(type, v) == AppendLevel(AppendValue, type, v)

\* append_values.
AppendValues(types, values) == AppendAll(AppendValue, types, values)

\* dbus_value_to_json, and JSON.parse of what it writes.
RECURSIVE ValueToJson(_)
ValueToJson(w) == JsonLevel(ValueToJson, w)

\* decode_reply.
RECURSIVE DecodeReply(_)
DecodeReply(w) == ReplyLevel(DecodeReply, ValueToJson, w)

\* What the caller and the listener agree on.
RECURSIVE PlainTree(_)
PlainTree(v) == PlainLevel(PlainTree, v)

RECURSIVE ModestTree(_)
ModestTree(v) == ModestLevel(ModestTree, v)

RECURSIVE ConformsTree(_, _)
ConformsTree(w, type) == ConformsLevel(ConformsTree, w, type)

-----------------------------------------------------------------------------

\* What a value consists of, one level down; the keys of an object are strings.
Parts(v) ==
    CASE Is("tag", v) -> {v.val}
      [] Is("arr", v) -> Range(v.arr)
      [] Is("obj", v) -> {e.val : e \in Range(v.obj)} \cup {[str |-> e.key] : e \in Range(v.obj)}
      [] OTHER        -> {}

RECURSIVE AllParts(_)
AllParts(v) == {v} \cup UNION {AllParts(part) : part \in Parts(v)}

RECURSIVE HeightOf(_)
HeightOf(v) == Max({0} \cup {HeightOf(part) + 1 : part \in Parts(v)})

\* The types inside a type.
RECURSIVE AllTypes(_)
AllTypes(type) ==
    {type} \cup UNION {AllTypes(inner) : inner \in
                         CASE Is("array", type)  -> {type.array}
                           [] Is("struct", type) -> Range(type.struct)
                           [] Is("dict", type)   -> Range(type.dict)
                           [] OTHER              -> {}}

=============================================================================
