----------------------------- MODULE MC_Plugins -----------------------------
EXTENDS Plugins, DbusBodies, DbusTrees

Num(n) == [num |-> n]
Str(s) == [str |-> s]
Arr(items) == [arr |-> items]
Obj(key, val) == [obj |-> <<[key |-> key, val |-> val]>>]
Tag(type, val) == [tag |-> type, val |-> val]

\* "te" and "key" with a NUL and something more after it.
MCBeforeNul == [s \in {"teNULxt", "keyNULs"} |-> IF s = "teNULxt" THEN "te" ELSE "key"]

V == [variant |-> TRUE]
A(type) == [array |-> type]
ASV == [dict |-> <<Basic("s"), V>>]

\* Every kind of type and value, refused ones too; then two signals of one kind.
MCSigBodies ==
    [n \in 1..3 |->
      IF n > 1 THEN {<< <<Basic("q")>>, <<Num(n)>> >>} ELSE
       {<< <<Basic(p[1])>>, <<Num(p[2])>> >> :
            p \in {<<"y", 255>>, <<"y", 256>>, <<"y", -1>>, <<"n", -32768>>, <<"n", -32769>>,
                   <<"n", 32768>>, <<"q", 65535>>, <<"q", 65536>>, <<"d", 0>>, <<"x", -1>>,
                   <<"t", -1>>, <<"t", SafeMax + 1>>}}
       \cup {<< <<Basic(code)>>, <<[big |-> i]>> >> :
            code \in {"i", "x", "t"}, i \in {-1, SafeMax, 2 * WideMax + 4}}
       \cup {<< <<V>>, <<v>> >> :
            v \in {Num(70000), [frac |-> "half"], [bool |-> TRUE], Str("text"), [big |-> 7],
                   Arr(<<>>), Arr(<<Num(255), Num(0)>>), Arr(<<Num(256)>>),
                   Arr(<<Str("text"), Str("other")>>), Arr(<<Num(1), Str("text")>>),
                   Obj("key", Num(1)), Tag(V, Num(1)), Tag(A(V), Arr(<<Num(1), Str("text")>>)),
                   Tag(Basic("n"), Num(40000)), Tag(Basic("y"), Num(22))}}
       \cup {<< <<Basic("s"), ASV, A(Basic("s"))>>, <<Str("text"), Obj("key", v), Arr(<<>>)>> >> :
            v \in {Tag(ASV, Obj("other", [bool |-> FALSE])), Tag(Basic("q"), Num(65536))}}
       \cup {<< <<[struct |-> <<Basic("y"), V>>]>>, <<Arr(<<Num(9), v>>)>> >> :
            v \in {Str("text"), Str("teNULxt"), Arr(<<Num(3)>>)}}
       \cup {<< <<ASV>>, <<[obj |-> <<[key |-> "keyNULs", val |-> Num(1)],
                                    [key |-> last, val |-> Str("teNULxt")]>>]>> >> :
            last \in {"key", "other"}}
       \cup {<< <<[struct |-> <<Basic("y"), Basic("b")>>]>>, <<Arr(<<Num(9)>>)>> >>,
             << <<[dict |-> <<Basic("q"), V>>]>>, <<Obj("key", Num(1))>> >>,
             << <<Basic("s"), Basic("s")>>, <<Str("text")>> >>,
             << <<>>, <<>> >>}]

MCBodies == UNION {MCSigBodies[n] : n \in DOMAIN MCSigBodies}

MCValues == UNION {AllParts(v) : v \in UNION {Range(b[2]) : b \in MCBodies}}

MCTypes == UNION {AllTypes(type) : type \in UNION {Range(b[1]) : b \in MCBodies}
                                            \cup {v.tag : v \in {v \in MCValues : Is("tag", v)}}
                                            \cup Guesses}

=============================================================================
