---------------------------- MODULE MCAssignment ----------------------------
EXTENDS Assignment, TypeRelations

RECURSIVE MCHas(_, _)
MCHas(t, v) == HasBy(MCHas, t, v)

RECURSIVE MCStrict(_, _)
MCStrict(t, d) == StrictBy(MCStrict, t, d)

Lit(v) == <<"string", v>>
\* function <T>(xs: T[]): i64, what it may be instantiated to, and what that may become.
Generic == <<"func", <<Array(<<"param", "T">>)>>, I64, {"T"}>>
OfArrays == {Generic, Func(<<Array(I64)>>, NewUnion(<<I64, Null>>))}
                \cup {Func(<<Array(t)>>, I64) : t \in {I64, String}}
Basic == {I64, <<"i64", 1>>, String, Lit("a"), Null, Undefined, Void, <<"json">>}
Tagged(v, t) == [type |-> Lit(v), of |-> t]
Unions == {NewUnion(<<t, u>>) : t \in {I64, String, Array(I64)}, u \in {<<"i64", 1>>, Null, Undefined, Lit("a")}}
Deep == {Array(t) : t \in {I64, String, NewUnion(<<String, I64>>), <<"json">>}}
            \cup {<<"tuple", <<t, String>>>> : t \in {I64, <<"i64", 1>>, NewUnion(<<Null, I64>>)}}
            \cup {Object([of |-> t]) : t \in {I64, NewUnion(<<I64, Null>>)}}
            \cup {Object(Tagged("a", t)) : t \in {I64, String}} \cup {Object(Tagged("b", I64)), Object([type |-> String, of |-> I64])}
            \cup {NewUnion(<<Object(Tagged("b", I64)), Object(Tagged("a", I64))>>)}
Maps == {MapOf(t) : t \in {I64, String, NewUnion(<<I64, String>>)}}
Funcs(ps) == {Func(<<p>>, r) : p \in ps, r \in {I64, NewUnion(<<I64, Null>>), Undefined}}

\* What is declared to be any of these: maps of different things, and functions that
\* are given different things, are among them.
Declared == Basic \cup Unions \cup Deep \cup Maps \cup OfArrays
                \cup Funcs({I64, NewUnion(<<I64, Null>>)}) \cup {Array(MapOf(t)) : t \in {I64, String}}

Simple == {<<"i64", 1>>, <<"i64", 2>>, <<"string", "a">>, <<"string", "b">>, <<"null">>, <<"undefined">>}
Composed == {<<"array", s>> : s \in {<<>>} \cup {<<x>> : x \in Simple} \cup {<<x, y>> : x \in Simple, y \in Simple}}
                \cup {<<"object", <<>>>>} \cup {<<"object", [of |-> x]>> : x \in Simple}
                \cup {<<"object", [type |-> <<"string", s>>, of |-> x]>> : s \in {"a", "b"}, x \in Simple}
                \cup {<<"array", <<<<"object", [of |-> x]>>>>>> : x \in Simple}
Arrays(elems) == {v \in Composed : v[1] = "array" /\ \A i \in DOMAIN v[2] : v[2][i] \in elems}
MCValues == Simple \cup Composed
                \cup {<<"func", Arrays(elems), {<<"i64", 1>>}>> :
                        elems \in {Simple, {<<"i64", 1>>, <<"i64", 2>>}, {<<"string", "a">>, <<"string", "b">>}}}
                \cup {<<"func", takes, gives>> :
                        takes \in {Simple, {<<"i64", 1>>, <<"i64", 2>>}, {<<"i64", 1>>, <<"i64", 2>>, <<"null">>}},
                        gives \in {{<<"i64", 1>>}, {<<"null">>, <<"i64", 2>>}, {<<"undefined">>}}}

\* What the proofs rest on holds of all these types and of what they are made of, and
\* of the unions of basic types.
RECURSIVE Height(_), Within(_)
Height(t) == Max({0} \cup {1 + Height(p) : p \in Parts(t)})
Within(t) == {t} \cup UNION {Within(p) : p \in Parts(t)}
AllTypes == UNION {Within(t) : t \in Declared \cup {NewUnion(<<u, x>>) : u, x \in Basic}}

ASSUME
    /\ WellFounded(AllTypes, [t \in AllTypes |-> Height(t)])
    /\ Recursive(AllTypes)
    /\ Comparable(AllTypes)
    /\ \A t \in AllTypes : Flat(t)
=============================================================================
