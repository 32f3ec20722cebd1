----------------------------- MODULE Assignment -----------------------------
(***************************************************************************)
(* A value goes from one constant to the next, as the checker allows it.      *)
(* Type.AssignableTo passes over three things, which Strict looks at, too:     *)
(* what a map holds when it becomes another map, what a function is given      *)
(* under its new type, and how a generic function is used.  As long as none    *)
(* of them matters, whatever way the value takes, it must have the type of     *)
(* the constant it is in.                                                    *)
(* What the types mean is said here, of values of the language:               *)
(*   <<"i64", n>>, <<"bool", b>>, <<"string", s>>, <<"null">>, <<"undefined">>, *)
(*   <<"array", elems>>, <<"object", props>>, and <<"func", takes, gives>>,    *)
(*   a function that works for the values in takes and returns those in gives. *)
(***************************************************************************)
EXTENDS Types

CONSTANTS
    TypeExprs,          \* the types constants are declared with
    Values,             \* the values of the language, a small part of them
    Assignable(_, _),   \* Type.AssignableTo, see AssignableTo in TypeRelations
    Strict(_, _),       \* what passes over nothing: StrictBy says what that is
    Instance(_, _),     \* bindTypeParams, see IsInstance
    Same(_, _),         \* Type.Equals, see Equals
    Has(_, _)           \* whether a type stands for a value: HasBy says what that is

\* What is in an array, in an object, or comes out of a function is a value, too.
ASSUME ValuesAssumption ==
    \A v \in Values :
        /\ v[1] = "array" => v[2] \in Seq(Values)
        /\ v[1] = "object" => \A n \in DOMAIN v[2] : v[2][n] \in Values
        /\ v[1] = "func" => v[3] \subseteq Values

VARIABLES
    value,          \* the value that is handed on
    first,          \* the type of the constant that had it first
    type,           \* the type of the constant that has it now
    loose           \* whether something was passed over on its way

vars == <<value, first, type, loose>>

\* What Type.AssignableTo does not ask of two types of one kind: that a map holds what
\* the other one is to hold, that a function can take what it will be given, and not
\* only what it can take may be given to the other one; generic functions it treats
\* apart (bindTypeParams).
NothingOverlooked(Sub(_, _), t, d) ==
    /\ Kind(t) = "object" /\ IsMap(d) /\ t[3] # <<>> => Sub(t[3], d[3])
    /\ Kind(t) = "func" => t[4] = {} /\ AllFit(Sub, d[2], t[2])

\* One level of Strict, where Sub is Strict for the parts of the types.
StrictBy(Sub(_, _), t, d) ==
    /\ AssignableBy(Sub, Instance, t, d)
    /\ Kind(t) = Kind(d) => NothingOverlooked(Sub, t, d)

\* The value v is one of those that the type t stands for, if H says that of the
\* parts of types.  A type parameter stands for any type, so that a generic function
\* takes values of any.
HasBy(H(_, _), t, v) ==
    CASE Kind(t) = "param" -> TRUE
      [] Kind(t) = "json" -> v[1] # "func"
      [] Kind(t) = "union" -> \E m \in ToSet(t[2]) : H(m, v)
      [] Kind(t) \in {"void", "undefined"} -> v[1] = "undefined"
      [] Kind(t) = "array" -> v[1] = "array" /\ \A i \in DOMAIN v[2] : H(t[2], v[2][i])
      [] Kind(t) = "tuple" -> /\ v[1] = "array" /\ Len(v[2]) = Len(t[2])
                              /\ \A i \in DOMAIN v[2] : H(t[2][i], v[2][i])
      [] Kind(t) = "object" -> /\ v[1] = "object" /\ DOMAIN t[2] \subseteq DOMAIN v[2]
                               /\ t[3] = <<>> => DOMAIN v[2] = DOMAIN t[2]
                               /\ \A n \in DOMAIN v[2] : H(PropType(t, n), v[2][n])
      [] Kind(t) = "func" -> /\ v[1] = "func"
                             /\ \A x \in Values : H(t[2][1], x) => x \in v[2]
                             /\ \A x \in v[3] : H(t[3], x)
      [] OTHER -> Kind(t) = v[1] /\ (IsLiteral(t) => t[2] = v[2])

Init ==
    /\ type \in TypeExprs
    /\ first = type
    /\ value \in {v \in Values : Has(type, v)}
    /\ loose = FALSE

Pass == loose' = (loose \/ ~ Strict(type, type'))

\* const y: u = x
Assign ==
    /\ \E u \in TypeExprs : Assignable(type, u) /\ type' = u
    /\ Pass
    /\ UNCHANGED <<value, first>>

\* NewUnion
UnionOf(members) == UnionBy(Same, members)

\* A constant that may hold one thing or another, as in `const y: T | u = x`.
Widen ==
    /\ \E u \in TypeExprs : type' = UnionOf(<<u, type>>) /\ Assignable(type, type')
    /\ type \in TypeExprs
    /\ Pass
    /\ UNCHANGED <<value, first>>

Next == Assign \/ Widen

Spec == Init /\ [][Next]_vars

-----------------------------------------------------------------------------
\* The types that a type is made of.
Parts(t) ==
    CASE Kind(t) = "array" -> {t[2]}
      [] Kind(t) \in {"tuple", "union"} -> ToSet(t[2])
      [] Kind(t) = "func" -> ToSet(t[2]) \cup {t[3]}
      [] Kind(t) = "object" -> Range(t[2]) \cup ({t[3]} \ {<<>>})
      [] OTHER -> {}

\* A set of types with their heights: none is infinite, and none has parts elsewhere.
WellFounded(S, height) ==
    \A t \in S :
        /\ t # <<>> /\ \A p \in Parts(t) : p \in S /\ height[p] < height[t]
        /\ Kind(t) \in {"tuple", "func", "union"} => t[2] \in Seq(S)
        /\ Kind(t) = "func" => Len(t[2]) = 1
        /\ Kind(t) \in {"void", "undefined"} => t = <<Kind(t)>>

\* The relations are what the recursion makes them.
Recursive(S) ==
    /\ \A t, d \in S : Assignable(t, d) <=> AssignableBy(Assignable, Instance, t, d)
    /\ \A t, d \in S : Strict(t, d) <=> StrictBy(Strict, t, d)
    /\ \A t \in S, v \in Values : Has(t, v) <=> HasBy(Has, t, v)

\* So is Type.Equals.
Comparable(S) == \A t, o \in S : Same(t, o) <=> EqualsBy(Same, t, o)

NoGenerics(S) == \A f \in S : Kind(f) = "func" => f[4] = {}

\* A constant holds a value of its type, however the value came there: what a map
\* holds, what functions are given and generic functions are all that is passed over.
HasItsType == loose \/ Has(type, value)

\* What can be reached by several assignments, one alone would do: the checker
\* does not depend on whether a value is given a name on its way.  By way of a map it
\* does: {of: i64} may become a Map<i64> and that a Map<string>, but not at once.
Direct == loose \/ first = type \/ Assignable(first, type)

\* A union has several members: none is a union, and none is there twice.
Flat(t) ==
    IsUnion(t) => /\ Len(t[2]) >= 2
                  /\ \A i \in DOMAIN t[2] : ~ IsUnion(t[2][i])
                  /\ \A i, j \in DOMAIN t[2] : Same(t[2][i], t[2][j]) => i = j

\* What looks at a union member by member (switch, ?, the type guards) sees all it can be.
FlatUnions == Flat(type)
=============================================================================
