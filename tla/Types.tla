-------------------------------- MODULE Types --------------------------------
(***************************************************************************)
(* The types of the checker, and what assigning asks of their parts.         *)
(*                                                                         *)
(*   <<"i64">>, <<"bool">>, <<"string">>, <<"json">>, <<"void">>, <<"null">>, *)
(*   <<"undefined">>           and, for a literal, <<"i64", 5>> and so on     *)
(*   <<"array", elem>>, <<"tuple", elems>>, <<"union", members>>              *)
(*   <<"object", props, index>>  props a function from names to types, index   *)
(*                             a type or <<>>; Map<T> has no props             *)
(*   <<"func", params, ret, typeParams>>, <<"param", name>>                   *)
(*                                                                         *)
(* f64 and i32 behave as i64 does and are left out.  <<>> is nil.             *)
(***************************************************************************)
EXTENDS Integers, Sequences, SequencesExt, Functions

Kind(t) == t[1]
Literals == {"i64", "bool", "string"}
IsLiteral(t) == Kind(t) \in Literals /\ Len(t) = 2
I64 == <<"i64">>
Bool == <<"bool">>
String == <<"string">>
Void == <<"void">>
Null == <<"null">>
Undefined == <<"undefined">>
Array(elem) == <<"array", elem>>
Func(params, ret) == <<"func", params, ret, {}>>
Object(props) == <<"object", props, <<>>>>
MapOf(elem) == <<"object", <<>>, elem>>

\* baseType
BaseType(t) == IF t # <<>> /\ IsLiteral(t) THEN <<Kind(t)>> ELSE t

\* Type.PropType
PropType(t, name) == IF name \in DOMAIN t[2] THEN t[2][name] ELSE t[3]

-----------------------------------------------------------------------------
(***************************************************************************)
(* Type.AssignableTo, one level of it: Sub is its call for the parts of the  *)
(* types, Instance is bindTypeParams.  TypeRelations closes the recursion.   *)
(***************************************************************************)
IsUnion(t) == Kind(t) = "union"
IsMap(t) == t[3] # <<>> /\ DOMAIN t[2] = {}

\* Seeded fault (of NoValue): null is taken for no value, too.
NoValueOrNull(t, d) == {Kind(t), Kind(d)} \in {{"void", "undefined"}, {"void", "null"}}

\* Two types of what has no value may take each other's place.
NoValue(t, d) == {Kind(t), Kind(d)} = {"void", "undefined"}

\* Seeded fault (of LiteralFits): the values of two literals are not compared.
LiteralOfKind(t, d) == TRUE

\* A literal may become its type, or itself.
LiteralFits(t, d) == ~ IsLiteral(d) \/ t = d

AllFit(Sub(_, _), s, r) == Len(s) = Len(r) /\ \A i \in DOMAIN s : Sub(s[i], r[i])

\* Types of one kind, not literals.  The parameters of functions are compared as
\* their results are, and whatever has no properties may become a map of anything.
\* Types without parts fit if they are the same (Type.Equals).
PartsFit(Sub(_, _), Instance(_, _), t, d) ==
    CASE Kind(t) = "array" -> Sub(t[2], d[2])
      [] Kind(t) = "tuple" -> AllFit(Sub, t[2], d[2])
      [] Kind(t) = "func" -> IF t[4] # {} THEN Instance(t, d) ELSE AllFit(Sub, t[2], d[2]) /\ Sub(t[3], d[3])
      [] Kind(t) = "object" -> IF IsMap(d) THEN \A n \in DOMAIN t[2] : Sub(t[2][n], d[3])
                               ELSE /\ DOMAIN t[2] = DOMAIN d[2] /\ (t[3] = <<>> <=> d[3] = <<>>)
                                    /\ t[3] # <<>> => Sub(t[3], d[3])
                                    /\ \A n \in DOMAIN t[2] : Sub(t[2][n], d[2][n])
      [] OTHER -> t = d

AssignableBy(Sub(_, _), Instance(_, _), t, d) ==
    /\ t # <<>> /\ d # <<>>
    /\ \/ NoValue(t, d)
       \/ IsUnion(t) /\ IsUnion(d) /\ \A m \in ToSet(t[2]) : \E x \in ToSet(d[2]) : Sub(m, x)
       \/ IsUnion(t) /\ ~ IsUnion(d) /\ \A m \in ToSet(t[2]) : Sub(m, d)
       \/ ~ IsUnion(t) /\ IsUnion(d) /\ \E x \in ToSet(d[2]) : Sub(t, x)
       \/ /\ ~ IsUnion(t) /\ Kind(t) = Kind(d)
          /\ IF IsLiteral(t) THEN LiteralFits(t, d) ELSE ~ IsLiteral(d) /\ PartsFit(Sub, Instance, t, d)

-----------------------------------------------------------------------------
(***************************************************************************)
(* Type.Equals, one level of it: Eq is its call for the parts of the types.    *)
(* The members of a union may stand in any order.                            *)
(***************************************************************************)
EqualsBy(Eq(_, _), t, o) ==
    IF t = <<>> \/ o = <<>> \/ Kind(t) # Kind(o) THEN t = o
    ELSE CASE Kind(t) = "array"  -> Eq(t[2], o[2])
           [] Kind(t) = "tuple"  -> AllFit(Eq, t[2], o[2])
           [] Kind(t) = "func"   -> AllFit(Eq, t[2], o[2]) /\ Eq(t[3], o[3])
           [] Kind(t) = "object" -> /\ DOMAIN t[2] = DOMAIN o[2]
                                    /\ \A n \in DOMAIN t[2] : Eq(t[2][n], o[2][n])
                                    /\ t[3] = <<>> <=> o[3] = <<>>
                                    /\ t[3] # <<>> => Eq(t[3], o[3])
           [] Kind(t) = "union"  -> /\ Len(t[2]) = Len(o[2])
                                    /\ \A m \in ToSet(t[2]) : \E x \in ToSet(o[2]) : Eq(m, x)
           [] OTHER -> t = o

-----------------------------------------------------------------------------
\* Seeded fault (of MembersOf): a union is not taken apart.
MemberItself(t) == IF t = <<>> THEN <<>> ELSE <<t>>

\* What a type adds to the union that it becomes a part of.
MembersOf(t) == IF t = <<>> THEN <<>> ELSE IF IsUnion(t) THEN t[2] ELSE <<t>>

\* The members of all these types, one after the other.
Flatten(members) ==
    LET flat[n \in 0 .. Len(members)] == IF n = 0 THEN <<>> ELSE flat[n - 1] \o MembersOf(members[n])
    IN  flat[Len(members)]

\* Each of the types once, where Same says which of them are the same.
UniqueBy(Same(_, _), types) ==
    LET unique[n \in 0 .. Len(types)] ==
            IF n = 0 THEN <<>>
            ELSE IF \E x \in ToSet(unique[n - 1]) : Same(types[n], x) THEN unique[n - 1]
            ELSE Append(unique[n - 1], types[n])
    IN  unique[Len(types)]

\* NewUnion
UnionBy(Same(_, _), members) ==
    LET unique == UniqueBy(Same, Flatten(members))
    IN  CASE unique = <<>> -> <<>> [] Len(unique) = 1 -> unique[1] [] OTHER -> <<"union", unique>>
=============================================================================
