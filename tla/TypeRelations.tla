---------------------------- MODULE TypeRelations ----------------------------
(***************************************************************************)
(* The relations between types that the checker computes by recursion.       *)
(***************************************************************************)
EXTENDS Types

RECURSIVE Equals(_, _)
\* Type.Equals
Equals(t, o) == EqualsBy(Equals, t, o)

\* NewUnion
NewUnion(members) == UnionBy(Equals, members)

-----------------------------------------------------------------------------
\* The bindings of type parameters found so far, or that there are none.
Bound(b) == [ok |-> TRUE, is |-> b]
Unbindable == [ok |-> FALSE, is |-> <<>>]

RECURSIVE Bind(_, _, _), BindAll(_, _, _)
BindAll(s, r, b) ==
    IF Len(s) # Len(r) THEN Unbindable
    ELSE LET Next(x, i) == IF x.ok THEN Bind(s[i], r[i], x.is) ELSE x
         IN  FoldLeft(Next, Bound(b), [i \in DOMAIN s |-> i])

\* bindTypeParams
Bind(template, actual, b) ==
    IF template = <<>> \/ actual = <<>> THEN IF template = actual THEN Bound(b) ELSE Unbindable
    ELSE IF Kind(template) = "param"
    THEN IF template[2] \notin DOMAIN b
         THEN Bound([n \in DOMAIN b \cup {template[2]} |-> IF n = template[2] THEN actual ELSE b[n]])
         ELSE IF Equals(actual, b[template[2]]) THEN Bound(b) ELSE Unbindable
    ELSE IF Kind(template) # Kind(actual) THEN Unbindable
    ELSE CASE Kind(template) = "array" -> Bind(template[2], actual[2], b)
           [] Kind(template) \in {"tuple", "union"} -> BindAll(template[2], actual[2], b)
           [] Kind(template) = "func" ->
                BindAll(Append(template[2], template[3]), Append(actual[2], actual[3]), b)
           [] Kind(template) = "object" ->
                LET names == SetToSeq(DOMAIN template[2])
                    Types(t) == [i \in DOMAIN names |-> t[2][names[i]]] \o <<t[3]>>
                IN  IF DOMAIN template[2] # DOMAIN actual[2] THEN Unbindable
                    ELSE BindAll(Types(template), Types(actual), b)
           [] OTHER -> IF Equals(template, actual) THEN Bound(b) ELSE Unbindable

-----------------------------------------------------------------------------
IsInstance(t, d) == Bind(t, d, <<>>).ok

RECURSIVE AssignableTo(_, _)
\* Type.AssignableTo
AssignableTo(t, d) == AssignableBy(AssignableTo, IsInstance, t, d)
=============================================================================
