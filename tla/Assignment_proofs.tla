-------------------------- MODULE Assignment_proofs --------------------------
(***************************************************************************)
(* Proofs about Assignment: what the checker lets one constant take from      *)
(* another is sound and transitive as long as nothing it passes over matters,  *)
(* for any set of types on which the relations are what their recursion makes  *)
(* them.  Types are finite, and so the proofs are by induction on their         *)
(* heights.                                                                  *)
(***************************************************************************)
EXTENDS Assignment, TLAPS, FiniteSetTheorems, SequenceTheorems, WellFoundedInduction

-----------------------------------------------------------------------------
\* Every set of numbers that is not empty has a smallest one.
LEMMA SmallestOf ==
  ASSUME NEW N \in SUBSET Nat, N # {}
  PROVE  \E x \in N : \A y \in N : x <= y
<1>1. IsWellFoundedOn(OpToRel(<, Nat), Nat)
  BY NatLessThanWellFounded
<1>2. PICK x \in N : \A y \in N : ~ (<<y, x>> \in OpToRel(<, Nat))
  BY <1>1, WFMin
<1>3. \A m, n \in Nat : m < n => <<m, n>> \in OpToRel(<, Nat)
  BY Zenon DEF OpToRel
<1>4. ASSUME NEW y \in N PROVE x <= y
  <2>1. x \in Nat /\ y \in Nat
    OBVIOUS
  <2>2. ~ (y < x)
    BY <1>2, <1>3, <2>1, Zenon
  <2>3. QED
    BY <2>1, <2>2
<1>5. QED
  BY <1>4

\* A set of numbers that has 0, and with each number up to m the next, has them all.
LEMMA UpTo ==
  ASSUME NEW m \in Nat, NEW P, 0 \in P, \A n \in 0 .. m - 1 : n \in P => n + 1 \in P
  PROVE  \A n \in 0 .. m : n \in P
<1> DEFINE Missing == {n \in 0 .. m : n \notin P}
<1>1. SUFFICES ASSUME Missing # {} PROVE FALSE
  OBVIOUS
<1>2. PICK n \in Missing : \A k \in Missing : n <= k
  <2>1. Missing \in SUBSET Nat
    OBVIOUS
  <2> HIDE DEF Missing
  <2>2. QED
    BY <1>1, <2>1, SmallestOf
<1>3. n \in 0 .. m /\ n \notin P /\ n # 0
  OBVIOUS
<1>4. n - 1 \in 0 .. m - 1 /\ n - 1 \notin Missing
  BY <1>2, <1>3
<1>5. QED
  BY <1>3, <1>4

\* Each step makes the next value of the one before.
Iterates(f, m, x0, step) == f[0] = x0 /\ \A n \in 1 .. m : f[n] = step[n][f[n - 1]]

\* Whatever the steps are, some function goes through them.
LEMMA StepByStep ==
  ASSUME NEW m \in Nat, NEW X, NEW x0 \in X, NEW step \in [1 .. m -> [X -> X]]
  PROVE  \E f \in [0 .. m -> X] : Iterates(f, m, x0, step)
<1> DEFINE Upto(n) == {f \in [0 .. n -> X] : Iterates(f, n, x0, step)}
           P == {n \in 0 .. m : Upto(n) # {}}
<1>1. 0 \in P
  <2>1. [k \in 0 .. 0 |-> x0] \in Upto(0)
    BY DEF Iterates
  <2>2. QED
    BY <2>1
<1>2. ASSUME NEW n \in 0 .. m - 1, n \in P PROVE n + 1 \in P
  <2>1. PICK f \in Upto(n) : TRUE
    BY <1>2
  <2> DEFINE g == [k \in 0 .. n + 1 |-> IF k = n + 1 THEN step[n + 1][f[n]] ELSE f[k]]
  <2>2. g \in Upto(n + 1)
    <3>1. step[n + 1][f[n]] \in X
      OBVIOUS
    <3>2. g \in [0 .. n + 1 -> X]
      BY <3>1
    <3>3. g[0] = x0
      BY DEF Iterates
    <3>4. ASSUME NEW k \in 1 .. n + 1 PROVE g[k] = step[k][g[k - 1]]
      <4>1. g[k - 1] = f[k - 1]
        BY <3>4
      <4>2. CASE k = n + 1
        BY <4>1, <4>2
      <4>3. CASE k # n + 1
        BY <4>1, <4>3 DEF Iterates
      <4>4. QED
        BY <4>2, <4>3
    <3>5. QED
      BY <3>2, <3>3, <3>4 DEF Iterates
  <2>3. QED
    BY <2>2
<1>3. m \in P
  <2>1. \A n \in 0 .. m - 1 : n \in P => n + 1 \in P
    BY <1>2
  <2> HIDE DEF P
  <2>2. \A n \in 0 .. m : n \in P
    BY <1>1, <2>1, UpTo, Zenon
  <2>3. QED
    BY <2>2
<1>4. QED
  BY <1>3

\* A sequence whose elements are all of one set is a sequence of that set.
LEMMA SeqOfElements ==
  ASSUME NEW S, NEW s \in Seq(S), NEW T, \A i \in DOMAIN s : s[i] \in T
  PROVE  s \in Seq(T)
<1>1. s \in [1 .. Len(s) -> S] /\ Len(s) \in Nat /\ DOMAIN s = 1 .. Len(s)
  BY LenProperties
<1>2. s \in [1 .. Len(s) -> T]
  BY <1>1
<1>3. QED
  BY <1>1, <1>2, SeqDef

-----------------------------------------------------------------------------
\* What a type is made of is all among some types, and so is each of its parts.
LEMMA PartsAreAmong ==
  ASSUME NEW S, NEW height \in [S -> Nat], WellFounded(S, height), NEW t \in S, NEW T, Parts(t) \subseteq T
  PROVE  /\ Kind(t) = "array" => t[2] \in T
         /\ Kind(t) \in {"tuple", "func", "union"} =>
               /\ Len(t[2]) \in Nat /\ DOMAIN t[2] = 1 .. Len(t[2])
               /\ \A i \in DOMAIN t[2] : t[2][i] \in T
         /\ Kind(t) = "func" => t[3] \in T
         /\ Kind(t) = "object" => /\ \A n \in DOMAIN t[2] : t[2][n] \in T
                                  /\ t[3] # <<>> => t[3] \in T
<1>1. CASE Kind(t) = "array"
  BY <1>1 DEF Parts
<1>2. CASE Kind(t) \in {"tuple", "func", "union"}
  <2>1. t[2] \in Seq(S)
    BY <1>2 DEF WellFounded
  <2>2. DOMAIN t[2] = 1 .. Len(t[2]) /\ Len(t[2]) \in Nat
    BY <2>1, LenProperties
  <2>3. ToSet(t[2]) \subseteq T /\ (Kind(t) = "func" => t[3] \in T)
    BY <1>2 DEF Parts
  <2>4. \A i \in DOMAIN t[2] : t[2][i] \in ToSet(t[2])
    BY DEF ToSet
  <2>5. QED
    BY <1>2, <2>2, <2>3, <2>4
<1>3. CASE Kind(t) = "object"
  <2>1. Parts(t) = Range(t[2]) \cup ({t[3]} \ {<<>>})
    BY <1>3 DEF Parts
  <2>2. \A n \in DOMAIN t[2] : t[2][n] \in Range(t[2])
    BY DEF Range
  <2>3. QED
    BY <1>3, <2>1, <2>2
<1>4. QED
  BY <1>1, <1>2, <1>3

\* A part of a type is one of the types, and smaller.
LEMMA PartsAreSmaller ==
  ASSUME NEW S, NEW height \in [S -> Nat], WellFounded(S, height), NEW t \in S
  PROVE  /\ Kind(t) = "array" => t[2] \in S /\ height[t[2]] < height[t]
         /\ Kind(t) \in {"tuple", "union"} => \A m \in ToSet(t[2]) : m \in S /\ height[m] < height[t]
         /\ Kind(t) \in {"tuple", "func"} =>
               /\ DOMAIN t[2] = 1 .. Len(t[2]) /\ Len(t[2]) \in Nat
               /\ \A i \in DOMAIN t[2] : t[2][i] \in S /\ height[t[2][i]] < height[t]
         /\ Kind(t) = "func" => /\ t[3] \in S /\ height[t[3]] < height[t]
         /\ Kind(t) = "object" => /\ \A n \in DOMAIN t[2] : t[2][n] \in S /\ height[t[2][n]] < height[t]
                                  /\ t[3] # <<>> => t[3] \in S /\ height[t[3]] < height[t]
<1> DEFINE T == {p \in S : height[p] < height[t]}
<1>1. Parts(t) \subseteq T
  BY DEF WellFounded
<1>2. \A p \in T : p \in S /\ height[p] < height[t]
  OBVIOUS
<1> HIDE DEF T
<1>3. Kind(t) \in {"tuple", "union"} => \A m \in ToSet(t[2]) : m \in T
  BY <1>1 DEF Parts
<1>4. QED
  BY <1>1, <1>2, <1>3, PartsAreAmong

-----------------------------------------------------------------------------
(***************************************************************************)
(* A constant may take a value only if its type stands for the value, where    *)
(* nothing is passed over.                                                   *)
(***************************************************************************)
Fits(t, d) == Strict(t, d) => \A v \in Values : Has(t, v) => Has(d, v)

\* Types of one kind: if what is asked of their parts is sound, it is of the types.
LEMMA PartsFitSoundly ==
  ASSUME NEW S, NEW height \in [S -> Nat], WellFounded(S, height),
         NEW t \in S, NEW d \in S, Kind(t) = Kind(d), Kind(t) # "union",
         \A x, y \in S : height[x] + height[y] < height[t] + height[d] => Fits(x, y),
         PartsFit(Strict, Instance, t, d), NothingOverlooked(Strict, t, d), ~ IsLiteral(t), ~ IsLiteral(d),
         NEW v \in Values, HasBy(Has, t, v)
  PROVE  HasBy(Has, d, v)
<1> USE ValuesAssumption
<1>1. CASE Kind(t) = "array"
  <2>1. t[2] \in S /\ d[2] \in S /\ height[t[2]] < height[t] /\ height[d[2]] < height[d]
    BY <1>1, PartsAreSmaller
  <2>2. Fits(t[2], d[2])
    BY <2>1
  <2>3. Strict(t[2], d[2])
    BY <1>1 DEF PartsFit
  <2>4. v[1] = "array" /\ \A i \in DOMAIN v[2] : Has(t[2], v[2][i])
    BY <1>1 DEF HasBy
  <2>5. \A i \in DOMAIN v[2] : v[2][i] \in Values
    BY <2>4, ElementOfSeq, LenProperties
  <2>6. \A i \in DOMAIN v[2] : Has(d[2], v[2][i])
    BY <2>2, <2>3, <2>4, <2>5 DEF Fits
  <2>7. QED
    BY <1>1, <2>4, <2>6 DEF HasBy
<1>2. CASE Kind(t) = "tuple"
  <2>1. /\ DOMAIN t[2] = 1 .. Len(t[2]) /\ DOMAIN d[2] = 1 .. Len(d[2])
        /\ \A i \in DOMAIN t[2] : t[2][i] \in S /\ height[t[2][i]] < height[t]
        /\ \A i \in DOMAIN d[2] : d[2][i] \in S /\ height[d[2][i]] < height[d]
    BY <1>2, PartsAreSmaller
  <2>2. Len(t[2]) = Len(d[2]) /\ \A i \in DOMAIN t[2] : Strict(t[2][i], d[2][i])
    BY <1>2 DEF PartsFit, AllFit
  <2>3. /\ v[1] = "array" /\ Len(v[2]) = Len(t[2])
        /\ \A i \in DOMAIN v[2] : Has(t[2][i], v[2][i])
    BY <1>2 DEF HasBy
  <2>4. DOMAIN v[2] = 1 .. Len(v[2]) /\ \A i \in DOMAIN v[2] : v[2][i] \in Values
    BY <2>3, ElementOfSeq, LenProperties
  <2>5. ASSUME NEW i \in DOMAIN v[2] PROVE Has(d[2][i], v[2][i])
    <3>1. i \in DOMAIN t[2] /\ i \in DOMAIN d[2]
      BY <2>1, <2>2, <2>3, <2>4
    <3>2. Fits(t[2][i], d[2][i])
      BY <2>1, <3>1
    <3>3. QED
      BY <2>2, <2>3, <2>4, <3>1, <3>2 DEF Fits
  <2>6. QED
    BY <1>2, <2>2, <2>3, <2>5 DEF HasBy
<1>3. CASE Kind(t) = "func"
  <2>1. /\ t[3] \in S /\ d[3] \in S /\ height[t[3]] < height[t] /\ height[d[3]] < height[d]
        /\ t[2][1] \in S /\ d[2][1] \in S /\ height[t[2][1]] < height[t] /\ height[d[2][1]] < height[d]
        /\ 1 \in DOMAIN d[2]
    <3>1. Len(t[2]) = 1 /\ Len(d[2]) = 1
      BY <1>3 DEF WellFounded
    <3>2. 1 \in DOMAIN t[2] /\ 1 \in DOMAIN d[2]
      BY <1>3, <3>1, PartsAreSmaller
    <3>3. QED
      BY <1>3, <3>2, PartsAreSmaller
  <2>2. t[4] = {} /\ AllFit(Strict, d[2], t[2])
    BY <1>3 DEF NothingOverlooked
  <2>3. Strict(t[3], d[3]) /\ Strict(d[2][1], t[2][1])
    BY <1>3, <2>1, <2>2 DEF PartsFit, AllFit
  <2>4. /\ v[1] = "func"
        /\ \A x \in Values : Has(t[2][1], x) => x \in v[2]
        /\ \A x \in v[3] : Has(t[3], x)
    BY <1>3 DEF HasBy
  <2>5. Fits(t[3], d[3]) /\ Fits(d[2][1], t[2][1])
    <3> DEFINE x == t[3]
               y == d[3]
               q == t[2][1]
               r == d[2][1]
    <3>1. /\ x \in S /\ y \in S /\ height[x] < height[t] /\ height[y] < height[d]
          /\ q \in S /\ r \in S /\ height[q] < height[t] /\ height[r] < height[d]
      BY <2>1
    <3> HIDE DEF x, y, q, r
    <3>2. Fits(x, y) /\ Fits(r, q)
      BY <3>1
    <3>3. QED
      BY <3>2 DEF x, y, q, r
  <2>6. \A x \in v[3] : Has(d[3], x)
    BY <2>3, <2>4, <2>5 DEF Fits
  <2>7. \A x \in Values : Has(d[2][1], x) => x \in v[2]
    BY <2>3, <2>4, <2>5 DEF Fits
  <2>8. QED
    BY <1>3, <2>4, <2>6, <2>7 DEF HasBy
<1>4. CASE Kind(t) = "object"
  <2>1. /\ \A n \in DOMAIN t[2] : t[2][n] \in S /\ height[t[2][n]] < height[t]
        /\ \A n \in DOMAIN d[2] : d[2][n] \in S /\ height[d[2][n]] < height[d]
        /\ t[3] # <<>> => t[3] \in S /\ height[t[3]] < height[t]
        /\ d[3] # <<>> => d[3] \in S /\ height[d[3]] < height[d]
    BY <1>4, PartsAreSmaller
  <2>2. /\ v[1] = "object" /\ DOMAIN t[2] \subseteq DOMAIN v[2]
        /\ t[3] = <<>> => DOMAIN v[2] = DOMAIN t[2]
        /\ \A n \in DOMAIN v[2] : Has(PropType(t, n), v[2][n])
    BY <1>4 DEF HasBy
  <2>3. \A n \in DOMAIN v[2] : v[2][n] \in Values
    BY <2>2
  <2>4. /\ DOMAIN d[2] \subseteq DOMAIN t[2] /\ (d[3] = <<>> => t[3] = <<>> /\ DOMAIN t[2] = DOMAIN d[2])
        /\ t[3] # <<>> => Strict(t[3], d[3])
        /\ \A n \in DOMAIN t[2] : Strict(t[2][n], PropType(d, n))
    <3>1. CASE IsMap(d)
      <4>1. /\ \A n \in DOMAIN t[2] : Strict(t[2][n], d[3])
            /\ t[3] # <<>> => Strict(t[3], d[3])
        BY <1>4, <3>1 DEF PartsFit, NothingOverlooked
      <4>2. d[3] # <<>> /\ DOMAIN d[2] = {}
        BY <3>1 DEF IsMap
      <4>3. QED
        BY <4>1, <4>2 DEF PropType
    <3>2. CASE ~ IsMap(d)
      <4>1. /\ DOMAIN t[2] = DOMAIN d[2] /\ (t[3] = <<>> <=> d[3] = <<>>)
            /\ t[3] # <<>> => Strict(t[3], d[3])
            /\ \A n \in DOMAIN t[2] : Strict(t[2][n], d[2][n])
        BY <1>4, <3>2 DEF PartsFit
      <4>2. QED
        BY <4>1 DEF PropType
    <3>3. QED
      BY <3>1, <3>2
  <2>5. ASSUME NEW n \in DOMAIN v[2] PROVE Has(PropType(d, n), v[2][n])
    <3> DEFINE q == PropType(t, n)
               r == PropType(d, n)
    <3>1. CASE n \in DOMAIN t[2]
      <4>1. q = t[2][n] /\ q \in S /\ height[q] < height[t] /\ Strict(q, r)
        BY <2>1, <2>4, <3>1 DEF PropType
      <4>2. r \in S /\ height[r] < height[d]
        BY <2>1, <2>4, <3>1 DEF PropType
      <4> HIDE DEF q, r
      <4>3. Fits(q, r)
        BY <4>1, <4>2
      <4>4. QED
        BY <2>2, <2>3, <4>1, <4>3 DEF Fits, q, r
    <3>2. CASE n \notin DOMAIN t[2]
      <4>1. t[3] # <<>> /\ d[3] # <<>> /\ q = t[3] /\ r = d[3]
        BY <2>2, <2>4, <3>2 DEF PropType
      <4>2. q \in S /\ height[q] < height[t] /\ r \in S /\ height[r] < height[d] /\ Strict(q, r)
        BY <2>1, <2>4, <4>1
      <4> HIDE DEF q, r
      <4>3. Fits(q, r)
        BY <4>2
      <4>4. QED
        BY <2>2, <2>3, <4>2, <4>3 DEF Fits, q, r
    <3>3. QED
      BY <3>1, <3>2
  <2>6. QED
    BY <1>4, <2>2, <2>4, <2>5 DEF HasBy
<1>5. CASE Kind(t) \notin {"array", "tuple", "func", "object"}
  BY <1>5 DEF PartsFit
<1>6. QED
  BY <1>1, <1>2, <1>3, <1>4, <1>5

\* One level of Strict.
LEMMA SoundAtOneLevel ==
  ASSUME NEW S, NEW height \in [S -> Nat], WellFounded(S, height), Recursive(S),
         NEW t \in S, NEW d \in S,
         \A x, y \in S : height[x] + height[y] < height[t] + height[d] => Fits(x, y)
  PROVE  Fits(t, d)
<1> SUFFICES ASSUME Strict(t, d), NEW v \in Values, Has(t, v) PROVE Has(d, v)
  BY DEF Fits
<1>1. StrictBy(Strict, t, d) /\ HasBy(Has, t, v)
  BY DEF Recursive
<1>2. SUFFICES HasBy(Has, d, v)
  BY DEF Recursive
<1>3. /\ Kind(t) = "union" => \A m \in ToSet(t[2]) : m \in S /\ height[m] < height[t]
      /\ Kind(d) = "union" => \A m \in ToSet(d[2]) : m \in S /\ height[m] < height[d]
  BY PartsAreSmaller
<1>4. Kind(t) = "union" => \E m \in ToSet(t[2]) : Has(m, v)
  BY <1>1 DEF HasBy
<1>5. Kind(d) = "union" => (HasBy(Has, d, v) <=> \E m \in ToSet(d[2]) : Has(m, v))
  BY DEF HasBy
<1>6. CASE NoValue(t, d)
  BY <1>1, <1>6 DEF NoValue, HasBy
<1>7. CASE IsUnion(t) /\ IsUnion(d) /\ \A m \in ToSet(t[2]) : \E x \in ToSet(d[2]) : Strict(m, x)
  <2>1. PICK m \in ToSet(t[2]) : Has(m, v)
    BY <1>4, <1>7 DEF IsUnion
  <2>2. PICK x \in ToSet(d[2]) : Strict(m, x)
    BY <1>7
  <2>3. Fits(m, x)
    BY <1>3, <1>7 DEF IsUnion
  <2>4. QED
    BY <1>5, <1>7, <2>1, <2>2, <2>3 DEF Fits, IsUnion
<1>8. CASE IsUnion(t) /\ ~ IsUnion(d) /\ \A m \in ToSet(t[2]) : Strict(m, d)
  <2>1. PICK m \in ToSet(t[2]) : Has(m, v)
    BY <1>4, <1>8 DEF IsUnion
  <2>2. Fits(m, d)
    BY <1>3, <1>8 DEF IsUnion
  <2>3. Has(d, v)
    BY <1>8, <2>1, <2>2 DEF Fits
  <2>4. QED
    BY <2>3 DEF Recursive
<1>9. CASE ~ IsUnion(t) /\ IsUnion(d) /\ \E x \in ToSet(d[2]) : Strict(t, x)
  <2>1. PICK x \in ToSet(d[2]) : Strict(t, x)
    BY <1>9
  <2>2. Fits(t, x)
    BY <1>3, <1>9 DEF IsUnion
  <2>3. QED
    BY <1>5, <1>9, <2>1, <2>2 DEF Fits, IsUnion
<1>10. CASE ~ IsUnion(t) /\ Kind(t) = Kind(d) /\ IsLiteral(t) /\ LiteralFits(t, d)
  BY <1>1, <1>10 DEF LiteralFits, HasBy, IsLiteral, Literals
<1>11. CASE /\ ~ IsUnion(t) /\ Kind(t) = Kind(d) /\ ~ IsLiteral(t) /\ ~ IsLiteral(d)
            /\ PartsFit(Strict, Instance, t, d)
  <2>1. NothingOverlooked(Strict, t, d)
    BY <1>1, <1>11 DEF StrictBy
  <2>2. QED
    BY <1>1, <1>11, <2>1, PartsFitSoundly DEF IsUnion
<1>12. QED
  BY <1>1, <1>6, <1>7, <1>8, <1>9, <1>10, <1>11 DEF StrictBy, AssignableBy

\* Strict, by induction on the heights of both types.
LEMMA StrictIsSound ==
  ASSUME NEW S, NEW height \in [S -> Nat], WellFounded(S, height), Recursive(S)
  PROVE  \A t, d \in S : Fits(t, d)
<1> DEFINE Wrong == {n \in Nat : \E t, d \in S : n = height[t] + height[d] /\ ~ Fits(t, d)}
<1>1. SUFFICES ASSUME Wrong # {} PROVE FALSE
  OBVIOUS
<1>2. PICK n \in Wrong : \A m \in Wrong : n <= m
  <2>1. Wrong \in SUBSET Nat
    OBVIOUS
  <2> HIDE DEF Wrong
  <2>2. QED
    BY <1>1, <2>1, SmallestOf
<1>3. PICK t \in S, d \in S : n = height[t] + height[d] /\ ~ Fits(t, d)
  OBVIOUS
<1>4. ASSUME NEW x \in S, NEW y \in S, height[x] + height[y] < height[t] + height[d] PROVE Fits(x, y)
  <2>1. height[x] + height[y] \in Nat /\ n \in Nat
    OBVIOUS
  <2>2. ~ (n <= height[x] + height[y])
    BY <1>3, <1>4, <2>1
  <2>3. height[x] + height[y] \notin Wrong
    BY <1>2, <2>2
  <2>4. QED
    BY <2>1, <2>3
<1>5. Fits(t, d)
  BY <1>4, SoundAtOneLevel
<1>6. QED
  BY <1>3, <1>5

-----------------------------------------------------------------------------
(***************************************************************************)
(* What can be assigned by way of a third constant can be assigned at once,   *)
(* where nothing is passed over.                                             *)
(***************************************************************************)
Goes(t, d, e) == Strict(t, d) /\ Strict(d, e) => Strict(t, e)

\* Types of one kind: if what is asked of their parts is transitive, it is of the types.
LEMMA PartsFitAtOnce ==
  ASSUME NEW S, NEW height \in [S -> Nat], WellFounded(S, height),
         NEW t \in S, NEW d \in S, NEW e \in S, Kind(t) = Kind(d), Kind(d) = Kind(e), Kind(t) # "union",
         \A x, y, z \in S : height[x] + height[y] + height[z] < height[t] + height[d] + height[e] => Goes(x, y, z),
         PartsFit(Strict, Instance, t, d), NothingOverlooked(Strict, t, d),
         PartsFit(Strict, Instance, d, e), NothingOverlooked(Strict, d, e)
  PROVE  PartsFit(Strict, Instance, t, e) /\ NothingOverlooked(Strict, t, e)
<1>0. ASSUME NEW x, NEW y, NEW z, x \in S, y \in S, z \in S,
             height[x] < height[t], height[y] < height[d], height[z] < height[e]
      PROVE  Goes(x, y, z) /\ Goes(z, y, x)
  <2>1. height[x] + height[y] + height[z] < height[t] + height[d] + height[e]
    BY <1>0
  <2>2. height[z] + height[y] + height[x] < height[t] + height[d] + height[e]
    BY <1>0
  <2>3. QED
    BY <1>0, <2>1, <2>2
<1>1. CASE Kind(t) = "array"
  <2>1. /\ t[2] \in S /\ d[2] \in S /\ e[2] \in S
        /\ height[t[2]] < height[t] /\ height[d[2]] < height[d] /\ height[e[2]] < height[e]
    BY <1>1, PartsAreSmaller
  <2>2. Goes(t[2], d[2], e[2])
    BY <1>0, <2>1
  <2>3. QED
    BY <1>1, <2>2 DEF PartsFit, NothingOverlooked, Goes
<1>2. CASE Kind(t) = "tuple"
  <2>1. /\ DOMAIN t[2] = 1 .. Len(t[2]) /\ DOMAIN d[2] = 1 .. Len(d[2]) /\ DOMAIN e[2] = 1 .. Len(e[2])
        /\ \A i \in DOMAIN t[2] : t[2][i] \in S /\ height[t[2][i]] < height[t]
        /\ \A i \in DOMAIN d[2] : d[2][i] \in S /\ height[d[2][i]] < height[d]
        /\ \A i \in DOMAIN e[2] : e[2][i] \in S /\ height[e[2][i]] < height[e]
    BY <1>2, PartsAreSmaller
  <2>2. AllFit(Strict, t[2], d[2]) /\ AllFit(Strict, d[2], e[2])
    BY <1>2 DEF PartsFit
  <2>3. Len(t[2]) = Len(d[2]) /\ Len(d[2]) = Len(e[2])
    BY <2>2 DEF AllFit
  <2>4. ASSUME NEW i \in DOMAIN t[2] PROVE Strict(t[2][i], e[2][i])
    <3>1. i \in DOMAIN d[2] /\ i \in DOMAIN e[2]
      BY <2>1, <2>3
    <3> DEFINE x == t[2][i]
               y == d[2][i]
               z == e[2][i]
    <3>2. x \in S /\ y \in S /\ z \in S /\ height[x] < height[t] /\ height[y] < height[d] /\ height[z] < height[e]
      BY <2>1, <3>1
    <3> HIDE DEF x, y, z
    <3>3. Goes(x, y, z)
      BY <1>0, <3>2
    <3>4. QED
      BY <2>2, <3>1, <3>3 DEF AllFit, Goes, x, y, z
  <2>5. QED
    BY <1>2, <2>3, <2>4 DEF PartsFit, NothingOverlooked, AllFit
<1>3. CASE Kind(t) = "func"
  <2>1. /\ t[3] \in S /\ d[3] \in S /\ e[3] \in S
        /\ height[t[3]] < height[t] /\ height[d[3]] < height[d] /\ height[e[3]] < height[e]
        /\ DOMAIN t[2] = 1 .. Len(t[2]) /\ DOMAIN d[2] = 1 .. Len(d[2]) /\ DOMAIN e[2] = 1 .. Len(e[2])
        /\ \A i \in DOMAIN t[2] : t[2][i] \in S /\ height[t[2][i]] < height[t]
        /\ \A i \in DOMAIN d[2] : d[2][i] \in S /\ height[d[2][i]] < height[d]
        /\ \A i \in DOMAIN e[2] : e[2][i] \in S /\ height[e[2][i]] < height[e]
    BY <1>3, PartsAreSmaller
  <2>2. /\ t[4] = {} /\ AllFit(Strict, d[2], t[2])
        /\ d[4] = {} /\ AllFit(Strict, e[2], d[2])
    BY <1>3 DEF NothingOverlooked
  <2>3. /\ AllFit(Strict, t[2], d[2]) /\ Strict(t[3], d[3])
        /\ AllFit(Strict, d[2], e[2]) /\ Strict(d[3], e[3])
    BY <1>3, <2>2 DEF PartsFit
  <2>4. Goes(t[3], d[3], e[3])
    BY <1>0, <2>1
  <2>5. Len(t[2]) = Len(d[2]) /\ Len(d[2]) = Len(e[2])
    BY <2>3 DEF AllFit
  <2>6. ASSUME NEW i \in DOMAIN t[2] PROVE Strict(t[2][i], e[2][i]) /\ Strict(e[2][i], t[2][i])
    <3>1. i \in DOMAIN d[2] /\ i \in DOMAIN e[2]
      BY <2>1, <2>5
    <3> DEFINE x == t[2][i]
               y == d[2][i]
               z == e[2][i]
    <3>2. x \in S /\ y \in S /\ z \in S /\ height[x] < height[t] /\ height[y] < height[d] /\ height[z] < height[e]
      BY <2>1, <3>1
    <3>3. Strict(x, y) /\ Strict(y, z) /\ Strict(y, x) /\ Strict(z, y)
      BY <2>2, <2>3, <3>1 DEF AllFit
    <3> HIDE DEF x, y, z
    <3>4. Goes(x, y, z) /\ Goes(z, y, x)
      BY <1>0, <3>2
    <3>5. QED
      BY <3>3, <3>4 DEF Goes, x, y, z
  <2>7. AllFit(Strict, t[2], e[2]) /\ AllFit(Strict, e[2], t[2])
    BY <2>1, <2>5, <2>6 DEF AllFit
  <2>8. QED
    BY <1>3, <2>2, <2>3, <2>4, <2>7 DEF PartsFit, NothingOverlooked, Goes
<1>4. CASE Kind(t) = "object"
  <2>1. /\ \A n \in DOMAIN t[2] : t[2][n] \in S /\ height[t[2][n]] < height[t]
        /\ \A n \in DOMAIN d[2] : d[2][n] \in S /\ height[d[2][n]] < height[d]
        /\ \A n \in DOMAIN e[2] : e[2][n] \in S /\ height[e[2][n]] < height[e]
        /\ t[3] # <<>> => t[3] \in S /\ height[t[3]] < height[t]
        /\ d[3] # <<>> => d[3] \in S /\ height[d[3]] < height[d]
        /\ e[3] # <<>> => e[3] \in S /\ height[e[3]] < height[e]
    BY <1>4, PartsAreSmaller
  <2>2. ASSUME t[3] # <<>>, Strict(t[3], d[3]), d[3] # <<>>, Strict(d[3], e[3]), e[3] # <<>>
        PROVE  Strict(t[3], e[3])
    <3>1. Goes(t[3], d[3], e[3])
      BY <1>0, <2>1, <2>2
    <3>2. QED
      BY <2>2, <3>1 DEF Goes
  <2>3. CASE IsMap(d)
    <3>1. /\ \A n \in DOMAIN t[2] : Strict(t[2][n], d[3])
          /\ t[3] # <<>> => Strict(t[3], d[3])
      BY <1>4, <2>3 DEF PartsFit, NothingOverlooked
    <3>2. d[3] # <<>> /\ DOMAIN d[2] = {}
      BY <2>3 DEF IsMap
    <3>3. IsMap(e)
      BY <1>4, <3>2 DEF PartsFit, IsMap
    <3>4. e[3] # <<>> /\ Strict(d[3], e[3])
      BY <1>4, <2>3, <3>2, <3>3 DEF NothingOverlooked, IsMap
    <3>5. ASSUME NEW n \in DOMAIN t[2] PROVE Strict(t[2][n], e[3])
      <4>1. Goes(t[2][n], d[3], e[3])
        BY <1>0, <2>1, <3>2, <3>4
      <4>2. QED
        BY <3>1, <3>4, <4>1 DEF Goes
    <3>6. t[3] # <<>> => Strict(t[3], e[3])
      BY <2>2, <3>1, <3>2, <3>4
    <3>7. QED
      BY <1>4, <3>3, <3>5, <3>6 DEF PartsFit, NothingOverlooked
  <2>4. CASE ~ IsMap(d)
    <3>1. /\ DOMAIN t[2] = DOMAIN d[2] /\ (t[3] = <<>> <=> d[3] = <<>>)
          /\ t[3] # <<>> => Strict(t[3], d[3])
          /\ \A n \in DOMAIN t[2] : Strict(t[2][n], d[2][n])
      BY <1>4, <2>4 DEF PartsFit
    <3>2. CASE IsMap(e)
      <4>1. /\ e[3] # <<>> /\ \A n \in DOMAIN d[2] : Strict(d[2][n], e[3])
            /\ d[3] # <<>> => Strict(d[3], e[3])
        BY <1>4, <3>2 DEF PartsFit, NothingOverlooked, IsMap
      <4>2. ASSUME NEW n \in DOMAIN t[2] PROVE Strict(t[2][n], e[3])
        <5>1. Goes(t[2][n], d[2][n], e[3])
          BY <1>0, <2>1, <3>1, <4>1
        <5>2. QED
          BY <3>1, <4>1, <5>1 DEF Goes
      <4>3. t[3] # <<>> => Strict(t[3], e[3])
        BY <2>2, <3>1, <4>1
      <4>4. QED
        BY <1>4, <3>2, <4>2, <4>3 DEF PartsFit, NothingOverlooked
    <3>3. CASE ~ IsMap(e)
      <4>1. /\ DOMAIN d[2] = DOMAIN e[2] /\ (d[3] = <<>> <=> e[3] = <<>>)
            /\ d[3] # <<>> => Strict(d[3], e[3])
            /\ \A n \in DOMAIN d[2] : Strict(d[2][n], e[2][n])
        BY <1>4, <3>3 DEF PartsFit
      <4>2. ASSUME NEW n \in DOMAIN t[2] PROVE Strict(t[2][n], e[2][n])
        <5>1. Goes(t[2][n], d[2][n], e[2][n])
          BY <1>0, <2>1, <3>1, <4>1
        <5>2. QED
          BY <3>1, <4>1, <5>1 DEF Goes
      <4>3. t[3] # <<>> => Strict(t[3], e[3])
        BY <2>2, <3>1, <4>1
      <4>4. PartsFit(Strict, Instance, t, e)
        BY <1>4, <3>1, <3>3, <4>1, <4>2, <4>3 DEF PartsFit
      <4>5. QED
        BY <1>4, <3>3, <4>4 DEF NothingOverlooked
    <3>4. QED
      BY <3>2, <3>3
  <2>5. QED
    BY <2>3, <2>4
<1>5. CASE Kind(t) \notin {"array", "tuple", "func", "object"}
  BY <1>5 DEF PartsFit, NothingOverlooked
<1>6. QED
  BY <1>1, <1>2, <1>3, <1>4, <1>5

\* What has no value goes where what has no value goes.
LEMMA NoValueKinds ==
  ASSUME NEW t, NEW d, NoValue(t, d)
  PROVE  /\ Kind(t) \in {"void", "undefined"} /\ Kind(d) \in {"void", "undefined"}
         /\ ~ IsUnion(t) /\ ~ IsUnion(d) /\ Kind(t) # Kind(d)
         /\ ~ IsLiteral(t) /\ ~ IsLiteral(d)
BY DEF NoValue, IsUnion, IsLiteral, Literals

\* Only between objects and between functions something is passed over.
LEMMA NothingToOverlook ==
  ASSUME NEW t, NEW d, Kind(t) # Kind(d) \/ Kind(t) \notin {"func", "object"}, AssignableBy(Strict, Instance, t, d)
  PROVE  StrictBy(Strict, t, d)
<1>1. Kind(t) = Kind(d) => NothingOverlooked(Strict, t, d)
  BY DEF NothingOverlooked
<1>2. QED
  BY <1>1 DEF StrictBy

\* Types that are not unions, through one level of Strict.
LEMMA SimpleAtOnce ==
  ASSUME NEW S, NEW height \in [S -> Nat], WellFounded(S, height), Recursive(S),
         NEW t \in S, NEW d \in S, NEW e \in S, ~ IsUnion(t), ~ IsUnion(d), ~ IsUnion(e),
         \A x, y, z \in S : height[x] + height[y] + height[z] < height[t] + height[d] + height[e] => Goes(x, y, z),
         StrictBy(Strict, t, d), StrictBy(Strict, d, e)
  PROVE  StrictBy(Strict, t, e)
<1>1. t # <<>> /\ d # <<>> /\ e # <<>>
  BY DEF StrictBy, AssignableBy
<1>2. CASE NoValue(t, d) /\ NoValue(d, e)
  <2>1. Kind(t) = Kind(e) /\ Kind(t) \in {"void", "undefined"} /\ ~ IsLiteral(t) /\ ~ IsLiteral(e)
    BY <1>2, NoValueKinds DEF NoValue
  <2>2. t = e
    BY <2>1 DEF WellFounded
  <2>3. AssignableBy(Strict, Instance, t, e)
    BY <1>1, <2>1, <2>2 DEF AssignableBy, PartsFit
  <2>4. QED
    BY <2>1, <2>3, NothingToOverlook
<1>3. CASE NoValue(t, d) /\ ~ NoValue(d, e)
  BY <1>1, <1>3, NoValueKinds DEF StrictBy, AssignableBy, PartsFit, NoValue
<1>4. CASE ~ NoValue(t, d) /\ NoValue(d, e)
  BY <1>1, <1>4, NoValueKinds DEF StrictBy, AssignableBy, PartsFit, NoValue
<1>5. CASE ~ NoValue(t, d) /\ ~ NoValue(d, e)
  <2>1. /\ Kind(t) = Kind(d) /\ Kind(d) = Kind(e)
        /\ IF IsLiteral(t) THEN LiteralFits(t, d) ELSE ~ IsLiteral(d) /\ PartsFit(Strict, Instance, t, d)
        /\ IF IsLiteral(d) THEN LiteralFits(d, e) ELSE ~ IsLiteral(e) /\ PartsFit(Strict, Instance, d, e)
    BY <1>5 DEF StrictBy, AssignableBy
  <2>2. CASE IsLiteral(t)
    <3>1. LiteralFits(t, e)
      BY <2>1, <2>2 DEF LiteralFits
    <3>2. AssignableBy(Strict, Instance, t, e)
      BY <1>1, <2>1, <2>2, <3>1 DEF AssignableBy
    <3>3. QED
      BY <2>2, <3>2, NothingToOverlook DEF IsLiteral, Literals
  <2>3. CASE ~ IsLiteral(t)
    <3>1. NothingOverlooked(Strict, t, d) /\ NothingOverlooked(Strict, d, e)
      BY <2>1 DEF StrictBy
    <3>2. PartsFit(Strict, Instance, t, e) /\ NothingOverlooked(Strict, t, e)
      BY <2>1, <2>3, <3>1, PartsFitAtOnce DEF IsUnion
    <3>3. AssignableBy(Strict, Instance, t, e)
      BY <1>1, <2>1, <2>3, <3>2 DEF AssignableBy
    <3>4. QED
      BY <3>2, <3>3 DEF StrictBy
  <2>4. QED
    BY <2>2, <2>3
<1>6. QED
  BY <1>2, <1>3, <1>4, <1>5

\* Any types, through one level of Strict.
LEMMA AtOnceAtOneLevel ==
  ASSUME NEW S, NEW height \in [S -> Nat], WellFounded(S, height), Recursive(S),
         NEW t \in S, NEW d \in S, NEW e \in S,
         \A x, y, z \in S : height[x] + height[y] + height[z] < height[t] + height[d] + height[e] => Goes(x, y, z)
  PROVE  Goes(t, d, e)
<1> SUFFICES ASSUME Strict(t, d), Strict(d, e) PROVE Strict(t, e)
  BY DEF Goes
<1>1. StrictBy(Strict, t, d) /\ StrictBy(Strict, d, e)
  BY DEF Recursive
<1>2. SUFFICES StrictBy(Strict, t, e)
  BY DEF Recursive
<1> DEFINE Below(x, m) == m \in S /\ height[m] < height[x]
<1>3. /\ IsUnion(t) => \A m \in ToSet(t[2]) : Below(t, m)
      /\ IsUnion(d) => \A m \in ToSet(d[2]) : Below(d, m)
      /\ IsUnion(e) => \A m \in ToSet(e[2]) : Below(e, m)
  BY PartsAreSmaller DEF IsUnion
<1>4. t # <<>> /\ d # <<>> /\ e # <<>>
  BY <1>1 DEF StrictBy, AssignableBy
<1>5. /\ IsUnion(t) /\ IsUnion(d) => \A m \in ToSet(t[2]) : \E x \in ToSet(d[2]) : Strict(m, x)
      /\ IsUnion(t) /\ ~ IsUnion(d) => \A m \in ToSet(t[2]) : Strict(m, d)
      /\ ~ IsUnion(t) /\ IsUnion(d) => \E x \in ToSet(d[2]) : Strict(t, x)
  BY <1>1, NoValueKinds DEF StrictBy, AssignableBy, IsUnion
<1>6. /\ IsUnion(d) /\ IsUnion(e) => \A m \in ToSet(d[2]) : \E x \in ToSet(e[2]) : Strict(m, x)
      /\ IsUnion(d) /\ ~ IsUnion(e) => \A m \in ToSet(d[2]) : Strict(m, e)
      /\ ~ IsUnion(d) /\ IsUnion(e) => \E x \in ToSet(e[2]) : Strict(d, x)
  BY <1>1, NoValueKinds DEF StrictBy, AssignableBy, IsUnion
<1>7. ASSUME NEW x, NEW y, NEW z, Below(t, x) \/ x = t, Below(d, y) \/ y = d, Below(e, z) \/ z = e,
             Below(t, x) \/ Below(d, y) \/ Below(e, z)
      PROVE  Goes(x, y, z)
  <2>1. x \in S /\ y \in S /\ z \in S
    BY <1>7
  <2>2. height[x] <= height[t] /\ height[y] <= height[d] /\ height[z] <= height[e]
    BY <1>7
  <2>3. height[x] < height[t] \/ height[y] < height[d] \/ height[z] < height[e]
    BY <1>7
  <2>4. QED
    BY <2>1, <2>2, <2>3
<1> HIDE DEF Below
\* Of the members of t, for the type at their other end.
<1>8. CASE IsUnion(t) /\ IsUnion(e)
  <2>1. ASSUME NEW m \in ToSet(t[2]) PROVE \E z \in ToSet(e[2]) : Strict(m, z)
    <3>1. CASE IsUnion(d)
      <4>1. PICK y \in ToSet(d[2]) : Strict(m, y)
        BY <1>5, <1>8, <3>1
      <4>2. PICK z \in ToSet(e[2]) : Strict(y, z)
        BY <1>6, <1>8, <3>1
      <4>3. QED
        BY <1>3, <1>7, <1>8, <3>1, <4>1, <4>2 DEF Goes
    <3>2. CASE ~ IsUnion(d)
      <4>1. PICK z \in ToSet(e[2]) : Strict(d, z)
        BY <1>6, <1>8, <3>2
      <4>2. Strict(m, d)
        BY <1>5, <1>8, <3>2
      <4>3. QED
        BY <1>3, <1>7, <1>8, <4>1, <4>2 DEF Goes
    <3>3. QED
      BY <3>1, <3>2
  <2>2. AssignableBy(Strict, Instance, t, e)
    BY <1>4, <1>8, <2>1 DEF AssignableBy
  <2>3. QED
    BY <1>8, <2>2, NothingToOverlook DEF IsUnion
<1>9. CASE IsUnion(t) /\ ~ IsUnion(e)
  <2>1. ASSUME NEW m \in ToSet(t[2]) PROVE Strict(m, e)
    <3>1. CASE IsUnion(d)
      <4>1. PICK y \in ToSet(d[2]) : Strict(m, y)
        BY <1>5, <1>9, <3>1
      <4>2. Strict(y, e)
        BY <1>6, <1>9, <3>1
      <4>3. QED
        BY <1>3, <1>7, <1>9, <3>1, <4>1, <4>2 DEF Goes
    <3>2. CASE ~ IsUnion(d)
      <4>1. Strict(m, d)
        BY <1>5, <1>9, <3>2
      <4>2. QED
        BY <1>3, <1>7, <1>9, <4>1 DEF Goes
    <3>3. QED
      BY <3>1, <3>2
  <2>2. AssignableBy(Strict, Instance, t, e)
    BY <1>4, <1>9, <2>1 DEF AssignableBy
  <2>3. QED
    BY <1>9, <2>2, NothingToOverlook DEF IsUnion
<1>10. CASE ~ IsUnion(t) /\ IsUnion(e)
  <2>1. \E z \in ToSet(e[2]) : Strict(t, z)
    <3>1. CASE IsUnion(d)
      <4>1. PICK y \in ToSet(d[2]) : Strict(t, y)
        BY <1>5, <1>10, <3>1
      <4>2. PICK z \in ToSet(e[2]) : Strict(y, z)
        BY <1>6, <1>10, <3>1
      <4>3. QED
        BY <1>3, <1>7, <1>10, <3>1, <4>1, <4>2 DEF Goes
    <3>2. CASE ~ IsUnion(d)
      <4>1. PICK z \in ToSet(e[2]) : Strict(d, z)
        BY <1>6, <1>10, <3>2
      <4>2. QED
        BY <1>3, <1>7, <1>10, <4>1 DEF Goes
    <3>3. QED
      BY <3>1, <3>2
  <2>2. AssignableBy(Strict, Instance, t, e)
    BY <1>4, <1>10, <2>1 DEF AssignableBy
  <2>3. QED
    BY <1>10, <2>2, NothingToOverlook DEF IsUnion
<1>11. CASE ~ IsUnion(t) /\ ~ IsUnion(e) /\ IsUnion(d)
  <2>1. PICK y \in ToSet(d[2]) : Strict(t, y)
    BY <1>5, <1>11
  <2>2. Strict(y, e)
    BY <1>6, <1>11
  <2>3. Strict(t, e)
    BY <1>3, <1>7, <1>11, <2>1, <2>2 DEF Goes
  <2>4. QED
    BY <2>3 DEF Recursive
<1>12. CASE ~ IsUnion(t) /\ ~ IsUnion(e) /\ ~ IsUnion(d)
  BY <1>1, <1>12, SimpleAtOnce
<1>13. QED
  BY <1>8, <1>9, <1>10, <1>11, <1>12

\* Strict is transitive, by induction on the heights of three types.
LEMMA StrictIsTransitive ==
  ASSUME NEW S, NEW height \in [S -> Nat], WellFounded(S, height), Recursive(S)
  PROVE  \A t, d, e \in S : Goes(t, d, e)
<1> DEFINE Wrong == {n \in Nat : \E t, d, e \in S : n = height[t] + height[d] + height[e] /\ ~ Goes(t, d, e)}
<1>1. SUFFICES ASSUME Wrong # {} PROVE FALSE
  OBVIOUS
<1>2. PICK n \in Wrong : \A m \in Wrong : n <= m
  <2>1. Wrong \in SUBSET Nat
    OBVIOUS
  <2> HIDE DEF Wrong
  <2>2. QED
    BY <1>1, <2>1, SmallestOf
<1>3. PICK t \in S, d \in S, e \in S : n = height[t] + height[d] + height[e] /\ ~ Goes(t, d, e)
  OBVIOUS
<1>4. ASSUME NEW x \in S, NEW y \in S, NEW z \in S,
             height[x] + height[y] + height[z] < height[t] + height[d] + height[e]
      PROVE  Goes(x, y, z)
  <2>1. height[x] + height[y] + height[z] \in Nat /\ n \in Nat
    OBVIOUS
  <2>2. ~ (n <= height[x] + height[y] + height[z])
    BY <1>3, <1>4, <2>1
  <2>3. height[x] + height[y] + height[z] \notin Wrong
    BY <1>2, <2>2
  <2>4. QED
    BY <2>1, <2>3
<1>5. Goes(t, d, e)
  BY <1>4, AtOnceAtOneLevel
<1>6. QED
  BY <1>3, <1>5

-----------------------------------------------------------------------------
(***************************************************************************)
(* Strict allows nothing that Type.AssignableTo does not.                    *)
(***************************************************************************)
Allowed(t, d) == Strict(t, d) => Assignable(t, d)

\* Types of one kind: what Strict asks of their parts is all that is asked of them.
LEMMA PartsAreAllowed ==
  ASSUME NEW S, NEW height \in [S -> Nat], WellFounded(S, height),
         NEW t \in S, NEW d \in S, Kind(t) = Kind(d), Kind(t) # "union",
         \A x, y \in S : height[x] + height[y] < height[t] + height[d] => Allowed(x, y),
         PartsFit(Strict, Instance, t, d), NothingOverlooked(Strict, t, d)
  PROVE  PartsFit(Assignable, Instance, t, d)
<1>1. ASSUME NEW x, NEW y, x \in S, y \in S, height[x] < height[t], height[y] < height[d], Strict(x, y)
      PROVE  Assignable(x, y)
  <2>1. height[x] + height[y] < height[t] + height[d]
    BY <1>1
  <2>2. QED
    BY <1>1, <2>1 DEF Allowed
<1>2. CASE Kind(t) = "array"
  BY <1>1, <1>2, PartsAreSmaller DEF PartsFit
<1>3. ASSUME Kind(t) \in {"tuple", "func"}, AllFit(Strict, t[2], d[2]) PROVE AllFit(Assignable, t[2], d[2])
  <2>1. /\ DOMAIN t[2] = 1 .. Len(t[2]) /\ DOMAIN d[2] = 1 .. Len(d[2])
        /\ \A i \in DOMAIN t[2] : t[2][i] \in S /\ height[t[2][i]] < height[t]
        /\ \A i \in DOMAIN d[2] : d[2][i] \in S /\ height[d[2][i]] < height[d]
    BY <1>3, PartsAreSmaller
  <2>2. QED
    BY <1>1, <1>3, <2>1 DEF AllFit
<1>4. CASE Kind(t) = "tuple"
  BY <1>3, <1>4 DEF PartsFit
<1>5. CASE Kind(t) = "func"
  <2>1. t[4] = {} /\ AllFit(Strict, t[2], d[2]) /\ Strict(t[3], d[3])
    BY <1>5 DEF PartsFit, NothingOverlooked
  <2>2. Assignable(t[3], d[3])
    BY <1>1, <1>5, <2>1, PartsAreSmaller
  <2>3. QED
    BY <1>3, <1>5, <2>1, <2>2 DEF PartsFit
<1>6. CASE Kind(t) = "object"
  <2>1. /\ \A n \in DOMAIN t[2] : t[2][n] \in S /\ height[t[2][n]] < height[t]
        /\ \A n \in DOMAIN d[2] : d[2][n] \in S /\ height[d[2][n]] < height[d]
        /\ t[3] # <<>> => t[3] \in S /\ height[t[3]] < height[t]
        /\ d[3] # <<>> => d[3] \in S /\ height[d[3]] < height[d]
    BY <1>6, PartsAreSmaller
  <2>2. CASE IsMap(d)
    <3>1. d[3] # <<>> /\ \A n \in DOMAIN t[2] : Strict(t[2][n], d[3])
      BY <1>6, <2>2 DEF PartsFit, IsMap
    <3>2. \A n \in DOMAIN t[2] : Assignable(t[2][n], d[3])
      BY <1>1, <2>1, <3>1
    <3>3. QED
      BY <1>6, <2>2, <3>2 DEF PartsFit
  <2>3. CASE ~ IsMap(d)
    <3>1. /\ DOMAIN t[2] = DOMAIN d[2] /\ (t[3] = <<>> <=> d[3] = <<>>)
          /\ t[3] # <<>> => Strict(t[3], d[3])
          /\ \A n \in DOMAIN t[2] : Strict(t[2][n], d[2][n])
      BY <1>6, <2>3 DEF PartsFit
    <3>2. /\ t[3] # <<>> => Assignable(t[3], d[3])
          /\ \A n \in DOMAIN t[2] : Assignable(t[2][n], d[2][n])
      BY <1>1, <2>1, <3>1
    <3>3. QED
      BY <1>6, <2>3, <3>1, <3>2 DEF PartsFit
  <2>4. QED
    BY <2>2, <2>3
<1>7. CASE Kind(t) \notin {"array", "tuple", "func", "object"}
  BY <1>7 DEF PartsFit
<1>8. QED
  BY <1>2, <1>4, <1>5, <1>6, <1>7

\* One level of both.
LEMMA AllowedAtOneLevel ==
  ASSUME NEW S, NEW height \in [S -> Nat], WellFounded(S, height), Recursive(S),
         NEW t \in S, NEW d \in S,
         \A x, y \in S : height[x] + height[y] < height[t] + height[d] => Allowed(x, y)
  PROVE  Allowed(t, d)
<1> SUFFICES ASSUME Strict(t, d) PROVE Assignable(t, d)
  BY DEF Allowed
<1>1. AssignableBy(Strict, Instance, t, d) /\ (Kind(t) = Kind(d) => NothingOverlooked(Strict, t, d))
  BY DEF Recursive, StrictBy
<1>2. SUFFICES AssignableBy(Assignable, Instance, t, d)
  BY DEF Recursive
<1>3. t # <<>> /\ d # <<>>
  BY <1>1 DEF AssignableBy
<1>4. /\ IsUnion(t) => \A m \in ToSet(t[2]) : m \in S /\ height[m] < height[t]
      /\ IsUnion(d) => \A m \in ToSet(d[2]) : m \in S /\ height[m] < height[d]
  BY PartsAreSmaller DEF IsUnion
<1>5. ASSUME NEW x \in S, NEW y \in S, height[x] <= height[t], height[y] <= height[d],
             height[x] < height[t] \/ height[y] < height[d], Strict(x, y)
      PROVE  Assignable(x, y)
  <2>1. height[x] + height[y] < height[t] + height[d]
    BY <1>5
  <2>2. QED
    BY <1>5, <2>1 DEF Allowed
<1>6. CASE NoValue(t, d)
  BY <1>3, <1>6 DEF AssignableBy
<1>7. CASE IsUnion(t) /\ IsUnion(d) /\ \A m \in ToSet(t[2]) : \E x \in ToSet(d[2]) : Strict(m, x)
  <2>1. \A m \in ToSet(t[2]) : \E x \in ToSet(d[2]) : Assignable(m, x)
    BY <1>4, <1>5, <1>7
  <2>2. QED
    BY <1>3, <1>7, <2>1 DEF AssignableBy
<1>8. CASE IsUnion(t) /\ ~ IsUnion(d) /\ \A m \in ToSet(t[2]) : Strict(m, d)
  <2>1. \A m \in ToSet(t[2]) : Assignable(m, d)
    BY <1>4, <1>5, <1>8
  <2>2. QED
    BY <1>3, <1>8, <2>1 DEF AssignableBy
<1>9. CASE ~ IsUnion(t) /\ IsUnion(d) /\ \E x \in ToSet(d[2]) : Strict(t, x)
  <2>1. \E x \in ToSet(d[2]) : Assignable(t, x)
    BY <1>4, <1>5, <1>9
  <2>2. QED
    BY <1>3, <1>9, <2>1 DEF AssignableBy
<1>10. CASE ~ IsUnion(t) /\ Kind(t) = Kind(d) /\ IsLiteral(t) /\ LiteralFits(t, d)
  BY <1>3, <1>10 DEF AssignableBy
<1>11. CASE /\ ~ IsUnion(t) /\ Kind(t) = Kind(d) /\ ~ IsLiteral(t) /\ ~ IsLiteral(d)
            /\ PartsFit(Strict, Instance, t, d)
  <2>1. PartsFit(Assignable, Instance, t, d)
    BY <1>1, <1>11, PartsAreAllowed DEF IsUnion
  <2>2. QED
    BY <1>3, <1>11, <2>1 DEF AssignableBy
<1>12. QED
  BY <1>1, <1>6, <1>7, <1>8, <1>9, <1>10, <1>11 DEF AssignableBy

\* Strict within Type.AssignableTo, by induction on the heights of both types.
LEMMA StrictIsAssignable ==
  ASSUME NEW S, NEW height \in [S -> Nat], WellFounded(S, height), Recursive(S)
  PROVE  \A t, d \in S : Allowed(t, d)
<1> DEFINE Wrong == {n \in Nat : \E t, d \in S : n = height[t] + height[d] /\ ~ Allowed(t, d)}
<1>1. SUFFICES ASSUME Wrong # {} PROVE FALSE
  OBVIOUS
<1>2. PICK n \in Wrong : \A m \in Wrong : n <= m
  <2>1. Wrong \in SUBSET Nat
    OBVIOUS
  <2> HIDE DEF Wrong
  <2>2. QED
    BY <1>1, <2>1, SmallestOf
<1>3. PICK t \in S, d \in S : n = height[t] + height[d] /\ ~ Allowed(t, d)
  OBVIOUS
<1>4. ASSUME NEW x \in S, NEW y \in S, height[x] + height[y] < height[t] + height[d] PROVE Allowed(x, y)
  <2>1. height[x] + height[y] \in Nat /\ n \in Nat
    OBVIOUS
  <2>2. ~ (n <= height[x] + height[y])
    BY <1>3, <1>4, <2>1
  <2>3. height[x] + height[y] \notin Wrong
    BY <1>2, <2>2
  <2>4. QED
    BY <2>1, <2>3
<1>5. Allowed(t, d)
  BY <1>4, AllowedAtOneLevel
<1>6. QED
  BY <1>3, <1>5

-----------------------------------------------------------------------------
(***************************************************************************)
(* Type.Equals is an equivalence.                                           *)
(***************************************************************************)
Equivalence(T) ==
    /\ \A t \in T : Same(t, t)
    /\ \A t, o \in T : Same(t, o) => Same(o, t)
    /\ \A t, o, e \in T : Same(t, o) /\ Same(o, e) => Same(t, e)

\* A type is equal to itself, if its parts are.
LEMMA EqualToItself ==
  ASSUME NEW S, NEW height \in [S -> Nat], WellFounded(S, height), Comparable(S),
         NEW T, Equivalence(T), NEW t \in S, Parts(t) \subseteq T
  PROVE  Same(t, t)
<1>1. \A p \in T : Same(p, p)
  BY DEF Equivalence
<1>2. EqualsBy(Same, t, t)
  <2>1. CASE Kind(t) = "array"
    BY <1>1, <2>1, PartsAreAmong DEF EqualsBy
  <2>2. CASE Kind(t) = "tuple"
    BY <1>1, <2>2, PartsAreAmong DEF EqualsBy, AllFit
  <2>3. CASE Kind(t) = "func"
    BY <1>1, <2>3, PartsAreAmong DEF EqualsBy, AllFit
  <2>4. CASE Kind(t) = "object"
    BY <1>1, <2>4, PartsAreAmong DEF EqualsBy
  <2>5. CASE Kind(t) = "union"
    <3>1. \A m \in ToSet(t[2]) : Same(m, m)
      BY <1>1, <2>5 DEF Parts
    <3>2. QED
      BY <2>5, <3>1 DEF EqualsBy
  <2>6. CASE Kind(t) \notin {"array", "tuple", "func", "object", "union"}
    BY <2>6 DEF EqualsBy
  <2>7. QED
    BY <2>1, <2>2, <2>3, <2>4, <2>5, <2>6
<1>3. QED
  BY <1>2 DEF Comparable

\* Types equal to the same type are equal, if their parts are.
LEMMA EqualByWayOf ==
  ASSUME NEW S, NEW height \in [S -> Nat], WellFounded(S, height), Comparable(S),
         NEW T, Equivalence(T), NEW t \in S, NEW o \in S, NEW e \in S,
         Parts(t) \subseteq T, Parts(o) \subseteq T, Parts(e) \subseteq T,
         Same(t, o), Same(o, e)
  PROVE  Same(t, e)
<1>1. EqualsBy(Same, t, o) /\ EqualsBy(Same, o, e)
  BY DEF Comparable
<1>2. t # <<>> /\ o # <<>> /\ e # <<>>
  BY DEF WellFounded
<1>3. Kind(t) = Kind(o) /\ Kind(o) = Kind(e)
  BY <1>1, <1>2 DEF EqualsBy
<1>4. \A x, y, z \in T : Same(x, y) /\ Same(y, z) => Same(x, z)
  BY DEF Equivalence
<1>5. EqualsBy(Same, t, e)
  <2>1. CASE Kind(t) = "array"
    <3>1. t[2] \in T /\ o[2] \in T /\ e[2] \in T
      BY <1>3, <2>1, PartsAreAmong
    <3>2. QED
      BY <1>1, <1>2, <1>3, <1>4, <2>1, <3>1 DEF EqualsBy
  <2>2. ASSUME Kind(t) \in {"tuple", "func"} PROVE AllFit(Same, t[2], e[2])
    <3>1. AllFit(Same, t[2], o[2]) /\ AllFit(Same, o[2], e[2])
      BY <1>1, <1>2, <1>3, <2>2 DEF EqualsBy
    <3>2. /\ DOMAIN t[2] = 1 .. Len(t[2]) /\ \A i \in DOMAIN t[2] : t[2][i] \in T
          /\ DOMAIN o[2] = 1 .. Len(o[2]) /\ \A i \in DOMAIN o[2] : o[2][i] \in T
          /\ DOMAIN e[2] = 1 .. Len(e[2]) /\ \A i \in DOMAIN e[2] : e[2][i] \in T
      BY <1>3, <2>2, PartsAreAmong
    <3>3. QED
      BY <1>4, <3>1, <3>2 DEF AllFit
  <2>3. CASE Kind(t) = "tuple"
    BY <1>2, <1>3, <2>2, <2>3 DEF EqualsBy
  <2>4. CASE Kind(t) = "func"
    <3>1. t[3] \in T /\ o[3] \in T /\ e[3] \in T
      BY <1>3, <2>4, PartsAreAmong
    <3>2. Same(t[3], o[3]) /\ Same(o[3], e[3])
      BY <1>1, <1>2, <1>3, <2>4 DEF EqualsBy
    <3>3. QED
      BY <1>2, <1>3, <1>4, <2>2, <2>4, <3>1, <3>2 DEF EqualsBy
  <2>5. CASE Kind(t) = "object"
    <3>1. /\ \A n \in DOMAIN t[2] : t[2][n] \in T
          /\ \A n \in DOMAIN o[2] : o[2][n] \in T
          /\ \A n \in DOMAIN e[2] : e[2][n] \in T
          /\ t[3] # <<>> => t[3] \in T
          /\ o[3] # <<>> => o[3] \in T
          /\ e[3] # <<>> => e[3] \in T
      BY <1>3, <2>5, PartsAreAmong
    <3>2. /\ DOMAIN t[2] = DOMAIN o[2] /\ \A n \in DOMAIN t[2] : Same(t[2][n], o[2][n])
          /\ (t[3] = <<>> <=> o[3] = <<>>) /\ (t[3] # <<>> => Same(t[3], o[3]))
      BY <1>1, <1>2, <1>3, <2>5 DEF EqualsBy
    <3>3. /\ DOMAIN o[2] = DOMAIN e[2] /\ \A n \in DOMAIN o[2] : Same(o[2][n], e[2][n])
          /\ (o[3] = <<>> <=> e[3] = <<>>) /\ (o[3] # <<>> => Same(o[3], e[3]))
      BY <1>1, <1>2, <1>3, <2>5 DEF EqualsBy
    <3>4. \A n \in DOMAIN t[2] : Same(t[2][n], e[2][n])
      BY <1>4, <3>1, <3>2, <3>3
    <3>5. t[3] # <<>> => Same(t[3], e[3])
      BY <1>4, <3>1, <3>2, <3>3
    <3>6. QED
      BY <1>2, <1>3, <2>5, <3>2, <3>3, <3>4, <3>5 DEF EqualsBy
  <2>6. CASE Kind(t) = "union"
    <3>1. ToSet(t[2]) \subseteq T /\ ToSet(o[2]) \subseteq T /\ ToSet(e[2]) \subseteq T
      BY <1>3, <2>6 DEF Parts
    <3>2. /\ Len(t[2]) = Len(o[2]) /\ \A m \in ToSet(t[2]) : \E x \in ToSet(o[2]) : Same(m, x)
          /\ Len(o[2]) = Len(e[2]) /\ \A m \in ToSet(o[2]) : \E x \in ToSet(e[2]) : Same(m, x)
      BY <1>1, <1>2, <1>3, <2>6 DEF EqualsBy
    <3>3. ASSUME NEW m \in ToSet(t[2]) PROVE \E x \in ToSet(e[2]) : Same(m, x)
      <4>1. PICK y \in ToSet(o[2]) : Same(m, y)
        BY <3>2
      <4>2. PICK x \in ToSet(e[2]) : Same(y, x)
        BY <3>2
      <4>3. QED
        BY <1>4, <3>1, <4>1, <4>2
    <3>4. QED
      BY <1>2, <1>3, <2>6, <3>2, <3>3 DEF EqualsBy
  <2>7. CASE Kind(t) \notin {"array", "tuple", "func", "object", "union"}
    BY <1>1, <1>2, <1>3, <2>7 DEF EqualsBy
  <2>8. QED
    BY <2>1, <2>3, <2>4, <2>5, <2>6, <2>7
<1>6. QED
  BY <1>5 DEF Comparable

\* If each member of a union is in another one with as many members, then that one has
\* no others: none is there twice, and so no two of the first can be the same of the second.
LEMMA NoOtherMembers ==
  ASSUME NEW T, Equivalence(T), NEW s \in Seq(T), NEW r \in Seq(T), Len(s) = Len(r),
         \A i, j \in DOMAIN s : Same(s[i], s[j]) => i = j,
         \A m \in ToSet(s) : \E x \in ToSet(r) : Same(m, x)
  PROVE  \A x \in ToSet(r) : \E m \in ToSet(s) : Same(x, m)
<1> DEFINE n == Len(s)
           f == [i \in 1 .. n |-> CHOOSE j \in 1 .. n : Same(s[i], r[j])]
<1>1. /\ n \in Nat /\ DOMAIN s = 1 .. n /\ DOMAIN r = 1 .. n
      /\ \A i \in 1 .. n : s[i] \in T /\ r[i] \in T
  BY LenProperties, ElementOfSeq
<1>2. \A i \in 1 .. n : f[i] \in 1 .. n /\ Same(s[i], r[f[i]])
  <2> TAKE i \in 1 .. n
  <2>1. \E j \in 1 .. n : Same(s[i], r[j])
    BY <1>1 DEF ToSet
  <2>2. QED
    BY <2>1
<1>3. f \in Injection(1 .. n, 1 .. n)
  <2>1. f \in [1 .. n -> 1 .. n]
    BY <1>2
  <2>2. ASSUME NEW i \in 1 .. n, NEW j \in 1 .. n, f[i] = f[j] PROVE i = j
    <3>1. Same(s[i], r[f[i]]) /\ Same(s[j], r[f[i]]) /\ f[i] \in 1 .. n
      BY <1>2, <2>2
    <3> HIDE DEF f, n
    <3>2. Same(r[f[i]], s[j])
      BY <1>1, <3>1 DEF Equivalence
    <3>3. Same(s[i], s[j])
      BY <1>1, <3>1, <3>2 DEF Equivalence
    <3>4. QED
      BY <1>1, <3>3
  <2> HIDE DEF f, n
  <2>3. QED
    BY <2>1, <2>2 DEF Injection, IsInjective
<1>4. f \in Surjection(1 .. n, 1 .. n)
  <2>1. IsFiniteSet(1 .. n)
    BY <1>1, FS_Interval
  <2> HIDE DEF f, n
  <2>2. QED
    BY <1>3, <2>1, FS_Injection
<1>5. ASSUME NEW x \in ToSet(r) PROVE \E m \in ToSet(s) : Same(x, m)
  <2>1. PICK j \in 1 .. n : x = r[j]
    BY <1>1 DEF ToSet
  <2>2. PICK i \in 1 .. n : f[i] = j
    <3> HIDE DEF f, n
    <3>1. QED
      BY <1>4 DEF Surjection
  <2>3. Same(s[i], x) /\ s[i] \in T /\ x \in T
    BY <1>1, <1>2, <2>1, <2>2
  <2>4. Same(x, s[i]) /\ s[i] \in ToSet(s)
    BY <1>1, <2>3 DEF Equivalence, ToSet
  <2>5. QED
    BY <2>4
<1>6. QED
  BY <1>5

\* Of two equal types each is equal to the other, if their parts are.
LEMMA EqualBothWays ==
  ASSUME NEW S, NEW height \in [S -> Nat], WellFounded(S, height), Comparable(S), \A x \in S : Flat(x),
         NEW T, Equivalence(T), NEW t \in S, NEW o \in S, Parts(t) \subseteq T, Parts(o) \subseteq T, Same(t, o)
  PROVE  Same(o, t)
<1>1. EqualsBy(Same, t, o)
  BY DEF Comparable
<1>2. t # <<>> /\ o # <<>>
  BY DEF WellFounded
<1>3. Kind(t) = Kind(o)
  BY <1>1, <1>2 DEF EqualsBy
<1>4. \A x, y \in T : Same(x, y) => Same(y, x)
  BY DEF Equivalence
<1>5. EqualsBy(Same, o, t)
  <2>1. CASE Kind(t) = "array"
    <3>1. t[2] \in T /\ o[2] \in T
      BY <1>3, <2>1, PartsAreAmong
    <3>2. QED
      BY <1>1, <1>2, <1>3, <1>4, <2>1, <3>1 DEF EqualsBy
  <2>2. ASSUME Kind(t) \in {"tuple", "func"} PROVE AllFit(Same, o[2], t[2])
    <3>1. AllFit(Same, t[2], o[2])
      BY <1>1, <1>2, <1>3, <2>2 DEF EqualsBy
    <3>2. /\ DOMAIN t[2] = 1 .. Len(t[2]) /\ \A i \in DOMAIN t[2] : t[2][i] \in T
          /\ DOMAIN o[2] = 1 .. Len(o[2]) /\ \A i \in DOMAIN o[2] : o[2][i] \in T
      BY <1>3, <2>2, PartsAreAmong
    <3>3. QED
      BY <1>4, <3>1, <3>2 DEF AllFit
  <2>3. CASE Kind(t) = "tuple"
    BY <1>2, <1>3, <2>2, <2>3 DEF EqualsBy
  <2>4. CASE Kind(t) = "func"
    <3>1. t[3] \in T /\ o[3] \in T
      BY <1>3, <2>4, PartsAreAmong
    <3>2. Same(t[3], o[3])
      BY <1>1, <1>2, <1>3, <2>4 DEF EqualsBy
    <3>3. QED
      BY <1>2, <1>3, <1>4, <2>2, <2>4, <3>1, <3>2 DEF EqualsBy
  <2>5. CASE Kind(t) = "object"
    <3>1. /\ \A n \in DOMAIN t[2] : t[2][n] \in T
          /\ \A n \in DOMAIN o[2] : o[2][n] \in T
          /\ t[3] # <<>> => t[3] \in T
          /\ o[3] # <<>> => o[3] \in T
      BY <1>3, <2>5, PartsAreAmong
    <3>2. /\ DOMAIN t[2] = DOMAIN o[2] /\ \A n \in DOMAIN t[2] : Same(t[2][n], o[2][n])
          /\ (t[3] = <<>> <=> o[3] = <<>>) /\ (t[3] # <<>> => Same(t[3], o[3]))
      BY <1>1, <1>2, <1>3, <2>5 DEF EqualsBy
    <3>3. \A n \in DOMAIN o[2] : Same(o[2][n], t[2][n])
      BY <1>4, <3>1, <3>2
    <3>4. o[3] # <<>> => Same(o[3], t[3])
      BY <1>4, <3>1, <3>2
    <3>5. QED
      BY <1>2, <1>3, <2>5, <3>2, <3>3, <3>4 DEF EqualsBy
  <2>6. CASE Kind(t) = "union"
    <3>1. t[2] \in Seq(T) /\ o[2] \in Seq(T)
      <4>1. ASSUME NEW x \in {t, o} PROVE x[2] \in Seq(T)
        <5>1. x[2] \in Seq(S)
          BY <1>3, <2>6, <4>1 DEF WellFounded
        <5>2. \A i \in DOMAIN x[2] : x[2][i] \in T
          BY <1>3, <2>6, <4>1, PartsAreAmong
        <5>3. QED
          BY <5>1, <5>2, SeqOfElements
      <4>2. QED
        BY <4>1
    <3>2. Len(t[2]) = Len(o[2]) /\ \A m \in ToSet(t[2]) : \E x \in ToSet(o[2]) : Same(m, x)
      BY <1>1, <1>2, <1>3, <2>6 DEF EqualsBy
    <3>3. \A i, j \in DOMAIN t[2] : Same(t[2][i], t[2][j]) => i = j
      BY <2>6 DEF Flat, IsUnion
    <3>4. \A x \in ToSet(o[2]) : \E m \in ToSet(t[2]) : Same(x, m)
      BY <3>1, <3>2, <3>3, NoOtherMembers
    <3>5. QED
      BY <1>2, <1>3, <2>6, <3>2, <3>4 DEF EqualsBy
  <2>7. CASE Kind(t) \notin {"array", "tuple", "func", "object", "union"}
    BY <1>1, <1>2, <1>3, <2>7 DEF EqualsBy
  <2>8. QED
    BY <2>1, <2>3, <2>4, <2>5, <2>6, <2>7
<1>6. QED
  BY <1>5 DEF Comparable

\* Type.Equals, by induction on the heights of types.
LEMMA EqualsIsAnEquivalence ==
  ASSUME NEW S, NEW height \in [S -> Nat], WellFounded(S, height), Comparable(S), \A x \in S : Flat(x)
  PROVE  Equivalence(S)
<1> DEFINE Below(n) == {x \in S : height[x] < n}
<1>1. ASSUME NEW m \in Nat PROVE Equivalence(Below(m))
  <2> DEFINE P == {n \in 0 .. m : Equivalence(Below(n))}
  <2>1. 0 \in P
    <3>1. Below(0) = {}
      OBVIOUS
    <3>2. Equivalence({})
      BY DEF Equivalence
    <3> HIDE DEF Below
    <3>3. QED
      BY <3>1, <3>2
  <2>2. ASSUME NEW n \in 0 .. m - 1, n \in P PROVE n + 1 \in P
    <3> DEFINE T == Below(n)
    <3>1. Equivalence(T)
      BY <2>2
    <3>2. \A x \in Below(n + 1) : x \in S /\ Parts(x) \subseteq T
      BY DEF WellFounded
    <3>3. n + 1 \in 0 .. m
      OBVIOUS
    <3> HIDE DEF T, Below
    <3>4. \A x \in Below(n + 1) : Same(x, x)
      BY <3>1, <3>2, EqualToItself
    <3>5. \A x, y \in Below(n + 1) : Same(x, y) => Same(y, x)
      BY <3>1, <3>2, EqualBothWays
    <3>6. \A x, y, z \in Below(n + 1) : Same(x, y) /\ Same(y, z) => Same(x, z)
      <4>1. SUFFICES ASSUME NEW x \in Below(n + 1), NEW y \in Below(n + 1), NEW z \in Below(n + 1),
                            Same(x, y), Same(y, z)
                     PROVE  Same(x, z)
        OBVIOUS
      <4>2. QED
        BY <3>1, <3>2, <4>1, EqualByWayOf
    <3>7. Equivalence(Below(n + 1))
      BY <3>4, <3>5, <3>6 DEF Equivalence
    <3>8. QED
      BY <3>3, <3>7
  <2>3. \A n \in 0 .. m - 1 : n \in P => n + 1 \in P
    BY <2>2
  <2>4. \A n \in 0 .. m : n \in P
    <3> HIDE DEF P
    <3>1. QED
      BY <2>1, <2>3, UpTo, Zenon
  <2>5. QED
    <3>1. m \in 0 .. m
      OBVIOUS
    <3> HIDE DEF Below
    <3>2. QED
      BY <2>4, <3>1
<1>2. ASSUME NEW t \in S, NEW o \in S, NEW e \in S
      PROVE  Same(t, t) /\ (Same(t, o) => Same(o, t)) /\ (Same(t, o) /\ Same(o, e) => Same(t, e))
  <2>1. PICK m \in Nat : t \in Below(m) /\ o \in Below(m) /\ e \in Below(m)
    <3>1. height[t] \in Nat /\ height[o] \in Nat /\ height[e] \in Nat
      OBVIOUS
    <3>2. height[t] + height[o] + height[e] + 1 \in Nat
      BY <3>1
    <3>3. /\ t \in Below(height[t] + height[o] + height[e] + 1)
          /\ o \in Below(height[t] + height[o] + height[e] + 1)
          /\ e \in Below(height[t] + height[o] + height[e] + 1)
      BY <3>1
    <3> HIDE DEF Below
    <3>4. QED
      BY <3>2, <3>3
  <2> HIDE DEF Below
  <2>2. QED
    BY <1>1, <2>1 DEF Equivalence
<1>3. QED
  BY <1>2 DEF Equivalence

-----------------------------------------------------------------------------
\* The members so far, after each of the types.
UniqueStep(u, t) == IF \E x \in ToSet(u) : Same(t, x) THEN u ELSE Append(u, t)

\* NewUnion goes through the types from the first to the last.
LEMMA UniqueSteps ==
  ASSUME NEW T, NEW types \in Seq(T)
  PROVE  \E unique \in [0 .. Len(types) -> Seq(T)] :
            /\ unique[0] = <<>>
            /\ \A n \in 1 .. Len(types) : unique[n] = UniqueStep(unique[n - 1], types[n])
            /\ UniqueBy(Same, types) = unique[Len(types)]
<1> DEFINE m == Len(types)
           X == Seq(T)
           step == [n \in 1 .. m |-> [u \in X |-> UniqueStep(u, types[n])]]
           Is(f) == f = [n \in 0 .. m |-> IF n = 0 THEN <<>> ELSE UniqueStep(f[n - 1], types[n])]
           the == CHOOSE f : Is(f)
<1>1. m \in Nat /\ <<>> \in X /\ \A n \in 1 .. m : types[n] \in T
  BY LenProperties, EmptySeq, ElementOfSeq
<1>2. step \in [1 .. m -> [X -> X]]
  <2>1. ASSUME NEW n \in 1 .. m, NEW u \in X PROVE UniqueStep(u, types[n]) \in X
    BY <1>1, AppendProperties DEF UniqueStep
  <2> HIDE DEF X
  <2>2. QED
    BY <2>1
<1>3. PICK f \in [0 .. m -> X] : Iterates(f, m, <<>>, step)
  <2> HIDE DEF m, X, step
  <2>1. QED
    BY <1>1, <1>2, StepByStep
<1>4. Is(f)
  <2>1. ASSUME NEW n \in 1 .. m PROVE f[n] = UniqueStep(f[n - 1], types[n])
    <3>1. f[n - 1] \in X
      BY <1>1
    <3>2. step[n][f[n - 1]] = UniqueStep(f[n - 1], types[n])
      BY <3>1
    <3>3. QED
      BY <1>3, <3>2 DEF Iterates
  <2>2. f[0] = <<>>
    BY <1>3 DEF Iterates
  <2> HIDE DEF m, X
  <2>3. QED
    BY <1>1, <2>1, <2>2
<1>5. Is(the)
  <2> HIDE DEF Is
  <2>1. QED
    BY <1>4
<1>6. UniqueBy(Same, types) = the[m]
  BY DEF UniqueBy, UniqueStep
<1>7. \A n \in 1 .. m : the[n] = UniqueStep(the[n - 1], types[n])
  <2> HIDE DEF the
  <2>1. QED
    BY <1>1, <1>5
<1>8. the[0] = <<>> /\ DOMAIN the = 0 .. m
  <2> HIDE DEF the
  <2>1. QED
    BY <1>1, <1>5
<1>9. \A n \in 0 .. m : the[n] \in X
  <2> DEFINE P == {n \in 0 .. m : the[n] \in X}
  <2> HIDE DEF the
  <2>1. 0 \in P
    <3>1. 0 \in 0 .. m
      BY <1>1
    <3> HIDE DEF m, X
    <3>2. QED
      BY <1>1, <1>8, <3>1
  <2>2. ASSUME NEW n \in 0 .. m - 1, n \in P PROVE n + 1 \in P
    <3>1. n + 1 \in 1 .. m /\ n + 1 \in 0 .. m /\ (n + 1) - 1 = n
      BY <1>1
    <3>2. the[n + 1] = UniqueStep(the[n], types[n + 1])
      BY <1>7, <3>1
    <3>3. UniqueStep(the[n], types[n + 1]) \in X
      BY <1>1, <2>2, <3>1, AppendProperties DEF UniqueStep
    <3>4. QED
      BY <3>1, <3>2, <3>3
  <2>3. \A n \in 0 .. m - 1 : n \in P => n + 1 \in P
    BY <2>2
  <2>4. \A n \in 0 .. m : n \in P
    <3> HIDE DEF P, m, X
    <3>1. QED
      BY <1>1, <2>1, <2>3, UpTo, Zenon
  <2>5. QED
    BY <2>4
<1>10. the \in [0 .. m -> X]
  <2>1. the = [n \in 0 .. m |-> the[n]]
    BY <1>5
  <2> HIDE DEF the, X
  <2>2. QED
    BY <1>9, <2>1
<1>11. QED
  <2> HIDE DEF the
  <2>1. QED
    BY <1>6, <1>7, <1>8, <1>10

\* Flatten takes the types from the first to the last.
LEMMA FlattenSteps ==
  ASSUME NEW T, NEW members, Len(members) \in Nat,
         \A n \in 1 .. Len(members) : MembersOf(members[n]) \in Seq(T)
  PROVE  \E flat \in [0 .. Len(members) -> Seq(T)] :
            /\ flat[0] = <<>>
            /\ \A n \in 1 .. Len(members) : flat[n] = flat[n - 1] \o MembersOf(members[n])
            /\ Flatten(members) = flat[Len(members)]
<1> DEFINE m == Len(members)
           X == Seq(T)
           step == [n \in 1 .. m |-> [u \in X |-> u \o MembersOf(members[n])]]
           Is(f) == f = [n \in 0 .. m |-> IF n = 0 THEN <<>> ELSE f[n - 1] \o MembersOf(members[n])]
           the == CHOOSE f : Is(f)
<1>1. <<>> \in X
  BY EmptySeq
<1>2. \A n \in 1 .. m, u \in X : u \o MembersOf(members[n]) \in X
  BY ConcatProperties
<1>3. PICK f \in [0 .. m -> X] : Iterates(f, m, <<>>, step)
  <2>1. step \in [1 .. m -> [X -> X]]
    <3> HIDE DEF X
    <3>1. QED
      BY <1>2
  <2> HIDE DEF X, step
  <2>2. QED
    BY <1>1, <2>1, StepByStep
<1>4. Is(f)
  <2>1. ASSUME NEW n \in 1 .. m PROVE f[n] = f[n - 1] \o MembersOf(members[n])
    <3>1. f[n - 1] \in X
      <4>1. n - 1 \in 0 .. m
        OBVIOUS
      <4> HIDE DEF m, X
      <4>2. QED
        BY <4>1
    <3>2. step[n][f[n - 1]] = f[n - 1] \o MembersOf(members[n])
      BY <3>1
    <3>3. QED
      BY <1>3, <3>2 DEF Iterates
  <2>2. f[0] = <<>>
    BY <1>3 DEF Iterates
  <2> HIDE DEF X
  <2>3. QED
    BY <2>1, <2>2
<1>5. Is(the)
  <2> HIDE DEF Is
  <2>1. QED
    BY <1>4
<1>6. Flatten(members) = the[m]
  BY DEF Flatten
<1>7. \A n \in 1 .. m : the[n] = the[n - 1] \o MembersOf(members[n])
  <2>1. \A n \in 1 .. m : n \in 0 .. m /\ n # 0
    OBVIOUS
  <2> HIDE DEF the
  <2>2. QED
    BY <1>5, <2>1, Zenon
<1>8. the[0] = <<>> /\ DOMAIN the = 0 .. m
  <2> HIDE DEF the
  <2>1. QED
    BY <1>5
<1>9. \A n \in 0 .. m : the[n] \in X
  <2> DEFINE P == {n \in 0 .. m : the[n] \in X}
  <2> HIDE DEF the, X
  <2>1. 0 \in P
    BY <1>1, <1>8
  <2>2. ASSUME NEW n \in 0 .. m - 1, n \in P PROVE n + 1 \in P
    <3>1. n + 1 \in 1 .. m /\ n + 1 \in 0 .. m /\ (n + 1) - 1 = n
      OBVIOUS
    <3>2. the[n + 1] = the[n] \o MembersOf(members[n + 1])
      BY <1>7, <3>1
    <3>3. QED
      BY <1>2, <2>2, <3>1, <3>2
  <2>3. \A n \in 0 .. m - 1 : n \in P => n + 1 \in P
    BY <2>2
  <2>4. \A n \in 0 .. m : n \in P
    <3> HIDE DEF P
    <3>1. QED
      BY <2>1, <2>3, UpTo, Zenon
  <2>5. QED
    BY <2>4
<1>10. the \in [0 .. m -> X]
  <2>1. the = [n \in 0 .. m |-> the[n]]
    BY <1>5
  <2> HIDE DEF the, X
  <2>2. QED
    BY <1>9, <2>1
<1>11. QED
  <2> HIDE DEF the
  <2>1. QED
    BY <1>6, <1>7, <1>8, <1>10

-----------------------------------------------------------------------------
\* What NewUnion goes by tells types apart that are not the same, and only those.
SameOnce(T) ==
    /\ \A t \in T : Same(t, t)
    /\ \A t, d \in T : Same(t, d) => Same(d, t)

\* NewUnion keeps one of each of the types.
LEMMA UniqueKeepsOneOfEach ==
  ASSUME NEW T, SameOnce(T), NEW types \in Seq(T)
  PROVE  LET u == UniqueBy(Same, types)
         IN  /\ u \in Seq(T)
             /\ ToSet(u) \subseteq ToSet(types)
             /\ \A n \in 1 .. Len(types) : \E x \in ToSet(u) : Same(types[n], x)
             /\ \A i, j \in DOMAIN u : Same(u[i], u[j]) => i = j
<1> DEFINE m == Len(types)
           Kept(u, n) == /\ ToSet(u) \subseteq ToSet(types)
                         /\ \A k \in 1 .. n : \E x \in ToSet(u) : Same(types[k], x)
                         /\ \A i, j \in DOMAIN u : Same(u[i], u[j]) => i = j
<1>1. m \in Nat /\ DOMAIN types = 1 .. m /\ \A n \in 1 .. m : types[n] \in T
  BY LenProperties, ElementOfSeq
<1>2. PICK unique \in [0 .. m -> Seq(T)] :
            /\ unique[0] = <<>>
            /\ \A n \in 1 .. m : unique[n] = UniqueStep(unique[n - 1], types[n])
            /\ UniqueBy(Same, types) = unique[m]
  BY UniqueSteps
<1> DEFINE P == {n \in 0 .. m : Kept(unique[n], n)}
<1>3. 0 \in P
  <2>1. DOMAIN <<>> = {} /\ ToSet(<<>>) = {}
    BY DEF ToSet
  <2>2. Kept(<<>>, 0)
    BY <2>1
  <2> HIDE DEF Kept
  <2>3. QED
    BY <1>1, <1>2, <2>2
<1>4. ASSUME NEW n \in 0 .. m - 1, n \in P PROVE n + 1 \in P
  <2> DEFINE u == unique[n]
             t == types[n + 1]
  <2>1. n + 1 \in 1 .. m /\ n + 1 \in 0 .. m /\ n \in 0 .. m /\ (n + 1) - 1 = n
    BY <1>1
  <2>2. u \in Seq(T) /\ t \in T /\ unique[n + 1] = UniqueStep(u, t) /\ t \in ToSet(types)
    BY <1>1, <1>2, <2>1 DEF ToSet
  <2>3. Kept(u, n)
    BY <1>4
  <2>4. Len(u) \in Nat /\ DOMAIN u = 1 .. Len(u) /\ \A i \in DOMAIN u : u[i] \in T
    BY <2>2, LenProperties, ElementOfSeq
  <2>5. \A k \in 1 .. n + 1 : k \in 1 .. n \/ k = n + 1
    BY <2>1
  <2> HIDE DEF u, t
  <2>6. CASE \E x \in ToSet(u) : Same(t, x)
    <3>1. unique[n + 1] = u
      BY <2>2, <2>6 DEF UniqueStep
    <3>2. \A k \in 1 .. n + 1 : \E x \in ToSet(u) : Same(types[k], x)
      BY <2>3, <2>5, <2>6 DEF t
    <3>3. Kept(u, n + 1)
      BY <2>3, <3>2
    <3> HIDE DEF Kept
    <3>4. QED
      BY <2>1, <3>1, <3>3
  <2>7. CASE ~ \E x \in ToSet(u) : Same(t, x)
    <3> DEFINE w == Append(u, t)
    <3>1. unique[n + 1] = w
      BY <2>2, <2>7 DEF UniqueStep
    <3>2. /\ w \in Seq(T) /\ Len(w) = Len(u) + 1 /\ w[Len(u) + 1] = t
          /\ \A i \in 1 .. Len(u) : w[i] = u[i]
      BY <2>2, AppendProperties
    <3>3. DOMAIN w = 1 .. Len(u) + 1
      BY <3>2, LenProperties
    <3> HIDE DEF w
    <3>4. \A i \in DOMAIN w : (i \in DOMAIN u /\ w[i] = u[i]) \/ (i = Len(u) + 1 /\ w[i] = t)
      BY <2>4, <3>2, <3>3
    <3>5. \A x \in ToSet(u) : x \in ToSet(w)
      BY <2>4, <3>2, <3>3 DEF ToSet
    <3>6. t \in ToSet(w)
      <4>1. Len(u) + 1 \in DOMAIN w
        BY <2>4, <3>3
      <4>2. QED
        BY <3>2, <4>1 DEF ToSet
    <3>7. ToSet(w) \subseteq ToSet(types)
      BY <2>2, <2>3, <3>4 DEF ToSet
    <3>8. \A k \in 1 .. n + 1 : \E x \in ToSet(w) : Same(types[k], x)
      <4>1. Same(types[n + 1], t)
        BY <1>1, <2>1 DEF SameOnce, t
      <4>2. QED
        BY <2>3, <2>5, <3>5, <3>6, <4>1
    <3>9. \A i, j \in DOMAIN w : Same(w[i], w[j]) => i = j
      <4>1. \A i \in DOMAIN u : ~ Same(t, u[i]) /\ ~ Same(u[i], t)
        BY <2>2, <2>4, <2>7 DEF SameOnce, ToSet
      <4>2. QED
        BY <2>3, <3>4, <4>1
    <3>10. Kept(w, n + 1)
      BY <3>7, <3>8, <3>9
    <3> HIDE DEF Kept
    <3>11. QED
      BY <2>1, <3>1, <3>10
  <2>8. QED
    BY <2>6, <2>7
<1>5. \A n \in 0 .. m : n \in P
  <2>1. \A n \in 0 .. m - 1 : n \in P => n + 1 \in P
    BY <1>4
  <2> HIDE DEF P, m
  <2>2. QED
    BY <1>1, <1>3, <2>1, UpTo, Zenon
<1>6. Kept(unique[m], m) /\ unique[m] \in Seq(T)
  <2>1. m \in 0 .. m
    BY <1>1
  <2> HIDE DEF m, Kept
  <2>2. QED
    BY <1>2, <1>5, <2>1
<1>7. QED
  BY <1>2, <1>6

\* Flatten finds the members of all types, and nothing else.
LEMMA FlattenFindsAll ==
  ASSUME NEW T, NEW members, Len(members) \in Nat,
         \A n \in 1 .. Len(members) : MembersOf(members[n]) \in Seq(T)
  PROVE  /\ Flatten(members) \in Seq(T)
         /\ \A x : x \in ToSet(Flatten(members)) <=> \E n \in 1 .. Len(members) : x \in ToSet(MembersOf(members[n]))
<1> DEFINE m == Len(members)
           Found(f, n) == \A x : x \in ToSet(f) <=> \E k \in 1 .. n : x \in ToSet(MembersOf(members[k]))
<1>1. PICK flat \in [0 .. m -> Seq(T)] :
            /\ flat[0] = <<>>
            /\ \A n \in 1 .. m : flat[n] = flat[n - 1] \o MembersOf(members[n])
            /\ Flatten(members) = flat[m]
  BY FlattenSteps
<1> DEFINE P == {n \in 0 .. m : Found(flat[n], n)}
<1>2. 0 \in P
  <2>1. ToSet(<<>>) = {}
    BY DEF ToSet
  <2>2. Found(<<>>, 0)
    BY <2>1
  <2> HIDE DEF Found
  <2>3. QED
    BY <1>1, <2>2
<1>3. ASSUME NEW n \in 0 .. m - 1, n \in P PROVE n + 1 \in P
  <2> DEFINE f == flat[n]
             g == MembersOf(members[n + 1])
  <2>1. n + 1 \in 1 .. m /\ n + 1 \in 0 .. m /\ n \in 0 .. m /\ (n + 1) - 1 = n
    OBVIOUS
  <2>2. f \in Seq(T) /\ g \in Seq(T) /\ flat[n + 1] = f \o g /\ Found(f, n)
    BY <1>1, <1>3, <2>1
  <2>3. \A k \in 1 .. n + 1 : k \in 1 .. n \/ k = n + 1
    BY <2>1
  <2>4. \A k \in 1 .. n : k \in 1 .. n + 1
    BY <2>1
  <2>5. ToSet(f \o g) = ToSet(f) \cup ToSet(g)
    <3> HIDE DEF f, g
    <3>1. Range(f \o g) = Range(f) \cup Range(g)
      BY <2>2, RangeConcatenation
    <3>2. QED
      BY <3>1 DEF Range, ToSet
  <2>6. Found(f \o g, n + 1)
    <3>1. n + 1 \in 1 .. n + 1
      BY <2>1
    <3>2. ASSUME NEW x PROVE x \in ToSet(f \o g) <=> \E k \in 1 .. n + 1 : x \in ToSet(MembersOf(members[k]))
      <4>1. x \in ToSet(f) <=> \E k \in 1 .. n : x \in ToSet(MembersOf(members[k]))
        BY <2>2
      <4>2. x \in ToSet(g) <=> x \in ToSet(MembersOf(members[n + 1]))
        OBVIOUS
      <4> HIDE DEF f, g
      <4>3. QED
        BY <2>3, <2>4, <2>5, <3>1, <4>1, <4>2, Zenon
    <3>3. QED
      BY <3>2
  <2> HIDE DEF Found
  <2>7. QED
    BY <2>1, <2>2, <2>6
<1>4. \A n \in 0 .. m : n \in P
  <2>1. \A n \in 0 .. m - 1 : n \in P => n + 1 \in P
    BY <1>3
  <2> HIDE DEF P
  <2>2. QED
    BY <1>2, <2>1, UpTo, Zenon
<1>5. Found(flat[m], m) /\ flat[m] \in Seq(T)
  <2> HIDE DEF Found
  <2>1. QED
    BY <1>1, <1>4
<1>6. QED
  BY <1>1, <1>5

-----------------------------------------------------------------------------
(***************************************************************************)
(* NewUnion makes flat unions of types whose unions are flat.                *)
(***************************************************************************)
Simple(S) == {x \in S : ~ IsUnion(x)}

\* A type becomes a part of a union by members that are none.
LEMMA MembersAreSimple ==
  ASSUME NEW S, NEW height \in [S -> Nat], WellFounded(S, height), NEW t \in S, Flat(t)
  PROVE  MembersOf(t) \in Seq(Simple(S)) /\ \E x \in ToSet(MembersOf(t)) : x \in S
<1>1. t # <<>>
  BY DEF WellFounded
<1>2. CASE IsUnion(t)
  <2>1. t[2] \in Seq(S)
    BY <1>2 DEF WellFounded, IsUnion
  <2>2. \A i \in DOMAIN t[2] : ~ IsUnion(t[2][i])
    BY <1>2 DEF Flat
  <2>3. Len(t[2]) \in Nat /\ DOMAIN t[2] = 1 .. Len(t[2]) /\ \A i \in 1 .. Len(t[2]) : t[2][i] \in Simple(S)
    BY <2>1, <2>2, LenProperties, ElementOfSeq DEF Simple
  <2>4. t[2] \in Seq(Simple(S))
    BY <2>1, <2>3, SeqOfElements
  <2>5. 1 \in DOMAIN t[2]
    BY <1>2, <2>3 DEF Flat
  <2>6. QED
    BY <1>1, <1>2, <2>3, <2>4, <2>5 DEF MembersOf, ToSet, Simple
<1>3. CASE ~ IsUnion(t)
  <2>1. <<t>> \in Seq(Simple(S))
    BY <1>3 DEF Simple
  <2>2. t \in ToSet(<<t>>)
    BY DEF ToSet
  <2>3. QED
    BY <1>1, <1>3, <2>1, <2>2 DEF MembersOf
<1>4. QED
  BY <1>2, <1>3

\* What NewUnion puts together of any number of types: the members of each, those
\* that are the same only once.
LEMMA NewUnionPutsTogether ==
  ASSUME NEW S, NEW height \in [S -> Nat], WellFounded(S, height), Comparable(S), \A x \in S : Flat(x),
         NEW members \in Seq(S)
  PROVE  LET u == UniqueBy(Same, Flatten(members))
         IN  /\ u \in Seq(Simple(S))
             /\ \A i, j \in DOMAIN u : Same(u[i], u[j]) => i = j
             /\ \A x \in ToSet(u) : \E n \in DOMAIN members : x \in ToSet(MembersOf(members[n]))
             /\ \A n \in DOMAIN members : \A m \in ToSet(MembersOf(members[n])) :
                   m \in S /\ \E x \in ToSet(u) : Same(m, x)
<1> DEFINE T == Simple(S)
           types == Flatten(members)
           u == UniqueBy(Same, types)
<1>1. /\ Len(members) \in Nat /\ DOMAIN members = 1 .. Len(members)
      /\ \A n \in 1 .. Len(members) : members[n] \in S /\ MembersOf(members[n]) \in Seq(T)
  BY LenProperties, ElementOfSeq, MembersAreSimple
<1>2. /\ types \in Seq(T)
      /\ \A x : x \in ToSet(types) <=> \E n \in 1 .. Len(members) : x \in ToSet(MembersOf(members[n]))
  <2> HIDE DEF T
  <2>1. QED
    BY <1>1, FlattenFindsAll
<1>3. SameOnce(T)
  BY EqualsIsAnEquivalence DEF Equivalence, SameOnce, Simple
<1>4. /\ u \in Seq(T) /\ ToSet(u) \subseteq ToSet(types)
      /\ \A i, j \in DOMAIN u : Same(u[i], u[j]) => i = j
      /\ \A n \in 1 .. Len(types) : \E x \in ToSet(u) : Same(types[n], x)
  <2> HIDE DEF T, types
  <2>1. QED
    BY <1>2, <1>3, UniqueKeepsOneOfEach
<1>5. /\ \A x \in ToSet(types) : x \in T
      /\ \A x \in ToSet(types) : \E n \in 1 .. Len(types) : x = types[n]
  <2> HIDE DEF T, types
  <2>1. QED
    BY <1>2, LenProperties, ElementOfSeq, SMTT(60) DEF ToSet
<1>6. ASSUME NEW x \in ToSet(u) PROVE x \in T /\ \E n \in DOMAIN members : x \in ToSet(MembersOf(members[n]))
  <2> HIDE DEF T, types, u
  <2>1. QED
    BY <1>1, <1>2, <1>4, <1>5
<1>7. ASSUME NEW n \in DOMAIN members, NEW m \in ToSet(MembersOf(members[n]))
      PROVE  m \in T /\ \E x \in ToSet(u) : Same(m, x)
  <2> HIDE DEF T, types, u
  <2>1. m \in ToSet(types)
    BY <1>1, <1>2
  <2>2. QED
    BY <1>4, <1>5, <2>1
<1>8. QED
  BY <1>4, <1>6, <1>7 DEF Simple

\* What NewUnion returns: the only member, or a union of several.
LEMMA NewUnionReturns ==
  ASSUME NEW S, NEW height \in [S -> Nat], WellFounded(S, height), Comparable(S), \A x \in S : Flat(x),
         NEW members \in Seq(S), members # <<>>
  PROVE  LET u == UniqueBy(Same, Flatten(members))
         IN  /\ DOMAIN u = 1 .. Len(u) /\ \A i \in DOMAIN u : u[i] \in S /\ ~ IsUnion(u[i])
             /\ \/ Len(u) = 1 /\ UnionOf(members) = u[1]
                \/ Len(u) \in Nat /\ Len(u) >= 2 /\ UnionOf(members) = <<"union", u>>
<1> DEFINE u == UniqueBy(Same, Flatten(members))
<1>1. /\ u \in Seq(Simple(S))
      /\ \A n \in DOMAIN members : \A m \in ToSet(MembersOf(members[n])) :
            m \in S /\ \E x \in ToSet(u) : Same(m, x)
  BY NewUnionPutsTogether, ZenonT(60)
<1>2. DOMAIN u = 1 .. Len(u) /\ Len(u) \in Nat /\ \A i \in DOMAIN u : u[i] \in S /\ ~ IsUnion(u[i])
  <2> HIDE DEF u
  <2>1. QED
    BY <1>1, LenProperties, ElementOfSeq DEF Simple
<1>3. u # <<>>
  <2>1. 1 \in DOMAIN members /\ members[1] \in S
    BY EmptySeq, LenProperties, ElementOfSeq
  <2>2. PICK m \in ToSet(MembersOf(members[1])) : m \in S
    BY <2>1, MembersAreSimple
  <2> HIDE DEF u
  <2>3. \E x \in ToSet(u) : Same(m, x)
    BY <1>1, <2>1
  <2>4. QED
    BY <2>3 DEF ToSet
<1>4. UnionOf(members) = CASE u = <<>> -> <<>> [] Len(u) = 1 -> u[1] [] OTHER -> <<"union", u>>
  BY DEF UnionOf, UnionBy
<1> HIDE DEF u
<1>5. CASE Len(u) = 1
  BY <1>2, <1>3, <1>4, <1>5 DEF u
<1>6. CASE Len(u) # 1
  <2>1. Len(u) # 0
    BY <1>1, <1>3, EmptySeq
  <2>2. Len(u) >= 2
    <3>1. \A n \in Nat : n # 0 /\ n # 1 => n >= 2
      OBVIOUS
    <3>2. QED
      BY <1>2, <1>6, <2>1, <3>1, Zenon
  <2>3. QED
    BY <1>2, <1>3, <1>4, <1>6, <2>2 DEF u
<1>7. QED
  BY <1>5, <1>6

\* The union of any number of types is flat.
LEMMA NewUnionIsFlat ==
  ASSUME NEW S, NEW height \in [S -> Nat], WellFounded(S, height), Comparable(S), \A x \in S : Flat(x),
         NEW members \in Seq(S), members # <<>>
  PROVE  Flat(UnionOf(members))
<1> DEFINE u == UniqueBy(Same, Flatten(members))
<1>1. \A i, j \in DOMAIN u : Same(u[i], u[j]) => i = j
  BY NewUnionPutsTogether
<1>2. /\ DOMAIN u = 1 .. Len(u) /\ \A i \in DOMAIN u : u[i] \in S /\ ~ IsUnion(u[i])
      /\ \/ Len(u) = 1 /\ UnionOf(members) = u[1]
         \/ Len(u) \in Nat /\ Len(u) >= 2 /\ UnionOf(members) = <<"union", u>>
  BY NewUnionReturns
<1> HIDE DEF u
<1>3. QED
  BY <1>1, <1>2, SMTT(60) DEF Flat

-----------------------------------------------------------------------------
(***************************************************************************)
(* Equal types are as good as each other: they stand for the same values, and *)
(* what has the one may be given to the other.                                *)
(***************************************************************************)
StandForTheSame(T) == \A t, o \in T : Same(t, o) => \A v \in Values : Has(t, v) <=> Has(o, v)

\* One level of Type.Equals.
LEMMA EqualTypesShareValues ==
  ASSUME NEW S, NEW height \in [S -> Nat], WellFounded(S, height), Comparable(S), Recursive(S),
         NEW T, StandForTheSame(T), NEW t \in S, NEW o \in S, Parts(t) \subseteq T, Parts(o) \subseteq T,
         Same(t, o), NEW v \in Values, Has(t, v)
  PROVE  Has(o, v)
<1> USE ValuesAssumption
<1>1. EqualsBy(Same, t, o) /\ HasBy(Has, t, v)
  BY DEF Comparable, Recursive
<1>2. t # <<>> /\ o # <<>>
  BY DEF WellFounded
<1>3. Kind(t) = Kind(o)
  BY <1>1, <1>2 DEF EqualsBy
<1>4. \A x, y \in T, w \in Values : Same(x, y) => (Has(x, w) <=> Has(y, w))
  BY DEF StandForTheSame
<1>5. HasBy(Has, o, v)
  <2>1. CASE Kind(t) = "array"
    <3>1. t[2] \in T /\ o[2] \in T
      BY <1>3, <2>1, PartsAreAmong
    <3>2. Same(t[2], o[2])
      BY <1>1, <1>2, <1>3, <2>1 DEF EqualsBy
    <3>3. v[1] = "array" /\ \A i \in DOMAIN v[2] : Has(t[2], v[2][i])
      BY <1>1, <2>1 DEF HasBy
    <3>4. \A i \in DOMAIN v[2] : v[2][i] \in Values
      BY <3>3, ElementOfSeq, LenProperties
    <3>5. \A i \in DOMAIN v[2] : Has(o[2], v[2][i])
      BY <1>4, <3>1, <3>2, <3>3, <3>4
    <3>6. QED
      BY <1>3, <2>1, <3>3, <3>5 DEF HasBy
  <2>2. CASE Kind(t) = "tuple"
    <3>1. /\ DOMAIN t[2] = 1 .. Len(t[2]) /\ \A i \in DOMAIN t[2] : t[2][i] \in T
          /\ DOMAIN o[2] = 1 .. Len(o[2]) /\ \A i \in DOMAIN o[2] : o[2][i] \in T
      BY <1>3, <2>2, PartsAreAmong
    <3>2. Len(t[2]) = Len(o[2]) /\ \A i \in DOMAIN t[2] : Same(t[2][i], o[2][i])
      BY <1>1, <1>2, <1>3, <2>2 DEF EqualsBy, AllFit
    <3>3. v[1] = "array" /\ Len(v[2]) = Len(t[2]) /\ \A i \in DOMAIN v[2] : Has(t[2][i], v[2][i])
      BY <1>1, <2>2 DEF HasBy
    <3>4. DOMAIN v[2] = 1 .. Len(v[2]) /\ \A i \in DOMAIN v[2] : v[2][i] \in Values
      BY <3>3, ElementOfSeq, LenProperties
    <3>5. \A i \in DOMAIN v[2] : Has(o[2][i], v[2][i])
      BY <1>4, <3>1, <3>2, <3>3, <3>4
    <3>6. QED
      BY <1>3, <2>2, <3>2, <3>3, <3>5 DEF HasBy
  <2>3. CASE Kind(t) = "func"
    <3>1. t[2][1] \in T /\ o[2][1] \in T /\ t[3] \in T /\ o[3] \in T
      <4>1. Len(t[2]) = 1 /\ Len(o[2]) = 1
        BY <1>3, <2>3 DEF WellFounded
      <4>2. /\ DOMAIN t[2] = 1 .. Len(t[2]) /\ \A i \in DOMAIN t[2] : t[2][i] \in T
            /\ DOMAIN o[2] = 1 .. Len(o[2]) /\ \A i \in DOMAIN o[2] : o[2][i] \in T
        BY <1>3, <2>3, PartsAreAmong
      <4>3. t[3] \in T /\ o[3] \in T
        BY <1>3, <2>3, PartsAreAmong
      <4>4. QED
        BY <4>1, <4>2, <4>3
    <3>2. AllFit(Same, t[2], o[2]) /\ Same(t[3], o[3])
      BY <1>1, <1>2, <1>3, <2>3 DEF EqualsBy
    <3>3. Same(t[2][1], o[2][1])
      <4>1. Len(t[2]) = 1 /\ DOMAIN t[2] = 1 .. Len(t[2])
        BY <2>3, PartsAreAmong DEF WellFounded
      <4>2. QED
        BY <3>2, <4>1 DEF AllFit
    <3>4. /\ v[1] = "func"
          /\ \A x \in Values : Has(t[2][1], x) => x \in v[2]
          /\ \A x \in v[3] : Has(t[3], x)
      BY <1>1, <2>3 DEF HasBy
    <3>5. \A x \in Values : Has(o[2][1], x) => x \in v[2]
      BY <1>4, <3>1, <3>3, <3>4
    <3>6. \A x \in v[3] : Has(o[3], x)
      BY <1>4, <3>1, <3>2, <3>4
    <3>7. QED
      BY <1>3, <2>3, <3>4, <3>5, <3>6 DEF HasBy
  <2>4. CASE Kind(t) = "object"
    <3>1. /\ \A n \in DOMAIN t[2] : t[2][n] \in T
          /\ \A n \in DOMAIN o[2] : o[2][n] \in T
          /\ t[3] # <<>> => t[3] \in T
          /\ o[3] # <<>> => o[3] \in T
      BY <1>3, <2>4, PartsAreAmong
    <3>2. /\ DOMAIN t[2] = DOMAIN o[2] /\ \A n \in DOMAIN t[2] : Same(t[2][n], o[2][n])
          /\ (t[3] = <<>> <=> o[3] = <<>>) /\ (t[3] # <<>> => Same(t[3], o[3]))
      BY <1>1, <1>2, <1>3, <2>4 DEF EqualsBy
    <3>3. /\ v[1] = "object" /\ DOMAIN t[2] \subseteq DOMAIN v[2]
          /\ t[3] = <<>> => DOMAIN v[2] = DOMAIN t[2]
          /\ \A n \in DOMAIN v[2] : Has(PropType(t, n), v[2][n])
      BY <1>1, <2>4 DEF HasBy
    <3>4. ASSUME NEW n \in DOMAIN v[2] PROVE Has(PropType(o, n), v[2][n])
      <4>1. v[2][n] \in Values /\ Has(PropType(t, n), v[2][n])
        BY <3>3
      <4>2. CASE n \in DOMAIN t[2]
        BY <1>4, <3>1, <3>2, <4>1, <4>2 DEF PropType
      <4>3. CASE n \notin DOMAIN t[2]
        <5>1. t[3] # <<>>
          BY <3>3, <4>3
        <5>2. QED
          BY <1>4, <3>1, <3>2, <4>1, <4>3, <5>1 DEF PropType
      <4>4. QED
        BY <4>2, <4>3
    <3>5. QED
      BY <1>3, <2>4, <3>2, <3>3, <3>4 DEF HasBy
  <2>5. CASE Kind(t) = "union"
    <3>1. ToSet(t[2]) \subseteq T /\ ToSet(o[2]) \subseteq T
      BY <1>3, <2>5 DEF Parts
    <3>2. \A m \in ToSet(t[2]) : \E x \in ToSet(o[2]) : Same(m, x)
      BY <1>1, <1>2, <1>3, <2>5 DEF EqualsBy
    <3>3. PICK m \in ToSet(t[2]) : Has(m, v)
      BY <1>1, <2>5 DEF HasBy
    <3>4. PICK x \in ToSet(o[2]) : Same(m, x)
      BY <3>2
    <3>5. Has(x, v)
      BY <1>4, <3>1, <3>3, <3>4
    <3>6. QED
      BY <1>3, <2>5, <3>5 DEF HasBy
  <2>6. CASE Kind(t) \notin {"array", "tuple", "func", "object", "union"}
    BY <1>1, <1>2, <1>3, <2>6 DEF EqualsBy
  <2>7. QED
    BY <2>1, <2>2, <2>3, <2>4, <2>5, <2>6
<1>6. QED
  BY <1>5 DEF Recursive

\* Equal types stand for the same values, by induction on their heights.
LEMMA EqualTypesStandForTheSame ==
  ASSUME NEW S, NEW height \in [S -> Nat], WellFounded(S, height), Comparable(S), Recursive(S), \A x \in S : Flat(x)
  PROVE  StandForTheSame(S)
<1> DEFINE Below(n) == {x \in S : height[x] < n}
<1>1. ASSUME NEW m \in Nat PROVE StandForTheSame(Below(m))
  <2> DEFINE P == {n \in 0 .. m : StandForTheSame(Below(n))}
  <2>1. 0 \in P
    <3>1. Below(0) = {}
      OBVIOUS
    <3>2. StandForTheSame({})
      BY DEF StandForTheSame
    <3> HIDE DEF Below
    <3>3. QED
      BY <3>1, <3>2
  <2>2. ASSUME NEW n \in 0 .. m - 1, n \in P PROVE n + 1 \in P
    <3> DEFINE T == Below(n)
    <3>1. StandForTheSame(T) /\ n + 1 \in 0 .. m
      BY <2>2
    <3>2. \A x \in Below(n + 1) : x \in S /\ Parts(x) \subseteq T
      BY DEF WellFounded
    <3> HIDE DEF T, Below
    <3>3. ASSUME NEW t \in Below(n + 1), NEW o \in Below(n + 1), Same(t, o), NEW v \in Values
          PROVE  Has(t, v) <=> Has(o, v)
      <4>1. Same(o, t)
        BY <3>2, <3>3, EqualsIsAnEquivalence DEF Equivalence
      <4>2. Has(t, v) => Has(o, v)
        BY <3>1, <3>2, <3>3, EqualTypesShareValues
      <4>3. Has(o, v) => Has(t, v)
        BY <3>1, <3>2, <4>1, EqualTypesShareValues
      <4>4. QED
        BY <4>2, <4>3
    <3>4. StandForTheSame(Below(n + 1))
      BY <3>3 DEF StandForTheSame
    <3>5. QED
      BY <3>1, <3>4
  <2>3. \A n \in 0 .. m - 1 : n \in P => n + 1 \in P
    BY <2>2
  <2>4. \A n \in 0 .. m : n \in P
    <3> HIDE DEF P
    <3>1. QED
      BY <2>1, <2>3, UpTo, Zenon
  <2>5. QED
    <3>1. m \in 0 .. m
      OBVIOUS
    <3> HIDE DEF Below
    <3>2. QED
      BY <2>4, <3>1
<1>2. ASSUME NEW t \in S, NEW o \in S, Same(t, o) PROVE \A v \in Values : Has(t, v) <=> Has(o, v)
  <2>1. PICK m \in Nat : t \in Below(m) /\ o \in Below(m)
    <3>1. height[t] + height[o] + 1 \in Nat
      OBVIOUS
    <3>2. t \in Below(height[t] + height[o] + 1) /\ o \in Below(height[t] + height[o] + 1)
      OBVIOUS
    <3> HIDE DEF Below
    <3>3. QED
      BY <3>1, <3>2
  <2> HIDE DEF Below
  <2>2. QED
    BY <1>1, <1>2, <2>1 DEF StandForTheSame
<1>3. QED
  BY <1>2 DEF StandForTheSame

\* What has one of two equal types may be given to the other.
AssignableToEqual(T) == \A t, o \in T : Same(t, o) => Assignable(t, o)

\* One level of Type.AssignableTo.
LEMMA EqualTypesFit ==
  ASSUME NEW S, NEW height \in [S -> Nat], WellFounded(S, height), Comparable(S), Recursive(S), NoGenerics(S),
         NEW T, AssignableToEqual(T), NEW t \in S, NEW o \in S, Parts(t) \subseteq T, Parts(o) \subseteq T,
         Same(t, o)
  PROVE  Assignable(t, o)
<1>1. EqualsBy(Same, t, o)
  BY DEF Comparable
<1>2. t # <<>> /\ o # <<>>
  BY DEF WellFounded
<1>3. Kind(t) = Kind(o)
  BY <1>1, <1>2 DEF EqualsBy
<1>4. \A x, y \in T : Same(x, y) => Assignable(x, y)
  BY DEF AssignableToEqual
<1>5. CASE Kind(t) = "union"
  <2>1. ToSet(t[2]) \subseteq T /\ ToSet(o[2]) \subseteq T
    BY <1>3, <1>5 DEF Parts
  <2>2. \A m \in ToSet(t[2]) : \E x \in ToSet(o[2]) : Same(m, x)
    BY <1>1, <1>2, <1>3, <1>5 DEF EqualsBy
  <2>3. \A m \in ToSet(t[2]) : \E x \in ToSet(o[2]) : Assignable(m, x)
    BY <1>4, <2>1, <2>2
  <2>4. AssignableBy(Assignable, Instance, t, o)
    BY <1>2, <1>3, <1>5, <2>3 DEF AssignableBy, IsUnion
  <2>5. QED
    BY <2>4 DEF Recursive
<1>6. CASE IsLiteral(t) \/ IsLiteral(o)
  <2>1. t = o
    BY <1>1, <1>2, <1>3, <1>6 DEF EqualsBy, IsLiteral, Literals
  <2>2. AssignableBy(Assignable, Instance, t, o)
    BY <1>2, <1>3, <1>6, <2>1 DEF AssignableBy, IsUnion, IsLiteral, Literals, LiteralFits
  <2>3. QED
    BY <2>2 DEF Recursive
<1>7. CASE Kind(t) # "union" /\ ~ IsLiteral(t) /\ ~ IsLiteral(o)
  <2>1. PartsFit(Assignable, Instance, t, o)
    <3>1. CASE Kind(t) = "array"
      <4>1. t[2] \in T /\ o[2] \in T
        BY <1>3, <3>1, PartsAreAmong
      <4>2. QED
        BY <1>1, <1>2, <1>3, <1>4, <3>1, <4>1 DEF EqualsBy, PartsFit
    <3>2. ASSUME Kind(t) \in {"tuple", "func"} PROVE AllFit(Assignable, t[2], o[2])
      <4>1. AllFit(Same, t[2], o[2])
        BY <1>1, <1>2, <1>3, <3>2 DEF EqualsBy
      <4>2. /\ DOMAIN t[2] = 1 .. Len(t[2]) /\ \A i \in DOMAIN t[2] : t[2][i] \in T
            /\ DOMAIN o[2] = 1 .. Len(o[2]) /\ \A i \in DOMAIN o[2] : o[2][i] \in T
        BY <1>3, <3>2, PartsAreAmong
      <4>3. QED
        BY <1>4, <4>1, <4>2 DEF AllFit
    <3>3. CASE Kind(t) = "tuple"
      BY <3>2, <3>3 DEF PartsFit
    <3>4. CASE Kind(t) = "func"
      <4>1. t[3] \in T /\ o[3] \in T
        BY <1>3, <3>4, PartsAreAmong
      <4>2. Same(t[3], o[3])
        BY <1>1, <1>2, <1>3, <3>4 DEF EqualsBy
      <4>3. t[4] = {}
        BY <3>4 DEF NoGenerics
      <4>4. QED
        BY <1>4, <3>2, <3>4, <4>1, <4>2, <4>3 DEF PartsFit
    <3>5. CASE Kind(t) = "object"
      <4>1. /\ \A n \in DOMAIN t[2] : t[2][n] \in T
            /\ \A n \in DOMAIN o[2] : o[2][n] \in T
            /\ t[3] # <<>> => t[3] \in T
            /\ o[3] # <<>> => o[3] \in T
        BY <1>3, <3>5, PartsAreAmong
      <4>2. /\ DOMAIN t[2] = DOMAIN o[2] /\ \A n \in DOMAIN t[2] : Same(t[2][n], o[2][n])
            /\ (t[3] = <<>> <=> o[3] = <<>>) /\ (t[3] # <<>> => Same(t[3], o[3]))
        BY <1>1, <1>2, <1>3, <3>5 DEF EqualsBy
      <4>3. \A n \in DOMAIN t[2] : Assignable(t[2][n], o[2][n])
        BY <1>4, <4>1, <4>2
      <4>4. t[3] # <<>> => Assignable(t[3], o[3])
        BY <1>4, <4>1, <4>2
      <4>5. QED
        BY <3>5, <4>2, <4>3, <4>4 DEF PartsFit, IsMap
    <3>6. CASE Kind(t) \notin {"array", "tuple", "func", "object"}
      BY <1>1, <1>2, <1>3, <1>7, <3>6 DEF EqualsBy, PartsFit
    <3>7. QED
      BY <3>1, <3>3, <3>4, <3>5, <3>6
  <2>2. AssignableBy(Assignable, Instance, t, o)
    BY <1>2, <1>3, <1>7, <2>1 DEF AssignableBy, IsUnion
  <2>3. QED
    BY <2>2 DEF Recursive
<1>8. QED
  BY <1>5, <1>6, <1>7

\* Equal types may be assigned to each other, by induction on their heights.
LEMMA EqualTypesAreAssignable ==
  ASSUME NEW S, NEW height \in [S -> Nat], WellFounded(S, height), Comparable(S), Recursive(S), NoGenerics(S)
  PROVE  AssignableToEqual(S)
<1> DEFINE Below(n) == {x \in S : height[x] < n}
<1>1. ASSUME NEW m \in Nat PROVE AssignableToEqual(Below(m))
  <2> DEFINE P == {n \in 0 .. m : AssignableToEqual(Below(n))}
  <2>1. 0 \in P
    <3>1. Below(0) = {}
      OBVIOUS
    <3>2. AssignableToEqual({})
      BY DEF AssignableToEqual
    <3> HIDE DEF Below
    <3>3. QED
      BY <3>1, <3>2, SMTT(60)
  <2>2. ASSUME NEW n \in 0 .. m - 1, n \in P PROVE n + 1 \in P
    <3> DEFINE T == Below(n)
    <3>1. AssignableToEqual(T) /\ n + 1 \in 0 .. m
      BY <2>2
    <3>2. \A x \in Below(n + 1) : x \in S /\ Parts(x) \subseteq T
      BY DEF WellFounded
    <3> HIDE DEF T, Below
    <3>3. ASSUME NEW t \in Below(n + 1), NEW o \in Below(n + 1), Same(t, o) PROVE Assignable(t, o)
      BY <3>1, <3>2, <3>3, EqualTypesFit
    <3>4. AssignableToEqual(Below(n + 1))
      BY <3>3 DEF AssignableToEqual
    <3>5. QED
      BY <3>1, <3>4
  <2>3. \A n \in 0 .. m - 1 : n \in P => n + 1 \in P
    BY <2>2
  <2>4. \A n \in 0 .. m : n \in P
    <3> HIDE DEF P
    <3>1. QED
      BY <2>1, <2>3, UpTo, Zenon
  <2>5. QED
    <3>1. m \in 0 .. m
      OBVIOUS
    <3> HIDE DEF Below
    <3>2. QED
      BY <2>4, <3>1
<1>2. ASSUME NEW t \in S, NEW o \in S, Same(t, o) PROVE Assignable(t, o)
  <2>1. PICK m \in Nat : t \in Below(m) /\ o \in Below(m)
    <3>1. height[t] + height[o] + 1 \in Nat
      OBVIOUS
    <3>2. t \in Below(height[t] + height[o] + 1) /\ o \in Below(height[t] + height[o] + 1)
      OBVIOUS
    <3> HIDE DEF Below
    <3>3. QED
      BY <3>1, <3>2
  <2> HIDE DEF Below
  <2>2. QED
    BY <1>1, <1>2, <2>1 DEF AssignableToEqual
<1>3. QED
  BY <1>2 DEF AssignableToEqual

-----------------------------------------------------------------------------
\* The members of a type as its member list has them.
LEMMA MembersOfAType ==
  ASSUME NEW t, t # <<>>
  PROVE  /\ IsUnion(t) => ToSet(MembersOf(t)) = ToSet(t[2])
         /\ ~ IsUnion(t) => ToSet(MembersOf(t)) = {t}
BY DEF MembersOf, ToSet

\* A union stands for the values of the types it is made of, and for no others:
\* NewUnion leaves out only members that are the same as another one.
THEOREM UnionsStandForTheirMembers ==
  ASSUME NEW S, NEW height \in [S -> Nat], WellFounded(S, height), Comparable(S), Recursive(S), \A x \in S : Flat(x),
         NEW members \in Seq(S), members # <<>>, NEW v \in Values
  PROVE  HasBy(Has, UnionOf(members), v) <=> \E n \in DOMAIN members : Has(members[n], v)
<1> DEFINE u == UniqueBy(Same, Flatten(members))
<1>1. /\ u \in Seq(Simple(S))
      /\ \A x \in ToSet(u) : \E n \in DOMAIN members : x \in ToSet(MembersOf(members[n]))
      /\ \A n \in DOMAIN members : \A m \in ToSet(MembersOf(members[n])) :
            m \in S /\ \E x \in ToSet(u) : Same(m, x)
  BY NewUnionPutsTogether, ZenonT(60)
<1>2. \A n \in DOMAIN members : members[n] \in S
  BY LenProperties, ElementOfSeq
<1>3. ASSUME NEW t \in S PROVE Has(t, v) <=> \E m \in ToSet(MembersOf(t)) : Has(m, v)
  <2>1. t # <<>>
    BY DEF WellFounded
  <2>2. CASE IsUnion(t)
    <3>1. Has(t, v) <=> HasBy(Has, t, v)
      BY DEF Recursive
    <3>2. HasBy(Has, t, v) <=> \E m \in ToSet(t[2]) : Has(m, v)
      BY <2>2 DEF HasBy, IsUnion
    <3>3. QED
      BY <2>1, <2>2, <3>1, <3>2, MembersOfAType
  <2>3. CASE ~ IsUnion(t)
    BY <2>1, <2>3, MembersOfAType
  <2>4. QED
    BY <2>2, <2>3
<1>4. (\E n \in DOMAIN members : Has(members[n], v)) <=> \E x \in ToSet(u) : Has(x, v)
  <2> HIDE DEF u
  <2>1. ASSUME NEW x \in ToSet(u), Has(x, v) PROVE \E n \in DOMAIN members : Has(members[n], v)
    BY <1>1, <1>2, <1>3, <2>1
  <2>2. ASSUME NEW n \in DOMAIN members, Has(members[n], v) PROVE \E x \in ToSet(u) : Has(x, v)
    <3>1. PICK m \in ToSet(MembersOf(members[n])) : Has(m, v)
      BY <1>2, <1>3, <2>2
    <3>2. PICK x \in ToSet(u) : m \in S /\ x \in S /\ Same(m, x)
      BY <1>1, LenProperties, ElementOfSeq, SMTT(60) DEF Simple, ToSet
    <3>3. Has(x, v)
      BY <3>1, <3>2, EqualTypesStandForTheSame DEF StandForTheSame
    <3>4. QED
      BY <3>3
  <2>3. QED
    BY <2>1, <2>2
<1>5. HasBy(Has, UnionOf(members), v) <=> \E x \in ToSet(u) : Has(x, v)
  <2>1. /\ DOMAIN u = 1 .. Len(u) /\ \A i \in DOMAIN u : u[i] \in S /\ ~ IsUnion(u[i])
        /\ \/ Len(u) = 1 /\ UnionOf(members) = u[1]
           \/ Len(u) \in Nat /\ Len(u) >= 2 /\ UnionOf(members) = <<"union", u>>
    BY NewUnionReturns
  <2> HIDE DEF u
  <2>2. CASE Len(u) = 1 /\ UnionOf(members) = u[1]
    <3>1. ToSet(u) = {u[1]} /\ u[1] \in S
      BY <2>1, <2>2 DEF ToSet
    <3>2. QED
      BY <2>2, <3>1 DEF Recursive
  <2>3. CASE UnionOf(members) = <<"union", u>>
    <3>1. Kind(<<"union", u>>) = "union" /\ <<"union", u>>[2] = u
      BY DEF Kind
    <3>2. QED
      BY <2>3, <3>1 DEF HasBy
  <2>4. QED
    BY <2>1, <2>2, <2>3
<1>6. QED
  BY <1>4, <1>5

\* Whatever is a value of one of the types that NewUnion puts together may be given to
\* the union (Type.AssignableTo), also where the member is there by an equal type only.
THEOREM MembersFitTheirUnion ==
  ASSUME NEW S, NEW height \in [S -> Nat], WellFounded(S, height), Comparable(S), Recursive(S), NoGenerics(S),
         \A x \in S : Flat(x), NEW members \in Seq(S), NEW n \in DOMAIN members
  PROVE  AssignableBy(Assignable, Instance, members[n], UnionOf(members))
<1> DEFINE u == UniqueBy(Same, Flatten(members))
           t == members[n]
<1>1. t \in S /\ t # <<>> /\ members # <<>>
  BY LenProperties, ElementOfSeq, EmptySeq DEF WellFounded
<1>2. /\ DOMAIN u = 1 .. Len(u) /\ \A i \in DOMAIN u : u[i] \in S /\ ~ IsUnion(u[i])
      /\ \/ Len(u) = 1 /\ UnionOf(members) = u[1]
         \/ Len(u) \in Nat /\ Len(u) >= 2 /\ UnionOf(members) = <<"union", u>>
  BY <1>1, NewUnionReturns
<1>3. \A m \in ToSet(MembersOf(t)) : m \in S /\ \E x \in ToSet(u) : Same(m, x)
  BY NewUnionPutsTogether, ZenonT(60)
<1> HIDE DEF u, t
<1>4. \A m \in ToSet(MembersOf(t)) : \E x \in ToSet(u) : Assignable(m, x)
  <2>1. \A x \in ToSet(u) : x \in S
    BY <1>2 DEF ToSet
  <2>2. QED
    BY <1>3, <2>1, EqualTypesAreAssignable DEF AssignableToEqual
<1>5. /\ IsUnion(t) => ToSet(MembersOf(t)) = ToSet(t[2])
      /\ ~ IsUnion(t) => ToSet(MembersOf(t)) = {t}
  BY <1>1, MembersOfAType
<1>6. CASE UnionOf(members) = <<"union", u>>
  <2>1. <<"union", u>> # <<>> /\ IsUnion(<<"union", u>>) /\ <<"union", u>>[2] = u
    BY DEF IsUnion, Kind
  <2>2. QED
    BY <1>1, <1>4, <1>5, <1>6, <2>1 DEF AssignableBy, t
<1>7. CASE Len(u) = 1 /\ UnionOf(members) = u[1]
  <2>1. ToSet(u) = {u[1]} /\ u[1] \in S /\ ~ IsUnion(u[1])
    BY <1>2, <1>7 DEF ToSet
  <2>2. u[1] # <<>>
    BY <2>1 DEF WellFounded
  <2>3. CASE IsUnion(t)
    BY <1>1, <1>4, <1>5, <1>7, <2>1, <2>2, <2>3 DEF AssignableBy, t
  <2>4. CASE ~ IsUnion(t)
    <3>1. Assignable(t, u[1])
      BY <1>4, <1>5, <2>1, <2>4
    <3>2. QED
      BY <1>1, <1>7, <2>1, <3>1 DEF Recursive, t
  <2>5. QED
    BY <2>3, <2>4
<1>8. QED
  BY <1>2, <1>6, <1>7

-----------------------------------------------------------------------------
\* The types that occur: those of constants, and the unions of two of them.
Covers(S) == TypeExprs \subseteq S /\ \A u, t \in TypeExprs : UnionOf(<<u, t>>) \in S

\* Whatever way a value has taken, its constant has a type that stands for it
\* (Type.AssignableTo), for any set of types and any values: what maps hold, what
\* functions are given and generic functions are all that is passed over.
THEOREM ValuesHaveTheirTypes ==
  ASSUME NEW S, NEW height \in [S -> Nat], WellFounded(S, height), Recursive(S), Covers(S)
  PROVE  Spec => []HasItsType
<1> DEFINE Inv == type \in S /\ value \in Values /\ HasItsType
<1>1. Init => Inv
  BY DEF Init, HasItsType, Covers
<1>2. Inv /\ [Next]_vars => Inv'
  <2> SUFFICES ASSUME Inv, [Next]_vars PROVE Inv'
    OBVIOUS
  <2>1. ASSUME type' \in S, Pass, value' = value PROVE Inv'
    <3>1. Fits(type, type')
      BY <2>1, StrictIsSound
    <3>2. QED
      BY <2>1, <3>1 DEF Fits, HasItsType, Pass
  <2>2. CASE Assign
    BY <2>1, <2>2 DEF Assign, Covers
  <2>3. CASE Widen
    BY <2>1, <2>3 DEF Widen, Covers
  <2>4. CASE UNCHANGED vars
    BY <2>4 DEF vars, HasItsType
  <2>5. QED
    BY <2>2, <2>3, <2>4 DEF Next
<1>3. QED
  BY <1>1, <1>2, PTL DEF Spec

\* The checker does not depend on whether a value is given a name on its way
\* (Type.AssignableTo), for any set of types, where nothing is passed over.
THEOREM DetoursMakeNoDifference ==
  ASSUME NEW S, NEW height \in [S -> Nat], WellFounded(S, height), Recursive(S), Covers(S)
  PROVE  Spec => []Direct
\* Stricter than Direct, and so inductive: the checker may be looser than Strict.
<1> DEFINE Exact == loose \/ first = type \/ Strict(first, type)
           Inv == first \in S /\ type \in S /\ Exact
<1>1. Init => Inv
  BY DEF Init, Covers
<1>2. Inv /\ [Next]_vars => Inv'
  <2> SUFFICES ASSUME Inv, [Next]_vars PROVE Inv'
    OBVIOUS
  <2>1. ASSUME type' \in S, Pass, first' = first PROVE Inv'
    <3>1. Goes(first, type, type')
      BY <2>1, StrictIsTransitive
    <3>2. QED
      BY <2>1, <3>1 DEF Goes, Pass
  <2>2. CASE Assign
    BY <2>1, <2>2 DEF Assign, Covers
  <2>3. CASE Widen
    BY <2>1, <2>3 DEF Widen, Covers
  <2>4. CASE UNCHANGED vars
    BY <2>4 DEF vars
  <2>5. QED
    BY <2>2, <2>3, <2>4 DEF Next
<1>3. Inv => Direct
  BY StrictIsAssignable DEF Direct, Allowed
<1>4. QED
  BY <1>1, <1>2, <1>3, PTL DEF Spec

\* No union ever has a union for a member, one member alone, or the same twice, for
\* any set of declared types that is so (NewUnion, Type.Equals).
THEOREM UnionsStayFlat ==
  ASSUME NEW S, NEW height \in [S -> Nat], WellFounded(S, height), Comparable(S), \A x \in S : Flat(x),
         TypeExprs \subseteq S
  PROVE  Spec => []FlatUnions
<1>1. Init => FlatUnions
  BY DEF Init, FlatUnions
<1>2. FlatUnions /\ [Next]_vars => FlatUnions'
  <2> SUFFICES ASSUME FlatUnions, [Next]_vars PROVE Flat(type')
    BY DEF FlatUnions
  <2>1. CASE Assign
    BY <2>1 DEF Assign
  <2>2. CASE Widen
    <3>1. PICK u \in TypeExprs : type' = UnionOf(<<u, type>>)
      BY <2>2 DEF Widen
    <3>2. type \in S /\ u \in S
      BY <2>2 DEF Widen
    <3>3. <<u, type>> \in Seq(S) /\ <<u, type>> # <<>>
      BY <3>2
    <3>4. QED
      BY <3>1, <3>3, NewUnionIsFlat
  <2>3. CASE UNCHANGED vars
    BY <2>3 DEF vars, FlatUnions
  <2>4. QED
    BY <2>1, <2>2, <2>3 DEF Next
<1>3. QED
  BY <1>1, <1>2, PTL DEF Spec
=============================================================================
