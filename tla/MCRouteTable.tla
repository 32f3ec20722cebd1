---------------------------- MODULE MCRouteTable ----------------------------
(***************************************************************************)
(* A route table for checking RouteTable with TLC: patterns that beat each  *)
(* other by static segments, by length and lexicographically, one of them a  *)
(* literal path, one with a repeated parameter; and requests with and       *)
(* without a trailing slash and for the root, which no pattern matches.     *)
(***************************************************************************)
EXTENDS RouteTable

S(text) == [param |-> FALSE, text |-> text]
P(text) == [param |-> TRUE, text |-> text]

RunId   == <<S(""), S("run"), P("id")>>     \* "/run/:id"
RunNo   == <<S(""), S("run"), P("no")>>     \* "/run/:no"
RunName == <<S(""), S("run"), P("name")>>   \* "/run/:name"
Pair    == <<S(""), P("a"), P("a")>>        \* "/:a/:a"
Run5    == <<S(""), S("run"), S("5")>>      \* "/run/5"

MCPatterns == {RunId, RunNo, RunName, Pair, Run5}
MCRequestPaths == {Run5, Append(Run5, S("")), <<S(""), S("")>>}
MCLength == [p \in MCPatterns |->
    CASE p = RunId -> 8 [] p = RunNo -> 8 [] p = RunName -> 10 [] p = Pair -> 6 [] p = Run5 -> 6]
MCRank == [p \in MCPatterns |->
    CASE p = Pair -> 1 [] p = Run5 -> 2 [] p = RunId -> 3 [] p = RunName -> 4 [] p = RunNo -> 5]

\* At most this many routes are registered.
MaxRoutes == 4
FewRoutes == Cardinality({mp \in (Methods \cup {Any}) \X Patterns : mp[2] \in routes[mp[1]]}) <= MaxRoutes
=============================================================================
