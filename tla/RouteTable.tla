----------------------------- MODULE RouteTable -----------------------------
(***************************************************************************)
(* The route table of a server and its lookup (httpAddRoute, resolveRoute,  *)
(* resolveRouteByMethod, matchRoutePattern).  resolveRoute scans a Go map,  *)
(* whose iteration order is arbitrary and differs from one request to the   *)
(* next, keeping the best match so far.                                     *)
(*                                                                          *)
(* A path or pattern is the sequence of its segments as strings.Split makes *)
(* it (so "/a/" is <<"", "a", "">>), a segment the record of its text and   *)
(* whether it begins with ":" (the text is then what follows).  Two numbers *)
(* stand for what the tie-break reads off the characters of a pattern: its  *)
(* length, and its rank in lexicographic order.                             *)
(***************************************************************************)
EXTENDS Integers, Sequences, FiniteSets

CONSTANTS
    Patterns,       \* patterns the program registers
    RequestPaths,   \* paths clients ask for
    Methods,        \* methods of requests, as invokeRouteHandler upcases them
    Any,            \* routeMethodAny
    NoPattern,      \* no match yet, or no route found
    Length,         \* [Patterns -> Nat]: len(pattern)
    Rank            \* [Patterns -> Nat]: position in lexicographic order

IsPath(p) == p \in Seq([param : BOOLEAN, text : STRING])

ASSUME PathsAssumption == \A p \in Patterns \cup RequestPaths : IsPath(p)
ASSUME NamesAssumption ==
    /\ {"GET", "POST"} \subseteq Methods
    /\ Any \notin Methods
    /\ {"idle", "done"} \cap (Methods \cup {Any}) = {}
    /\ NoPattern \notin Patterns
ASSUME LengthAssumption == Length \in [Patterns -> Nat]
ASSUME RankAssumption ==
    /\ Rank \in [Patterns -> Nat]
    /\ \A p, q \in Patterns : Rank[p] = Rank[q] => p = q

(***************************************************************************)
(* matchRoutePattern                                                       *)
(***************************************************************************)
IsEmpty(s) == ~ s.param /\ s.text = ""

\* splitRouteSegments: strings.Trim(path, "/"), then strings.Split.
Segments(p) ==
    LET Solid == {i \in 1 .. Len(p) : ~ IsEmpty(p[i])}
    IN  IF Solid = {}
        THEN <<>>
        ELSE SubSeq(p, CHOOSE i \in Solid : \A j \in Solid : i <= j,
                       CHOOSE i \in Solid : \A j \in Solid : i >= j)

\* The positions of a pattern's parameters, and how many segments are static.
Params(pattern) == {i \in 1 .. Len(Segments(pattern)) : Segments(pattern)[i].param}
Score(pattern) == Cardinality((1 .. Len(Segments(pattern))) \ Params(pattern))

Matches(pattern, path) ==
    /\ Len(Segments(pattern)) = Len(Segments(path))
    /\ Params(pattern) # {}
    /\ \A i \in 1 .. Len(Segments(path)) :
           IF i \in Params(pattern)
           THEN Segments(pattern)[i].text # "" /\ ~ IsEmpty(Segments(path)[i])
           ELSE Segments(pattern)[i] = Segments(path)[i]

\* The parameters bound by a match; of two with one name, the last remains.
Bindings(pattern, path) ==
    LET Named(n) == {i \in Params(pattern) : Segments(pattern)[i].text = n}
    IN  [n \in {Segments(pattern)[i].text : i \in Params(pattern)} |->
            Segments(path)[CHOOSE i \in Named(n) : \A j \in Named(n) : i >= j]]

\* Seeded fault: no last tie-break.
BetterUntilTie(p, q) ==
    \/ Score(p) > Score(q)
    \/ Score(p) = Score(q) /\ Length[p] > Length[q]

\* resolveRoute's preference: more static segments, then longer, then
\* lexicographically smaller.
Better(p, q) ==
    \/ Score(p) > Score(q)
    \/ Score(p) = Score(q) /\ Length[p] > Length[q]
    \/ Score(p) = Score(q) /\ Length[p] = Length[q] /\ Rank[p] < Rank[q]

(***************************************************************************)
(* The server: routes are added, also by handlers while it serves, and      *)
(* requests are resolved one at a time (both under httpMu).                 *)
(***************************************************************************)
VARIABLES
    routes,     \* server.routes: the patterns of each method
    asked,      \* the path and method being resolved
    scanning,   \* the method table resolveRoute is scanning, "idle" or "done"
    todo,       \* patterns the range loop has not visited
    best,       \* bestPattern: the best match so far
    bound,      \* bestParams: the parameters it binds
    handler     \* the route found: method table and pattern, or NoPattern

vars == <<routes, asked, scanning, todo, best, bound, handler>>

Init ==
    /\ routes = [m \in Methods \cup {Any} |-> {}]
    /\ asked \in [path : RequestPaths, method : Methods]
    /\ scanning = "idle"
    /\ todo = {}
    /\ best = NoPattern
    /\ bound = <<>>
    /\ handler = [table |-> Any, pattern |-> NoPattern]

\* httpAddRoute: normalizeRouteMethod admits GET, POST and, for an omitted
\* method or "*", every method; anything else traps.
AddRoute(m, p) ==
    /\ scanning \in {"idle", "done"}
    /\ m \in {"GET", "POST", Any}
    /\ routes' = [routes EXCEPT ![m] = @ \cup {p}]
    /\ scanning' = "idle"
    /\ UNCHANGED <<asked, todo, best, bound, handler>>

Found(m, p) ==
    /\ handler' = [table |-> m, pattern |-> p]
    /\ scanning' = "done"
    /\ UNCHANGED <<todo, best>>

\* resolveRoute on the table of method m: an exact entry, or the loop starts.
Lookup(m) ==
    IF asked'.path \in routes[m]
    THEN Found(m, asked'.path) /\ bound' = <<>>
    ELSE /\ scanning' = m
         /\ todo' = routes[m]
         /\ best' = NoPattern
         /\ bound' = <<>>
         /\ UNCHANGED handler

Request(path, method) ==
    /\ scanning \in {"idle", "done"}
    /\ asked' = [path |-> path, method |-> method]
    /\ Lookup(method)
    /\ UNCHANGED routes

\* One iteration of the range loop, on any entry not visited yet.
Visit(p) ==
    /\ scanning \in Methods \cup {Any}
    /\ p \in todo
    /\ todo' = todo \ {p}
    /\ IF Matches(p, asked.path) /\ (best = NoPattern \/ Better(p, best))
       THEN best' = p /\ bound' = Bindings(p, asked.path)
       ELSE UNCHANGED <<best, bound>>
    /\ UNCHANGED <<routes, asked, scanning, handler>>

\* The loop has ended: a match, the table of all methods, or not found.
LoopEnds ==
    /\ scanning \in Methods \cup {Any}
    /\ todo = {}
    /\ asked' = asked
    /\ IF best # NoPattern \/ scanning = Any
       THEN Found(scanning, best) /\ UNCHANGED bound
       ELSE Lookup(Any)
    /\ UNCHANGED routes

Next ==
    \/ \E m \in Methods \cup {Any}, p \in Patterns : AddRoute(m, p)
    \/ \E path \in RequestPaths, method \in Methods : Request(path, method)
    \/ \E p \in Patterns : Visit(p)
    \/ LoopEnds

Spec == Init /\ [][Next]_vars

-----------------------------------------------------------------------------
Candidates(m) == {p \in routes[m] : Matches(p, asked.path)}

\* The table that answers for a path has it as an exact entry or has a match.
Answers(m) == asked.path \in routes[m] \/ Candidates(m) # {}

TypeOK ==
    /\ routes \in [Methods \cup {Any} -> SUBSET Patterns]
    /\ asked \in [path : RequestPaths, method : Methods]
    /\ scanning \in Methods \cup {Any, "idle", "done"}
    /\ todo \subseteq Patterns
    /\ best \in Patterns \cup {NoPattern}
    /\ DOMAIN bound \subseteq STRING
    /\ handler \in [table : Methods \cup {Any}, pattern : Patterns \cup {NoPattern}]

\* The outcome of a lookup is a function of the routes and the request: the
\* order in which the map was iterated does not show.  A table answers before
\* the table of all methods, an exact entry before every pattern, and among
\* the patterns that match the one no other is preferred to; the parameters are
\* those of that pattern and of no other visited on the way.
ResolutionDetermined ==
    scanning = "done" =>
        LET m == handler.table
            p == handler.pattern
        IN  IF p = NoPattern
            THEN ~ Answers(asked.method) /\ ~ Answers(Any)
            ELSE /\ m = asked.method \/ (m = Any /\ ~ Answers(asked.method))
                 /\ IF asked.path \in routes[m]
                    THEN p = asked.path /\ bound = <<>>
                    ELSE /\ p \in Candidates(m)
                         /\ \A q \in Candidates(m) \ {p} : Better(p, q) /\ ~ Better(q, p)
                         /\ bound = Bindings(p, asked.path)
=============================================================================
