----------------------------- MODULE CallGraph ------------------------------
(***************************************************************************)
(* GET /graph/:repoID: the part of a repository's call graph around one    *)
(* symbol.  A recursive query (store/call_graph.go) walks call_edges from  *)
(* the root and returns rows by depth, RowCap of them at most; the handler *)
(* (api/graph_bounded.go) collects nodes and edges from the rows and stops *)
(* when a row needs more than NodeCap nodes.  Rows of equal depth come in  *)
(* any order.  Callers and callees are texts: a callee is whatever the     *)
(* call site says and joins a caller only where the two are equal.         *)
(***************************************************************************)
EXTENDS Integers, FiniteSets

CONSTANTS
    GraphSymbols,     \* texts of callers and callees
    GraphPaths,       \* files
    DefaultDepth, DepthCap,   \* defaultGraphDepth, maxGraphDepth
    NodeCap, RowCap,          \* maxGraphNodes, maxGraphEdgeRows
    AskedDepths,      \* positive depths in requests; 0 stands for none given
    NoPath

ASSUME GraphAssumption ==
    /\ DepthCap \in Nat /\ DefaultDepth \in 1..DepthCap /\ NodeCap \in Nat \ {0}
    /\ RowCap \in Nat \ {0} /\ AskedDepths \subseteq Nat /\ NoPath \notin GraphPaths

CallEdge == [caller : GraphSymbols, callee : GraphSymbols, path : GraphPaths]

VARIABLES
    callEdges,   \* the repository's rows of call_edges
    graph        \* the request: rows still to read, and the response so far

graphVars == <<callEdges, graph>>

NoGraph == [pc |-> "idle", root |-> NoPath, depth |-> 1, rows |-> {}, taken |-> 0,
            nodes |-> {}, file |-> [s \in GraphSymbols |-> NoPath], edges |-> {}, truncated |-> FALSE]

GraphTypeOK ==
    /\ callEdges \subseteq CallEdge
    /\ graph.pc \in {"idle", "build", "done"} /\ graph.root \in GraphSymbols \union {NoPath}
    /\ graph.depth \in 1..DepthCap /\ graph.taken \in 0..RowCap
    /\ \A r \in graph.rows : r.edge \in CallEdge /\ r.depth \in 1..DepthCap
    /\ graph.nodes \subseteq GraphSymbols /\ graph.edges \subseteq GraphSymbols \X GraphSymbols
    /\ graph.file \in [GraphSymbols -> GraphPaths \union {NoPath}] /\ graph.truncated \in BOOLEAN

GraphInit == callEdges \subseteq CallEdge /\ IsFiniteSet(callEdges) /\ graph = NoGraph

From(s) == {e \in callEdges : e.caller = s}

(* The rows of the recursive query: a path of the walk ends in an edge and *)
(* remembers its callers, none of which it enters again.                   *)
BoundedRows(root, depth) ==
    LET walk[d \in 1..depth] ==
            IF d = 1 THEN {[edge |-> e, visited |-> {root}] : e \in From(root)}
            ELSE UNION {{[edge |-> e, visited |-> p.visited \union {e.caller}]
                            : e \in {e \in From(p.edge.callee) : e.caller \notin p.visited}}
                            : p \in walk[d - 1]}
    IN UNION {{[edge |-> p.edge, depth |-> d] : p \in walk[d]} : d \in 1..depth}

(* The handler: a depth beyond the cap is cut, the query runs, and the     *)
(* root is a node whether or not it calls anything.  A request it turns    *)
(* away has no response.                                                   *)
AskGraph ==
    /\ graph.pc = "idle"
    /\ \E root \in GraphSymbols, asked \in AskedDepths :
         LET wanted == IF asked = 0 THEN DefaultDepth ELSE asked
             depth  == IF wanted > DepthCap THEN DepthCap ELSE wanted
             rows   == BoundedRows(root, depth)
         IN graph' = [NoGraph EXCEPT !.pc = "build", !.root = root, !.depth = depth, !.rows = rows,
                                     !.nodes = {root}, !.truncated = Cardinality(rows) >= RowCap]
    /\ UNCHANGED callEdges

(* Mutant: the query does not order its rows. *)
AnyRow(rows) == rows

(* ORDER BY depth *)
Shallowest(rows) == {r \in rows : \A x \in rows : r.depth <= x.depth}

Fits(s, nodes) == s \in nodes \/ Cardinality(nodes) < NodeCap

(* Mutant: the loop leaves without saying so. *)
CapSilently(g) == [g EXCEPT !.pc = "done"]

(* A node too many: the response ends here. *)
Cap(g) == [g EXCEPT !.pc = "done", !.truncated = TRUE]

WithCaller(g, e) ==
    [g EXCEPT !.nodes = @ \union {e.caller},
              !.file[e.caller] = IF @ = NoPath THEN e.path ELSE @]

(* One turn of buildBoundedGraphResponse's loop. *)
ReadRow ==
    /\ graph.pc = "build" /\ graph.rows # {} /\ graph.taken < RowCap
    /\ \E r \in Shallowest(graph.rows) :
         LET e == r.edge
             g == WithCaller([graph EXCEPT !.rows = @ \ {r}, !.taken = @ + 1], e)
         IN graph' = IF ~Fits(e.caller, graph.nodes) THEN Cap(graph)
                     ELSE IF ~Fits(e.callee, g.nodes) THEN Cap(g)
                     ELSE [g EXCEPT !.nodes = @ \union {e.callee},
                                    !.edges = @ \union {<<e.caller, e.callee>>}]
    /\ UNCHANGED callEdges

GraphBuilt ==
    /\ graph.pc = "build" /\ (graph.rows = {} \/ graph.taken = RowCap)
    /\ graph' = [graph EXCEPT !.pc = "done"]
    /\ UNCHANGED callEdges

GraphNext == AskGraph \/ ReadRow \/ GraphBuilt

GraphSpec == GraphInit /\ [][GraphNext]_graphVars
-----------------------------------------------------------------------------
(* The symbols at most d calls away from s. *)
Within(s, d) ==
    LET near[n \in 0..d] ==
            IF n = 0 THEN {s}
            ELSE near[n - 1] \union {e.callee : e \in {e \in callEdges : e.caller \in near[n - 1]}}
    IN near[d]

(* What the edges shown lead to from the root. *)
Shown(g) ==
    LET seen[n \in 0..Cardinality(g.nodes)] ==
            IF n = 0 THEN {g.root}
            ELSE seen[n - 1] \union {e[2] : e \in {e \in g.edges : e[1] \in seen[n - 1]}}
    IN seen[Cardinality(g.nodes)]

(* A response shows only calls within its depth of the root, in one piece  *)
(* that hangs together from the root even where a cap cut it, names for a  *)
(* node only a file that has such a caller, and shows every such symbol    *)
(* and call unless it says it is truncated: on cyclic graphs, with names   *)
(* defined in several files, and whichever way rows of equal depth come.   *)
GraphIsNeighbourhood ==
    graph.pc = "done" =>
        LET calls == {<<e.caller, e.callee>> :
                        e \in {e \in callEdges : e.caller \in Within(graph.root, graph.depth - 1)}}
        IN  /\ graph.nodes = Shown(graph) /\ Cardinality(graph.nodes) <= NodeCap
            /\ graph.edges \subseteq calls
            /\ \A s \in graph.nodes : graph.file[s] # NoPath =>
                 \E e \in From(s) : e.path = graph.file[s]
            /\ ~graph.truncated =>
                 graph.nodes = Within(graph.root, graph.depth) /\ graph.edges = calls
=============================================================================
