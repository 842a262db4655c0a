--------------------------- MODULE CallExtraction ---------------------------
(***************************************************************************)
(* What ingestion takes from a parsed file (api/internal/graph and         *)
(* chunk/extractor.go): a walk over the syntax tree that carries the name  *)
(* of the function it is in, and a row of call_edges for each call under a *)
(* named caller; the function rows of symbols, and the functions embedded. *)
(* The nodes of a tree are 1..n in the order of the walk, 1 the root.  A   *)
(* node has a kind, a parent, a name (two may have the same), a line and,  *)
(* for a call, the literal it calls directly (0 when it calls anything     *)
(* else; parentheses around it are unwrapped, except in Go, where they     *)
(* make it anything else).                                                 *)
(***************************************************************************)
EXTENDS Integers, Sequences, FiniteSets

CONSTANTS Trees,      \* [language, nodes]
          NoCaller

(* A parent is walked before its children.  A declarator has one child at  *)
(* most, an expression; a literal that is called is no declarator's value. *)
ASSUME TreesAssumption ==
    \A t \in Trees :
        LET kind(n) == t.nodes[n].kind
            parent(n) == t.nodes[n].parent
        IN
        /\ Len(t.nodes) \in Nat /\ DOMAIN t.nodes = 1..Len(t.nodes)
        /\ \A n \in DOMAIN t.nodes :
             /\ parent(n) \in 0..(n - 1) /\ (parent(n) = 0 <=> n = 1)
             /\ n > 1 /\ kind(parent(n)) = "declarator" => parent(n) = n - 1 /\ kind(n) \notin {"function", "method"}
             /\ LET l == t.nodes[n].literal IN
                l # 0 => /\ l \in DOMAIN t.nodes \ {1} /\ kind(l) \in {"arrow", "expression"}
                         /\ kind(parent(l)) # "declarator"
             /\ NoCaller \notin {<<"named", t.nodes[n].name>>, <<"anonymous", t.nodes[n].line>>}

VARIABLES
    tree,      \* the file
    walked,    \* the caller that each node walked so far hands to its children
    edges      \* the rows so far

extractVars == <<tree, walked, edges>>

ExtractInit == tree \in Trees /\ walked = <<>> /\ edges = <<>>

Node(n) == tree.nodes[n]

IsScript == tree.language \in {"javascript", "typescript"}

(* A caller is a text: the bare name, also of a method, or for a literal   *)
(* its line (anonymousFuncName).                                           *)
Named(n)     == <<"named", Node(n).name>>
Anonymous(n) == <<"anonymous", Node(n).line>>

(* The value of a variable declarator, its first child. *)
IsValue(n, d) == d # 0 /\ Node(d).kind = "declarator" /\ d = n - 1 /\ Node(n).parent = d

Literal(n) == Node(n).kind \in {"arrow", "expression"}

Inherited(n) == IF n = 1 THEN NoCaller ELSE walked[Node(n).parent]

(* Mutant: a function literal is part of the function around it. *)
LiteralsTransparent(n) == IF Node(n).kind = "function" THEN Named(n) ELSE Inherited(n)

(* nextCaller.  "arrow" is a func_literal or lambda in Go and Python; only *)
(* scripts have declarators, function expressions and generator functions. *)
(* There a declarator names its arrow function.  A function expression     *)
(* that initialises a variable is taken for named too, but nobody names    *)
(* it, and the walk does not know a generator for a function.              *)
NextCaller(n) ==
    IF Node(n).kind \in {"function", "method"} THEN Named(n)
    ELSE IF \E v \in DOMAIN tree.nodes : IsValue(v, n) /\ Node(v).kind = "arrow" THEN Named(n)
    ELSE IF Literal(n) /\ ~IsValue(n, Node(n).parent) THEN Anonymous(n)
    ELSE Inherited(n)

CalleeOf(n) == IF Node(n).literal # 0 THEN Anonymous(Node(n).literal) ELSE <<"text", n>>

(* walk(node, caller): the node's row, and on to its children. *)
WalkNode ==
    LET n == Len(walked) + 1 IN
    /\ n <= Len(tree.nodes)
    /\ walked' = Append(walked, NextCaller(n))
    /\ edges' = IF Node(n).kind = "call" /\ Inherited(n) # NoCaller
                THEN Append(edges, [call |-> n, caller |-> Inherited(n), callee |-> CalleeOf(n)])
                ELSE edges
    /\ UNCHANGED tree

ExtractNext == WalkNode

ExtractSpec == ExtractInit /\ [][ExtractNext]_extractVars

Walked == Len(walked) = Len(tree.nodes)

(* The function symbols: scripts have them for declarations only. *)
SymbolRows == {n \in DOMAIN tree.nodes : Node(n).kind = "function" \/ (Node(n).kind = "method" /\ ~IsScript)}

(* The functions whose source is embedded, by the same kinds. *)
ChunkedFunctions == {n \in DOMAIN tree.nodes : Node(n).kind = "function" \/ (Node(n).kind = "method" /\ ~IsScript)}

ExtractTypeOK ==
    /\ \A i \in DOMAIN walked : walked[i] = NoCaller \/ walked[i][1] \in {"named", "anonymous"}
    /\ \A i \in DOMAIN edges : edges[i].caller # NoCaller /\ edges[i].call \in DOMAIN tree.nodes
-----------------------------------------------------------------------------
Ancestors(n) ==
    LET up[k \in 0..n] == IF k = 0 THEN {Node(n).parent} \ {0}
                          ELSE up[k - 1] \union ({Node(a).parent : a \in up[k - 1]} \ {0})
    IN up[n]

Functions == {n \in DOMAIN tree.nodes :
                Node(n).kind \in {"function", "method", "arrow", "expression", "generator"}}

(* The functions that the walk gives no name to: see NextCaller. *)
Unnamed(f) == \/ Node(f).kind = "generator"
              \/ Node(f).kind = "expression" /\ IsValue(f, Node(f).parent)

CalledAs(f) == IF IsValue(f, Node(f).parent) THEN Named(Node(f).parent)
               ELSE IF Literal(f) THEN Anonymous(f) ELSE Named(f)

Around(n) == Ancestors(n) \intersect Functions

Declared == {n \in DOMAIN tree.nodes : Node(n).kind \in {"function", "method"}}

(* A call has at most one row, under the name of a function it is in, and  *)
(* calls at the top of a file have none; one whose innermost function has  *)
(* a name has its row, under that name and no other's.  The calls of a     *)
(* function expression that initialises a variable and of a generator are  *)
(* the exception: they are lost, or go to a function further out.  A       *)
(* literal called on the spot is named alike as the callee there and as    *)
(* the caller of its own calls, so the graph leads through it; and outside *)
(* scripts every declared caller is a symbol whose source is embedded.     *)
CallsAttributed ==
    Walked =>
        /\ \A n \in DOMAIN tree.nodes : Node(n).kind = "call" =>
             LET rows == {i \in DOMAIN edges : edges[i].call = n} IN
             /\ Cardinality(rows) <= 1
             /\ \A i \in rows : \E f \in Around(n) : ~Unnamed(f) /\ edges[i].caller = CalledAs(f)
             /\ \A f \in Around(n) : (~Unnamed(f) /\ \A g \in Around(n) : g <= f) =>
                  rows # {} /\ \A i \in rows : edges[i].caller = CalledAs(f)
        /\ \A i \in DOMAIN edges : LET f == Node(edges[i].call).literal IN
             f # 0 => edges[i].callee = CalledAs(f)
        /\ \A f \in Declared : (\E i \in DOMAIN edges : edges[i].caller = Named(f)) /\ ~IsScript =>
             f \in SymbolRows \intersect ChunkedFunctions
=============================================================================
