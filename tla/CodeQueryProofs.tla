-------------------------- MODULE CodeQueryProofs ---------------------------
(***************************************************************************)
(* Proofs about what is derived from a repository's code: chunks cover a   *)
(* function's source, for every length, limit and overlap; calls are       *)
(* attributed, for every syntax tree; a bounded graph is the neighbourhood *)
(* of its root, for every set of calls and every cap.                      *)
(***************************************************************************)
EXTENDS ChunkSplitter, CallExtraction, CallGraph, ListProofs

-----------------------------------------------------------------------------
(* Chunk splitting. *)

LEMMA SplitInitially == SplitInit => SplitInv
  <1> SUFFICES ASSUME SplitInit PROVE SplitInv
    OBVIOUS
  <1>1. length \in Nat /\ start = 0 /\ windows = <<>> /\ split = FALSE
    BY SplitterAssumption DEF SplitInit
  <1>2. windows \in Seq(Window) /\ Len(windows) = 0 /\ DOMAIN windows = {} /\ 1..(Len(windows) - 1) = {}
    BY <1>1
  <1> QED
    BY <1>1, <1>2 DEF SplitInv, SplitTypeOK

(* A function within the limit is its own only chunk. *)
LEMMA WholeKept == SplitInv /\ KeepWhole => SplitInv'
  <1> SUFFICES ASSUME SplitInv, KeepWhole PROVE SplitInv'
    OBVIOUS
  <1>1. windows' = <<[from |-> 0, to |-> length]>> /\ split' /\ length' = length /\ start' = start
    BY DEF KeepWhole
  <1>2. length \in Nat /\ start \in Nat /\ length <= MaxChunk /\ MaxChunk \in Nat
    BY SplitterAssumption DEF SplitInv, SplitTypeOK, KeepWhole
  <1>3. SplitTypeOK'
    BY <1>1, <1>2 DEF SplitTypeOK, Window
  <1>4. Len(windows') = 1 /\ DOMAIN windows' = {1} /\ windows'[1].from = 0 /\ windows'[1].to = length
    BY <1>1
  <1>5. Covered(length)'
    BY <1>1, <1>2, <1>4 DEF Covered
  <1> QED
    BY <1>1, <1>2, <1>3, <1>4, <1>5 DEF SplitInv, Covered

(* A turn of the loop adds a window that begins within what is covered. *)
LEMMA WindowCut == SplitInv /\ CutWindow => SplitInv'
  <1> SUFFICES ASSUME SplitInv, CutWindow PROVE SplitInv'
    OBVIOUS
  <1> DEFINE end == IF start + MaxChunk > length THEN length ELSE start + MaxChunk
             n   == Len(windows)
  <1>1. /\ length \in Nat /\ start \in Nat /\ MaxChunk \in Nat /\ Overlap \in Nat
        /\ Overlap < MaxChunk /\ windows \in Seq(Window)
        /\ start < length /\ length > MaxChunk /\ ~split /\ length' = length
    BY SplitterAssumption DEF SplitInv, SplitTypeOK, CutWindow
  <1>2. end \in Nat /\ start < end /\ end <= length /\ end - start <= MaxChunk
    BY <1>1
  <1>3. end # length => end = start + MaxChunk /\ start' = end - Overlap /\ ~split'
    BY <1>1, <1>2 DEF CutWindow, NextStart
  <1>4. end = length => split' /\ start' = start
    BY <1>1, <1>2 DEF CutWindow
  <1>5. windows' = Append(windows, [from |-> start, to |-> end])
    BY DEF CutWindow
  <1> HIDE DEF end
  <1>6. [from |-> start, to |-> end] \in Window
    BY <1>1, <1>2 DEF Window
  <1>7. /\ n \in Nat /\ Len(windows') = n + 1 /\ windows' \in Seq(Window)
        /\ DOMAIN windows' = 1..(n + 1) /\ DOMAIN windows = 1..n
        /\ windows'[n + 1] = [from |-> start, to |-> end]
        /\ \A i \in 1..n : windows'[i] = windows[i]
    BY <1>1, <1>5, <1>6
  <1>8. SplitTypeOK'
    <2>1. start' \in Nat
      BY <1>1, <1>2, <1>3, <1>4
    <2>2. split' \in BOOLEAN
      <3>1. split \in BOOLEAN
        BY DEF SplitInv, SplitTypeOK
      <3>2. split' = TRUE \/ split' = split
        BY Zenon DEF CutWindow
      <3> QED
        BY <3>1, <3>2, Zenon
    <2> QED
      BY <2>1, <2>2, <1>1, <1>7 DEF SplitTypeOK
  <1>9. n > 0 => windows[n].to \in Nat /\ start = windows[n].to - Overlap /\ Covered(windows[n].to)
    <2> SUFFICES ASSUME n > 0
                 PROVE  windows[n].to \in Nat /\ start = windows[n].to - Overlap /\ Covered(windows[n].to)
      OBVIOUS
    <2>1. n \in DOMAIN windows /\ windows # <<>>
      BY <1>7
    <2>2. windows[n] \in Window
      BY <2>1, <1>1, <1>7
    <2>3. windows[n].to \in Nat
      BY <2>2 DEF Window
    <2> QED
      BY <2>1, <2>3, <1>1 DEF SplitInv
  <1>10. \A p \in 0..(end - 1) : \E i \in DOMAIN windows' : windows'[i].from <= p /\ p < windows'[i].to
    <2> TAKE p \in 0..(end - 1)
    <2>0. p \in Int /\ p < end
      BY <1>2
    <2>1. CASE start <= p
      BY <2>0, <2>1, <1>7
    <2>2. CASE p < start /\ n > 0
      <3>1. p \in 0..(windows[n].to - 1)
        BY <2>2, <1>1, <1>2, <1>9
      <3>2. PICK i \in DOMAIN windows : windows[i].from <= p /\ p < windows[i].to
        BY <3>1, <2>2, <1>9 DEF Covered
      <3> QED
        BY <3>2, <1>7
    <2>3. CASE p < start /\ n = 0
      BY <2>3, <1>1, <1>2, <1>7 DEF SplitInv
    <2> QED
      BY <2>0, <2>1, <2>2, <2>3, <1>1, <1>7
  <1>11. \A i \in DOMAIN windows' : windows'[i].to <= length' /\ windows'[i].to - windows'[i].from <= MaxChunk
    BY <1>1, <1>2, <1>7 DEF SplitInv
  <1>12. \A i \in 1..(Len(windows') - 1) : windows'[i].to - windows'[i + 1].from = Overlap
    <2> SUFFICES ASSUME NEW i \in 1..n PROVE windows'[i].to - windows'[i + 1].from = Overlap
      BY <1>7
    <2>1. CASE i < n
      BY <2>1, <1>7 DEF SplitInv
    <2>2. CASE i = n
      BY <2>2, <1>1, <1>7, <1>9
    <2> QED
      BY <2>1, <2>2, <1>7
  <1>13. windows' # <<>> /\ windows'[Len(windows')].to = end
    BY <1>7
  <1>14. windows' # <<>> => /\ Covered(windows[Len(windows)].to)'
                            /\ split' => windows'[Len(windows')].to = length'
                            /\ ~split' => start' = windows'[Len(windows')].to - Overlap
    <2>1. Covered(windows[Len(windows)].to)'
      BY <1>10, <1>13 DEF Covered
    <2> QED
      BY <2>1, <1>1, <1>3, <1>4, <1>13
  <1> QED
    BY <1>8, <1>11, <1>12, <1>13, <1>14 DEF SplitInv

LEMMA SplitStep == SplitInv /\ [SplitNext]_splitVars => SplitInv'
  <1> SUFFICES ASSUME SplitInv, [SplitNext]_splitVars PROVE SplitInv'
    OBVIOUS
  <1>1. CASE KeepWhole
    BY <1>1, WholeKept
  <1>2. CASE CutWindow
    BY <1>2, WindowCut
  <1>3. CASE UNCHANGED splitVars
    BY <1>3 DEF splitVars, SplitInv, SplitTypeOK, Covered
  <1> QED
    BY <1>1, <1>2, <1>3 DEF SplitNext

(* Whatever the length of a function and the two limits, SplitChunk loses  *)
(* no byte of it and joins its chunks by an overlap.                       *)
THEOREM ChunksCover == SplitSpec => []ChunksCoverSource
  <1>1. SplitInv => ChunksCoverSource
    BY DEF SplitInv, SplitTypeOK, ChunksCoverSource, Covered
  <1> QED
    BY <1>1, SplitInitially, SplitStep, PTL DEF SplitSpec
-----------------------------------------------------------------------------
(* Call extraction: the nodes of the tree that is walked. *)
Nodes == DOMAIN tree.nodes

Kind(n)   == tree.nodes[n].kind
Parent(n) == tree.nodes[n].parent

LEMMA TreeShape ==
  ASSUME tree \in Trees
  PROVE  /\ Len(tree.nodes) \in Nat /\ Nodes = 1..Len(tree.nodes)
         /\ \A n \in Nodes : /\ Parent(n) \in 0..(n - 1) /\ (Parent(n) = 0 <=> n = 1)
                             /\ n > 1 => Parent(n) \in Nodes
                             /\ n > 1 /\ Kind(Parent(n)) = "declarator" =>
                                  Parent(n) = n - 1 /\ Kind(n) \notin {"function", "method"}
  <1>1. /\ Len(tree.nodes) \in Nat /\ Nodes = 1..Len(tree.nodes)
        /\ \A n \in Nodes : /\ Parent(n) \in 0..(n - 1) /\ (Parent(n) = 0 <=> n = 1)
                            /\ n > 1 /\ Kind(Parent(n)) = "declarator" =>
                                 Parent(n) = n - 1 /\ Kind(n) \notin {"function", "method"}
    BY TreesAssumption DEF Nodes, Kind, Parent
  <1> QED
    BY <1>1

(* Going up from a node step by step. *)
LEMMA GoingUp ==
  ASSUME tree \in Trees, NEW n \in Nodes
  PROVE  \E up : /\ DOMAIN up = 0..n /\ up[0] = {Parent(n)} \ {0} /\ Ancestors(n) = up[n]
                 /\ \A k \in 1..n : up[k] = up[k - 1] \union ({Parent(a) : a \in up[k - 1]} \ {0})
  <1> DEFINE T == SUBSET Nodes
             step == [X \in T |-> X \union ({Parent(a) : a \in X} \ {0})]
             A == {Parent(n)} \ {0}
             Is(up) == up = [k \in 0..n |-> IF k = 0 THEN {Node(n).parent} \ {0}
                          ELSE up[k - 1] \union ({Node(a).parent : a \in up[k - 1]} \ {0})]
  <1>1. n \in Nat
    BY TreeShape
  <1>2. step \in [T -> T] /\ A \in T
    <2>1. \A a \in Nodes : Parent(a) \in Nodes \union {0}
      BY TreeShape
    <2> QED
      BY <2>1
  <1> HIDE DEF T, step, A
  <1>12. PICK f : Iterates(f, n, T, A, step)
    BY <1>1, <1>2, Iterated
  <1>3. f \in [0..n -> T] /\ f[0] = A /\ \A k \in 1..n : f[k] = step[f[k - 1]]
    BY <1>12 DEF Iterates
  <1>4. \A k \in 0..n : k # 0 => k \in 1..n /\ k - 1 \in 0..n
    BY <1>1
  <1>5. \A k \in 1..n : f[k] = f[k - 1] \union ({Parent(a) : a \in f[k - 1]} \ {0})
    <2> TAKE k \in 1..n
    <2>1. f[k - 1] \in T
      BY <1>1, <1>3
    <2> QED
      BY <2>1, <1>3 DEF step
  <1>6. Is(f)
    <2>1. \A k \in 0..n : f[k] = IF k = 0 THEN {Node(n).parent} \ {0}
                                 ELSE f[k - 1] \union ({Node(a).parent : a \in f[k - 1]} \ {0})
      BY <1>3, <1>4, <1>5 DEF A, Parent, Node
    <2> QED
      BY <2>1, <1>3
  <1> DEFINE up == CHOOSE up : Is(up)
  <1>7. Is(up)
    BY <1>6
  <1>8. Ancestors(n) = up[n]
    BY DEF Ancestors
  <1> HIDE DEF up
  <1>9. DOMAIN up = 0..n
    BY <1>7
  <1>10. \A k \in 0..n : up[k] = IF k = 0 THEN {Parent(n)} \ {0}
                                ELSE up[k - 1] \union ({Parent(a) : a \in up[k - 1]} \ {0})
    BY <1>7 DEF Parent, Node
  <1>11. 0 \in 0..n /\ \A k \in 1..n : k \in 0..n /\ k # 0
    BY <1>1
  <1> QED
    BY <1>8, <1>9, <1>10, <1>11

(* Ancestors are above the node, the parent of each is one, and nothing    *)
(* that is closed under parents is without them.                           *)
LEMMA AncestorsClosed ==
  ASSUME tree \in Trees, NEW n \in Nodes
  PROVE  /\ Ancestors(n) \subseteq 1..(n - 1) /\ {Parent(n)} \ {0} \subseteq Ancestors(n)
         /\ \A a \in Ancestors(n) : Parent(a) = 0 \/ Parent(a) \in Ancestors(n)
  <1>1. PICK up : /\ DOMAIN up = 0..n /\ up[0] = {Parent(n)} \ {0} /\ Ancestors(n) = up[n]
                  /\ \A k \in 1..n : up[k] = up[k - 1] \union ({Parent(a) : a \in up[k - 1]} \ {0})
    BY GoingUp
  <1> DEFINE Good(k) == /\ up[k] \subseteq 1..(n - 1) /\ {Parent(n)} \ {0} \subseteq up[k]
                        /\ \A a \in up[k] : Parent(a) = 0 \/ Parent(a) \in up[k] \/ a <= n - 1 - k
             S == {k \in Nat : k <= n => Good(k)}
  <1>2. n \in Nat /\ \A a \in 1..(n - 1) : Parent(a) \in Nat /\ Parent(a) < a
    <2>1. n \in Nat /\ \A a \in 1..(n - 1) : a \in Nodes
      BY TreeShape
    <2>2. \A a \in Nodes : Parent(a) \in 0..(a - 1)
      BY TreeShape
    <2> QED
      BY <2>1, <2>2
  <1>3. Parent(n) \in 0..(n - 1)
    BY TreeShape
  <1>4. 0 \in S
    <2>1. Good(0)
      BY <1>1, <1>2, <1>3
    <2> QED
      BY <2>1
  <1>5. ASSUME NEW k \in Nat, k \in S PROVE k + 1 \in S
    <2> SUFFICES ASSUME k + 1 <= n PROVE Good(k + 1)
      OBVIOUS
    <2>1. Good(k)
      BY <1>5, <1>2
    <2>2. up[k + 1] = up[k] \union ({Parent(a) : a \in up[k]} \ {0})
      <3>1. k + 1 \in 1..n /\ (k + 1) - 1 = k
        BY <1>2
      <3> QED
        BY <3>1, <1>1
    <2>3. up[k + 1] \subseteq 1..(n - 1)
      <3> SUFFICES ASSUME NEW a \in up[k], Parent(a) # 0 PROVE Parent(a) \in 1..(n - 1)
        BY <2>1, <2>2
      <3>1. a \in 1..(n - 1)
        BY <2>1
      <3> QED
        BY <3>1, <1>2
    <2>4. ASSUME NEW a \in up[k + 1], Parent(a) # 0, Parent(a) \notin up[k + 1]
          PROVE  a <= n - 1 - (k + 1)
      <3>1. a \notin up[k]
        BY <2>2, <2>4
      <3>2. PICK b \in up[k] : a = Parent(b) /\ a # 0
        BY <2>2, <3>1
      <3>3. b <= n - 1 - k /\ b \in 1..(n - 1)
        BY <2>1, <3>1, <3>2
      <3> QED
        BY <3>2, <3>3, <1>2
    <2> QED
      BY <2>1, <2>2, <2>3, <2>4
  <1>6. Good(n)
    <2> HIDE DEF Good
    <2>1. n \in S
      <3> HIDE DEF S
      <3> QED
        BY <1>2, <1>4, <1>5, SetInduction
    <2> QED
      BY <2>1, <1>2
  <1>7. \A a \in up[n] : ~(a <= n - 1 - n)
    BY <1>6, <1>2
  <1> QED
    BY <1>1, <1>6, <1>7

LEMMA AncestorsLeast ==
  ASSUME tree \in Trees, NEW n \in Nodes, NEW S, Parent(n) \in S \union {0},
         \A a \in S : Parent(a) \in S \union {0}
  PROVE  Ancestors(n) \subseteq S
  <1>1. PICK up : /\ DOMAIN up = 0..n /\ up[0] = {Parent(n)} \ {0} /\ Ancestors(n) = up[n]
                  /\ \A k \in 1..n : up[k] = up[k - 1] \union ({Parent(a) : a \in up[k - 1]} \ {0})
    BY GoingUp
  <1> DEFINE I == {k \in Nat : k <= n => up[k] \subseteq S}
  <1>2. n \in Nat
    BY TreeShape
  <1>3. 0 \in I
    BY <1>1
  <1>4. ASSUME NEW k \in Nat, k \in I PROVE k + 1 \in I
    <2> SUFFICES ASSUME k + 1 <= n PROVE up[k + 1] \subseteq S
      OBVIOUS
    <2>1. up[k] \subseteq S
      BY <1>4, <1>2
    <2>2. k + 1 \in 1..n /\ (k + 1) - 1 = k
      BY <1>2
    <2>3. up[k + 1] = up[k] \union ({Parent(a) : a \in up[k]} \ {0})
      BY <2>2, <1>1
    <2> QED
      BY <2>1, <2>3
  <1>5. n \in I
    <2> HIDE DEF I
    <2> QED
      BY <1>2, <1>3, <1>4, SetInduction
  <1> QED
    BY <1>1, <1>2, <1>5

(* A node's ancestors are its parent and the parent's. *)
LEMMA OneUp ==
  ASSUME tree \in Trees, NEW n \in Nodes
  PROVE  /\ n = 1 => Ancestors(n) = {}
         /\ n > 1 => Ancestors(n) = {Parent(n)} \union Ancestors(Parent(n))
  <1>1. CASE n = 1
    <2>1. Parent(n) = 0
      BY <1>1, TreeShape
    <2>2. PICK S : S = {}
      OBVIOUS
    <2>3. Parent(n) \in S \union {0} /\ \A a \in S : Parent(a) \in S \union {0}
      BY <2>1, <2>2
    <2>4. Ancestors(n) \subseteq S
      BY <2>3, AncestorsLeast
    <2> QED
      BY <1>1, <2>2, <2>4
  <1>2. CASE n > 1
    <2> DEFINE p == Parent(n)
               A == Ancestors(n)
               B == Ancestors(p)
               S == {p} \union B
    <2>1. p \in Nodes /\ p # 0
      BY <1>2, TreeShape
    <2>2. p \in A /\ \A a \in A : Parent(a) = 0 \/ Parent(a) \in A
      BY <2>1, AncestorsClosed
    <2>3. {Parent(p)} \ {0} \subseteq B /\ \A a \in B : Parent(a) = 0 \/ Parent(a) \in B
      BY <2>1, AncestorsClosed
    <2>4. A \subseteq S
      <3>1. p \in S \union {0} /\ \A a \in S : Parent(a) \in S \union {0}
        BY <2>3
      <3> HIDE DEF S
      <3> QED
        BY <3>1, AncestorsLeast
    <2>5. B \subseteq A
      <3>1. Parent(p) \in A \union {0} /\ \A a \in A : Parent(a) \in A \union {0}
        BY <2>2
      <3> HIDE DEF A
      <3> HIDE DEF p
      <3> QED
        BY <2>1, <3>1, AncestorsLeast
    <2> QED
      BY <1>2, <2>2, <2>4, <2>5
  <1>3. n \in 1..Len(tree.nodes) /\ Len(tree.nodes) \in Nat
    BY TreeShape
  <1> QED
    BY <1>1, <1>2, <1>3
-----------------------------------------------------------------------------
CallerNames == {NoCaller} \union {Named(n) : n \in Nodes} \union {Anonymous(n) : n \in Nodes}

EdgeRow == [call : Nodes, caller : CallerNames, callee : {CalleeOf(n) : n \in Nodes}]

ArrowBelow(n) == \E v \in Nodes : IsValue(v, n) /\ Kind(v) = "arrow"

(* The functions whose calls the walk can name. *)
NamedFunctions == {f \in Functions : ~Unnamed(f)}

(* x is how calls are attributed within the functions F around them. *)
Innermost(F, x) ==
    \/ F = {} /\ x = NoCaller
    \/ \E f \in F : (\A g \in F : g <= f) /\ x = CalledAs(f)

(* What node n hands to its children: a declarator speaks for its arrow    *)
(* function.                                                               *)
Handed(n, x) ==
    IF ArrowBelow(n) THEN x = Named(n)
    ELSE Innermost((Ancestors(n) \union {n}) \intersect NamedFunctions, x)

IsRow(r) ==
    /\ r.call \in 1..Len(walked) /\ Kind(r.call) = "call"
    /\ r.caller = Inherited(r.call) /\ r.caller # NoCaller /\ r.callee = CalleeOf(r.call)

(* Rows are those of the calls walked under a caller, in order. *)
RowsInOrder ==
    /\ edges \in Seq(EdgeRow)
    /\ \A i \in 1..Len(edges) : IsRow(edges[i])
    /\ \A i, j \in 1..Len(edges) : i < j => edges[i].call < edges[j].call
    /\ \A n \in 1..Len(walked) : Kind(n) = "call" /\ Inherited(n) # NoCaller =>
         \E i \in 1..Len(edges) : edges[i].call = n

WalkedSoFar ==
    /\ walked \in Seq(CallerNames) /\ Len(walked) <= Len(tree.nodes)
    /\ \A n \in 1..Len(walked) : Handed(n, walked[n])

ExtractInv == tree \in Trees /\ WalkedSoFar /\ RowsInOrder

LEMMA HandedStays ==
  ASSUME UNCHANGED tree, NEW n, NEW x
  PROVE  Handed(n, x)' = Handed(n, x)
  <1>1. Ancestors(n)' = Ancestors(n)
    BY DEF Ancestors, Node
  <1>2. NamedFunctions' = NamedFunctions
    BY DEF NamedFunctions, Functions, Unnamed, IsValue, Node
  <1>3. \A f : CalledAs(f)' = CalledAs(f)
    BY DEF CalledAs, IsValue, Node, Named, Anonymous, Literal
  <1>4. ArrowBelow(n)' = ArrowBelow(n) /\ Named(n)' = Named(n)
    BY DEF ArrowBelow, IsValue, Node, Kind, Nodes, Named
  <1> QED
    BY <1>1, <1>2, <1>3, <1>4 DEF Handed, Innermost

(* A value is the only child of its declarator. *)
LEMMA ValueBelow ==
  ASSUME tree \in Trees, NEW n \in Nodes, n > 1
  PROVE  ArrowBelow(Parent(n)) <=> Kind(n) = "arrow" /\ IsValue(n, Parent(n))
  <1>1. \A v \in Nodes : v \in Nat
    BY TreeShape
  <1>2. Kind(Parent(n)) = "declarator" => Parent(n) = n - 1
    BY TreeShape
  <1>3. ASSUME ArrowBelow(Parent(n)) PROVE Kind(n) = "arrow" /\ IsValue(n, Parent(n))
    <2>1. PICK v \in Nodes : IsValue(v, Parent(n)) /\ Kind(v) = "arrow"
      BY <1>3 DEF ArrowBelow
    <2>2. Kind(Parent(n)) = "declarator" /\ Parent(n) = v - 1
      BY <2>1 DEF IsValue, Kind, Node
    <2>3. v = n
      BY <2>2, <1>1, <1>2
    <2> QED
      BY <2>1, <2>3
  <1> QED
    BY <1>3 DEF ArrowBelow

(* What a node gets from its parent, unless it is the arrow function whose *)
(* name the parent is.                                                     *)
LEMMA InheritedIs ==
  ASSUME tree \in Trees, NEW n \in Nodes, n > 1 => Handed(Parent(n), walked[Parent(n)]),
         ~(n > 1 /\ ArrowBelow(Parent(n)))
  PROVE  Innermost(Ancestors(n) \intersect NamedFunctions, Inherited(n))
  <1>1. CASE n = 1
    BY <1>1, OneUp DEF Innermost, Inherited
  <1>2. CASE n # 1
    <2>1. n > 1
      BY <1>2, TreeShape
    <2>2. Ancestors(n) = Ancestors(Parent(n)) \union {Parent(n)} /\ Inherited(n) = walked[Parent(n)]
      BY <2>1, <1>2, OneUp DEF Inherited, Parent, Node
    <2> QED
      BY <2>1, <2>2 DEF Handed
  <1> QED
    BY <1>1, <1>2

LEMMA NextIsHanded ==
  ASSUME tree \in Trees, NEW n \in Nodes, n > 1 => Handed(Parent(n), walked[Parent(n)])
  PROVE  Handed(n, NextCaller(n))
  <1> DEFINE F == Ancestors(n) \intersect NamedFunctions
             G == (Ancestors(n) \union {n}) \intersect NamedFunctions
             x == NextCaller(n)
  <1>1. n \in Nat /\ Parent(n) \in Nat /\ (Parent(n) = 0 <=> n = 1) /\ n >= 1
    BY TreeShape
  <1>2. \A g \in F : g \in Nat /\ g < n
    BY <1>1, AncestorsClosed
  <1>3. n \in NamedFunctions => (\A g \in G : g <= n) /\ n \in G
    BY <1>1, <1>2
  <1>4. n \notin NamedFunctions => G = F
    OBVIOUS
  <1>5. n > 1 => (ArrowBelow(Parent(n)) <=> Kind(n) = "arrow" /\ IsValue(n, Parent(n)))
    BY ValueBelow
  <1>6. ~IsValue(n, Parent(n)) \/ (n > 1 /\ Kind(Parent(n)) = "declarator")
    BY <1>1 DEF IsValue, Kind, Node
  <1>7. Kind(n) \in {"function", "method"} => ~IsValue(n, Parent(n))
    BY <1>6, TreeShape
  <1>8. CASE ArrowBelow(n)
    <2>1. Kind(n) = "declarator"
      BY <1>8 DEF ArrowBelow, IsValue, Kind, Node
    <2>2. NextCaller(n) = Named(n)
      BY <1>8, <2>1 DEF NextCaller, ArrowBelow, Nodes, Kind, Node
    <2> QED
      BY <1>8, <2>2 DEF Handed
  <1>9. CASE ~ArrowBelow(n)
    <2>0. NextCaller(n) = IF Kind(n) \in {"function", "method"} THEN Named(n)
                          ELSE IF Literal(n) /\ ~IsValue(n, Parent(n)) THEN Anonymous(n) ELSE Inherited(n)
      BY <1>9 DEF NextCaller, ArrowBelow, Nodes, Kind, Node, Parent
    <2>1. CASE Kind(n) \in {"function", "method"}
      <3>1. n \in NamedFunctions /\ CalledAs(n) = Named(n)
        BY <2>1, <1>7 DEF NamedFunctions, Functions, Unnamed, CalledAs, Literal, Kind, Node, Nodes, Parent
      <3> QED
        BY <3>1, <2>0, <2>1, <1>3, <1>9 DEF Handed, Innermost
    <2>2. CASE Kind(n) \notin {"function", "method"} /\ Literal(n) /\ ~IsValue(n, Parent(n))
      <3>1. n \in NamedFunctions /\ CalledAs(n) = Anonymous(n)
        BY <2>2 DEF NamedFunctions, Functions, Unnamed, CalledAs, Literal, Kind, Node, Nodes, Parent
      <3> QED
        BY <3>1, <2>0, <2>2, <1>3, <1>9 DEF Handed, Innermost
    <2>3. CASE Kind(n) = "arrow" /\ IsValue(n, Parent(n))
      <3>1. n > 1 /\ walked[Parent(n)] = Named(Parent(n))
        BY <2>3, <1>5, <1>6 DEF Handed
      <3>2. n \in NamedFunctions /\ CalledAs(n) = Named(Parent(n)) /\ Inherited(n) = Named(Parent(n))
        BY <2>3, <3>1 DEF NamedFunctions, Functions, Unnamed, CalledAs, Inherited, Kind, Node, Nodes, Parent
      <3> QED
        BY <3>2, <2>0, <2>3, <1>3, <1>9 DEF Handed, Innermost
    <2>4. CASE Kind(n) \notin {"function", "method"} /\ (Literal(n) => IsValue(n, Parent(n))) /\ Kind(n) # "arrow"
      <3>1. n \notin NamedFunctions
        BY <2>4 DEF NamedFunctions, Functions, Unnamed, IsValue, Literal, Kind, Node, Nodes, Parent
      <3>2. Innermost(F, Inherited(n))
        BY <2>4, <1>5, InheritedIs
      <3> QED
        BY <3>1, <3>2, <2>0, <2>4, <1>4, <1>9 DEF Handed
    <2> QED
      BY <2>1, <2>2, <2>3, <2>4 DEF Literal, Kind, Node
  <1> QED
    BY <1>8, <1>9

LEMMA ExtractInitInv == ExtractInit => ExtractInv
  <1> SUFFICES ASSUME ExtractInit PROVE ExtractInv
    OBVIOUS
  <1>1. tree \in Trees /\ walked = <<>> /\ edges = <<>>
    BY DEF ExtractInit
  <1>2. Len(tree.nodes) \in Nat
    BY <1>1, TreeShape
  <1> QED
    BY <1>1, <1>2 DEF ExtractInv, WalkedSoFar, RowsInOrder

LEMMA WalkNodeInv ==
  ASSUME ExtractInv, WalkNode
  PROVE  ExtractInv'
  <1> DEFINE n == Len(walked) + 1
             x == NextCaller(n)
  <1>1. /\ tree \in Trees /\ tree' = tree /\ Len(tree.nodes) \in Nat /\ Nodes = 1..Len(tree.nodes)
        /\ walked \in Seq(CallerNames) /\ edges \in Seq(EdgeRow)
    BY TreeShape DEF ExtractInv, WalkedSoFar, RowsInOrder, WalkNode
  <1>2. Len(walked) \in Nat /\ n \in Nodes /\ walked' = Append(walked, x)
    BY <1>1 DEF WalkNode
  <1>3. \A m \in Nodes : m > 1 => Parent(m) \in 1..(m - 1)
    <2>1. \A m \in Nodes : m \in Nat /\ Parent(m) \in 0..(m - 1) /\ (Parent(m) = 0 <=> m = 1)
      BY <1>1, TreeShape
    <2> QED
      BY <2>1
  <1>4. \A m \in 1..Len(walked) : Handed(m, walked[m])
    BY DEF ExtractInv, WalkedSoFar
  <1>5. n > 1 => Handed(Parent(n), walked[Parent(n)])
    BY <1>2, <1>3, <1>4
  <1>6. Handed(n, x)
    BY <1>1, <1>2, <1>5, NextIsHanded
  <1>7. Inherited(n) \in CallerNames /\ x \in CallerNames
    <2>1. Inherited(n) \in CallerNames
      <3>1. n > 1 => walked[Parent(n)] \in CallerNames
        BY <1>1, <1>2, <1>3
      <3> QED
        BY <3>1, <1>2 DEF Inherited, CallerNames, Parent, Node
    <2>2. Named(n) \in CallerNames /\ Anonymous(n) \in CallerNames
      BY <1>2 DEF CallerNames
    <2> QED
      BY <2>1, <2>2 DEF NextCaller
  <1>8. CallerNames' = CallerNames /\ EdgeRow' = EdgeRow /\ Nodes' = Nodes
    BY <1>1 DEF CallerNames, EdgeRow, Nodes, Named, Anonymous, CalleeOf, Node
  <1> HIDE DEF x
  <1>9. /\ walked' \in Seq(CallerNames) /\ Len(walked') = n
        /\ \A m \in 1..Len(walked) : walked'[m] = walked[m]
        /\ walked'[n] = x
    BY <1>1, <1>2, <1>7
  <1>10. \A m \in 1..n : Handed(m, walked[m])'
    <2> TAKE m \in 1..n
    <2>1. PICK y : y = walked'[m]
      OBVIOUS
    <2>2. Handed(m, y)
      BY <2>1, <1>2, <1>4, <1>6, <1>9
    <2>3. Handed(m, y)'
      BY <2>2, <1>1, HandedStays
    <2> QED
      BY <2>1, <2>3 DEF Handed, Innermost
  <1>11. WalkedSoFar'
    BY <1>1, <1>2, <1>8, <1>9, <1>10 DEF WalkedSoFar
  <1>12. \A m \in 1..n : Inherited(m)' = Inherited(m)
    <2> TAKE m \in 1..n
    <2>1. CASE m = 1
      BY <2>1 DEF Inherited
    <2>2. CASE m # 1
      <3>1. Parent(m) \in 1..Len(walked)
        BY <2>2, <1>1, <1>2, <1>3
      <3> QED
        BY <2>2, <3>1, <1>1, <1>9 DEF Inherited, Parent, Node
    <2> QED
      BY <2>1, <2>2
  <1>13. \A m : Kind(m)' = Kind(m) /\ CalleeOf(m)' = CalleeOf(m)
    BY <1>1 DEF Kind, CalleeOf, Anonymous, Node
  <1>16. ASSUME NEW r, IsRow(r) PROVE IsRow(r)' /\ r.call \in Nat /\ r.call < n
    <2>1. r.call \in 1..Len(walked) /\ r.call \in 1..n
      BY <1>2, <1>16 DEF IsRow
    <2>2. r.call \in 1..Len(walked')
      BY <2>1, <1>9
    <2> QED
      BY <2>1, <2>2, <1>2, <1>12, <1>13, <1>16 DEF IsRow
  <1>18. /\ \A i \in 1..Len(edges) : IsRow(edges[i])
         /\ \A i, j \in 1..Len(edges) : i < j => edges[i].call < edges[j].call
    BY DEF ExtractInv, RowsInOrder
  <1>17. ASSUME NEW m \in 1..Len(walked), Kind(m) = "call", Inherited(m) # NoCaller
         PROVE  \E i \in 1..Len(edges) : edges[i].call = m
    BY <1>17 DEF ExtractInv, RowsInOrder
  <1>14. CASE Kind(n) = "call" /\ Inherited(n) # NoCaller
    <2>8. PICK r : r = [call |-> n, caller |-> Inherited(n), callee |-> CalleeOf(n)]
      OBVIOUS
    <2>1. edges' = Append(edges, r)
      BY <2>8, <1>14 DEF WalkNode, Kind, Node
    <2>2. r \in EdgeRow /\ r.call = n /\ r.caller = Inherited(n) /\ r.callee = CalleeOf(n)
      BY <2>8, <1>2, <1>7 DEF EdgeRow
    <2>3. /\ edges' \in Seq(EdgeRow) /\ Len(edges') = Len(edges) + 1 /\ Len(edges) \in Nat
          /\ \A i \in 1..Len(edges) : edges'[i] = edges[i]
          /\ edges'[Len(edges) + 1] = r
      BY <2>1, <2>2, <1>1
    <2>4. IsRow(r)'
      <3>1. n \in 1..Len(walked')
        BY <1>2, <1>9
      <3> QED
        BY <3>1, <2>2, <1>12, <1>13, <1>14, <1>2 DEF IsRow
    <2>5. \A i \in 1..Len(edges') : IsRow(edges[i])'
      <3> TAKE i \in 1..Len(edges')
      <3>1. PICK q : q = edges'[i]
        OBVIOUS
      <3>2. q = r \/ (i \in 1..Len(edges) /\ q = edges[i])
        BY <3>1, <2>3
      <3>3. IsRow(q)'
        <4>1. (i \in 1..Len(edges) /\ q = edges[i]) => IsRow(q)
          BY <1>18 DEF IsRow
        <4> QED
          BY <3>2, <4>1, <2>4, <1>16
      <3> QED
        BY <3>1, <3>3 DEF IsRow
    <2>7. \A i, j \in 1..Len(edges') : i < j => edges'[i].call < edges'[j].call
      <3> SUFFICES ASSUME NEW i \in 1..Len(edges'), NEW j \in 1..Len(edges'), i < j
                   PROVE  edges'[i].call < edges'[j].call
        OBVIOUS
      <3>1. i \in 1..Len(edges) /\ edges'[i] = edges[i] /\ edges[i].call < n
        <4>1. i \in 1..Len(edges)
          BY <2>3
        <4>2. IsRow(edges[i])
          BY <4>1, <1>18
        <4>3. edges[i].call \in 1..Len(walked)
          BY <4>2 DEF IsRow
        <4> QED
          BY <4>1, <4>3, <2>3, <1>2
      <3>2. CASE j = Len(edges) + 1
        BY <3>1, <3>2, <2>2, <2>3
      <3>3. CASE j \in 1..Len(edges)
        BY <3>1, <3>3, <2>3, <1>18
      <3> QED
        BY <3>2, <3>3, <2>3
    <2>6. \A m \in 1..n : Kind(m)' = "call" /\ Inherited(m)' # NoCaller =>
             \E i \in 1..Len(edges') : edges'[i].call = m
      <3> TAKE m \in 1..n
      <3>1. CASE m = n
        <4>1. Len(edges) + 1 \in 1..Len(edges')
          BY <2>3
        <4> QED
          BY <3>1, <4>1, <2>2, <2>3
      <3>2. CASE m \in 1..Len(walked)
        <4>1. Kind(m) = "call" /\ Inherited(m) # NoCaller => \E i \in 1..Len(edges) : edges[i].call = m
          BY <3>2, <1>17
        <4> QED
          BY <4>1, <2>3, <1>12, <1>13
      <3> QED
        BY <3>1, <3>2, <1>2
    <2>9. (\A m \in 1..Len(walked) : Kind(m) = "call" /\ Inherited(m) # NoCaller =>
             \E i \in 1..Len(edges) : edges[i].call = m)'
      BY <2>6, <1>9
    <2>10. (\A i \in 1..Len(edges) : IsRow(edges[i]))'
      BY <2>5
    <2>11. (edges \in Seq(EdgeRow))' /\ (\A i, j \in 1..Len(edges) : i < j => edges[i].call < edges[j].call)'
      BY <2>3, <2>7, <1>8
    <2> QED
      BY <2>9, <2>10, <2>11, <1>1, <1>11 DEF RowsInOrder, ExtractInv
  <1>15. CASE ~(Kind(n) = "call" /\ Inherited(n) # NoCaller)
    <2>1. edges' = edges
      BY <1>15 DEF WalkNode, Kind, Node
    <2>3. \A m \in 1..n : Kind(m)' = "call" /\ Inherited(m)' # NoCaller =>
             \E i \in 1..Len(edges) : edges[i].call = m
      <3> TAKE m \in 1..n
      <3>1. CASE m = n
        BY <3>1, <1>12, <1>13, <1>15
      <3>2. CASE m \in 1..Len(walked)
        <4>1. Kind(m) = "call" /\ Inherited(m) # NoCaller => \E i \in 1..Len(edges) : edges[i].call = m
          BY <3>2, <1>17
        <4> QED
          BY <4>1, <1>12, <1>13
      <3> QED
        BY <3>1, <3>2, <1>2
    <2>4. \A i \in 1..Len(edges') : IsRow(edges[i])'
      <3> TAKE i \in 1..Len(edges')
      <3>1. PICK q : q = edges'[i]
        OBVIOUS
      <3>2. IsRow(q)
        BY <3>1, <2>1, <1>18 DEF IsRow
      <3>3. IsRow(q)'
        BY <3>2, <1>16
      <3> QED
        BY <3>1, <3>3 DEF IsRow
    <2> QED
      BY <2>1, <2>3, <2>4, <1>1, <1>8, <1>9, <1>11, <1>18 DEF RowsInOrder, ExtractInv
  <1> QED
    BY <1>14, <1>15

(* The rows of a file whose walk is under way are those of its calls so    *)
(* far, each under the function around it, in every reachable state.       *)
THEOREM ExtractInvariant == ExtractSpec => []ExtractInv
  <1>1. ExtractInv /\ UNCHANGED extractVars => ExtractInv'
    <2> SUFFICES ASSUME ExtractInv, UNCHANGED extractVars PROVE ExtractInv'
      OBVIOUS
    <2>1. tree' = tree /\ walked' = walked /\ edges' = edges
      BY DEF extractVars
    <2>2. WalkedSoFar'
      <3>1. CallerNames' = CallerNames
        BY <2>1 DEF CallerNames, Nodes, Named, Anonymous, Node
      <3>2. ASSUME NEW n \in 1..Len(walked) PROVE Handed(n, walked[n])'
        <4>1. PICK x : x = walked[n] /\ Handed(n, x)
          BY DEF ExtractInv, WalkedSoFar
        <4>2. Handed(n, x)'
          BY <2>1, <4>1, HandedStays
        <4> QED
          BY <2>1, <4>1, <4>2 DEF Handed, Innermost
      <3> QED
        BY <2>1, <3>1, <3>2 DEF ExtractInv, WalkedSoFar
    <2>3. RowsInOrder'
      <3>1. EdgeRow' = EdgeRow
        BY <2>1 DEF EdgeRow, CallerNames, Nodes, Named, Anonymous, CalleeOf, Node
      <3>2. \A n : Kind(n)' = Kind(n) /\ Inherited(n)' = Inherited(n) /\ CalleeOf(n)' = CalleeOf(n)
        BY <2>1 DEF Kind, Inherited, CalleeOf, Anonymous, Node
      <3>3. \A r : IsRow(r) => IsRow(r)'
        BY <2>1, <3>2 DEF IsRow
      <3>4. ASSUME NEW i \in 1..Len(edges) PROVE IsRow(edges[i])'
        <4>1. PICK r : r = edges[i] /\ IsRow(r)
          BY DEF ExtractInv, RowsInOrder
        <4>2. IsRow(r)'
          BY <4>1, <3>3
        <4> QED
          BY <2>1, <4>1, <4>2 DEF IsRow
      <3> QED
        BY <2>1, <3>1, <3>2, <3>4 DEF ExtractInv, RowsInOrder
    <2> QED
      BY <2>1, <2>2, <2>3 DEF ExtractInv
  <1>2. ExtractInv /\ [ExtractNext]_extractVars => ExtractInv'
    BY <1>1, WalkNodeInv DEF ExtractNext
  <1> QED
    BY <1>2, ExtractInitInv, PTL DEF ExtractSpec

(* The names of functions are no NoCaller. *)
LEMMA FunctionsNamed ==
  ASSUME tree \in Trees, NEW f \in NamedFunctions
  PROVE  CalledAs(f) # NoCaller
  <1>1. \A n \in Nodes : NoCaller # Named(n) /\ NoCaller # Anonymous(n)
    BY TreesAssumption DEF Nodes, Named, Anonymous, Node
  <1>2. f \in Nodes /\ (IsValue(f, Parent(f)) => Parent(f) \in Nodes)
    <2>1. f \in Nodes
      BY DEF NamedFunctions, Functions, Nodes
    <2>2. Parent(f) # 0 => f > 1 /\ Parent(f) \in Nodes
      BY <2>1, TreeShape
    <2> QED
      BY <2>1, <2>2 DEF IsValue
  <1> QED
    BY <1>1, <1>2 DEF CalledAs, Parent, Node

(* Once the walk is over, the calls' rows are as CallsAttributed has them. *)
LEMMA WalkedAttributed == ExtractInv /\ Walked => CallsAttributed
  <1> SUFFICES ASSUME ExtractInv, Walked PROVE CallsAttributed
    OBVIOUS
  <1>1. /\ tree \in Trees /\ Len(walked) \in Nat /\ Nodes = 1..Len(walked)
        /\ edges \in Seq(EdgeRow) /\ DOMAIN edges = 1..Len(edges) /\ Len(edges) \in Nat
    BY TreeShape DEF ExtractInv, WalkedSoFar, RowsInOrder, Walked
  <1>2. ASSUME NEW n \in Nodes, Kind(n) = "call"
        PROVE  Innermost(Ancestors(n) \intersect NamedFunctions, Inherited(n))
    <2>1. n > 1 => Parent(n) \in 1..Len(walked)
      BY <1>1, TreeShape
    <2>2. n > 1 => Handed(Parent(n), walked[Parent(n)])
      BY <2>1 DEF ExtractInv, WalkedSoFar
    <2>3. n > 1 => ~ArrowBelow(Parent(n))
      BY <1>1, <1>2, ValueBelow
    <2> QED
      BY <2>2, <2>3, <1>1, InheritedIs
  <1>3. ASSUME NEW n \in Nodes, Kind(n) = "call"
        PROVE  /\ Inherited(n) # NoCaller => \E f \in Around(n) : ~Unnamed(f) /\ Inherited(n) = CalledAs(f)
               /\ \A f \in Around(n) : (~Unnamed(f) /\ \A g \in Around(n) : g <= f) =>
                    Inherited(n) # NoCaller /\ Inherited(n) = CalledAs(f)
    <2> DEFINE F == Ancestors(n) \intersect NamedFunctions
    <2>1. Innermost(F, Inherited(n))
      BY <1>2, <1>3
    <2>2. F = {f \in Around(n) : ~Unnamed(f)}
      BY DEF Around, NamedFunctions
    <2>3. \A f \in F : f \in Int /\ CalledAs(f) # NoCaller
      <3>1. F \subseteq NamedFunctions /\ F \subseteq 1..(n - 1)
        BY <1>1, AncestorsClosed
      <3> QED
        BY <3>1, <1>1, FunctionsNamed
    <2> HIDE DEF F
    <2>4. CASE F = {} /\ Inherited(n) = NoCaller
      BY <2>2, <2>4
    <2>5. CASE F # {}
      <3>1. PICK f \in F : (\A g \in F : g <= f) /\ Inherited(n) = CalledAs(f)
        BY <2>1, <2>5 DEF Innermost
      <3>2. ASSUME NEW h \in Around(n), ~Unnamed(h), \A g \in Around(n) : g <= h PROVE h = f
        <4>1. h \in F /\ f \in Around(n)
          BY <2>2, <3>2
        <4>2. h <= f /\ f <= h
          BY <3>1, <3>2, <4>1
        <4> QED
          BY <4>1, <4>2, <2>3
      <3>3. f \in Around(n) /\ ~Unnamed(f) /\ CalledAs(f) # NoCaller
        BY <2>2, <2>3
      <3> QED
        BY <3>1, <3>2, <3>3
    <2> QED
      BY <2>1, <2>4, <2>5 DEF Innermost
  <1>4. ASSUME NEW i \in DOMAIN edges PROVE IsRow(edges[i]) /\ edges[i].call \in Nodes
    BY <1>1, <1>4 DEF ExtractInv, RowsInOrder, IsRow
  <1>5. ASSUME NEW n \in Nodes, Kind(n) = "call"
        PROVE  LET rows == {i \in DOMAIN edges : edges[i].call = n} IN
               /\ Cardinality(rows) <= 1
               /\ \A i \in rows : \E f \in Around(n) : ~Unnamed(f) /\ edges[i].caller = CalledAs(f)
               /\ \A f \in Around(n) : (~Unnamed(f) /\ \A g \in Around(n) : g <= f) =>
                    rows # {} /\ \A i \in rows : edges[i].caller = CalledAs(f)
    <2> DEFINE rows == {i \in DOMAIN edges : edges[i].call = n}
    <2>1. \A i \in rows : edges[i].caller = Inherited(n) /\ Inherited(n) # NoCaller
      BY <1>4 DEF IsRow
    <2>2. Inherited(n) # NoCaller => rows # {}
      <3>1. Inherited(n) # NoCaller => \E i \in 1..Len(edges) : edges[i].call = n
        BY <1>1, <1>5 DEF ExtractInv, RowsInOrder
      <3> QED
        BY <3>1, <1>1
    <2>3. ASSUME NEW i \in rows PROVE rows = {i}
      <3>1. \A j \in rows : ~(i < j) /\ ~(j < i)
        <4> TAKE j \in rows
        <4>1. j \in 1..Len(edges) /\ i \in 1..Len(edges) /\ edges[j].call = n /\ edges[i].call = n /\ n \in Int
          BY <1>1
        <4>2. /\ i < j => edges[i].call < edges[j].call
              /\ j < i => edges[j].call < edges[i].call
          BY <4>1 DEF ExtractInv, RowsInOrder
        <4> QED
          BY <4>1, <4>2
      <3>2. \A j \in rows : j \in Int
        BY <1>1
      <3> QED
        BY <3>1, <3>2
    <2>4. Cardinality(rows) <= 1
      <3>1. rows = {} \/ \E i \in rows : rows = {i}
        BY <2>3
      <3> HIDE DEF rows
      <3>2. CASE rows = {}
        BY <3>2, FS_EmptySet
      <3>3. CASE \E i \in rows : rows = {i}
        <4>1. PICK i : rows = {i}
          BY <3>3
        <4>2. Cardinality(rows) = 1
          BY <4>1, FS_Singleton
        <4> QED
          BY <4>2
      <3> QED
        BY <3>1, <3>2, <3>3
    <2> HIDE DEF rows
    <2>5. \A i \in rows : \E f \in Around(n) : ~Unnamed(f) /\ edges[i].caller = CalledAs(f)
      BY <2>1, <1>3, <1>5
    <2>6. \A f \in Around(n) : (~Unnamed(f) /\ \A g \in Around(n) : g <= f) =>
            rows # {} /\ \A i \in rows : edges[i].caller = CalledAs(f)
      BY <2>1, <2>2, <1>3, <1>5
    <2> QED
      BY <2>4, <2>5, <2>6 DEF rows
  <1>6. ASSUME NEW i \in DOMAIN edges, Node(edges[i].call).literal # 0
        PROVE  edges[i].callee = CalledAs(Node(edges[i].call).literal)
    <2>1. PICK n \in Nodes : n = edges[i].call
      BY <1>4
    <2>2. edges[i].callee = CalleeOf(n)
      BY <1>4, <2>1 DEF IsRow
    <2> DEFINE l == Node(n).literal
    <2>3. /\ l \in Nodes \ {1} /\ Kind(l) \in {"arrow", "expression"} /\ Kind(Parent(l)) # "declarator"
      BY <1>1, <1>6, <2>1, TreesAssumption DEF Nodes, Kind, Parent, Node
    <2>4. CalledAs(l) = Anonymous(l)
      BY <2>3 DEF CalledAs, IsValue, Literal, Kind, Parent, Node
    <2> QED
      BY <2>1, <2>2, <2>4, <1>6 DEF CalleeOf
  <1>7. ASSUME NEW f \in Declared, ~IsScript PROVE f \in SymbolRows \intersect ChunkedFunctions
    BY <1>7 DEF Declared, SymbolRows, ChunkedFunctions
  <1> QED
    BY <1>5, <1>6, <1>7 DEF CallsAttributed, Nodes, Kind, Node

(* Whatever the tree of a file, a call in it has at most one row, under    *)
(* the name of a function it is in, and that of the innermost one unless   *)
(* that is a function expression bound to a variable or a generator, which *)
(* the walk has no name for; calls at the top of the file have none.       *)
THEOREM CallsAreAttributed == ExtractSpec => []CallsAttributed
  <1>1. ExtractInv => CallsAttributed
    BY WalkedAttributed DEF CallsAttributed
  <1> QED
    BY <1>1, ExtractInvariant, PTL
-----------------------------------------------------------------------------
(* The bounded call graph: what is called from a set of symbols. *)
Callees(S) == {e.callee : e \in {e \in callEdges : e.caller \in S}}

LEMMA WithinSteps ==
  ASSUME callEdges \subseteq CallEdge, NEW s \in GraphSymbols
  PROVE  /\ Within(s, 0) = {s}
         /\ \A d \in Nat : /\ Within(s, d) \subseteq GraphSymbols
                           /\ Within(s, d + 1) = Within(s, d) \union Callees(Within(s, d))
  <1> DEFINE T == SUBSET GraphSymbols
             step == [X \in T |-> X \union Callees(X)]
             Is(near, d) == near = [n \in 0..d |-> IF n = 0 THEN {s}
                               ELSE near[n - 1] \union {e.callee : e \in {e \in callEdges : e.caller \in near[n - 1]}}]
  <1>1. step \in [T -> T] /\ {s} \in T
    BY DEF Callees, CallEdge
  <1> HIDE DEF T, step
  <1>2. PICK f : Unfolds(f, T, {s}, step)
    BY <1>1, Unfolded
  <1>3. f \in [Nat -> T] /\ f[0] = {s} /\ \A k \in Nat : f[k + 1] = step[f[k]]
    BY <1>2 DEF Unfolds
  <1>4. \A k \in Nat : f[k] \in T /\ f[k + 1] = f[k] \union Callees(f[k])
    BY <1>3 DEF step
  <1>5. ASSUME NEW d \in Nat PROVE Within(s, d) = f[d]
    <2> DEFINE g == [n \in 0..d |-> f[n]]
               near == CHOOSE near : Is(near, d)
    <2>1. \A n \in 0..d : n # 0 => n - 1 \in 0..d /\ n - 1 \in Nat /\ (n - 1) + 1 = n
      OBVIOUS
    <2>2. \A n \in 0..d : g[n] = IF n = 0 THEN {s} ELSE g[n - 1] \union Callees(g[n - 1])
      BY <2>1, <1>3, <1>4
    <2>3. Is(g, d)
      BY <2>2 DEF Callees
    <2>4. Is(near, d)
      BY <2>3
    <2>5. Within(s, d) = near[d]
      BY DEF Within
    <2> HIDE DEF near, g
    <2>6. \A n \in 0..d : near[n] = IF n = 0 THEN {s} ELSE near[n - 1] \union Callees(near[n - 1])
      BY <2>4 DEF Callees
    <2> HIDE DEF Is
    <2> DEFINE S == {n \in Nat : n <= d => near[n] = f[n]}
    <2>7. 0 \in S
      <3>1. 0 \in 0..d
        OBVIOUS
      <3>2. near[0] = {s}
        BY <3>1, <2>6
      <3> QED
        BY <3>2, <1>3
    <2>8. ASSUME NEW n \in Nat, n \in S PROVE n + 1 \in S
      <3> SUFFICES ASSUME n + 1 <= d PROVE near[n + 1] = f[n + 1]
        OBVIOUS
      <3>1. n + 1 \in 0..d /\ n + 1 # 0 /\ (n + 1) - 1 = n /\ near[n] = f[n]
        BY <2>8
      <3> QED
        BY <3>1, <2>6, <1>4
    <2> HIDE DEF S
    <2>9. d \in S
      BY <2>7, <2>8, SetInduction
    <2> QED
      BY <2>5, <2>9 DEF S
  <1> QED
    BY <1>3, <1>4, <1>5 DEF T

(* Symbols are reached in fewer calls, in any number up to d, and only by  *)
(* a call from a symbol reached before.                                    *)
LEMMA WithinGrows ==
  ASSUME callEdges \subseteq CallEdge, NEW s \in GraphSymbols, NEW d \in Nat, NEW c \in 0..d
  PROVE  Within(s, c) \subseteq Within(s, d)
  <1> DEFINE S == {n \in Nat : \A m \in 0..n : Within(s, m) \subseteq Within(s, n)}
  <1>1. 0 \in S
    OBVIOUS
  <1>2. ASSUME NEW n \in Nat, n \in S PROVE n + 1 \in S
    <2> SUFFICES ASSUME NEW m \in 0..(n + 1) PROVE Within(s, m) \subseteq Within(s, n + 1)
      OBVIOUS
    <2>1. Within(s, n) \subseteq Within(s, n + 1)
      BY WithinSteps
    <2>2. m = n + 1 \/ m \in 0..n
      OBVIOUS
    <2> QED
      BY <2>1, <2>2, <1>2
  <1> HIDE DEF S
  <1>3. d \in S
    BY <1>1, <1>2, SetInduction
  <1> QED
    BY <1>3 DEF S

(* The walk of the query: its paths by their length. *)
Path == [edge : CallEdge, visited : SUBSET GraphSymbols]

Starts(s)  == {[edge |-> e, visited |-> {s}] : e \in From(s)}
Further(X) == UNION {{[edge |-> e, visited |-> p.visited \union {e.caller}]
                        : e \in {e \in From(p.edge.callee) : e.caller \notin p.visited}} : p \in X}

Levels(f, s) == f \in [Nat -> SUBSET Path] /\ f[0] = Starts(s) /\ \A k \in Nat : f[k + 1] = Further(f[k])

RowsOf(f, d) == UNION {{[edge |-> p.edge, depth |-> k] : p \in f[k - 1]} : k \in 1..d}

LEMMA RowLevels ==
  ASSUME callEdges \subseteq CallEdge, NEW s \in GraphSymbols, NEW d \in Nat \ {0}
  PROVE  \E f : Levels(f, s) /\ BoundedRows(s, d) = RowsOf(f, d)
  <1> DEFINE T == SUBSET Path
             step == [X \in T |-> Further(X)]
             Is(walk) == walk = [k \in 1..d |->
                IF k = 1 THEN {[edge |-> e, visited |-> {s}] : e \in From(s)}
                ELSE UNION {{[edge |-> e, visited |-> p.visited \union {e.caller}]
                                : e \in {e \in From(p.edge.callee) : e.caller \notin p.visited}}
                                : p \in walk[k - 1]}]
  <1>1. step \in [T -> T]
    <2> SUFFICES ASSUME NEW X \in T PROVE Further(X) \in T
      OBVIOUS
    <2> SUFFICES ASSUME NEW p \in X, NEW e \in From(p.edge.callee)
                 PROVE  [edge |-> e, visited |-> p.visited \union {e.caller}] \in Path
      BY DEF Further
    <2>1. e \in CallEdge /\ e.caller \in GraphSymbols /\ p \in Path /\ p.visited \subseteq GraphSymbols
      BY DEF From, CallEdge, Path
    <2> QED
      BY <2>1 DEF Path
  <1>2. Starts(s) \in T
    BY DEF Starts, Path, From
  <1> HIDE DEF T, step
  <1>3. PICK f : Unfolds(f, T, Starts(s), step)
    BY <1>1, <1>2, Unfolded
  <1>4. f \in [Nat -> T] /\ f[0] = Starts(s) /\ \A k \in Nat : f[k + 1] = step[f[k]]
    BY <1>3 DEF Unfolds
  <1>5. \A k \in Nat : f[k] \in T /\ f[k + 1] = Further(f[k])
    BY <1>4 DEF step
  <1>6. Levels(f, s)
    BY <1>4, <1>5 DEF Levels, T
  <1> DEFINE g == [k \in 1..d |-> f[k - 1]]
             walk == CHOOSE walk : Is(walk)
  <1>7. \A k \in 1..d : k # 1 => k - 1 \in 1..d /\ (k - 1) - 1 \in Nat /\ ((k - 1) - 1) + 1 = k - 1
    OBVIOUS
  <1>8. \A k \in 1..d : g[k] = IF k = 1 THEN Starts(s) ELSE Further(g[k - 1])
    <2> TAKE k \in 1..d
    <2>1. k = 1 => k - 1 = 0
      OBVIOUS
    <2>2. k # 1 => f[k - 1] = Further(f[(k - 1) - 1])
      BY <1>7, <1>5
    <2> QED
      BY <2>1, <2>2, <1>7, <1>4
  <1>9. Is(g)
    BY <1>8 DEF Starts, Further
  <1>10. Is(walk)
    BY <1>9
  <1>11. BoundedRows(s, d) = UNION {{[edge |-> p.edge, depth |-> k] : p \in walk[k]} : k \in 1..d}
    BY DEF BoundedRows
  <1> HIDE DEF walk, g
  <1>12. \A k \in 1..d : walk[k] = IF k = 1 THEN Starts(s) ELSE Further(walk[k - 1])
    BY <1>10 DEF Starts, Further
  <1> HIDE DEF Is
  <1> DEFINE S == {k \in Nat : k + 1 <= d => walk[k + 1] = f[k]}
  <1>13. 0 \in S
    <2>1. 1 \in 1..d /\ 0 + 1 = 1
      OBVIOUS
    <2>2. walk[1] = Starts(s)
      BY <2>1, <1>12
    <2> QED
      BY <2>1, <2>2, <1>4
  <1>14. ASSUME NEW k \in Nat, k \in S PROVE k + 1 \in S
    <2> SUFFICES ASSUME (k + 1) + 1 <= d PROVE walk[(k + 1) + 1] = f[k + 1]
      OBVIOUS
    <2>1. (k + 1) + 1 \in 1..d /\ (k + 1) + 1 # 1 /\ ((k + 1) + 1) - 1 = k + 1
      OBVIOUS
    <2>2. walk[k + 1] = f[k]
      BY <1>14
    <2> QED
      BY <2>1, <2>2, <1>12, <1>5
  <1>15. \A k \in Nat : k \in S
    <2> HIDE DEF S
    <2> QED
      BY <1>13, <1>14, SetInduction
  <1>16. \A k \in 1..d : walk[k] = f[k - 1]
    <2> TAKE k \in 1..d
    <2>1. k - 1 \in Nat /\ (k - 1) + 1 = k /\ k <= d
      OBVIOUS
    <2>2. k - 1 \in S
      BY <2>1, <1>15
    <2> QED
      BY <2>1, <2>2
  <1>17. BoundedRows(s, d) = RowsOf(f, d)
    <2> HIDE DEF S
    <2> QED
      BY <1>11, <1>16 DEF RowsOf
  <1> QED
    BY <1>6, <1>17

(* A path of the walk follows calls away from the root, and has visited    *)
(* only symbols within its length.                                         *)
LEMMA PathsFollowCalls ==
  ASSUME callEdges \subseteq CallEdge, NEW s \in GraphSymbols, NEW f, Levels(f, s), NEW k \in Nat, NEW p \in f[k]
  PROVE  /\ p \in Path /\ p.edge \in callEdges /\ p.edge.caller \in Within(s, k) /\ p.visited \subseteq Within(s, k)
         /\ k = 0 => p.edge.caller = s
         /\ k # 0 => \E q \in f[k - 1] : q.edge.callee = p.edge.caller
  <1> DEFINE Sound(n) == \A q \in f[n] : /\ q.edge \in callEdges /\ q.edge.caller \in Within(s, n)
                                         /\ q.visited \subseteq Within(s, n)
             S == {n \in Nat : Sound(n)}
  <1>1. \A n \in Nat : f[n] \subseteq Path /\ f[n + 1] = Further(f[n])
    BY DEF Levels
  <1>2. f[0] = Starts(s)
    BY DEF Levels
  <1>3. 0 \in S
    <2> SUFFICES ASSUME NEW e \in From(s), NEW q, q = [edge |-> e, visited |-> {s}]
                 PROVE  q.edge \in callEdges /\ q.edge.caller \in Within(s, 0) /\ q.visited \subseteq Within(s, 0)
      BY <1>2 DEF Starts
    <2> QED
      BY WithinSteps DEF From
  <1>4. ASSUME NEW n \in Nat, n \in S PROVE n + 1 \in S
    <2> SUFFICES ASSUME NEW x \in f[n], NEW e \in From(x.edge.callee), NEW q,
                        q = [edge |-> e, visited |-> x.visited \union {e.caller}]
                 PROVE  /\ q.edge \in callEdges /\ q.edge.caller \in Within(s, n + 1)
                        /\ q.visited \subseteq Within(s, n + 1)
      BY <1>1 DEF Further
    <2>1. x.edge \in callEdges /\ x.edge.caller \in Within(s, n) /\ x.visited \subseteq Within(s, n)
      BY <1>4
    <2>2. Within(s, n + 1) = Within(s, n) \union Callees(Within(s, n))
      BY WithinSteps
    <2>3. e \in callEdges /\ e.caller = x.edge.callee
      BY DEF From
    <2>4. e.caller \in Within(s, n + 1)
      BY <2>1, <2>2, <2>3 DEF Callees
    <2> QED
      BY <2>1, <2>2, <2>3, <2>4
  <1>5. Sound(k)
    <2> HIDE DEF S
    <2>1. k \in S
      BY <1>3, <1>4, SetInduction
    <2> QED
      BY <2>1 DEF S
  <1>6. k = 0 => p.edge.caller = s
    BY <1>2 DEF Starts, From
  <1>7. ASSUME k # 0 PROVE \E q \in f[k - 1] : q.edge.callee = p.edge.caller
    <2>1. k - 1 \in Nat /\ (k - 1) + 1 = k
      BY <1>7
    <2>2. p \in Further(f[k - 1])
      BY <2>1, <1>1
    <2> QED
      BY <2>2 DEF Further, From
  <1> QED
    BY <1>1, <1>5, <1>6, <1>7

(* The first path to reach a symbol has not visited it, so that each call  *)
(* within reach is on a path, cycles or not.                               *)
LEMMA PathsReachAll ==
  ASSUME callEdges \subseteq CallEdge, NEW s \in GraphSymbols, NEW f, Levels(f, s),
         NEW k \in Nat, NEW e \in callEdges, e.caller \in Within(s, k)
  PROVE  \E j \in 0..k : \E p \in f[j] : p.edge = e
  <1> DEFINE First(n) == \A x \in callEdges : x.caller \in Within(s, n) /\ (n = 0 \/ x.caller \notin Within(s, n - 1))
                                                => \E p \in f[n] : p.edge = x
             Reached(n) == \A x \in callEdges : x.caller \in Within(s, n) => \E j \in 0..n : \E p \in f[j] : p.edge = x
             S == {n \in Nat : First(n) /\ Reached(n)}
  <1>1. Within(s, 0) = {s} /\ \A n \in Nat : Within(s, n + 1) = Within(s, n) \union Callees(Within(s, n))
    BY WithinSteps
  <1>2. f[0] = Starts(s) /\ \A n \in Nat : f[n + 1] = Further(f[n])
    BY DEF Levels
  <1>3. 0 \in S
    <2>1. ASSUME NEW x \in callEdges, x.caller \in Within(s, 0) PROVE \E p \in f[0] : p.edge = x
      <3>1. x \in From(s)
        BY <2>1, <1>1 DEF From
      <3>2. [edge |-> x, visited |-> {s}] \in f[0]
        BY <3>1, <1>2 DEF Starts
      <3> QED
        BY <3>2
    <2> QED
      BY <2>1
  <1>4. ASSUME NEW n \in Nat, n \in S PROVE n + 1 \in S
    <2>1. First(n) /\ Reached(n)
      BY <1>4
    <2>2. ASSUME NEW x \in callEdges, x.caller \in Within(s, n + 1), x.caller \notin Within(s, n)
          PROVE  \E p \in f[n + 1] : p.edge = x
      <3>1. PICK y \in callEdges : y.caller \in Within(s, n) /\ y.callee = x.caller
        BY <1>1, <2>2 DEF Callees
      <3>2. n = 0 \/ y.caller \notin Within(s, n - 1)
        <4> SUFFICES ASSUME n # 0, y.caller \in Within(s, n - 1) PROVE FALSE
          OBVIOUS
        <4>1. n - 1 \in Nat /\ (n - 1) + 1 = n
          OBVIOUS
        <4>2. Within(s, n) = Within(s, n - 1) \union Callees(Within(s, n - 1))
          BY <4>1, <1>1
        <4> QED
          BY <4>2, <3>1, <2>2 DEF Callees
      <3>3. PICK p \in f[n] : p.edge = y
        BY <2>1, <3>1, <3>2
      <3>4. p.visited \subseteq Within(s, n)
        BY PathsFollowCalls
      <3>5. x \in From(p.edge.callee) /\ x.caller \notin p.visited
        BY <3>1, <3>3, <3>4, <2>2 DEF From
      <3>6. [edge |-> x, visited |-> p.visited \union {x.caller}] \in f[n + 1]
        BY <3>5, <1>2 DEF Further
      <3> QED
        BY <3>6
    <2>3. First(n + 1)
      <3>1. (n + 1) - 1 = n /\ n + 1 # 0
        OBVIOUS
      <3> QED
        BY <2>2, <3>1
    <2>4. Reached(n + 1)
      <3> SUFFICES ASSUME NEW x \in callEdges, x.caller \in Within(s, n + 1)
                   PROVE  \E j \in 0..(n + 1) : \E p \in f[j] : p.edge = x
        OBVIOUS
      <3>1. CASE x.caller \in Within(s, n)
        <4>1. PICK j \in 0..n : \E p \in f[j] : p.edge = x
          BY <3>1, <2>1
        <4>2. j \in 0..(n + 1)
          OBVIOUS
        <4> QED
          BY <4>1, <4>2
      <3>2. CASE x.caller \notin Within(s, n)
        <4>1. n + 1 \in 0..(n + 1)
          OBVIOUS
        <4> QED
          BY <4>1, <3>2, <2>2
      <3> QED
        BY <3>1, <3>2
    <2> QED
      BY <2>3, <2>4
  <1>5. Reached(k)
    <2> HIDE DEF S
    <2>1. k \in S
      BY <1>3, <1>4, SetInduction
    <2> QED
      BY <2>1 DEF S
  <1> QED
    BY <1>5

Row == [edge : CallEdge, depth : Nat]

(* What the query returns: calls within the depth, each from the root or   *)
(* from what a shallower row leads to, and every such call.                *)
Neighbours(all, s, d) ==
  /\ all \subseteq Row /\ IsFiniteSet(all)
  /\ \A r \in all : /\ r.edge \in callEdges /\ r.edge.caller \in Within(s, d - 1) /\ r.depth \in 1..d
                    /\ \/ r.edge.caller = s
                       \/ \E q \in all : q.depth < r.depth /\ q.edge.callee = r.edge.caller
  /\ \A e \in callEdges : e.caller \in Within(s, d - 1) => \E r \in all : r.edge = e

LEMMA RowsAreNeighbours ==
  ASSUME callEdges \subseteq CallEdge, IsFiniteSet(callEdges), NEW s \in GraphSymbols, NEW d \in Nat \ {0}
  PROVE  Neighbours(BoundedRows(s, d), s, d)
  <1> DEFINE all == BoundedRows(s, d)
  <1>1. PICK f : Levels(f, s) /\ all = RowsOf(f, d)
    BY RowLevels
  <1> HIDE DEF all
  <1>2. \A k \in 1..d : k - 1 \in Nat /\ k - 1 \in 0..(d - 1) /\ k \in Nat /\ (k - 1 # 0 => (k - 1) \in 1..d /\ k - 1 < k)
    OBVIOUS
  <1>3. \A r \in all : \E k \in 1..d : \E p \in f[k - 1] : r = [edge |-> p.edge, depth |-> k]
    BY <1>1 DEF RowsOf
  <1>4. \A k \in 1..d : \A p \in f[k - 1] : [edge |-> p.edge, depth |-> k] \in all
    BY <1>1 DEF RowsOf
  <1>5. ASSUME NEW r \in all
        PROVE  /\ r.edge \in callEdges /\ r.depth \in 1..d /\ r = [edge |-> r.edge, depth |-> r.depth]
               /\ r.edge.caller \in Within(s, d - 1)
               /\ \/ r.edge.caller = s
                  \/ \E q \in all : q.depth < r.depth /\ q.edge.callee = r.edge.caller
    <2>0. PICK k \in 1..d : \E p \in f[k - 1] : r = [edge |-> p.edge, depth |-> k]
      BY <1>3
    <2>1. PICK p \in f[k - 1] : r = [edge |-> p.edge, depth |-> k]
      BY <2>0
    <2>2. k - 1 \in Nat /\ k - 1 \in 0..(d - 1) /\ d - 1 \in Nat
      BY <1>2
    <2>3. /\ p.edge \in callEdges /\ p.edge.caller \in Within(s, k - 1)
          /\ k - 1 = 0 => p.edge.caller = s
          /\ k - 1 # 0 => \E q \in f[(k - 1) - 1] : q.edge.callee = p.edge.caller
      BY <1>1, <2>2, PathsFollowCalls
    <2>4. p.edge.caller \in Within(s, d - 1)
      BY <2>2, <2>3, WithinGrows
    <2>5. ASSUME k - 1 # 0 PROVE \E q \in all : q.depth < r.depth /\ q.edge.callee = r.edge.caller
      <3>1. PICK q \in f[(k - 1) - 1] : q.edge.callee = p.edge.caller
        BY <2>3, <2>5
      <3>2. k - 1 \in 1..d /\ k - 1 < k
        BY <2>5, <1>2
      <3>3. [edge |-> q.edge, depth |-> k - 1] \in all
        BY <3>2, <1>4
      <3> QED
        BY <3>1, <3>2, <3>3, <2>1
    <2> QED
      BY <2>1, <2>3, <2>4, <2>5
  <1>6. all \subseteq Row
    <2>1. \A k \in 1..d : k \in Nat
      OBVIOUS
    <2> QED
      BY <1>5, <2>1 DEF Row
  <1>7. ASSUME NEW e \in callEdges, e.caller \in Within(s, d - 1) PROVE \E r \in all : r.edge = e
    <2>1. d - 1 \in Nat
      OBVIOUS
    <2>2. PICK j \in 0..(d - 1) : \E p \in f[j] : p.edge = e
      BY <1>1, <1>7, <2>1, PathsReachAll
    <2>3. j + 1 \in 1..d /\ (j + 1) - 1 = j
      OBVIOUS
    <2>4. PICK p \in f[j] : p.edge = e
      BY <2>2
    <2>5. [edge |-> p.edge, depth |-> j + 1] \in all
      BY <2>3, <1>4
    <2> QED
      BY <2>4, <2>5
  <1>8. IsFiniteSet(all)
    <2> DEFINE P == callEdges \X (1..d)
               I == {[edge |-> x[1], depth |-> x[2]] : x \in P}
               g == [x \in P |-> [edge |-> x[1], depth |-> x[2]]]
    <2>1. IsFiniteSet(1..d)
      BY FS_Interval
    <2>2. IsFiniteSet(P)
      BY <2>1, FS_Product
    <2>3. g \in Surjection(P, I)
      BY DEF Surjection
    <2>4. all \in SUBSET I
      <3> SUFFICES ASSUME NEW r \in all PROVE r \in I
        OBVIOUS
      <3>1. <<r.edge, r.depth>> \in P /\ r = [edge |-> r.edge, depth |-> r.depth]
        BY <1>5
      <3> QED
        BY <3>1
    <2> HIDE DEF P, I, g
    <2>5. IsFiniteSet(I)
      BY <2>2, <2>3, FS_Surjection
    <2> QED
      BY <2>4, <2>5, FS_Subset
  <1> QED
    BY <1>5, <1>6, <1>7, <1>8 DEF Neighbours, all

-----------------------------------------------------------------------------
(* Symbols with the root among them that no edge leads out of. *)
Closed(S, root, es) == root \in S /\ \A x \in es : x[1] \in S => x[2] \in S

(* A response in one piece: what the edges do not lead out of is all of it. *)
InOnePiece(g) ==
  /\ g.root \in g.nodes /\ IsFiniteSet(g.nodes)
  /\ \A x \in g.edges : x[1] \in g.nodes /\ x[2] \in g.nodes
  /\ \A S \in SUBSET GraphSymbols : Closed(S, g.root, g.edges) => g.nodes \subseteq S

(* As many turns as there are nodes lead to all of them: a turn that adds  *)
(* nothing is the last.                                                    *)
LEMMA ShownIsAll ==
  ASSUME NEW g, g.nodes \subseteq GraphSymbols, InOnePiece(g)
  PROVE  Shown(g) = g.nodes
  <1> DEFINE N == Cardinality(g.nodes)
             T == SUBSET g.nodes
             out(X) == {x[2] : x \in {x \in g.edges : x[1] \in X}}
             step == [X \in T |-> X \union out(X)]
             Is(seen) == seen = [n \in 0..N |-> IF n = 0 THEN {g.root}
                            ELSE seen[n - 1] \union {e[2] : e \in {e \in g.edges : e[1] \in seen[n - 1]}}]
  <1>1. N \in Nat
    BY FS_CardinalityType DEF InOnePiece
  <1>2. step \in [T -> T] /\ {g.root} \in T
    BY DEF InOnePiece
  <1> HIDE DEF N, T, step
  <1>3. PICK f : Iterates(f, N, T, {g.root}, step)
    BY <1>1, <1>2, Iterated
  <1>4. f \in [0..N -> T] /\ f[0] = {g.root} /\ \A k \in 1..N : f[k] = step[f[k - 1]]
    BY <1>3 DEF Iterates
  <1>5. \A k \in 1..N : k \in 0..N /\ k # 0 /\ k - 1 \in 0..N
    BY <1>1
  <1>6. \A k \in 1..N : f[k] = f[k - 1] \union out(f[k - 1])
    BY <1>4, <1>5 DEF step
  <1>7. Is(f)
    <2>1. \A k \in 0..N : k # 0 => k \in 1..N
      BY <1>1
    <2>2. \A k \in 0..N : f[k] = IF k = 0 THEN {g.root} ELSE f[k - 1] \union out(f[k - 1])
      BY <2>1, <1>4, <1>6
    <2> QED
      BY <2>2, <1>4
  <1> DEFINE seen == CHOOSE seen : Is(seen)
  <1>8. Is(seen)
    BY <1>7
  <1>9. Shown(g) = seen[N]
    BY DEF Shown, N
  <1> HIDE DEF seen
  <1>10. 0 \in 0..N /\ N \in 0..N
    BY <1>1
  <1>11. seen[0] = {g.root} /\ \A k \in 1..N : seen[k] = seen[k - 1] \union out(seen[k - 1])
    BY <1>5, <1>8, <1>10
  <1> HIDE DEF Is
  <1> DEFINE Good(k) == /\ seen[k] \subseteq g.nodes /\ g.root \in seen[k]
                        /\ g.nodes \subseteq seen[k] \/ Cardinality(seen[k]) >= k + 1
             S == {k \in Nat : k <= N => Good(k)}
  <1>12. 0 \in S
    <2>1. Cardinality({g.root}) = 1
      BY FS_Singleton
    <2> QED
      BY <2>1, <1>11 DEF InOnePiece
  <1>13. ASSUME NEW k \in Nat, k \in S PROVE k + 1 \in S
    <2> SUFFICES ASSUME k + 1 <= N PROVE Good(k + 1)
      OBVIOUS
    <2>1. Good(k)
      BY <1>1, <1>13
    <2>2. seen[k + 1] = seen[k] \union out(seen[k])
      <3>1. k + 1 \in 1..N /\ (k + 1) - 1 = k
        BY <1>1
      <3> QED
        BY <3>1, <1>11
    <2>3. seen[k + 1] \subseteq g.nodes /\ g.root \in seen[k + 1]
      BY <2>1, <2>2 DEF InOnePiece
    <2>4. IsFiniteSet(seen[k]) /\ IsFiniteSet(seen[k + 1])
      BY <2>1, <2>3, FS_Subset DEF InOnePiece
    <2>5. CASE out(seen[k]) \subseteq seen[k]
      <3>1. Closed(seen[k], g.root, g.edges)
        BY <2>1, <2>5 DEF Closed
      <3>2. seen[k] \in SUBSET GraphSymbols
        BY <2>1
      <3>3. g.nodes \subseteq seen[k]
        BY <3>1, <3>2 DEF InOnePiece
      <3> QED
        BY <2>2, <2>3, <3>3
    <2>6. CASE ~(out(seen[k]) \subseteq seen[k])
      <3>1. seen[k] \in SUBSET seen[k + 1] /\ seen[k] # seen[k + 1]
        BY <2>2, <2>6
      <3>2. /\ Cardinality(seen[k]) <= Cardinality(seen[k + 1])
            /\ Cardinality(seen[k + 1]) # Cardinality(seen[k])
        <4> HIDE DEF out
        <4> QED
          BY <2>4, <3>1, FS_Subset
      <3>3. Cardinality(seen[k]) \in Nat /\ Cardinality(seen[k + 1]) \in Nat
        BY <2>4, FS_CardinalityType
      <3>4. Cardinality(seen[k]) >= k + 1 => Cardinality(seen[k + 1]) >= (k + 1) + 1
        BY <3>2, <3>3
      <3> QED
        BY <2>1, <2>2, <2>3, <3>4
    <2> QED
      BY <2>5, <2>6
  <1>14. Good(N)
    <2> HIDE DEF Good
    <2>1. N \in S
      <3> HIDE DEF S
      <3> QED
        BY <1>1, <1>12, <1>13, SetInduction
    <2> QED
      BY <2>1, <1>1
  <1>15. seen[N] \in SUBSET g.nodes
    BY <1>14
  <1>16. Cardinality(seen[N]) <= N
    BY <1>15, FS_Subset DEF InOnePiece, N
  <1>17. IsFiniteSet(seen[N])
    BY <1>15, FS_Subset DEF InOnePiece
  <1>18. Cardinality(seen[N]) \in Nat
    BY <1>17, FS_CardinalityType
  <1>19. g.nodes \subseteq seen[N]
    BY <1>1, <1>14, <1>16, <1>18
  <1> QED
    BY <1>9, <1>15, <1>19

GraphState ==
  [pc : {"idle", "build", "done"}, root : GraphSymbols \union {NoPath}, depth : Nat, rows : SUBSET Row,
   taken : Nat, nodes : SUBSET GraphSymbols, file : [GraphSymbols -> GraphPaths \union {NoPath}],
   edges : SUBSET (GraphSymbols \X GraphSymbols), truncated : BOOLEAN]

Drawn(g, r) == <<r.edge.caller, r.edge.callee>> \in g.edges

(* A file is given of a symbol only where it calls from that file. *)
FilesCall(g) == \A v \in GraphSymbols : g.file[v] # NoPath => \E e \in From(v) : e.path = g.file[v]

(* Of a response that is built: each row is read and drawn or still to     *)
(* come, and unless it says so there are fewer rows than the cap.          *)
Building(g, all) ==
  /\ g.rows \subseteq all /\ \A r \in all \ g.rows : Drawn(g, r)
  /\ g.taken + Cardinality(g.rows) = Cardinality(all) /\ g.taken <= RowCap
  /\ ~g.truncated => Cardinality(all) < RowCap

Responds(g, all) ==
  /\ g.root \in GraphSymbols /\ g.depth \in Nat \ {0}
  /\ InOnePiece(g) /\ Cardinality(g.nodes) <= NodeCap
  /\ \A x \in g.edges : \E r \in all : x = <<r.edge.caller, r.edge.callee>>
  /\ FilesCall(g)
  /\ g.pc = "build" => Building(g, all)
  /\ g.pc = "done" /\ ~g.truncated => \A r \in all : Drawn(g, r)

GraphInv ==
  /\ callEdges \subseteq CallEdge /\ IsFiniteSet(callEdges) /\ graph \in GraphState
  /\ graph.pc # "idle" => Responds(graph, BoundedRows(graph.root, graph.depth))

LEMMA GraphInitInv == GraphInit => GraphInv
  <1> SUFFICES ASSUME GraphInit PROVE GraphInv
    OBVIOUS
  <1>1. NoGraph \in GraphState /\ NoGraph.pc = "idle"
    BY DEF NoGraph, GraphState
  <1> QED
    BY <1>1 DEF GraphInit, GraphInv

(* A file noted for the caller of a call is one it calls from. *)
LEMMA CallerNoted ==
  ASSUME callEdges \subseteq CallEdge, NEW g \in GraphState, FilesCall(g), NEW e \in callEdges
  PROVE  LET h == WithCaller(g, e)
         IN  /\ h \in GraphState /\ FilesCall(h) /\ h.nodes = g.nodes \union {e.caller}
             /\ h.pc = g.pc /\ h.root = g.root /\ h.depth = g.depth /\ h.rows = g.rows /\ h.taken = g.taken
             /\ h.edges = g.edges /\ h.truncated = g.truncated
  <1> DEFINE h == WithCaller(g, e)
             F == IF g.file[e.caller] = NoPath THEN e.path ELSE g.file[e.caller]
  <1>1. e.caller \in GraphSymbols /\ e.path \in GraphPaths
    BY DEF CallEdge
  <1>2. g.file \in [GraphSymbols -> GraphPaths \union {NoPath}] /\ g.nodes \in SUBSET GraphSymbols
    BY DEF GraphState
  <1>3. h = [g EXCEPT !.nodes = g.nodes \union {e.caller}, !.file = [g.file EXCEPT ![e.caller] = F]]
    BY DEF WithCaller, GraphState
  <1> DEFINE file == [g.file EXCEPT ![e.caller] = F]
             nodes == g.nodes \union {e.caller}
  <1>4. file \in [GraphSymbols -> GraphPaths \union {NoPath}] /\ nodes \in SUBSET GraphSymbols
    BY <1>1, <1>2
  <1>5. \A v \in GraphSymbols : file[v] # NoPath => \E x \in From(v) : x.path = file[v]
    <2> SUFFICES ASSUME NEW v \in GraphSymbols, file[v] # NoPath PROVE \E x \in From(v) : x.path = file[v]
      OBVIOUS
    <2>1. CASE v = e.caller /\ g.file[v] = NoPath
      <3>1. file[v] = e.path /\ e \in From(v)
        BY <1>2, <2>1 DEF From
      <3> QED
        BY <3>1
    <2>2. CASE ~(v = e.caller /\ g.file[v] = NoPath)
      <3>1. file[v] = g.file[v]
        BY <1>2, <2>2
      <3> QED
        BY <3>1 DEF FilesCall
    <2> QED
      BY <2>1, <2>2
  <1> HIDE DEF file, nodes
  <1>6. h = [g EXCEPT !.nodes = nodes, !.file = file]
    BY <1>3 DEF file, nodes
  <1> HIDE DEF h
  <1>7. /\ h \in GraphState /\ h.nodes = nodes /\ h.file = file
        /\ h.pc = g.pc /\ h.root = g.root /\ h.depth = g.depth /\ h.rows = g.rows /\ h.taken = g.taken
        /\ h.edges = g.edges /\ h.truncated = g.truncated
    BY <1>4, <1>6 DEF GraphState
  <1>8. FilesCall(h)
    BY <1>5, <1>7 DEF FilesCall
  <1> QED
    BY <1>7, <1>8 DEF h, nodes

(* The caller of the shallowest row is there: it is the root, or a row     *)
(* that leads to it is shallower, and so drawn.                            *)
LEMMA CallerIsShown ==
  ASSUME NEW g \in GraphState, NEW all, Neighbours(all, g.root, g.depth), InOnePiece(g), Building(g, all),
         NEW r \in Shallowest(g.rows)
  PROVE  r.edge.caller \in g.nodes
  <1>1. r \in g.rows /\ r \in all /\ \A x \in g.rows : r.depth <= x.depth
    BY DEF Shallowest, Building
  <1>2. CASE r.edge.caller = g.root
    BY <1>2 DEF InOnePiece
  <1>3. CASE \E q \in all : q.depth < r.depth /\ q.edge.callee = r.edge.caller
    <2>1. PICK q \in all : q.depth < r.depth /\ q.edge.callee = r.edge.caller
      BY <1>3
    <2>2. q.depth \in Nat /\ r.depth \in Nat
      BY <1>1 DEF Neighbours, Row
    <2>3. q \notin g.rows
      BY <1>1, <2>1, <2>2
    <2>4. <<q.edge.caller, q.edge.callee>> \in g.edges
      BY <2>3 DEF Building, Drawn
    <2> QED
      BY <2>1, <2>4 DEF InOnePiece
  <1> QED
    BY <1>1, <1>2, <1>3 DEF Neighbours

(* A call drawn from a symbol that is shown leaves the response in one piece. *)
LEMMA OneMoreCall ==
  ASSUME NEW g \in GraphState, InOnePiece(g), NEW e \in CallEdge, e.caller \in g.nodes,
         NEW h, h.root = g.root, h.nodes = g.nodes \union {e.callee},
         h.edges = g.edges \union {<<e.caller, e.callee>>}
  PROVE  InOnePiece(h)
  <1>1. h.root \in h.nodes /\ IsFiniteSet(h.nodes)
    BY FS_AddElement DEF InOnePiece
  <1>2. \A x \in h.edges : x[1] \in h.nodes /\ x[2] \in h.nodes
    BY DEF InOnePiece
  <1>3. ASSUME NEW S \in SUBSET GraphSymbols, Closed(S, h.root, h.edges) PROVE h.nodes \subseteq S
    <2>1. Closed(S, g.root, g.edges)
      BY <1>3 DEF Closed
    <2>2. g.nodes \subseteq S
      BY <2>1 DEF InOnePiece
    <2>3. e.callee \in S
      <3>1. <<e.caller, e.callee>> \in h.edges /\ <<e.caller, e.callee>>[1] = e.caller
            /\ <<e.caller, e.callee>>[2] = e.callee
        OBVIOUS
      <3> QED
        BY <3>1, <2>2, <1>3 DEF Closed
    <2> QED
      BY <2>2, <2>3
  <1> QED
    BY <1>1, <1>2, <1>3 DEF InOnePiece

Taken(h, g, r) ==
  LET n == WithCaller([g EXCEPT !.rows = @ \ {r}, !.taken = @ + 1], r.edge)
  IN h = IF ~Fits(r.edge.caller, g.nodes) THEN Cap(g)
         ELSE IF ~Fits(r.edge.callee, n.nodes) THEN Cap(n)
         ELSE [n EXCEPT !.nodes = @ \union {r.edge.callee},
                        !.edges = @ \union {<<r.edge.caller, r.edge.callee>>}]

LEMMA RowRead ==
  ASSUME callEdges \subseteq CallEdge, NEW g \in GraphState, NEW all, Neighbours(all, g.root, g.depth),
         Responds(g, all), g.pc = "build", g.taken < RowCap, NEW r \in Shallowest(g.rows),
         NEW h, Taken(h, g, r)
  PROVE  h \in GraphState /\ h.root = g.root /\ h.depth = g.depth /\ Responds(h, all)
  <1> DEFINE e == r.edge
             m == [g EXCEPT !.rows = g.rows \ {r}, !.taken = g.taken + 1]
             n == WithCaller(m, e)
  <1>1. r \in g.rows /\ r \in all /\ Building(g, all) /\ InOnePiece(g)
    BY DEF Shallowest, Responds, Building
  <1>2. e \in callEdges /\ e \in CallEdge /\ e.caller \in GraphSymbols /\ e.callee \in GraphSymbols
    BY <1>1 DEF Neighbours, CallEdge
  <1>3. e.caller \in g.nodes
    BY <1>1, CallerIsShown
  <1>4. Fits(e.caller, g.nodes)
    BY <1>3 DEF Fits
  <1>5. /\ m \in GraphState /\ m.rows = g.rows \ {r} /\ m.taken = g.taken + 1 /\ m.nodes = g.nodes /\ m.file = g.file
        /\ m.pc = g.pc /\ m.root = g.root /\ m.depth = g.depth /\ m.edges = g.edges /\ m.truncated = g.truncated
    <2>1. g.rows \ {r} \in SUBSET Row /\ g.taken + 1 \in Nat
      BY DEF GraphState
    <2> DEFINE rest == g.rows \ {r}
    <2> HIDE DEF rest
    <2> QED
      BY <2>1 DEF GraphState, rest
  <1>6. FilesCall(m)
    BY <1>5 DEF FilesCall, Responds
  <1>7. h = IF ~Fits(e.caller, g.nodes) THEN Cap(g)
            ELSE IF ~Fits(e.callee, n.nodes) THEN Cap(n)
            ELSE [n EXCEPT !.nodes = n.nodes \union {e.callee}, !.edges = n.edges \union {<<e.caller, e.callee>>}]
    BY DEF Taken
  <1> HIDE DEF m, e, n
  <1>8. /\ n \in GraphState /\ FilesCall(n) /\ n.nodes = g.nodes /\ n.rows = g.rows \ {r} /\ n.taken = g.taken + 1
        /\ n.pc = g.pc /\ n.root = g.root /\ n.depth = g.depth /\ n.edges = g.edges /\ n.truncated = g.truncated
    <2>1. LET x == WithCaller(m, e)
          IN  /\ x \in GraphState /\ FilesCall(x) /\ x.nodes = m.nodes \union {e.caller}
              /\ x.pc = m.pc /\ x.root = m.root /\ x.depth = m.depth /\ x.rows = m.rows /\ x.taken = m.taken
              /\ x.edges = m.edges /\ x.truncated = m.truncated
      <3>1. m \in GraphState /\ e \in callEdges
        BY <1>2, <1>5
      <3> QED
        BY <3>1, <1>6, CallerNoted
    <2>2. g.nodes \union {e.caller} = g.nodes
      BY <1>3
    <2> QED
      BY <1>5, <2>1, <2>2 DEF n
  <1>9. InOnePiece(n)
    BY <1>1, <1>8 DEF InOnePiece, Closed
  <1>10. CASE ~Fits(e.callee, n.nodes)
    <2>1. h = [n EXCEPT !.pc = "done", !.truncated = TRUE]
      BY <1>4, <1>7, <1>10 DEF Cap
    <2>2. /\ h \in GraphState /\ h.nodes = n.nodes /\ h.file = n.file /\ h.pc = "done" /\ h.root = n.root
          /\ h.depth = n.depth /\ h.edges = n.edges /\ h.truncated
      BY <1>8, <2>1 DEF GraphState
    <2>3. InOnePiece(h)
      BY <1>9, <2>2 DEF InOnePiece, Closed
    <2>4. FilesCall(h)
      BY <1>8, <2>2 DEF FilesCall
    <2> QED
      BY <1>8, <2>2, <2>3, <2>4 DEF Responds
  <1>11. CASE Fits(e.callee, n.nodes)
    <2> DEFINE nodes == n.nodes \union {e.callee}
               drawn == n.edges \union {<<e.caller, e.callee>>}
    <2>1. h = [n EXCEPT !.nodes = nodes, !.edges = drawn]
      BY <1>4, <1>7, <1>11
    <2>2. nodes \in SUBSET GraphSymbols /\ drawn \in SUBSET (GraphSymbols \X GraphSymbols)
      BY <1>2, <1>8 DEF GraphState
    <2> HIDE DEF nodes, drawn
    <2>3. /\ h \in GraphState /\ h.nodes = nodes /\ h.edges = drawn /\ h.file = n.file /\ h.pc = n.pc
          /\ h.root = n.root /\ h.depth = n.depth /\ h.rows = n.rows /\ h.taken = n.taken
          /\ h.truncated = n.truncated
      BY <1>8, <2>1, <2>2 DEF GraphState
    <2>4. InOnePiece(h)
      BY <1>2, <1>3, <1>8, <1>9, <2>3, OneMoreCall DEF nodes, drawn
    <2>5. Cardinality(h.nodes) <= NodeCap
      <3>1. IsFiniteSet(n.nodes) /\ Cardinality(n.nodes) <= NodeCap
        BY <1>8, <1>9 DEF InOnePiece, Responds
      <3>2. Cardinality(n.nodes) \in Nat /\ NodeCap \in Nat
        BY <3>1, FS_CardinalityType, GraphAssumption
      <3>3. Cardinality(nodes) = IF e.callee \in n.nodes THEN Cardinality(n.nodes) ELSE Cardinality(n.nodes) + 1
        BY <3>1, FS_AddElement DEF nodes
      <3>4. e.callee \in n.nodes \/ Cardinality(n.nodes) < NodeCap
        BY <1>11 DEF Fits
      <3>5. h.nodes = nodes
        BY <2>3
      <3>6. Cardinality(nodes) <= NodeCap
        BY <3>1, <3>2, <3>3, <3>4
      <3> QED
        BY <3>5, <3>6
    <2>6. FilesCall(h)
      BY <1>8, <2>3 DEF FilesCall
    <2>7. \A x \in h.edges : \E q \in all : x = <<q.edge.caller, q.edge.callee>>
      BY <1>1, <1>8, <2>3 DEF Responds, drawn, e
    <2>8. Building(h, all)
      <3>1. h.rows = g.rows \ {r} /\ h.taken = g.taken + 1 /\ h.truncated = g.truncated
        BY <1>8, <2>3
      <3>2. \A q \in all \ h.rows : Drawn(h, q)
        <4> SUFFICES ASSUME NEW q \in all \ h.rows PROVE Drawn(h, q)
          OBVIOUS
        <4>1. CASE q = r
          BY <4>1, <2>3 DEF Drawn, drawn, e
        <4>2. CASE q # r
          <5>1. Drawn(g, q)
            BY <1>1, <3>1, <4>2 DEF Building
          <5> QED
            BY <5>1, <1>8, <2>3 DEF Drawn, drawn
        <4> QED
          BY <4>1, <4>2
      <3>3. IsFiniteSet(g.rows)
        BY <1>1, FS_Subset DEF Neighbours, Building
      <3>4. Cardinality(h.rows) = Cardinality(g.rows) - 1 /\ Cardinality(g.rows) \in Nat
        BY <1>1, <3>1, <3>3, FS_RemoveElement, FS_CardinalityType
      <3>5. g.taken \in Nat /\ RowCap \in Nat
        BY GraphAssumption DEF GraphState
      <3> QED
        BY <1>1, <3>1, <3>2, <3>4, <3>5 DEF Building
    <2>9. h.root \in GraphSymbols /\ h.depth \in Nat \ {0} /\ h.root = g.root /\ h.depth = g.depth /\ h.pc = "build"
      BY <1>8, <2>3 DEF Responds
    <2> QED
      BY <2>3, <2>4, <2>5, <2>6, <2>7, <2>8, <2>9 DEF Responds
  <1> QED
    BY <1>10, <1>11

Asked(h, root, depth, all) ==
  h = [NoGraph EXCEPT !.pc = "build", !.root = root, !.depth = depth, !.rows = all,
                      !.nodes = {root}, !.truncated = Cardinality(all) >= RowCap]

LEMMA GraphAsked ==
  ASSUME callEdges \subseteq CallEdge, IsFiniteSet(callEdges), NEW root \in GraphSymbols, NEW depth \in Nat \ {0},
         NEW all, all = BoundedRows(root, depth), NEW h, Asked(h, root, depth, all)
  PROVE  h \in GraphState /\ h.root = root /\ h.depth = depth /\ Responds(h, all)
  <1>1. Neighbours(all, root, depth)
    BY RowsAreNeighbours
  <1>2. all \in SUBSET Row /\ IsFiniteSet(all) /\ Cardinality(all) \in Nat
    BY <1>1, FS_CardinalityType DEF Neighbours
  <1> DEFINE cut == Cardinality(all) >= RowCap
             file == [s \in GraphSymbols |-> NoPath]
  <1>3. cut \in BOOLEAN /\ (~cut => Cardinality(all) < RowCap) /\ 0 <= RowCap /\ RowCap \in Nat /\ NodeCap \in Nat \ {0}
    BY <1>2, GraphAssumption
  <1>4. file \in [GraphSymbols -> GraphPaths \union {NoPath}] /\ \A v \in GraphSymbols : file[v] = NoPath
    OBVIOUS
  <1>5. h = [pc |-> "build", root |-> root, depth |-> depth, rows |-> all, taken |-> 0, nodes |-> {root},
             file |-> file, edges |-> {}, truncated |-> cut]
    BY DEF NoGraph, Asked
  <1> HIDE DEF cut, file
  <1>6. /\ h \in GraphState /\ h.root = root /\ h.depth = depth /\ h.pc = "build" /\ h.rows = all /\ h.taken = 0
        /\ h.nodes = {root} /\ h.file = file /\ h.edges = {} /\ h.truncated = cut
    <2>1. {root} \in SUBSET GraphSymbols /\ {} \in SUBSET (GraphSymbols \X GraphSymbols) /\ 0 \in Nat
      OBVIOUS
    <2>2. root \in GraphSymbols \union {NoPath} /\ depth \in Nat
      OBVIOUS
    <2>3. /\ h.root = root /\ h.depth = depth /\ h.pc = "build" /\ h.rows = all /\ h.taken = 0
          /\ h.nodes = {root} /\ h.file = file /\ h.edges = {} /\ h.truncated = cut
      BY <1>5
    <2>4. h \in GraphState
      BY <1>2, <1>3, <1>4, <1>5, <2>1, <2>2 DEF GraphState
    <2> QED
      BY <2>3, <2>4
  <1>7. InOnePiece(h) /\ Cardinality(h.nodes) <= NodeCap
    <2>1. IsFiniteSet({root}) /\ Cardinality({root}) = 1
      BY FS_Singleton
    <2> QED
      BY <1>3, <1>6, <2>1 DEF InOnePiece, Closed
  <1>8. FilesCall(h)
    BY <1>4, <1>6 DEF FilesCall
  <1>9. Building(h, all)
    <2>1. h.rows \subseteq all /\ \A r \in all \ h.rows : Drawn(h, r)
      BY <1>6
    <2>2. h.taken + Cardinality(h.rows) = Cardinality(all) /\ h.taken <= RowCap
      BY <1>2, <1>3, <1>6
    <2>3. ~h.truncated => Cardinality(all) < RowCap
      BY <1>3, <1>6
    <2> QED
      BY <2>1, <2>2, <2>3 DEF Building
  <1> QED
    BY <1>6, <1>7, <1>8, <1>9 DEF Responds

(* A response that is complete when no row is left; the last row it may    *)
(* read is the last there is unless it says so.                            *)
LEMMA GraphEnds ==
  ASSUME NEW g \in GraphState, NEW all, IsFiniteSet(all), Responds(g, all), g.pc = "build",
         g.rows = {} \/ g.taken = RowCap, NEW h, h = [g EXCEPT !.pc = "done"]
  PROVE  h \in GraphState /\ h.root = g.root /\ h.depth = g.depth /\ Responds(h, all)
  <1>1. /\ h \in GraphState /\ h.root = g.root /\ h.depth = g.depth /\ h.pc = "done" /\ h.nodes = g.nodes
        /\ h.file = g.file /\ h.edges = g.edges /\ h.truncated = g.truncated
    BY DEF GraphState
  <1>2. Building(g, all)
    BY DEF Responds
  <1>3. ASSUME ~g.truncated PROVE \A r \in all : Drawn(g, r)
    <2>1. IsFiniteSet(g.rows)
      BY <1>2, FS_Subset DEF Building
    <2>2. Cardinality(g.rows) \in Nat /\ Cardinality(all) \in Nat /\ RowCap \in Nat /\ g.taken \in Nat
      BY <2>1, FS_CardinalityType, GraphAssumption DEF GraphState
    <2>3. g.taken + Cardinality(g.rows) = Cardinality(all) /\ Cardinality(all) < RowCap
      BY <1>2, <1>3 DEF Building
    <2>4. g.rows = {}
      BY <2>2, <2>3
    <2> QED
      BY <1>2, <2>4 DEF Building
  <1>4. InOnePiece(h) /\ FilesCall(h)
    BY <1>1 DEF InOnePiece, Closed, FilesCall, Responds
  <1> QED
    BY <1>1, <1>3, <1>4 DEF Responds, Drawn

LEMMA GraphStep == GraphInv /\ [GraphNext]_graphVars => GraphInv'
  <1> SUFFICES ASSUME GraphInv, [GraphNext]_graphVars PROVE GraphInv'
    OBVIOUS
  <1>1. callEdges' = callEdges
    BY DEF GraphNext, AskGraph, ReadRow, GraphBuilt, graphVars
  <1>2. callEdges \subseteq CallEdge /\ IsFiniteSet(callEdges) /\ graph \in GraphState
    BY DEF GraphInv
  <1>3. SUFFICES ASSUME NEW h, h = graph'
                 PROVE  h \in GraphState /\ (h.pc # "idle" => Responds(h, BoundedRows(h.root, h.depth)))
    <2> SUFFICES ASSUME graph' \in GraphState,
                        graph'.pc # "idle" => Responds(graph', BoundedRows(graph'.root, graph'.depth))
                 PROVE  GraphInv'
      OBVIOUS
    <2>1. BoundedRows(graph.root, graph.depth)' = BoundedRows(graph'.root, graph'.depth)
      BY <1>1 DEF BoundedRows, From
    <2>2. Responds(graph, BoundedRows(graph.root, graph.depth))' = Responds(graph', BoundedRows(graph'.root, graph'.depth))
      BY <1>1, <2>1 DEF Responds, FilesCall, From, InOnePiece, Closed, Building, Drawn
    <2> QED
      BY <1>1, <1>2, <2>2 DEF GraphInv, CallEdge, GraphState, Row
  <1>4. CASE AskGraph
    <2>1. PICK root \in GraphSymbols, asked \in AskedDepths :
            LET wanted == IF asked = 0 THEN DefaultDepth ELSE asked
                depth  == IF wanted > DepthCap THEN DepthCap ELSE wanted
                rows   == BoundedRows(root, depth)
            IN h = [NoGraph EXCEPT !.pc = "build", !.root = root, !.depth = depth, !.rows = rows,
                                   !.nodes = {root}, !.truncated = Cardinality(rows) >= RowCap]
      BY <1>3, <1>4 DEF AskGraph
    <2> DEFINE wanted == IF asked = 0 THEN DefaultDepth ELSE asked
               depth  == IF wanted > DepthCap THEN DepthCap ELSE wanted
    <2>2. depth \in Nat \ {0}
      BY GraphAssumption
    <2> HIDE DEF depth
    <2>3. Asked(h, root, depth, BoundedRows(root, depth))
      BY <2>1 DEF depth, Asked
    <2>4. PICK all : all = BoundedRows(root, depth)
      OBVIOUS
    <2>5. h \in GraphState /\ h.root = root /\ h.depth = depth /\ Responds(h, all)
      BY <1>2, <2>2, <2>3, <2>4, GraphAsked
    <2> QED
      BY <2>4, <2>5
  <1>5. CASE ReadRow
    <2>1. PICK g : g = graph
      OBVIOUS
    <2> DEFINE all == BoundedRows(g.root, g.depth)
    <2>2. g \in GraphState /\ g.pc = "build" /\ g.taken < RowCap /\ Responds(g, all)
      BY <1>2, <1>5, <2>1 DEF ReadRow, GraphInv
    <2>3. Neighbours(all, g.root, g.depth)
      BY <1>2, <2>2, RowsAreNeighbours DEF Responds
    <2>4. PICK r \in Shallowest(g.rows) : Taken(h, g, r)
      BY <1>3, <1>5, <2>1 DEF ReadRow, Taken
    <2>5. h \in GraphState /\ h.root = g.root /\ h.depth = g.depth /\ Responds(h, all)
      <3> HIDE DEF all
      <3> QED
        BY <1>2, <2>2, <2>3, <2>4, RowRead
    <2> QED
      BY <2>5
  <1>6. CASE GraphBuilt
    <2>1. PICK g : g = graph
      OBVIOUS
    <2> DEFINE all == BoundedRows(g.root, g.depth)
    <2>2. g \in GraphState /\ g.pc = "build" /\ (g.rows = {} \/ g.taken = RowCap) /\ Responds(g, all)
      BY <1>2, <1>6, <2>1 DEF GraphBuilt, GraphInv
    <2>3. IsFiniteSet(all)
      BY <1>2, <2>2, RowsAreNeighbours DEF Responds, Neighbours
    <2>4. h = [g EXCEPT !.pc = "done"]
      BY <1>3, <1>6, <2>1 DEF GraphBuilt
    <2>5. h \in GraphState /\ h.root = g.root /\ h.depth = g.depth /\ Responds(h, all)
      <3> HIDE DEF all
      <3> QED
        BY <2>2, <2>3, <2>4, GraphEnds
    <2> QED
      BY <2>5
  <1>7. CASE UNCHANGED graphVars
    BY <1>3, <1>7 DEF graphVars, GraphInv
  <1> QED
    BY <1>4, <1>5, <1>6, <1>7 DEF GraphNext

(* Every state of a bounded graph query meets GraphInv: a response is in   *)
(* one piece and accounts for each row, from the query to its end.         *)
THEOREM GraphInvariant == GraphSpec => []GraphInv
  BY GraphInitInv, GraphStep, PTL DEF GraphSpec

(* A complete response shows every symbol within its depth, as it shows    *)
(* the calls that lead to it, and none beyond, where no call it shows ends. *)
LEMMA CompleteShowsAll ==
  ASSUME callEdges \subseteq CallEdge, NEW g \in GraphState, NEW all, Responds(g, all),
         Neighbours(all, g.root, g.depth), \A r \in all : Drawn(g, r)
  PROVE  g.nodes = Within(g.root, g.depth)
  <1> DEFINE W(d) == Within(g.root, d)
             D == g.depth
  <1>1. g.root \in GraphSymbols /\ D \in Nat \ {0} /\ D - 1 \in Nat /\ (D - 1) + 1 = D /\ InOnePiece(g)
    BY DEF Responds
  <1>2. /\ W(0) = {g.root}
        /\ \A d \in Nat : W(d) \subseteq GraphSymbols /\ W(d + 1) = W(d) \union Callees(W(d))
    BY <1>1, WithinSteps
  <1>3. \A d \in 0..D : W(d) \subseteq W(D)
    BY <1>1, WithinGrows
  <1>4. \A d \in 0..(D - 1) : W(d) \subseteq W(D - 1)
    BY <1>1, WithinGrows
  <1> HIDE DEF W, D
  <1>5. W(D) = W(D - 1) \union Callees(W(D - 1))
    BY <1>1, <1>2
  <1>6. g.nodes \subseteq W(D)
    <2>1. g.root \in W(D)
      <3>1. 0 \in 0..D
        BY <1>1
      <3> QED
        BY <3>1, <1>2, <1>3
    <2>2. ASSUME NEW x \in g.edges PROVE x[2] \in W(D)
      <3>1. PICK r \in all : x = <<r.edge.caller, r.edge.callee>>
        BY DEF Responds
      <3>2. r.edge \in callEdges /\ r.edge.caller \in W(D - 1)
        BY DEF Neighbours, W, D
      <3> QED
        BY <3>1, <3>2, <1>5 DEF Callees
    <2>3. Closed(W(D), g.root, g.edges)
      BY <2>1, <2>2 DEF Closed
    <2>4. W(D) \in SUBSET GraphSymbols
      BY <1>1, <1>2
    <2> QED
      BY <1>1, <2>3, <2>4 DEF InOnePiece
  <1> DEFINE S == {d \in Nat : d <= D => W(d) \subseteq g.nodes}
  <1>7. 0 \in S
    BY <1>1, <1>2 DEF InOnePiece
  <1>8. ASSUME NEW d \in Nat, d \in S PROVE d + 1 \in S
    <2> SUFFICES ASSUME d + 1 <= D PROVE W(d + 1) \subseteq g.nodes
      OBVIOUS
    <2>1. d \in 0..(D - 1) /\ W(d) \subseteq g.nodes
      BY <1>1, <1>8
    <2>2. ASSUME NEW e \in callEdges, e.caller \in W(d) PROVE e.callee \in g.nodes
      <3>1. e.caller \in W(D - 1)
        BY <2>1, <2>2, <1>4
      <3>2. PICK r \in all : r.edge = e
        BY <3>1 DEF Neighbours, W, D
      <3>3. <<e.caller, e.callee>> \in g.edges
        BY <3>2 DEF Drawn
      <3> QED
        BY <3>3, <1>1 DEF InOnePiece
    <2> QED
      BY <2>1, <2>2, <1>2 DEF Callees
  <1> HIDE DEF S
  <1>9. D \in S
    BY <1>1, <1>7, <1>8, SetInduction
  <1>10. W(D) \subseteq g.nodes
    BY <1>1, <1>9 DEF S
  <1> QED
    BY <1>6, <1>10 DEF W, D

LEMMA ResponseIsNeighbourhood == GraphInv => GraphIsNeighbourhood
  <1> SUFFICES ASSUME GraphInv, graph.pc = "done"
               PROVE  LET calls == {<<e.caller, e.callee>> :
                                      e \in {e \in callEdges : e.caller \in Within(graph.root, graph.depth - 1)}}
                      IN  /\ graph.nodes = Shown(graph) /\ Cardinality(graph.nodes) <= NodeCap
                          /\ graph.edges \subseteq calls
                          /\ \A s \in graph.nodes : graph.file[s] # NoPath =>
                               \E e \in From(s) : e.path = graph.file[s]
                          /\ ~graph.truncated =>
                               graph.nodes = Within(graph.root, graph.depth) /\ graph.edges = calls
    BY DEF GraphIsNeighbourhood
  <1> DEFINE calls == {<<e.caller, e.callee>> :
                         e \in {e \in callEdges : e.caller \in Within(graph.root, graph.depth - 1)}}
  <1>1. PICK all : all = BoundedRows(graph.root, graph.depth)
    OBVIOUS
  <1>2. callEdges \subseteq CallEdge /\ IsFiniteSet(callEdges) /\ graph \in GraphState /\ Responds(graph, all)
    BY <1>1 DEF GraphInv
  <1>3. Neighbours(all, graph.root, graph.depth)
    BY <1>1, <1>2, RowsAreNeighbours DEF Responds
  <1>4. graph.nodes \subseteq GraphSymbols /\ InOnePiece(graph)
    BY <1>2 DEF GraphState, Responds
  <1>5. graph.nodes = Shown(graph) /\ Cardinality(graph.nodes) <= NodeCap
    BY <1>2, <1>4, ShownIsAll DEF Responds
  <1>6. graph.edges \subseteq calls
    <2> SUFFICES ASSUME NEW x \in graph.edges PROVE x \in calls
      OBVIOUS
    <2>1. PICK r \in all : x = <<r.edge.caller, r.edge.callee>>
      BY <1>2 DEF Responds
    <2>2. r.edge \in callEdges /\ r.edge.caller \in Within(graph.root, graph.depth - 1)
      BY <1>3 DEF Neighbours
    <2> QED
      BY <2>1, <2>2
  <1>7. \A s \in graph.nodes : graph.file[s] # NoPath => \E e \in From(s) : e.path = graph.file[s]
    BY <1>2, <1>4 DEF Responds, FilesCall
  <1>8. ASSUME ~graph.truncated PROVE graph.nodes = Within(graph.root, graph.depth) /\ graph.edges = calls
    <2>1. \A r \in all : Drawn(graph, r)
      BY <1>2, <1>8 DEF Responds
    <2>2. graph.nodes = Within(graph.root, graph.depth)
      BY <1>2, <1>3, <2>1, CompleteShowsAll
    <2>3. calls \subseteq graph.edges
      <3> SUFFICES ASSUME NEW e \in callEdges, e.caller \in Within(graph.root, graph.depth - 1)
                   PROVE  <<e.caller, e.callee>> \in graph.edges
        OBVIOUS
      <3>1. PICK r \in all : r.edge = e
        BY <1>3 DEF Neighbours
      <3> QED
        BY <3>1, <2>1 DEF Drawn
    <2> QED
      BY <1>6, <2>2, <2>3
  <1> QED
    BY <1>5, <1>6, <1>7, <1>8

(* Whatever calls there are, cycles among them, and whichever way rows of  *)
(* equal depth come, a response shows one piece around the root, calls     *)
(* within its depth only, and all of them unless it is truncated.          *)
THEOREM GraphShowsNeighbourhood == GraphSpec => []GraphIsNeighbourhood
  BY GraphInvariant, ResponseIsNeighbourhood, PTL
-----------------------------------------------------------------------------
(* The types.  What a walk hands down is a caller's name, and a row is of  *)
(* a node and has a caller.                                                *)
THEOREM ExtractTypes == ExtractSpec => []ExtractTypeOK
  <1>1. ExtractInv => ExtractTypeOK
    <2> SUFFICES ASSUME ExtractInv PROVE ExtractTypeOK
      OBVIOUS
    <2>1. ASSUME NEW i \in DOMAIN walked
          PROVE  walked[i] = NoCaller \/ walked[i][1] \in {"named", "anonymous"}
      <3>1. walked[i] \in CallerNames
        BY DEF ExtractInv, WalkedSoFar
      <3> QED
        BY <3>1 DEF CallerNames, Named, Anonymous
    <2>2. ASSUME NEW i \in DOMAIN edges
          PROVE  edges[i].caller # NoCaller /\ edges[i].call \in DOMAIN tree.nodes
      <3>1. i \in 1..Len(edges) /\ edges[i] \in EdgeRow /\ IsRow(edges[i])
        BY DEF ExtractInv, RowsInOrder
      <3> QED
        BY <3>1 DEF EdgeRow, IsRow, Nodes
    <2> QED
      BY <2>1, <2>2 DEF ExtractTypeOK
  <1> QED
    BY <1>1, ExtractInvariant, PTL

(* The windows of a function are of its bytes.                             *)
THEOREM SplitTypes == SplitSpec => []SplitTypeOK
  <1>1. SplitInv => SplitTypeOK
    BY DEF SplitInv
  <1> QED
    BY <1>1, SplitInitially, SplitStep, PTL DEF SplitSpec

(* A request walks no deeper than the cap and reads no more rows than the  *)
(* other cap, also when the response ends with a node too many.            *)
WithinCaps ==
  /\ graph.depth \in 1..DepthCap /\ graph.taken <= RowCap
  /\ \A r \in graph.rows : r.depth \in 1..DepthCap

LEMMA CapsStep == GraphInv /\ WithinCaps /\ [GraphNext]_graphVars => WithinCaps'
  <1> SUFFICES ASSUME GraphInv, WithinCaps, [GraphNext]_graphVars PROVE WithinCaps'
    OBVIOUS
  <1> PICK g : g = graph
    OBVIOUS
  <1> PICK h : h = graph'
    OBVIOUS
  <1>1. callEdges \subseteq CallEdge /\ IsFiniteSet(callEdges) /\ g \in GraphState
    BY DEF GraphInv
  <1>2. g.depth \in 1..DepthCap /\ g.taken <= RowCap /\ \A r \in g.rows : r.depth \in 1..DepthCap
    BY DEF WithinCaps
  <1>3. SUFFICES /\ h.depth \in 1..DepthCap /\ h.taken <= RowCap
                 /\ \A r \in h.rows : r.depth \in 1..DepthCap
    BY DEF WithinCaps
  <1>4. RowCap \in Nat \ {0} /\ DepthCap \in Nat
    BY GraphAssumption
  <1>5. CASE AskGraph
    <2>1. PICK root \in GraphSymbols, asked \in AskedDepths :
            LET wanted == IF asked = 0 THEN DefaultDepth ELSE asked
                depth  == IF wanted > DepthCap THEN DepthCap ELSE wanted
                rows   == BoundedRows(root, depth)
            IN h = [NoGraph EXCEPT !.pc = "build", !.root = root, !.depth = depth, !.rows = rows,
                                   !.nodes = {root}, !.truncated = Cardinality(rows) >= RowCap]
      BY <1>5 DEF AskGraph
    <2> DEFINE wanted == IF asked = 0 THEN DefaultDepth ELSE asked
               depth  == IF wanted > DepthCap THEN DepthCap ELSE wanted
    <2>2. depth \in Nat \ {0} /\ depth \in 1..DepthCap
      BY GraphAssumption
    <2> HIDE DEF depth
    <2>3. Asked(h, root, depth, BoundedRows(root, depth))
      BY <2>1 DEF depth, Asked
    <2>4. PICK all : all = BoundedRows(root, depth)
      OBVIOUS
    <2>5. Neighbours(all, root, depth)
      BY <1>1, <2>2, <2>4, RowsAreNeighbours
    <2>6. h.depth = depth /\ h.taken = 0 /\ h.rows = all
      BY <2>3, <2>4 DEF Asked, NoGraph
    <2>7. \A r \in all : r.depth \in 1..depth
      BY <2>5 DEF Neighbours
    <2> QED
      BY <1>4, <2>2, <2>6, <2>7
  <1>6. CASE ReadRow
    <2>1. g.taken < RowCap
      BY <1>6 DEF ReadRow
    <2>2. PICK r \in Shallowest(g.rows) : Taken(h, g, r)
      BY <1>6 DEF ReadRow, Taken
    <2> DEFINE e == r.edge
               m == [g EXCEPT !.rows = g.rows \ {r}, !.taken = g.taken + 1]
               n == WithCaller(m, e)
    <2>3. /\ m.depth = g.depth /\ m.taken = g.taken + 1 /\ m.rows = g.rows \ {r}
          /\ n.depth = m.depth /\ n.taken = m.taken /\ n.rows = m.rows
          /\ {"depth", "taken", "rows"} \subseteq DOMAIN g \intersect DOMAIN n
      BY <1>1 DEF GraphState, WithCaller
    <2>4. \/ h = Cap(g) \/ h = Cap(n)
          \/ h = [n EXCEPT !.nodes = n.nodes \union {e.callee}, !.edges = n.edges \union {<<e.caller, e.callee>>}]
      BY <2>2 DEF Taken
    <2> HIDE DEF m, n
    <2>5. h.depth = g.depth /\ h.taken \in {g.taken, g.taken + 1} /\ h.rows \subseteq g.rows
      <3>1. CASE h = Cap(g)
        BY <2>3, <3>1 DEF Cap
      <3>2. CASE h = Cap(n)
        BY <2>3, <3>2 DEF Cap
      <3>3. CASE h = [n EXCEPT !.nodes = n.nodes \union {e.callee},
                               !.edges = n.edges \union {<<e.caller, e.callee>>}]
        BY <2>3, <3>3
      <3> QED
        BY <2>4, <3>1, <3>2, <3>3
    <2> QED
      BY <1>1, <1>2, <1>4, <2>1, <2>5 DEF GraphState
  <1>7. CASE GraphBuilt
    <2>1. h = [g EXCEPT !.pc = "done"]
      BY <1>7 DEF GraphBuilt
    <2>2. h.depth = g.depth /\ h.taken = g.taken /\ h.rows = g.rows
      BY <1>1, <2>1 DEF GraphState
    <2> QED
      BY <1>2, <2>2
  <1>8. CASE UNCHANGED graphVars
    BY <1>2, <1>8 DEF graphVars
  <1> QED
    BY <1>5, <1>6, <1>7, <1>8 DEF GraphNext

(* The fields of a request for a bounded graph have values of their kind.  *)
THEOREM GraphTypes == GraphSpec => []GraphTypeOK
  <1>1. GraphInit => WithinCaps
    BY GraphAssumption DEF GraphInit, NoGraph, WithinCaps
  <1>2. GraphInv /\ WithinCaps => GraphTypeOK
    BY GraphAssumption DEF GraphInv, GraphState, Row, WithinCaps, GraphTypeOK
  <1> QED
    BY <1>1, <1>2, CapsStep, GraphInvariant, PTL DEF GraphSpec
=============================================================================
