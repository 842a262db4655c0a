--------------------------- MODULE MCCodeQueries ----------------------------
(***************************************************************************)
(* Model-checking instance of the components around one repository's       *)
(* index: what extraction puts into it, the three queries that read it,    *)
(* and the conversations about it.  They share no step, and what they      *)
(* share of the index does not change while they run, so each is checked   *)
(* on its own inputs: `moving' picks one at the start.                     *)
(***************************************************************************)
EXTENDS CallExtraction, ChunkSplitter, CallGraph, ReadingPath, Answering, ChatStore

CONSTANTS save, saveAll, ioSave, load, the,    \* names, and identifiers in questions
          fileA, fileB

VARIABLE moving
-----------------------------------------------------------------------------
(* Syntax trees of a root and four nodes, the last of them a call; all     *)
(* names differ or all are the same.  A declarator has one child at most,  *)
(* and that is an expression.                                              *)

Shapes == {p \in [1..5 -> 0..4] : p[1] = 0 /\ p[2] = 1 /\ \A n \in 3..5 : p[n] \in {1, p[n - 1], n - 1}}

Kinds == {"function", "method", "arrow", "expression", "generator", "declarator", "call"}

TreeOf(language, p, kinds, direct, sameName) ==
    LET k == <<"other">> \o kinds \o <<"call">> IN
    [language |-> language,
     nodes |-> [n \in 1..5 |->
        [kind |-> k[n], parent |-> p[n], line |-> n, name |-> IF sameName THEN 1 ELSE n,
         literal |-> IF direct /\ n < 5 /\ k[n] = "call" /\ p[n + 1] = n
                        /\ k[n + 1] \in {"arrow", "expression"} THEN n + 1 ELSE 0]]]

WellFormed(t) ==
    \A n \in 1..5 :
        /\ t.language = "go" => t.nodes[n].kind \notin {"expression", "generator", "declarator"}
        /\ t.nodes[n].kind = "declarator" =>
             LET values == {m \in 1..5 : t.nodes[m].parent = n} IN
             /\ Cardinality(values) <= 1
             /\ \A m \in values : t.nodes[m].kind \in {"arrow", "expression", "generator", "call"}

SmallTrees ==
    {t \in {TreeOf(l, p, k, direct, sameName) : l \in {"go", "javascript"}, p \in Shapes,
                                                k \in [1..3 -> Kinds], direct, sameName \in BOOLEAN} : WellFormed(t)}
-----------------------------------------------------------------------------
(* Up to four call rows between four symbols, one of which is defined in   *)
(* two files and calls itself.                                             *)
SmallGraphs ==
    UNION {kSubset(n, {e \in CallEdge : IF e.caller = e.callee THEN e.caller = 1 /\ e.path = fileA
                                        ELSE e.path = fileA \/ (e.caller = 1 /\ e.callee = 2)}) : n \in 0..4}
-----------------------------------------------------------------------------
(* Two files with two symbols each, with and without a name they share;    *)
(* up to three calls, the fifth name being outside the repository.         *)

SourceFile(language, base, inCmd) == [language |-> language, base |-> base, inCmd |-> inCmd]

SymbolRow(name, file, line) == [name |-> name, file |-> file, line |-> line]

SymbolLists == {<<SymbolRow(1, 1, 1), SymbolRow(2, 1, 5), SymbolRow(3, 2, 1), SymbolRow(4, 2, 5)>>,
                <<SymbolRow(1, 1, 1), SymbolRow(2, 1, 5), SymbolRow(2, 2, 1), SymbolRow(3, 2, 5)>>}

CallList(pairs) ==
    LET before(a, b) == a[1] < b[1] \/ (a[1] = b[1] /\ a[2] < b[2])
        rows == SetToSortSeq(pairs, before)
    IN  [i \in DOMAIN rows |-> [caller |-> rows[i][1], callee |-> rows[i][2],
                                file |-> IF rows[i][1] <= 2 THEN 1 ELSE 2]]

CallLists(most) == {CallList(s) : s \in UNION {kSubset(n, {p \in (1..4) \X (1..5) : p[1] # p[2]}) : n \in 0..most}}

LayoutsWith(firsts, most) ==
    [files : {<<f, SourceFile("go", "other", FALSE)>> : f \in firsts}, symbols : SymbolLists, calls : CallLists(most)]

SmallLayouts ==
    LayoutsWith({SourceFile("go", "main.go", FALSE)}, 3)
    \union LayoutsWith({SourceFile("go", "other", TRUE), SourceFile("go", "other", FALSE),
                        SourceFile("python", "app.py", FALSE), SourceFile("python", "other", FALSE),
                        SourceFile("javascript", "server.js", FALSE)}, 1)
-----------------------------------------------------------------------------
(* Questions about a name that others contain, a qualified name, a name    *)
(* that is only called, and nothing in particular.                         *)

SomeQuestions ==
    [dotted : {<<>>}, plain : {<<the, save, load>>, <<load>>, <<the>>}, overview : BOOLEAN, palette : BOOLEAN]
    \union [dotted : {<<ioSave>>}, plain : {<<ioSave, save>>}, overview : {FALSE}, palette : BOOLEAN]

NamesContaining == [w \in {save, saveAll, ioSave, load, the} |->
                      IF w = save THEN {save, saveAll, ioSave} ELSE {w}]
NamesEqual      == [w \in {save, saveAll, ioSave, load, the} |-> {w}]

Indexed(name, path, first, last) == [name |-> name, path |-> path, start |-> first, end |-> last]
Call(caller, callee, path)       == [caller |-> caller, callee |-> callee, path |-> path]

SomeIndexes ==
    {[symbols |-> <<Indexed(saveAll, fileA, 1, 3), Indexed(save, fileA, 4, 9), Indexed(save, fileB, 1, 1)>>,
      calls   |-> {Call(save, ioSave, fileA), Call(saveAll, save, fileA), Call(load, ioSave, fileB)}],
     [symbols |-> <<Indexed(saveAll, fileA, 1, 2), Indexed(load, fileA, 3, 4), Indexed(saveAll, fileB, 1, 1),
                    Indexed(save, fileB, 2, 9), Indexed(save, fileB, 12, 14)>>,
      calls   |-> {Call(load, save, fileA)}],
     [symbols |-> <<>>, calls |-> {Call(load, ioSave, fileA), Call(save, load, fileB)}]}

(* The second file has changed since it was embedded. *)
Hit(symbol, path, first, last) == [symbol |-> symbol, path |-> path, start |-> first, end |-> last]

SomeHits == {<<>>, <<Hit(save, fileA, 4, 9), Hit(save, fileA, 7, 9), Hit(saveAll, fileA, 1, 3)>>,
             <<NoPlace, Hit(save, fileB, 20, 0)>>}

SomeDisks == {(fileA :> 9) @@ (fileB :> 1), (fileA :> 5) @@ (fileB :> 0), (fileA :> 3) @@ (fileB :> 13)}
-----------------------------------------------------------------------------
Parts == {"extract", "split", "graph", "path", "answer", "chat"}

(* A component that does not move stays where one of its inputs puts it. *)
QueriesInit ==
    /\ moving \in Parts
    /\ IF moving = "extract" THEN ExtractInit
       ELSE tree = [language |-> "go", nodes |-> <<>>] /\ walked = <<>> /\ edges = <<>>
    /\ IF moving = "split"   THEN SplitInit ELSE length = 0 /\ start = 0 /\ windows = <<>> /\ split = FALSE
    /\ IF moving = "graph"   THEN callEdges \in SmallGraphs /\ GraphInit ELSE callEdges = {} /\ graph = NoGraph
    /\ IF moving = "path"    THEN PathInit
       ELSE layout = [files |-> <<>>, symbols |-> <<>>, calls |-> <<>>] /\ reading = NoPathYet
    /\ IF moving = "answer"  THEN AnswerInit
       ELSE index = [symbols |-> <<>>, calls |-> {}] /\ disk = <<>> /\ ask = NoAsk
    /\ ChatInit

Moves(part) == moving = part /\ UNCHANGED moving

QueriesNext ==
    \/ Moves("extract") /\ ExtractNext /\ UNCHANGED <<splitVars, graphVars, pathVars, answerVars, chatVars>>
    \/ Moves("split")   /\ SplitNext   /\ UNCHANGED <<extractVars, graphVars, pathVars, answerVars, chatVars>>
    \/ Moves("graph")   /\ GraphNext   /\ UNCHANGED <<extractVars, splitVars, pathVars, answerVars, chatVars>>
    \/ Moves("path")    /\ PathNext    /\ UNCHANGED <<extractVars, splitVars, graphVars, answerVars, chatVars>>
    \/ Moves("answer")  /\ AnswerNext  /\ UNCHANGED <<extractVars, splitVars, graphVars, pathVars, chatVars>>
    \/ Moves("chat")    /\ ChatNext    /\ UNCHANGED <<extractVars, splitVars, graphVars, pathVars, answerVars>>

queriesVars == <<extractVars, splitVars, graphVars, pathVars, answerVars, chatVars, moving>>

QueriesSpec == QueriesInit /\ [][QueriesNext]_queriesVars

(* Every variable of the components has a value of its kind. *)
QueriesTypeOK ==
    ExtractTypeOK /\ SplitTypeOK /\ GraphTypeOK /\ PathTypeOK /\ AnswerTypeOK /\ ChatTypeOK

=============================================================================
