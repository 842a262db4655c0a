---------------------------- MODULE ReadingPath -----------------------------
(***************************************************************************)
(* "Where to start reading" (api/internal/architecture): entrypoints are   *)
(* detected from the indexed symbols and their files, a breadth-first      *)
(* search walks the call rows from them, and the symbols found are ranked  *)
(* by depth, number of callers and name.  Names are numbers, in the order  *)
(* of the strings they stand for; "server.js" stands for the six names of  *)
(* such files.  Files are read before symbols, so a file that a running    *)
(* ingestion adds in between is unknown to the request.                    *)
(***************************************************************************)
EXTENDS Rows

CONSTANTS
    Main, DunderMain,   \* the numbers of "main" and "__main__"
    MaxSteps,           \* maxReadingPathSteps
    Layouts,            \* what may be indexed: files, symbols and calls
    NoFile

(* Rows are lists, and names are numbers in the order of their strings.    *)
ASSUME PathAssumption ==
    /\ MaxSteps \in Nat
    /\ \A l \in Layouts :
         /\ IsList(l.symbols) /\ \A s \in ToSet(l.symbols) : s.name \in Int
         /\ IsList(l.calls) /\ \A c \in ToSet(l.calls) : c.caller \in Int /\ c.callee \in Int

VARIABLES
    layout,    \* the repository's rows: files by path, symbols by path and
               \* line, calls by caller
    reading    \* the request: queue, what was found at which depth, the steps

pathVars == <<layout, reading>>

NoPathYet == [pc |-> "idle", known |-> {}, queue |-> <<>>, order |-> {}, steps |-> <<>>]

PathTypeOK ==
    /\ reading.pc \in {"idle", "start", "search", "rank", "done"}
    /\ reading.known \subseteq DOMAIN layout.files
    /\ \A i \in DOMAIN reading.queue : reading.queue[i].depth \in Nat
    /\ \A d \in reading.order : d.depth \in Nat
    /\ Len(reading.steps) <= MaxSteps

PathInit == layout \in Layouts /\ reading = NoPathYet

FileOf(s) == layout.files[s.file]

(* isEntrypoint, of a symbol whose file the request knows. *)
IsEntrypoint(s) ==
    LET f == FileOf(s) IN
    /\ s.file \in reading.known
    /\ \/ f.language = "go"     /\ (s.name = Main \/ f.inCmd \/ f.base = "main.go")
       \/ f.language = "python" /\ (s.name = DunderMain \/ f.base \in {"main.py", "app.py"})
       \/ f.language \in {"javascript", "typescript"} /\ f.base = "server.js"

DetectEntrypoints == Where(layout.symbols, IsEntrypoint)

EntryNames == {e.name : e \in ToSet(DetectEntrypoints)}

Seen == {d.symbol : d \in reading.order \union ToSet(reading.queue)}

(* Mutant: what is discovered is visited next. *)
PushFront(queue, found) == found \o queue

Enqueue(queue, found) == queue \o found

AtDepth(names, d) == [i \in DOMAIN names |-> [symbol |-> names[i], depth |-> d]]

(* GetFiles: all files, or all but one that is indexed just afterwards. *)
ReadFiles ==
    /\ reading.pc = "idle"
    /\ \E known \in {DOMAIN layout.files} \union {DOMAIN layout.files \ {f} : f \in DOMAIN layout.files} :
         reading' = [reading EXCEPT !.pc = "start", !.known = known]
    /\ UNCHANGED layout

(* The queue starts with every entrypoint; without one, every symbol of    *)
(* the call rows is ranked, at one depth.                                  *)
StartPath ==
    LET entries == DetectEntrypoints
        talked  == UNION {{c.caller, c.callee} : c \in ToSet(layout.calls)}
    IN
    /\ reading.pc = "start"
    /\ reading' = IF entries # <<>>
               THEN [reading EXCEPT !.pc = "search",
                                 !.queue = AtDepth(Distinct([i \in DOMAIN entries |-> entries[i].name]), 0)]
               ELSE [reading EXCEPT !.pc = "rank", !.order = {[symbol |-> n, depth |-> 1] : n \in talked}]
    /\ UNCHANGED layout

(* One turn of the search: the head of the queue and its callees. *)
Visit ==
    LET cur == Head(reading.queue)
        calls(c)   == c.caller = cur.symbol
        callees    == Where(layout.calls, calls)
        unseen(n)  == n \notin Seen
        found      == Where(Distinct([i \in DOMAIN callees |-> callees[i].callee]), unseen)
    IN
    /\ reading.pc = "search" /\ reading.queue # <<>>
    /\ reading' = [reading EXCEPT !.order = @ \union {cur},
                            !.queue = Enqueue(Tail(@), AtDepth(found, cur.depth + 1))]
    /\ UNCHANGED layout

Searched ==
    /\ reading.pc = "search" /\ reading.queue = <<>>
    /\ reading' = [reading EXCEPT !.pc = "rank"]
    /\ UNCHANGED layout

CallerCount(n) == Cardinality({c.caller : c \in {c \in ToSet(layout.calls) : c.callee = n}})

Before(a, b) ==
    \/ a.depth < b.depth
    \/ /\ a.depth = b.depth
       /\ \/ CallerCount(a.symbol) > CallerCount(b.symbol)
          \/ CallerCount(a.symbol) = CallerCount(b.symbol) /\ a.symbol < b.symbol

(* Where a step points: to the file of the last entrypoint of its name or  *)
(* else of the first call row it makes, and to the lines of the first      *)
(* symbol of its name (line 0: none).                                      *)
StepOf(n) ==
    LET entry(s)  == s.name = n /\ IsEntrypoint(s)
        caller(c) == c.caller = n
        named(s)  == s.name = n
        e == Where(layout.symbols, entry)
        c == Where(layout.calls, caller)
        s == Where(layout.symbols, named)
    IN [symbol |-> n,
        file   |-> IF e # <<>> THEN Last(e).file ELSE IF c # <<>> THEN Head(c).file ELSE NoFile,
        line   |-> IF s # <<>> THEN Head(s).line ELSE 0]

(* Before orders what was found in one way only. *)
Ranked(found) ==
    [i \in 1..Cardinality(found) |->
        CHOOSE d \in found : Cardinality({x \in found : Before(x, d)}) = i - 1]

RankSteps ==
    LET kept == Take(Ranked(reading.order), MaxSteps) IN
    /\ reading.pc = "rank"
    /\ reading' = [reading EXCEPT !.pc = "done", !.steps = [i \in DOMAIN kept |-> StepOf(kept[i].symbol)]]
    /\ UNCHANGED layout

PathNext == ReadFiles \/ StartPath \/ Visit \/ Searched \/ RankSteps

PathSpec == PathInit /\ [][PathNext]_pathVars
-----------------------------------------------------------------------------
CallsPair(a, b) == \E c \in ToSet(layout.calls) : c.caller = a /\ c.callee = b

Names == EntryNames \union UNION {{c.caller, c.callee} : c \in ToSet(layout.calls)}

(* The names at most d calls from an entrypoint. *)
ReachedBy(d) ==
    LET near[n \in 0..d] ==
            IF n = 0 THEN EntryNames
            ELSE near[n - 1] \union {b \in Names : \E a \in near[n - 1] : CallsPair(a, b)}
    IN near[d]

Distance(n) == CHOOSE d \in 0..Cardinality(Names) :
                 n \in ReachedBy(d) /\ \A k \in 0..(d - 1) : n \notin ReachedBy(k)

(* A name that one symbol has and that only calls from that symbol's file. *)
Unambiguous(s) ==
    /\ \A x \in ToSet(layout.symbols) : x.name = s.name => x = s
    /\ \A c \in ToSet(layout.calls) : c.caller = s.name => c.file = s.file

(* The path can be read from its start: every step is an entrypoint or is  *)
(* called by a step before it, also where the list was cut; nothing nearer *)
(* to an entrypoint, or as near and called from more places, was left out; *)
(* and a step names the place of its own symbol ("not a wrong or stale     *)
(* range") where that name is unambiguous.                                 *)
ReadingPathLeads ==
    reading.pc = "done" =>
        LET steps  == reading.steps
            listed == {steps[i].symbol : i \in DOMAIN steps}
            all    == IF EntryNames = {} THEN Names ELSE ReachedBy(Cardinality(Names))
            place(n) == [symbol |-> n, depth |-> IF EntryNames = {} THEN 1 ELSE Distance(n)]
        IN  /\ listed \subseteq all /\ Cardinality(listed) = Len(steps)
            /\ Len(steps) < MaxSteps => listed = all
            /\ \A n \in all \ listed, m \in listed : Before(place(m), place(n))
            /\ \A i, j \in DOMAIN steps :
                 i < j => Before(place(steps[i].symbol), place(steps[j].symbol))
            /\ EntryNames # {} =>
                 \A i \in DOMAIN steps :
                     \/ steps[i].symbol \in EntryNames
                     \/ \E j \in 1..(i - 1) : CallsPair(steps[j].symbol, steps[i].symbol)
            /\ \A i \in DOMAIN steps : \A s \in ToSet(layout.symbols) :
                 (s.name = steps[i].symbol /\ Unambiguous(s)) =>
                     steps[i].line = s.line /\ steps[i].file \in {s.file, NoFile}
=============================================================================
