----------------------------- MODULE Answering ------------------------------
(***************************************************************************)
(* How a question finds its context (api/internal/answer, retrieval):      *)
(* semantic search through the sidecar, whose hits are expanded one by     *)
(* one, then a lexical search of the symbol index and the call rows for    *)
(* the identifiers in the question, then an overview, then the LLM.  Every *)
(* one of these may fail and the answer makes do with the rest.  The       *)
(* command palette (Search in api/internal/api/retrieval.go) uses the      *)
(* lexical search only in place of a failed semantic one.  Strings are     *)
(* told apart by what the lookups test: which names contain or equal an    *)
(* identifier.                                                             *)
(***************************************************************************)
EXTENDS Rows

CONSTANTS
    Questions,       \* [dotted, plain: identifiers in order, overview, palette: BOOLEAN]
    Useless,         \* identifiers too short, or stop words
    Containing,      \* identifier -> the names ILIKE finds it in
    Equals,          \* identifier -> the names it equals
    Indexes,         \* [symbols: rows by path and line, calls: set of rows]
    Hits,            \* what semantic search may return, best hit first: symbol,
                     \* path and the lines it had when it was embedded, or NoPlace
    DiskStates,      \* path -> lines of the file in the working copy, 0 when it is gone
    MaxCandidates, MaxResults, MaxCallRows, MaxSnippet,
    Overview, RepoId, NoPlace

ASSUME AnsweringAssumption ==
    /\ MaxCandidates \in Nat /\ MaxResults \in Nat \ {0} /\ MaxSnippet \in Nat \ {0}
    /\ Overview \notin {"semantic", "lexical"} /\ RepoId # NoPlace
    /\ \A q \in Questions :
         /\ IsList(q.dotted) /\ IsList(q.plain) /\ q.overview \in BOOLEAN /\ q.palette \in BOOLEAN
         /\ \A word \in ToSet(q.dotted \o q.plain) : Equals[word] \subseteq Containing[word]
    /\ \A i \in Indexes :
         /\ IsList(i.symbols) /\ IsFiniteSet(i.calls)
         /\ \A s \in ToSet(i.symbols) : /\ s.path # NoPlace /\ s.start \in Int /\ s.end \in Int
                                       /\ \A d \in DiskStates : d[s.path] \in Nat
    /\ \A hits \in Hits : IsList(hits) /\ \A h \in ToSet(hits) : h = NoPlace \/ h.path # NoPlace

VARIABLES
    index,     \* the repository's rows
    disk,      \* its working copy, which may have moved on since
    ask        \* the request

answerVars == <<index, disk, ask>>

NoAsk == [pc |-> "idle", palette |-> FALSE, overview |-> FALSE, first |-> NoPlace,
          candidates |-> <<>>, hits |-> <<>>, seen |-> {}, found |-> <<>>, lexical |-> <<>>,
          failed |-> {}]

AnswerInit == index \in Indexes /\ disk \in DiskStates /\ ask = NoAsk

(* `cited' are the lines its metadata gives, `shown' those of its text.    *)
Result(symbol, path, origin, cited, shown, calls) ==
    [symbol |-> symbol, path |-> path, origin |-> origin, cited |-> cited, shown |-> shown,
     edges |-> {<<c.caller, c.callee>> : c \in calls}]

NoLines == <<0, 0>>

KeyOf(r) == <<r.symbol, r.path>>

KeysIn(s) == {KeyOf(r) : r \in ToSet(s)}

AnswerTypeOK ==
    /\ ask.pc \in {"idle", "search", "expand", "symbols", "calls", "merge", "overview", "generate",
                   "answered", "refused"}
    /\ ask.palette \in BOOLEAN /\ ask.overview \in BOOLEAN
    /\ \A r \in ToSet(ask.found \o ask.lexical) :
         /\ r.origin \in {"semantic", "lexical", Overview}
         /\ Len(r.cited) = 2 /\ Len(r.shown) \in {0, 2}
    /\ Len(ask.lexical) <= MaxResults
    /\ ask.failed \subseteq {"search", "expand", "symbols", "calls", "overview", "llm"}

(* extractCandidateIdentifiers: qualified names first. *)
CandidatesOf(q) ==
    LET useful(w) == w \notin Useless
    IN  Take(Distinct(Where(q.dotted \o q.plain, useful)), MaxCandidates)

AskQuestion ==
    /\ ask.pc = "idle"
    /\ \E q \in Questions :
         LET c == CandidatesOf(q) IN
         ask' = [NoAsk EXCEPT !.pc = "search", !.palette = q.palette, !.overview = q.overview,
                              !.candidates = c, !.first = IF c = <<>> THEN NoPlace ELSE Head(c)]
    /\ UNCHANGED <<index, disk>>

SearchHits ==
    /\ ask.pc = "search"
    /\ \E hits \in Hits : ask' = [ask EXCEPT !.pc = "expand", !.hits = hits]
    /\ UNCHANGED <<index, disk>>

(* No embedding, no sidecar: the lexical search goes on alone. *)
SearchFails ==
    /\ ask.pc = "search"
    /\ ask' = [ask EXCEPT !.pc = "symbols", !.failed = @ \union {"search"}]
    /\ UNCHANGED <<index, disk>>

(* GetOutgoingCalls: a caller is a symbol of a file. *)
Outgoing(h) == {c \in index.calls : c.caller = h.symbol /\ c.path = h.path}

(* GetIncomingCalls: a callee is only a text. *)
Incoming(h) == {c \in index.calls : c.callee = h.symbol}

ExpandSymbol(h) == Outgoing(h) \union Incoming(h)

HitResult(h) == Result(h.symbol, h.path, "semantic", <<h.start, h.end>>, <<>>, ExpandSymbol(h))

(* One turn of Search's loop over its hits: a hit without symbol or file,  *)
(* or another chunk of a symbol that ranked higher, is passed over; one    *)
(* whose calls cannot be read is dropped, and so are its later chunks.     *)
ExpandHit ==
    /\ ask.pc = "expand" /\ ask.hits # <<>>
    /\ LET h == Head(ask.hits)
           rest == [ask EXCEPT !.hits = Tail(@)]
       IN  IF h = NoPlace \/ KeyOf(h) \in ask.seen THEN ask' = rest
           ELSE LET marked == [rest EXCEPT !.seen = @ \union {KeyOf(h)}] IN
                \/ ask' = [marked EXCEPT !.found = Append(@, HitResult(h))]
                \/ ask' = [marked EXCEPT !.failed = @ \union {"expand"}]
    /\ UNCHANGED <<index, disk>>

HitsExpanded ==
    /\ ask.pc = "expand" /\ ask.hits = <<>>
    /\ ask' = [ask EXCEPT !.pc = IF ask.palette THEN "answered" ELSE "symbols"]
    /\ UNCHANGED <<index, disk>>

(* Mutant: matches stay in the order of files and lines. *)
AsListed(rows, word) == rows

(* A stable sort by whether the name is the identifier itself. *)
ExactFirst(rows, word) ==
    LET exact(s) == s.name \in Equals[word]
        other(s) == s.name \notin Equals[word]
    IN  Where(rows, exact) \o Where(rows, other)

(* readSymbolSource: the lines shown, <<>> when the working copy does not  *)
(* have the symbol's first line.                                           *)
SourceLines(s) ==
    LET last  == IF s.end < s.start THEN s.start ELSE s.end
        there == IF last > disk[s.path] THEN disk[s.path] ELSE last
    IN  IF s.start < 1 \/ s.start > disk[s.path] THEN <<>>
        ELSE <<s.start, IF there - s.start + 1 > MaxSnippet THEN s.start + MaxSnippet - 1 ELSE there>>

(* Mutant: what is found already takes no room. *)
RoomUncounted == MaxResults

Room == MaxResults - Len(ask.lexical)

NextCandidate(a) == [a EXCEPT !.pc = "symbols", !.candidates = Tail(@)]

(* ListSymbols: the symbols whose name contains it, by path and line. *)
ListSymbols(word) ==
    LET matches(s) == s.name \in Containing[word] IN Where(index.symbols, matches)

SymbolResult(s) == Result(s.name, s.path, "lexical", <<s.start, s.end>>, SourceLines(s), {})

(* What the lookup of the next identifier finds in the symbol index; it    *)
(* may fail, and the search for calls goes on.                             *)
LookUpSymbols ==
    /\ ask.pc = "symbols" /\ ask.candidates # <<>> /\ Room > 0
    /\ LET word == Head(ask.candidates)
           rows == ExactFirst(ListSymbols(word), word)
           results == [i \in DOMAIN rows |-> SymbolResult(rows[i])]
           fresh(r) == KeyOf(r) \notin KeysIn(ask.lexical)
           kept == Take(DistinctBy(Where(results, fresh), KeyOf), Room)
       IN \/ ask' = [ask EXCEPT !.pc = "calls", !.lexical = @ \o kept]
          \/ ask' = [ask EXCEPT !.pc = "calls", !.failed = @ \union {"symbols"}]
    /\ UNCHANGED <<index, disk>>

(* SearchCallEdgesByCalleeSubstring: the calls of names that contain it,   *)
(* MaxCallRows rows of them at most; which ones is up to the database.     *)
CallRows(word) ==
    LET matching == {c \in index.calls : c.callee \in Containing[word]}
        limit == IF Cardinality(matching) > MaxCallRows THEN MaxCallRows ELSE Cardinality(matching)
    IN  {r \in SUBSET matching : Cardinality(r) = limit}

(* One result for each name called, in the order of a Go map. *)
LookUpCalls ==
    /\ ask.pc = "calls" /\ Room > 0
    /\ \/ \E rows \in CallRows(Head(ask.candidates)) :
            LET fresh == {c.callee : c \in rows} \ {k[1] : k \in {k \in KeysIn(ask.lexical) : k[2] = NoPlace}}
            IN \E order \in SetToSeqs(fresh) :
                 LET kept == Take(order, Room)
                     group(n) == {c \in rows : c.callee = n}
                 IN ask' = NextCandidate([ask EXCEPT !.lexical = @ \o
                      [i \in DOMAIN kept |-> Result(kept[i], NoPlace, "lexical", NoLines, <<>>, group(kept[i]))]])
       \/ ask' = NextCandidate([ask EXCEPT !.failed = @ \union {"calls"}])
    /\ UNCHANGED <<index, disk>>

LexicalDone ==
    /\ \/ ask.pc = "symbols" /\ (ask.candidates = <<>> \/ Room = 0)
       \/ ask.pc = "calls" /\ Room = 0
    /\ ask' = [ask EXCEPT !.pc = "merge"]
    /\ UNCHANGED <<index, disk>>

(* Mutant: what semantic search has found is listed again. *)
Concatenated(base, extra) == base \o extra

Merged(base, extra) == DistinctBy(base \o extra, KeyOf)

(* Answer refuses a question only when semantic search failed and there is *)
(* no lexical result either; the palette shows what there is.              *)
MergeResults ==
    /\ ask.pc = "merge"
    /\ LET results == Merged(ask.found, ask.lexical) IN
       ask' = [ask EXCEPT !.found = results,
                          !.pc = IF ask.palette THEN "answered"
                                 ELSE IF "search" \in ask.failed /\ results = <<>> THEN "refused"
                                 ELSE IF ask.overview THEN "overview" ELSE "generate"]
    /\ UNCHANGED <<index, disk>>

AddOverview ==
    /\ ask.pc = "overview"
    /\ \/ ask' = [ask EXCEPT !.pc = "generate",
                             !.found = Append(@, Result(Overview, RepoId, Overview, NoLines, <<>>, {}))]
       \/ ask' = [ask EXCEPT !.pc = "generate", !.failed = @ \union {"overview"}]
    /\ UNCHANGED <<index, disk>>

Generate ==
    /\ ask.pc = "generate"
    /\ \/ ask' = [ask EXCEPT !.pc = "answered"]
       \/ ask' = [ask EXCEPT !.pc = "refused", !.failed = @ \union {"llm"}]
    /\ UNCHANGED <<index, disk>>

Citation(r) == [symbol |-> r.symbol, path |-> r.path, start |-> r.cited[1], end |-> r.cited[2]]

CitedAmong(results) ==
    LET citable(r) == r.symbol # Overview /\ r.path # NoPlace IN Where(results, citable)

(* buildSources: what the answer cites. *)
SourcesOf(results) == [i \in DOMAIN CitedAmong(results) |-> Citation(CitedAmong(results)[i])]

ToolsUsed(results) ==
    {t \in {"semantic", "lexical", Overview} : \E r \in ToSet(results) : r.origin = t}

AnswerNext ==
    \/ AskQuestion \/ SearchHits \/ SearchFails \/ ExpandHit \/ HitsExpanded \/ LookUpSymbols
    \/ LookUpCalls \/ LexicalDone \/ MergeResults \/ AddOverview \/ Generate

AnswerSpec == AnswerInit /\ [][AnswerNext]_answerVars
-----------------------------------------------------------------------------
(* The text shown of a symbol begins at the first line cited and ends      *)
(* within the lines cited, the file and the snippet limit; none is shown   *)
(* when the file no longer has the first line.                             *)
ShowsWhatItCites(r) ==
    LET first == r.cited[1]
        last  == r.cited[2]
        there == disk[r.path]
    IN  IF r.shown = <<>> THEN first \notin 1..there
        ELSE /\ r.shown[1] = first /\ first <= r.shown[2]
             /\ r.shown[2] <= there /\ r.shown[2] - first < MaxSnippet
             /\ r.shown[2] <= last \/ r.shown[2] = first

(* What an answer rests on, whatever failed on the way.  Each symbol of a  *)
(* file is cited once.  Without semantic search there is a lexical result  *)
(* and the semantic badge is not shown.  With it, and unless reading calls *)
(* failed, every symbol it named is among the results; only then may there *)
(* be none at all.  A name without a place is called by somebody it names. *)
(* What the lexical search cites is, line for line, a row of the index:    *)
(* the working copy may have moved on, and the lines cited with it, but    *)
(* the text shown with them is what the file has there now.                *)
AnswerIsGrounded ==
    (ask.pc = "answered" /\ ~ask.palette) =>
        LET sources == SourcesOf(ask.found) IN
        /\ Cardinality(KeysIn(sources)) = Len(sources)
        /\ "search" \in ask.failed => ToolsUsed(ask.found) \ {Overview} = {"lexical"}
        /\ "expand" \notin ask.failed => ask.seen \subseteq KeysIn(ask.found)
        /\ \A r \in ToSet(ask.found) : r.path = NoPlace =>
             r.edges # {} /\ \A e \in r.edges : e[2] = r.symbol
        /\ \A r \in ToSet(CitedAmong(ask.found)) : r.origin = "lexical" =>
             /\ \E s \in ToSet(index.symbols) :
                  Citation(r) = [symbol |-> s.name, path |-> s.path, start |-> s.start, end |-> s.end]
             /\ ShowsWhatItCites(r)

NamedSymbols == {<<s.name, s.path>> : s \in {s \in ToSet(index.symbols) : s.name \in Equals[ask.first]}}

(* A question that names an indexed symbol as its first identifier gets    *)
(* it: the symbol is among the results, or as many of its namesakes as the *)
(* cap allows, however many other names contain the identifier; and the    *)
(* question is not refused for a semantic search that is down ("can still  *)
(* ground a question that names a real identifier").                       *)
ExactMatchesSurvive ==
    (ask.first # NoPlace /\ "symbols" \notin ask.failed /\ ~ask.palette
       /\ ask.pc \in {"answered", "refused"} /\ "llm" \notin ask.failed) =>
        /\ NamedSymbols # {} => ask.pc = "answered"
        /\ \/ NamedSymbols \subseteq KeysIn(ask.found)
           \/ Cardinality(NamedSymbols \intersect KeysIn(ask.found)) >= MaxResults
=============================================================================
