----------------------------- MODULE ChatProofs ------------------------------
(***************************************************************************)
(* Proofs about the chat: what it answers and what it remembers.           *)
(* Answering, for any index, questions, hits, working copies, limits and   *)
(* failures that AnsweringAssumption allows: AnswerInv says what each      *)
(* search has gathered until the results are merged, what the merged list  *)
(* is, and that the symbols the first identifier names are still to be     *)
(* looked up or are there.  The store of conversations, for any finite set *)
(* of sessions, any number of overlapping requests and any limits: ChatInv *)
(* relates what is stored, who was active when and what was said.  Last,   *)
(* the composition of all queries that is checked: whichever component     *)
(* moves, it keeps the types and the promises of each of them.             *)
(***************************************************************************)
EXTENDS MCCodeQueries, CodeQueryProofs, ReadingPathProofs

(* A list without repetition has the same keys, each once. *)
LEMMA DistinctKeys ==
  ASSUME NEW s, IsList(s)
  PROVE  LET t == DistinctBy(s, KeyOf)
         IN  /\ IsList(t) /\ KeysIn(t) = KeysIn(s) /\ ToSet(t) \subseteq ToSet(s)
             /\ \A m, n \in DOMAIN t : KeyOf(t[m]) = KeyOf(t[n]) => m = n
             /\ \E at : /\ \A n \in DOMAIN t : at[n] \in DOMAIN s /\ t[n] = s[at[n]]
                        /\ \A m, n \in DOMAIN t : m < n => at[m] < at[n]
  <1> DEFINE S == {i \in DOMAIN s : \A j \in 1..(i - 1) : KeyOf(s[j]) # KeyOf(s[i])}
             t == DistinctBy(s, KeyOf)
             at == InOrder(S)
             key == [i \in DOMAIN s |-> KeyOf(s[i])]
  <1>1. t = OnlyAt(s, S)
    BY DEF DistinctBy
  <1>2. Len(s) \in Nat /\ DOMAIN s = 1..Len(s)
    BY ListShape
  <1>3. S \in SUBSET DOMAIN s
    OBVIOUS
  <1>4. \A i \in DOMAIN s : \E k \in S : KeyOf(s[k]) = KeyOf(s[i])
    <2> SUFFICES ASSUME NEW i \in DOMAIN s PROVE \E k \in S : KeyOf(s[k]) = KeyOf(s[i])
      OBVIOUS
    <2>1. i \in 1..Len(s)
      BY <1>2
    <2> HIDE DEF key
    <2>4. HasFirst(Len(s), key, i)
      BY <1>2, <2>1, FirstsCover
    <2>2. PICK k \in 1..Len(s) : key[k] = key[i] /\ \A j \in 1..(k - 1) : key[j] # key[k]
      BY <2>4 DEF HasFirst
    <2>3. \A j \in 1..(k - 1) : j \in 1..Len(s)
      BY <1>2
    <2> QED
      BY <1>2, <2>2, <2>3 DEF key
  <1>5. \A m, n \in S : KeyOf(s[m]) = KeyOf(s[n]) => m = n
    <2> SUFFICES ASSUME NEW m \in S, NEW n \in S, m # n PROVE KeyOf(s[m]) # KeyOf(s[n])
      OBVIOUS
    <2>1. m \in 1..(n - 1) \/ n \in 1..(m - 1)
      BY <1>2
    <2> QED
      BY <2>1
  <1> HIDE DEF S, t, at, key
  <1>6. Keeps(t, s, at, S)
    BY <1>1, <1>3, OnlyAtKeeps DEF at
  <1>7. /\ DOMAIN t = 1..Cardinality(S) /\ \A n \in DOMAIN t : at[n] \in S /\ t[n] = s[at[n]]
        /\ ToSet(t) = {s[i] : i \in S}
    BY <1>6, KeptRows
  <1>8. IsList(t)
    BY <1>6 DEF Keeps
  <1>9. \A m, n \in DOMAIN t : m < n <=> at[m] < at[n]
    BY <1>6, <1>7 DEF Keeps, Lists
  <1>10. \A m, n \in DOMAIN t : KeyOf(t[m]) = KeyOf(t[n]) => m = n
    <2> SUFFICES ASSUME NEW m \in DOMAIN t, NEW n \in DOMAIN t, KeyOf(t[m]) = KeyOf(t[n]) PROVE m = n
      OBVIOUS
    <2>1. at[m] = at[n]
      BY <1>5, <1>7
    <2>2. ~(m < n) /\ ~(n < m)
      <3>1. at[n] \in Int
        BY <1>2, <1>3, <1>7
      <3> QED
        BY <2>1, <3>1, <1>9
    <2> QED
      BY <2>2, <1>7
  <1>11. ToSet(t) \subseteq ToSet(s)
    BY <1>3, <1>7 DEF ToSet
  <1>12. KeysIn(t) = KeysIn(s)
    <2>1. KeysIn(t) \subseteq KeysIn(s)
      BY <1>11 DEF KeysIn
    <2>2. ASSUME NEW i \in DOMAIN s PROVE KeyOf(s[i]) \in KeysIn(t)
      BY <1>4, <1>7 DEF KeysIn
    <2> QED
      BY <2>1, <2>2 DEF KeysIn, ToSet
  <1>13. \E f : /\ \A n \in DOMAIN t : f[n] \in DOMAIN s /\ t[n] = s[f[n]]
                /\ \A m, n \in DOMAIN t : m < n => f[m] < f[n]
    BY <1>3, <1>7, <1>9
  <1> QED
    BY <1>8, <1>10, <1>11, <1>12, <1>13 DEF t

-----------------------------------------------------------------------------
(* Where a result comes from, the lines cited, and those shown, if any.    *)
RowKind(r) == /\ r.origin \in {"semantic", "lexical", Overview}
              /\ \E first, last : r.cited = <<first, last>>
              /\ r.shown = <<>> \/ \E first, last : r.shown = <<first, last>>

(* A result of semantic search has a place. *)
IsSemantic(r) == RowKind(r) /\ r.origin = "semantic" /\ r.path # NoPlace

(* A result of lexical search is a name that is called, with its calls, or *)
(* an indexed symbol with lines of its file as it is now.                  *)
IsLexical(r) ==
  /\ RowKind(r) /\ r.origin = "lexical"
  /\ \/ r.path = NoPlace /\ r.edges # {} /\ \A e \in r.edges : e[2] = r.symbol
     \/ /\ r.path # NoPlace
        /\ \E s \in ToSet(index.symbols) :
             Citation(r) = [symbol |-> s.name, path |-> s.path, start |-> s.start, end |-> s.end]
        /\ ShowsWhatItCites(r)

IsOverview(r) == RowKind(r) /\ r.origin = Overview /\ r.symbol = Overview /\ r.path # NoPlace

AskShape(a) ==
  /\ a \in [pc : {a.pc}, palette : {a.palette}, overview : {a.overview}, first : {a.first},
            candidates : {a.candidates}, hits : {a.hits}, seen : {a.seen}, found : {a.found},
            lexical : {a.lexical}, failed : {a.failed}]
  /\ IsList(a.candidates) /\ IsList(a.hits) /\ IsList(a.found) /\ IsList(a.lexical)
  /\ Len(a.lexical) <= MaxResults /\ (a.pc = "calls" => a.candidates # <<>>)
  /\ \A h \in ToSet(a.hits) : h = NoPlace \/ h.path # NoPlace

(* Until the results are merged, each search has its own. *)
Gathered(a) ==
  a.pc \in {"search", "expand", "symbols", "calls", "merge"} =>
    /\ \A r \in ToSet(a.found) : IsSemantic(r)
    /\ \A r \in ToSet(a.lexical) : IsLexical(r)
    /\ a.pc = "search" => a.found = <<>>
    /\ "search" \in a.failed => a.found = <<>> /\ a.pc \in {"symbols", "calls", "merge"}

Citable(r) == r.symbol # Overview /\ r.path # NoPlace

CitedOnce(s) ==
  \A m, n \in DOMAIN s : Citable(s[m]) /\ Citable(s[n]) /\ KeyOf(s[m]) = KeyOf(s[n]) => m = n

(* Afterwards they are one list without repetition. *)
Settled(a) ==
  a.pc \in {"overview", "generate", "answered"} /\ ~a.palette =>
    /\ \A r \in ToSet(a.found) : IsSemantic(r) \/ IsLexical(r) \/ IsOverview(r)
    /\ CitedOnce(a.found)
    /\ "search" \in a.failed => /\ \E r \in ToSet(a.found) : r.origin = "lexical"
                                /\ \A r \in ToSet(a.found) : r.origin # "semantic"

(* What the semantic search named is there, unless reading calls failed.   *)
KeepsSeen(a) == "expand" \notin a.failed => a.seen \subseteq KeysIn(a.found)

NamedBy(word) == {<<s.name, s.path>> : s \in {s \in ToSet(index.symbols) : s.name \in Equals[word]}}

(* All symbols named are in the list, or as many as it may have. *)
Holds(s, word) == NamedBy(word) \subseteq KeysIn(s) \/ Cardinality(NamedBy(word) \intersect KeysIn(s)) >= MaxResults

(* The first identifier has still to be looked up. *)
Awaits(a) == a.lexical = <<>> /\ a.candidates # <<>> /\ Head(a.candidates) = a.first
             /\ Equals[a.first] \subseteq Containing[a.first]

FirstIsFound(a) ==
  (a.first # NoPlace /\ "symbols" \notin a.failed /\ a.pc # "idle") =>
    /\ a.pc \in {"search", "expand"} => Awaits(a)
    /\ a.pc = "symbols" => Awaits(a) \/ Holds(a.lexical, a.first)
    /\ a.pc \in {"calls", "merge"} => Holds(a.lexical, a.first)
    /\ a.pc \in {"overview", "generate", "answered"} /\ ~a.palette => Holds(a.found, a.first)
    /\ a.pc = "refused" /\ ~a.palette /\ "llm" \notin a.failed => NamedBy(a.first) = {}

AskPlaces == {"idle", "search", "expand", "symbols", "calls", "merge", "overview", "generate",
              "answered", "refused"}

(* Where a request is and what it has are of their kinds.                  *)
Typed(a) ==
  /\ a.pc \in AskPlaces /\ a.palette \in BOOLEAN /\ a.overview \in BOOLEAN
  /\ \A r \in ToSet(a.found) : RowKind(r)
  /\ \A r \in ToSet(a.lexical) : RowKind(r)
  /\ a.failed \subseteq {"search", "expand", "symbols", "calls", "overview", "llm"}

SoundAsk(a) == AskShape(a) /\ Typed(a) /\ Gathered(a) /\ Settled(a) /\ FirstIsFound(a) /\ KeepsSeen(a)

AnswerInv == index \in Indexes /\ disk \in DiskStates /\ SoundAsk(ask)

-----------------------------------------------------------------------------
LEMMA NothingAsked == AskShape(NoAsk) /\ SoundAsk(NoAsk)
  <1>1. NoAsk.pc = "idle" /\ NoAsk.lexical = <<>>
    BY DEF NoAsk
  <1>2. AskShape(NoAsk)
    <2>1. IsList(<<>>) /\ Len(<<>>) = 0 /\ ToSet(<<>>) = {}
      BY EmptyList
    <2> QED
      BY <2>1, AnsweringAssumption DEF AskShape, NoAsk
  <1>3. Typed(NoAsk)
    BY EmptyList DEF Typed, AskPlaces, NoAsk
  <1> QED
    BY <1>1, <1>2, <1>3 DEF SoundAsk, Gathered, Settled, FirstIsFound, KeepsSeen, NoAsk

LEMMA AnswerInitInv == AnswerInit => AnswerInv
  BY NothingAsked DEF AnswerInit, AnswerInv

(* The candidates are identifiers of the question. *)
LEMMA CandidatesAreAsked ==
  ASSUME NEW q \in Questions
  PROVE  IsList(CandidatesOf(q)) /\ ToSet(CandidatesOf(q)) \subseteq ToSet(q.dotted \o q.plain)
  <1> DEFINE s == q.dotted \o q.plain
             S == {i \in DOMAIN s : s[i] \notin Useless}
             t == OnlyAt(s, S)
             u == Distinct(t)
             c == Take(u, MaxCandidates)
  <1>1. IsList(q.dotted) /\ IsList(q.plain)
    BY AnsweringAssumption
  <1>2. IsList(s)
    BY <1>1, ListsJoined
  <1>3. CandidatesOf(q) = c
    BY DEF CandidatesOf, Where
  <1>4. S \in SUBSET DOMAIN s
    OBVIOUS
  <1> HIDE DEF s, S
  <1>5. Keeps(t, s, InOrder(S), S)
    BY <1>2, <1>4, OnlyAtKeeps
  <1>6. IsList(t) /\ ToSet(t) \subseteq ToSet(s)
    <2>1. ToSet(t) = {s[i] : i \in S}
      BY <1>5, KeptRows
    <2> QED
      BY <1>4, <1>5, <2>1 DEF Keeps, ToSet
  <1> HIDE DEF t
  <1>7. IsList(u) /\ ToSet(u) \subseteq ToSet(t)
    BY <1>6, DistinctList
  <1> HIDE DEF u
  <1>8. IsList(c) /\ \A i \in DOMAIN c : i \in DOMAIN u /\ c[i] = u[i]
    BY <1>7, ListTaken, AnsweringAssumption
  <1> HIDE DEF c
  <1>9. ToSet(c) \subseteq ToSet(u)
    BY <1>8 DEF ToSet
  <1> QED
    BY <1>3, <1>6, <1>7, <1>8, <1>9 DEF s
(* A request whose results are what they were. *)
Same(a, b) == b.found = a.found /\ b.lexical = a.lexical /\ b.first = a.first /\ b.palette = a.palette
              /\ b.overview = a.overview /\ b.seen = a.seen

LEMMA AskedIsSound ==
  ASSUME NEW q \in Questions, NEW b,
         LET c == CandidatesOf(q) IN
         b = [NoAsk EXCEPT !.pc = "search", !.palette = q.palette, !.overview = q.overview,
                           !.candidates = c, !.first = IF c = <<>> THEN NoPlace ELSE Head(c)]
  PROVE  SoundAsk(b)
  <1> DEFINE c == CandidatesOf(q)
  <1>1. IsList(c) /\ ToSet(c) \subseteq ToSet(q.dotted \o q.plain)
    BY CandidatesAreAsked
  <1> HIDE DEF c
  <1>2. /\ b.pc = "search" /\ b.palette = q.palette /\ b.overview = q.overview /\ b.candidates = c
        /\ b.first = (IF c = <<>> THEN NoPlace ELSE Head(c)) /\ b.hits = <<>> /\ b.seen = {}
        /\ b.found = <<>> /\ b.lexical = <<>> /\ b.failed = {}
    BY DEF NoAsk, c
  <1>3. b \in [pc : {b.pc}, palette : {b.palette}, overview : {b.overview}, first : {b.first},
               candidates : {b.candidates}, hits : {b.hits}, seen : {b.seen}, found : {b.found},
               lexical : {b.lexical}, failed : {b.failed}]
    BY DEF NoAsk
  <1>4. IsList(<<>>) /\ Len(<<>>) = 0 /\ ToSet(<<>>) = {}
    BY EmptyList
  <1>5. AskShape(b)
    BY <1>1, <1>2, <1>3, <1>4, AnsweringAssumption DEF AskShape
  <1>6. Gathered(b) /\ Settled(b)
    BY <1>2, <1>4 DEF Gathered, Settled
  <1>7. FirstIsFound(b)
    <2> SUFFICES ASSUME b.first # NoPlace PROVE Awaits(b)
      BY <1>2 DEF FirstIsFound
    <2>1. c # <<>> /\ b.first = Head(c)
      BY <1>2
    <2>2. Head(c) \in ToSet(c)
      <3>1. Len(c) \in Nat /\ DOMAIN c = 1..Len(c) /\ c \in Seq(ToSet(c))
        BY <1>1, ListShape DEF IsList
      <3> DEFINE T == ToSet(c)
      <3> HIDE DEF T
      <3> QED
        BY <2>1, <3>1 DEF T
    <2>3. Equals[b.first] \subseteq Containing[b.first]
      BY <1>1, <2>1, <2>2, AnsweringAssumption
    <2> QED
      BY <1>2, <2>1, <2>3 DEF Awaits
  <1>8. Typed(b)
    BY <1>2, <1>4, AnsweringAssumption DEF Typed, AskPlaces
  <1> QED
    BY <1>2, <1>5, <1>6, <1>7, <1>8 DEF SoundAsk, KeepsSeen

LEMMA HitsAreSound ==
  ASSUME NEW a, SoundAsk(a), a.pc = "search", NEW hits \in Hits, NEW b, b = [a EXCEPT !.pc = "expand", !.hits = hits]
  PROVE  SoundAsk(b)
  <1>1. AskShape(a)
    BY DEF SoundAsk
  <1>2. /\ Same(a, b) /\ b.pc = "expand" /\ b.hits = hits /\ b.candidates = a.candidates /\ b.failed = a.failed
    BY <1>1 DEF AskShape, Same
  <1>3. AskShape(b)
    BY <1>1, <1>2, AnsweringAssumption DEF AskShape, Same
  <1>4. Gathered(b) /\ Settled(b)
    BY <1>2 DEF SoundAsk, Gathered, Settled, Same
  <1>5. FirstIsFound(b)
    BY <1>2 DEF SoundAsk, FirstIsFound, Awaits, Same
  <1>6. Typed(b)
    BY <1>2 DEF SoundAsk, Typed, AskPlaces, Same
  <1>7. KeepsSeen(b)
    BY <1>2 DEF SoundAsk, KeepsSeen, Same
  <1> QED
    BY <1>3, <1>4, <1>5, <1>6, <1>7 DEF SoundAsk

LEMMA NoHitsAreSound ==
  ASSUME NEW a, SoundAsk(a), a.pc = "search", NEW b, b = [a EXCEPT !.pc = "symbols", !.failed = @ \union {"search"}]
  PROVE  SoundAsk(b)
  <1>1. AskShape(a)
    BY DEF SoundAsk
  <1>2. /\ Same(a, b) /\ b.pc = "symbols" /\ b.hits = a.hits /\ b.candidates = a.candidates
        /\ b.failed = a.failed \union {"search"}
    BY <1>1 DEF AskShape, Same
  <1>3. AskShape(b)
    BY <1>1, <1>2 DEF AskShape, Same
  <1>4. Gathered(b) /\ Settled(b)
    BY <1>2 DEF SoundAsk, Gathered, Settled, Same
  <1>5. FirstIsFound(b)
    BY <1>2 DEF SoundAsk, FirstIsFound, Awaits, Same
  <1>6. Typed(b)
    BY <1>2 DEF SoundAsk, Typed, AskPlaces, Same
  <1>7. KeepsSeen(b)
    BY <1>2 DEF SoundAsk, KeepsSeen, Same
  <1> QED
    BY <1>3, <1>4, <1>5, <1>6, <1>7 DEF SoundAsk

(* The head of a list is one of its members, and so are those of the tail. *)
LEMMA ListTail ==
  ASSUME NEW s, IsList(s), s # <<>>
  PROVE  IsList(Tail(s)) /\ ToSet(Tail(s)) \subseteq ToSet(s) /\ Head(s) \in ToSet(s)
  <1> DEFINE T == ToSet(s)
  <1>1. s \in Seq(T)
    BY DEF IsList
  <1> HIDE DEF T
  <1>2. Tail(s) \in Seq(T) /\ Head(s) \in T
    BY <1>1
  <1> QED
    BY <1>2, ListOf DEF T

(* The first hit is dealt with: one result more, or none.                  *)
Expanded(a, b, seen, found, failed) ==
  /\ b = [a EXCEPT !.hits = Tail(@), !.seen = seen, !.found = found, !.failed = failed]
  /\ failed \in {a.failed, a.failed \union {"expand"}}
  /\ \/ found = a.found /\ (seen = a.seen \/ "expand" \in failed)
     \/ \E r : found = Append(a.found, r) /\ IsSemantic(r) /\ seen = a.seen \union {KeyOf(r)}

LEMMA HitIsExpanded ==
  ASSUME NEW a, SoundAsk(a), a.pc = "expand", a.hits # <<>>, NEW seen, NEW found, NEW failed, NEW b,
         Expanded(a, b, seen, found, failed)
  PROVE  SoundAsk(b)
  <1> USE DEF Expanded
  <1>1. AskShape(a)
    BY DEF SoundAsk
  <1>2. /\ b.pc = "expand" /\ b.hits = Tail(a.hits) /\ b.candidates = a.candidates /\ b.lexical = a.lexical
        /\ b.failed = failed /\ b.found = found /\ b.first = a.first /\ b.palette = a.palette /\ b.seen = seen
        /\ b.overview = a.overview
    BY <1>1 DEF AskShape
  <1>3. b \in [pc : {b.pc}, palette : {b.palette}, overview : {b.overview}, first : {b.first},
               candidates : {b.candidates}, hits : {b.hits}, seen : {b.seen}, found : {b.found},
               lexical : {b.lexical}, failed : {b.failed}]
    BY <1>1, <1>2 DEF AskShape
  <1>4. IsList(b.hits) /\ ToSet(b.hits) \subseteq ToSet(a.hits)
    BY <1>1, <1>2, ListTail DEF AskShape
  <1>5. IsList(found) /\ \A r \in ToSet(found) : r \in ToSet(a.found) \/ IsSemantic(r)
    <2>1. IsList(a.found)
      BY <1>1 DEF AskShape
    <2>2. CASE found = a.found
      BY <2>1, <2>2
    <2>3. CASE \E r : found = Append(a.found, r) /\ IsSemantic(r)
      <3>1. PICK r : found = Append(a.found, r) /\ IsSemantic(r)
        BY <2>3
      <3> QED
        BY <2>1, <3>1, ListAppended
    <2> QED
      BY <2>2, <2>3
  <1>6. AskShape(b)
    BY <1>1, <1>2, <1>3, <1>4, <1>5 DEF AskShape
  <1>7. Gathered(b) /\ Settled(b)
    BY <1>2, <1>5 DEF SoundAsk, Gathered, Settled
  <1>8. FirstIsFound(b)
    BY <1>2 DEF SoundAsk, FirstIsFound, Awaits
  <1>9. Typed(b)
    BY <1>2, <1>5 DEF SoundAsk, Typed, AskPlaces, IsSemantic
  <1>10. KeepsSeen(b)
    <2> SUFFICES ASSUME "expand" \notin failed PROVE seen \subseteq KeysIn(found)
      BY <1>2 DEF KeepsSeen
    <2>1. a.seen \subseteq KeysIn(a.found)
      BY DEF SoundAsk, KeepsSeen
    <2>2. ASSUME NEW r, found = Append(a.found, r), seen = a.seen \union {KeyOf(r)}
          PROVE  seen \subseteq KeysIn(found)
      <3>1. ToSet(found) = ToSet(a.found) \union {r}
        BY <1>1, <2>2, ListAppended DEF AskShape
      <3> QED
        BY <2>1, <2>2, <3>1 DEF KeysIn
    <2> QED
      BY <2>1, <2>2
  <1> QED
    BY <1>6, <1>7, <1>8, <1>9, <1>10 DEF SoundAsk

LEMMA ExpandedIsSound ==
  ASSUME NEW a, SoundAsk(a), a.pc = "expand", NEW b, b = [a EXCEPT !.pc = IF a.palette THEN "answered" ELSE "symbols"]
  PROVE  SoundAsk(b)
  <1>1. AskShape(a)
    BY DEF SoundAsk
  <1>2. /\ Same(a, b) /\ b.hits = a.hits /\ b.candidates = a.candidates /\ b.failed = a.failed
        /\ b.pc = (IF a.palette THEN "answered" ELSE "symbols")
    BY <1>1 DEF AskShape, Same
  <1>3. AskShape(b)
    BY <1>1, <1>2 DEF AskShape, Same
  <1>4. Gathered(b) /\ Settled(b)
    BY <1>2 DEF SoundAsk, Gathered, Settled, Same
  <1>5. FirstIsFound(b)
    BY <1>2 DEF SoundAsk, FirstIsFound, Awaits, Same
  <1>6. Typed(b)
    BY <1>2 DEF SoundAsk, Typed, AskPlaces, Same
  <1>7. KeepsSeen(b)
    BY <1>2 DEF SoundAsk, KeepsSeen, Same
  <1> QED
    BY <1>3, <1>4, <1>5, <1>6, <1>7 DEF SoundAsk
-----------------------------------------------------------------------------
(* As many keys as rows, when no two rows have the same. *)
LEMMA KeysCounted ==
  ASSUME NEW s, IsList(s), \A m, n \in DOMAIN s : KeyOf(s[m]) = KeyOf(s[n]) => m = n
  PROVE  IsFiniteSet(KeysIn(s)) /\ Cardinality(KeysIn(s)) = Len(s)
  <1> DEFINE K == KeysIn(s)
             f == [i \in 1..Len(s) |-> KeyOf(s[i])]
  <1>1. Len(s) \in Nat /\ DOMAIN s = 1..Len(s)
    BY ListShape
  <1>2. K = {KeyOf(s[i]) : i \in 1..Len(s)}
    BY <1>1 DEF KeysIn, ToSet
  <1> HIDE DEF K
  <1>3. f \in [1..Len(s) -> K]
    BY <1>2
  <1>4. \A m, n \in 1..Len(s) : f[m] = f[n] => m = n
    BY <1>1
  <1>5. \A k \in K : \E i \in 1..Len(s) : f[i] = k
    BY <1>2
  <1> HIDE DEF f
  <1>6. f \in Bijection(1..Len(s), K)
    <2>1. f \in Injection(1..Len(s), K)
      BY <1>3, <1>4 DEF Injection, IsInjective
    <2>2. f \in Surjection(1..Len(s), K)
      BY <1>3, <1>5 DEF Surjection
    <2> QED
      BY <2>1, <2>2 DEF Bijection
  <1>7. IsFiniteSet(1..Len(s)) /\ Cardinality(1..Len(s)) = Len(s)
    <2> DEFINE n == Len(s)
    <2>1. n \in Nat
      BY <1>1
    <2> HIDE DEF n
    <2>2. IsFiniteSet(1..n) /\ Cardinality(1..n) = n
      BY <2>1, FS_Interval
    <2> QED
      BY <2>2 DEF n
  <1>8. ExistsBijection(1..Len(s), K)
    BY <1>6 DEF ExistsBijection
  <1> QED
    BY <1>7, <1>8, FS_Bijection DEF K

(* The text shown of an indexed symbol is within the lines cited.          *)
LEMMA LinesShown ==
  ASSUME index \in Indexes, disk \in DiskStates, NEW s \in ToSet(index.symbols), NEW r,
         r.path = s.path, r.cited = <<s.start, s.end>>, r.shown = SourceLines(s)
  PROVE  ShowsWhatItCites(r)
  <1>1. s.start \in Int /\ s.end \in Int /\ disk[s.path] \in Nat /\ MaxSnippet \in Nat \ {0}
    BY AnsweringAssumption
  <1>2. r.cited[1] = s.start /\ r.cited[2] = s.end
    OBVIOUS
  <1> DEFINE last == IF s.end < s.start THEN s.start ELSE s.end
             there == IF last > disk[s.path] THEN disk[s.path] ELSE last
             end == IF there - s.start + 1 > MaxSnippet THEN s.start + MaxSnippet - 1 ELSE there
  <1>3. CASE s.start < 1 \/ s.start > disk[s.path]
    <2>1. r.shown = <<>> /\ s.start \notin 1..disk[s.path]
      BY <1>1, <1>3 DEF SourceLines
    <2> QED
      BY <1>2, <2>1 DEF ShowsWhatItCites
  <1>4. CASE ~(s.start < 1 \/ s.start > disk[s.path])
    <2>1. r.shown = <<s.start, end>>
      BY <1>4 DEF SourceLines
    <2>2. s.start <= there /\ there <= disk[s.path] /\ there \in Int /\ (there <= s.end \/ there = s.start)
      BY <1>1, <1>4
    <2> HIDE DEF there
    <2>3. /\ s.start <= end /\ end <= disk[s.path] /\ end - s.start < MaxSnippet
          /\ end <= s.end \/ end = s.start
      BY <1>1, <2>2
    <2> HIDE DEF end
    <2>4. r.shown # <<>> /\ r.shown[1] = s.start /\ r.shown[2] = end
      BY <2>1
    <2> QED
      BY <1>2, <2>3, <2>4 DEF ShowsWhatItCites
  <1> QED
    BY <1>3, <1>4

(* Rows named exactly come before the others. *)
ExactBefore(s, Name(_), word) ==
  \A i, p \in DOMAIN s : i < p /\ Name(s[p]) \in Equals[word] => Name(s[i]) \in Equals[word]

SymbolOf(r) == r.symbol

NameOf(s) == s.name

(* The symbols whose name contains it, and among them, first, those it is. *)
LEMMA SymbolsListed ==
  ASSUME index \in Indexes, NEW word
  PROVE  LET rows == ExactFirst(ListSymbols(word), word)
         IN  /\ IsList(rows) /\ ToSet(rows) \subseteq ToSet(index.symbols)
             /\ ExactBefore(rows, NameOf, word)
             /\ Equals[word] \subseteq Containing[word] =>
                  \A s \in ToSet(index.symbols) : s.name \in Equals[word] => s \in ToSet(rows)
  <1> DEFINE S == {i \in DOMAIN index.symbols : index.symbols[i].name \in Containing[word]}
             t == ListSymbols(word)
             E == {i \in DOMAIN t : t[i].name \in Equals[word]}
             O == {i \in DOMAIN t : t[i].name \notin Equals[word]}
             exact == OnlyAt(t, E)
             unlike == OnlyAt(t, O)
             rows == exact \o unlike
  <1>1. IsList(index.symbols)
    BY AnsweringAssumption
  <1>2. t = OnlyAt(index.symbols, S)
    BY DEF ListSymbols, Where
  <1>3. ExactFirst(t, word) = rows
    BY DEF ExactFirst, Where
  <1>4. S \in SUBSET DOMAIN index.symbols
    OBVIOUS
  <1> HIDE DEF t
  <1>5. Keeps(t, index.symbols, InOrder(S), S)
    <2> HIDE DEF S
    <2> QED
      BY <1>1, <1>2, <1>4, OnlyAtKeeps
  <1>6. IsList(t) /\ ToSet(t) = {index.symbols[i] : i \in S}
    <2> DEFINE at == InOrder(S)
    <2>1. Keeps(t, index.symbols, at, S)
      BY <1>5
    <2> HIDE DEF S, at
    <2>2. ToSet(t) = {index.symbols[i] : i \in S}
      BY <2>1, KeptRows
    <2> QED
      BY <2>1, <2>2 DEF Keeps
  <1>7. E \in SUBSET DOMAIN t /\ O \in SUBSET DOMAIN t
    OBVIOUS
  <1>8. \A i \in E : t[i].name \in Equals[word]
    OBVIOUS
  <1>9. \A i \in O : t[i].name \notin Equals[word]
    OBVIOUS
  <1>10. \A i \in DOMAIN t : t[i].name \in Equals[word] => i \in E
    OBVIOUS
  <1> HIDE DEF E, O, exact, unlike
  <1>11. Keeps(exact, t, InOrder(E), E) /\ Keeps(unlike, t, InOrder(O), O)
    <2>1. Keeps(exact, t, InOrder(E), E)
      BY <1>6, <1>7, OnlyAtKeeps DEF exact
    <2>2. Keeps(unlike, t, InOrder(O), O)
      BY <1>6, <1>7, OnlyAtKeeps DEF unlike
    <2> QED
      BY <2>1, <2>2
  <1>12. /\ IsList(exact) /\ ToSet(exact) = {t[i] : i \in E}
         /\ IsList(unlike) /\ ToSet(unlike) = {t[i] : i \in O}
    <2>1. IsList(exact) /\ IsList(unlike)
      BY <1>11 DEF Keeps
    <2>2. ToSet(exact) = {t[i] : i \in E}
      BY <1>11, KeptRows
    <2>3. ToSet(unlike) = {t[i] : i \in O}
      BY <1>11, KeptRows
    <2> QED
      BY <2>1, <2>2, <2>3
  <1> HIDE DEF rows
  <1>13. /\ IsList(rows) /\ ToSet(rows) = ToSet(exact) \union ToSet(unlike)
         /\ Len(rows) = Len(exact) + Len(unlike)
         /\ \A i \in DOMAIN exact : i \in DOMAIN rows /\ rows[i] = exact[i]
         /\ \A i \in DOMAIN rows \ DOMAIN exact : i - Len(exact) \in DOMAIN unlike /\ rows[i] = unlike[i - Len(exact)]
    BY <1>12, ListsJoined DEF rows
  <1>14. /\ Len(exact) \in Nat /\ DOMAIN exact = 1..Len(exact) /\ \A i \in DOMAIN exact : exact[i] \in ToSet(exact)
         /\ \A i \in DOMAIN unlike : unlike[i] \in ToSet(unlike)
         /\ Len(rows) \in Nat /\ DOMAIN rows = 1..Len(rows)
    BY <1>12, <1>13, ListShape
  <1>15. \A i \in DOMAIN rows : rows[i].name \in Equals[word] <=> i \in DOMAIN exact
    <2> TAKE i \in DOMAIN rows
    <2>1. CASE i \in DOMAIN exact
      BY <1>8, <1>12, <1>13, <1>14, <2>1
    <2>2. CASE i \notin DOMAIN exact
      BY <1>9, <1>12, <1>13, <1>14, <2>2
    <2> QED
      BY <2>1, <2>2
  <1>16. ExactBefore(rows, NameOf, word)
    <2> SUFFICES ASSUME NEW i \in DOMAIN rows, NEW p \in DOMAIN rows, i < p, rows[p].name \in Equals[word]
                 PROVE  rows[i].name \in Equals[word]
      BY DEF ExactBefore, NameOf
    <2>1. p \in 1..Len(exact) /\ i \in 1..Len(rows)
      BY <1>14, <1>15
    <2>2. i \in 1..Len(exact)
      BY <2>1, <1>14
    <2> QED
      BY <2>2, <1>14, <1>15
  <1>17. ToSet(rows) \subseteq ToSet(index.symbols)
    <2>1. ToSet(t) \subseteq ToSet(index.symbols)
      BY <1>4, <1>6 DEF ToSet
    <2>2. ToSet(exact) \subseteq ToSet(t) /\ ToSet(unlike) \subseteq ToSet(t)
      BY <1>7, <1>12 DEF ToSet
    <2> QED
      BY <1>13, <2>1, <2>2
  <1>18. ASSUME Equals[word] \subseteq Containing[word], NEW s \in ToSet(index.symbols), s.name \in Equals[word]
         PROVE  s \in ToSet(rows)
    <2>1. PICK i \in DOMAIN index.symbols : s = index.symbols[i]
      BY DEF ToSet
    <2>2. i \in S
      BY <2>1, <1>18
    <2>3. s \in ToSet(t)
      BY <2>1, <2>2, <1>6
    <2>4. PICK j \in DOMAIN t : s = t[j]
      BY <2>3 DEF ToSet
    <2>5. j \in E
      BY <2>4, <1>10, <1>18
    <2> QED
      BY <2>4, <2>5, <1>12, <1>13
  <1> QED
    BY <1>3, <1>13, <1>16, <1>17, <1>18 DEF t
(* What the lookup of an identifier adds to the results. *)
ResultsOf(word) ==
  LET rows == ExactFirst(ListSymbols(word), word)
  IN  [i \in DOMAIN rows |-> SymbolResult(rows[i])]

FreshOf(word, lexical) ==
  LET fresh(r) == KeyOf(r) \notin KeysIn(lexical) IN Where(ResultsOf(word), fresh)

FoundFor(word, lexical, room) == Take(DistinctBy(FreshOf(word, lexical), KeyOf), room)

LEMMA ResultsAreLexical ==
  ASSUME index \in Indexes, disk \in DiskStates, NEW word
  PROVE  /\ IsList(ResultsOf(word)) /\ \A r \in ToSet(ResultsOf(word)) : IsLexical(r)
         /\ ExactBefore(ResultsOf(word), SymbolOf, word)
         /\ \A r \in ToSet(ResultsOf(word)) : r.symbol \in Equals[word] => KeyOf(r) \in NamedBy(word)
         /\ Equals[word] \subseteq Containing[word] => NamedBy(word) \subseteq KeysIn(ResultsOf(word))
  <1> DEFINE rows == ExactFirst(ListSymbols(word), word)
             results == ResultsOf(word)
  <1>1. /\ IsList(rows) /\ ToSet(rows) \subseteq ToSet(index.symbols)
        /\ ExactBefore(rows, NameOf, word)
        /\ Equals[word] \subseteq Containing[word] =>
             \A s \in ToSet(index.symbols) : s.name \in Equals[word] => s \in ToSet(rows)
    BY SymbolsListed
  <1>2. results = [i \in DOMAIN rows |-> SymbolResult(rows[i])]
    BY DEF ResultsOf
  <1> HIDE DEF rows, results
  <1>3. Len(rows) \in Nat /\ DOMAIN rows = 1..Len(rows) /\ \A i \in DOMAIN rows : rows[i] \in ToSet(index.symbols)
    BY <1>1, ListShape
  <1>4. DOMAIN results = DOMAIN rows
    BY <1>2
  <1>5. IsList(results)
    <2>1. DOMAIN results = 1..Len(rows) /\ results = [i \in 1..Len(rows) |-> results[i]]
      BY <1>2, <1>3
    <2> QED
      BY <2>1, <1>3, ListOfFunction
  <1>6. \A i \in DOMAIN rows : /\ results[i].symbol = rows[i].name /\ results[i].path = rows[i].path
                               /\ results[i].origin = "lexical" /\ results[i].shown = SourceLines(rows[i])
                               /\ results[i].cited = <<rows[i].start, rows[i].end>>
                               /\ KeyOf(results[i]) = <<rows[i].name, rows[i].path>>
    BY <1>2 DEF SymbolResult, Result, KeyOf
  <1>7. \A i \in DOMAIN rows : IsLexical(results[i])
    <2> SUFFICES ASSUME NEW i \in DOMAIN rows PROVE IsLexical(results[i])
      OBVIOUS
    <2> DEFINE s == rows[i]
               r == results[i]
               l == SourceLines(s)
    <2>1. /\ s \in ToSet(index.symbols) /\ r.symbol = s.name /\ r.path = s.path /\ r.origin = "lexical"
          /\ r.shown = l /\ r.cited = <<s.start, s.end>>
      BY <1>3, <1>6
    <2>2. s.path # NoPlace
      BY <2>1, AnsweringAssumption
    <2> HIDE DEF s, r
    <2>3. ShowsWhatItCites(r)
      BY <2>1, LinesShown
    <2>7. Citation(r) = [symbol |-> s.name, path |-> s.path, start |-> s.start, end |-> s.end]
      BY <2>1 DEF Citation
    <2>4. l = <<>> \/ \E first, last : l = <<first, last>>
      BY DEF SourceLines
    <2> HIDE DEF l
    <2>5. RowKind(r)
      BY <2>1, <2>4 DEF RowKind
    <2>6. IsLexical(r)
      BY <2>1, <2>2, <2>3, <2>5, <2>7 DEF IsLexical
    <2> QED
      BY <2>6 DEF r
  <1>8. \A r \in ToSet(results) : IsLexical(r)
    BY <1>4, <1>7 DEF ToSet
  <1>9. ExactBefore(results, SymbolOf, word)
    BY <1>1, <1>4, <1>6 DEF ExactBefore, SymbolOf, NameOf
  <1>10. \A r \in ToSet(results) : r.symbol \in Equals[word] => KeyOf(r) \in NamedBy(word)
    <2> SUFFICES ASSUME NEW i \in DOMAIN rows, results[i].symbol \in Equals[word] PROVE KeyOf(results[i]) \in NamedBy(word)
      BY <1>4 DEF ToSet
    <2> QED
      BY <1>3, <1>6 DEF NamedBy
  <1>11. ASSUME Equals[word] \subseteq Containing[word] PROVE NamedBy(word) \subseteq KeysIn(results)
    <2> SUFFICES ASSUME NEW s \in ToSet(index.symbols), s.name \in Equals[word]
                 PROVE  <<s.name, s.path>> \in KeysIn(results)
      BY DEF NamedBy
    <2>1. PICK i \in DOMAIN rows : s = rows[i]
      BY <1>1, <1>11 DEF ToSet
    <2> QED
      BY <2>1, <1>4, <1>6 DEF KeysIn, ToSet
  <1> QED
    BY <1>5, <1>8, <1>9, <1>10, <1>11 DEF results

LEMMA FreshAreLexical ==
  ASSUME index \in Indexes, disk \in DiskStates, NEW word, NEW lexical
  PROVE  LET t == FreshOf(word, lexical)
         IN  /\ IsList(t) /\ ToSet(t) \subseteq ToSet(ResultsOf(word)) /\ ExactBefore(t, SymbolOf, word)
             /\ lexical = <<>> => KeysIn(t) = KeysIn(ResultsOf(word))
  <1> DEFINE s == ResultsOf(word)
             S == {i \in DOMAIN s : KeyOf(s[i]) \notin KeysIn(lexical)}
             t == FreshOf(word, lexical)
             at == InOrder(S)
  <1>1. t = OnlyAt(s, S)
    BY DEF FreshOf, Where
  <1>2. IsList(s) /\ ExactBefore(s, SymbolOf, word)
    BY ResultsAreLexical
  <1>3. S \in SUBSET DOMAIN s
    OBVIOUS
  <1>4. lexical = <<>> => S = DOMAIN s
    BY EmptyList DEF KeysIn
  <1> HIDE DEF s, S, t, at
  <1>5. Keeps(t, s, at, S)
    BY <1>1, <1>2, <1>3, OnlyAtKeeps DEF at
  <1>6. /\ DOMAIN t = 1..Cardinality(S) /\ \A n \in DOMAIN t : at[n] \in S /\ t[n] = s[at[n]]
        /\ ToSet(t) = {s[i] : i \in S}
    BY <1>5, KeptRows
  <1>7. \A m, n \in DOMAIN t : m < n => at[m] < at[n]
    BY <1>5, <1>6 DEF Keeps, Lists
  <1>8. ExactBefore(t, SymbolOf, word)
    BY <1>2, <1>3, <1>6, <1>7 DEF ExactBefore
  <1>9. ToSet(t) \subseteq ToSet(s) /\ IsList(t)
    BY <1>3, <1>5, <1>6 DEF ToSet, Keeps
  <1>10. lexical = <<>> => KeysIn(t) = KeysIn(s)
    <2>1. lexical = <<>> => ToSet(t) = ToSet(s)
      BY <1>4, <1>6 DEF ToSet
    <2> QED
      BY <2>1 DEF KeysIn
  <1> QED
    BY <1>8, <1>9, <1>10 DEF s, t

(* As long as nothing was found before, the symbols named are among the    *)
(* results, or there is no room for more of them.                          *)
LEMMA FoundAreLexical ==
  ASSUME index \in Indexes, disk \in DiskStates, NEW word, NEW lexical, NEW room \in Nat
  PROVE  LET kept == FoundFor(word, lexical, room)
         IN  /\ IsList(kept) /\ Len(kept) <= room /\ \A r \in ToSet(kept) : IsLexical(r)
             /\ (lexical = <<>> /\ room >= MaxResults /\ Equals[word] \subseteq Containing[word]) => Holds(kept, word)
  <1> DEFINE results == ResultsOf(word)
             t == FreshOf(word, lexical)
             d == DistinctBy(t, KeyOf)
             kept == Take(d, room)
  <1>1. FoundFor(word, lexical, room) = kept
    BY DEF FoundFor
  <1>2. /\ \A r \in ToSet(results) : IsLexical(r)
        /\ \A r \in ToSet(results) : r.symbol \in Equals[word] => KeyOf(r) \in NamedBy(word)
        /\ Equals[word] \subseteq Containing[word] => NamedBy(word) \subseteq KeysIn(results)
    BY ResultsAreLexical
  <1>3. /\ IsList(t) /\ ToSet(t) \subseteq ToSet(results) /\ ExactBefore(t, SymbolOf, word)
        /\ lexical = <<>> => KeysIn(t) = KeysIn(results)
    BY FreshAreLexical
  <1> HIDE DEF results, t
  <1>4. /\ IsList(d) /\ KeysIn(d) = KeysIn(t) /\ ToSet(d) \subseteq ToSet(t)
        /\ \A m, n \in DOMAIN d : KeyOf(d[m]) = KeyOf(d[n]) => m = n
        /\ \E at : /\ \A n \in DOMAIN d : at[n] \in DOMAIN t /\ d[n] = t[at[n]]
                   /\ \A m, n \in DOMAIN d : m < n => at[m] < at[n]
    BY <1>3, DistinctKeys
  <1> HIDE DEF d
  <1>5. ExactBefore(d, SymbolOf, word)
    <2>1. PICK at : /\ \A n \in DOMAIN d : at[n] \in DOMAIN t /\ d[n] = t[at[n]]
                    /\ \A m, n \in DOMAIN d : m < n => at[m] < at[n]
      BY <1>4
    <2> QED
      BY <2>1, <1>3 DEF ExactBefore
  <1>6. /\ IsList(kept) /\ Len(kept) = (IF Len(d) > room THEN room ELSE Len(d))
        /\ \A i \in DOMAIN kept : i \in DOMAIN d /\ kept[i] = d[i]
    BY <1>4, ListTaken
  <1> HIDE DEF kept
  <1>7. Len(d) \in Nat /\ DOMAIN d = 1..Len(d) /\ DOMAIN kept = 1..Len(kept)
    BY <1>4, <1>6, ListShape
  <1>8. ToSet(kept) \subseteq ToSet(results)
    <2>1. ToSet(kept) \subseteq ToSet(d)
      BY <1>6 DEF ToSet
    <2> QED
      BY <2>1, <1>3, <1>4
  <1>9. Len(kept) <= room
    BY <1>6, <1>7
  <1>10. ASSUME lexical = <<>>, room >= MaxResults, Equals[word] \subseteq Containing[word], ~(NamedBy(word) \subseteq KeysIn(kept))
         PROVE  Cardinality(NamedBy(word) \intersect KeysIn(kept)) >= MaxResults
    <2>1. PICK k \in NamedBy(word) : k \notin KeysIn(kept)
      BY <1>10
    <2>2. k \in KeysIn(d)
      BY <2>1, <1>2, <1>3, <1>4, <1>10
    <2>3. PICK p \in DOMAIN d : KeyOf(d[p]) = k
      BY <2>2 DEF KeysIn, ToSet
    <2>4. p \notin DOMAIN kept
      BY <2>1, <2>3, <1>6 DEF KeysIn, ToSet
    <2>5. Len(kept) = room /\ \A i \in DOMAIN kept : i < p
      <3>1. p \in 1..Len(d) /\ p \notin 1..Len(kept)
        BY <2>3, <2>4, <1>7
      <3>2. \A n, m \in Nat : m = (IF n > room THEN room ELSE n) /\ p \in 1..n /\ p \notin 1..m
               => m = room /\ \A i \in 1..m : i < p
        OBVIOUS
      <3>3. Len(kept) \in Nat /\ Len(kept) = (IF Len(d) > room THEN room ELSE Len(d))
        BY <1>6, ListShape
      <3>4. Len(kept) = room /\ \A i \in 1..Len(kept) : i < p
        BY <3>1, <3>2, <3>3, <1>7
      <3> QED
        BY <3>4, <1>7
    <2>6. d[p].symbol \in Equals[word]
      <3>1. PICK s \in ToSet(index.symbols) : s.name \in Equals[word] /\ k = <<s.name, s.path>>
        BY <2>1 DEF NamedBy
      <3> QED
        BY <3>1, <2>3 DEF KeyOf
    <2>7. \A i \in DOMAIN kept : kept[i].symbol \in Equals[word]
      BY <2>5, <2>6, <2>3, <1>5, <1>6 DEF ExactBefore, SymbolOf
    <2>8. KeysIn(kept) \subseteq NamedBy(word)
      <3>1. \A i \in DOMAIN kept : KeyOf(kept[i]) \in NamedBy(word)
        BY <2>7, <1>2, <1>8 DEF ToSet
      <3> QED
        BY <3>1 DEF KeysIn, ToSet
    <2>9. \A m, n \in DOMAIN kept : KeyOf(kept[m]) = KeyOf(kept[n]) => m = n
      BY <1>4, <1>6
    <2>10. Cardinality(KeysIn(kept)) = room
      BY <2>5, <2>9, <1>6, KeysCounted
    <2>11. NamedBy(word) \intersect KeysIn(kept) = KeysIn(kept)
      BY <2>8
    <2> QED
      BY <2>10, <2>11, <1>10
  <1> QED
    BY <1>1, <1>2, <1>6, <1>8, <1>9, <1>10 DEF Holds
-----------------------------------------------------------------------------
LEMMA KeysAreFinite ==
  ASSUME NEW s, IsList(s)
  PROVE  IsFiniteSet(KeysIn(s))
  <1> DEFINE K == KeysIn(s)
             f == [i \in 1..Len(s) |-> KeyOf(s[i])]
  <1>1. Len(s) \in Nat /\ DOMAIN s = 1..Len(s)
    BY ListShape
  <1>2. K = {KeyOf(s[i]) : i \in 1..Len(s)}
    BY <1>1 DEF KeysIn, ToSet
  <1> HIDE DEF K
  <1>3. f \in [1..Len(s) -> K] /\ \A k \in K : \E i \in 1..Len(s) : f[i] = k
    BY <1>2
  <1> HIDE DEF f
  <1>4. f \in Surjection(1..Len(s), K)
    BY <1>3 DEF Surjection
  <1>5. IsFiniteSet(1..Len(s))
    BY <1>1, FS_Interval
  <1> QED
    BY <1>4, <1>5, FS_Surjection DEF K

(* What a list holds, a longer one does. *)
LEMMA HoldsOn ==
  ASSUME NEW s, NEW t, IsList(t), KeysIn(s) \subseteq KeysIn(t), NEW word, Holds(s, word)
  PROVE  Holds(t, word)
  <1> DEFINE K == KeysIn(s)
             L == KeysIn(t)
             N == NamedBy(word)
  <1>1. IsFiniteSet(L)
    BY KeysAreFinite
  <1>2. K \subseteq L /\ (N \subseteq K \/ Cardinality(N \intersect K) >= MaxResults)
    BY DEF Holds
  <1> HIDE DEF K, L, N
  <1>3. IsFiniteSet(N \intersect L) /\ N \intersect K \in SUBSET (N \intersect L)
    <2>1. N \intersect L \in SUBSET L
      OBVIOUS
    <2> QED
      BY <1>1, <1>2, <2>1, FS_Subset
  <1> DEFINE A == N \intersect K
             B == N \intersect L
  <1>4. IsFiniteSet(A) /\ Cardinality(A) <= Cardinality(B)
    <2> HIDE DEF A, B
    <2> QED
      BY <1>3, FS_Subset DEF A, B
  <1>5. Cardinality(A) \in Nat /\ Cardinality(B) \in Nat
    <2> HIDE DEF A, B
    <2> QED
      BY <1>3, <1>4, FS_CardinalityType DEF B
  <1> HIDE DEF A, B
  <1>6. N \subseteq L \/ Cardinality(B) >= MaxResults
    BY <1>2, <1>4, <1>5, AnsweringAssumption DEF A
  <1> QED
    BY <1>6 DEF Holds, B, L, N

LEMMA KeysJoined ==
  ASSUME NEW s, IsList(s), NEW t, IsList(t)
  PROVE  IsList(s \o t) /\ KeysIn(s \o t) = KeysIn(s) \union KeysIn(t)
  <1>1. IsList(s \o t) /\ ToSet(s \o t) = ToSet(s) \union ToSet(t)
    BY ListsJoined
  <1> QED
    BY <1>1 DEF KeysIn

(* More lexical results, found within the room there is. *)
LEMMA LexicalGrows ==
  ASSUME NEW a, AskShape(a), Gathered(a), a.pc \in {"symbols", "calls"},
         NEW kept, IsList(kept), Len(kept) <= MaxResults - Len(a.lexical), \A r \in ToSet(kept) : IsLexical(r)
  PROVE  LET t == a.lexical \o kept
         IN  /\ IsList(t) /\ Len(t) <= MaxResults /\ \A r \in ToSet(t) : IsLexical(r)
             /\ KeysIn(a.lexical) \subseteq KeysIn(t) /\ KeysIn(kept) \subseteq KeysIn(t)
  <1> DEFINE l == a.lexical
             t == l \o kept
  <1>1. IsList(l) /\ \A r \in ToSet(l) : IsLexical(r)
    BY DEF AskShape, Gathered
  <1>2. Len(l) \in Nat /\ Len(kept) \in Nat /\ Len(kept) <= MaxResults - Len(l) /\ MaxResults \in Nat
    BY <1>1, ListShape, AnsweringAssumption
  <1> HIDE DEF l
  <1>3. IsList(t) /\ ToSet(t) = ToSet(l) \union ToSet(kept) /\ Len(t) = Len(l) + Len(kept)
    BY <1>1, ListsJoined
  <1>4. KeysIn(t) = KeysIn(l) \union KeysIn(kept)
    BY <1>1, KeysJoined
  <1> HIDE DEF t
  <1> QED
    BY <1>1, <1>2, <1>3, <1>4 DEF l, t

(* The first identifier is looked up among the symbols, or that fails.     *)
LookedUp(a, b, lexical, failed) ==
  /\ b = [a EXCEPT !.pc = "calls", !.lexical = lexical, !.failed = failed]
  /\ \/ /\ lexical = a.lexical \o FoundFor(Head(a.candidates), a.lexical, MaxResults - Len(a.lexical))
        /\ failed = a.failed
     \/ lexical = a.lexical /\ failed = a.failed \union {"symbols"}

LEMMA SymbolsAreSound ==
  ASSUME index \in Indexes, disk \in DiskStates, NEW a, SoundAsk(a), a.pc = "symbols", a.candidates # <<>>,
         NEW lexical, NEW failed, NEW b, LookedUp(a, b, lexical, failed)
  PROVE  SoundAsk(b)
  <1> USE DEF LookedUp
  <1> DEFINE word == Head(a.candidates)
             room == MaxResults - Len(a.lexical)
             kept == FoundFor(word, a.lexical, room)
  <1>1. AskShape(a) /\ Gathered(a)
    BY DEF SoundAsk
  <1>2. /\ b.pc = "calls" /\ b.hits = a.hits /\ b.candidates = a.candidates /\ b.lexical = lexical
        /\ b.failed = failed /\ b.found = a.found /\ b.first = a.first /\ b.palette = a.palette /\ b.seen = a.seen
        /\ b.overview = a.overview
    BY <1>1 DEF AskShape
  <1>3. b \in [pc : {b.pc}, palette : {b.palette}, overview : {b.overview}, first : {b.first},
               candidates : {b.candidates}, hits : {b.hits}, seen : {b.seen}, found : {b.found},
               lexical : {b.lexical}, failed : {b.failed}]
    BY <1>1, <1>2 DEF AskShape
  <1>4. room \in Nat /\ (a.lexical = <<>> => room = MaxResults)
    <2>1. IsList(a.lexical) /\ Len(a.lexical) <= MaxResults
      BY <1>1 DEF AskShape
    <2>2. Len(a.lexical) \in Nat
      BY <2>1, ListShape
    <2>3. a.lexical = <<>> => Len(a.lexical) = 0
      BY EmptyList
    <2> QED
      BY <2>1, <2>2, <2>3, AnsweringAssumption
  <1>5. /\ IsList(kept) /\ Len(kept) <= room /\ \A r \in ToSet(kept) : IsLexical(r)
        /\ (a.lexical = <<>> /\ Equals[word] \subseteq Containing[word]) => Holds(kept, word)
    <2>1. MaxResults >= MaxResults
      BY AnsweringAssumption
    <2>2. a.lexical = <<>> => room >= MaxResults
      BY <1>4, <2>1
    <2> DEFINE l == a.lexical
    <2> HIDE DEF word, room, l
    <2> QED
      BY <1>4, <2>2, FoundAreLexical DEF l
  <1>6. /\ IsList(lexical) /\ Len(lexical) <= MaxResults /\ \A r \in ToSet(lexical) : IsLexical(r)
        /\ KeysIn(a.lexical) \subseteq KeysIn(lexical)
        /\ "symbols" \notin failed => KeysIn(kept) \subseteq KeysIn(lexical)
    <2>1. CASE lexical = a.lexical \o kept
      <3> HIDE DEF kept, word
      <3> QED
        BY <1>1, <1>5, <2>1, LexicalGrows
    <2>2. CASE lexical = a.lexical /\ "symbols" \in failed
      BY <1>1, <2>2 DEF AskShape, Gathered
    <2> QED
      BY <2>1, <2>2
  <1> HIDE DEF kept, word, room
  <1>7. AskShape(b)
    BY <1>1, <1>2, <1>3, <1>6 DEF AskShape
  <1>8. Gathered(b) /\ Settled(b)
    BY <1>1, <1>2, <1>6 DEF Gathered, Settled
  <1>9. FirstIsFound(b)
    <2> SUFFICES ASSUME a.first # NoPlace, "symbols" \notin failed PROVE Holds(lexical, a.first)
      BY <1>2 DEF FirstIsFound
    <2>1. "symbols" \notin a.failed
      OBVIOUS
    <2>2. Awaits(a) \/ Holds(a.lexical, a.first)
      BY <2>1 DEF SoundAsk, FirstIsFound
    <2>3. CASE Awaits(a)
      <3>1. a.lexical = <<>> /\ word = a.first /\ Equals[word] \subseteq Containing[word]
        BY <2>3 DEF Awaits, word
      <3>2. Holds(kept, word)
        BY <3>1, <1>5
      <3> QED
        BY <3>1, <3>2, <1>6, HoldsOn
    <2>4. CASE Holds(a.lexical, a.first)
      <3> DEFINE l == a.lexical
                 w == a.first
      <3>1. Holds(l, w) /\ KeysIn(l) \subseteq KeysIn(lexical) /\ IsList(lexical)
        BY <2>4, <1>6
      <3> HIDE DEF l, w
      <3>2. Holds(lexical, w)
        BY <3>1, HoldsOn
      <3> QED
        BY <3>2 DEF w
    <2> QED
      BY <2>2, <2>3, <2>4
  <1>10. Typed(b)
    BY <1>2, <1>6 DEF SoundAsk, Typed, AskPlaces, IsLexical
  <1>11. KeepsSeen(b)
    BY <1>2 DEF SoundAsk, KeepsSeen
  <1> QED
    BY <1>7, <1>8, <1>9, <1>10, <1>11 DEF SoundAsk
-----------------------------------------------------------------------------
(* A result for each name called by the rows, in some order, as many as    *)
(* there is room for.                                                      *)
GroupOf(rows, n) == {c \in rows : c.callee = n}

CallResults(rows, kept) ==
  [i \in DOMAIN kept |-> Result(kept[i], NoPlace, "lexical", NoLines, <<>>, GroupOf(rows, kept[i]))]

LEMMA CallsAreLexical ==
  ASSUME index \in Indexes, NEW word, NEW rows \in CallRows(word), NEW fresh \in SUBSET {c.callee : c \in rows},
         NEW order \in SetToSeqs(fresh), NEW room \in Nat
  PROVE  LET t == CallResults(rows, Take(order, room))
         IN  IsList(t) /\ Len(t) <= room /\ \A r \in ToSet(t) : IsLexical(r)
  <1> DEFINE kept == Take(order, room)
             t == CallResults(rows, kept)
             names == {c.callee : c \in rows}
  <1>1. IsFiniteSet(fresh)
    <2>1. IsFiniteSet(index.calls) /\ rows \in SUBSET index.calls
      BY AnsweringAssumption DEF CallRows
    <2>2. IsFiniteSet(rows)
      BY <2>1, FS_Subset
    <2> DEFINE f == [c \in rows |-> c.callee]
    <2>3. f \in [rows -> names] /\ \A n \in names : \E c \in rows : f[c] = n
      OBVIOUS
    <2>4. fresh \in SUBSET names
      OBVIOUS
    <2> HIDE DEF f, names
    <2>5. f \in Surjection(rows, names)
      BY <2>3 DEF Surjection
    <2>6. IsFiniteSet(names)
      BY <2>2, <2>5, FS_Surjection
    <2> QED
      BY <2>4, <2>6, FS_Subset
  <1>2. Cardinality(fresh) \in Nat
    BY <1>1, FS_CardinalityType
  <1>3. order \in [1..Cardinality(fresh) -> fresh]
    BY DEF SetToSeqs
  <1>4. IsList(order)
    <2>1. order \in Seq(fresh)
      BY <1>2, <1>3
    <2> QED
      BY <2>1, ListOf
  <1>5. DOMAIN order = 1..Cardinality(fresh)
    BY <1>3
  <1>6. /\ IsList(kept) /\ Len(kept) = (IF Len(order) > room THEN room ELSE Len(order))
        /\ \A i \in DOMAIN kept : i \in DOMAIN order /\ kept[i] = order[i]
    BY <1>4, ListTaken
  <1> HIDE DEF kept
  <1>7. \A i \in DOMAIN kept : kept[i] \in fresh
    BY <1>3, <1>5, <1>6
  <1>8. Len(kept) \in Nat /\ Len(order) \in Nat /\ DOMAIN kept = 1..Len(kept)
    BY <1>4, <1>6, ListShape
  <1>9. t = [i \in DOMAIN kept |-> Result(kept[i], NoPlace, "lexical", NoLines, <<>>, GroupOf(rows, kept[i]))]
    BY DEF CallResults
  <1> HIDE DEF t
  <1>10. IsList(t) /\ Len(t) = Len(kept)
    <2>1. DOMAIN t = 1..Len(kept) /\ t = [i \in 1..Len(kept) |-> t[i]]
      BY <1>8, <1>9
    <2> QED
      BY <2>1, <1>8, ListOfFunction
  <1>11. \A i \in DOMAIN t : IsLexical(t[i])
    <2> SUFFICES ASSUME NEW i \in DOMAIN kept PROVE IsLexical(t[i])
      BY <1>9
    <2> DEFINE n == kept[i]
               r == t[i]
    <2>1. /\ r.origin = "lexical" /\ r.path = NoPlace /\ r.symbol = n /\ r.cited = NoLines /\ r.shown = <<>>
          /\ r.edges = {<<c.caller, c.callee>> : c \in GroupOf(rows, n)}
      BY <1>9 DEF Result
    <2>2. \E c \in rows : c.callee = n
      BY <1>7
    <2> HIDE DEF n, r
    <2>3. r.edges # {} /\ \A e \in r.edges : e[2] = r.symbol
      <3>1. \A c \in GroupOf(rows, n) : c.callee = r.symbol
        BY <2>1 DEF GroupOf
      <3>2. GroupOf(rows, n) # {}
        BY <2>2 DEF GroupOf
      <3> DEFINE G == GroupOf(rows, n)
      <3> HIDE DEF G
      <3>3. r.edges = {<<c.caller, c.callee>> : c \in G} /\ G # {} /\ \A c \in G : c.callee = r.symbol
        BY <2>1, <3>1, <3>2 DEF G
      <3> DEFINE E == r.edges
                 m == r.symbol
      <3>4. E = {<<c.caller, c.callee>> : c \in G} /\ G # {} /\ \A c \in G : c.callee = m
        BY <3>3
      <3> HIDE DEF E, m
      <3>5. E # {}
        <4>1. PICK c \in G : TRUE
          BY <3>4
        <4> QED
          BY <3>4, <4>1
      <3>6. \A e \in E : e[2] = m
        <4> TAKE e \in E
        <4>1. PICK c \in G : e = <<c.caller, c.callee>>
          BY <3>4
        <4> QED
          BY <3>4, <4>1
      <3> QED
        BY <3>5, <3>6 DEF E, m
    <2>4. IsLexical(r)
      BY <2>1, <2>3 DEF IsLexical, RowKind, NoLines
    <2> QED
      BY <2>4 DEF r
  <1>12. Len(t) <= room
    BY <1>6, <1>8, <1>10
  <1>13. \A r \in ToSet(t) : IsLexical(r)
    BY <1>11 DEF ToSet
  <1> QED
    BY <1>10, <1>12, <1>13 DEF t, kept

(* The names called that have been found before.                           *)
TakenNames(lexical) == {k[1] : k \in {k \in KeysIn(lexical) : k[2] = NoPlace}}

FreshNames(rows, lexical) == {c.callee : c \in rows} \ TakenNames(lexical)

CalledBy(a, b, rows, order) ==
  b = NextCandidate([a EXCEPT !.lexical = @ \o CallResults(rows, Take(order, MaxResults - Len(a.lexical)))])

CallsAdded(a, b) ==
  \E rows \in CallRows(Head(a.candidates)) :
    \E order \in SetToSeqs(FreshNames(rows, a.lexical)) : CalledBy(a, b, rows, order)

(* The results kept are added, or the search for calls fails.              *)
CallsTaken(a, b, kept, lexical, failed) ==
  /\ b = [a EXCEPT !.pc = "symbols", !.candidates = Tail(@), !.lexical = lexical, !.failed = failed]
  /\ lexical \in {a.lexical, a.lexical \o kept} /\ failed \in {a.failed, a.failed \union {"calls"}}

LEMMA CallsAreSound ==
  ASSUME NEW a, SoundAsk(a), a.pc = "calls",
         NEW kept, IsList(kept), Len(kept) <= MaxResults - Len(a.lexical), \A r \in ToSet(kept) : IsLexical(r),
         NEW lexical, NEW failed, NEW b, CallsTaken(a, b, kept, lexical, failed)
  PROVE  SoundAsk(b)
  <1> USE DEF CallsTaken
  <1>1. AskShape(a) /\ Gathered(a)
    BY DEF SoundAsk
  <1>2. /\ b.pc = "symbols" /\ b.hits = a.hits /\ b.candidates = Tail(a.candidates) /\ b.lexical = lexical
        /\ b.failed = failed /\ b.found = a.found /\ b.first = a.first /\ b.palette = a.palette /\ b.seen = a.seen
        /\ b.overview = a.overview
    BY <1>1 DEF AskShape
  <1>3. b \in [pc : {b.pc}, palette : {b.palette}, overview : {b.overview}, first : {b.first},
               candidates : {b.candidates}, hits : {b.hits}, seen : {b.seen}, found : {b.found},
               lexical : {b.lexical}, failed : {b.failed}]
    BY <1>1, <1>2 DEF AskShape
  <1>4. IsList(Tail(a.candidates))
    <2>1. IsList(a.candidates) /\ a.candidates # <<>>
      BY <1>1 DEF AskShape
    <2> DEFINE c == a.candidates
    <2> HIDE DEF c
    <2>2. IsList(Tail(c))
      BY <2>1, ListTail DEF c
    <2> QED
      BY <2>2 DEF c
  <1>5. /\ IsList(lexical) /\ Len(lexical) <= MaxResults /\ \A r \in ToSet(lexical) : IsLexical(r)
        /\ KeysIn(a.lexical) \subseteq KeysIn(lexical)
    <2>1. CASE lexical = a.lexical \o kept
      BY <1>1, <2>1, LexicalGrows
    <2>2. CASE lexical = a.lexical
      BY <1>1, <2>2 DEF AskShape, Gathered
    <2> QED
      BY <2>1, <2>2
  <1>6. AskShape(b)
    BY <1>1, <1>2, <1>3, <1>4, <1>5 DEF AskShape
  <1>7. Gathered(b) /\ Settled(b)
    BY <1>1, <1>2, <1>5 DEF Gathered, Settled
  <1>8. FirstIsFound(b)
    <2> SUFFICES ASSUME a.first # NoPlace, "symbols" \notin failed PROVE Holds(lexical, a.first)
      BY <1>2 DEF FirstIsFound
    <2> DEFINE l == a.lexical
               w == a.first
    <2>1. Holds(l, w) /\ KeysIn(l) \subseteq KeysIn(lexical) /\ IsList(lexical)
      BY <1>5 DEF SoundAsk, FirstIsFound
    <2> HIDE DEF l, w
    <2>2. Holds(lexical, w)
      BY <2>1, HoldsOn
    <2> QED
      BY <2>2 DEF w
  <1>9. Typed(b)
    BY <1>2, <1>5 DEF SoundAsk, Typed, AskPlaces, IsLexical
  <1>10. KeepsSeen(b)
    BY <1>2 DEF SoundAsk, KeepsSeen
  <1> QED
    BY <1>6, <1>7, <1>8, <1>9, <1>10 DEF SoundAsk

LEMMA LexicalIsSound ==
  ASSUME NEW a, SoundAsk(a), NEW b, b = [a EXCEPT !.pc = "merge"],
         \/ a.pc = "symbols" /\ (a.candidates = <<>> \/ MaxResults - Len(a.lexical) = 0)
         \/ a.pc = "calls"
  PROVE  SoundAsk(b)
  <1>1. AskShape(a)
    BY DEF SoundAsk
  <1>2. Same(a, b) /\ b.pc = "merge" /\ b.hits = a.hits /\ b.candidates = a.candidates /\ b.failed = a.failed
    BY <1>1 DEF AskShape, Same
  <1>3. AskShape(b)
    BY <1>1, <1>2 DEF AskShape, Same
  <1>4. Gathered(b) /\ Settled(b)
    BY <1>2 DEF SoundAsk, Gathered, Settled, Same
  <1>5. FirstIsFound(b)
    <2> SUFFICES ASSUME a.first # NoPlace, "symbols" \notin a.failed PROVE Holds(a.lexical, a.first)
      BY <1>2 DEF FirstIsFound, Same
    <2>1. ~Awaits(a) \/ a.pc = "calls"
      <3> SUFFICES ASSUME Awaits(a), a.pc = "symbols" PROVE FALSE
        OBVIOUS
      <3>1. a.lexical = <<>> /\ MaxResults - Len(a.lexical) = 0
        BY DEF Awaits
      <3> QED
        BY <3>1, EmptyList, AnsweringAssumption
    <2> QED
      BY <2>1 DEF SoundAsk, FirstIsFound
  <1>6. Typed(b)
    BY <1>2 DEF SoundAsk, Typed, AskPlaces, Same
  <1>7. KeepsSeen(b)
    BY <1>2 DEF SoundAsk, KeepsSeen, Same
  <1> QED
    BY <1>3, <1>4, <1>5, <1>6, <1>7 DEF SoundAsk
LEMMA MergedIsSound ==
  ASSUME NEW a, SoundAsk(a), a.pc = "merge", NEW b,
         LET results == Merged(a.found, a.lexical) IN
         b = [a EXCEPT !.found = results,
                       !.pc = IF a.palette THEN "answered"
                              ELSE IF "search" \in a.failed /\ results = <<>> THEN "refused"
                              ELSE IF a.overview THEN "overview" ELSE "generate"]
  PROVE  SoundAsk(b)
  <1> DEFINE all == a.found \o a.lexical
             results == Merged(a.found, a.lexical)
  <1>1. AskShape(a) /\ Gathered(a)
    BY DEF SoundAsk
  <1>2. IsList(a.found) /\ IsList(a.lexical)
    BY <1>1 DEF AskShape
  <1>3. IsList(all) /\ KeysIn(all) = KeysIn(a.found) \union KeysIn(a.lexical) /\ ToSet(all) = ToSet(a.found) \union ToSet(a.lexical)
    BY <1>2, KeysJoined, ListsJoined
  <1>4. results = DistinctBy(all, KeyOf)
    BY DEF Merged
  <1> HIDE DEF all, results
  <1>5. /\ IsList(results) /\ KeysIn(results) = KeysIn(all) /\ ToSet(results) \subseteq ToSet(all)
        /\ \A m, n \in DOMAIN results : KeyOf(results[m]) = KeyOf(results[n]) => m = n
    BY <1>3, <1>4, DistinctKeys
  <1>6. /\ b.pc = (IF a.palette THEN "answered" ELSE IF "search" \in a.failed /\ results = <<>> THEN "refused"
                   ELSE IF a.overview THEN "overview" ELSE "generate")
        /\ b.hits = a.hits /\ b.candidates = a.candidates /\ b.lexical = a.lexical /\ b.failed = a.failed
        /\ b.found = results /\ b.first = a.first /\ b.palette = a.palette /\ b.seen = a.seen /\ b.overview = a.overview
    BY <1>1 DEF AskShape, results
  <1>7. b \in [pc : {b.pc}, palette : {b.palette}, overview : {b.overview}, first : {b.first},
               candidates : {b.candidates}, hits : {b.hits}, seen : {b.seen}, found : {b.found},
               lexical : {b.lexical}, failed : {b.failed}]
    BY <1>1, <1>6 DEF AskShape, results
  <1>8. AskShape(b) /\ Gathered(b)
    BY <1>1, <1>5, <1>6, <1>7 DEF AskShape, Gathered
  <1>9. \A r \in ToSet(results) : r \in ToSet(a.found) \/ r \in ToSet(a.lexical)
    BY <1>3, <1>5
  <1>10. Settled(b)
    <2> SUFFICES ASSUME b.pc \in {"overview", "generate", "answered"}, ~b.palette
                 PROVE  /\ \A r \in ToSet(results) : IsSemantic(r) \/ IsLexical(r) \/ IsOverview(r)
                        /\ CitedOnce(results)
                        /\ "search" \in a.failed => /\ \E r \in ToSet(results) : r.origin = "lexical"
                                                    /\ \A r \in ToSet(results) : r.origin # "semantic"
      BY <1>6 DEF Settled
    <2>1. \A r \in ToSet(results) : IsSemantic(r) \/ IsLexical(r)
      BY <1>1, <1>9 DEF Gathered
    <2>2. CitedOnce(results)
      BY <1>5 DEF CitedOnce
    <2>3. ASSUME "search" \in a.failed PROVE results # <<>> /\ ToSet(results) \subseteq ToSet(a.lexical)
      <3>1. results # <<>> /\ a.found = <<>>
        BY <1>1, <1>6, <2>3 DEF Gathered
      <3> QED
        BY <3>1, <1>9, EmptyList
    <2>4. ASSUME "search" \in a.failed
          PROVE  (\E r \in ToSet(results) : r.origin = "lexical") /\ \A r \in ToSet(results) : r.origin # "semantic"
      <3>1. results # <<>> /\ \A r \in ToSet(results) : r.origin = "lexical"
        BY <1>1, <2>3, <2>4 DEF Gathered, IsLexical
      <3>2. Head(results) \in ToSet(results)
        BY <3>1, <1>5, ListTail
      <3> QED
        BY <3>1, <3>2
    <2> QED
      BY <2>1, <2>2, <2>4
  <1>11. FirstIsFound(b)
    <2> SUFFICES ASSUME a.first # NoPlace, "symbols" \notin a.failed
                 PROVE  /\ Holds(results, a.first)
                        /\ results = <<>> => NamedBy(a.first) = {}
      BY <1>6 DEF FirstIsFound
    <2> DEFINE l == a.lexical
               w == a.first
    <2>1. Holds(l, w) /\ KeysIn(l) \subseteq KeysIn(results) /\ IsList(results)
      BY <1>3, <1>5 DEF SoundAsk, FirstIsFound
    <2> HIDE DEF l, w
    <2>2. Holds(results, w)
      BY <2>1, HoldsOn
    <2>3. ASSUME results = <<>> PROVE NamedBy(w) = {}
      <3>1. KeysIn(results) = {}
        BY <2>3, EmptyList DEF KeysIn
      <3>2. NamedBy(w) \intersect KeysIn(results) = {} /\ Cardinality({}) = 0
        BY <3>1, FS_EmptySet
      <3>3. ~(Cardinality(NamedBy(w) \intersect KeysIn(results)) >= MaxResults)
        <4>1. MaxResults \in Nat \ {0} /\ ~(0 >= MaxResults)
          BY AnsweringAssumption
        <4> QED
          BY <3>2, <4>1
      <3> QED
        BY <3>1, <3>3, <2>2 DEF Holds
    <2> QED
      BY <2>2, <2>3 DEF w
  <1>12. Typed(b)
    BY <1>6, <1>9 DEF SoundAsk, Typed, AskPlaces
  <1>13. KeepsSeen(b)
    BY <1>3, <1>5, <1>6 DEF SoundAsk, KeepsSeen
  <1> QED
    BY <1>8, <1>10, <1>11, <1>12, <1>13 DEF SoundAsk

(* The overview is added, or that fails.                                   *)
Overviewed(a, b, found, failed) ==
  /\ b = [a EXCEPT !.pc = "generate", !.found = found, !.failed = failed]
  /\ found \in {a.found, Append(a.found, Result(Overview, RepoId, Overview, NoLines, <<>>, {}))}
  /\ failed \in {a.failed, a.failed \union {"overview"}}

LEMMA OverviewIsSound ==
  ASSUME NEW a, SoundAsk(a), a.pc = "overview", NEW found, NEW failed, NEW b, Overviewed(a, b, found, failed)
  PROVE  SoundAsk(b)
  <1> USE DEF Overviewed
  <1> DEFINE r == Result(Overview, RepoId, Overview, NoLines, <<>>, {})
  <1>1. AskShape(a)
    BY DEF SoundAsk
  <1>2. /\ b.pc = "generate" /\ b.hits = a.hits /\ b.candidates = a.candidates /\ b.lexical = a.lexical
        /\ b.failed = failed /\ b.found = found /\ b.first = a.first /\ b.palette = a.palette /\ b.seen = a.seen
        /\ b.overview = a.overview
    BY <1>1 DEF AskShape
  <1>3. b \in [pc : {b.pc}, palette : {b.palette}, overview : {b.overview}, first : {b.first},
               candidates : {b.candidates}, hits : {b.hits}, seen : {b.seen}, found : {b.found},
               lexical : {b.lexical}, failed : {b.failed}]
    BY <1>1, <1>2 DEF AskShape
  <1>4. IsList(a.found)
    BY <1>1 DEF AskShape
  <1>5. IsOverview(r) /\ ~Citable(r)
    BY AnsweringAssumption DEF IsOverview, RowKind, Citable, Result, NoLines
  <1>6. /\ IsList(Append(a.found, r)) /\ ToSet(Append(a.found, r)) = ToSet(a.found) \union {r}
        /\ Len(Append(a.found, r)) = Len(a.found) + 1
        /\ \A i \in DOMAIN a.found : i \in DOMAIN Append(a.found, r) /\ Append(a.found, r)[i] = a.found[i]
        /\ Append(a.found, r)[Len(a.found) + 1] = r
    BY <1>4, ListAppended
  <1> HIDE DEF r
  <1>7. AskShape(b)
    <2>1. IsList(found)
      BY <1>4, <1>6 DEF r
    <2> QED
      BY <1>1, <1>2, <1>3, <2>1 DEF AskShape
  <1>8. Gathered(b)
    BY <1>2 DEF Gathered
  <1>9. Settled(b)
    <2>1. CASE found = a.found
      BY <1>2, <2>1 DEF SoundAsk, Settled
    <2>2. CASE found = Append(a.found, r)
      <3>1. ToSet(found) = ToSet(a.found) \union {r}
        BY <2>2, <1>6
      <3>2. ASSUME CitedOnce(a.found) PROVE CitedOnce(found)
        <4>1. \A i \in DOMAIN found : Citable(found[i]) => i \in DOMAIN a.found /\ found[i] = a.found[i]
          <5>1. DOMAIN a.found = 1..Len(a.found) /\ DOMAIN found = 1..(Len(a.found) + 1) /\ Len(a.found) \in Nat
            <6>1. Len(found) = Len(a.found) + 1 /\ IsList(found)
              BY <2>2, <1>6
            <6>2. DOMAIN found = 1..Len(found)
              BY <6>1, ListShape
            <6> QED
              BY <6>1, <6>2, <1>4, ListShape
          <5>2. \A i \in DOMAIN found : i \in DOMAIN a.found \/ i = Len(a.found) + 1
            BY <5>1
          <5> QED
            BY <5>2, <2>2, <1>5, <1>6
        <4> QED
          BY <3>2, <4>1 DEF CitedOnce
      <3>3. r.origin # "semantic"
        BY <1>5, AnsweringAssumption DEF IsOverview
      <3> QED
        BY <1>2, <1>5, <3>1, <3>2, <3>3 DEF SoundAsk, Settled
    <2> QED
      BY <2>1, <2>2 DEF r
  <1>10. FirstIsFound(b)
    <2> SUFFICES ASSUME a.first # NoPlace, "symbols" \notin failed, ~a.palette PROVE Holds(found, a.first)
      BY <1>2 DEF FirstIsFound
    <2> DEFINE l == a.found
               w == a.first
    <2>1. Holds(l, w)
      BY DEF SoundAsk, FirstIsFound
    <2>2. KeysIn(l) \subseteq KeysIn(found) /\ IsList(found)
      BY <1>4, <1>6 DEF r, KeysIn
    <2> HIDE DEF l, w
    <2>3. Holds(found, w)
      BY <2>1, <2>2, HoldsOn
    <2> QED
      BY <2>3 DEF w
  <1>11. Typed(b)
    <2>1. RowKind(r)
      BY <1>5 DEF IsOverview
    <2>2. found = a.found \/ ToSet(found) = ToSet(a.found) \union {r}
      BY <1>6 DEF r
    <2>3. \A q \in ToSet(found) : RowKind(q)
      <3>1. \A q \in ToSet(a.found) : RowKind(q)
        BY DEF SoundAsk, Typed
      <3> QED
        BY <2>1, <2>2, <3>1
    <2> QED
      BY <1>2, <2>3 DEF SoundAsk, Typed, AskPlaces
  <1>12. KeepsSeen(b)
    <2>1. KeysIn(a.found) \subseteq KeysIn(found)
      BY <1>6 DEF r, KeysIn
    <2> QED
      BY <1>2, <2>1 DEF SoundAsk, KeepsSeen
  <1> QED
    BY <1>7, <1>8, <1>9, <1>10, <1>11, <1>12 DEF SoundAsk

LEMMA GeneratedIsSound ==
  ASSUME NEW a, SoundAsk(a), a.pc = "generate", NEW b,
         \/ b = [a EXCEPT !.pc = "answered"]
         \/ b = [a EXCEPT !.pc = "refused", !.failed = @ \union {"llm"}]
  PROVE  SoundAsk(b)
  <1>1. AskShape(a)
    BY DEF SoundAsk
  <1>2. /\ Same(a, b) /\ b.hits = a.hits /\ b.candidates = a.candidates
        /\ \/ b.pc = "answered" /\ b.failed = a.failed
           \/ b.pc = "refused" /\ b.failed = a.failed \union {"llm"}
    BY <1>1 DEF AskShape, Same
  <1>3. b \in [pc : {b.pc}, palette : {b.palette}, overview : {b.overview}, first : {b.first},
               candidates : {b.candidates}, hits : {b.hits}, seen : {b.seen}, found : {b.found},
               lexical : {b.lexical}, failed : {b.failed}]
    BY <1>1, <1>2 DEF AskShape
  <1>4. AskShape(b)
    BY <1>1, <1>2, <1>3 DEF AskShape, Same
  <1>5. Gathered(b) /\ Settled(b)
    BY <1>2 DEF SoundAsk, Gathered, Settled, Same
  <1>6. FirstIsFound(b)
    BY <1>2 DEF SoundAsk, FirstIsFound, Same
  <1>7. Typed(b)
    BY <1>2 DEF SoundAsk, Typed, AskPlaces, Same
  <1>8. KeepsSeen(b)
    BY <1>2 DEF SoundAsk, KeepsSeen, Same
  <1> QED
    BY <1>4, <1>5, <1>6, <1>7, <1>8 DEF SoundAsk
-----------------------------------------------------------------------------
(* The rows and the working copy are what they were: so is what is sound.  *)
LEMMA SoundStays ==
  ASSUME NEW b, SoundAsk(b), UNCHANGED <<index, disk>>
  PROVE  SoundAsk(b)'
  <1>1. \A r : IsLexical(r)' <=> IsLexical(r)
    BY DEF IsLexical, ShowsWhatItCites
  <1>2. \A word : NamedBy(word)' = NamedBy(word)
    BY DEF NamedBy
  <1>3. \A s, word : Holds(s, word)' <=> Holds(s, word)
    BY <1>2 DEF Holds
  <1>4. AskShape(b)' <=> AskShape(b)
    BY DEF AskShape
  <1>5. Gathered(b)' <=> Gathered(b)
    BY <1>1 DEF Gathered
  <1>6. Settled(b)' <=> Settled(b)
    BY <1>1 DEF Settled
  <1>7. FirstIsFound(b)' <=> FirstIsFound(b)
    BY <1>2, <1>3 DEF FirstIsFound
  <1>8. Typed(b)' <=> Typed(b)
    BY DEF Typed
  <1>9. KeepsSeen(b)' <=> KeepsSeen(b)
    BY DEF KeepsSeen
  <1> QED
    BY <1>4, <1>5, <1>6, <1>7, <1>8, <1>9 DEF SoundAsk

LEMMA AnswerStep == AnswerInv /\ [AnswerNext]_answerVars => AnswerInv'
  <1> SUFFICES ASSUME AnswerInv, [AnswerNext]_answerVars PROVE AnswerInv'
    OBVIOUS
  <1> PICK a : a = ask
    OBVIOUS
  <1> PICK b : b = ask'
    OBVIOUS
  <1>1. index \in Indexes /\ disk \in DiskStates /\ SoundAsk(a)
    BY DEF AnswerInv
  <1>2. AskShape(a)
    BY <1>1 DEF SoundAsk
  <1>3. UNCHANGED <<index, disk>>
    BY DEF AnswerNext, answerVars, AskQuestion, SearchHits, SearchFails, ExpandHit, HitsExpanded, LookUpSymbols,
           LookUpCalls, LexicalDone, MergeResults, AddOverview, Generate
  <1>4. SUFFICES SoundAsk(b)
    <2>1. SoundAsk(b)'
      BY <1>3, <1>4, SoundStays
    <2>2. b = ask' /\ b' = b
      OBVIOUS
    <2> QED
      BY <2>1, <1>1, <1>3 DEF AnswerInv
  <1>5. CASE UNCHANGED answerVars
    BY <1>1, <1>5 DEF answerVars
  <1>6. CASE AskQuestion
    <2>1. PICK q \in Questions :
            LET c == CandidatesOf(q) IN
            b = [NoAsk EXCEPT !.pc = "search", !.palette = q.palette, !.overview = q.overview,
                              !.candidates = c, !.first = IF c = <<>> THEN NoPlace ELSE Head(c)]
      BY <1>6 DEF AskQuestion
    <2> QED
      BY <2>1, AskedIsSound
  <1>7. CASE SearchHits
    <2>1. PICK hits \in Hits : a.pc = "search" /\ b = [a EXCEPT !.pc = "expand", !.hits = hits]
      BY <1>7 DEF SearchHits
    <2> QED
      BY <2>1, <1>1, HitsAreSound
  <1>8. CASE SearchFails
    <2>1. a.pc = "search" /\ b = [a EXCEPT !.pc = "symbols", !.failed = @ \union {"search"}]
      BY <1>8 DEF SearchFails
    <2> QED
      BY <2>1, <1>1, NoHitsAreSound
  <1>9. CASE ExpandHit
    <2> PICK h : h = Head(a.hits)
      OBVIOUS
    <2>1. a.pc = "expand" /\ a.hits # <<>>
      BY <1>9 DEF ExpandHit
    <2>2. h \in ToSet(a.hits)
      <3> DEFINE s == a.hits
      <3>1. IsList(s) /\ s # <<>>
        BY <1>2, <2>1 DEF AskShape
      <3> HIDE DEF s
      <3>2. Head(s) \in ToSet(s)
        BY <3>1, ListTail
      <3> QED
        BY <3>2 DEF s
    <2>3. h = NoPlace \/ h.path # NoPlace
      BY <1>2, <2>2 DEF AskShape
    <2>4. \E seen, found, failed : Expanded(a, b, seen, found, failed)
      <3>1. CASE b = [a EXCEPT !.hits = Tail(@)]
        <4>1. b = [a EXCEPT !.hits = Tail(@), !.seen = a.seen, !.found = a.found, !.failed = a.failed]
          BY <1>2, <3>1 DEF AskShape
        <4>2. Expanded(a, b, a.seen, a.found, a.failed)
          BY <4>1 DEF Expanded
        <4> QED
          BY <4>2
      <3>2. CASE h # NoPlace /\ b = [a EXCEPT !.hits = Tail(@), !.seen = @ \union {KeyOf(h)},
                                     !.found = Append(@, HitResult(h))]
        <4> PICK r : r = HitResult(h)
          OBVIOUS
        <4>1. IsSemantic(r)
          BY <2>3, <3>2 DEF IsSemantic, RowKind, Result, HitResult
        <4>2. b = [a EXCEPT !.hits = Tail(@), !.seen = a.seen \union {KeyOf(h)}, !.found = Append(a.found, r), !.failed = a.failed]
          <5> DEFINE rest == Tail(a.hits)
                     seen == a.seen \union {KeyOf(h)}
                     found == Append(a.found, r)
          <5>1. b = [a EXCEPT !.hits = rest, !.seen = seen, !.found = found]
            BY <3>2
          <5> HIDE DEF rest, seen, found
          <5>2. b = [a EXCEPT !.hits = rest, !.seen = seen, !.found = found, !.failed = a.failed]
            BY <1>2, <5>1 DEF AskShape
          <5> QED
            BY <5>2 DEF rest, seen, found
        <4>5. KeyOf(r) = KeyOf(h)
          BY DEF KeyOf, HitResult, Result
        <4>3. Expanded(a, b, a.seen \union {KeyOf(h)}, Append(a.found, r), a.failed)
          BY <4>1, <4>2, <4>5 DEF Expanded
        <4> QED
          BY <4>3
      <3>3. CASE b = [a EXCEPT !.hits = Tail(@), !.seen = @ \union {KeyOf(h)}, !.failed = @ \union {"expand"}]
        <4>1. b = [a EXCEPT !.hits = Tail(@), !.seen = a.seen \union {KeyOf(h)}, !.found = a.found,
                            !.failed = a.failed \union {"expand"}]
          <5> DEFINE rest == Tail(a.hits)
                     seen == a.seen \union {KeyOf(h)}
                     failed == a.failed \union {"expand"}
          <5>1. b = [a EXCEPT !.hits = rest, !.seen = seen, !.failed = failed]
            BY <3>3
          <5> HIDE DEF rest, seen, failed
          <5>2. b = [a EXCEPT !.hits = rest, !.seen = seen, !.found = a.found, !.failed = failed]
            BY <1>2, <5>1 DEF AskShape
          <5> QED
            BY <5>2 DEF rest, seen, failed
        <4>2. Expanded(a, b, a.seen \union {KeyOf(h)}, a.found, a.failed \union {"expand"})
          BY <4>1 DEF Expanded
        <4> QED
          BY <4>2
      <3>4. \/ b = [a EXCEPT !.hits = Tail(@)]
            \/ /\ h # NoPlace
               /\ \/ b = [a EXCEPT !.hits = Tail(@), !.seen = @ \union {KeyOf(h)},
                                   !.found = Append(@, HitResult(h))]
                  \/ b = [a EXCEPT !.hits = Tail(@), !.seen = @ \union {KeyOf(h)}, !.failed = @ \union {"expand"}]
        BY <1>9, <1>2 DEF ExpandHit, AskShape
      <3> QED
        BY <3>1, <3>2, <3>3, <3>4
    <2> QED
      BY <2>1, <2>4, <1>1, HitIsExpanded
  <1>10. CASE HitsExpanded
    <2>1. a.pc = "expand" /\ b = [a EXCEPT !.pc = IF a.palette THEN "answered" ELSE "symbols"]
      BY <1>10 DEF HitsExpanded
    <2> QED
      BY <2>1, <1>1, ExpandedIsSound
  <1>11. CASE LookUpSymbols
    <2>1. a.pc = "symbols" /\ a.candidates # <<>>
      BY <1>11 DEF LookUpSymbols
    <2> DEFINE kept == FoundFor(Head(a.candidates), a.lexical, MaxResults - Len(a.lexical))
    <2>2. \/ b = [a EXCEPT !.pc = "calls", !.lexical = @ \o kept]
          \/ b = [a EXCEPT !.pc = "calls", !.failed = @ \union {"symbols"}]
      BY <1>11 DEF LookUpSymbols, FoundFor, FreshOf, ResultsOf, Room
    <2> HIDE DEF kept
    <2>3. \E lexical, failed : LookedUp(a, b, lexical, failed)
      <3>1. CASE b = [a EXCEPT !.pc = "calls", !.lexical = @ \o kept]
        <4>1. b = [a EXCEPT !.pc = "calls", !.lexical = a.lexical \o kept, !.failed = a.failed]
          BY <1>2, <3>1 DEF AskShape
        <4>2. LookedUp(a, b, a.lexical \o kept, a.failed)
          BY <4>1 DEF LookedUp, kept
        <4> QED
          BY <4>2
      <3>2. CASE b = [a EXCEPT !.pc = "calls", !.failed = @ \union {"symbols"}]
        <4>1. b = [a EXCEPT !.pc = "calls", !.lexical = a.lexical, !.failed = a.failed \union {"symbols"}]
          BY <1>2, <3>2 DEF AskShape
        <4>2. LookedUp(a, b, a.lexical, a.failed \union {"symbols"})
          BY <4>1 DEF LookedUp
        <4> QED
          BY <4>2
      <3> QED
        BY <2>2, <3>1, <3>2
    <2> QED
      BY <2>1, <2>3, <1>1, SymbolsAreSound
  <1>12. CASE LookUpCalls
    <2>1. a.pc = "calls" /\ MaxResults - Len(a.lexical) > 0
      BY <1>12 DEF LookUpCalls, Room
    <2>2. CallsAdded(ask, ask') \/ ask' = NextCandidate([ask EXCEPT !.failed = @ \union {"calls"}])
      BY <1>12 DEF LookUpCalls, CallsAdded, CalledBy, FreshNames, TakenNames, CallResults, GroupOf, Room
    <2> DEFINE room == MaxResults - Len(a.lexical)
               word == Head(a.candidates)
               l == a.lexical
    <2>3. room \in Nat
      <3>1. IsList(l) /\ Len(l) <= MaxResults
        BY <1>2 DEF AskShape
      <3> HIDE DEF l
      <3>2. Len(l) \in Nat
        BY <3>1, ListShape
      <3> QED
        BY <2>1, <3>1, <3>2, AnsweringAssumption DEF l
    <2>4. CASE b = NextCandidate([a EXCEPT !.failed = @ \union {"calls"}])
      <3>1. b = [a EXCEPT !.pc = "symbols", !.candidates = Tail(@), !.lexical = a.lexical, !.failed = a.failed \union {"calls"}]
        BY <1>2, <2>4 DEF NextCandidate, AskShape
      <3>2. IsList(<<>>) /\ Len(<<>>) <= MaxResults - Len(a.lexical) /\ \A r \in ToSet(<<>>) : IsLexical(r)
        BY <2>3, EmptyList
      <3> QED
        <4>1. CallsTaken(a, b, <<>>, a.lexical, a.failed \union {"calls"})
          BY <3>1 DEF CallsTaken
        <4> QED
          BY <4>1, <3>2, <2>1, <1>1, CallsAreSound
    <2>5. CASE CallsAdded(a, b)
      <3>1. PICK rows \in CallRows(word) : \E order \in SetToSeqs(FreshNames(rows, l)) : CalledBy(a, b, rows, order)
        BY <2>5 DEF CallsAdded
      <3> DEFINE fresh == FreshNames(rows, l)
      <3>2. PICK order \in SetToSeqs(fresh) : CalledBy(a, b, rows, order)
        BY <3>1
      <3> DEFINE t == CallResults(rows, Take(order, room))
      <3>3. fresh \in SUBSET {c.callee : c \in rows}
        BY DEF FreshNames
      <3>4. IsList(t) /\ Len(t) <= room /\ \A r \in ToSet(t) : IsLexical(r)
        <4> HIDE DEF fresh, room, word
        <4> QED
          BY <1>1, <2>3, <3>2, <3>3, CallsAreLexical
      <3> HIDE DEF t
      <3>5. b = [a EXCEPT !.pc = "symbols", !.candidates = Tail(@), !.lexical = a.lexical \o t, !.failed = a.failed]
        <4> DEFINE lexical == a.lexical \o t
                   rest == Tail(a.candidates)
        <4>1. b = NextCandidate([a EXCEPT !.lexical = lexical])
          BY <3>2 DEF CalledBy, t
        <4> HIDE DEF lexical
        <4>2. [a EXCEPT !.lexical = lexical].candidates = a.candidates
          BY <1>2 DEF AskShape
        <4>3. b = [[a EXCEPT !.lexical = lexical] EXCEPT !.pc = "symbols", !.candidates = rest]
          BY <4>1, <4>2 DEF NextCandidate
        <4> HIDE DEF rest
        <4>4. b = [a EXCEPT !.pc = "symbols", !.candidates = rest, !.lexical = lexical, !.failed = a.failed]
          BY <1>2, <4>3 DEF AskShape
        <4> QED
          BY <4>4 DEF lexical, rest
      <3>6. CallsTaken(a, b, t, a.lexical \o t, a.failed)
        BY <3>5 DEF CallsTaken
      <3> QED
        BY <3>4, <3>6, <2>1, <1>1, CallsAreSound
    <2> QED
      BY <2>2, <2>4, <2>5
  <1>13. CASE LexicalDone
    <2>1. /\ b = [a EXCEPT !.pc = "merge"]
          /\ \/ a.pc = "symbols" /\ (a.candidates = <<>> \/ MaxResults - Len(a.lexical) = 0)
             \/ a.pc = "calls"
      BY <1>13 DEF LexicalDone, Room
    <2> QED
      BY <2>1, <1>1, LexicalIsSound
  <1>14. CASE MergeResults
    <2>1. /\ a.pc = "merge"
          /\ LET results == Merged(a.found, a.lexical) IN
             b = [a EXCEPT !.found = results,
                           !.pc = IF a.palette THEN "answered"
                                  ELSE IF "search" \in a.failed /\ results = <<>> THEN "refused"
                                  ELSE IF a.overview THEN "overview" ELSE "generate"]
      BY <1>14 DEF MergeResults
    <2> QED
      BY <2>1, <1>1, MergedIsSound
  <1>15. CASE AddOverview
    <2> DEFINE longer == Append(a.found, Result(Overview, RepoId, Overview, NoLines, <<>>, {}))
    <2>1. /\ a.pc = "overview"
          /\ \/ b = [a EXCEPT !.pc = "generate", !.found = longer]
             \/ b = [a EXCEPT !.pc = "generate", !.failed = @ \union {"overview"}]
      BY <1>15 DEF AddOverview
    <2> HIDE DEF longer
    <2>2. \E found, failed : Overviewed(a, b, found, failed)
      <3>1. CASE b = [a EXCEPT !.pc = "generate", !.found = longer]
        <4>1. b = [a EXCEPT !.pc = "generate", !.found = longer, !.failed = a.failed]
          BY <3>1, <1>2 DEF AskShape
        <4>2. Overviewed(a, b, longer, a.failed)
          BY <4>1 DEF Overviewed, longer
        <4> QED
          BY <4>2
      <3>2. CASE b = [a EXCEPT !.pc = "generate", !.failed = @ \union {"overview"}]
        <4>1. b = [a EXCEPT !.pc = "generate", !.found = a.found, !.failed = a.failed \union {"overview"}]
          BY <3>2, <1>2 DEF AskShape
        <4>2. Overviewed(a, b, a.found, a.failed \union {"overview"})
          BY <4>1 DEF Overviewed
        <4> QED
          BY <4>2
      <3> QED
        BY <2>1, <3>1, <3>2
    <2> QED
      BY <2>1, <2>2, <1>1, OverviewIsSound
  <1>16. CASE Generate
    <2>1. /\ a.pc = "generate"
          /\ \/ b = [a EXCEPT !.pc = "answered"]
             \/ b = [a EXCEPT !.pc = "refused", !.failed = @ \union {"llm"}]
      BY <1>16 DEF Generate
    <2> QED
      BY <2>1, <1>1, GeneratedIsSound
  <1> QED
    BY <1>5, <1>6, <1>7, <1>8, <1>9, <1>10, <1>11, <1>12, <1>13, <1>14, <1>15, <1>16 DEF AnswerNext
(* Whatever fails on the way, a request keeps sound results.               *)
THEOREM AnswerInvariant == AnswerSpec => []AnswerInv
  BY AnswerInitInv, AnswerStep, PTL DEF AnswerSpec

-----------------------------------------------------------------------------
(* What is cited is cited once.                                            *)
LEMMA SourcesCitedOnce ==
  ASSUME NEW s, IsList(s), CitedOnce(s)
  PROVE  /\ Cardinality(KeysIn(SourcesOf(s))) = Len(SourcesOf(s))
         /\ \A r \in ToSet(CitedAmong(s)) : r \in ToSet(s) /\ Citable(r)
  <1> DEFINE S == {i \in DOMAIN s : Citable(s[i])}
             t == CitedAmong(s)
             u == SourcesOf(s)
             at == InOrder(S)
  <1>1. t = OnlyAt(s, S)
    BY DEF CitedAmong, Where, Citable
  <1>2. S \in SUBSET DOMAIN s /\ \A i \in S : Citable(s[i])
    OBVIOUS
  <1>9. u = [i \in DOMAIN t |-> Citation(t[i])]
    BY DEF SourcesOf
  <1> HIDE DEF S, t, at, u
  <1>3. Keeps(t, s, at, S)
    BY <1>1, <1>2, OnlyAtKeeps DEF at
  <1>4. /\ DOMAIN t = 1..Cardinality(S) /\ \A n \in DOMAIN t : at[n] \in S /\ t[n] = s[at[n]]
        /\ ToSet(t) = {s[i] : i \in S}
    BY <1>3, KeptRows
  <1>5. /\ IsList(t) /\ Cardinality(S) \in Nat
        /\ \A m, n \in DOMAIN t : m < n <=> at[m] < at[n]
    BY <1>3, <1>4 DEF Keeps, Lists
  <1>6. \A m, n \in DOMAIN t : KeyOf(t[m]) = KeyOf(t[n]) => m = n
    <2> SUFFICES ASSUME NEW m \in DOMAIN t, NEW n \in DOMAIN t, KeyOf(t[m]) = KeyOf(t[n]) PROVE m = n
      OBVIOUS
    <2>1. at[m] = at[n]
      BY <1>2, <1>4 DEF CitedOnce
    <2>2. at[n] \in Int
      <3>1. at[n] \in DOMAIN s /\ DOMAIN s = 1..Len(s)
        BY <1>2, <1>4, ListShape
      <3> QED
        BY <3>1
    <2>3. ~(m < n) /\ ~(n < m)
      BY <2>1, <2>2, <1>5
    <2> QED
      BY <2>3, <1>4, <1>5
  <1>7. Cardinality(KeysIn(u)) = Len(u)
    <2>1. IsList(u) /\ DOMAIN u = DOMAIN t
      <3>1. DOMAIN u = 1..Cardinality(S) /\ u = [i \in 1..Cardinality(S) |-> u[i]]
        BY <1>4, <1>9
      <3> QED
        BY <3>1, <1>4, <1>5, ListOfFunction
    <2>2. \A m \in DOMAIN t : KeyOf(u[m]) = KeyOf(t[m])
      BY <1>9 DEF KeyOf, Citation
    <2> QED
      BY <1>6, <2>1, <2>2, KeysCounted
  <1>8. \A r \in ToSet(t) : r \in ToSet(s) /\ Citable(r)
    BY <1>2, <1>4 DEF ToSet
  <1> QED
    BY <1>7, <1>8 DEF t, u

(* What an answer rests on, whatever failed on the way: each symbol of a   *)
(* file is cited once, all that semantic search named is there unless      *)
(* reading calls failed, a name without a place has its callers, and what  *)
(* the lexical search cites is a row of the index, with the text that the  *)
(* lines cited have in the file as it is now.                              *)
THEOREM AnswersAreGrounded == AnswerSpec => []AnswerIsGrounded
  <1>1. AnswerInv => AnswerIsGrounded
    <2> SUFFICES ASSUME AnswerInv, ask.pc = "answered", ~ask.palette
                 PROVE  LET sources == SourcesOf(ask.found) IN
                        /\ Cardinality(KeysIn(sources)) = Len(sources)
                        /\ "search" \in ask.failed => ToolsUsed(ask.found) \ {Overview} = {"lexical"}
                        /\ "expand" \notin ask.failed => ask.seen \subseteq KeysIn(ask.found)
                        /\ \A r \in ToSet(ask.found) : r.path = NoPlace =>
                             r.edges # {} /\ \A e \in r.edges : e[2] = r.symbol
                        /\ \A r \in ToSet(CitedAmong(ask.found)) : r.origin = "lexical" =>
                             /\ \E s \in ToSet(index.symbols) :
                                  Citation(r) = [symbol |-> s.name, path |-> s.path,
                                                 start |-> s.start, end |-> s.end]
                             /\ ShowsWhatItCites(r)
      BY DEF AnswerIsGrounded
    <2> PICK found : found = ask.found
      OBVIOUS
    <2>1. /\ IsList(found) /\ CitedOnce(found)
          /\ \A r \in ToSet(found) : IsSemantic(r) \/ IsLexical(r) \/ IsOverview(r)
          /\ "search" \in ask.failed => /\ \E r \in ToSet(found) : r.origin = "lexical"
                                        /\ \A r \in ToSet(found) : r.origin # "semantic"
          /\ "expand" \notin ask.failed => ask.seen \subseteq KeysIn(found)
      BY DEF AnswerInv, SoundAsk, AskShape, Settled, KeepsSeen
    <2>2. /\ Cardinality(KeysIn(SourcesOf(found))) = Len(SourcesOf(found))
          /\ \A r \in ToSet(CitedAmong(found)) : r \in ToSet(found) /\ Citable(r)
      BY <2>1, SourcesCitedOnce
    <2>3. \A r \in ToSet(found) : r.path = NoPlace => r.edges # {} /\ \A e \in r.edges : e[2] = r.symbol
      BY <2>1 DEF IsSemantic, IsLexical, IsOverview
    <2>4. Overview \notin {"semantic", "lexical"}
      BY AnsweringAssumption
    <2>5. "search" \in ask.failed => ToolsUsed(found) \ {Overview} = {"lexical"}
      BY <2>1, <2>4 DEF ToolsUsed
    <2>6. ASSUME NEW r \in ToSet(CitedAmong(found)), r.origin = "lexical"
          PROVE  /\ \E s \in ToSet(index.symbols) :
                      Citation(r) = [symbol |-> s.name, path |-> s.path, start |-> s.start, end |-> s.end]
                 /\ ShowsWhatItCites(r)
      <3>1. IsLexical(r) /\ r.path # NoPlace
        BY <2>1, <2>2, <2>4, <2>6 DEF IsSemantic, IsOverview, Citable
      <3> QED
        BY <3>1 DEF IsLexical
    <2> QED
      BY <2>1, <2>2, <2>3, <2>5, <2>6
  <1> QED
    BY <1>1, AnswerInvariant, PTL

(* A symbol that the question names as its first identifier is among the   *)
(* results, or as many of its namesakes as the cap allows, and then the    *)
(* question is answered also when semantic search is down.                 *)
THEOREM ExactMatchesAreKept == AnswerSpec => []ExactMatchesSurvive
  <1>1. AnswerInv => ExactMatchesSurvive
    <2> SUFFICES ASSUME AnswerInv, ask.first # NoPlace, "symbols" \notin ask.failed, ~ask.palette,
                        ask.pc \in {"answered", "refused"}, "llm" \notin ask.failed
                 PROVE  /\ NamedSymbols # {} => ask.pc = "answered"
                        /\ \/ NamedSymbols \subseteq KeysIn(ask.found)
                           \/ Cardinality(NamedSymbols \intersect KeysIn(ask.found)) >= MaxResults
      BY DEF ExactMatchesSurvive
    <2>1. NamedSymbols = NamedBy(ask.first)
      BY DEF NamedSymbols, NamedBy
    <2>2. FirstIsFound(ask)
      BY DEF AnswerInv, SoundAsk
    <2>3. CASE ask.pc = "answered"
      BY <2>1, <2>2, <2>3 DEF FirstIsFound, Holds
    <2>4. CASE ask.pc = "refused"
      BY <2>1, <2>2, <2>4 DEF FirstIsFound
    <2> QED
      BY <2>3, <2>4
  <1> QED
    BY <1>1, AnswerInvariant, PTL

(* Every field of a request has a value of its kind: where it is, where    *)
(* each result comes from, the lines it shows and what has failed.         *)
THEOREM AnswerTypes == AnswerSpec => []AnswerTypeOK
  <1>1. AnswerInv => AnswerTypeOK
    <2> SUFFICES ASSUME AnswerInv PROVE AnswerTypeOK
      OBVIOUS
    <2>1. AskShape(ask) /\ Typed(ask)
      BY DEF AnswerInv, SoundAsk
    <2> DEFINE found == ask.found
               lexical == ask.lexical
    <2>2. IsList(found) /\ IsList(lexical) /\ Len(lexical) <= MaxResults
      BY <2>1 DEF AskShape
    <2> HIDE DEF found, lexical
    <2>3. ToSet(found \o lexical) = ToSet(found) \union ToSet(lexical)
      BY <2>2, ListsJoined
    <2>4. \A r \in ToSet(found) \union ToSet(lexical) : RowKind(r)
      BY <2>1 DEF Typed, found, lexical
    <2>5. ASSUME NEW r, RowKind(r)
          PROVE  r.origin \in {"semantic", "lexical", Overview} /\ Len(r.cited) = 2 /\ Len(r.shown) \in {0, 2}
      <3>1. \A first, last : Len(<<first, last>>) = 2
        OBVIOUS
      <3>2. Len(<<>>) = 0
        OBVIOUS
      <3> QED
        BY <2>5, <3>1, <3>2 DEF RowKind
    <2> QED
      BY <2>1, <2>2, <2>3, <2>4, <2>5 DEF Typed, AskPlaces, AnswerTypeOK, found, lexical
  <1> QED
    BY <1>1, AnswerInvariant, PTL

-----------------------------------------------------------------------------
(* The store of conversations.                                             *)

ChatRecord == [pc : {"idle", "ask", "answer"}, session : Sessions \union {NoSession},
               turn : 0..MaxTurns, history : Seq(Message)]

ChatShape ==
    /\ conv \in [Sessions -> Seq(Message)] /\ log \in [Sessions -> Seq(Message)]
    /\ lastActive \in [Sessions -> Nat] /\ writes \in Nat /\ turns \in 0..MaxTurns
    /\ idle \in [Sessions -> 0..(Ttl + 1)]
    /\ \A s \in Sessions : Len(conv[s]) <= MaxMessages
    /\ others \in [Sessions -> SUBSET Sessions]
    /\ chat \in [Slots -> ChatRecord]
    /\ \A c \in Slots : chat[c].pc # "idle" => chat[c].session \in Sessions /\ chat[c].turn \in 1..MaxTurns

(* Messages are numbered, so no two sessions were last active at once, and *)
(* the sessions that were active since another are remembered with it.     *)
Ordered ==
    /\ \A s \in Sessions : lastActive[s] <= writes /\ (conv[s] # <<>> => lastActive[s] > 0)
    /\ \A s, x \in Sessions : lastActive[s] = lastActive[x] /\ lastActive[s] > 0 => s = x
    /\ \A s, x \in Sessions : lastActive[x] > lastActive[s] => x \in others[s]

ChatInv == ChatShape /\ Ordered /\ SessionsBounded /\ SessionSurvives /\ ConversationIsTail

(* An end of l, position by position. *)
EndOf(t, l) == Len(t) <= Len(l) /\ \A k \in 1..Len(t) : t[k] = l[Len(l) - Len(t) + k]

LEMMA LastNIsEnd ==
  ASSUME NEW l \in Seq(Message), NEW n \in Nat
  PROVE  /\ LastN(l, n) \in Seq(Message)
         /\ Len(LastN(l, n)) = IF Len(l) > n THEN n ELSE Len(l)
         /\ EndOf(LastN(l, n), l)
  <1>1. CASE Len(l) > n
    <2>1. LastN(l, n) = SubSeq(l, Len(l) - n + 1, Len(l))
      BY <1>1 DEF LastN
    <2>2. /\ SubSeq(l, Len(l) - n + 1, Len(l)) \in Seq(Message)
          /\ Len(SubSeq(l, Len(l) - n + 1, Len(l))) = n
          /\ \A k \in 1..n : SubSeq(l, Len(l) - n + 1, Len(l))[k] = l[Len(l) - n + k]
      BY <1>1
    <2> QED
      BY <1>1, <2>1, <2>2 DEF EndOf
  <1>2. CASE ~(Len(l) > n)
    BY <1>2 DEF LastN, EndOf
  <1> QED
    BY <1>1, <1>2

LEMMA SuffixIsEnd ==
  ASSUME NEW t \in Seq(Message), NEW l \in Seq(Message)
  PROVE  Suffix(t, l) <=> EndOf(t, l)
  <1>1. Len(t) \in Nat /\ Len(l) \in Nat
    OBVIOUS
  <1>2. Suffix(t, l) => EndOf(t, l)
    BY <1>1, LastNIsEnd DEF Suffix
  <1>3. ASSUME EndOf(t, l) PROVE Suffix(t, l)
    <2> DEFINE e == LastN(l, Len(t))
    <2>1. e \in Seq(Message) /\ Len(e) = Len(t) /\ EndOf(e, l)
      BY <1>1, <1>3, LastNIsEnd DEF EndOf
    <2> HIDE DEF e
    <2>2. \A k \in 1..Len(t) : t[k] = e[k]
      BY <1>3, <2>1 DEF EndOf
    <2>3. t = e
      BY <2>1, <2>2
    <2> QED
      BY <1>3, <2>3 DEF Suffix, EndOf, e
  <1> QED
    BY <1>2, <1>3

(* A message goes to the end of both; cutting the front of a conversation  *)
(* leaves it an end.                                                       *)
LEMMA EndsGrow ==
  ASSUME NEW t \in Seq(Message), NEW l \in Seq(Message), EndOf(t, l), NEW m \in Message,
         NEW n \in Nat \ {0}
  PROVE  /\ LastN(Append(t, m), n) \in Seq(Message) /\ LastN(Append(t, m), n) # <<>>
         /\ Append(l, m) \in Seq(Message) /\ Append(l, m) # <<>>
         /\ EndOf(LastN(Append(t, m), n), Append(l, m))
  <1> DEFINE u == Append(t, m)
             v == Append(l, m)
             e == LastN(u, n)
  <1>1. /\ u \in Seq(Message) /\ v \in Seq(Message) /\ Len(u) = Len(t) + 1 /\ Len(v) = Len(l) + 1
        /\ \A k \in 1..Len(t) : u[k] = t[k]
        /\ \A k \in 1..Len(l) : v[k] = l[k]
        /\ u[Len(t) + 1] = m /\ v[Len(l) + 1] = m /\ Len(t) \in Nat /\ Len(l) \in Nat
    OBVIOUS
  <1> HIDE DEF u, v
  <1>2. /\ e \in Seq(Message) /\ Len(e) \in Nat /\ Len(e) >= 1 /\ Len(e) <= Len(u) /\ EndOf(e, u)
    <2>1. /\ e \in Seq(Message) /\ Len(e) = IF Len(u) > n THEN n ELSE Len(u)
          /\ EndOf(e, u)
      BY <1>1, LastNIsEnd
    <2> HIDE DEF e
    <2> QED
      BY <2>1, <1>1
  <1> HIDE DEF e
  <1>3. EndOf(u, v)
    <2>1. Len(t) <= Len(l) /\ \A k \in 1..Len(t) : t[k] = l[Len(l) - Len(t) + k]
      BY DEF EndOf
    <2>2. ASSUME NEW k \in 1..Len(u) PROVE u[k] = v[Len(v) - Len(u) + k]
      <3>1. CASE k = Len(t) + 1
        BY <3>1, <1>1
      <3>2. CASE k \in 1..Len(t)
        <4>1. PICK j \in 1..Len(l) : j = Len(l) - Len(t) + k
          <5>1. Len(l) - Len(t) + k \in 1..Len(l)
            BY <3>2, <1>1, <2>1
          <5> QED
            BY <5>1
        <4>2. Len(v) - Len(u) + k = j
          BY <4>1, <3>2, <1>1
        <4>3. u[k] = t[k] /\ t[k] = l[j] /\ v[j] = l[j]
          BY <4>1, <3>2, <1>1, <2>1
        <4> QED
          BY <4>2, <4>3
      <3> QED
        BY <3>1, <3>2, <1>1
    <2> QED
      BY <1>1, <2>1, <2>2 DEF EndOf
  <1>4. EndOf(e, v)
    <2>1. Len(e) <= Len(v)
      BY <1>1, <1>2, <1>3 DEF EndOf
    <2>2. ASSUME NEW k \in 1..Len(e) PROVE e[k] = v[Len(v) - Len(e) + k]
      <3>1. PICK j \in 1..Len(u) : j = Len(u) - Len(e) + k
        <4>1. Len(u) \in Nat /\ Len(e) \in Nat /\ Len(e) <= Len(u)
          BY <1>1, <1>2
        <4>2. Len(u) - Len(e) + k \in 1..Len(u)
          BY <4>1
        <4> QED
          BY <4>2
      <3>2. e[k] = u[j] /\ u[j] = v[Len(v) - Len(u) + j]
        BY <3>1, <1>2, <1>3 DEF EndOf
      <3>3. Len(v) - Len(u) + j = Len(v) - Len(e) + k
        BY <3>1, <1>1, <1>2
      <3> QED
        BY <3>2, <3>3
    <2> QED
      BY <2>1, <2>2 DEF EndOf
  <1>5. e # <<>> /\ v # <<>>
    BY <1>1, <1>2
  <1> QED
    BY <1>1, <1>2, <1>4, <1>5 DEF u, v, e

(* Sets of sessions are finite. *)
LEMMA Sized ==
  ASSUME NEW S, S \subseteq Sessions
  PROVE  /\ IsFiniteSet(S) /\ Cardinality(S) \in Nat
         /\ \A x \in S : Cardinality(S \ {x}) = Cardinality(S) - 1
         /\ \A T \in SUBSET S : Cardinality(T) <= Cardinality(S)
  <1>1. IsFiniteSet(S)
    BY ChatAssumption, FS_Subset
  <1>2. Cardinality(S) \in Nat
    BY <1>1, FS_CardinalityType
  <1>3. \A x \in S : Cardinality(S \ {x}) = Cardinality(S) - 1
    BY <1>1, FS_RemoveElement
  <1>4. \A T \in SUBSET S : Cardinality(T) <= Cardinality(S)
    BY <1>1, FS_Subset
  <1> QED
    BY <1>1, <1>2, <1>3, <1>4

LEMMA ChatInitInv == ChatInit => ChatInv
  <1> SUFFICES ASSUME ChatInit PROVE ChatInv
    OBVIOUS
  <1>1. ChatShape
    <2>1. <<>> \in Seq(Message)
      OBVIOUS
    <2>2. NoChat \in ChatRecord
      BY <2>1, ChatAssumption DEF NoChat, ChatRecord
    <2>3. conv \in [Sessions -> Seq(Message)] /\ log \in [Sessions -> Seq(Message)]
      BY <2>1 DEF ChatInit
    <2>4. chat \in [Slots -> ChatRecord]
      BY <2>2 DEF ChatInit
    <2>5. \A c \in Slots : chat[c].pc = "idle"
      BY DEF ChatInit, NoChat
    <2> QED
      BY <2>3, <2>4, <2>5, ChatAssumption DEF ChatInit, ChatShape
  <1>2. Ordered /\ SessionSurvives /\ ConversationIsTail
    BY DEF ChatInit, Ordered, SessionSurvives, ConversationIsTail
  <1>3. InStore(conv) = {}
    BY DEF ChatInit, InStore
  <1>4. SessionsBounded
    BY <1>3, FS_EmptySet, ChatAssumption DEF SessionsBounded
  <1> QED
    BY <1>1, <1>2, <1>4 DEF ChatInv

(* Writing a message, evicting if need be. *)
LEMMA AddMessageInv ==
  ASSUME ChatInv, NEW s \in Sessions, NEW m \in Message, AddMessage(s, m), UNCHANGED turns,
         chat' \in [Slots -> ChatRecord],
         \A c \in Slots : chat'[c].pc # "idle" => chat'[c].session \in Sessions /\ chat'[c].turn \in 1..MaxTurns
  PROVE  ChatInv'
  <1> DEFINE known  == IF Expired(s) THEN <<>> ELSE conv[s]
             before == IF Expired(s) THEN <<>> ELSE log[s]
             kept   == LastN(Append(known, m), MaxMessages)
             added  == [conv EXCEPT ![s] = kept]
  <1>1. ChatShape /\ Ordered /\ SessionsBounded /\ SessionSurvives /\ ConversationIsTail
    BY DEF ChatInv
  <1>2. /\ lastActive' = [lastActive EXCEPT ![s] = writes + 1] /\ writes' = writes + 1
        /\ idle' = [idle EXCEPT ![s] = 0] /\ log' = [log EXCEPT ![s] = Append(before, m)]
        /\ others' = [x \in Sessions |-> IF x = s THEN {} ELSE others[x] \union {s}]
        /\ \/ Cardinality(InStore(added)) <= MaxSessions /\ conv' = added
           \/ Cardinality(InStore(added)) > MaxSessions
              /\ \E old \in OldestOf(added, lastActive') :
                    conv' = [x \in Sessions |-> IF x = old THEN <<>> ELSE added[x]]
    <2>1. Cardinality(InStore(added)) \in Nat
      BY Sized DEF InStore
    <2>2. /\ lastActive' = [lastActive EXCEPT ![s] = writes + 1] /\ writes' = writes + 1
          /\ idle' = [idle EXCEPT ![s] = 0]
          /\ others' = [x \in Sessions |-> IF x = s THEN {} ELSE others[x] \union {s}]
      BY DEF AddMessage
    <2>3. log' = [log EXCEPT ![s] = Append(before, m)]
      <3>1. log' = [log EXCEPT ![s] = Append(IF idle[s] > Ttl THEN <<>> ELSE log[s], m)]
        BY DEF AddMessage
      <3> QED
        BY <3>1 DEF Expired
    <2>4. IF Cardinality(InStore(added)) > MaxSessions
          THEN \E old \in OldestOf(added, lastActive') :
                 conv' = [x \in Sessions |-> IF x = old THEN <<>> ELSE added[x]]
          ELSE conv' = added
      <3> DEFINE active == [lastActive EXCEPT ![s] = writes + 1]
      <3>1. IF Cardinality(InStore(added)) > MaxSessions
            THEN \E old \in OldestOf(added, active) :
                   conv' = [x \in Sessions |-> IF x = old THEN <<>> ELSE added[x]]
            ELSE conv' = added
        BY Zenon DEF AddMessage
      <3>2. lastActive' = active
        BY <2>2
      <3> QED
        BY <3>1, <3>2, Zenon
    <2>5. Cardinality(InStore(added)) > MaxSessions \/ Cardinality(InStore(added)) <= MaxSessions
      <3>1. \A k \in Nat : k > MaxSessions \/ k <= MaxSessions
        BY ChatAssumption
      <3> QED
        BY <2>1, <3>1
    <2>6. CASE Cardinality(InStore(added)) > MaxSessions
      <3>1. \E old \in OldestOf(added, lastActive') :
              conv' = [x \in Sessions |-> IF x = old THEN <<>> ELSE added[x]]
        BY <2>4, <2>6, Zenon
      <3> QED
        BY <2>2, <2>3, <2>6, <3>1, Zenon
    <2>7. CASE ~(Cardinality(InStore(added)) > MaxSessions)
      BY <2>2, <2>3, <2>4, <2>5, <2>7, Zenon
    <2> QED
      BY <2>6, <2>7
  <1>3. /\ known \in Seq(Message) /\ before \in Seq(Message) /\ EndOf(known, before)
    <2>1. <<>> \in Seq(Message) /\ \A l \in Seq(Message) : EndOf(<<>>, l)
      BY DEF EndOf
    <2>2. conv[s] \in Seq(Message) /\ log[s] \in Seq(Message)
      BY <1>1 DEF ChatShape
    <2>3. conv[s] = <<>> \/ EndOf(conv[s], log[s])
      BY <2>2, <1>1, SuffixIsEnd DEF ConversationIsTail
    <2> QED
      BY <2>1, <2>2, <2>3
  <1>4. /\ kept \in Seq(Message) /\ kept # <<>> /\ Append(before, m) \in Seq(Message)
        /\ Append(before, m) # <<>> /\ Suffix(kept, Append(before, m)) /\ Len(kept) <= MaxMessages
    <2>1. /\ kept \in Seq(Message) /\ kept # <<>> /\ Append(before, m) \in Seq(Message)
          /\ Append(before, m) # <<>> /\ EndOf(kept, Append(before, m))
      BY <1>3, EndsGrow, ChatAssumption
    <2>2. Append(known, m) \in Seq(Message) /\ MaxMessages \in Nat
      BY <1>3, ChatAssumption
    <2>3. Len(kept) <= MaxMessages
      <3> DEFINE l == Append(known, m)
      <3>1. l \in Seq(Message) /\ Len(l) \in Nat /\ kept = LastN(l, MaxMessages)
        BY <2>2
      <3> HIDE DEF l, kept
      <3>2. Len(kept) = IF Len(l) > MaxMessages THEN MaxMessages ELSE Len(l)
        BY <2>2, <3>1, LastNIsEnd
      <3> QED
        BY <2>2, <3>1, <3>2
    <2> QED
      BY <2>1, <2>3, SuffixIsEnd
  <1> HIDE DEF known, before, kept
  <1>5. /\ added \in [Sessions -> Seq(Message)] /\ added[s] = kept
        /\ \A x \in Sessions \ {s} : added[x] = conv[x]
    BY <1>1, <1>4 DEF ChatShape
  <1> HIDE DEF added
  <1>6. /\ conv' \in [Sessions -> Seq(Message)]
        /\ \A x \in Sessions : conv'[x] = added[x] \/ conv'[x] = <<>>
    <2>1. <<>> \in Seq(Message)
      OBVIOUS
    <2>2. CASE conv' = added
      BY <2>2, <1>5
    <2>3. ASSUME NEW old, conv' = [x \in Sessions |-> IF x = old THEN <<>> ELSE added[x]]
          PROVE  /\ conv' \in [Sessions -> Seq(Message)]
                 /\ \A x \in Sessions : conv'[x] = added[x] \/ conv'[x] = <<>>
      BY <2>1, <2>3, <1>5
    <2> QED
      BY <2>2, <2>3, <1>2
  <1>7. ChatShape'
    <2>1. log' \in [Sessions -> Seq(Message)]
      BY <1>1, <1>2, <1>4 DEF ChatShape
    <2>2. lastActive' \in [Sessions -> Nat] /\ writes' \in Nat /\ others' \in [Sessions -> SUBSET Sessions]
      BY <1>1, <1>2 DEF ChatShape
    <2>3. idle' \in [Sessions -> 0..(Ttl + 1)]
      <3>1. 0 \in 0..(Ttl + 1)
        BY ChatAssumption
      <3> QED
        BY <3>1, <1>1, <1>2 DEF ChatShape
    <2>4. \A x \in Sessions : Len(conv'[x]) <= MaxMessages
      <3>1. \A x \in Sessions : conv'[x] = kept \/ conv'[x] = conv[x] \/ conv'[x] = <<>>
        BY <1>5, <1>6
      <3>2. Len(<<>>) <= MaxMessages
        BY ChatAssumption
      <3> QED
        BY <3>1, <3>2, <1>1, <1>4 DEF ChatShape
    <2> QED
      BY <2>1, <2>2, <2>3, <2>4, <1>1, <1>6 DEF ChatShape
  <1>8. Ordered'
    <2>1. /\ lastActive'[s] = writes + 1 /\ writes \in Nat /\ writes' = writes + 1
          /\ \A x \in Sessions \ {s} : lastActive'[x] = lastActive[x] /\ lastActive[x] \in Nat
                                      /\ lastActive[x] <= writes
      BY <1>1, <1>2 DEF ChatShape, Ordered
    <2>2. \A x \in Sessions : lastActive'[x] <= writes' /\ (conv'[x] # <<>> => lastActive'[x] > 0)
      <3>1. \A x \in Sessions \ {s} : conv'[x] # <<>> => conv[x] # <<>>
        BY <1>5, <1>6
      <3>2. ASSUME NEW x \in Sessions \ {s}
            PROVE  lastActive'[x] <= writes' /\ (conv'[x] # <<>> => lastActive'[x] > 0)
        BY <3>1, <2>1, <1>1 DEF Ordered
      <3>3. lastActive'[s] <= writes' /\ lastActive'[s] > 0
        BY <2>1
      <3> QED
        BY <3>2, <3>3
    <2>3. \A x, y \in Sessions : lastActive'[x] = lastActive'[y] /\ lastActive'[x] > 0 => x = y
      BY <2>1, <1>1 DEF Ordered
    <2>4. ASSUME NEW x \in Sessions, NEW y \in Sessions, lastActive'[y] > lastActive'[x]
          PROVE  y \in others'[x]
      <3>1. x # s
        BY <2>1, <2>4
      <3>2. others'[x] = others[x] \union {s}
        BY <3>1, <1>2
      <3>3. y # s => y \in others[x]
        BY <3>1, <2>1, <2>4, <1>1 DEF Ordered
      <3> QED
        BY <3>2, <3>3
    <2> QED
      BY <2>2, <2>3, <2>4 DEF Ordered
  <1>9. /\ \A x \in Sessions : log'[x] # <<>> \/ (x # s /\ log[x] = <<>>)
        /\ \A x \in Sessions : log[x] = <<>> => conv[x] = <<>>
    <2>1. \A x \in Sessions : log'[x] = IF x = s THEN Append(before, m) ELSE log[x]
      BY <1>1, <1>2 DEF ChatShape
    <2>2. ASSUME NEW x \in Sessions, log[x] = <<>> PROVE conv[x] = <<>>
      <3>1. conv[x] \in Seq(Message) /\ (conv[x] # <<>> => Len(conv[x]) <= Len(<<>>))
        BY <2>2, <1>1 DEF ChatShape, ConversationIsTail, Suffix
      <3> QED
        BY <3>1
    <2> QED
      BY <2>1, <2>2, <1>4
  <1>10. ASSUME ~BlankSpoke'
         PROVE  ~BlankSpoke /\ (Blank \in Sessions => Blank # s) /\ Blank \notin InStore(added)
    BY <1>5, <1>9, <1>10 DEF BlankSpoke, InStore
  <1>11. ASSUME ~BlankSpoke', NEW old \in OldestOf(added, lastActive'),
                Cardinality(InStore(added)) > MaxSessions,
                conv' = [x \in Sessions |-> IF x = old THEN <<>> ELSE added[x]]
         PROVE  /\ old # s /\ Cardinality(others'[old]) >= MaxSessions
                /\ Cardinality(InStore(conv')) <= MaxSessions
    <2> DEFINE rest == InStore(added) \ {old}
    <2>1. /\ old \in InStore(added) /\ s \in InStore(added) /\ InStore(added) \subseteq Sessions
          /\ \A x \in InStore(added) : lastActive'[old] <= lastActive'[x]
      <3>1. s \in InStore(added) /\ InStore(added) \subseteq Sessions
        BY <1>4, <1>5 DEF InStore
      <3>2. Blank \notin InStore(added)
        BY <1>11, <1>10
      <3> QED
        BY <3>1, <3>2, <1>11 DEF OldestOf
    <2>2. /\ Cardinality(rest) = Cardinality(InStore(added)) - 1 /\ Cardinality(InStore(added)) \in Nat
          /\ Cardinality(rest) >= MaxSessions /\ Cardinality(rest) \in Nat
      <3>1. Cardinality(rest) = Cardinality(InStore(added)) - 1 /\ Cardinality(InStore(added)) \in Nat
        BY <2>1, Sized
      <3>2. Cardinality(rest) \in Nat
        BY <2>1, Sized
      <3> QED
        BY <3>1, <3>2, <1>11, ChatAssumption
    <2>3. \A x \in rest : lastActive'[x] > lastActive'[old]
      <3>1. \A x \in InStore(added) : lastActive'[x] > 0 /\ lastActive'[x] \in Nat
        BY <1>1, <1>2, <1>5 DEF InStore, Ordered, ChatShape
      <3> QED
        BY <3>1, <2>1, <1>8 DEF Ordered
    <2>4. rest \subseteq others'[old] /\ others'[old] \subseteq Sessions
      BY <2>1, <2>3, <1>7, <1>8 DEF Ordered, ChatShape
    <2>5. Cardinality(others'[old]) >= MaxSessions
      <3>1. Cardinality(rest) <= Cardinality(others'[old]) /\ Cardinality(others'[old]) \in Nat
        BY <2>4, Sized
      <3> QED
        BY <3>1, <2>2, ChatAssumption
    <2>6. old # s
      <3>1. others'[s] = {} /\ Cardinality({}) = 0
        BY <1>2, FS_EmptySet
      <3>2. MaxSessions \in Nat /\ MaxSessions >= 1
        BY ChatAssumption
      <3>3. old = s => 0 >= MaxSessions
        BY <3>1, <2>5
      <3> QED
        BY <3>2, <3>3
    <2>7. Cardinality(InStore(conv')) <= MaxSessions
      <3>1. InStore(conv') = rest
        BY <1>5, <1>11, <2>1 DEF InStore
      <3>2. Cardinality(rest) <= MaxSessions
        <4> DEFINE one == InStore(added) \ {s}
        <4>1. one \subseteq InStore(conv) /\ InStore(conv) \subseteq Sessions
          BY <1>5 DEF InStore
        <4>2. /\ Cardinality(one) <= Cardinality(InStore(conv)) /\ Cardinality(InStore(conv)) \in Nat
              /\ Cardinality(one) \in Nat
          BY <4>1, Sized
        <4>3. Cardinality(one) = Cardinality(InStore(added)) - 1
          BY <2>1, Sized
        <4> QED
          BY <4>2, <4>3, <2>2, <1>1, <1>11, <1>10, ChatAssumption DEF SessionsBounded
      <3> QED
        BY <3>1, <3>2
    <2> QED
      BY <2>5, <2>6, <2>7
  <1>12. SessionsBounded'
    BY <1>2, <1>11 DEF SessionsBounded
  <1>13. SessionSurvives'
    <2> SUFFICES ASSUME NEW x \in Sessions, log'[x] # <<>>, idle'[x] <= Ttl, conv'[x] = <<>>,
                        x = Blank \/ (~BlankSpoke' /\ Cardinality(others'[x]) < MaxSessions)
                 PROVE  FALSE
      BY DEF SessionSurvives
    <2>1. conv' = added \/ \E old \in OldestOf(added, lastActive') :
                              /\ Cardinality(InStore(added)) > MaxSessions
                              /\ conv' = [y \in Sessions |-> IF y = old THEN <<>> ELSE added[y]]
      BY <1>2
    <2>2. others'[x] \subseteq Sessions /\ Cardinality(others'[x]) \in Nat
      BY <1>7, Sized DEF ChatShape
    <2>3. added[x] = <<>>
      <3>1. CASE conv' = added
        BY <3>1
      <3>2. ASSUME NEW old \in OldestOf(added, lastActive'), Cardinality(InStore(added)) > MaxSessions,
                   conv' = [y \in Sessions |-> IF y = old THEN <<>> ELSE added[y]], x = old
            PROVE  FALSE
        <4>1. Blank \notin Sessions \/ old # Blank
          <5>1. CASE Blank \in {y \in InStore(added) : \A z \in InStore(added) : lastActive'[y] <= lastActive'[z]}
            BY <5>1, <3>2, ChatAssumption DEF OldestOf
          <5>2. CASE ~(Blank \in {y \in InStore(added) :
                                   \A z \in InStore(added) : lastActive'[y] <= lastActive'[z]})
            BY <5>2, <3>2 DEF OldestOf
          <5> QED
            BY <5>1, <5>2
        <4>2. ~BlankSpoke' /\ Cardinality(others'[x]) < MaxSessions
          BY <4>1, <3>2
        <4>3. Cardinality(others'[old]) >= MaxSessions
          BY <4>2, <3>2, <1>11
        <4> QED
          BY <4>2, <4>3, <3>2, <2>2, ChatAssumption
      <3> QED
        BY <2>1, <3>1, <3>2
    <2>4. x # s /\ conv[x] = <<>> /\ log'[x] = log[x] /\ idle'[x] = idle[x]
      BY <2>3, <1>1, <1>2, <1>4, <1>5 DEF ChatShape
    <2>5. others[x] \subseteq others'[x]
      BY <2>4, <1>2
    <2>6. Cardinality(others[x]) <= Cardinality(others'[x]) /\ Cardinality(others[x]) \in Nat
      BY <2>2, <2>5, Sized
    <2>7. x # Blank => ~BlankSpoke /\ Cardinality(others[x]) < MaxSessions
      BY <2>2, <2>6, <1>10, ChatAssumption
    <2> QED
      BY <2>4, <2>7, <1>1 DEF SessionSurvives
  <1>14. ConversationIsTail'
    <2> SUFFICES ASSUME NEW x \in Sessions, conv'[x] # <<>> PROVE Suffix(conv'[x], log'[x])
      BY DEF ConversationIsTail
    <2>1. CASE x = s
      BY <2>1, <1>1, <1>2, <1>4, <1>5, <1>6 DEF ChatShape
    <2>2. CASE x # s
      BY <2>2, <1>1, <1>2, <1>5, <1>6 DEF ChatShape, ConversationIsTail
    <2> QED
      BY <2>1, <2>2
  <1> QED
    BY <1>7, <1>8, <1>12, <1>13, <1>14 DEF ChatInv

(* A request that reads the history or ends leaves the store alone. *)
LEMMA ChatMoves ==
  ASSUME ChatInv, NEW c \in Slots, NEW q \in ChatRecord, chat' = [chat EXCEPT ![c] = q],
         q.pc # "idle" => q.session \in Sessions /\ q.turn \in 1..MaxTurns,
         turns' \in 0..MaxTurns, UNCHANGED stored
  PROVE  ChatInv'
  <1> USE DEF stored
  <1>1. ChatShape /\ Ordered /\ SessionsBounded /\ SessionSurvives /\ ConversationIsTail
    BY DEF ChatInv
  <1>2. ChatShape'
    BY <1>1 DEF ChatShape
  <1>3. Ordered' /\ SessionsBounded' /\ SessionSurvives' /\ ConversationIsTail'
    BY <1>1 DEF Ordered, SessionsBounded, SessionSurvives, BlankSpoke, ConversationIsTail
  <1> QED
    BY <1>2, <1>3 DEF ChatInv

LEMMA RequestInv ==
  ASSUME ChatInv, NEW c \in Slots, Begin(c) \/ Ask(c) \/ AnswerFails(c) \/ AnswerArrives(c)
  PROVE  ChatInv'
  <1>1. /\ ChatShape /\ chat[c] \in ChatRecord /\ turns \in Nat /\ MaxTurns \in Nat
        /\ chat[c].pc # "idle" => chat[c].session \in Sessions /\ chat[c].turn \in 1..MaxTurns
    BY ChatAssumption DEF ChatInv, ChatShape
  <1>2. NoChat \in ChatRecord /\ NoChat.pc = "idle"
    <2>1. <<>> \in Seq(Message)
      OBVIOUS
    <2> QED
      BY <2>1, <1>1 DEF NoChat, ChatRecord
  <1>3. CASE Begin(c)
    <2>1. PICK s \in Sessions :
            chat' = [chat EXCEPT ![c] = [pc |-> "ask", session |-> s, turn |-> turns + 1,
                                         history |-> RecentMessages(s)]]
      BY <1>3 DEF Begin
    <2> DEFINE q == [pc |-> "ask", session |-> s, turn |-> turns + 1, history |-> RecentMessages(s)]
    <2>2. turns + 1 \in 1..MaxTurns /\ turns' = turns + 1 /\ UNCHANGED stored
      BY <1>1, <1>3 DEF Begin
    <2>3. RecentMessages(s) \in Seq(Message)
      <3>1. conv[s] \in Seq(Message) /\ <<>> \in Seq(Message)
        BY <1>1 DEF ChatShape
      <3> QED
        BY <3>1, LastNIsEnd, ChatAssumption DEF RecentMessages
    <2>4. q \in ChatRecord
      BY <2>2, <2>3, <1>1 DEF ChatRecord
    <2>5. q.session \in Sessions /\ q.turn \in 1..MaxTurns
      BY <2>2
    <2>6. turns' \in 0..MaxTurns
      BY <2>2
    <2>7. chat' = [chat EXCEPT ![c] = q]
      BY <2>1
    <2> HIDE DEF q
    <2> QED
      BY <2>2, <2>4, <2>5, <2>6, <2>7, ChatMoves
  <1>4. CASE AnswerFails(c)
    BY <1>1, <1>2, <1>4, ChatMoves DEF AnswerFails, Respond, ChatShape
  <1>5. CASE Ask(c) \/ AnswerArrives(c)
    <2>1. PICK role \in {"user", "assistant"} :
            /\ chat[c].pc # "idle" /\ AddMessage(chat[c].session, [turn |-> chat[c].turn, role |-> role])
            /\ chat' = [chat EXCEPT ![c] = [chat[c] EXCEPT !.pc = "answer"]] \/ chat' = [chat EXCEPT ![c] = NoChat]
            /\ UNCHANGED turns
      BY <1>5 DEF Ask, AnswerArrives, Respond
    <2>2. [turn |-> chat[c].turn, role |-> role] \in Message /\ chat[c].session \in Sessions
      BY <2>1, <1>1 DEF Message
    <2> DEFINE q == [chat[c] EXCEPT !.pc = "answer"]
    <2>3. q \in ChatRecord /\ q.session = chat[c].session /\ q.turn = chat[c].turn
      BY <1>1 DEF ChatRecord
    <2> HIDE DEF q
    <2>4. chat' = [chat EXCEPT ![c] = q] \/ chat' = [chat EXCEPT ![c] = NoChat]
      BY <2>1 DEF q
    <2>5. /\ chat' \in [Slots -> ChatRecord]
          /\ \A d \in Slots : chat'[d].pc # "idle" => chat'[d].session \in Sessions /\ chat'[d].turn \in 1..MaxTurns
      BY <2>1, <2>2, <2>3, <2>4, <1>1, <1>2 DEF ChatShape
    <2> QED
      BY <2>1, <2>2, <2>5, AddMessageInv
  <1> QED
    BY <1>3, <1>4, <1>5

(* The janitor drops what has expired, and time only makes more expire.    *)
LEMMA PruneInv ==
  ASSUME ChatInv, PruneExpired
  PROVE  ChatInv'
  <1>1. ChatShape /\ Ordered /\ SessionsBounded /\ SessionSurvives /\ ConversationIsTail
    BY DEF ChatInv
  <1>2. /\ conv' = [s \in Sessions |-> IF Expired(s) THEN <<>> ELSE conv[s]]
        /\ UNCHANGED <<lastActive, idle, writes, chat, turns, log, others>>
    BY DEF PruneExpired
  <1>3. conv' \in [Sessions -> Seq(Message)] /\ \A s \in Sessions : Len(conv'[s]) <= MaxMessages
    <2>1. <<>> \in Seq(Message) /\ Len(<<>>) <= MaxMessages
      BY ChatAssumption
    <2> QED
      BY <2>1, <1>1, <1>2 DEF ChatShape
  <1>4. ChatShape' /\ Ordered' /\ ConversationIsTail'
    BY <1>1, <1>2, <1>3 DEF ChatShape, Ordered, ConversationIsTail
  <1>5. SessionSurvives'
    BY <1>1, <1>2, ChatAssumption DEF SessionSurvives, BlankSpoke, Expired, ChatShape
  <1>6. SessionsBounded'
    <2>1. InStore(conv') \subseteq InStore(conv) /\ InStore(conv) \subseteq Sessions
      BY <1>2 DEF InStore
    <2>2. /\ Cardinality(InStore(conv')) <= Cardinality(InStore(conv))
          /\ Cardinality(InStore(conv)) \in Nat /\ Cardinality(InStore(conv')) \in Nat
      BY <2>1, Sized
    <2> QED
      BY <2>2, <1>1, <1>2, ChatAssumption DEF SessionsBounded, BlankSpoke
  <1> QED
    BY <1>4, <1>5, <1>6 DEF ChatInv

LEMMA TickInv ==
  ASSUME ChatInv, ChatTick
  PROVE  ChatInv'
  <1>1. ChatShape /\ Ordered /\ SessionsBounded /\ SessionSurvives /\ ConversationIsTail
    BY DEF ChatInv
  <1>2. /\ idle' = [s \in Sessions |-> IF log[s] # <<>> /\ idle[s] <= Ttl THEN idle[s] + 1 ELSE idle[s]]
        /\ UNCHANGED <<conv, lastActive, writes, chat, turns, log, others>>
    BY DEF ChatTick
  <1>3. ChatShape'
    <2>1. idle' \in [Sessions -> 0..(Ttl + 1)]
      BY <1>1, <1>2, ChatAssumption DEF ChatShape
    <2> QED
      BY <1>1, <1>2, <2>1 DEF ChatShape
  <1>4. Ordered' /\ ConversationIsTail' /\ SessionsBounded'
    BY <1>1, <1>2 DEF Ordered, ConversationIsTail, SessionsBounded, BlankSpoke
  <1>5. SessionSurvives'
    <2>1. \A s \in Sessions : idle'[s] <= Ttl => idle[s] <= Ttl
      BY <1>1, <1>2, ChatAssumption DEF ChatShape
    <2> QED
      BY <2>1, <1>1, <1>2 DEF SessionSurvives, BlankSpoke
  <1> QED
    BY <1>3, <1>4, <1>5 DEF ChatInv

(* What is stored, who was active when and what was said stay related as   *)
(* above in every reachable state.                                         *)
THEOREM ChatInvariant == ChatSpec => []ChatInv
  <1>1. ChatInv /\ [ChatNext]_chatVars => ChatInv'
    <2> SUFFICES ASSUME ChatInv, [ChatNext]_chatVars PROVE ChatInv'
      OBVIOUS
    <2>1. CASE UNCHANGED chatVars
      <3> USE <2>1 DEF chatVars
      <3>1. ChatShape /\ Ordered /\ SessionsBounded /\ SessionSurvives /\ ConversationIsTail
        BY DEF ChatInv
      <3>2. ChatShape' /\ Ordered'
        BY <3>1 DEF ChatShape, Ordered
      <3>3. SessionsBounded' /\ SessionSurvives' /\ ConversationIsTail'
        BY <3>1 DEF SessionsBounded, SessionSurvives, BlankSpoke, ConversationIsTail
      <3> QED
        BY <3>2, <3>3 DEF ChatInv
    <2> QED
      BY <2>1, RequestInv, PruneInv, TickInv DEF ChatNext
  <1> QED
    BY <1>1, ChatInitInv, PTL DEF ChatSpec

(* The store never holds more than MaxSessions conversations as long as    *)
(* nobody has used the empty session ID.                                   *)
THEOREM StoreBounded == ChatSpec => []SessionsBounded
  <1>1. ChatInv => SessionsBounded
    BY DEF ChatInv
  <1> QED
    BY <1>1, ChatInvariant, PTL

(* A conversation that is not expired outlives any fewer than MaxSessions  *)
(* others as long as nobody has used the empty session ID; the one under   *)
(* that ID outlives all others.                                            *)
THEOREM Survives == ChatSpec => []SessionSurvives
  <1>1. ChatInv => SessionSurvives
    BY DEF ChatInv
  <1> QED
    BY <1>1, ChatInvariant, PTL

(* A conversation is an unbroken end of what its own session said since it *)
(* was last silent for longer than the TTL.                                *)
THEOREM TailIsKept == ChatSpec => []ConversationIsTail
  <1>1. ChatInv => ConversationIsTail
    BY DEF ChatInv
  <1> QED
    BY <1>1, ChatInvariant, PTL

(* Every variable of the store has a value of its kind: no conversation    *)
(* holds more than MaxMessages, and no session is idle longer than it      *)
(* takes to expire.                                                        *)
THEOREM ChatTypes == ChatSpec => []ChatTypeOK
  <1>1. ChatInv => ChatTypeOK
    BY DEF ChatInv, ChatShape, ChatRecord, ChatTypeOK
  <1> QED
    BY <1>1, ChatInvariant, PTL
-----------------------------------------------------------------------------
(* The components around one repository's index, together: the one that    *)
(* moves keeps its own specification, and the others rest.                 *)
ExtractRest == /\ moving # "extract" /\ tree = [language |-> "go", nodes |-> <<>>]
               /\ walked = <<>> /\ edges = <<>>

SplitRest == moving # "split" /\ length = 0 /\ start = 0 /\ windows = <<>> /\ split = FALSE

PathRest == /\ moving # "path" /\ layout = [files |-> <<>>, symbols |-> <<>>, calls |-> <<>>]
            /\ reading = NoPathYet

AnswerRest == moving # "answer" /\ ask = NoAsk

LEMMA QueriesBegin ==
  QueriesInit => /\ ExtractInit \/ ExtractRest
                 /\ SplitInit \/ SplitRest
                 /\ GraphInit
                 /\ PathInit \/ PathRest
                 /\ AnswerInit \/ AnswerRest
                 /\ ChatInit
  <1> SUFFICES ASSUME QueriesInit
               PROVE  /\ ExtractInit \/ ExtractRest
                      /\ SplitInit \/ SplitRest
                      /\ GraphInit
                      /\ PathInit \/ PathRest
                      /\ AnswerInit \/ AnswerRest
                      /\ ChatInit
    OBVIOUS
  <1>1. ExtractInit \/ ExtractRest
    BY DEF QueriesInit, ExtractRest
  <1>2. SplitInit \/ SplitRest
    BY DEF QueriesInit, SplitRest
  <1>3. GraphInit
    <2>1. CASE moving = "graph"
      BY <2>1 DEF QueriesInit
    <2>2. CASE moving # "graph"
      <3>1. callEdges = {} /\ graph = NoGraph
        BY <2>2 DEF QueriesInit
      <3>2. IsFiniteSet({}) /\ {} \subseteq CallEdge
        BY FS_EmptySet
      <3> QED
        BY <3>1, <3>2 DEF GraphInit
    <2> QED
      BY <2>1, <2>2
  <1>4. PathInit \/ PathRest
    BY DEF QueriesInit, PathRest
  <1>5. AnswerInit \/ AnswerRest
    BY DEF QueriesInit, AnswerRest
  <1>6. ChatInit
    BY DEF QueriesInit
  <1> QED
    BY <1>1, <1>2, <1>3, <1>4, <1>5, <1>6

LEMMA QueriesMove ==
  [QueriesNext]_queriesVars => /\ [ExtractNext]_extractVars /\ [SplitNext]_splitVars
                               /\ [GraphNext]_graphVars /\ [PathNext]_pathVars
                               /\ [AnswerNext]_answerVars /\ [ChatNext]_chatVars
  <1> SUFFICES ASSUME [QueriesNext]_queriesVars
               PROVE  /\ [ExtractNext]_extractVars /\ [SplitNext]_splitVars
                      /\ [GraphNext]_graphVars /\ [PathNext]_pathVars
                      /\ [AnswerNext]_answerVars /\ [ChatNext]_chatVars
    OBVIOUS
  <1>1. CASE QueriesNext
    BY <1>1 DEF QueriesNext
  <1>2. CASE UNCHANGED queriesVars
    BY <1>2 DEF queriesVars
  <1> QED
    BY <1>1, <1>2

(* What rests, rests for good. *)
LEMMA RestsOn ==
  /\ ExtractRest /\ [QueriesNext]_queriesVars => ExtractRest'
  /\ SplitRest /\ [QueriesNext]_queriesVars => SplitRest'
  /\ PathRest /\ [QueriesNext]_queriesVars => PathRest'
  /\ AnswerRest /\ [QueriesNext]_queriesVars => AnswerRest'
  <1>1. ASSUME [QueriesNext]_queriesVars
        PROVE  /\ moving' = moving
               /\ moving = "extract" \/ UNCHANGED extractVars
               /\ moving = "split" \/ UNCHANGED splitVars
               /\ moving = "path" \/ UNCHANGED pathVars
               /\ moving = "answer" \/ UNCHANGED answerVars
    BY <1>1 DEF QueriesNext, queriesVars, Moves
  <1>2. ASSUME ExtractRest, [QueriesNext]_queriesVars PROVE ExtractRest'
    BY <1>1, <1>2 DEF ExtractRest, extractVars
  <1>3. ASSUME SplitRest, [QueriesNext]_queriesVars PROVE SplitRest'
    BY <1>1, <1>3 DEF SplitRest, splitVars
  <1>4. ASSUME PathRest, [QueriesNext]_queriesVars PROVE PathRest'
    BY <1>1, <1>4 DEF PathRest, pathVars
  <1>5. ASSUME AnswerRest, [QueriesNext]_queriesVars PROVE AnswerRest'
    BY <1>1, <1>5 DEF AnswerRest, answerVars
  <1> QED
    BY <1>2, <1>3, <1>4, <1>5

(* Every behaviour of the composition is one of each component, or one in  *)
(* which it rests.                                                         *)
THEOREM QueriesParts ==
  QueriesSpec => /\ ExtractSpec \/ []ExtractRest
                 /\ SplitSpec \/ []SplitRest
                 /\ GraphSpec
                 /\ PathSpec \/ []PathRest
                 /\ AnswerSpec \/ []AnswerRest
                 /\ ChatSpec
  BY QueriesBegin, QueriesMove, RestsOn, PTL
     DEF QueriesSpec, ExtractSpec, SplitSpec, GraphSpec, PathSpec, AnswerSpec, ChatSpec

(* A component at rest has values of their kinds, and nothing to answer for. *)
LEMMA AtRestOK ==
  /\ ExtractRest => ExtractTypeOK /\ CallsAttributed
  /\ SplitRest => SplitTypeOK /\ ChunksCoverSource
  /\ PathRest => PathTypeOK /\ ReadingPathLeads
  /\ AnswerRest => AnswerTypeOK /\ AnswerIsGrounded /\ ExactMatchesSurvive
  <1>1. ASSUME ExtractRest PROVE ExtractTypeOK /\ CallsAttributed
    <2>1. DOMAIN tree.nodes = {} /\ DOMAIN walked = {} /\ DOMAIN edges = {}
      BY <1>1, EmptyList DEF ExtractRest
    <2>2. ExtractTypeOK
      BY <2>1 DEF ExtractTypeOK
    <2>3. CallsAttributed
      BY <2>1 DEF CallsAttributed, Declared
    <2> QED
      BY <2>2, <2>3
  <1>2. ASSUME SplitRest PROVE SplitTypeOK /\ ChunksCoverSource
    <2>1. length \in Nat /\ start \in Nat /\ split = FALSE /\ windows \in Seq(Window)
      BY <1>2 DEF SplitRest
    <2> QED
      BY <2>1 DEF SplitTypeOK, ChunksCoverSource
  <1>3. ASSUME PathRest PROVE PathTypeOK /\ ReadingPathLeads
    <2>1. reading.pc = "idle" /\ reading.known = {} /\ reading.queue = <<>> /\ reading.order = {} /\ reading.steps = <<>>
      BY <1>3 DEF PathRest, NoPathYet
    <2>2. DOMAIN <<>> = {} /\ Len(<<>>) = 0
      BY EmptyList
    <2>3. MaxSteps \in Nat
      BY PathAssumption
    <2> QED
      BY <2>1, <2>2, <2>3 DEF PathTypeOK, ReadingPathLeads
  <1>4. ASSUME AnswerRest PROVE AnswerTypeOK /\ AnswerIsGrounded /\ ExactMatchesSurvive
    <2>1. /\ ask.pc = "idle" /\ ask.palette = FALSE /\ ask.overview = FALSE /\ ask.found = <<>>
          /\ ask.lexical = <<>> /\ ask.failed = {}
      BY <1>4 DEF AnswerRest, NoAsk
    <2>2. <<>> \o <<>> = <<>> /\ ToSet(<<>>) = {} /\ Len(<<>>) = 0
      BY EmptyList
    <2>3. AnswerTypeOK
      <3>1. ToSet(ask.found \o ask.lexical) = {}
        BY <2>1, <2>2
      <3>2. Len(ask.lexical) <= MaxResults
        BY <2>1, <2>2, AnsweringAssumption
      <3> QED
        BY <2>1, <3>1, <3>2 DEF AnswerTypeOK
    <2>4. AnswerIsGrounded /\ ExactMatchesSurvive
      BY <2>1 DEF AnswerIsGrounded, ExactMatchesSurvive
    <2> QED
      BY <2>3, <2>4
  <1> QED
    BY <1>1, <1>2, <1>3, <1>4

(* Every variable of the components has a value of its kind, whichever of  *)
(* them moves.                                                             *)
THEOREM QueriesTypes == QueriesSpec => []QueriesTypeOK
  <1>1. QueriesSpec => [](ExtractTypeOK /\ SplitTypeOK /\ GraphTypeOK /\ PathTypeOK /\ AnswerTypeOK /\ ChatTypeOK)
    BY QueriesParts, AtRestOK, ExtractTypes, SplitTypes, GraphTypes, PathTypes, AnswerTypes, ChatTypes, PTL
  <1>2. ExtractTypeOK /\ SplitTypeOK /\ GraphTypeOK /\ PathTypeOK /\ AnswerTypeOK /\ ChatTypeOK => QueriesTypeOK
    BY DEF QueriesTypeOK
  <1> QED
    BY <1>1, <1>2, PTL

(* And what each component promises holds of the composition that is       *)
(* checked: calls are attributed, chunks cover, the graph and the reading  *)
(* path are what they claim, answers are grounded, sessions survive.       *)
THEOREM QueriesKeepPromises ==
  QueriesSpec => [](/\ CallsAttributed /\ ChunksCoverSource /\ GraphIsNeighbourhood /\ ReadingPathLeads
                    /\ AnswerIsGrounded /\ ExactMatchesSurvive /\ SessionSurvives /\ ConversationIsTail)
  BY QueriesParts, AtRestOK, CallsAreAttributed, ChunksCover, GraphShowsNeighbourhood, PathsLead,
     AnswersAreGrounded, ExactMatchesAreKept, Survives, TailIsKept, PTL
=============================================================================
