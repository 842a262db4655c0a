------------------------- MODULE ReadingPathProofs --------------------------
(***************************************************************************)
(* Proofs about the reading path, for any symbols, files and calls whose   *)
(* names are ordered, and any limit.  PathInv says that the search finds   *)
(* names in the order of their distance from an entrypoint, and at that    *)
(* distance; the ranking arranges what it found.                           *)
(***************************************************************************)
EXTENDS ReadingPath, ListProofs

(* One name calls another. *)
Pair(l, a, b) == \E c \in ToSet(l.calls) : c.caller = a /\ c.callee = b

TalkedOf(l) == UNION {{c.caller, c.callee} : c \in ToSet(l.calls)}

NamesIn(l, E) == E \union TalkedOf(l)

Onwards(l, E, S) == S \union {b \in NamesIn(l, E) : \E a \in S : Pair(l, a, b)}

(* near[k] are the names at most k calls from E. *)
Nears(near, l, E) ==
  /\ near \in [Nat -> SUBSET NamesIn(l, E)] /\ near[0] = E
  /\ \A k \in Nat : near[k + 1] = Onwards(l, E, near[k])

NearOf == [k \in Nat |-> ReachedBy(k)]

LEMMA NamesAre == Names = NamesIn(layout, EntryNames)
  BY DEF Names, NamesIn, TalkedOf

LEMMA NearOfNears == Nears(NearOf, layout, EntryNames)
  <1> DEFINE E == EntryNames
             N == NamesIn(layout, E)
             T == SUBSET N
             on(S) == Onwards(layout, E, S)
             step == [S \in T |-> on(S)]
             Is(near, d) == near = [n \in 0..d |-> IF n = 0 THEN EntryNames
                               ELSE near[n - 1] \union {b \in Names : \E a \in near[n - 1] : CallsPair(a, b)}]
  <1>1. \A S : on(S) = S \union {b \in Names : \E a \in S : CallsPair(a, b)}
    BY NamesAre DEF Onwards, CallsPair, Pair
  <1>2. E \in T /\ \A S \in T : on(S) \in T
    BY DEF Onwards, NamesIn
  <1> HIDE DEF T, on, E
  <1>3. step \in [T -> T]
    BY <1>2
  <1>4. PICK f : Unfolds(f, T, E, step)
    <2> HIDE DEF step
    <2> QED
      BY <1>2, <1>3, Unfolded
  <1>5. f \in [Nat -> T] /\ f[0] = E /\ \A k \in Nat : f[k + 1] = on(f[k])
    BY <1>4 DEF Unfolds
  <1> HIDE DEF step
  <1>6. ASSUME NEW d \in Nat PROVE ReachedBy(d) = f[d]
    <2> DEFINE g == [n \in 0..d |-> f[n]]
               near == CHOOSE near : Is(near, d)
    <2>1. \A n \in 0..d : n # 0 => n - 1 \in 0..d /\ n - 1 \in Nat /\ (n - 1) + 1 = n
      OBVIOUS
    <2>2. \A n \in 0..d : g[n] = IF n = 0 THEN E ELSE on(g[n - 1])
      BY <2>1, <1>5
    <2>3. Is(g, d)
      <3>1. \A n \in 0..d : g[n] = IF n = 0 THEN EntryNames
                              ELSE g[n - 1] \union {b \in Names : \E a \in g[n - 1] : CallsPair(a, b)}
        BY <2>2, <1>1 DEF E
      <3> DEFINE next(n) == IF n = 0 THEN EntryNames
                            ELSE g[n - 1] \union {b \in Names : \E a \in g[n - 1] : CallsPair(a, b)}
      <3>2. \A n \in 0..d : g[n] = next(n)
        BY <3>1
      <3> HIDE DEF next
      <3>3. g = [n \in 0..d |-> next(n)]
        BY <3>2
      <3> QED
        BY <3>3 DEF next
    <2>4. Is(near, d)
      BY <2>3
    <2>5. ReachedBy(d) = near[d]
      BY DEF ReachedBy
    <2> HIDE DEF near, g
    <2>6. \A n \in 0..d : near[n] = IF n = 0 THEN E ELSE on(near[n - 1])
      <3>1. \A n \in 0..d : near[n] = IF n = 0 THEN EntryNames
                                 ELSE near[n - 1] \union {b \in Names : \E a \in near[n - 1] : CallsPair(a, b)}
        BY <2>4
      <3> QED
        BY <3>1, <1>1 DEF E
    <2> HIDE DEF Is
    <2> DEFINE S == {n \in Nat : n <= d => near[n] = f[n]}
    <2>7. 0 \in S
      <3>1. 0 \in 0..d
        OBVIOUS
      <3>2. near[0] = E
        BY <3>1, <2>6
      <3> QED
        BY <3>2, <1>5
    <2>8. ASSUME NEW n \in Nat, n \in S PROVE n + 1 \in S
      <3> SUFFICES ASSUME n + 1 <= d PROVE near[n + 1] = f[n + 1]
        OBVIOUS
      <3>1. n + 1 \in 0..d /\ n + 1 # 0 /\ (n + 1) - 1 = n /\ near[n] = f[n]
        BY <2>8
      <3> QED
        BY <3>1, <2>6, <1>5
    <2> HIDE DEF S
    <2>9. d \in S
      BY <2>7, <2>8, SetInduction
    <2> QED
      BY <2>5, <2>9 DEF S
  <1> DEFINE near == NearOf
  <1>7. near = [k \in Nat |-> f[k]]
    BY <1>6 DEF NearOf
  <1>8. near = f
    <2> HIDE DEF near
    <2> QED
      BY <1>5, <1>7
  <1> HIDE DEF near
  <1>9. near \in [Nat -> T] /\ near[0] = E /\ \A k \in Nat : near[k + 1] = on(near[k])
    BY <1>5, <1>8
  <1> QED
    BY <1>9 DEF Nears, near, T, E, on
-----------------------------------------------------------------------------
(* k is the distance of n.                                                 *)
First(near, n, k) == k \in Nat /\ n \in near[k] /\ \A j \in 0..(k - 1) : n \notin near[j]

LEMMA CalledIsNear ==
  ASSUME NEW l, NEW E, NEW near, Nears(near, l, E), NEW k \in Nat, NEW a \in near[k], NEW b, Pair(l, a, b)
  PROVE  b \in near[k + 1]
  <1>1. b \in NamesIn(l, E)
    <2>1. PICK c \in ToSet(l.calls) : c.caller = a /\ c.callee = b
      BY DEF Pair
    <2>2. b \in {c.caller, c.callee}
      BY <2>1
    <2> QED
      BY <2>2 DEF NamesIn, TalkedOf
  <1> QED
    BY <1>1 DEF Nears, Onwards

LEMMA NearGrows ==
  ASSUME NEW l, NEW E, NEW near, Nears(near, l, E), NEW k \in Nat, NEW j \in 0..k
  PROVE  near[j] \subseteq near[k]
  <1> DEFINE S == {n \in Nat : \A m \in 0..n : near[m] \subseteq near[n]}
  <1>1. 0 \in S
    OBVIOUS
  <1>2. ASSUME NEW n \in Nat, n \in S PROVE n + 1 \in S
    <2> SUFFICES ASSUME NEW m \in 0..(n + 1) PROVE near[m] \subseteq near[n + 1]
      OBVIOUS
    <2>1. near[n] \subseteq near[n + 1]
      BY DEF Nears, Onwards
    <2>2. m = n + 1 \/ m \in 0..n
      OBVIOUS
    <2> QED
      BY <2>1, <2>2, <1>2
  <1> HIDE DEF S
  <1>3. k \in S
    BY <1>1, <1>2, SetInduction
  <1> QED
    BY <1>3 DEF S

(* Each name but those of E is called by one that is one call nearer.      *)
LEMMA FirstIsCalled ==
  ASSUME NEW l, NEW E, NEW near, Nears(near, l, E), NEW k \in Nat, NEW n, First(near, n, k + 1)
  PROVE  \E m : First(near, m, k) /\ Pair(l, m, n)
  <1>1. k \in 0..((k + 1) - 1)
    OBVIOUS
  <1>2. n \in near[k + 1] /\ n \notin near[k]
    BY <1>1 DEF First
  <1>3. PICK m \in near[k] : Pair(l, m, n)
    BY <1>2 DEF Nears, Onwards
  <1>4. \A j \in 0..(k - 1) : m \notin near[j]
    <2> SUFFICES ASSUME NEW j \in 0..(k - 1), m \in near[j] PROVE FALSE
      OBVIOUS
    <2>1. j \in Nat /\ j + 1 \in 0..((k + 1) - 1)
      OBVIOUS
    <2>2. n \in near[j + 1]
      BY <2>1, <1>3, CalledIsNear
    <2> QED
      BY <2>1, <2>2 DEF First
  <1> QED
    BY <1>3, <1>4 DEF First

LEMMA FirstIsOne ==
  ASSUME NEW near, NEW n, NEW j, First(near, n, j), NEW k, First(near, n, k)
  PROVE  j = k
  <1>1. j \in Nat /\ k \in Nat /\ ~(j \in 0..(k - 1)) /\ ~(k \in 0..(j - 1))
    BY DEF First
  <1> QED
    BY <1>1

LEMMA HasDistance ==
  ASSUME NEW near, NEW k \in Nat, NEW n \in near[k]
  PROVE  \E j \in 0..k : First(near, n, j)
  <1> DEFINE S == {m \in Nat : (\E i \in 0..m : n \in near[i]) => \E j \in 0..m : First(near, n, j)}
  <1>1. 0 \in S
    BY DEF First
  <1>2. ASSUME NEW m \in Nat, m \in S PROVE m + 1 \in S
    <2> SUFFICES ASSUME NEW i \in 0..(m + 1), n \in near[i] PROVE \E j \in 0..(m + 1) : First(near, n, j)
      OBVIOUS
    <2>1. CASE \E h \in 0..m : n \in near[h]
      <3>1. PICK j \in 0..m : First(near, n, j)
        BY <2>1, <1>2
      <3>2. j \in 0..(m + 1)
        OBVIOUS
      <3> QED
        BY <3>1, <3>2
    <2>2. CASE \A h \in 0..m : n \notin near[h]
      <3>1. i = m + 1
        BY <2>2
      <3>2. First(near, n, m + 1)
        BY <3>1, <2>2 DEF First
      <3> QED
        BY <3>2
    <2> QED
      BY <2>1, <2>2
  <1> HIDE DEF S
  <1>3. k \in S
    BY <1>1, <1>2, SetInduction
  <1>4. k \in 0..k
    OBVIOUS
  <1> QED
    BY <1>3, <1>4 DEF S

(* A name at distance k has a name at each smaller distance before it, so  *)
(* there are more than k names.                                            *)
LEMMA DistanceIsBounded ==
  ASSUME NEW l, NEW E, NEW near, Nears(near, l, E), IsFiniteSet(NamesIn(l, E)), NEW n, NEW k, First(near, n, k)
  PROVE  k < Cardinality(NamesIn(l, E))
  <1> DEFINE N == NamesIn(l, E)
             S == {m \in Nat : (\E x : First(near, x, m)) => m < Cardinality(near[m])}
  <1>1. \A m \in Nat : near[m] \in SUBSET N
    BY DEF Nears
  <1> HIDE DEF N
  <1>2. \A m \in Nat : IsFiniteSet(near[m]) /\ Cardinality(near[m]) \in Nat /\ Cardinality(near[m]) <= Cardinality(N)
    <2> TAKE m \in Nat
    <2>1. IsFiniteSet(near[m]) /\ Cardinality(near[m]) <= Cardinality(N)
      BY <1>1, FS_Subset DEF N
    <2> QED
      BY <2>1, FS_CardinalityType
  <1>3. 0 \in S
    <2> SUFFICES ASSUME NEW x, First(near, x, 0) PROVE 0 < Cardinality(near[0])
      OBVIOUS
    <2>1. near[0] # {}
      BY DEF First
    <2>2. Cardinality(near[0]) # 0
      BY <1>2, <2>1, FS_EmptySet
    <2> QED
      BY <1>2, <2>2
  <1>4. ASSUME NEW m \in Nat, m \in S PROVE m + 1 \in S
    <2> SUFFICES ASSUME NEW x, First(near, x, m + 1) PROVE m + 1 < Cardinality(near[m + 1])
      OBVIOUS
    <2>1. PICK y : First(near, y, m)
      BY FirstIsCalled
    <2>2. m < Cardinality(near[m])
      BY <1>4, <2>1
    <2>3. x \in near[m + 1] /\ x \notin near[m]
      <3>1. m \in 0..((m + 1) - 1)
        OBVIOUS
      <3> QED
        BY <3>1 DEF First
    <2>4. near[m] \in SUBSET near[m + 1] /\ near[m] # near[m + 1]
      BY <2>3 DEF Nears, Onwards
    <2>5. IsFiniteSet(near[m + 1]) /\ Cardinality(near[m]) \in Nat /\ Cardinality(near[m + 1]) \in Nat
      BY <1>2
    <2> DEFINE A == near[m]
               B == near[m + 1]
    <2> HIDE DEF A, B
    <2>6. Cardinality(A) <= Cardinality(B) /\ (Cardinality(B) = Cardinality(A) => B = A)
      BY <2>4, <2>5, FS_Subset DEF A, B
    <2> QED
      BY <2>2, <2>4, <2>5, <2>6 DEF A, B
  <1> HIDE DEF S
  <1>5. k \in Nat
    BY DEF First
  <1>6. k \in S
    BY <1>3, <1>4, <1>5, SetInduction
  <1>7. k < Cardinality(near[k])
    BY <1>6 DEF S
  <1>8. Cardinality(N) \in Nat
    BY FS_CardinalityType DEF N
  <1> QED
    BY <1>2, <1>5, <1>7, <1>8 DEF N

LEMMA AllAreReached ==
  ASSUME NEW l, NEW E, NEW near, Nears(near, l, E), IsFiniteSet(NamesIn(l, E)), NEW n
  PROVE  n \in near[Cardinality(NamesIn(l, E))] <=> \E k : First(near, n, k)
  <1> DEFINE c == Cardinality(NamesIn(l, E))
  <1>1. c \in Nat
    BY FS_CardinalityType
  <1> HIDE DEF c
  <1>2. ASSUME n \in near[c] PROVE \E k : First(near, n, k)
    BY <1>1, <1>2, HasDistance
  <1>3. ASSUME NEW k, First(near, n, k) PROVE n \in near[c]
    <2>1. k < c
      BY <1>3, DistanceIsBounded DEF c
    <2>2. k \in 0..c /\ n \in near[k]
      BY <1>1, <1>3, <2>1 DEF First
    <2> QED
      BY <1>1, <2>2, NearGrows
  <1> QED
    BY <1>2, <1>3 DEF c
-----------------------------------------------------------------------------
Items(found, queue) == found \union ToSet(queue)

Has(items, n) == \E d \in items : d.symbol = n

(* What the search found is at its distance; the queue goes from near to   *)
(* far and holds at most two depths; the callees of what was visited, and  *)
(* the names it began with, are found or queued.                           *)
Searching(found, queue, l, E, near) ==
  /\ IsList(queue)
  /\ \A d \in Items(found, queue) :
       d = [symbol |-> d.symbol, depth |-> d.depth] /\ First(near, d.symbol, d.depth)
  /\ \A i, j \in DOMAIN queue : i <= j => queue[i].depth <= queue[j].depth
  /\ \A i \in DOMAIN queue : queue[i].depth <= queue[1].depth + 1
  /\ \A d \in found : \A b : Pair(l, d.symbol, b) => Has(Items(found, queue), b)
  /\ \A e \in E : Has(Items(found, queue), e)

LEMMA QueueHead ==
  ASSUME NEW s, IsList(s), s # <<>>
  PROVE  /\ Len(s) \in Nat /\ Len(s) > 0 /\ DOMAIN s = 1..Len(s) /\ Head(s) = s[1] /\ s[1] \in ToSet(s)
         /\ IsList(Tail(s)) /\ Len(Tail(s)) = Len(s) - 1 /\ DOMAIN Tail(s) = 1..(Len(s) - 1)
         /\ \A i \in DOMAIN Tail(s) : i + 1 \in DOMAIN s /\ Tail(s)[i] = s[i + 1]
         /\ ToSet(s) = {s[1]} \union ToSet(Tail(s))
  <1> DEFINE T == ToSet(s)
             t == Tail(s)
  <1>1. s \in Seq(T)
    BY DEF IsList
  <1>2. \A i \in DOMAIN s : s[i] \in T
    BY ListShape
  <1> HIDE DEF T
  <1>3. Len(s) \in Nat /\ Len(s) > 0 /\ DOMAIN s = 1..Len(s) /\ Head(s) = s[1]
    BY <1>1
  <1>4. t \in Seq(T) /\ Len(t) = Len(s) - 1 /\ DOMAIN t = 1..(Len(s) - 1)
    BY <1>1, <1>3
  <1>5. \A i \in 1..(Len(s) - 1) : i + 1 \in DOMAIN s /\ t[i] = s[i + 1]
    BY <1>1, <1>3
  <1> HIDE DEF t
  <1>6. 1 \in DOMAIN s /\ s[1] \in T
    BY <1>2, <1>3
  <1>7. IsList(t)
    BY <1>4, ListOf
  <1>8. \A i \in DOMAIN s : i = 1 \/ (i - 1 \in DOMAIN t /\ t[i - 1] = s[i])
    <2> TAKE i \in DOMAIN s
    <2>1. i # 1 => i - 1 \in 1..(Len(s) - 1) /\ (i - 1) + 1 = i
      BY <1>3
    <2> QED
      BY <2>1, <1>4, <1>5
  <1>9. ToSet(s) = {s[1]} \union ToSet(t)
    <2>1. \A i \in DOMAIN s : s[i] = s[1] \/ s[i] \in ToSet(t)
      BY <1>8 DEF ToSet
    <2>2. \A i \in DOMAIN t : \E j \in DOMAIN s : t[i] = s[j]
      BY <1>4, <1>5
    <2>3. \A i \in DOMAIN t : t[i] \in ToSet(s)
      BY <2>2 DEF ToSet
    <2>4. s[1] \in ToSet(s)
      BY <1>6 DEF T
    <2>5. ToSet(s) \subseteq {s[1]} \union ToSet(t)
      BY <2>1 DEF ToSet
    <2>6. ToSet(t) \subseteq ToSet(s)
      BY <2>3 DEF ToSet
    <2> QED
      BY <2>4, <2>5, <2>6
  <1>10. Len(t) = Len(s) - 1 /\ DOMAIN t = 1..(Len(s) - 1) /\ \A i \in DOMAIN t : i + 1 \in DOMAIN s /\ t[i] = s[i + 1]
    BY <1>4, <1>5
  <1>11. s[1] \in ToSet(s)
    BY <1>6 DEF T
  <1> QED
    BY <1>3, <1>7, <1>9, <1>10, <1>11, Zenon DEF t

(* Whatever is as near as the head of the queue has been seen.             *)
LEMMA SeenSoFar ==
  ASSUME NEW l, NEW E, NEW near, Nears(near, l, E), NEW found, NEW queue, Searching(found, queue, l, E, near),
         NEW k \in Nat, \A d \in ToSet(queue) : k <= d.depth
  PROVE  \A n \in near[k] : Has(Items(found, queue), n)
  <1> DEFINE seen(n) == Has(Items(found, queue), n)
             S == {m \in Nat : m <= k => \A n \in near[m] : seen(n)}
  <1> HIDE DEF seen
  <1>1. 0 \in S
    BY DEF Nears, Searching, seen
  <1>2. ASSUME NEW m \in Nat, m \in S PROVE m + 1 \in S
    <2> SUFFICES ASSUME m + 1 <= k, NEW n \in near[m + 1] PROVE seen(n)
      OBVIOUS
    <2>1. CASE n \in near[m]
      BY <2>1, <1>2
    <2>2. CASE n \notin near[m]
      <3>1. PICK a \in near[m] : Pair(l, a, n)
        BY <2>2 DEF Nears, Onwards
      <3>2. PICK d \in Items(found, queue) : d.symbol = a
        BY <3>1, <1>2 DEF seen, Has
      <3>3. First(near, a, d.depth)
        BY <3>2 DEF Searching
      <3>4. d.depth <= m /\ d.depth \in Nat
        <4>1. d.depth \in Nat /\ (m \in 0..(d.depth - 1) => a \notin near[m])
          BY <3>3 DEF First
        <4> QED
          BY <4>1, <3>1
      <3>5. d \in found
        <4>1. d \notin ToSet(queue)
          BY <3>4
        <4> QED
          BY <4>1, <3>2 DEF Items
      <3> QED
        BY <3>1, <3>2, <3>5 DEF Searching, seen
    <2> QED
      BY <2>1, <2>2
  <1> HIDE DEF S
  <1>3. k \in S
    BY <1>1, <1>2, SetInduction
  <1> QED
    BY <1>3 DEF S, seen

(* The callees that the head of the queue adds. *)
Adds(names, l, cur, items) ==
  IsList(names) /\ \A b : b \in ToSet(names) <=> Pair(l, cur.symbol, b) /\ ~Has(items, b)

LEMMA AtDepthIs ==
  ASSUME NEW names, IsList(names), NEW k
  PROVE  /\ IsList(AtDepth(names, k)) /\ DOMAIN AtDepth(names, k) = DOMAIN names
         /\ \A i \in DOMAIN names : AtDepth(names, k)[i] = [symbol |-> names[i], depth |-> k]
         /\ ToSet(AtDepth(names, k)) = {[symbol |-> n, depth |-> k] : n \in ToSet(names)}
  <1> DEFINE t == AtDepth(names, k)
  <1>1. t = [i \in DOMAIN names |-> [symbol |-> names[i], depth |-> k]]
    BY DEF AtDepth
  <1>2. DOMAIN names = 1..Len(names) /\ Len(names) \in Nat
    BY ListShape
  <1> HIDE DEF t
  <1>3. DOMAIN t = 1..Len(names) /\ t = [i \in 1..Len(names) |-> t[i]]
    BY <1>1, <1>2
  <1>4. IsList(t)
    BY <1>2, <1>3, ListOfFunction
  <1>5. \A i \in DOMAIN names : t[i] = [symbol |-> names[i], depth |-> k]
    BY <1>1
  <1>6. ToSet(t) = {[symbol |-> n, depth |-> k] : n \in ToSet(names)}
    BY <1>2, <1>3, <1>5 DEF ToSet
  <1> QED
    BY <1>2, <1>3, <1>4, <1>5, <1>6 DEF t

LEMMA VisitSearches ==
  ASSUME NEW l, NEW E, NEW near, Nears(near, l, E), NEW found, NEW queue, Searching(found, queue, l, E, near),
         queue # <<>>, NEW cur, cur = Head(queue), NEW names, Adds(names, l, cur, Items(found, queue))
  PROVE  Searching(found \union {cur}, Tail(queue) \o AtDepth(names, cur.depth + 1), l, E, near)
  <1> DEFINE k == cur.depth
             rest == Tail(queue)
             more == AtDepth(names, k + 1)
             all == Items(found, queue)
             f2 == found \union {cur}
             q2 == rest \o more
  <1>1. /\ IsList(queue) /\ Len(queue) \in Nat /\ Len(queue) > 0 /\ DOMAIN queue = 1..Len(queue)
        /\ cur = queue[1] /\ cur \in ToSet(queue)
    BY QueueHead DEF Searching
  <1>2. /\ IsList(rest) /\ Len(rest) = Len(queue) - 1 /\ DOMAIN rest = 1..(Len(queue) - 1)
        /\ \A i \in DOMAIN rest : i + 1 \in DOMAIN queue /\ rest[i] = queue[i + 1]
        /\ ToSet(queue) = {cur} \union ToSet(rest)
    BY <1>1, QueueHead
  <1>3. cur \in all /\ k \in Nat /\ cur.symbol \in near[k] /\ First(near, cur.symbol, k)
    <2>1. cur \in all
      BY <1>1 DEF Items
    <2> HIDE DEF all
    <2>2. First(near, cur.symbol, cur.depth)
      BY <2>1 DEF Searching, all
    <2> QED
      BY <2>1, <2>2 DEF First
  <1>4. \A i \in DOMAIN queue : queue[i].depth \in Nat /\ k <= queue[i].depth /\ queue[i].depth <= k + 1
    <2> TAKE i \in DOMAIN queue
    <2>1. queue[i] \in all
      BY DEF Items, ToSet
    <2> HIDE DEF all
    <2>2. queue[i].depth \in Nat
      BY <2>1 DEF Searching, First, all
    <2>3. queue[1].depth <= queue[i].depth /\ queue[i].depth <= queue[1].depth + 1
      <3>1. 1 \in DOMAIN queue /\ 1 <= i
        BY <1>1
      <3> QED
        BY <3>1 DEF Searching
    <2> QED
      BY <1>1, <2>2, <2>3
  <1>5. \A n \in near[k] : Has(all, n)
    <2>1. \A d \in ToSet(queue) : k <= d.depth
      BY <1>4 DEF ToSet
    <2> QED
      BY <1>3, <2>1, SeenSoFar
  <1>6. /\ IsList(more) /\ DOMAIN more = DOMAIN names
        /\ \A i \in DOMAIN names : more[i] = [symbol |-> names[i], depth |-> k + 1]
        /\ ToSet(more) = {[symbol |-> n, depth |-> k + 1] : n \in ToSet(names)}
    BY AtDepthIs DEF Adds
  <1> HIDE DEF k, rest, more, all
  <1>7. \A n \in ToSet(names) : First(near, n, k + 1)
    <2> TAKE n \in ToSet(names)
    <2>1. Pair(l, cur.symbol, n) /\ ~Has(all, n)
      BY DEF Adds, all
    <2>2. n \in near[k + 1]
      BY <1>3, <2>1, CalledIsNear
    <2>3. \A j \in 0..((k + 1) - 1) : n \notin near[j]
      <3> SUFFICES ASSUME NEW j \in 0..((k + 1) - 1), n \in near[j] PROVE FALSE
        OBVIOUS
      <3>1. j \in 0..k
        BY <1>3
      <3>2. n \in near[k]
        BY <1>3, <3>1, NearGrows
      <3> QED
        BY <1>5, <2>1, <3>2
    <2> QED
      BY <1>3, <2>2, <2>3 DEF First
  <1>8. /\ IsList(q2) /\ ToSet(q2) = ToSet(rest) \union ToSet(more)
        /\ \A i \in DOMAIN q2 : \/ i \in DOMAIN rest /\ q2[i] = rest[i]
                                \/ i \notin DOMAIN rest /\ i - Len(rest) \in DOMAIN more /\ q2[i] = more[i - Len(rest)]
    <2>1. /\ IsList(q2) /\ ToSet(q2) = ToSet(rest) \union ToSet(more)
          /\ \A i \in DOMAIN rest : i \in DOMAIN q2 /\ q2[i] = rest[i]
          /\ \A i \in DOMAIN q2 \ DOMAIN rest : i - Len(rest) \in DOMAIN more /\ q2[i] = more[i - Len(rest)]
      BY <1>2, <1>6, ListsJoined
    <2> QED
      BY <2>1
  <1>9. Items(f2, q2) = all \union ToSet(more)
    BY <1>2, <1>8 DEF Items, all
  <1> HIDE DEF f2, q2
  <1>10. \A d \in Items(f2, q2) : d = [symbol |-> d.symbol, depth |-> d.depth] /\ First(near, d.symbol, d.depth)
    <2>1. \A d \in all : d = [symbol |-> d.symbol, depth |-> d.depth] /\ First(near, d.symbol, d.depth)
      BY DEF Searching, all
    <2>2. \A d \in ToSet(more) : d = [symbol |-> d.symbol, depth |-> d.depth] /\ First(near, d.symbol, d.depth)
      BY <1>6, <1>7
    <2> QED
      BY <1>9, <2>1, <2>2
  <1>11. \A i \in DOMAIN q2 : /\ q2[i].depth \in Nat /\ k <= q2[i].depth /\ q2[i].depth <= k + 1
                              /\ i \notin DOMAIN rest => q2[i].depth = k + 1
    <2> TAKE i \in DOMAIN q2
    <2>1. CASE i \in DOMAIN rest /\ q2[i] = rest[i]
      <3>1. i + 1 \in DOMAIN queue /\ q2[i] = queue[i + 1]
        BY <2>1, <1>2
      <3> QED
        BY <2>1, <3>1, <1>4
    <2>2. CASE i \notin DOMAIN rest /\ i - Len(rest) \in DOMAIN more /\ q2[i] = more[i - Len(rest)]
      <3>1. q2[i].depth = k + 1
        BY <2>2, <1>6
      <3> QED
        BY <3>1, <1>3
    <2> QED
      BY <1>8, <2>1, <2>2
  <1>12. DOMAIN q2 = 1..Len(q2) /\ Len(q2) \in Nat
    BY <1>8, ListShape
  <1>13. \A i, j \in DOMAIN q2 : i <= j => q2[i].depth <= q2[j].depth
    <2> SUFFICES ASSUME NEW i \in DOMAIN q2, NEW j \in DOMAIN q2, i <= j PROVE q2[i].depth <= q2[j].depth
      OBVIOUS
    <2>1. CASE j \in DOMAIN rest
      <3>1. i \in DOMAIN rest /\ i \in Nat /\ j \in Nat
        BY <2>1, <1>1, <1>2, <1>12
      <3>2. q2[i] = queue[i + 1] /\ q2[j] = queue[j + 1] /\ i + 1 \in DOMAIN queue /\ j + 1 \in DOMAIN queue
        BY <2>1, <3>1, <1>2, <1>8
      <3>3. i + 1 <= j + 1
        BY <3>1
      <3>4. queue[i + 1].depth <= queue[j + 1].depth
        BY <3>2, <3>3 DEF Searching
      <3> QED
        BY <3>2, <3>4
    <2>2. CASE j \notin DOMAIN rest
      BY <2>2, <1>3, <1>11
    <2> QED
      BY <2>1, <2>2
  <1>14. \A i \in DOMAIN q2 : q2[i].depth <= q2[1].depth + 1
    <2> TAKE i \in DOMAIN q2
    <2>1. 1 \in DOMAIN q2
      BY <1>12
    <2> QED
      BY <2>1, <1>3, <1>11
  <1>15. \A d \in f2 : \A b : Pair(l, d.symbol, b) => Has(Items(f2, q2), b)
    <2> SUFFICES ASSUME NEW d \in f2, NEW b, Pair(l, d.symbol, b) PROVE Has(Items(f2, q2), b)
      OBVIOUS
    <2>1. CASE Has(all, b)
      BY <2>1, <1>9 DEF Has
    <2>2. CASE ~Has(all, b)
      <3>1. d = cur
        <4>1. d \notin found
          BY <2>2 DEF Searching, all
        <4> QED
          BY <4>1 DEF f2
      <3>2. b \in ToSet(names)
        BY <2>2, <3>1 DEF Adds, all
      <3>3. [symbol |-> b, depth |-> k + 1] \in ToSet(more)
        BY <3>2, <1>6
      <3> QED
        BY <3>3, <1>9 DEF Has
    <2> QED
      BY <2>1, <2>2
  <1>16. \A e \in E : Has(Items(f2, q2), e)
    <2>1. \A e \in E : Has(all, e)
      BY DEF Searching, all
    <2> QED
      BY <2>1, <1>9 DEF Has
  <1>17. Searching(f2, q2, l, E, near)
    BY <1>8, <1>10, <1>13, <1>14, <1>15, <1>16 DEF Searching
  <1> QED
    BY <1>17 DEF f2, q2, rest, more, k

(* What is known once the search is over: each name that can be reached,   *)
(* at its distance; without an entrypoint, each name of the calls.         *)
Place(l, E, near, n, k) == IF E = {} THEN n \in TalkedOf(l) /\ k = 1 ELSE First(near, n, k)

AllPlaced(found, l, E, near) ==
  /\ \A d \in found : d = [symbol |-> d.symbol, depth |-> d.depth]
  /\ \A n, k : [symbol |-> n, depth |-> k] \in found <=> Place(l, E, near, n, k)

LEMMA SearchIsComplete ==
  ASSUME NEW l, NEW E, E # {}, NEW near, Nears(near, l, E), NEW found, Searching(found, <<>>, l, E, near)
  PROVE  AllPlaced(found, l, E, near)
  <1>1. Items(found, <<>>) = found
    BY EmptyList DEF Items
  <1>2. ASSUME NEW n, NEW k, First(near, n, k) PROVE [symbol |-> n, depth |-> k] \in found
    <2>1. k \in Nat /\ n \in near[k] /\ \A d \in ToSet(<<>>) : k <= d.depth
      BY <1>2, EmptyList DEF First
    <2>2. PICK d \in found : d.symbol = n
      <3>1. \A x \in near[k] : Has(Items(found, <<>>), x)
        BY <2>1, SeenSoFar
      <3> QED
        BY <3>1, <2>1, <1>1 DEF Has
    <2>3. d = [symbol |-> d.symbol, depth |-> d.depth] /\ First(near, n, d.depth)
      BY <2>2, <1>1 DEF Searching
    <2>4. d.depth = k
      BY <2>3, <1>2, FirstIsOne
    <2> QED
      BY <2>2, <2>3, <2>4
  <1>3. \A d \in found : d = [symbol |-> d.symbol, depth |-> d.depth] /\ First(near, d.symbol, d.depth)
    BY <1>1 DEF Searching
  <1>4. ASSUME NEW n, NEW k, [symbol |-> n, depth |-> k] \in found PROVE First(near, n, k)
    <2> DEFINE d == [symbol |-> n, depth |-> k]
    <2>1. d.symbol = n /\ d.depth = k
      OBVIOUS
    <2> HIDE DEF d
    <2>2. d \in found
      BY <1>4 DEF d
    <2> QED
      BY <2>1, <2>2, <1>3
  <1> QED
    BY <1>2, <1>3, <1>4 DEF AllPlaced, Place

(* Filtering and mapping a list.                                           *)
LEMMA RowsAt ==
  ASSUME NEW s, IsList(s), NEW S \in SUBSET DOMAIN s
  PROVE  IsList(OnlyAt(s, S)) /\ ToSet(OnlyAt(s, S)) = {s[i] : i \in S}
  <1>1. Keeps(OnlyAt(s, S), s, InOrder(S), S)
    BY OnlyAtKeeps
  <1>2. ToSet(OnlyAt(s, S)) = {s[i] : i \in S}
    BY <1>1, KeptRows
  <1> QED
    BY <1>1, <1>2 DEF Keeps

LEMMA EachRow ==
  ASSUME NEW s, IsList(s), NEW t, DOMAIN t = DOMAIN s, t = [i \in DOMAIN s |-> t[i]]
  PROVE  IsList(t) /\ ToSet(t) = {t[i] : i \in DOMAIN s}
  <1>1. DOMAIN s = 1..Len(s) /\ Len(s) \in Nat
    BY ListShape
  <1>2. IsList(t)
    BY <1>1, ListOfFunction
  <1> QED
    BY <1>2 DEF ToSet

Discovered(calls, sym, seen) ==
  LET callees == OnlyAt(calls, {i \in DOMAIN calls : calls[i].caller = sym})
      all == Distinct([i \in DOMAIN callees |-> callees[i].callee])
  IN  OnlyAt(all, {i \in DOMAIN all : all[i] \notin seen})

LEMMA DiscoveredNames ==
  ASSUME NEW calls, IsList(calls), NEW sym, NEW seen
  PROVE  /\ IsList(Discovered(calls, sym, seen))
         /\ \A b : b \in ToSet(Discovered(calls, sym, seen)) <=>
              (\E c \in ToSet(calls) : c.caller = sym /\ c.callee = b) /\ b \notin seen
  <1> DEFINE C == {i \in DOMAIN calls : calls[i].caller = sym}
             callees == OnlyAt(calls, C)
             raw == [i \in DOMAIN callees |-> callees[i].callee]
             all == Distinct(raw)
             U == {i \in DOMAIN all : all[i] \notin seen}
             names == OnlyAt(all, U)
  <1>1. names = Discovered(calls, sym, seen)
    BY DEF Discovered
  <1>2. C \in SUBSET DOMAIN calls /\ \A i \in C : calls[i].caller = sym
    OBVIOUS
  <1>3. \A c \in ToSet(calls) : c.caller = sym => \E i \in C : calls[i] = c
    BY DEF ToSet
  <1>4. \A i \in C : calls[i] \in ToSet(calls)
    BY DEF ToSet
  <1> HIDE DEF C
  <1>5. IsList(callees) /\ ToSet(callees) = {calls[i] : i \in C}
    BY <1>2, RowsAt
  <1> HIDE DEF callees
  <1>6. DOMAIN raw = DOMAIN callees /\ raw = [i \in DOMAIN callees |-> raw[i]] /\ \A i \in DOMAIN callees : raw[i] = callees[i].callee
    OBVIOUS
  <1> HIDE DEF raw
  <1>7. IsList(raw) /\ ToSet(raw) = {raw[i] : i \in DOMAIN callees}
    BY <1>5, <1>6, EachRow
  <1>8. IsList(all) /\ ToSet(all) = ToSet(raw)
    BY <1>7, DistinctList
  <1> HIDE DEF all
  <1>9. U \in SUBSET DOMAIN all /\ \A i \in U : all[i] \notin seen
    OBVIOUS
  <1>10. \A i \in DOMAIN all : all[i] \notin seen => i \in U
    OBVIOUS
  <1> HIDE DEF U
  <1>11. IsList(names) /\ ToSet(names) = {all[i] : i \in U}
    BY <1>8, <1>9, RowsAt
  <1> HIDE DEF names
  <1>12. \A b : b \in ToSet(names) <=> b \in ToSet(all) /\ b \notin seen
    BY <1>9, <1>10, <1>11 DEF ToSet
  <1>13. \A b : b \in ToSet(raw) <=> \E c \in ToSet(callees) : c.callee = b
    BY <1>6, <1>7 DEF ToSet
  <1>14. \A c : c \in ToSet(callees) <=> c \in ToSet(calls) /\ c.caller = sym
    BY <1>2, <1>3, <1>4, <1>5
  <1>15. \A b : b \in ToSet(names) <=> (\E c \in ToSet(calls) : c.caller = sym /\ c.callee = b) /\ b \notin seen
    BY <1>8, <1>12, <1>13, <1>14
  <1> QED
    BY <1>1, <1>11, <1>15
-----------------------------------------------------------------------------
(* The entrypoints of what the request knows.                              *)
LEMMA EntriesAre ==
  ASSUME IsList(layout.symbols)
  PROVE  /\ IsList(DetectEntrypoints) /\ (DetectEntrypoints # <<>> <=> EntryNames # {})
         /\ ToSet(DetectEntrypoints) = {s \in ToSet(layout.symbols) : IsEntrypoint(s)}
  <1> DEFINE s == layout.symbols
             S == {i \in DOMAIN s : IsEntrypoint(s[i])}
             e == DetectEntrypoints
  <1>1. e = OnlyAt(s, S)
    BY DEF DetectEntrypoints, Where
  <1>2. S \in SUBSET DOMAIN s /\ IsList(s) /\ \A i \in DOMAIN s : i \in S <=> IsEntrypoint(s[i])
    OBVIOUS
  <1> HIDE DEF s, S, e
  <1>3. IsList(e) /\ ToSet(e) = {s[i] : i \in S}
    BY <1>1, <1>2, RowsAt
  <1>4. ToSet(e) = {x \in ToSet(s) : IsEntrypoint(x)}
    BY <1>2, <1>3 DEF ToSet
  <1>5. e # <<>> <=> ToSet(e) # {}
    <2>1. ASSUME e # <<>> PROVE ToSet(e) # {}
      BY <2>1, <1>3, QueueHead
    <2> QED
      BY <2>1, EmptyList
  <1>6. EntryNames = {x.name : x \in ToSet(e)}
    BY DEF EntryNames, e
  <1>7. EntryNames # {} <=> ToSet(e) # {}
    BY <1>6
  <1> QED
    BY <1>3, <1>4, <1>5, <1>7 DEF e, s

StartQueue(entries) == AtDepth(Distinct([i \in DOMAIN entries |-> entries[i].name]), 0)

LEMMA StartSearches ==
  ASSUME NEW e, IsList(e), NEW E, E = {x.name : x \in ToSet(e)}, NEW l, NEW near, Nears(near, l, E)
  PROVE  Searching({}, StartQueue(e), l, E, near)
  <1> DEFINE raw == [i \in DOMAIN e |-> e[i].name]
             names == Distinct(raw)
             q == AtDepth(names, 0)
  <1>1. q = StartQueue(e)
    BY DEF StartQueue
  <1>2. DOMAIN raw = DOMAIN e /\ raw = [i \in DOMAIN e |-> raw[i]] /\ \A i \in DOMAIN e : raw[i] = e[i].name
    OBVIOUS
  <1> HIDE DEF raw
  <1>3. IsList(raw) /\ ToSet(raw) = {raw[i] : i \in DOMAIN e}
    BY <1>2, EachRow
  <1>4. ToSet(raw) = E
    BY <1>2, <1>3 DEF ToSet
  <1>5. IsList(names) /\ ToSet(names) = E
    BY <1>3, <1>4, DistinctList
  <1> HIDE DEF names
  <1>6. /\ IsList(q) /\ DOMAIN q = DOMAIN names /\ \A i \in DOMAIN names : q[i] = [symbol |-> names[i], depth |-> 0]
        /\ ToSet(q) = {[symbol |-> n, depth |-> 0] : n \in E}
    BY <1>5, AtDepthIs
  <1> HIDE DEF q
  <1>7. \A n \in E : First(near, n, 0)
    BY DEF First, Nears
  <1>8. Items({}, q) = ToSet(q)
    BY DEF Items
  <1>9. \A d \in Items({}, q) : d = [symbol |-> d.symbol, depth |-> d.depth] /\ First(near, d.symbol, d.depth)
    BY <1>6, <1>7, <1>8
  <1>10. \A i \in DOMAIN q : q[i].depth = 0
    BY <1>6
  <1>11. \A n \in E : Has(Items({}, q), n)
    <2> TAKE n \in E
    <2>1. [symbol |-> n, depth |-> 0] \in Items({}, q)
      BY <1>6, <1>8
    <2> QED
      BY <2>1 DEF Has
  <1>12. \A i \in DOMAIN q : 1 \in DOMAIN q
    <2>1. DOMAIN q = 1..Len(q) /\ Len(q) \in Nat
      BY <1>6, ListShape
    <2> QED
      BY <2>1
  <1> QED
    BY <1>1, <1>6, <1>9, <1>10, <1>11, <1>12 DEF Searching
-----------------------------------------------------------------------------
Sound(r, l, E) ==
  /\ r.pc \in {"idle", "start", "search", "rank", "done"}
  /\ r = [pc |-> r.pc, known |-> r.known, queue |-> r.queue, order |-> r.order, steps |-> r.steps]
  /\ r.pc \in {"idle", "start"} => r.order = {} /\ r.queue = <<>>
  /\ r.pc = "search" => E # {} /\ \A near : Nears(near, l, E) => Searching(r.order, r.queue, l, E, near)
  /\ r.pc \in {"rank", "done"} => \A near : Nears(near, l, E) => AllPlaced(r.order, l, E, near)

StepsFor(found) == LET kept == Take(Ranked(found), MaxSteps) IN [i \in DOMAIN kept |-> StepOf(kept[i].symbol)]

PathInv ==
  /\ layout \in Layouts
  /\ Sound(reading, layout, EntryNames)
  /\ reading.pc = "done" => reading.steps = StepsFor(reading.order)

(* One turn of the search and the start of it, of constants.               *)
Started(r, s, l, E, entries) ==
  /\ r.pc = "start"
  /\ s = IF entries # <<>> THEN [r EXCEPT !.pc = "search", !.queue = StartQueue(entries)]
         ELSE [r EXCEPT !.pc = "rank", !.order = {[symbol |-> n, depth |-> 1] : n \in TalkedOf(l)}]

Visited(r, s, l) ==
  /\ r.pc = "search" /\ r.queue # <<>>
  /\ s = [r EXCEPT !.order = r.order \union {Head(r.queue)},
            !.queue = Tail(r.queue) \o AtDepth(Discovered(l.calls, Head(r.queue).symbol,
                                                 {d.symbol : d \in Items(r.order, r.queue)}), Head(r.queue).depth + 1)]

LEMMA StartedSound ==
  ASSUME NEW r, NEW s, NEW l, NEW E, NEW e, IsList(e), E = {x.name : x \in ToSet(e)}, e # <<>> <=> E # {},
         Sound(r, l, E), Started(r, s, l, E, e)
  PROVE  Sound(s, l, E)
  <1>1. r = [pc |-> r.pc, known |-> r.known, queue |-> r.queue, order |-> r.order, steps |-> r.steps]
    BY DEF Sound
  <1>2. r.order = {}
    BY DEF Sound, Started
  <1>3. CASE e # <<>>
    <2> DEFINE q == StartQueue(e)
    <2> HIDE DEF q
    <2>1. s = [r EXCEPT !.pc = "search", !.queue = q]
      BY <1>3 DEF Started, q
    <2>2. s = [pc |-> "search", known |-> r.known, queue |-> q, order |-> {}, steps |-> r.steps]
      BY <1>1, <1>2, <2>1
    <2>3. \A near : Nears(near, l, E) => Searching({}, q, l, E, near)
      BY StartSearches DEF q
    <2> QED
      BY <1>3, <2>2, <2>3 DEF Sound
  <1>4. CASE e = <<>>
    <2> DEFINE f == {[symbol |-> n, depth |-> 1] : n \in TalkedOf(l)}
    <2>1. s = [r EXCEPT !.pc = "rank", !.order = f]
      BY <1>4 DEF Started
    <2>2. \A d \in f : d = [symbol |-> d.symbol, depth |-> d.depth]
      OBVIOUS
    <2>3. ASSUME NEW n, NEW k PROVE [symbol |-> n, depth |-> k] \in f <=> n \in TalkedOf(l) /\ k = 1
      <3>1. ASSUME [symbol |-> n, depth |-> k] \in f PROVE n \in TalkedOf(l) /\ k = 1
        <4>1. PICK m \in TalkedOf(l) : [symbol |-> n, depth |-> k] = [symbol |-> m, depth |-> 1]
          BY <3>1
        <4>2. [symbol |-> n, depth |-> k].symbol = n /\ [symbol |-> n, depth |-> k].depth = k
          OBVIOUS
        <4> QED
          BY <4>1, <4>2
      <3> QED
        BY <3>1
    <2> HIDE DEF f
    <2>4. \A near : AllPlaced(f, l, E, near)
      BY <1>4, <2>2, <2>3 DEF AllPlaced, Place
    <2>5. s = [pc |-> "rank", known |-> r.known, queue |-> r.queue, order |-> f, steps |-> r.steps]
      BY <1>1, <2>1
    <2> QED
      BY <2>4, <2>5 DEF Sound
  <1> QED
    BY <1>3, <1>4

LEMMA VisitedSound ==
  ASSUME NEW r, NEW s, NEW l, IsList(l.calls), NEW E, Sound(r, l, E), Visited(r, s, l)
  PROVE  Sound(s, l, E)
  <1> DEFINE found == r.order
             queue == r.queue
             cur == Head(queue)
             sym == cur.symbol
             calls == l.calls
             items == Items(found, queue)
             seen == {d.symbol : d \in items}
             names == Discovered(calls, sym, seen)
             q == Tail(queue) \o AtDepth(names, cur.depth + 1)
             f == found \union {cur}
  <1>1. r = [pc |-> r.pc, known |-> r.known, queue |-> queue, order |-> found, steps |-> r.steps]
    BY DEF Sound
  <1>2. E # {} /\ queue # <<>> /\ \A near : Nears(near, l, E) => Searching(found, queue, l, E, near)
    BY DEF Sound, Visited
  <1>3. s = [r EXCEPT !.order = f, !.queue = q]
    BY DEF Visited
  <1>4. \A b : b \in seen <=> Has(items, b)
    BY DEF Has
  <1>5. \A b : Pair(l, sym, b) <=> \E c \in ToSet(calls) : c.caller = sym /\ c.callee = b
    BY DEF Pair
  <1>6. IsList(calls) /\ r.pc = "search"
    BY DEF Visited
  <1> HIDE DEF seen, calls, items, sym
  <1>7. /\ IsList(names)
        /\ \A b : b \in ToSet(names) <=> (\E c \in ToSet(calls) : c.caller = sym /\ c.callee = b) /\ b \notin seen
    BY <1>6, DiscoveredNames
  <1> HIDE DEF names
  <1>8. Adds(names, l, cur, items)
    BY <1>4, <1>5, <1>7 DEF Adds, sym
  <1> HIDE DEF found, queue
  <1>9. ASSUME NEW near, Nears(near, l, E) PROVE Searching(f, q, l, E, near)
    <2>1. Searching(found, queue, l, E, near)
      BY <1>2, <1>9
    <2>2. Adds(names, l, cur, Items(found, queue))
      BY <1>8 DEF items
    <2> DEFINE c == cur
    <2>3. c = Head(queue) /\ Adds(names, l, c, Items(found, queue))
      BY <2>2
    <2> HIDE DEF c
    <2>4. Searching(found \union {c}, Tail(queue) \o AtDepth(names, c.depth + 1), l, E, near)
      BY <1>2, <1>9, <2>1, <2>3, VisitSearches
    <2> QED
      BY <2>4 DEF c
  <1> HIDE DEF f, q
  <1>10. s = [pc |-> "search", known |-> r.known, queue |-> q, order |-> f, steps |-> r.steps]
    BY <1>1, <1>3, <1>6
  <1> QED
    BY <1>2, <1>9, <1>10 DEF Sound

LEMMA EntryNamesStay ==
  ASSUME layout' = layout, reading'.known = reading.known
  PROVE  EntryNames' = EntryNames
  BY DEF EntryNames, DetectEntrypoints, Where, IsEntrypoint, FileOf

LEMMA StepsStay ==
  ASSUME layout' = layout, reading'.known = reading.known, reading'.order = reading.order
  PROVE  StepsFor(reading.order)' = StepsFor(reading.order)
  BY DEF StepsFor, Ranked, Before, CallerCount, StepOf, IsEntrypoint, FileOf, Where

(* The search finds every name at its distance, and the steps are those    *)
(* that rank first.                                                        *)
THEOREM PathInvariant == PathSpec => []PathInv
  <1>1. PathInit => PathInv
    BY DEF PathInit, PathInv, Sound, NoPathYet
  <1>2. ASSUME PathInv, [PathNext]_pathVars PROVE PathInv'
    <2> DEFINE l == layout
               E == EntryNames
               r == reading
               s == reading'
    <2>1. l \in Layouts /\ Sound(r, l, E) /\ (r.pc = "done" => r.steps = StepsFor(r.order))
      BY <1>2 DEF PathInv
    <2>2. IsList(l.calls) /\ IsList(l.symbols)
      BY <2>1, PathAssumption
    <2>3. CASE ReadFiles
      <3>1. layout' = layout /\ s.pc = "start" /\ r.pc = "idle" /\ s.order = r.order /\ s.queue = r.queue
            /\ s = [pc |-> s.pc, known |-> s.known, queue |-> s.queue, order |-> s.order, steps |-> s.steps]
        BY <2>3, <2>1 DEF ReadFiles, Sound
      <3>2. Sound(s, layout', EntryNames')
        BY <2>1, <3>1 DEF Sound
      <3> QED
        BY <2>1, <3>1, <3>2 DEF PathInv
    <2>4. CASE StartPath
      <3> DEFINE e == DetectEntrypoints
      <3>1. layout' = layout /\ Started(r, s, l, E, e)
        BY <2>4 DEF StartPath, Started, StartQueue, TalkedOf
      <3>2. IsList(e) /\ (e # <<>> <=> E # {}) /\ E = {x.name : x \in ToSet(e)}
        BY <2>2, EntriesAre DEF EntryNames
      <3>3. s.known = r.known /\ s.pc # "done"
        BY <2>1, <3>1 DEF Started, Sound
      <3>4. E' = E
        BY <3>1, <3>3, EntryNamesStay
      <3> HIDE DEF e, E, r, s, l
      <3>5. Sound(s, l, E)
        BY <2>1, <3>1, <3>2, StartedSound
      <3> QED
        BY <2>1, <3>1, <3>3, <3>4, <3>5 DEF PathInv, E, r, s, l
    <2>5. CASE Visit
      <3>1. layout' = layout /\ Visited(r, s, l)
        BY <2>5 DEF Visit, Visited, Discovered, Where, Seen, Items, Enqueue
      <3>2. s.known = r.known /\ s.pc # "done"
        BY <2>1, <3>1 DEF Visited, Sound
      <3>3. E' = E
        BY <3>1, <3>2, EntryNamesStay
      <3> HIDE DEF E, r, s, l
      <3>4. Sound(s, l, E)
        BY <2>1, <2>2, <3>1, VisitedSound
      <3> QED
        BY <2>1, <3>1, <3>2, <3>3, <3>4 DEF PathInv, E, r, s, l
    <2>6. CASE Searched
      <3>1. layout' = layout /\ r.pc = "search" /\ r.queue = <<>> /\ s = [r EXCEPT !.pc = "rank"]
        BY <2>6 DEF Searched
      <3>2. s.known = r.known /\ s.pc = "rank" /\ s.order = r.order /\ s.queue = <<>>
            /\ s = [pc |-> s.pc, known |-> s.known, queue |-> s.queue, order |-> s.order, steps |-> s.steps]
        BY <2>1, <3>1 DEF Sound
      <3>3. E' = E
        BY <3>1, <3>2, EntryNamesStay
      <3> DEFINE f == r.order
      <3>4. E # {} /\ \A near : Nears(near, l, E) => Searching(f, <<>>, l, E, near)
        BY <2>1, <3>1 DEF Sound
      <3> HIDE DEF E, r, s, l, f
      <3>5. \A near : Nears(near, l, E) => AllPlaced(f, l, E, near)
        BY <3>4, SearchIsComplete
      <3>6. Sound(s, l, E)
        BY <3>2, <3>5 DEF Sound, f
      <3> QED
        BY <2>1, <3>1, <3>2, <3>3, <3>6 DEF PathInv, E, r, s, l
    <2>7. CASE RankSteps
      <3>1. layout' = layout /\ r.pc = "rank" /\ s = [r EXCEPT !.pc = "done", !.steps = StepsFor(r.order)]
        BY <2>7 DEF RankSteps, StepsFor
      <3> DEFINE t == StepsFor(r.order)
      <3> HIDE DEF t
      <3>2. s.known = r.known /\ s.pc = "done" /\ s.order = r.order /\ s.queue = r.queue /\ s.steps = t
            /\ s = [pc |-> s.pc, known |-> s.known, queue |-> s.queue, order |-> s.order, steps |-> s.steps]
        BY <2>1, <3>1 DEF Sound, t
      <3>3. E' = E
        BY <3>1, <3>2, EntryNamesStay
      <3>4. StepsFor(reading.order)' = t
        BY <3>1, <3>2, StepsStay DEF t
      <3>5. Sound(s, l, E)
        BY <2>1, <3>1, <3>2 DEF Sound
      <3> HIDE DEF E, l
      <3>6. layout' \in Layouts /\ Sound(reading', layout', EntryNames') /\ reading'.steps = StepsFor(reading.order)'
        BY <2>1, <3>1, <3>2, <3>3, <3>4, <3>5 DEF E, l
      <3> QED
        BY <3>6 DEF PathInv
    <2>8. CASE UNCHANGED pathVars
      <3>1. layout' = layout /\ reading' = reading
        BY <2>8 DEF pathVars
      <3>2. E' = E
        BY <3>1, EntryNamesStay
      <3>3. StepsFor(reading.order)' = StepsFor(reading.order)
        BY <3>1, StepsStay
      <3> QED
        BY <2>1, <3>1, <3>2, <3>3 DEF PathInv
    <2> QED
      BY <1>2, <2>3, <2>4, <2>5, <2>6, <2>7, <2>8 DEF PathNext
  <1> QED
    BY <1>1, <1>2, PTL DEF PathSpec
-----------------------------------------------------------------------------
(* The names are finitely many numbers.                                    *)
LEMMA TalkedAreNumbers ==
  ASSUME layout \in Layouts
  PROVE  TalkedOf(layout) \subseteq Int /\ IsFiniteSet(TalkedOf(layout))
  <1> DEFINE C == ToSet(layout.calls)
             f == [c \in C |-> {c.caller, c.callee}]
             P == {f[c] : c \in C}
  <1>1. IsList(layout.calls) /\ \A c \in C : c.caller \in Int /\ c.callee \in Int
    BY PathAssumption
  <1>2. IsFiniteSet(C)
    BY <1>1, ListIsFinite
  <1>3. \A c \in C : f[c] = {c.caller, c.callee}
    OBVIOUS
  <1>4. \A c \in C : IsFiniteSet(f[c])
    <2> TAKE c \in C
    <2>1. IsFiniteSet({c.caller}) /\ IsFiniteSet({c.callee})
      BY FS_Singleton
    <2>2. IsFiniteSet({c.caller} \union {c.callee})
      BY <2>1, FS_Union
    <2>3. {c.caller} \union {c.callee} = {c.caller, c.callee}
      OBVIOUS
    <2> QED
      BY <1>3, <2>2, <2>3
  <1>5. TalkedOf(layout) = UNION P
    BY <1>3 DEF TalkedOf
  <1> HIDE DEF C, f
  <1>6. IsFiniteSet(P)
    BY <1>2, FiniteImage
  <1>7. \A S \in P : IsFiniteSet(S)
    BY <1>4
  <1>8. \A S \in P : S \subseteq Int
    BY <1>1, <1>3
  <1> HIDE DEF P
  <1>9. IsFiniteSet(UNION P)
    BY <1>6, <1>7, FS_UNION
  <1> QED
    BY <1>5, <1>8, <1>9

LEMMA NamesAreNumbers ==
  ASSUME layout \in Layouts
  PROVE  NamesIn(layout, EntryNames) \subseteq Int /\ IsFiniteSet(NamesIn(layout, EntryNames))
  <1> DEFINE e == ToSet(DetectEntrypoints)
             f == [x \in e |-> x.name]
             N == {f[x] : x \in e}
  <1>1. IsList(layout.symbols) /\ \A s \in ToSet(layout.symbols) : s.name \in Int
    BY PathAssumption
  <1>2. IsList(DetectEntrypoints) /\ e \subseteq ToSet(layout.symbols)
    BY <1>1, EntriesAre
  <1>3. IsFiniteSet(e)
    BY <1>2, ListIsFinite
  <1>4. \A x \in e : f[x] = x.name
    OBVIOUS
  <1>5. EntryNames = N
    BY DEF EntryNames
  <1>6. N \subseteq Int
    BY <1>1, <1>2, <1>4
  <1> HIDE DEF e, f
  <1>7. IsFiniteSet(N)
    BY <1>3, FiniteImage
  <1> HIDE DEF N
  <1>8. IsFiniteSet(EntryNames \union TalkedOf(layout)) /\ TalkedOf(layout) \subseteq Int
    BY <1>5, <1>7, TalkedAreNumbers, FS_Union
  <1> QED
    BY <1>5, <1>6, <1>8 DEF NamesIn

LEMMA CallersAreCounted ==
  ASSUME layout \in Layouts, NEW n
  PROVE  CallerCount(n) \in Nat
  <1> DEFINE C == {c \in ToSet(layout.calls) : c.callee = n}
             f == [c \in C |-> c.caller]
             N == {f[c] : c \in C}
  <1>1. IsFiniteSet(ToSet(layout.calls)) /\ C \in SUBSET ToSet(layout.calls)
    BY PathAssumption, ListIsFinite
  <1>2. CallerCount(n) = Cardinality(N)
    <2>1. N = {c.caller : c \in C}
      OBVIOUS
    <2> QED
      BY <2>1 DEF CallerCount
  <1> HIDE DEF C
  <1>3. IsFiniteSet(C)
    BY <1>1, FS_Subset
  <1> HIDE DEF f
  <1>4. IsFiniteSet(N)
    BY <1>3, FiniteImage
  <1> HIDE DEF N
  <1> QED
    BY <1>2, <1>4, FS_CardinalityType

(* What the property takes for all names, and their places.                *)
AllNames == IF EntryNames = {} THEN Names ELSE ReachedBy(Cardinality(Names))

PlaceOf(n) == [symbol |-> n, depth |-> IF EntryNames = {} THEN 1 ELSE Distance(n)]

LEMMA DistanceIs ==
  ASSUME layout \in Layouts, NEW n, NEW k, First(NearOf, n, k)
  PROVE  Distance(n) = k
  <1> DEFINE Is(d) == d \in 0..Cardinality(Names) /\ n \in ReachedBy(d) /\ \A j \in 0..(d - 1) : n \notin ReachedBy(j)
  <1>1. \A d \in Nat : NearOf[d] = ReachedBy(d)
    BY DEF NearOf
  <1>2. Cardinality(Names) \in Nat
    BY NamesAre, NamesAreNumbers, FS_CardinalityType
  <1>3. ASSUME NEW d, Is(d) PROVE First(NearOf, n, d)
    BY <1>1, <1>2, <1>3 DEF First
  <1>4. k < Cardinality(Names)
    BY NearOfNears, NamesAre, NamesAreNumbers, DistanceIsBounded
  <1>5. Is(k)
    <2>1. k \in Nat /\ n \in NearOf[k] /\ \A j \in 0..(k - 1) : n \notin NearOf[j]
      BY DEF First
    <2>2. k \in 0..Cardinality(Names) /\ \A j \in 0..(k - 1) : j \in Nat
      BY <1>2, <1>4, <2>1
    <2> QED
      BY <1>1, <2>1, <2>2
  <1>6. Distance(n) = CHOOSE d \in 0..Cardinality(Names) : Is(d)
    BY DEF Distance
  <1> DEFINE d == CHOOSE d \in 0..Cardinality(Names) : Is(d)
  <1>7. Is(d)
    BY <1>5
  <1> HIDE DEF d, Is
  <1>8. First(NearOf, n, d)
    BY <1>3, <1>7
  <1>9. d = k
    BY <1>8, FirstIsOne
  <1> QED
    BY <1>6, <1>9 DEF d, Is

LEMMA FoundAre ==
  ASSUME layout \in Layouts, NEW found, AllPlaced(found, layout, EntryNames, NearOf)
  PROVE  /\ IsFiniteSet(found)
         /\ \A n \in AllNames : PlaceOf(n) \in found
         /\ \A d \in found : d.symbol \in AllNames /\ d = PlaceOf(d.symbol) /\ d.symbol \in Int /\ d.depth \in Nat
  <1> DEFINE l == layout
             E == EntryNames
             N == NamesIn(l, E)
             near == NearOf
  <1>1. N \subseteq Int /\ IsFiniteSet(N) /\ Names = N
    BY NamesAreNumbers, NamesAre
  <1>2. Nears(near, l, E)
    BY NearOfNears
  <1>3. \A d \in found : d = [symbol |-> d.symbol, depth |-> d.depth] /\ Place(l, E, near, d.symbol, d.depth)
    BY DEF AllPlaced
  <1>4. AllNames \subseteq N
    <2>1. Cardinality(N) \in Nat
      BY <1>1, FS_CardinalityType
    <2>2. near[Cardinality(N)] \subseteq N
      BY <1>2, <2>1 DEF Nears
    <2>3. near[Cardinality(N)] = ReachedBy(Cardinality(N))
      BY <2>1 DEF NearOf
    <2> QED
      BY <1>1, <2>2, <2>3 DEF AllNames
  <1>5. ASSUME NEW d \in found
        PROVE  d.symbol \in AllNames /\ d = PlaceOf(d.symbol) /\ d.depth \in Nat
    <2>1. CASE E = {}
      <3>1. d.symbol \in TalkedOf(l) /\ d.depth = 1
        BY <1>3, <2>1 DEF Place
      <3> QED
        BY <1>1, <1>3, <2>1, <3>1 DEF AllNames, PlaceOf, NamesIn
    <2>2. CASE E # {}
      <3> DEFINE n == d.symbol
                 k == d.depth
      <3>1. First(near, n, k)
        BY <1>3, <2>2 DEF Place
      <3> HIDE DEF n, k
      <3>2. Distance(n) = k
        BY <3>1, DistanceIs
      <3>3. n \in near[Cardinality(N)]
        BY <1>1, <1>2, <3>1, AllAreReached
      <3>4. near[Cardinality(N)] = ReachedBy(Cardinality(N))
        BY <1>1, FS_CardinalityType DEF NearOf
      <3>5. n \in AllNames /\ k \in Nat
        BY <1>1, <2>2, <3>1, <3>3, <3>4 DEF AllNames, First
      <3> QED
        BY <1>3, <2>2, <3>2, <3>5 DEF PlaceOf, n, k
    <2> QED
      BY <2>1, <2>2
  <1>6. ASSUME NEW n \in AllNames PROVE PlaceOf(n) \in found
    <2>1. CASE E = {}
      <3>1. n \in TalkedOf(l)
        BY <1>1, <2>1 DEF AllNames, NamesIn
      <3>2. Place(l, E, near, n, 1)
        BY <2>1, <3>1 DEF Place
      <3> QED
        BY <2>1, <3>2 DEF AllPlaced, PlaceOf
    <2>2. CASE E # {}
      <3>1. near[Cardinality(N)] = ReachedBy(Cardinality(N))
        BY <1>1, FS_CardinalityType DEF NearOf
      <3>2. n \in near[Cardinality(N)]
        BY <1>1, <2>2, <3>1 DEF AllNames
      <3>3. PICK k : First(near, n, k)
        BY <1>1, <1>2, <3>2, AllAreReached
      <3>4. Distance(n) = k
        BY <3>3, DistanceIs
      <3>5. Place(l, E, near, n, k)
        BY <2>2, <3>3 DEF Place
      <3> QED
        BY <2>2, <3>4, <3>5 DEF AllPlaced, PlaceOf
    <2> QED
      BY <2>1, <2>2
  <1>7. IsFiniteSet(found)
    <2> DEFINE f == [n \in AllNames |-> PlaceOf(n)]
               P == {f[n] : n \in AllNames}
    <2>1. found \in SUBSET P
      BY <1>5
    <2>2. IsFiniteSet(AllNames)
      BY <1>1, <1>4, FS_Subset
    <2> HIDE DEF f
    <2>3. IsFiniteSet(P)
      BY <2>2, FiniteImage
    <2> HIDE DEF P
    <2> QED
      BY <2>1, <2>3, FS_Subset
  <1> QED
    BY <1>1, <1>4, <1>5, <1>6, <1>7

(* What was found is ranked in one way.                                    *)
LEMMA RankedArranges ==
  ASSUME layout \in Layouts, NEW found, AllPlaced(found, layout, EntryNames, NearOf)
  PROVE  /\ DOMAIN Ranked(found) = 1..Cardinality(found) /\ Cardinality(found) \in Nat
         /\ IsList(Ranked(found)) /\ Len(Ranked(found)) = Cardinality(found)
         /\ \A i \in DOMAIN Ranked(found) : Ranked(found)[i] \in found
         /\ \A i, j \in DOMAIN Ranked(found) : i < j <=> Before(Ranked(found)[i], Ranked(found)[j])
         /\ \A d \in found : \E i \in DOMAIN Ranked(found) : Ranked(found)[i] = d
  <1> DEFINE R == {p \in found \X found : Before(p[1], p[2])}
             at == Ranked(found)
             N == Cardinality(found)
  <1>1. IsFiniteSet(found) /\ N \in Nat
    BY FoundAre, FS_CardinalityType
  <1>2. \A a \in found : /\ a.depth \in Int /\ a.symbol \in Int /\ CallerCount(a.symbol) \in Int
                         /\ a = PlaceOf(a.symbol)
    BY FoundAre, CallersAreCounted
  <1>3. \A a, b \in found : <<a, b>> \in R <=> Before(a, b)
    OBVIOUS
  <1> HIDE DEF R
  <1>4. \A a \in found : <<a, a>> \notin R
    BY <1>2, <1>3 DEF Before
  <1>5. \A a, b \in found : a # b => <<a, b>> \in R \/ <<b, a>> \in R
    <2> SUFFICES ASSUME NEW a \in found, NEW b \in found, a # b PROVE Before(a, b) \/ Before(b, a)
      BY <1>3
    <2>1. a.symbol # b.symbol
      BY <1>2
    <2> QED
      BY <1>2, <2>1 DEF Before
  <1>6. \A a, b, c \in found : <<a, b>> \in R /\ <<b, c>> \in R => <<a, c>> \in R
    <2> SUFFICES ASSUME NEW a \in found, NEW b \in found, NEW c \in found, Before(a, b), Before(b, c) PROVE Before(a, c)
      BY <1>3
    <2> QED
      BY <1>2 DEF Before
  <1>7. StrictOrder(R, found)
    BY <1>4, <1>5, <1>6 DEF StrictOrder
  <1>8. \A d \in found : {x \in found : Before(x, d)} = {x \in found : <<x, d>> \in R}
    BY <1>3
  <1>9. Counts(at, found, R)
    <2> DEFINE below(d) == Cardinality({x \in found : Before(x, d)})
               chosen(n) == CHOOSE d \in found : below(d) = n - 1
    <2>1. at = [n \in 1..N |-> chosen(n)]
      BY DEF Ranked
    <2>2. \A d \in found : below(d) = Cardinality({x \in found : <<x, d>> \in R})
      BY <1>8
    <2> HIDE DEF below
    <2>3. ASSUME NEW n \in 1..N, NEW d \in found, below(d) = n - 1
          PROVE  chosen(n) \in found /\ below(chosen(n)) = n - 1
      BY <2>3
    <2> HIDE DEF chosen, at
    <2>4. at = [n \in 1..N |-> at[n]] /\ \A n \in 1..N : at[n] = chosen(n)
      BY <2>1
    <2>5. ASSUME NEW n \in 1..N, NEW d \in found, Cardinality({x \in found : <<x, d>> \in R}) = n - 1
          PROVE  at[n] \in found /\ Cardinality({x \in found : <<x, at[n]>> \in R}) = n - 1
      <3>1. below(d) = n - 1
        BY <2>2, <2>5
      <3>2. at[n] \in found /\ below(at[n]) = n - 1
        BY <2>3, <2>4, <3>1
      <3> QED
        BY <2>2, <3>2
    <2> QED
      BY <2>4, <2>5 DEF Counts
  <1>10. DOMAIN at = 1..N /\ at = [n \in 1..N |-> at[n]]
    <2> DEFINE chosen(n) == CHOOSE d \in found : Cardinality({x \in found : Before(x, d)}) = n - 1
    <2>1. at = [n \in 1..N |-> chosen(n)]
      BY DEF Ranked
    <2> HIDE DEF chosen, at
    <2> QED
      BY <2>1
  <1> HIDE DEF at
  <1>11. Arranges(at, found, R)
    BY <1>1, <1>7, <1>9, CountingArranges
  <1> HIDE DEF N
  <1>12. IsList(at) /\ Len(at) = N
    BY <1>1, <1>10, ListOfFunction
  <1>13. \A i \in 1..N : at[i] \in found
    BY <1>11 DEF Arranges, N
  <1>14. \A i, j \in 1..N : i < j <=> Before(at[i], at[j])
    BY <1>3, <1>11, <1>13 DEF Arranges, N
  <1>15. \A d \in found : \E i \in 1..N : at[i] = d
    BY <1>11 DEF Arranges, N
  <1> QED
    BY <1>1, <1>10, <1>12, <1>13, <1>14, <1>15 DEF at, N

(* A step of an unambiguous name has the place of its symbol.              *)
LEMMA StepsArePlaced ==
  ASSUME layout \in Layouts, NEW s \in ToSet(layout.symbols), Unambiguous(s), NEW n, s.name = n
  PROVE  StepOf(n).line = s.line /\ StepOf(n).file \in {s.file, NoFile}
  <1> DEFINE rows == layout.symbols
             calls == layout.calls
             named == {i \in DOMAIN rows : rows[i].name = n}
             entry == {i \in DOMAIN rows : rows[i].name = n /\ IsEntrypoint(rows[i])}
             from == {i \in DOMAIN calls : calls[i].caller = n}
             e == OnlyAt(rows, entry)
             c == OnlyAt(calls, from)
             t == OnlyAt(rows, named)
  <1>1. StepOf(n) = [symbol |-> n,
                     file   |-> IF e # <<>> THEN Last(e).file ELSE IF c # <<>> THEN Head(c).file ELSE NoFile,
                     line   |-> IF t # <<>> THEN Head(t).line ELSE 0]
    BY DEF StepOf, Where
  <1>2. IsList(rows) /\ IsList(calls)
    BY PathAssumption
  <1>3. \A i \in named : rows[i] = s
    BY DEF Unambiguous, ToSet
  <1>4. \A i \in from : calls[i].file = s.file
    BY DEF Unambiguous, ToSet
  <1>5. named \in SUBSET DOMAIN rows /\ entry \in SUBSET named /\ entry \in SUBSET DOMAIN rows /\ from \in SUBSET DOMAIN calls
    OBVIOUS
  <1>6. \E i \in named : rows[i] = s
    BY DEF ToSet
  <1> HIDE DEF rows, calls, named, entry, from
  <1>7. /\ IsList(t) /\ ToSet(t) = {rows[i] : i \in named}
        /\ IsList(e) /\ ToSet(e) = {rows[i] : i \in entry}
        /\ IsList(c) /\ ToSet(c) = {calls[i] : i \in from}
    BY <1>2, <1>5, RowsAt
  <1> HIDE DEF t, e, c
  <1>8. t # <<>> /\ Head(t) = s
    <2>1. t # <<>>
      BY <1>6, <1>7, EmptyList
    <2>2. Head(t) \in ToSet(t)
      BY <2>1, <1>7, QueueHead
    <2> QED
      BY <2>1, <2>2, <1>3, <1>7
  <1>9. e # <<>> => Last(e) = s
    <2> SUFFICES ASSUME e # <<>> PROVE Last(e) = s
      OBVIOUS
    <2>1. Len(e) \in Nat /\ Len(e) > 0 /\ DOMAIN e = 1..Len(e)
      BY <1>7, QueueHead
    <2>2. Len(e) \in DOMAIN e
      BY <2>1
    <2>3. Last(e) \in ToSet(e)
      BY <2>2 DEF Last, ToSet
    <2> QED
      BY <2>3, <1>3, <1>5, <1>7
  <1>10. c # <<>> => Head(c).file = s.file
    <2> SUFFICES ASSUME c # <<>> PROVE Head(c).file = s.file
      OBVIOUS
    <2>1. Head(c) \in ToSet(c)
      BY <1>7, QueueHead
    <2> QED
      BY <2>1, <1>4, <1>7
  <1> QED
    BY <1>1, <1>8, <1>9, <1>10

LEMMA StepHasItsName == \A n : StepOf(n).symbol = n
  BY DEF StepOf

(* The steps, once the request is done: `at' ranks everything that was     *)
(* found, and the steps are its first rows.                                *)
Listed(steps, at, found) ==
  /\ \A i \in DOMAIN at : at[i] \in found
  /\ \A i, j \in DOMAIN at : i < j <=> Before(at[i], at[j])
  /\ \A d \in found : \E i \in DOMAIN at : at[i] = d
  /\ Len(at) \in Nat /\ DOMAIN at = 1..Len(at)
  /\ Len(steps) = (IF Len(at) > MaxSteps THEN MaxSteps ELSE Len(at)) /\ DOMAIN steps = 1..Len(steps)
  /\ \A i \in DOMAIN steps : i \in DOMAIN at /\ steps[i].symbol = at[i].symbol /\ steps[i] = StepOf(at[i].symbol)

LEMMA StepsAreListed ==
  ASSUME layout \in Layouts, NEW found, AllPlaced(found, layout, EntryNames, NearOf), NEW steps, steps = StepsFor(found)
  PROVE  Listed(steps, Ranked(found), found)
  <1> DEFINE at == Ranked(found)
             kept == Take(at, MaxSteps)
  <1>1. /\ DOMAIN at = 1..Cardinality(found) /\ Cardinality(found) \in Nat
        /\ IsList(at) /\ Len(at) = Cardinality(found)
        /\ \A i \in DOMAIN at : at[i] \in found
        /\ \A i, j \in DOMAIN at : i < j <=> Before(at[i], at[j])
        /\ \A d \in found : \E i \in DOMAIN at : at[i] = d
    BY RankedArranges
  <1>2. steps = [i \in DOMAIN kept |-> StepOf(kept[i].symbol)]
    BY DEF StepsFor
  <1> HIDE DEF at
  <1>3. /\ IsList(kept) /\ Len(kept) = IF Len(at) > MaxSteps THEN MaxSteps ELSE Len(at)
        /\ \A i \in DOMAIN kept : i \in DOMAIN at /\ kept[i] = at[i]
    BY <1>1, ListTaken, PathAssumption
  <1> HIDE DEF kept
  <1>4. DOMAIN kept = 1..Len(kept) /\ Len(kept) \in Nat
    BY <1>3, ListShape
  <1>5. DOMAIN steps = 1..Len(kept) /\ steps = [i \in 1..Len(kept) |-> steps[i]]
    BY <1>2, <1>4
  <1>6. Len(steps) = Len(kept)
    BY <1>4, <1>5, ListOfFunction
  <1>7. \A i \in DOMAIN steps : steps[i] = StepOf(at[i].symbol) /\ i \in DOMAIN at
    BY <1>2, <1>3, <1>4, <1>5
  <1>8. \A i \in DOMAIN steps : steps[i].symbol = at[i].symbol
    BY <1>7, StepHasItsName
  <1> QED
    BY <1>1, <1>3, <1>5, <1>6, <1>7, <1>8 DEF Listed, at

LEMMA StepsLead ==
  ASSUME PathInv, reading.pc = "done" PROVE ReadingPathLeads
  <1> DEFINE steps == reading.steps
             found == reading.order
             at == Ranked(found)
             listed == {steps[i].symbol : i \in DOMAIN steps}
             l == layout
             E == EntryNames
             near == NearOf
  <1>1. l \in Layouts /\ Nears(near, l, E) /\ AllPlaced(found, l, E, near) /\ steps = StepsFor(found)
    BY NearOfNears DEF PathInv, Sound
  <1>2. Listed(steps, at, found)
    BY <1>1, StepsAreListed
  <1>3. /\ \A n \in AllNames : PlaceOf(n) \in found
        /\ \A d \in found : d.symbol \in AllNames /\ d = PlaceOf(d.symbol)
    BY <1>1, FoundAre
  <1>4. MaxSteps \in Nat
    BY PathAssumption
  <1> HIDE DEF at
  <1>5. /\ \A i \in DOMAIN at : at[i] \in found
        /\ \A i, j \in DOMAIN at : i < j <=> Before(at[i], at[j])
        /\ \A d \in found : \E i \in DOMAIN at : at[i] = d
        /\ Len(at) \in Nat /\ DOMAIN at = 1..Len(at)
        /\ Len(steps) = (IF Len(at) > MaxSteps THEN MaxSteps ELSE Len(at)) /\ DOMAIN steps = 1..Len(steps)
    BY <1>2 DEF Listed
  <1>6. \A i \in DOMAIN steps : i \in DOMAIN at /\ steps[i].symbol = at[i].symbol /\ steps[i] = StepOf(at[i].symbol)
    BY <1>2 DEF Listed
  <1>7. \A i \in DOMAIN steps : PlaceOf(steps[i].symbol) = at[i] /\ steps[i].symbol \in AllNames
    BY <1>3, <1>5, <1>6
  <1> HIDE DEF steps, found, l, E, near
  <1>8. listed \subseteq AllNames
    BY <1>7
  <1>9. \A i, j \in DOMAIN at : at[i] = at[j] => i = j
    <2> SUFFICES ASSUME NEW i \in DOMAIN at, NEW j \in DOMAIN at, at[i] = at[j], i # j PROVE FALSE
      OBVIOUS
    <2>1. i < j \/ j < i
      BY <1>5
    <2>2. Before(at[i], at[i]) => i < i
      BY <1>5
    <2>3. Before(at[i], at[j]) \/ Before(at[j], at[i])
      BY <2>1, <1>5
    <2>4. Before(at[i], at[i])
      BY <2>3
    <2> QED
      BY <2>2, <2>4, <1>5
  <1>10. Cardinality(listed) = Len(steps)
    <2> DEFINE f == [i \in 1..Len(steps) |-> steps[i].symbol]
    <2>1. f \in [1..Len(steps) -> listed] /\ \A i \in 1..Len(steps) : f[i] = steps[i].symbol
      BY <1>5
    <2>2. \A y \in listed : \E i \in 1..Len(steps) : f[i] = y
      BY <1>5
    <2> HIDE DEF listed, f
    <2>3. \A i, j \in 1..Len(steps) : f[i] = f[j] => i = j
      BY <2>1, <1>5, <1>6, <1>7, <1>9
    <2>4. f \in Bijection(1..Len(steps), listed)
      BY <2>1, <2>2, <2>3 DEF Bijection, Injection, Surjection, IsInjective
    <2>5. Len(steps) \in Nat
      BY <1>4, <1>5
    <2>6. IsFiniteSet(1..Len(steps)) /\ Cardinality(1..Len(steps)) = Len(steps)
      <3> DEFINE n == Len(steps)
      <3>1. n \in Nat
        BY <2>5
      <3> HIDE DEF n
      <3>2. IsFiniteSet(1..n) /\ Cardinality(1..n) = IF 1 > n THEN 0 ELSE n - 1 + 1
        BY <3>1, FS_Interval
      <3>3. Cardinality(1..n) = n
        BY <3>1, <3>2
      <3> QED
        BY <3>2, <3>3 DEF n
    <2>7. ExistsBijection(1..Len(steps), listed)
      BY <2>4 DEF ExistsBijection
    <2> QED
      BY <2>6, <2>7, FS_Bijection
  <1>11. \A n \in AllNames : \E i \in DOMAIN at : at[i] = PlaceOf(n) /\ (i \in DOMAIN steps => n \in listed)
    <2> TAKE n \in AllNames
    <2>1. PICK i \in DOMAIN at : at[i] = PlaceOf(n)
      BY <1>3, <1>5
    <2>2. at[i].symbol = n
      BY <2>1 DEF PlaceOf
    <2>3. i \in DOMAIN steps => n \in listed
      BY <2>2, <1>6
    <2> QED
      BY <2>1, <2>3
  <1>12. Len(steps) < MaxSteps => listed = AllNames
    <2> SUFFICES ASSUME Len(steps) < MaxSteps PROVE AllNames \subseteq listed
      BY <1>8
    <2>1. DOMAIN steps = DOMAIN at
      <3>1. ~(Len(at) > MaxSteps)
        BY <1>4, <1>5
      <3>2. Len(steps) = Len(at)
        BY <3>1, <1>5
      <3> QED
        BY <3>2, <1>5
    <2> HIDE DEF listed
    <2> QED
      BY <2>1, <1>11
  <1>13. \A n \in AllNames \ listed, m \in listed : Before(PlaceOf(m), PlaceOf(n))
    <2> SUFFICES ASSUME NEW n \in AllNames \ listed, NEW m \in listed PROVE Before(PlaceOf(m), PlaceOf(n))
      OBVIOUS
    <2>1. PICK i \in DOMAIN steps : m = steps[i].symbol
      OBVIOUS
    <2>2. PICK j \in DOMAIN at : at[j] = PlaceOf(n) /\ j \notin DOMAIN steps
      BY <1>11
    <2>3. i < j
      BY <1>4, <1>5, <2>2
    <2>4. PlaceOf(m) = at[i] /\ i \in DOMAIN at
      BY <2>1, <1>6, <1>7
    <2> QED
      BY <2>2, <2>3, <2>4, <1>5
  <1>14. \A i, j \in DOMAIN steps : i < j => Before(PlaceOf(steps[i].symbol), PlaceOf(steps[j].symbol))
    BY <1>5, <1>6, <1>7
  <1>15. E # {} => \A i \in DOMAIN steps : \/ steps[i].symbol \in E
                                           \/ \E j \in 1..(i - 1) : CallsPair(steps[j].symbol, steps[i].symbol)
    <2> SUFFICES ASSUME E # {}, NEW i \in DOMAIN steps, steps[i].symbol \notin E
                 PROVE  \E j \in 1..(i - 1) : CallsPair(steps[j].symbol, steps[i].symbol)
      OBVIOUS
    <2> DEFINE n == steps[i].symbol
               d == at[i].depth
    <2>1. at[i] \in found /\ i \in DOMAIN at /\ n = at[i].symbol
      BY <1>5, <1>6
    <2>2. at[i] = [symbol |-> n, depth |-> d]
      BY <1>1, <2>1 DEF AllPlaced
    <2> HIDE DEF n, d
    <2>3. First(near, n, d)
      BY <1>1, <2>1, <2>2 DEF AllPlaced, Place
    <2>4. d \in Nat /\ d # 0
      BY <1>1, <2>3 DEF First, Nears, n
    <2> DEFINE k == d - 1
    <2>5. k \in Nat /\ d = k + 1
      BY <2>4
    <2> HIDE DEF k
    <2>6. First(near, n, k + 1)
      BY <2>3, <2>5
    <2>7. PICK m : First(near, m, k) /\ Pair(l, m, n)
      BY <1>1, <2>5, <2>6, FirstIsCalled
    <2> DEFINE p == [symbol |-> m, depth |-> k]
    <2>8. p \in found
      BY <1>1, <2>7 DEF AllPlaced, Place
    <2>9. p.depth = k /\ p.symbol = m
      OBVIOUS
    <2> HIDE DEF p
    <2>10. PICK j \in DOMAIN at : at[j] = p
      BY <1>5, <2>8
    <2>11. Before(p, at[i])
      BY <2>5, <2>9 DEF Before, d
    <2>12. j < i
      BY <1>5, <2>1, <2>10, <2>11
    <2>13. j \in 1..(i - 1) /\ j \in DOMAIN steps
      BY <1>5, <2>12
    <2>14. steps[j].symbol = m
      BY <1>6, <2>9, <2>10, <2>13
    <2>15. CallsPair(m, n)
      BY <2>7 DEF Pair, CallsPair, l
    <2> QED
      BY <2>13, <2>14, <2>15 DEF n
  <1>16. \A i \in DOMAIN steps : \A s \in ToSet(layout.symbols) :
           (s.name = steps[i].symbol /\ Unambiguous(s)) =>
               steps[i].line = s.line /\ steps[i].file \in {s.file, NoFile}
    <2> SUFFICES ASSUME NEW i \in DOMAIN steps, NEW s \in ToSet(layout.symbols), s.name = steps[i].symbol, Unambiguous(s)
                 PROVE  steps[i].line = s.line /\ steps[i].file \in {s.file, NoFile}
      OBVIOUS
    <2> DEFINE n == steps[i].symbol
    <2>1. steps[i] = StepOf(n)
      BY <1>6
    <2>2. s.name = n /\ layout \in Layouts
      BY <1>1 DEF l
    <2> HIDE DEF n
    <2> QED
      BY <2>1, <2>2, StepsArePlaced
  <1> QED
    BY <1>8, <1>10, <1>12, <1>13, <1>14, <1>15, <1>16 DEF ReadingPathLeads, AllNames, PlaceOf, steps, E

(* A finished reading path can be read from its start, is cut only at its  *)
(* far end, and points to the symbols it names.                            *)
THEOREM PathsLead == PathSpec => []ReadingPathLeads
  <1>1. PathInv => ReadingPathLeads
    <2>1. reading.pc # "done" => ReadingPathLeads
      BY DEF ReadingPathLeads
    <2> QED
      BY <2>1, StepsLead
  <1> QED
    BY <1>1, PathInvariant, PTL
-----------------------------------------------------------------------------
(* The types.  What a request still has to say of its files, its queue and *)
(* its steps; the depths are those of PathInv.                             *)
PathFields ==
  /\ reading.known \subseteq DOMAIN layout.files
  /\ reading.pc \in {"rank", "done"} => reading.queue = <<>>
  /\ reading.pc # "done" => reading.steps = <<>>

LEMMA FieldsStep == PathInv /\ PathFields /\ [PathNext]_pathVars => PathFields'
  <1> SUFFICES ASSUME PathInv, PathFields, [PathNext]_pathVars PROVE PathFields'
    OBVIOUS
  <1> PICK r : r = reading
    OBVIOUS
  <1> PICK s : s = reading'
    OBVIOUS
  <1>1. /\ r = [pc |-> r.pc, known |-> r.known, queue |-> r.queue, order |-> r.order, steps |-> r.steps]
        /\ r.pc \in {"idle", "start"} => r.queue = <<>>
    BY DEF PathInv, Sound
  <1>2. /\ r.known \subseteq DOMAIN layout.files
        /\ r.pc \in {"rank", "done"} => r.queue = <<>>
        /\ r.pc # "done" => r.steps = <<>>
    BY DEF PathFields
  <1>3. layout' = layout
    BY DEF PathNext, ReadFiles, StartPath, Visit, Searched, RankSteps, pathVars
  <1>4. SUFFICES /\ s.known \subseteq DOMAIN layout.files
                 /\ s.pc \in {"rank", "done"} => s.queue = <<>>
                 /\ s.pc # "done" => s.steps = <<>>
    BY <1>3 DEF PathFields
  <1>5. CASE ReadFiles
    <2>1. PICK known \in SUBSET DOMAIN layout.files :
            r.pc = "idle" /\ s = [r EXCEPT !.pc = "start", !.known = known]
      BY <1>5 DEF ReadFiles
    <2> QED
      BY <1>1, <1>2, <2>1
  <1>6. CASE StartPath
    <2>1. /\ r.pc = "start"
          /\ \/ \E q : s = [r EXCEPT !.pc = "search", !.queue = q]
             \/ \E f : s = [r EXCEPT !.pc = "rank", !.order = f]
      BY <1>6 DEF StartPath
    <2> QED
      BY <1>1, <1>2, <2>1
  <1>7. CASE Visit
    <2>1. r.pc = "search" /\ \E f, q : s = [r EXCEPT !.order = f, !.queue = q]
      BY <1>7 DEF Visit
    <2> QED
      BY <1>1, <1>2, <2>1
  <1>8. CASE Searched
    <2>1. r.pc = "search" /\ r.queue = <<>> /\ s = [r EXCEPT !.pc = "rank"]
      BY <1>8 DEF Searched
    <2> QED
      BY <1>1, <1>2, <2>1
  <1>9. CASE RankSteps
    <2>1. r.pc = "rank" /\ \E t : s = [r EXCEPT !.pc = "done", !.steps = t]
      BY <1>9 DEF RankSteps
    <2> QED
      BY <1>1, <1>2, <2>1
  <1>10. CASE UNCHANGED pathVars
    BY <1>2, <1>10 DEF pathVars
  <1> QED
    BY <1>5, <1>6, <1>7, <1>8, <1>9, <1>10 DEF PathNext

(* Files, depths and steps of a reading path have values of their kind.    *)
THEOREM PathTypes == PathSpec => []PathTypeOK
  <1>1. PathInit => PathFields
    BY DEF PathInit, NoPathYet, PathFields
  <1>2. PathInv /\ PathFields => PathTypeOK
    <2> SUFFICES ASSUME PathInv, PathFields PROVE PathTypeOK
      OBVIOUS
    <2> PICK r : r = reading
      OBVIOUS
    <2> PICK l : l = layout
      OBVIOUS
    <2>1. /\ l \in Layouts /\ Sound(r, l, EntryNames) /\ Nears(NearOf, l, EntryNames)
          /\ r.pc = "done" => r.steps = StepsFor(r.order)
      BY NearOfNears DEF PathInv
    <2>2. /\ r.pc \in {"rank", "done"} => r.queue = <<>>
          /\ r.pc # "done" => r.steps = <<>>
      BY DEF PathFields
    <2>3. CASE r.pc \in {"idle", "start"}
      <3>1. r.order = {} /\ r.queue = <<>> /\ r.steps = <<>>
        BY <2>1, <2>2, <2>3 DEF Sound
      <3> QED
        BY <3>1, <2>1, <2>3, PathAssumption DEF PathTypeOK, PathFields
    <2>4. CASE r.pc = "search"
      <3>1. Searching(r.order, r.queue, l, EntryNames, NearOf)
        BY <2>1, <2>4 DEF Sound
      <3>2. \A d \in r.order \union ToSet(r.queue) : d.depth \in Nat
        BY <3>1 DEF Searching, Items, First
      <3>3. \A i \in DOMAIN r.queue : r.queue[i] \in ToSet(r.queue)
        BY DEF ToSet
      <3>4. r.steps = <<>>
        BY <2>2, <2>4
      <3> QED
        BY <3>2, <3>3, <3>4, <2>4, PathAssumption DEF PathTypeOK, PathFields
    <2>5. CASE r.pc \in {"rank", "done"}
      <3>1. AllPlaced(r.order, layout, EntryNames, NearOf)
        BY <2>1, <2>5 DEF Sound
      <3>2. \A d \in r.order : d.depth \in Nat
        BY <2>1, <3>1, FoundAre
      <3>3. Len(r.steps) <= MaxSteps
        <4>1. CASE r.pc = "rank"
          BY <4>1, <2>2, PathAssumption
        <4>2. CASE r.pc = "done"
          <5>1. Listed(r.steps, Ranked(r.order), r.order)
            BY <4>2, <2>1, <3>1, StepsAreListed
          <5> QED
            BY <5>1, PathAssumption DEF Listed
        <4> QED
          BY <2>5, <4>1, <4>2
      <3>4. r.queue = <<>>
        BY <2>2, <2>5
      <3> QED
        BY <3>2, <3>3, <3>4, <2>5 DEF PathTypeOK, PathFields
    <2> QED
      BY <2>1, <2>3, <2>4, <2>5 DEF Sound
  <1> QED
    BY <1>1, <1>2, FieldsStep, PathInvariant, PTL DEF PathSpec
=============================================================================
