----------------------------- MODULE ListProofs -----------------------------
(***************************************************************************)
(* Lemmas that the proofs about the queries share.  On recursion:          *)
(* `Iterated' gives the function that takes a step n times, SetInduction   *)
(* what holds of all its values.  On order: numbering a finite set in a    *)
(* strict order is a bijection that keeps it.  On lists of rows: what      *)
(* filtering, removing repetitions, joining and cutting off keep.          *)
(***************************************************************************)
EXTENDS Rows, WellFoundedInduction, FiniteSetTheorems, TLAPS

(* Sets of numbers that zero and successors keep in. *)
LEMMA SetInduction ==
  ASSUME NEW S, 0 \in S, \A n \in Nat : n \in S => n + 1 \in S
  PROVE  Nat \subseteq S
  <1> DEFINE T == Nat \ S
             R == OpToRel(<, Nat)
  <1>1. IsWellFoundedOn(R, Nat)
    BY NatLessThanWellFounded
  <1>2. SUFFICES ASSUME T # {} PROVE FALSE
    OBVIOUS
  <1>3. PICK x \in T : \A y \in T : <<y, x>> \notin R
    <2> HIDE DEF R
    <2>1. T \subseteq Nat
      OBVIOUS
    <2> HIDE DEF T
    <2> QED
      BY <2>1, <1>1, <1>2, WFMin
  <1>4. x - 1 \in T /\ <<x - 1, x>> \in R
    BY DEF OpToRel
  <1> QED
    BY <1>3, <1>4

(* A step taken again and again. *)
Iterates(f, n, T, a, step) == f \in [0..n -> T] /\ f[0] = a /\ \A k \in 1..n : f[k] = step[f[k - 1]]

LEMMA Iterated ==
  ASSUME NEW T, NEW a \in T, NEW step \in [T -> T], NEW n \in Nat
  PROVE  \E f : Iterates(f, n, T, a, step)
  <1> DEFINE Good(f, m) == Iterates(f, m, T, a, step)
             S == {m \in Nat : \E f : Good(f, m)}
  <1>1. 0 \in S
    <2>1. Good([k \in 0..0 |-> a], 0)
      BY DEF Iterates
    <2> HIDE DEF Good
    <2> QED
      BY <2>1
  <1>2. ASSUME NEW m \in Nat, m \in S PROVE m + 1 \in S
    <2> USE DEF Iterates
    <2>1. PICK f : Good(f, m)
      BY <1>2
    <2> DEFINE g == [k \in 0..(m + 1) |-> IF k = m + 1 THEN step[f[m]] ELSE f[k]]
    <2>2. m \in 0..m /\ 0 \in 0..m /\ step[f[m]] \in T
      BY <2>1
    <2>3. \A k \in 0..(m + 1) : g[k] \in T
      <3> TAKE k \in 0..(m + 1)
      <3>1. k # m + 1 => k \in 0..m
        OBVIOUS
      <3> QED
        BY <3>1, <2>1, <2>2
    <2>4. g \in [0..(m + 1) -> T] /\ g[0] = a /\ g[m + 1] = step[f[m]]
      BY <2>1, <2>2, <2>3
    <2>5. ASSUME NEW k \in 1..(m + 1) PROVE g[k] = step[g[k - 1]]
      <3>1. k # m + 1 => k \in 1..m /\ k - 1 # m + 1
        OBVIOUS
      <3>2. k - 1 \in 0..(m + 1) /\ k - 1 # m + 1 /\ k \in 0..(m + 1)
        OBVIOUS
      <3> QED
        BY <3>1, <3>2, <2>1
    <2>6. Good(g, m + 1)
      BY <2>4, <2>5
    <2> HIDE DEF Good, g
    <2> QED
      BY <2>6
  <1> HIDE DEF S
  <1>3. n \in S
    BY <1>1, <1>2, SetInduction
  <1> QED
    BY <1>3 DEF S

(* Whatever begins and goes on alike is the same. *)
LEMMA SameIteration ==
  ASSUME NEW T, NEW a \in T, NEW step \in [T -> T], NEW n \in Nat, NEW f, Iterates(f, n, T, a, step),
         NEW g, g[0] = a, \A k \in 1..n : g[k - 1] \in T => g[k] = step[g[k - 1]]
  PROVE  \A k \in 0..n : g[k] = f[k]
  <1> DEFINE S == {k \in Nat : k <= n => g[k] = f[k]}
  <1>1. 0 \in S
    BY DEF Iterates
  <1>2. ASSUME NEW k \in Nat, k \in S PROVE k + 1 \in S
    <2> SUFFICES ASSUME k + 1 <= n PROVE g[k + 1] = f[k + 1]
      OBVIOUS
    <2>1. k + 1 \in 1..n /\ (k + 1) - 1 = k /\ k \in 0..n
      OBVIOUS
    <2>2. f[k] \in T /\ f[k + 1] = step[f[k]]
      BY <2>1 DEF Iterates
    <2>3. g[k] = f[k]
      BY <1>2
    <2> QED
      BY <2>1, <2>2, <2>3
  <1> HIDE DEF S
  <1>3. \A k \in 0..n : k \in S
    BY <1>1, <1>2, SetInduction
  <1> QED
    BY <1>3 DEF S

(* The same for ever. *)
Unfolds(f, T, a, step) == f \in [Nat -> T] /\ f[0] = a /\ \A k \in Nat : f[k + 1] = step[f[k]]

LEMMA Unfolded ==
  ASSUME NEW T, NEW a \in T, NEW step \in [T -> T]
  PROVE  \E f : Unfolds(f, T, a, step)
  <1> DEFINE h == [n \in Nat |-> CHOOSE f : Iterates(f, n, T, a, step)]
             f == [n \in Nat |-> h[n][n]]
  <1>1. \A n \in Nat : Iterates(h[n], n, T, a, step)
    <2> TAKE n \in Nat
    <2>1. \E g : Iterates(g, n, T, a, step)
      BY Iterated
    <2> QED
      BY <2>1
  <1> HIDE DEF h
  <1>2. \A n \in Nat : h[n][n] \in T
    <2> TAKE n \in Nat
    <2>1. Iterates(h[n], n, T, a, step)
      BY <1>1
    <2> QED
      BY <2>1 DEF Iterates
  <1>3. f \in [Nat -> T]
    BY <1>2
  <1>4. f[0] = a
    <2>1. Iterates(h[0], 0, T, a, step)
      BY <1>1
    <2> QED
      BY <2>1 DEF Iterates
  <1>5. ASSUME NEW n \in Nat PROVE f[n + 1] = step[f[n]]
    <2> DEFINE g == h[n + 1]
    <2>1. Iterates(h[n], n, T, a, step) /\ Iterates(g, n + 1, T, a, step)
      BY <1>1
    <2> HIDE DEF g
    <2>2. g[0] = a /\ \A k \in 1..(n + 1) : g[k] = step[g[k - 1]]
      BY <2>1 DEF Iterates
    <2>3. \A k \in 1..n : g[k - 1] \in T => g[k] = step[g[k - 1]]
      BY <2>2
    <2>4. \A k \in 0..n : g[k] = h[n][k]
      BY <2>1, <2>2, <2>3, SameIteration
    <2>5. g[n] = h[n][n] /\ g[n + 1] = step[g[n]]
      BY <2>2, <2>4
    <2> QED
      BY <2>5 DEF g
  <1> HIDE DEF f
  <1> QED
    BY <1>3, <1>4, <1>5 DEF Unfolds

-----------------------------------------------------------------------------
(* `at' arranges the members of S as R orders them. *)
Arranges(at, S, R) ==
  /\ at \in [1..Cardinality(S) -> S] /\ Cardinality(S) \in Nat
  /\ \A m, n \in 1..Cardinality(S) : m < n <=> <<at[m], at[n]>> \in R
  /\ \A x \in S : \E n \in 1..Cardinality(S) : at[n] = x

StrictOrder(R, S) ==
  /\ \A i \in S : <<i, i>> \notin R
  /\ \A i, k \in S : i # k => <<i, k>> \in R \/ <<k, i>> \in R
  /\ \A i, j, k \in S : <<i, j>> \in R /\ <<j, k>> \in R => <<i, k>> \in R

(* At place n is a member with n - 1 others before it, if there is one.    *)
Counts(at, S, R) ==
  /\ at = [n \in 1..Cardinality(S) |-> at[n]]
  /\ \A n \in 1..Cardinality(S) : (\E i \in S : Cardinality({j \in S : <<j, i>> \in R}) = n - 1)
       => at[n] \in S /\ Cardinality({j \in S : <<j, at[n]>> \in R}) = n - 1

(* Each member of a finite set has as many before it as the places before  *)
(* its own: counting is a bijection.                                       *)
LEMMA CountingArranges ==
  ASSUME NEW S, IsFiniteSet(S), NEW R, StrictOrder(R, S), NEW at, Counts(at, S, R)
  PROVE  Arranges(at, S, R)
  <1> DEFINE below(i) == {j \in S : <<j, i>> \in R}
             N == Cardinality(S)
             rank == [i \in S |-> Cardinality(below(i))]
  <1>1. N \in Nat
    BY FS_CardinalityType
  <1>2. ASSUME NEW i \in S PROVE IsFiniteSet(below(i)) /\ Cardinality(below(i)) \in Nat /\ Cardinality(below(i)) < N
    <2>1. below(i) \in SUBSET S /\ below(i) # S
      BY DEF StrictOrder
    <2> HIDE DEF below
    <2>2. IsFiniteSet(below(i)) /\ Cardinality(below(i)) <= N /\ Cardinality(below(i)) # N
      BY <2>1, FS_Subset
    <2>3. Cardinality(below(i)) \in Nat
      BY <2>2, FS_CardinalityType
    <2> QED
      BY <2>2, <2>3, <1>1
  <1>3. ASSUME NEW i \in S, NEW k \in S, <<i, k>> \in R PROVE Cardinality(below(i)) < Cardinality(below(k))
    <2>1. below(i) \in SUBSET below(k) /\ below(i) # below(k)
      <3>1. i \in below(k) /\ i \notin below(i)
        BY <1>3 DEF StrictOrder
      <3>2. \A j \in below(i) : j \in below(k)
        BY <1>3 DEF StrictOrder
      <3> QED
        BY <3>1, <3>2
    <2>2. IsFiniteSet(below(k)) /\ Cardinality(below(k)) \in Nat /\ Cardinality(below(i)) \in Nat
      BY <1>2
    <2> HIDE DEF below
    <2>3. /\ Cardinality(below(i)) <= Cardinality(below(k))
          /\ Cardinality(below(k)) = Cardinality(below(i)) => below(k) = below(i)
      BY <2>1, <2>2, FS_Subset
    <2> QED
      BY <2>1, <2>2, <2>3
  <1>9. /\ at = [n \in 1..N |-> at[n]]
        /\ \A n \in 1..N : (\E i \in S : Cardinality(below(i)) = n - 1)
             => at[n] \in S /\ Cardinality(below(at[n])) = n - 1
    BY DEF Counts
  <1> HIDE DEF below, N
  <1>4. rank \in [S -> 0..(N - 1)]
    BY <1>1, <1>2
  <1>5. \A i, k \in S : rank[i] = rank[k] => i = k
    <2> SUFFICES ASSUME NEW i \in S, NEW k \in S, i # k PROVE rank[i] # rank[k]
      OBVIOUS
    <2>1. <<i, k>> \in R \/ <<k, i>> \in R
      BY DEF StrictOrder
    <2>2. Cardinality(below(i)) \in Nat /\ Cardinality(below(k)) \in Nat
      BY <1>2
    <2> QED
      BY <2>1, <2>2, <1>3
  <1>6. rank \in Injection(S, 0..(N - 1))
    <2> HIDE DEF rank
    <2> QED
      BY <1>4, <1>5 DEF Injection, IsInjective
  <1>7. IsFiniteSet(0..(N - 1)) /\ Cardinality(0..(N - 1)) = N
    BY <1>1, FS_Interval
  <1>8. rank \in Surjection(S, 0..(N - 1))
    <2> HIDE DEF rank
    <2> QED
      BY <1>6, <1>7, FS_Injection DEF N
  <1>10. \A n \in 1..N : \E i \in S : Cardinality(below(i)) = n - 1
    <2> TAKE n \in 1..N
    <2>1. n - 1 \in 0..(N - 1)
      BY <1>1
    <2>2. \E i \in S : rank[i] = n - 1
      <3> HIDE DEF rank
      <3> QED
        BY <1>8, <2>1 DEF Surjection
    <2> QED
      BY <2>2
  <1>11. \A n \in 1..N : at[n] \in S /\ Cardinality(below(at[n])) = n - 1
    BY <1>9, <1>10
  <1>12. at \in [1..N -> S]
    BY <1>9, <1>11
  <1> HIDE DEF rank
  <1>13. \A m, n \in 1..N : m < n <=> <<at[m], at[n]>> \in R
    <2> SUFFICES ASSUME NEW m \in 1..N, NEW n \in 1..N PROVE m < n <=> <<at[m], at[n]>> \in R
      OBVIOUS
    <2>1. at[m] \in S /\ at[n] \in S
      BY <1>11
    <2>2. Cardinality(below(at[m])) = m - 1 /\ Cardinality(below(at[n])) = n - 1
      BY <1>11
    <2>3. <<at[m], at[n]>> \in R => m - 1 < n - 1
      BY <2>1, <2>2, <1>3
    <2>4. <<at[n], at[m]>> \in R => n - 1 < m - 1
      BY <2>1, <2>2, <1>3
    <2>5. at[m] = at[n] => m = n
      BY <2>2
    <2>6. at[m] = at[n] \/ <<at[m], at[n]>> \in R \/ <<at[n], at[m]>> \in R
      BY <2>1 DEF StrictOrder
    <2>7. m \in Int /\ n \in Int
      BY <1>1
    <2>8. at[m] = at[n] => <<at[m], at[n]>> \notin R
      BY <2>1 DEF StrictOrder
    <2> QED
      BY <2>3, <2>4, <2>5, <2>6, <2>7, <2>8
  <1>14. \A x \in S : \E n \in 1..N : at[n] = x
    <2> SUFFICES ASSUME NEW x \in S PROVE \E n \in 1..N : at[n] = x
      OBVIOUS
    <2> DEFINE n == rank[x] + 1
    <2>1. n \in 1..N /\ rank[x] = n - 1
      BY <1>1, <1>4
    <2>2. Cardinality(below(at[n])) = n - 1 /\ at[n] \in S
      BY <2>1, <1>11
    <2>3. rank[at[n]] = rank[x]
      BY <2>1, <2>2 DEF rank
    <2>4. at[n] = x
      BY <2>2, <2>3, <1>5
    <2> QED
      BY <2>1, <2>4
  <1> QED
    BY <1>1, <1>12, <1>13, <1>14 DEF Arranges, N

(* `at' lists the numbers of S in increasing order. *)
Lists(at, S) ==
  /\ at \in [1..Cardinality(S) -> S] /\ Cardinality(S) \in Nat
  /\ \A m, n \in 1..Cardinality(S) : m < n <=> at[m] < at[n]
  /\ \A x \in S : \E n \in 1..Cardinality(S) : at[n] = x

LEMMA InOrderLists ==
  ASSUME NEW S \in SUBSET Int, IsFiniteSet(S)
  PROVE  Lists(InOrder(S), S)
  <1> DEFINE R == {p \in S \X S : p[1] < p[2]}
             at == InOrder(S)
  <1>1. \A i, j \in S : <<i, j>> \in R <=> i < j
    OBVIOUS
  <1> HIDE DEF R
  <1>2. StrictOrder(R, S)
    BY <1>1 DEF StrictOrder
  <1>3. \A i \in S : {j \in S : <<j, i>> \in R} = {j \in S : j < i}
    BY <1>1
  <1>4. Counts(at, S, R)
    <2>1. at = [n \in 1..Cardinality(S) |-> CHOOSE i \in S : Cardinality({j \in S : j < i}) = n - 1]
      BY DEF InOrder
    <2> HIDE DEF at
    <2>2. \A n \in 1..Cardinality(S) : (\E i \in S : Cardinality({j \in S : j < i}) = n - 1)
            => at[n] \in S /\ Cardinality({j \in S : j < at[n]}) = n - 1
      BY <2>1
    <2>3. at = [n \in 1..Cardinality(S) |-> at[n]]
      <3> DEFINE chosen(n) == CHOOSE i \in S : Cardinality({j \in S : j < i}) = n - 1
      <3>1. at = [n \in 1..Cardinality(S) |-> chosen(n)]
        BY <2>1
      <3> HIDE DEF chosen
      <3> QED
        BY <3>1
    <2>4. ASSUME NEW n \in 1..Cardinality(S), NEW i \in S, Cardinality({j \in S : <<j, i>> \in R}) = n - 1
          PROVE  at[n] \in S /\ Cardinality({j \in S : <<j, at[n]>> \in R}) = n - 1
      <3>1. {j \in S : <<j, i>> \in R} = {j \in S : j < i}
        BY <1>3
      <3>2. Cardinality({j \in S : j < i}) = n - 1
        BY <2>4, <3>1
      <3>3. at[n] \in S /\ Cardinality({j \in S : j < at[n]}) = n - 1
        BY <2>2, <3>2
      <3>4. {j \in S : <<j, at[n]>> \in R} = {j \in S : j < at[n]}
        BY <1>3, <3>3
      <3> QED
        BY <3>3, <3>4
    <2> QED
      BY <2>3, <2>4 DEF Counts
  <1> HIDE DEF at
  <1>5. Arranges(at, S, R)
    BY <1>2, <1>4, CountingArranges
  <1>6. at \in [1..Cardinality(S) -> S] /\ Cardinality(S) \in Nat
    BY <1>5 DEF Arranges
  <1>7. \A m, n \in 1..Cardinality(S) : m < n <=> at[m] < at[n]
    BY <1>1, <1>5, <1>6 DEF Arranges
  <1> QED
    BY <1>5, <1>6, <1>7 DEF Arranges, Lists, at

-----------------------------------------------------------------------------
(* Lists, whatever their rows are. *)
LEMMA ListOf ==
  ASSUME NEW T, NEW s \in Seq(T)
  PROVE  IsList(s) /\ ToSet(s) \subseteq T
  BY DEF IsList, ToSet

LEMMA ListShape ==
  ASSUME NEW s, IsList(s)
  PROVE  Len(s) \in Nat /\ DOMAIN s = 1..Len(s) /\ \A i \in DOMAIN s : s[i] \in ToSet(s)
  BY DEF IsList, ToSet

LEMMA ListOfFunction ==
  ASSUME NEW n \in Nat, NEW s, DOMAIN s = 1..n, s = [i \in 1..n |-> s[i]]
  PROVE  IsList(s) /\ Len(s) = n
  <1>1. \A i \in 1..n : s[i] \in ToSet(s)
    BY DEF ToSet
  <1> DEFINE T == ToSet(s)
  <1> HIDE DEF T
  <1>2. s \in [1..n -> T]
    BY <1>1 DEF T
  <1>3. s \in Seq(T) /\ Len(s) = n
    BY <1>2
  <1> QED
    BY <1>3 DEF IsList, T

LEMMA ListAppended ==
  ASSUME NEW s, IsList(s), NEW x
  PROVE  /\ IsList(Append(s, x)) /\ ToSet(Append(s, x)) = ToSet(s) \union {x} /\ Len(Append(s, x)) = Len(s) + 1
         /\ \A i \in DOMAIN s : i \in DOMAIN Append(s, x) /\ Append(s, x)[i] = s[i]
         /\ Append(s, x)[Len(s) + 1] = x
  <1> DEFINE T == ToSet(s) \union {x}
             t == Append(s, x)
  <1>1. s \in Seq(T)
    BY DEF IsList
  <1>2. Len(s) \in Nat /\ DOMAIN s = 1..Len(s) /\ x \in T
    BY <1>1
  <1> HIDE DEF T
  <1>3. t \in Seq(T) /\ Len(t) = Len(s) + 1 /\ DOMAIN t = 1..(Len(s) + 1)
    BY <1>1, <1>2
  <1>4. \A i \in DOMAIN s : i \in DOMAIN t /\ t[i] = s[i]
    BY <1>1, <1>2, <1>3
  <1>5. t[Len(s) + 1] = x
    BY <1>1, <1>2
  <1> HIDE DEF t
  <1>6. ToSet(t) = ToSet(s) \union {x}
    <2>1. \A i \in DOMAIN t : i \in DOMAIN s \/ i = Len(s) + 1
      BY <1>2, <1>3
    <2>2. Len(s) + 1 \in DOMAIN t
      BY <1>2, <1>3
    <2> QED
      BY <2>1, <2>2, <1>4, <1>5 DEF ToSet
  <1>7. IsList(t)
    BY <1>3, ListOf
  <1> QED
    BY <1>3, <1>4, <1>5, <1>6, <1>7 DEF t

LEMMA ListsJoined ==
  ASSUME NEW s, IsList(s), NEW t, IsList(t)
  PROVE  /\ IsList(s \o t) /\ ToSet(s \o t) = ToSet(s) \union ToSet(t) /\ Len(s \o t) = Len(s) + Len(t)
         /\ \A i \in DOMAIN s : i \in DOMAIN (s \o t) /\ (s \o t)[i] = s[i]
         /\ \A i \in DOMAIN (s \o t) \ DOMAIN s : i - Len(s) \in DOMAIN t /\ (s \o t)[i] = t[i - Len(s)]
  <1> DEFINE T == ToSet(s) \union ToSet(t)
             u == s \o t
  <1>1. s \in Seq(T) /\ t \in Seq(T)
    BY DEF IsList
  <1> HIDE DEF T
  <1>2. Len(s) \in Nat /\ Len(t) \in Nat /\ DOMAIN s = 1..Len(s) /\ DOMAIN t = 1..Len(t)
    BY <1>1
  <1>3. u \in Seq(T) /\ Len(u) = Len(s) + Len(t) /\ DOMAIN u = 1..(Len(s) + Len(t))
    BY <1>1, <1>2
  <1>4. \A i \in 1..(Len(s) + Len(t)) : u[i] = IF i <= Len(s) THEN s[i] ELSE t[i - Len(s)]
    BY <1>1, <1>2
  <1> HIDE DEF u
  <1>5. \A i \in DOMAIN s : i \in DOMAIN u /\ u[i] = s[i]
    BY <1>2, <1>3, <1>4
  <1>6. \A i \in DOMAIN u \ DOMAIN s : i - Len(s) \in DOMAIN t /\ u[i] = t[i - Len(s)]
    BY <1>2, <1>3, <1>4
  <1>7. \A i \in DOMAIN t : Len(s) + i \in DOMAIN u /\ u[Len(s) + i] = t[i]
    <2> TAKE i \in DOMAIN t
    <2>1. Len(s) + i \in 1..(Len(s) + Len(t)) /\ ~(Len(s) + i <= Len(s)) /\ (Len(s) + i) - Len(s) = i
      BY <1>2
    <2> QED
      BY <2>1, <1>3, <1>4
  <1>8. ToSet(u) = ToSet(s) \union ToSet(t)
    BY <1>5, <1>6, <1>7 DEF ToSet
  <1>9. IsList(u)
    BY <1>3, ListOf
  <1> QED
    BY <1>3, <1>5, <1>6, <1>8, <1>9 DEF u

LEMMA ListTaken ==
  ASSUME NEW s, IsList(s), NEW n \in Nat
  PROVE  LET t == Take(s, n)
         IN  /\ IsList(t) /\ Len(t) = IF Len(s) > n THEN n ELSE Len(s)
             /\ \A i \in DOMAIN t : i \in DOMAIN s /\ t[i] = s[i]
  <1> DEFINE T == ToSet(s)
             t == Take(s, n)
  <1>1. s \in Seq(T)
    BY DEF IsList
  <1> HIDE DEF T
  <1>2. Len(s) \in Nat /\ DOMAIN s = 1..Len(s)
    BY <1>1
  <1>3. CASE Len(s) > n
    <2>1. t = SubSeq(s, 1, n)
      BY <1>3 DEF Take
    <2>2. t \in Seq(T) /\ Len(t) = n /\ DOMAIN t = 1..n
      BY <1>1, <1>2, <1>3, <2>1
    <2>3. \A i \in 1..n : i \in 1..Len(s) /\ t[i] = s[i]
      BY <1>1, <1>2, <1>3, <2>1
    <2> HIDE DEF t
    <2>4. IsList(t)
      BY <2>2, ListOf
    <2> QED
      BY <1>2, <1>3, <2>2, <2>3, <2>4 DEF t
  <1>4. CASE ~(Len(s) > n)
    BY <1>4 DEF Take
  <1> QED
    BY <1>3, <1>4

LEMMA EmptyList == IsList(<<>>) /\ Len(<<>>) = 0 /\ ToSet(<<>>) = {} /\ DOMAIN <<>> = {}
  BY DEF IsList, ToSet

(* t has the rows of s at the places S, listed by `at'. *)
Keeps(t, s, at, S) ==
  /\ Lists(at, S) /\ IsList(t) /\ Len(t) = Cardinality(S)
  /\ \A n \in 1..Cardinality(S) : t[n] = s[at[n]]

LEMMA OnlyAtKeeps ==
  ASSUME NEW s, IsList(s), NEW S \in SUBSET DOMAIN s
  PROVE  Keeps(OnlyAt(s, S), s, InOrder(S), S)
  <1>1. Len(s) \in Nat /\ DOMAIN s = 1..Len(s)
    BY ListShape
  <1>2. IsFiniteSet(S) /\ S \in SUBSET Int
    <2>1. IsFiniteSet(1..Len(s)) /\ S \in SUBSET (1..Len(s)) /\ 1..Len(s) \subseteq Int
      BY <1>1, FS_Interval
    <2> QED
      BY <2>1, FS_Subset
  <1> DEFINE at == InOrder(S)
             t == OnlyAt(s, S)
  <1>3. Lists(at, S)
    BY <1>2, InOrderLists
  <1>4. t = [n \in 1..Cardinality(S) |-> s[at[n]]]
    BY DEF OnlyAt
  <1> HIDE DEF at, t
  <1>5. Cardinality(S) \in Nat
    BY <1>3 DEF Lists
  <1>6. DOMAIN t = 1..Cardinality(S) /\ t = [n \in 1..Cardinality(S) |-> t[n]]
    BY <1>4
  <1>7. IsList(t) /\ Len(t) = Cardinality(S)
    BY <1>5, <1>6, ListOfFunction
  <1> QED
    BY <1>3, <1>4, <1>7 DEF Keeps, at, t

LEMMA KeptRows ==
  ASSUME NEW s, NEW S, NEW t, NEW at, Keeps(t, s, at, S)
  PROVE  /\ DOMAIN t = 1..Cardinality(S) /\ \A n \in DOMAIN t : at[n] \in S /\ t[n] = s[at[n]]
         /\ \A x \in S : \E n \in DOMAIN t : at[n] = x /\ t[n] = s[x]
         /\ ToSet(t) = {s[i] : i \in S}
  <1>1. DOMAIN t = 1..Cardinality(S)
    BY ListShape DEF Keeps
  <1>2. \A n \in DOMAIN t : at[n] \in S /\ t[n] = s[at[n]]
    BY <1>1 DEF Keeps, Lists
  <1>3. \A x \in S : \E n \in DOMAIN t : at[n] = x /\ t[n] = s[x]
    BY <1>1, <1>2 DEF Keeps, Lists
  <1> QED
    BY <1>1, <1>2, <1>3 DEF ToSet

(* A key's first place has it. *)
HasFirst(n, key, i) == \E k \in 1..n : key[k] = key[i] /\ \A j \in 1..(k - 1) : key[j] # key[k]

LEMMA FirstsCover ==
  ASSUME NEW n \in Nat, NEW key, NEW i \in 1..n
  PROVE  HasFirst(n, key, i)
  <1> DEFINE Firsts == {k \in 1..n : \A j \in 1..(k - 1) : key[j] # key[k]}
             S == {m \in Nat : \A k \in 1..n : k <= m => \E f \in Firsts : key[f] = key[k]}
  <1>1. 0 \in S
    OBVIOUS
  <1>2. ASSUME NEW m \in Nat, m \in S PROVE m + 1 \in S
    <2> SUFFICES ASSUME NEW k \in 1..n, k <= m + 1 PROVE \E f \in Firsts : key[f] = key[k]
      OBVIOUS
    <2>1. CASE k \in Firsts
      BY <2>1
    <2>2. CASE k \notin Firsts
      <3>1. PICK j \in 1..(k - 1) : key[j] = key[k]
        BY <2>2
      <3>2. j \in 1..n /\ j <= m
        OBVIOUS
      <3> QED
        BY <3>1, <3>2, <1>2
    <2> QED
      BY <2>1, <2>2
  <1> HIDE DEF S
  <1>3. n \in S
    BY <1>1, <1>2, SetInduction
  <1>4. PICK f \in Firsts : key[f] = key[i]
    BY <1>3 DEF S
  <1> QED
    BY <1>4 DEF HasFirst

(* Without repetition, a list has the same members. *)
LEMMA DistinctList ==
  ASSUME NEW s, IsList(s)
  PROVE  IsList(Distinct(s)) /\ ToSet(Distinct(s)) = ToSet(s)
  <1> DEFINE S == {i \in DOMAIN s : \A j \in 1..(i - 1) : s[j] # s[i]}
             t == Distinct(s)
  <1>1. t = OnlyAt(s, S)
    BY DEF Distinct, DistinctBy
  <1>2. S \in SUBSET DOMAIN s /\ Len(s) \in Nat /\ DOMAIN s = 1..Len(s)
    BY ListShape
  <1>3. \A i \in DOMAIN s : \E k \in S : s[k] = s[i]
    <2> TAKE i \in DOMAIN s
    <2>1. HasFirst(Len(s), s, i)
      BY <1>2, FirstsCover
    <2> QED
      BY <1>2, <2>1 DEF HasFirst
  <1> HIDE DEF S, t
  <1>4. Keeps(t, s, InOrder(S), S)
    BY <1>1, <1>2, OnlyAtKeeps
  <1>5. ToSet(t) = {s[i] : i \in S}
    BY <1>4, KeptRows
  <1>6. ToSet(t) = ToSet(s)
    BY <1>2, <1>3, <1>5 DEF ToSet
  <1> QED
    BY <1>4, <1>6 DEF Keeps, t

LEMMA ListIsFinite ==
  ASSUME NEW s, IsList(s)
  PROVE  IsFiniteSet(ToSet(s))
  <1> DEFINE T == ToSet(s)
  <1>1. Len(s) \in Nat /\ DOMAIN s = 1..Len(s) /\ s \in Seq(T)
    BY ListShape DEF IsList
  <1>2. T = {s[i] : i \in 1..Len(s)}
    BY <1>1 DEF ToSet
  <1> HIDE DEF T
  <1>3. s \in [1..Len(s) -> T] /\ \A x \in T : \E i \in 1..Len(s) : s[i] = x
    BY <1>1, <1>2
  <1>4. s \in Surjection(1..Len(s), T)
    BY <1>3 DEF Surjection
  <1>5. IsFiniteSet(1..Len(s))
    BY <1>1, FS_Interval
  <1> QED
    BY <1>4, <1>5, FS_Surjection DEF T

(* What the members of a finite set are taken to is finite. *)
LEMMA FiniteImage ==
  ASSUME NEW S, IsFiniteSet(S), NEW f
  PROVE  IsFiniteSet({f[x] : x \in S})
  <1> DEFINE T == {f[x] : x \in S}
             g == [x \in S |-> f[x]]
  <1>1. g \in [S -> T] /\ \A y \in T : \E x \in S : g[x] = y
    OBVIOUS
  <1> HIDE DEF T, g
  <1>2. g \in Surjection(S, T)
    BY <1>1 DEF Surjection
  <1> QED
    BY <1>2, FS_Surjection DEF T
=============================================================================
