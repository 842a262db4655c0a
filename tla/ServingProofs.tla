---------------------------- MODULE ServingProofs ----------------------------
(***************************************************************************)
(* Proofs about what stands between a request and the providers it calls.  *)
(* The rate limiter, for any set of clients and requests, any burst,       *)
(* refill time, idle timeout and stall that LimiterAssumption allows: the  *)
(* inductive invariant LimiterInv, and that evicting idle visitors cannot  *)
(* be told from never evicting any.  The LLM router, for any number of     *)
(* providers, any finite set of concurrent completions and any limits,     *)
(* windows and cooldowns: RouterInv holds what both results rest on.  The  *)
(* embedding provider, for any finite set of concurrent calls, any numbers *)
(* of inputs and any limits: BudgetInv says where the requests of a day    *)
(* are: charged, awaited, lost or about to be sent; VectorInv says of each *)
(* call that its vectors and the batches still to do are its inputs.       *)
(* Completions and calls come nearer to their end with every step.  The    *)
(* composition that is checked keeps what each component promises.         *)
(***************************************************************************)
EXTENDS MCServing, ListProofs

(* A full bucket and the time that must pass before an eviction. *)
LEMMA LimiterNumbers ==
    /\ Full \in Nat /\ Cost \in Nat /\ Cost >= 1 /\ MaxStall \in Nat
    /\ IdleTimeout \in Nat /\ IdleTimeout >= Full + MaxStall
  <1>1. Burst * Cost \in Nat
    BY LimiterAssumption
  <1>2. QED
    BY <1>1, LimiterAssumption DEF Full

(* The invariant holds before the first request. *)
LEMMA LimiterInitInv == LimiterInit => LimiterInv
  BY LimiterNumbers, LimiterAssumption
  DEF LimiterInit, LimiterInv, LimiterTypeOK, OneBucketPerKey, SeenSince, IdleRefills, Known, Waiting

(* getLimiter hands out the visitor's bucket, just seen, or one that       *)
(* nobody else has.                                                        *)
LEMMA GetLimiterInv ==
  ASSUME LimiterInv, NEW r \in Requests, NEW k \in Keys, GetLimiter(r, k)
  PROVE  LimiterInv'
  <1> USE LimiterNumbers, LimiterAssumption DEF LimiterInv
  <1>1. PICK b \in (IF Known(k) THEN {visitor[k].bucket} ELSE Unused) :
          /\ slot' = [slot EXCEPT ![r] = [key |-> k, bucket |-> b, waited |-> 0]]
          /\ visitor' = [visitor EXCEPT ![k] = [bucket |-> b, idle |-> 0]]
          /\ tokens' = IF Known(k) THEN tokens ELSE [tokens EXCEPT ![b] = Full]
    BY DEF GetLimiter, Hold
  <1>2. b \in Buckets /\ b # NoBucket
    BY DEF LimiterTypeOK, Known, Unused
  <1>3. \A l \in Keys : l # k => visitor[l].bucket # b
    BY DEF Known, Unused, OneBucketPerKey
  <1>4. \A q \in Requests : Waiting(q) /\ slot[q].key = k => slot[q].bucket = b
    <2>1. CASE Known(k)
      BY <2>1 DEF OneBucketPerKey
    <2>2. CASE ~Known(k)
      BY <2>2 DEF OneBucketPerKey, Known, Waiting
    <2>3. QED
      BY <2>1, <2>2
  <1>5. LimiterTypeOK'
    BY <1>1, <1>2 DEF LimiterTypeOK
  <1>6. OneBucketPerKey'
    <2>1. \A x, l \in Keys : Known(x)' /\ visitor'[x].bucket = visitor'[l].bucket => x = l
      BY <1>1, <1>2, <1>3 DEF OneBucketPerKey, Known, LimiterTypeOK
    <2>2. \A q \in Requests : Waiting(q)' => slot'[q].bucket = visitor'[slot'[q].key].bucket
      BY <1>1, <1>2, <1>4 DEF OneBucketPerKey, Waiting, LimiterTypeOK
    <2>3. QED
      BY <2>1, <2>2 DEF OneBucketPerKey
  <1>7. SeenSince'
    BY <1>1 DEF SeenSince, Waiting, LimiterTypeOK
  <1>8. IdleRefills'
    BY <1>1, <1>2, <1>3 DEF IdleRefills, Known, LimiterTypeOK
  <1>9. QED
    BY <1>5, <1>6, <1>7, <1>8

(* Allow takes a token of a visitor seen at most MaxStall ticks ago. *)
LEMMA AllowInv ==
  ASSUME LimiterInv, NEW r \in Requests, Allow(r)
  PROVE  LimiterInv'
  <1> USE LimiterNumbers, LimiterAssumption DEF LimiterInv, Allow
  <1>1. LimiterTypeOK'
    <2>1. slot[r].bucket \in Buckets /\ tokens[slot[r].bucket] \in 0..Full
      BY DEF LimiterTypeOK, Waiting
    <2>2. tokens' \in [Buckets -> 0..Full]
      <3> tokens \in [Buckets -> 0..Full]
        BY DEF LimiterTypeOK
      <3>1. CASE tokens[slot[r].bucket] >= Cost
        <4>1. tokens[slot[r].bucket] - Cost \in 0..Full
          BY <2>1, <3>1
        <4>2. QED
          BY <3>1, <4>1
      <3>2. CASE ~(tokens[slot[r].bucket] >= Cost)
        BY <3>2
      <3>3. QED
        BY <3>1, <3>2
    <2>3. slot' \in [Requests -> [key : Keys, bucket : Buckets \union {NoBucket}, waited : 0..MaxStall]]
      <3>1. /\ slot \in [Requests -> [key : Keys, bucket : Buckets \union {NoBucket}, waited : 0..MaxStall]]
            /\ slot' = [slot EXCEPT ![r].bucket = NoBucket, ![r].waited = 0]
            /\ 0 \in 0..MaxStall
        BY DEF LimiterTypeOK
      <3> HIDE DEF LimiterInv, Allow
      <3>2. QED
        BY <3>1
    <2>4. QED
      BY <2>2, <2>3 DEF LimiterTypeOK
  <1>2. OneBucketPerKey'
    BY DEF OneBucketPerKey, Known, Waiting, LimiterTypeOK
  <1>3. SeenSince'
    BY DEF SeenSince, Waiting, LimiterTypeOK
  <1>4. IdleRefills'
    <2> SUFFICES ASSUME NEW k \in Keys, Known(k)
                 PROVE  \/ tokens'[visitor[k].bucket] = Full
                        \/ tokens'[visitor[k].bucket] + MaxStall >= visitor[k].idle
      BY DEF IdleRefills, Known
    <2>1. CASE visitor[k].bucket = slot[r].bucket
      <3>1. k = slot[r].key
        BY <2>1 DEF OneBucketPerKey, Waiting, LimiterTypeOK
      <3>2. visitor[k].idle <= MaxStall
        BY <3>1 DEF SeenSince, Waiting, LimiterTypeOK
      <3>3. tokens'[visitor[k].bucket] \in Nat
        BY <1>1, <2>1 DEF LimiterTypeOK, Waiting
      <3>4. QED
        BY <3>2, <3>3 DEF LimiterTypeOK
    <2>2. CASE visitor[k].bucket # slot[r].bucket
      BY <2>2 DEF IdleRefills
    <2>3. QED
      BY <2>1, <2>2
  <1>5. QED
    BY <1>1, <1>2, <1>3, <1>4

(* A visitor old enough to be evicted has nobody waiting on it. *)
LEMMA OldIsNotHeld ==
  ASSUME LimiterInv, NEW k \in Keys, visitor[k].idle > IdleTimeout
  PROVE  \A r \in Requests : Waiting(r) => slot[r].key # k
  BY LimiterNumbers DEF LimiterInv, LimiterTypeOK, SeenSince, Waiting

(* ... and its bucket is full. *)
LEMMA OldIsFull ==
  ASSUME LimiterInv, NEW k \in Keys, Known(k), visitor[k].idle > IdleTimeout
  PROVE  tokens[visitor[k].bucket] = Full
  BY LimiterNumbers DEF LimiterInv, LimiterTypeOK, IdleRefills, Known

(* cleanupLoop forgets only visitors nobody waits on. *)
LEMMA CleanupInv ==
  ASSUME LimiterInv, Cleanup
  PROVE  LimiterInv'
  <1> USE LimiterNumbers, LimiterAssumption DEF LimiterInv, Cleanup
  <1>1. LimiterTypeOK'
    BY DEF LimiterTypeOK
  <1>2. OneBucketPerKey'
    <2>1. \A x, l \in Keys : Known(x)' /\ visitor'[x].bucket = visitor'[l].bucket => x = l
      BY DEF OneBucketPerKey, Known
    <2>2. \A q \in Requests : Waiting(q)' => slot'[q].bucket = visitor'[slot'[q].key].bucket
      BY OldIsNotHeld DEF OneBucketPerKey, Waiting, LimiterTypeOK
    <2>3. QED
      BY <2>1, <2>2 DEF OneBucketPerKey
  <1>3. SeenSince'
    BY OldIsNotHeld DEF SeenSince, Waiting, LimiterTypeOK
  <1>4. IdleRefills'
    BY DEF IdleRefills, Known
  <1>5. QED
    BY <1>1, <1>2, <1>3, <1>4

(* A tick ages visitors and requests alike and refills every bucket. *)
LEMMA LimiterTickInv ==
  ASSUME LimiterInv, LimiterTick
  PROVE  LimiterInv'
  <1> USE LimiterNumbers, LimiterAssumption DEF LimiterInv, LimiterTick
  <1>1. LimiterTypeOK'
    <2>1. tokens' \in [Buckets -> 0..Full]
      BY DEF LimiterTypeOK
    <2>2. visitor' \in [Keys -> [bucket : Buckets \union {NoBucket}, idle : 0..(IdleTimeout + 1)]]
      BY DEF LimiterTypeOK, Known
    <2>3. slot' \in [Requests -> [key : Keys, bucket : Buckets \union {NoBucket}, waited : 0..MaxStall]]
      <3>1. \A r \in Requests :
              slot'[r] \in [key : Keys, bucket : Buckets \union {NoBucket}, waited : 0..MaxStall]
        BY DEF LimiterTypeOK, Waiting
      <3>2. QED
        BY <3>1
    <2>4. QED
      BY <2>1, <2>2, <2>3 DEF LimiterTypeOK
  <1>2. /\ \A k \in Keys : visitor'[k].bucket = visitor[k].bucket
        /\ \A r \in Requests : slot'[r].bucket = slot[r].bucket /\ slot'[r].key = slot[r].key
    BY DEF LimiterTypeOK
  <1>3. OneBucketPerKey'
    BY <1>2 DEF OneBucketPerKey, Known, Waiting, LimiterTypeOK
  <1>4. SeenSince'
    BY <1>2 DEF SeenSince, Waiting, LimiterTypeOK
  <1>5. IdleRefills'
    BY <1>2 DEF IdleRefills, Known, LimiterTypeOK
  <1>6. QED
    BY <1>1, <1>3, <1>4, <1>5

(* LimiterInv is an invariant of the limiter, whatever requests, evictions *)
(* and ticks interleave.                                                   *)
THEOREM LimiterInvariant == LimiterSpec => []LimiterInv
  <1>1. LimiterInv /\ [LimiterNext]_limiterVars => LimiterInv'
    <2> SUFFICES ASSUME LimiterInv, [LimiterNext]_limiterVars
                 PROVE  LimiterInv'
      OBVIOUS
    <2>1. CASE UNCHANGED limiterVars
      BY <2>1 DEF limiterVars, LimiterInv, LimiterTypeOK, OneBucketPerKey, SeenSince,
                  IdleRefills, Known, Waiting
    <2>2. ASSUME NEW r \in Requests, NEW k \in Keys, GetLimiter(r, k)
          PROVE  LimiterInv'
      BY <2>2, GetLimiterInv
    <2>3. ASSUME NEW r \in Requests, Allow(r)
          PROVE  LimiterInv'
      BY <2>3, AllowInv
    <2>4. CASE Cleanup
      BY <2>4, CleanupInv
    <2>5. CASE LimiterTick
      BY <2>5, LimiterTickInv
    <2>6. QED
      BY <2>1, <2>2, <2>3, <2>4, <2>5 DEF LimiterNext
  <1>2. QED
    BY LimiterInitInv, <1>1, PTL DEF LimiterSpec

(* The limiter is one token bucket per key that is never evicted: each     *)
(* step of a request or of the cleanup loop is a step of TokenBucket or    *)
(* changes nothing a caller can see.                                       *)
THEOREM LimiterRefinement == LimiterSpec => ImplementsTokenBucket
  <1> DEFINE shown == <<[k \in Keys |-> CreditOf(k)], verdict>>
  <1>1. LimiterInit => Ideal!TBInit
    BY DEF LimiterInit, Ideal!TBInit, Ideal!FullCredit, CreditOf, Known, Full
  <1>2. LimiterInv /\ [LimiterNext]_limiterVars => [Ideal!TBNext]_shown
    <2> SUFFICES ASSUME LimiterInv, [LimiterNext]_limiterVars
                 PROVE  [Ideal!TBNext]_shown
      OBVIOUS
    <2> USE LimiterNumbers, LimiterAssumption DEF LimiterInv
    <2>1. CASE UNCHANGED limiterVars
      BY <2>1 DEF limiterVars, CreditOf, Known
    <2>2. ASSUME NEW r \in Requests, NEW k \in Keys, GetLimiter(r, k)
          PROVE  UNCHANGED shown
      <3>1. PICK b \in (IF Known(k) THEN {visitor[k].bucket} ELSE Unused) :
              /\ visitor' = [visitor EXCEPT ![k] = [bucket |-> b, idle |-> 0]]
              /\ tokens' = IF Known(k) THEN tokens ELSE [tokens EXCEPT ![b] = Full]
        BY <2>2 DEF GetLimiter
      <3>2. b \in Buckets /\ b # NoBucket
        BY DEF LimiterTypeOK, Known, Unused
      <3>3. \A l \in Keys : l # k => visitor[l].bucket # b
        BY DEF Known, Unused, OneBucketPerKey
      <3>4. \A l \in Keys : CreditOf(l)' = CreditOf(l)
        BY <3>1, <3>2, <3>3 DEF CreditOf, Known, LimiterTypeOK
      <3>5. QED
        BY <2>2, <3>4 DEF GetLimiter
    <2>3. ASSUME NEW r \in Requests, Allow(r)
          PROVE  Ideal!TBNext
      <3> DEFINE k == slot[r].key
      <3>1. /\ k \in Keys /\ Known(k) /\ visitor[k].bucket = slot[r].bucket
            /\ slot[r].bucket \in Buckets
        BY <2>3 DEF Allow, Waiting, OneBucketPerKey, Known, LimiterTypeOK
      <3>2. CreditOf(k) = tokens[slot[r].bucket]
        BY <3>1 DEF CreditOf
      <3>3. \A l \in Keys : l # k /\ Known(l) => visitor[l].bucket # slot[r].bucket
        BY <3>1 DEF OneBucketPerKey
      <3>4. CASE tokens[slot[r].bucket] >= Cost
        <4>1. \A l \in Keys : CreditOf(l)' = IF l = k THEN CreditOf(k) - Cost ELSE CreditOf(l)
          BY <2>3, <3>1, <3>3, <3>4 DEF Allow, CreditOf, Known, LimiterTypeOK
        <4>2. Ideal!TBPass(k)
          BY <2>3, <3>1, <3>2, <3>4, <4>1 DEF Allow, Ideal!TBPass
        <4>3. QED
          BY <3>1, <4>2 DEF Ideal!TBNext
      <3>5. CASE ~(tokens[slot[r].bucket] >= Cost)
        <4>1. \A l \in Keys : CreditOf(l)' = CreditOf(l)
          BY <2>3, <3>5 DEF Allow, CreditOf, Known
        <4>2. ~(CreditOf(k) >= Cost) /\ CreditOf(k) \in Int /\ Cost \in Int
          BY <3>1, <3>2, <3>5 DEF LimiterTypeOK
        <4>3. verdict' = [key |-> k, passed |-> FALSE]
          <5>1. (tokens[slot[r].bucket] >= Cost) = FALSE
            BY <3>5
          <5>2. QED
            BY <2>3, <5>1, Zenon DEF Allow
        <4>4. CreditOf(k) < Cost
          BY <4>2
        <4>5. Ideal!TBRefuse(k)
          BY <3>1, <4>1, <4>3, <4>4 DEF Ideal!TBRefuse
        <4>6. QED
          BY <3>1, <4>5 DEF Ideal!TBNext
      <3>6. QED
        BY <3>4, <3>5
    <2>4. ASSUME Cleanup
          PROVE  UNCHANGED shown
      <3>1. \A k \in Keys : CreditOf(k)' = CreditOf(k)
        BY <2>4, OldIsFull DEF Cleanup, CreditOf, Known
      <3>2. QED
        BY <2>4, <3>1 DEF Cleanup
    <2>5. ASSUME LimiterTick
          PROVE  Ideal!TBNext
      <3>1. \A k \in Keys : /\ visitor'[k].bucket = visitor[k].bucket
                            /\ Known(k) => visitor[k].bucket \in Buckets
        BY <2>5 DEF LimiterTick, LimiterTypeOK, Known
      <3>2. \A k \in Keys :
              CreditOf(k)' = IF CreditOf(k) < Full THEN CreditOf(k) + 1 ELSE Full
        BY <2>5, <3>1 DEF LimiterTick, CreditOf, Known
      <3>3. Ideal!TBTick
        BY <2>5, <3>2 DEF LimiterTick, Ideal!TBTick, Ideal!FullCredit, Full
      <3>4. QED
        BY <3>3 DEF Ideal!TBNext
    <2>6. QED
      BY <2>1, <2>2, <2>3, <2>4, <2>5 DEF LimiterNext
  <1>3. QED
    BY <1>1, <1>2, LimiterInvariant, PTL DEF LimiterSpec, ImplementsTokenBucket, Ideal!TBSpec

-----------------------------------------------------------------------------
ProviderRecord == [state : {"available", "rate_limited", "error"}, used : Nat,
                   age : 0..Window, cool : Nat, errors : 0..ErrorLimit]

CallRecord == [pc : {"idle", "select", "generate"}, at : Providers \union {0}, tried : SUBSET Providers]

LEMMA RouterNumbers ==
    /\ 0 \notin Providers /\ Providers \subseteq Nat
    /\ RpmLimit \in Nat /\ RpmLimit >= 1 /\ Window \in Nat /\ ErrorLimit \in Nat /\ ErrorLimit >= 1
    /\ Recovery \in Nat /\ RetryAfters \subseteq Nat
    /\ IsFiniteSet(Completions) /\ Cardinality(Completions) \in Nat
  <1>1. Cardinality(Completions) \in Nat
    BY RouterAssumption, FS_CardinalityType
  <1> QED
    BY <1>1, RouterAssumption DEF Providers

(* Completions in flight are finitely many, and one that comes or goes     *)
(* changes their number by one.                                            *)
LEMMA Counted ==
  ASSUME NEW S, S \subseteq Completions
  PROVE  /\ IsFiniteSet(S) /\ Cardinality(S) \in Nat /\ Cardinality(S) <= Cardinality(Completions)
         /\ \A c \in S : Cardinality(S \ {c}) = Cardinality(S) - 1
  <1>1. IsFiniteSet(S) /\ Cardinality(S) <= Cardinality(Completions)
    BY RouterNumbers, FS_Subset
  <1>2. Cardinality(S) \in Nat
    BY <1>1, FS_CardinalityType
  <1>3. \A c \in S : Cardinality(S \ {c}) = Cardinality(S) - 1
    BY <1>1, FS_RemoveElement
  <1> QED
    BY <1>1, <1>2, <1>3

LEMMA RouterInitInv == RouterInit => RouterInv
  <1> SUFFICES ASSUME RouterInit PROVE RouterInv
    OBVIOUS
  <1>1. RouterTypeOK
    BY RouterNumbers DEF RouterInit, RouterTypeOK, NoCall
  <1>2. \A p \in Providers : InFlight(p) = {}
    BY DEF RouterInit, InFlight, NoCall
  <1>3. Cardinality({}) = 0
    BY FS_EmptySet
  <1>4. OverrunBounded
    <2> SUFFICES ASSUME NEW p \in Providers
                 PROVE  provider[p].used + Cardinality(InFlight(p)) <= RpmLimit + Cardinality(Completions) - 1
      BY DEF OverrunBounded
    <2>1. provider[p].used = 0 /\ Cardinality(InFlight(p)) = 0
      BY <1>2, <1>3 DEF RouterInit
    <2> QED
      BY <2>1, RouterNumbers
  <1> QED
    BY <1>1, <1>4 DEF RouterInv, InUse, RestIsKept, RouterInit, NoCall

(* What a selection may see of a provider. *)
LEMMA CheckedIsSound ==
  ASSUME RouterTypeOK, NEW p \in Providers
  PROVE  /\ Checked(p) \in ProviderRecord
         /\ Checked(p).used <= provider[p].used
         /\ Checked(p).cool = provider[p].cool
         /\ Checked(p).state = "available" => provider[p].state = "available" \/ provider[p].cool = 0
         /\ Checked(p).state # "available" => Checked(p).state = provider[p].state
  <1>1. provider[p] \in ProviderRecord
    BY DEF RouterTypeOK, ProviderRecord
  <1>2. 0 \in 0..Window /\ 0 \in 0..ErrorLimit
    BY RouterNumbers
  <1> QED
    BY <1>1, <1>2 DEF Checked, ProviderRecord

(* A step that uses a provider less, or as much, with no more in flight. *)
LEMMA Unloaded ==
  ASSUME RouterInv, \A p \in Providers : provider'[p].used \in Nat
                      /\ provider'[p].used <= provider[p].used /\ InFlight(p)' \subseteq InFlight(p)
  PROVE  OverrunBounded'
  <1> SUFFICES ASSUME NEW p \in Providers
               PROVE  provider'[p].used + Cardinality(InFlight(p)') <= RpmLimit + Cardinality(Completions) - 1
    BY DEF OverrunBounded
  <1>1. InFlight(p) \subseteq Completions /\ provider[p].used \in Nat
    BY DEF InFlight, RouterInv, RouterTypeOK
  <1>2. IsFiniteSet(InFlight(p)) /\ Cardinality(InFlight(p)) \in Nat
    BY <1>1, Counted
  <1>3. Cardinality(InFlight(p)') <= Cardinality(InFlight(p)) /\ Cardinality(InFlight(p)') \in Nat
    BY <1>2, FS_Subset, FS_CardinalityType
  <1>4. provider[p].used + Cardinality(InFlight(p)) <= RpmLimit + Cardinality(Completions) - 1
    BY DEF RouterInv, OverrunBounded
  <1> QED
    BY <1>1, <1>2, <1>3, <1>4, RouterNumbers

(* _select: the provider taken is one that is not resting and is below its *)
(* limit, so that what is in flight there may grow by one.                 *)
LEMMA SelectInv ==
  ASSUME RouterInv, NEW c \in Completions, Select(c)
  PROVE  RouterInv' /\ \A p \in Providers : asked[p] > 0 => InFlight(p)' \subseteq InFlight(p)
  <1> DEFINE tried == call[c].tried
             shown  == [p \in Providers |-> IF p \in tried THEN provider[p] ELSE Checked(p)]
             found == {p \in Providers \ tried : Available(shown[p])}
  <1>1. /\ call[c].pc = "select" /\ asked' = asked
        /\ provider' = provider \/ provider' = shown
        /\ \/ call' = [call EXCEPT ![c] = NoCall]
           \/ \E p \in found : call' = [call EXCEPT ![c] = [pc |-> "generate", at |-> p, tried |-> tried \union {p}]]
        /\ found # {} => provider' = shown
    BY DEF Select, Tried
  <1>2. RouterTypeOK /\ InUse /\ RestIsKept /\ OverrunBounded
    BY DEF RouterInv
  <1>3. \A p \in Providers :
          /\ provider'[p] \in ProviderRecord /\ provider'[p].used <= provider[p].used
          /\ provider'[p].cool = provider[p].cool
          /\ asked[p] > 0 => provider'[p].state # "available"
    <2> TAKE p \in Providers
    <2>1. provider[p] \in ProviderRecord /\ provider[p].used \in Nat /\ asked[p] \in Nat
      BY <1>2 DEF RouterTypeOK, ProviderRecord
    <2>2. asked[p] = provider[p].cool /\ (asked[p] > 0 => provider[p].state # "available")
      BY <1>2 DEF RestIsKept
    <2>3. CASE provider' = provider
      BY <2>1, <2>2, <2>3
    <2>4. CASE provider' = shown
      <3>1. provider'[p] = provider[p] \/ provider'[p] = Checked(p)
        BY <2>4
      <3> QED
        BY <3>1, <2>1, <2>2, <1>2, CheckedIsSound
    <2> QED
      BY <1>1, <2>3, <2>4
  <1>4. provider' \in [Providers -> ProviderRecord]
    <2>1. provider' = [p \in Providers |-> provider'[p]]
      BY <1>1, <1>2 DEF RouterTypeOK
    <2> QED
      BY <2>1, <1>3
  <1>5. RestIsKept'
    BY <1>1, <1>2, <1>3 DEF RestIsKept
  <1>6. call \in [Completions -> CallRecord] /\ asked \in [Providers -> Nat] /\ tried \subseteq Providers
    BY <1>2 DEF RouterTypeOK, CallRecord
  <1>7. CASE call' = [call EXCEPT ![c] = NoCall]
    <2>1. call' \in [Completions -> CallRecord]
      BY <1>6, <1>7 DEF CallRecord, NoCall
    <2>2. \A p \in Providers : InFlight(p)' = InFlight(p)
      BY <1>1, <1>6, <1>7 DEF InFlight, NoCall
    <2>3. InUse'
      BY <1>2, <1>6, <1>7 DEF InUse, NoCall
    <2>4. OverrunBounded'
      <3>1. \A p \in Providers : provider'[p].used \in Nat
        BY <1>3 DEF ProviderRecord
      <3> QED
        BY <2>2, <3>1, <1>3, Unloaded
    <2>5. RouterTypeOK'
      BY <2>1, <1>1, <1>4, <1>6 DEF RouterTypeOK, ProviderRecord, CallRecord
    <2> QED
      BY <2>2, <2>3, <2>4, <2>5, <1>5 DEF RouterInv
  <1>8. CASE \E p \in found : call' = [call EXCEPT ![c] = [pc |-> "generate", at |-> p, tried |-> tried \union {p}]]
    <2>1. PICK p \in found : call' = [call EXCEPT ![c] = [pc |-> "generate", at |-> p, tried |-> tried \union {p}]]
      BY <1>8
    <2>2. p \in Providers /\ provider' = shown /\ Available(provider'[p])
      BY <1>1, <2>1
    <2>3. asked[p] = 0
      BY <2>2, <1>3, <1>6 DEF Available
    <2>4. InFlight(p)' \subseteq Completions /\ \A q \in Providers \ {p} : InFlight(q)' = InFlight(q)
      BY <1>1, <1>6, <2>1 DEF InFlight
    <2>5. RouterTypeOK'
      <3>1. tried \union {p} \subseteq Providers
        BY <2>2, <1>6
      <3>2. [pc |-> "generate", at |-> p, tried |-> tried \union {p}] \in CallRecord
        BY <3>1, <2>2 DEF CallRecord
      <3>3. call' \in [Completions -> CallRecord]
        BY <3>2, <2>1, <1>6
      <3> QED
        BY <3>3, <1>1, <1>4, <1>6 DEF RouterTypeOK, ProviderRecord, CallRecord
    <2>6. InUse'
      BY <1>2, <1>6, <2>1, <2>2 DEF InUse
    <2>7. OverrunBounded'
      <3> SUFFICES ASSUME NEW q \in Providers
                   PROVE  provider'[q].used + Cardinality(InFlight(q)') <= RpmLimit + Cardinality(Completions) - 1
        BY DEF OverrunBounded
      <3>1. provider'[q].used \in Nat /\ provider'[q].used <= provider[q].used /\ provider[q].used \in Nat
        BY <1>2, <1>3 DEF ProviderRecord, RouterTypeOK
      <3>2. CASE q = p
        <4>1. provider'[q].used < RpmLimit
          BY <2>2, <3>2 DEF Available
        <4>2. Cardinality(InFlight(q)') <= Cardinality(Completions) /\ Cardinality(InFlight(q)') \in Nat
          BY <2>4, <3>2, Counted
        <4> QED
          BY <3>1, <4>1, <4>2, RouterNumbers
      <3>3. CASE q # p
        <4>1. InFlight(q)' = InFlight(q) /\ Cardinality(InFlight(q)) \in Nat
          <5>1. InFlight(q) \subseteq Completions
            BY DEF InFlight
          <5> QED
            BY <5>1, <2>4, <3>3, Counted
        <4>2. provider[q].used + Cardinality(InFlight(q)) <= RpmLimit + Cardinality(Completions) - 1
          BY <1>2 DEF OverrunBounded
        <4> QED
          BY <3>1, <4>1, <4>2, RouterNumbers
      <3> QED
        BY <3>2, <3>3
    <2>8. \A q \in Providers : asked[q] > 0 => InFlight(q)' \subseteq InFlight(q)
      BY <2>3, <2>4
    <2> QED
      BY <2>5, <2>6, <2>7, <2>8, <1>5 DEF RouterInv
  <1> QED
    BY <1>1, <1>7, <1>8

(* A completion that starts or ticks pass without anybody sent out. *)
LEMMA CompleteInv ==
  ASSUME RouterInv, NEW c \in Completions, Complete(c)
  PROVE  RouterInv' /\ \A p \in Providers : InFlight(p)' = InFlight(p)
  <1>1. RouterTypeOK /\ InUse /\ RestIsKept /\ OverrunBounded
    BY DEF RouterInv
  <1>2. /\ call[c].pc = "idle" /\ call' = [call EXCEPT ![c].pc = "select"]
        /\ provider' = provider /\ asked' = asked
    BY DEF Complete
  <1>3. call \in [Completions -> CallRecord]
    BY <1>1 DEF RouterTypeOK, CallRecord
  <1>4. \A p \in Providers : InFlight(p)' = InFlight(p)
    BY <1>2, <1>3 DEF InFlight, CallRecord
  <1>5. RouterTypeOK'
    <2>1. call' \in [Completions -> CallRecord]
      BY <1>2, <1>3 DEF CallRecord
    <2> QED
      BY <2>1, <1>1, <1>2 DEF RouterTypeOK, CallRecord
  <1>6. InUse'
    BY <1>1, <1>2, <1>3 DEF InUse, CallRecord
  <1>7. OverrunBounded'
    BY <1>1, <1>2, <1>4 DEF OverrunBounded
  <1>8. RestIsKept'
    BY <1>1, <1>2 DEF RestIsKept
  <1> QED
    BY <1>4, <1>5, <1>6, <1>7, <1>8 DEF RouterInv

(* A completion that comes back, to return or to try elsewhere: one fewer  *)
(* is in flight, and its provider may have been used once more.            *)
LEMMA Landed ==
  ASSUME RouterInv, NEW c \in Completions, call[c].pc = "generate", NEW p \in Providers, call[c].at = p,
         call' = [call EXCEPT ![c] = NoCall] \/ call' = [call EXCEPT ![c].pc = "select"],
         \A q \in Providers : /\ provider'[q].used \in Nat
                              /\ q # p => provider'[q].used = provider[q].used,
         provider'[p].used <= provider[p].used + 1
  PROVE  /\ call' \in [Completions -> CallRecord] /\ InUse' /\ OverrunBounded'
         /\ \A q \in Providers : InFlight(q)' \subseteq InFlight(q)
  <1>1. InUse /\ OverrunBounded /\ call \in [Completions -> CallRecord]
    BY DEF RouterInv, RouterTypeOK, CallRecord
  <1>2. call' \in [Completions -> CallRecord]
    BY <1>1 DEF CallRecord, NoCall
  <1>3. \A d \in Completions \ {c} : call'[d] = call[d]
    BY <1>1
  <1>4. call'[c].pc # "generate"
    BY <1>1 DEF NoCall, CallRecord
  <1>5. InUse'
    BY <1>1, <1>3, <1>4 DEF InUse
  <1>6. \A q \in Providers : InFlight(q)' = InFlight(q) \ {c}
    BY <1>3, <1>4 DEF InFlight
  <1>7. OverrunBounded'
    <2> SUFFICES ASSUME NEW q \in Providers
                 PROVE  provider'[q].used + Cardinality(InFlight(q)') <= RpmLimit + Cardinality(Completions) - 1
      BY DEF OverrunBounded
    <2>1. provider[q].used + Cardinality(InFlight(q)) <= RpmLimit + Cardinality(Completions) - 1
      BY <1>1 DEF OverrunBounded
    <2>2. InFlight(q) \subseteq Completions /\ provider[q].used \in Nat /\ provider'[q].used \in Nat
      BY DEF InFlight, RouterInv, RouterTypeOK
    <2>3. Cardinality(InFlight(q)) \in Nat
      BY <2>2, Counted
    <2>4. CASE q = p
      <3>1. c \in InFlight(q)
        BY <2>4 DEF InFlight
      <3>2. Cardinality(InFlight(q)') = Cardinality(InFlight(q)) - 1
        BY <3>1, <2>2, <1>6, Counted
      <3> QED
        BY <3>2, <2>1, <2>2, <2>3, <2>4, RouterNumbers
    <2>5. CASE q # p
      <3>1. InFlight(q)' = InFlight(q)
        BY <2>5, <1>6 DEF InFlight
      <3> QED
        BY <3>1, <2>1, <2>5
    <2> QED
      BY <2>4, <2>5
  <1> QED
    BY <1>2, <1>5, <1>6, <1>7

LEMMA SucceedsInv ==
  ASSUME RouterInv, NEW c \in Completions, Succeeds(c)
  PROVE  RouterInv' /\ \A p \in Providers : InFlight(p)' \subseteq InFlight(p)
  <1> DEFINE p == call[c].at
  <1>1. RouterTypeOK /\ InUse /\ RestIsKept /\ p \in Providers
    BY DEF RouterInv, InUse, Succeeds
  <1>2. /\ call[c].pc = "generate" /\ call' = [call EXCEPT ![c] = NoCall] /\ asked' = asked
        /\ provider' = [provider EXCEPT ![p].used = @ + 1, ![p].errors = 0]
    BY DEF Succeeds
  <1>3. provider \in [Providers -> ProviderRecord] /\ asked \in [Providers -> Nat]
    BY <1>1 DEF RouterTypeOK, ProviderRecord
  <1>4. \A q \in Providers : /\ provider'[q] \in ProviderRecord
                             /\ provider'[q].state = provider[q].state /\ provider'[q].cool = provider[q].cool
                             /\ q # p => provider'[q].used = provider[q].used
    BY <1>1, <1>2, <1>3, RouterNumbers DEF ProviderRecord
  <1>5. provider'[p].used = provider[p].used + 1 /\ provider[p].used \in Nat
    BY <1>1, <1>2, <1>3 DEF ProviderRecord
  <1>6. provider' \in [Providers -> ProviderRecord]
    BY <1>1, <1>2, <1>3, <1>4
  <1>7. /\ call' \in [Completions -> CallRecord] /\ InUse' /\ OverrunBounded'
        /\ \A q \in Providers : InFlight(q)' \subseteq InFlight(q)
    <2>1. \A q \in Providers : provider'[q].used \in Nat
      BY <1>4 DEF ProviderRecord
    <2>2. provider'[p].used <= provider[p].used + 1
      BY <1>5
    <2> QED
      BY <2>1, <2>2, <1>1, <1>2, <1>4, Landed
  <1>8. RestIsKept'
    BY <1>1, <1>2, <1>4 DEF RestIsKept
  <1>9. RouterTypeOK'
    BY <1>2, <1>3, <1>6, <1>7 DEF RouterTypeOK, ProviderRecord, CallRecord
  <1> QED
    BY <1>7, <1>8, <1>9 DEF RouterInv

LEMMA RateLimitedInv ==
  ASSUME RouterInv, NEW c \in Completions, RateLimited(c)
  PROVE  RouterInv' /\ \A p \in Providers : InFlight(p)' \subseteq InFlight(p)
  <1> DEFINE p == call[c].at
  <1>1. RouterTypeOK /\ InUse /\ RestIsKept /\ p \in Providers
    BY DEF RouterInv, InUse, RateLimited
  <1>2. /\ call[c].pc = "generate" /\ call' = [call EXCEPT ![c].pc = "select"]
    BY DEF RateLimited
  <1>3. PICK t \in RetryAfters : /\ provider' = [provider EXCEPT ![p].state = "rate_limited", ![p].cool = t]
                                 /\ asked' = [asked EXCEPT ![p] = t]
    BY DEF RateLimited
  <1>4. provider \in [Providers -> ProviderRecord] /\ asked \in [Providers -> Nat] /\ t \in Nat
    BY <1>1, RouterNumbers DEF RouterTypeOK, ProviderRecord
  <1>5. /\ provider' \in [Providers -> ProviderRecord] /\ asked' \in [Providers -> Nat]
        /\ \A q \in Providers : provider'[q].used = provider[q].used /\ provider[q].used \in Nat
    BY <1>1, <1>3, <1>4 DEF ProviderRecord
  <1>6. /\ call' \in [Completions -> CallRecord] /\ InUse' /\ OverrunBounded'
        /\ \A q \in Providers : InFlight(q)' \subseteq InFlight(q)
    <2>1. provider'[p].used <= provider[p].used + 1
      BY <1>1, <1>5
    <2> QED
      BY <2>1, <1>1, <1>2, <1>5, Landed
  <1>7. RestIsKept'
    <2> SUFFICES ASSUME NEW q \in Providers
                 PROVE  asked'[q] = provider'[q].cool /\ (asked'[q] > 0 => provider'[q].state # "available")
      BY DEF RestIsKept
    <2>1. CASE q = p
      BY <2>1, <1>1, <1>3, <1>4 DEF ProviderRecord
    <2>2. CASE q # p
      BY <2>2, <1>1, <1>3, <1>4 DEF RestIsKept
    <2> QED
      BY <2>1, <2>2
  <1>8. RouterTypeOK'
    BY <1>5, <1>6 DEF RouterTypeOK, ProviderRecord, CallRecord
  <1> QED
    BY <1>6, <1>7, <1>8 DEF RouterInv

LEMMA FailsInv ==
  ASSUME RouterInv, NEW c \in Completions, Fails(c)
  PROVE  RouterInv' /\ \A p \in Providers : InFlight(p)' \subseteq InFlight(p)
  <1> DEFINE p == call[c].at
             n == IF provider[p].errors < ErrorLimit THEN provider[p].errors + 1 ELSE ErrorLimit
  <1>1. RouterTypeOK /\ InUse /\ RestIsKept /\ p \in Providers
    BY DEF RouterInv, InUse, Fails
  <1>2. /\ call[c].pc = "generate" /\ call' = [call EXCEPT ![c].pc = "select"]
        /\ \/ provider' = [provider EXCEPT ![p].errors = n] /\ asked' = asked
           \/ /\ provider' = [provider EXCEPT ![p].errors = n, ![p].state = "error", ![p].cool = Recovery]
              /\ asked' = [asked EXCEPT ![p] = Recovery]
    BY DEF Fails
  <1>3. /\ provider \in [Providers -> ProviderRecord] /\ asked \in [Providers -> Nat]
        /\ n \in 0..ErrorLimit /\ Recovery \in Nat
    <2>1. provider \in [Providers -> ProviderRecord] /\ asked \in [Providers -> Nat]
      BY <1>1 DEF RouterTypeOK, ProviderRecord
    <2>2. provider[p].errors \in 0..ErrorLimit
      BY <2>1, <1>1 DEF ProviderRecord
    <2> QED
      BY <2>1, <2>2, RouterNumbers
  <1> HIDE DEF n
  <1>4. /\ provider' \in [Providers -> ProviderRecord] /\ asked' \in [Providers -> Nat]
        /\ \A q \in Providers : provider'[q].used = provider[q].used /\ provider[q].used \in Nat
    <2>1. CASE provider' = [provider EXCEPT ![p].errors = n] /\ asked' = asked
      BY <2>1, <1>1, <1>3 DEF ProviderRecord
    <2>2. CASE /\ provider' = [provider EXCEPT ![p].errors = n, ![p].state = "error", ![p].cool = Recovery]
               /\ asked' = [asked EXCEPT ![p] = Recovery]
      BY <2>2, <1>1, <1>3 DEF ProviderRecord
    <2> QED
      BY <1>2, <2>1, <2>2
  <1>5. /\ call' \in [Completions -> CallRecord] /\ InUse' /\ OverrunBounded'
        /\ \A q \in Providers : InFlight(q)' \subseteq InFlight(q)
    <2>1. provider'[p].used <= provider[p].used + 1
      BY <1>1, <1>4
    <2> QED
      BY <2>1, <1>1, <1>2, <1>4, Landed
  <1>6. RestIsKept'
    <2> SUFFICES ASSUME NEW q \in Providers
                 PROVE  asked'[q] = provider'[q].cool /\ (asked'[q] > 0 => provider'[q].state # "available")
      BY DEF RestIsKept
    <2>1. asked[q] = provider[q].cool /\ (asked[q] > 0 => provider[q].state # "available")
      BY <1>1 DEF RestIsKept
    <2>2. CASE provider' = [provider EXCEPT ![p].errors = n] /\ asked' = asked
      BY <2>1, <2>2, <1>1, <1>3 DEF ProviderRecord
    <2>3. CASE /\ provider' = [provider EXCEPT ![p].errors = n, ![p].state = "error", ![p].cool = Recovery]
               /\ asked' = [asked EXCEPT ![p] = Recovery]
      BY <2>1, <2>3, <1>1, <1>3 DEF ProviderRecord
    <2> QED
      BY <1>2, <2>2, <2>3
  <1>7. RouterTypeOK'
    BY <1>4, <1>5 DEF RouterTypeOK, ProviderRecord, CallRecord
  <1> QED
    BY <1>5, <1>6, <1>7 DEF RouterInv

LEMMA RouterTickInv ==
  ASSUME RouterInv, RouterTick
  PROVE  RouterInv' /\ \A p \in Providers : InFlight(p)' = InFlight(p)
  <1>1. RouterTypeOK /\ InUse /\ RestIsKept
    BY DEF RouterInv
  <1>2. /\ call' = call
        /\ provider' = [p \in Providers |->
             [provider[p] EXCEPT !.age = IF provider[p].age < Window THEN provider[p].age + 1 ELSE provider[p].age,
                                 !.cool = IF provider[p].cool > 0 THEN provider[p].cool - 1 ELSE provider[p].cool]]
        /\ asked' = [p \in Providers |-> IF asked[p] > 0 THEN asked[p] - 1 ELSE 0]
    BY DEF RouterTick
  <1>3. \A p \in Providers : InFlight(p)' = InFlight(p)
    BY <1>2 DEF InFlight
  <1>4. \A p \in Providers : /\ provider'[p] \in ProviderRecord
                             /\ provider'[p].used = provider[p].used /\ provider'[p].state = provider[p].state
                             /\ provider'[p].cool = IF provider[p].cool > 0 THEN provider[p].cool - 1 ELSE provider[p].cool
    <2> TAKE p \in Providers
    <2>1. provider[p] \in ProviderRecord
      BY <1>1 DEF RouterTypeOK, ProviderRecord
    <2> DEFINE a == IF provider[p].age < Window THEN provider[p].age + 1 ELSE provider[p].age
               k == IF provider[p].cool > 0 THEN provider[p].cool - 1 ELSE provider[p].cool
    <2>2. a \in 0..Window /\ k \in Nat
      BY <2>1, RouterNumbers DEF ProviderRecord
    <2>3. provider'[p] = [provider[p] EXCEPT !.age = a, !.cool = k]
      BY <1>2
    <2> HIDE DEF a, k
    <2>4. /\ provider'[p] \in ProviderRecord /\ provider'[p].cool = k
          /\ provider'[p].used = provider[p].used /\ provider'[p].state = provider[p].state
      BY <2>1, <2>2, <2>3 DEF ProviderRecord
    <2> QED
      BY <2>4 DEF k
  <1>5. provider' \in [Providers -> ProviderRecord]
    <2>1. provider' = [p \in Providers |-> provider'[p]]
      BY <1>2
    <2> QED
      BY <2>1, <1>4
  <1>6. asked' \in [Providers -> Nat] /\ RestIsKept'
    <2>1. asked \in [Providers -> Nat]
      BY <1>1 DEF RouterTypeOK
    <2>2. \A p \in Providers : provider[p].cool \in Nat
      BY <1>1 DEF RouterTypeOK
    <2>3. asked' \in [Providers -> Nat]
      <3>1. \A p \in Providers : (IF asked[p] > 0 THEN asked[p] - 1 ELSE 0) \in Nat
        BY <2>1
      <3>2. asked' = [p \in Providers |-> IF asked[p] > 0 THEN asked[p] - 1 ELSE 0]
        BY <1>2
      <3> QED
        BY <3>1, <3>2
    <2>4. ASSUME NEW p \in Providers
          PROVE  asked'[p] = provider'[p].cool /\ (asked'[p] > 0 => provider'[p].state # "available")
      <3>1. asked[p] = provider[p].cool /\ (asked[p] > 0 => provider[p].state # "available")
        BY <1>1 DEF RestIsKept
      <3>2. asked'[p] = IF asked[p] > 0 THEN asked[p] - 1 ELSE 0
        BY <1>2
      <3> QED
        BY <3>1, <3>2, <2>1, <2>2, <1>4
    <2> QED
      BY <2>3, <2>4 DEF RestIsKept
  <1>7. RouterTypeOK'
    BY <1>1, <1>2, <1>5, <1>6 DEF RouterTypeOK, ProviderRecord
  <1>8. OverrunBounded'
    <2>1. \A p \in Providers : provider'[p].used = provider[p].used /\ provider[p].used \in Nat
      BY <1>1, <1>4 DEF RouterTypeOK
    <2> QED
      BY <2>1, <1>3, Unloaded
  <1>9. InUse'
    BY <1>1, <1>2 DEF InUse
  <1> QED
    BY <1>3, <1>6, <1>7, <1>8, <1>9 DEF RouterInv

LEMMA StepInv ==
  ASSUME RouterInv, [RouterNext]_routerVars
  PROVE  RouterInv' /\ \A p \in Providers : asked[p] > 0 => InFlight(p)' \subseteq InFlight(p)
  <1>1. CASE UNCHANGED routerVars
    BY <1>1 DEF routerVars, RouterInv, RouterTypeOK, InUse, RestIsKept, OverrunBounded, InFlight
  <1>2. ASSUME NEW c \in Completions, Complete(c) \/ CallStep(c)
        PROVE  RouterInv' /\ \A p \in Providers : asked[p] > 0 => InFlight(p)' \subseteq InFlight(p)
    BY <1>2, CompleteInv, SelectInv, SucceedsInv, RateLimitedInv, FailsInv DEF CallStep
  <1>3. CASE RouterTick
    BY <1>3, RouterTickInv
  <1> QED
    BY <1>1, <1>2, <1>3 DEF RouterNext

(* The types and what the two results rest on hold in every reachable      *)
(* state.                                                                  *)
THEOREM RouterInvariant == RouterSpec => []RouterInv
  <1>1. RouterInv /\ [RouterNext]_routerVars => RouterInv'
    BY StepInv
  <1> QED
    BY <1>1, RouterInitInv, PTL DEF RouterSpec

(* The overrun of a provider's limit in a minute is bounded by the other   *)
(* completions in flight: count checked before, bumped after the await.    *)
THEOREM OverrunIsBounded == RouterSpec => []OverrunBounded
  <1>1. RouterInv => OverrunBounded
    BY DEF RouterInv
  <1> QED
    BY <1>1, RouterInvariant, PTL

(* Nobody is sent to a provider within the rest it asked for last.         *)
THEOREM RestRespected == RouterSpec => RestIsRespected
  <1>1. RouterInv /\ [RouterNext]_routerVars =>
          [\A p \in Providers : asked[p] > 0 => InFlight(p)' \subseteq InFlight(p)]_routerVars
    BY StepInv
  <1> QED
    BY <1>1, RouterInvariant, PTL DEF RouterSpec, RestIsRespected
-----------------------------------------------------------------------------
(* The embedding provider.  Of a call only its position matters for the    *)
(* quota.                                                                  *)
Positions == {"idle", "check", "send", "await", "done"}

Counters ==
    /\ clock \in Nat /\ clock < DayLength
    /\ budget \in [used : Nat, over : BOOLEAN, exhausted : Nat]
    /\ seen \in Nat /\ lost \in Nat /\ late \in Nat

CallShape ==
    /\ DOMAIN embed = Calls
    /\ \A c \in Calls : "pc" \in DOMAIN embed[c] /\ embed[c].pc \in Positions

BudgetInv == Counters /\ CallShape /\ SeenIsAccounted /\ ChargesFit /\ LateAreCounted

(* Only call c moves, from one of the places in from to one in to. *)
Moves(c, from, to) ==
    /\ embed[c].pc \in from /\ embed'[c].pc \in to
    /\ \A d \in Calls \ {c} : embed'[d] = embed[d]

LEMMA BudgetNumbers ==
    /\ IsFiniteSet(Calls) /\ Cardinality(Calls) \in Nat /\ Cardinality(Calls) >= 1
    /\ DailyLimit \in Nat /\ DayLength \in Nat /\ DayLength >= 1 /\ Resets \subseteq Nat
  <1>1. Cardinality(Calls) \in Nat /\ Cardinality(Calls) # 0
    BY BudgetAssumption, FS_CardinalityType, FS_EmptySet
  <1> QED
    BY <1>1, BudgetAssumption

(* Calls are finitely many, and one that comes or goes changes their       *)
(* number by one.                                                          *)
LEMMA Headcount ==
  ASSUME NEW S, S \subseteq Calls
  PROVE  /\ IsFiniteSet(S) /\ Cardinality(S) \in Nat /\ Cardinality(S) <= Cardinality(Calls)
         /\ \A c \in S : Cardinality(S \ {c}) = Cardinality(S) - 1
         /\ \A c \in Calls \ S : /\ Cardinality(S \union {c}) = Cardinality(S) + 1
                                /\ Cardinality(S) <= Cardinality(Calls) - 1
  <1>1. IsFiniteSet(S) /\ Cardinality(S) <= Cardinality(Calls)
    BY BudgetNumbers, FS_Subset
  <1>2. Cardinality(S) \in Nat
    BY <1>1, FS_CardinalityType
  <1>3. \A c \in S : Cardinality(S \ {c}) = Cardinality(S) - 1
    BY <1>1, FS_RemoveElement
  <1>4. ASSUME NEW c \in Calls \ S
        PROVE  Cardinality(S \union {c}) = Cardinality(S) + 1 /\ Cardinality(S) <= Cardinality(Calls) - 1
    <2>1. Cardinality(S \union {c}) = Cardinality(S) + 1
      BY <1>1, FS_AddElement
    <2>2. Cardinality(S \union {c}) <= Cardinality(Calls)
      BY BudgetNumbers, FS_Subset
    <2> QED
      BY <2>1, <2>2, <1>2, BudgetNumbers
  <1> QED
    BY <1>1, <1>2, <1>3, <1>4

(* What a move does to the calls at some places. *)
LEMMA Moved ==
  ASSUME NEW c \in Calls, NEW from, NEW to, NEW places, Moves(c, from, to), CallShape, CallShape'
  PROVE  /\ At(places) \subseteq Calls
         /\ from \subseteq places /\ to \cap places = {} => At(places)' = At(places) \ {c} /\ c \in At(places)
         /\ from \cap places = {} /\ to \subseteq places => At(places)' = At(places) \union {c} /\ c \notin At(places)
         /\ from \cap places = {} /\ to \cap places = {} => At(places)' = At(places) /\ c \notin At(places)
         /\ from \subseteq places /\ to \subseteq places => At(places)' = At(places)
  BY DEF Moves, At

LEMMA BudgetInitInv == BudgetInit => BudgetInv
  <1> SUFFICES ASSUME BudgetInit PROVE BudgetInv
    OBVIOUS
  <1>1. Counters /\ UsedToday = 0 /\ budget.exhausted = 0 /\ seen = 0 /\ lost = 0 /\ late = 0
    BY BudgetNumbers DEF BudgetInit, Counters, UsedToday
  <1>2. CallShape
    BY DEF BudgetInit, CallShape, NoEmbed, Positions
  <1>3. At({"await"}) = {} /\ At({"send", "await"}) = {}
    BY DEF BudgetInit, At, NoEmbed
  <1>4. Cardinality({}) = 0
    BY FS_EmptySet
  <1>5. Cardinality(At({"await"})) = 0 /\ Cardinality(At({"send", "await"})) = 0
    BY <1>3, <1>4
  <1>6. SeenIsAccounted /\ LateAreCounted
    BY <1>1, <1>5 DEF SeenIsAccounted, LateAreCounted
  <1>7. ChargesFit
    BY <1>1, <1>5, BudgetNumbers DEF ChargesFit
  <1> QED
    BY <1>1, <1>2, <1>6, <1>7 DEF BudgetInv

(* A call begins or returns. *)
LEMMA QuietInv ==
  ASSUME BudgetInv, NEW c \in Calls, BeginEmbed(c) \/ ReturnVectors(c)
  PROVE  BudgetInv'
  <1>1. Counters /\ CallShape /\ SeenIsAccounted /\ ChargesFit /\ LateAreCounted
    BY DEF BudgetInv
  <1>2. UNCHANGED <<clock, budget, seen, lost, late>>
    BY DEF BeginEmbed, ReturnVectors
  <1>3. Moves(c, {"idle", "done"}, {"check", "idle"}) /\ CallShape'
    <2>1. /\ DOMAIN embed' = Calls /\ \A d \in Calls \ {c} : embed'[d] = embed[d]
          /\ "pc" \in DOMAIN embed'[c] /\ embed'[c].pc \in {"check", "idle"}
      <3>1. CASE BeginEmbed(c)
        <4> DEFINE e == [NoEmbed EXCEPT !.pc = "check", !.work = Batches(InputsOf[c])]
        <4>1. embed' = [embed EXCEPT ![c] = e]
          BY <3>1 DEF BeginEmbed
        <4>2. "pc" \in DOMAIN e /\ e.pc = "check"
          BY DEF NoEmbed
        <4> HIDE DEF e
        <4> QED
          BY <4>1, <4>2, <1>1 DEF CallShape
      <3>2. CASE ReturnVectors(c)
        BY <3>2, <1>1 DEF ReturnVectors, EndCall, NoEmbed, CallShape
      <3> QED
        BY <3>1, <3>2
    <2>2. embed[c].pc \in {"idle", "done"}
      BY DEF BeginEmbed, ReturnVectors
    <2> QED
      BY <2>1, <2>2, <1>1 DEF CallShape, Moves, Positions
  <1>4. /\ At({"await"})' = At({"await"}) /\ At({"send", "await"})' = At({"send", "await"})
        /\ At({"send"})' = At({"send"})
    BY <1>1, <1>3, Moved
  <1> QED
    BY <1>1, <1>2, <1>3, <1>4
    DEF BudgetInv, Counters, SeenIsAccounted, ChargesFit, LateAreCounted, UsedToday

(* _roll leaves the count of today as it is. *)
LEMMA RolledKeeps ==
  ASSUME Counters
  PROVE  /\ Rolled \in [used : Nat, over : BOOLEAN, exhausted : Nat]
         /\ Rolled.used = UsedToday /\ Rolled.over = FALSE /\ Rolled.exhausted = budget.exhausted
  BY DEF Counters, Rolled, UsedToday

(* budget.check: a call passes below the limit of a budget that is not     *)
(* exhausted.                                                              *)
LEMMA CheckBudgetInv ==
  ASSUME BudgetInv, NEW c \in Calls, CheckBudget(c)
  PROVE  BudgetInv'
  <1> DEFINE b == Rolled
             refused == b.exhausted > 0 \/ (DailyLimit > 0 /\ b.used >= DailyLimit)
  <1>1. Counters /\ CallShape /\ SeenIsAccounted /\ ChargesFit /\ LateAreCounted
    BY DEF BudgetInv
  <1>2. /\ clock' = clock /\ seen' = seen /\ lost' = lost /\ late' = late
        /\ embed[c].pc = "check"
    BY DEF CheckBudget
  <1>3. /\ b \in [used : Nat, over : BOOLEAN, exhausted : Nat]
        /\ b.used = UsedToday /\ b.over = FALSE /\ b.exhausted = budget.exhausted
    BY <1>1, RolledKeeps
  <1>4. UsedToday \in Nat /\ budget.exhausted \in Nat /\ late \in Nat
    BY <1>1 DEF Counters, UsedToday
  <1>5. CASE refused
    <2>1. /\ budget' = IF b.exhausted > 0 THEN b ELSE [b EXCEPT !.exhausted = Midnight]
          /\ embed' = [embed EXCEPT ![c] = NoEmbed]
      BY <1>5 DEF CheckBudget, EndCall
    <2>2. Moves(c, {"check"}, {"idle"}) /\ CallShape'
      BY <2>1, <1>1, <1>2 DEF CallShape, Moves, NoEmbed, Positions
    <2>3. /\ At({"await"})' = At({"await"}) /\ At({"send", "await"})' = At({"send", "await"})
          /\ At({"send"})' = At({"send"}) /\ c \notin At({"send"}) /\ At({"send"}) \subseteq Calls
      BY <1>1, <2>2, Moved
    <2>4. Cardinality(At({"send"})) <= Cardinality(Calls) - 1
      BY <2>3, Headcount
    <2>5. Midnight \in Nat /\ Midnight > 0
      BY <1>1, BudgetNumbers DEF Midnight, Counters
    <2>6. /\ budget' \in [used : Nat, over : BOOLEAN, exhausted : Nat] /\ UsedToday' = UsedToday
          /\ budget'.exhausted = IF b.exhausted > 0 THEN b.exhausted ELSE Midnight
      <3> HIDE DEF b
      <3> QED
        BY <2>1, <2>5, <1>3 DEF UsedToday
    <2>7. LateAreCounted'
      <3>1. budget'.exhausted > 0
        BY <2>5, <2>6, <1>3
      <3>2. late + Cardinality(At({"send"})) <= Cardinality(Calls) - 1
        <4>1. CASE budget.exhausted > 0
          BY <4>1, <1>1 DEF LateAreCounted
        <4>2. CASE ~(budget.exhausted > 0)
          <5>1. late = 0
            BY <4>2, <1>1 DEF LateAreCounted
          <5>2. Cardinality(At({"send"})) \in Nat
            BY <2>3, Headcount
          <5> QED
            BY <5>1, <5>2, <2>4
        <4> QED
          BY <4>1, <4>2
      <3> QED
        BY <3>1, <3>2, <2>3, <1>2 DEF LateAreCounted
    <2>8. SeenIsAccounted' /\ ChargesFit'
      BY <2>3, <2>6, <1>1, <1>2 DEF SeenIsAccounted, ChargesFit
    <2>9. Counters'
      BY <2>6, <1>1, <1>2 DEF Counters
    <2> QED
      BY <2>2, <2>7, <2>8, <2>9 DEF BudgetInv
  <1>6. CASE ~refused
    <2>1. budget' = b /\ embed' = [embed EXCEPT ![c].pc = "send"]
      BY <1>6 DEF CheckBudget
    <2>2. Moves(c, {"check"}, {"send"}) /\ CallShape'
      BY <2>1, <1>1, <1>2 DEF CallShape, Moves, Positions
    <2>3. At({"await"})' = At({"await"}) /\ At({"send", "await"})' \subseteq Calls
      <3>1. At({"await"})' = At({"await"})
        BY <1>1, <2>2, Moved
      <3> QED
        BY <3>1 DEF At
    <2>4. Cardinality(At({"send", "await"})') \in Nat /\ Cardinality(At({"send", "await"})') <= Cardinality(Calls)
      BY <2>3, Headcount
    <2>5. UsedToday' = UsedToday /\ budget'.exhausted = 0 /\ budget.exhausted = 0
      BY <2>1, <1>3, <1>6 DEF UsedToday
    <2>6. Counters'
      BY <2>1, <1>1, <1>2, <1>3 DEF Counters
    <2>7. ChargesFit'
      <3>1. DailyLimit > 0 => UsedToday < DailyLimit
        BY <1>3, <1>4, <1>6, BudgetNumbers
      <3> QED
        BY <3>1, <2>4, <2>5, <1>4, BudgetNumbers DEF ChargesFit
    <2>8. LateAreCounted'
      BY <2>5, <1>1, <1>2 DEF LateAreCounted
    <2>9. SeenIsAccounted'
      BY <2>3, <2>5, <1>1, <1>2 DEF SeenIsAccounted
    <2> QED
      BY <2>2, <2>6, <2>7, <2>8, <2>9 DEF BudgetInv
  <1> QED
    BY <1>5, <1>6

(* A request leaves: one more seen, one more awaited, one fewer about to   *)
(* be sent.                                                                *)
LEMMA SendInv ==
  ASSUME BudgetInv, NEW c \in Calls, Send(c)
  PROVE  BudgetInv'
  <1>1. Counters /\ CallShape /\ SeenIsAccounted /\ ChargesFit /\ LateAreCounted
    BY DEF BudgetInv
  <1>2. /\ embed[c].pc = "send" /\ embed' = [embed EXCEPT ![c].pc = "await"] /\ seen' = seen + 1
        /\ late' = (IF budget.exhausted > 0 THEN late + 1 ELSE late)
        /\ clock' = clock /\ budget' = budget /\ lost' = lost
    BY DEF Send
  <1>3. Moves(c, {"send"}, {"await"}) /\ CallShape'
    BY <1>1, <1>2 DEF CallShape, Moves, Positions
  <1>4. /\ At({"await"})' = At({"await"}) \union {c} /\ c \notin At({"await"}) /\ At({"await"}) \subseteq Calls
        /\ At({"send"})' = At({"send"}) \ {c} /\ c \in At({"send"}) /\ At({"send"}) \subseteq Calls
        /\ At({"send", "await"})' = At({"send", "await"})
    BY <1>1, <1>3, Moved
  <1>5. /\ Cardinality(At({"await"})') = Cardinality(At({"await"})) + 1 /\ Cardinality(At({"await"})) \in Nat
        /\ Cardinality(At({"send"})') = Cardinality(At({"send"})) - 1 /\ Cardinality(At({"send"})) \in Nat
    BY <1>4, Headcount
  <1>6. seen \in Nat /\ lost \in Nat /\ late \in Nat /\ UsedToday \in Nat /\ UsedToday' = UsedToday
    BY <1>1, <1>2 DEF Counters, UsedToday
  <1>7. Counters'
    BY <1>1, <1>2 DEF Counters
  <1>8. SeenIsAccounted'
    BY <1>1, <1>2, <1>5, <1>6 DEF SeenIsAccounted
  <1>9. ChargesFit'
    BY <1>1, <1>4, <1>6 DEF ChargesFit
  <1>10. LateAreCounted'
    BY <1>1, <1>2, <1>5, <1>6, BudgetNumbers DEF LateAreCounted
  <1> QED
    BY <1>3, <1>7, <1>8, <1>9, <1>10 DEF BudgetInv

(* A call comes back from the server with its request charged or lost, and *)
(* what is known of the quota unchanged.                                   *)
LEMMA BackInv ==
  ASSUME BudgetInv, NEW c \in Calls, Moves(c, {"await"}, {"idle", "check", "done"}), CallShape', Counters',
         \/ UsedToday' = UsedToday + 1 /\ lost' = lost
         \/ UsedToday' = UsedToday /\ lost' = lost + 1,
         seen' = seen, late' = late, budget'.exhausted = budget.exhausted
  PROVE  BudgetInv'
  <1>1. Counters /\ CallShape /\ SeenIsAccounted /\ ChargesFit /\ LateAreCounted
    BY DEF BudgetInv
  <1>2. /\ At({"await"})' = At({"await"}) \ {c} /\ c \in At({"await"}) /\ At({"await"}) \subseteq Calls
        /\ At({"send"})' = At({"send"})
        /\ At({"send", "await"})' = At({"send", "await"}) \ {c} /\ c \in At({"send", "await"})
        /\ At({"send", "await"}) \subseteq Calls
    BY <1>1, Moved
  <1>3. /\ Cardinality(At({"await"})') = Cardinality(At({"await"})) - 1 /\ Cardinality(At({"await"})) \in Nat
        /\ Cardinality(At({"send", "await"})') = Cardinality(At({"send", "await"})) - 1
        /\ Cardinality(At({"send", "await"})) \in Nat
    BY <1>2, Headcount
  <1>4. /\ seen \in Nat /\ lost \in Nat /\ UsedToday \in Nat /\ lost' \in Nat /\ UsedToday' \in Nat
    BY <1>1 DEF Counters, UsedToday
  <1>5. SeenIsAccounted'
    BY <1>1, <1>3, <1>4 DEF SeenIsAccounted
  <1>6. ChargesFit'
    <2>1. UsedToday' = UsedToday \/ UsedToday' = UsedToday + 1
      OBVIOUS
    <2> QED
      BY <2>1, <1>1, <1>3, <1>4, BudgetNumbers DEF ChargesFit
  <1>7. LateAreCounted'
    BY <1>1, <1>2 DEF LateAreCounted
  <1> QED
    BY <1>5, <1>6, <1>7 DEF BudgetInv

(* budget.record: one more is charged to today. *)
LEMMA RecordedCharges ==
  ASSUME Counters
  PROVE  /\ Recorded \in [used : Nat, over : BOOLEAN, exhausted : Nat]
         /\ Recorded.over = FALSE /\ Recorded.used = UsedToday + 1 /\ Recorded.exhausted = budget.exhausted
  <1> DEFINE b == Rolled
  <1>1. /\ b \in [used : Nat, over : BOOLEAN, exhausted : Nat] /\ b.used = UsedToday /\ b.over = FALSE
        /\ b.exhausted = budget.exhausted
    BY RolledKeeps
  <1>2. Recorded = [b EXCEPT !.used = b.used + 1]
    BY DEF Recorded
  <1> HIDE DEF b
  <1> QED
    BY <1>1, <1>2

LEMMA LostInv ==
  ASSUME BudgetInv, NEW c \in Calls, AnswerLost(c)
  PROVE  BudgetInv'
  <1>1. Counters /\ CallShape
    BY DEF BudgetInv
  <1>2. /\ embed[c].pc = "await" /\ embed' = [embed EXCEPT ![c] = NoEmbed] /\ lost' = lost + 1
        /\ clock' = clock /\ budget' = budget /\ seen' = seen /\ late' = late
    BY DEF AnswerLost, EndCall
  <1>3. Moves(c, {"await"}, {"idle", "check", "done"}) /\ CallShape'
    BY <1>1, <1>2 DEF CallShape, Moves, NoEmbed, Positions
  <1>4. Counters' /\ UsedToday' = UsedToday /\ UsedToday \in Nat /\ lost \in Nat
    BY <1>1, <1>2 DEF Counters, UsedToday
  <1> QED
    BY <1>2, <1>3, <1>4, BackInv

(* Every answer but one of the daily quota: the call goes on or ends. *)
LEMMA AnsweredMoves ==
  ASSUME CallShape, NEW c \in Calls,
         RateLimitHit(c) \/ Refused(c) \/ TooLarge(c) \/ BadAnswer(c) \/ Embedded(c)
  PROVE  /\ Moves(c, {"await"}, {"idle", "check", "done"}) /\ CallShape'
         /\ budget' = Recorded /\ UNCHANGED <<clock, seen, lost, late>>
  <1>1. embed[c].pc = "await" /\ budget' = Recorded /\ UNCHANGED <<clock, seen, lost, late>>
    BY DEF RateLimitHit, Refused, TooLarge, BadAnswer, Embedded
  <1> DEFINE Back == /\ DOMAIN embed' = Calls /\ \A d \in Calls \ {c} : embed'[d] = embed[d]
                     /\ "pc" \in DOMAIN embed'[c] /\ embed'[c].pc \in {"idle", "check", "done"}
  <1>2. Back
    <2>1. EndCall(c) => Back
      BY DEF EndCall, NoEmbed, CallShape
    <2>2. ASSUME NEW batches, Retry(c, batches)
          PROVE  Back
      BY <2>2 DEF Retry, CallShape
    <2>3. CASE RateLimitHit(c)
      BY <2>1, <2>3 DEF RateLimitHit, CallShape
    <2>4. CASE Refused(c)
      BY <2>1, <2>2, <2>4 DEF Refused, CallShape
    <2>5. CASE TooLarge(c)
      BY <2>1, <2>2, <2>5 DEF TooLarge
    <2>6. CASE BadAnswer(c)
      BY <2>1, <2>6 DEF BadAnswer
    <2>7. CASE Embedded(c)
      BY <2>7 DEF Embedded, CallShape
    <2> QED
      BY <2>3, <2>4, <2>5, <2>6, <2>7
  <1> QED
    BY <1>1, <1>2 DEF Moves, CallShape, Positions

LEMMA AnsweredInv ==
  ASSUME BudgetInv, NEW c \in Calls,
         RateLimitHit(c) \/ Refused(c) \/ TooLarge(c) \/ BadAnswer(c) \/ Embedded(c)
  PROVE  BudgetInv'
  <1>1. Counters /\ CallShape
    BY DEF BudgetInv
  <1>2. /\ Moves(c, {"await"}, {"idle", "check", "done"}) /\ CallShape'
        /\ budget' = Recorded /\ clock' = clock /\ seen' = seen /\ lost' = lost /\ late' = late
    BY <1>1, AnsweredMoves
  <1>3. Counters'
    BY <1>1, <1>2, RecordedCharges DEF Counters
  <1>4. UsedToday' = UsedToday + 1 /\ UsedToday \in Nat /\ lost \in Nat /\ budget'.exhausted = budget.exhausted
    BY <1>1, <1>2, RecordedCharges DEF Counters, UsedToday
  <1> QED
    BY <1>2, <1>3, <1>4, BackInv

(* A 429 of the daily quota: the call ends, and the others that are past   *)
(* their check are fewer than all.                                         *)
LEMMA QuotaUsedUpInv ==
  ASSUME BudgetInv, NEW c \in Calls, QuotaUsedUp(c)
  PROVE  BudgetInv'
  <1>1. Counters /\ CallShape /\ SeenIsAccounted /\ ChargesFit /\ LateAreCounted
    BY DEF BudgetInv
  <1>2. PICK t \in Resets \union {Midnight} :
          /\ budget' = [Recorded EXCEPT !.exhausted = t]
          /\ late' = IF budget.exhausted > 0 /\ t > 0 THEN late ELSE 0
    BY DEF QuotaUsedUp
  <1>3. /\ embed[c].pc = "await" /\ embed' = [embed EXCEPT ![c] = NoEmbed]
        /\ clock' = clock /\ seen' = seen /\ lost' = lost
    BY DEF QuotaUsedUp, EndCall
  <1>4. t \in Nat
    <2>1. Midnight \in Nat
      BY <1>1, BudgetNumbers DEF Midnight, Counters
    <2> QED
      BY <2>1, BudgetNumbers
  <1>5. /\ budget' \in [used : Nat, over : BOOLEAN, exhausted : Nat] /\ budget'.exhausted = t
        /\ UsedToday' = UsedToday + 1 /\ UsedToday \in Nat
    BY <1>1, <1>2, <1>4, RecordedCharges DEF UsedToday, Counters
  <1>6. Moves(c, {"await"}, {"idle"}) /\ CallShape'
    BY <1>1, <1>3 DEF CallShape, Moves, NoEmbed, Positions
  <1>7. /\ At({"await"})' = At({"await"}) \ {c} /\ c \in At({"await"}) /\ At({"await"}) \subseteq Calls
        /\ At({"send"})' = At({"send"}) /\ c \notin At({"send"}) /\ At({"send"}) \subseteq Calls
        /\ At({"send", "await"})' = At({"send", "await"}) \ {c} /\ c \in At({"send", "await"})
        /\ At({"send", "await"}) \subseteq Calls
    BY <1>1, <1>6, Moved
  <1>8. /\ Cardinality(At({"await"})') = Cardinality(At({"await"})) - 1 /\ Cardinality(At({"await"})) \in Nat
        /\ Cardinality(At({"send", "await"})') = Cardinality(At({"send", "await"})) - 1
        /\ Cardinality(At({"send", "await"})) \in Nat
        /\ Cardinality(At({"send"})) <= Cardinality(Calls) - 1 /\ Cardinality(At({"send"})) \in Nat
    BY <1>7, Headcount
  <1>9. Counters'
    BY <1>1, <1>2, <1>3, <1>5 DEF Counters
  <1>10. SeenIsAccounted' /\ ChargesFit'
    <2>1. seen \in Nat /\ lost \in Nat
      BY <1>1 DEF Counters
    <2>2. SeenIsAccounted'
      BY <2>1, <1>1, <1>3, <1>5, <1>8 DEF SeenIsAccounted
    <2>3. ChargesFit'
      BY <1>1, <1>5, <1>8, BudgetNumbers DEF ChargesFit
    <2> QED
      BY <2>2, <2>3
  <1>11. LateAreCounted'
    <2>1. CASE budget.exhausted > 0 /\ t > 0
      BY <2>1, <1>1, <1>2, <1>5, <1>7 DEF LateAreCounted
    <2>2. CASE ~(budget.exhausted > 0 /\ t > 0)
      <3>1. late' = 0
        BY <2>2, <1>2
      <3> QED
        BY <3>1, <1>4, <1>5, <1>7, <1>8, BudgetNumbers DEF LateAreCounted
    <2> QED
      BY <2>1, <2>2
  <1> QED
    BY <1>6, <1>9, <1>10, <1>11 DEF BudgetInv

(* Time passes; at midnight nothing of today has been charged or seen, and *)
(* the calls under way fit even if all were past their check.              *)
LEMMA BudgetTickInv ==
  ASSUME BudgetInv, BudgetTick
  PROVE  BudgetInv'
  <1>1. Counters /\ CallShape /\ SeenIsAccounted /\ ChargesFit /\ LateAreCounted
    BY DEF BudgetInv
  <1> DEFINE left == IF budget.exhausted > 0 THEN budget.exhausted - 1 ELSE 0
  <1>2. /\ clock' = (clock + 1) % DayLength /\ embed' = embed
        /\ budget' = [budget EXCEPT !.over = budget.over \/ clock' = 0, !.exhausted = left]
        /\ late' = IF budget'.exhausted = 0 THEN 0 ELSE late
        /\ IF clock' = 0 THEN seen' = 0 /\ lost' = 0 ELSE seen' = seen /\ lost' = lost
    BY DEF BudgetTick
  <1>3. /\ clock \in Nat /\ seen \in Nat /\ lost \in Nat /\ late \in Nat
        /\ budget.exhausted \in Nat /\ left \in Nat /\ UsedToday \in Nat
    BY <1>1 DEF Counters, UsedToday
  <1>4. clock' \in Nat /\ clock' < DayLength
    BY <1>2, <1>3, BudgetNumbers
  <1> HIDE DEF left
  <1>5. /\ budget' \in [used : Nat, over : BOOLEAN, exhausted : Nat] /\ budget'.exhausted = left
        /\ UsedToday' = IF clock' = 0 THEN 0 ELSE UsedToday
    BY <1>1, <1>2, <1>3 DEF Counters, UsedToday
  <1>6. Counters' /\ CallShape'
    BY <1>1, <1>2, <1>3, <1>4, <1>5 DEF Counters, CallShape
  <1>7. \A places : At(places)' = At(places) /\ At(places) \subseteq Calls
    BY <1>2 DEF At
  <1>8. \A places : Cardinality(At(places)) \in Nat /\ Cardinality(At(places)) <= Cardinality(Calls)
    BY <1>7, Headcount
  <1>9. SeenIsAccounted'
    <2>1. Cardinality(At({"await"})') = Cardinality(At({"await"})) /\ Cardinality(At({"await"})) \in Nat
      BY <1>7, <1>8
    <2> QED
      BY <2>1, <1>1, <1>2, <1>5 DEF SeenIsAccounted
  <1>10. ChargesFit'
    <2>1. /\ Cardinality(At({"send", "await"})') = Cardinality(At({"send", "await"}))
          /\ Cardinality(At({"send", "await"})) \in Nat
          /\ Cardinality(At({"send", "await"})) <= Cardinality(Calls)
      BY <1>7, <1>8
    <2> QED
      BY <2>1, <1>1, <1>5, BudgetNumbers DEF ChargesFit
  <1>11. LateAreCounted'
    <2>1. Cardinality(At({"send"})') = Cardinality(At({"send"}))
      BY <1>7
    <2>2. left > 0 => budget.exhausted > 0
      BY <1>3 DEF left
    <2> QED
      BY <2>1, <2>2, <1>1, <1>2, <1>3, <1>5 DEF LateAreCounted
  <1> QED
    BY <1>6, <1>9, <1>10, <1>11 DEF BudgetInv

(* The requests of a day are where BudgetInv says, in every reachable      *)
(* state.                                                                  *)
THEOREM BudgetInvariant == BudgetSpec => []BudgetInv
  <1>1. BudgetInv /\ [BudgetNext]_budgetVars => BudgetInv'
    <2> SUFFICES ASSUME BudgetInv, [BudgetNext]_budgetVars PROVE BudgetInv'
      OBVIOUS
    <2>1. CASE UNCHANGED budgetVars
      BY <2>1 DEF budgetVars, BudgetInv, Counters, CallShape, SeenIsAccounted, ChargesFit, LateAreCounted,
                  UsedToday, At
    <2>2. ASSUME NEW c \in Calls, BeginEmbed(c) \/ EmbedStep(c) PROVE BudgetInv'
      BY <2>2, QuietInv, CheckBudgetInv, SendInv, LostInv, QuotaUsedUpInv, AnsweredInv DEF EmbedStep
    <2>3. CASE BudgetTick
      BY <2>3, BudgetTickInv
    <2> QED
      BY <2>1, <2>2, <2>3 DEF BudgetNext
  <1> QED
    BY <1>1, BudgetInitInv, PTL DEF BudgetSpec

(* On no day does the server get more requests than the limit, one for     *)
(* each other call under way and those whose answer was lost.              *)
THEOREM QuotaHolds == BudgetSpec => []DailyQuotaHolds
  <1>1. BudgetInv => DailyQuotaHolds
    <2> SUFFICES ASSUME BudgetInv, DailyLimit > 0
                 PROVE  seen <= DailyLimit + Cardinality(Calls) - 1 + lost
      BY DEF DailyQuotaHolds
    <2>1. seen \in Nat /\ lost \in Nat /\ UsedToday \in Nat
      BY DEF BudgetInv, Counters, UsedToday
    <2>2. At({"send", "await"}) \subseteq Calls /\ At({"await"}) \subseteq At({"send", "await"})
      BY DEF At
    <2>3. /\ Cardinality(At({"await"})) <= Cardinality(At({"send", "await"}))
          /\ Cardinality(At({"await"})) \in Nat /\ Cardinality(At({"send", "await"})) \in Nat
      BY <2>2, Headcount, FS_Subset
    <2>4. UsedToday + Cardinality(At({"send", "await"})) <= DailyLimit + Cardinality(Calls) - 1
      BY DEF BudgetInv, ChargesFit
    <2>5. seen <= UsedToday + Cardinality(At({"await"})) + lost
      BY DEF BudgetInv, SeenIsAccounted
    <2> QED
      BY <2>1, <2>3, <2>4, <2>5, BudgetNumbers
  <1> QED
    BY <1>1, BudgetInvariant, PTL

(* Once the quota is known to be used up, at most the other calls that had *)
(* passed their check send one request each before the reset.              *)
THEOREM ExhaustionHeeded == BudgetSpec => []ExhaustionIsHeeded
  <1>1. BudgetInv => ExhaustionIsHeeded
    <2> SUFFICES ASSUME BudgetInv PROVE late <= Cardinality(Calls) - 1
      BY DEF ExhaustionIsHeeded
    <2>1. At({"send"}) \subseteq Calls
      BY DEF At
    <2>2. Cardinality(At({"send"})) \in Nat /\ late \in Nat
      BY <2>1, Headcount DEF BudgetInv, Counters
    <2>3. IF budget.exhausted > 0 THEN late + Cardinality(At({"send"})) <= Cardinality(Calls) - 1 ELSE late = 0
      BY DEF BudgetInv, LateAreCounted
    <2> QED
      BY <2>2, <2>3, BudgetNumbers
  <1> QED
    BY <1>1, BudgetInvariant, PTL
-----------------------------------------------------------------------------
(* Vectors and their inputs.  The batches a call has still to do, off[i]   *)
(* inputs before the i-th, are the inputs that follow those it has vectors *)
(* of, in order; the first may be the placeholder of an input refused on   *)
(* its own.                                                                *)
Strip(w, first, n, off) ==
    /\ off \in [1..(Len(w) + 1) -> 0..n]
    /\ off[1] = first /\ off[Len(w) + 1] = n
    /\ \A i \in 1..Len(w) :
         /\ Len(w[i]) > 0 /\ off[i + 1] = off[i] + Len(w[i])
         /\ \/ \A j \in 1..Len(w[i]) : w[i][j] = off[i] + j
            \/ i = 1 /\ w[1] = <<Placeholder>>

Aside(w, o, alone) ==
    IF w # <<>> /\ w[1] = <<Placeholder>>
    THEN Len(o) + 1 \in alone /\ alone \subseteq 1..(Len(o) + 1)
    ELSE alone \subseteq 1..Len(o)

Matched(o, alone) == \A k \in 1..Len(o) : o[k] = IF k \in alone THEN Placeholder ELSE k

Batch == Seq(Nat)

EmbedCall == [pc : Positions, attempt : 0..MaxRetries, work : Seq(Batch), out : Batch, alone : SUBSET Nat]

InputsInOrder(e, n) ==
    e.pc # "idle" =>
        /\ Matched(e.out, e.alone) /\ Aside(e.work, e.out, e.alone)
        /\ \E off : Strip(e.work, Len(e.out), n, off)
        /\ (e.work = <<>>) <=> (e.pc = "done")

VectorInv ==
    /\ embed \in [Calls -> EmbedCall]
    /\ \A c \in Calls : InputsInOrder(embed[c], InputsOf[c])

LEMMA InputNumbers ==
    /\ \A c \in Calls : InputsOf[c] \in Nat \ {0}
    /\ DocBatch \in Nat \ {0} /\ MaxRetries \in Nat
  BY BudgetAssumption

(* The ways an action changes the entry of a call. *)
Changed(e, f, p, a, w, o, s) ==
    \/ f = [e EXCEPT !.pc = p] /\ a = e.attempt /\ w = e.work /\ o = e.out /\ s = e.alone
    \/ f = [e EXCEPT !.pc = p, !.attempt = a] /\ w = e.work /\ o = e.out /\ s = e.alone
    \/ f = [e EXCEPT !.pc = p, !.work = w] /\ a = e.attempt /\ o = e.out /\ s = e.alone
    \/ f = [e EXCEPT !.pc = p, !.attempt = a, !.work = w] /\ o = e.out /\ s = e.alone
    \/ f = [e EXCEPT !.pc = p, !.attempt = a, !.work = w, !.alone = s] /\ o = e.out
    \/ f = [e EXCEPT !.pc = p, !.attempt = a, !.work = w, !.out = o] /\ s = e.alone

LEMMA FieldsChange ==
  ASSUME NEW P, NEW A, NEW W, NEW O, NEW S,
         NEW e \in [pc : P, attempt : A, work : W, out : O, alone : S],
         NEW p \in P, NEW a \in A, NEW w \in W, NEW o \in O, NEW s \in S, NEW f,
         Changed(e, f, p, a, w, o, s)
  PROVE  /\ f \in [pc : P, attempt : A, work : W, out : O, alone : S]
         /\ f.pc = p /\ f.attempt = a /\ f.work = w /\ f.out = o /\ f.alone = s
  BY DEF Changed

LEMMA NoEmbedTypes == NoEmbed \in EmbedCall /\ NoEmbed.pc = "idle"
  <1>1. <<>> \in Seq(Batch) /\ <<>> \in Batch /\ {} \in SUBSET Nat
    BY DEF Batch
  <1>2. "idle" \in Positions /\ 0 \in 0..MaxRetries
    BY InputNumbers DEF Positions
  <1> QED
    BY <1>1, <1>2 DEF NoEmbed, EmbedCall

(* Inputs in order are no placeholder. *)
LEMMA NoPlaceholder ==
  ASSUME NEW b, NEW k \in Nat, Len(b) \in Nat, Len(b) > 0, \A j \in 1..Len(b) : b[j] = k + j
  PROVE  b # <<Placeholder>>
  <1>1. b[1] = k + 1
    <2>1. 1 \in 1..Len(b)
      OBVIOUS
    <2> QED
      BY <2>1
  <1>2. <<Placeholder>>[1] = 0
    BY DEF Placeholder
  <1> QED
    BY <1>1, <1>2

LEMMA BatchLength == \A b \in Batch : Len(b) \in Nat
  BY DEF Batch

(* The number of batches is n / DocBatch, rounded up. *)
LEMMA RoundedUp ==
  ASSUME NEW n \in Nat \ {0}, NEW d \in Nat \ {0}, NEW m, m = (n + d - 1) \div d
  PROVE  m \in Nat \ {0} /\ (m - 1) * d < n /\ n <= m * d
  <1>1. m \in Nat /\ m * d <= n + d - 1 /\ n + d - 1 < m * d + d
    OBVIOUS
  <1>2. (m - 1) * d = m * d - d
    BY <1>1
  <1> QED
    BY <1>1, <1>2

LEMMA BatchesLaid ==
  ASSUME NEW n \in Nat \ {0}
  PROVE  /\ Batches(n) \in Seq(Batch) /\ Batches(n) # <<>> /\ Batches(n)[1] # <<Placeholder>>
         /\ \E off : Strip(Batches(n), 0, n, off)
  <1> DEFINE d == DocBatch
             m == (n + d - 1) \div d
             size(i) == IF i * d <= n THEN d ELSE n - (i - 1) * d
             b == Batches(n)
             off == [i \in 1..(m + 1) |-> IF i = m + 1 THEN n ELSE (i - 1) * d]
  <1>1. d \in Nat \ {0} /\ m \in Nat \ {0} /\ (m - 1) * d < n /\ n <= m * d
    BY InputNumbers, RoundedUp
  <1>2. b = [i \in 1..m |-> [j \in 1..size(i) |-> (i - 1) * d + j]]
    BY DEF Batches
  <1> HIDE DEF d, m, b
  <1>3. ASSUME NEW i \in 1..m
        PROVE  /\ size(i) \in Nat \ {0} /\ (i - 1) * d \in Nat /\ i * d = (i - 1) * d + d
               /\ i # m => i * d < n /\ size(i) = d
               /\ i = m => (i - 1) * d + size(i) = n
               /\ (i - 1) * d <= n
    <2>1. i \in Nat /\ i >= 1 /\ i <= m /\ i - 1 \in Nat
      BY <1>1
    <2>2. (i - 1) * d \in Nat /\ i * d \in Nat /\ i * d = (i - 1) * d + d
      BY <1>1, <2>1
    <2>3. i # m => i * d <= (m - 1) * d
      BY <1>1, <2>1
    <2>4. i = m => (i - 1) * d < n /\ n <= i * d
      BY <1>1
    <2>5. (i - 1) * d < n
      BY <2>1, <2>2, <2>3, <2>4, <1>1
    <2> QED
      BY <2>1, <2>2, <2>3, <2>4, <2>5, <1>1
  <1>4. ASSUME NEW i \in 1..m
        PROVE  /\ b[i] \in Batch /\ Len(b[i]) = size(i)
               /\ \A j \in 1..size(i) : b[i][j] = (i - 1) * d + j
    <2>1. size(i) \in Nat /\ (i - 1) * d \in Nat
      BY <1>3
    <2>2. b[i] = [j \in 1..size(i) |-> (i - 1) * d + j]
      BY <1>2
    <2> HIDE DEF size
    <2> QED
      BY <2>1, <2>2 DEF Batch
  <1>5. b \in Seq(Batch) /\ Len(b) = m
    <2>1. b = [i \in 1..m |-> b[i]]
      BY <1>2
    <2>2. \A i \in 1..m : b[i] \in Batch
      BY <1>4
    <2> QED
      BY <1>1, <2>1, <2>2
  <1>6. b # <<>>
    BY <1>5, <1>1
  <1>7. Strip(b, 0, n, off)
    <2>1. off \in [1..(m + 1) -> 0..n] /\ off[1] = 0 /\ off[m + 1] = n
      <3>1. \A i \in 1..(m + 1) : off[i] \in 0..n
        <4> TAKE i \in 1..(m + 1)
        <4>1. i # m + 1 => i \in 1..m
          BY <1>1
        <4>2. n \in 0..n
          OBVIOUS
        <4>3. ASSUME i # m + 1 PROVE (i - 1) * d \in 0..n
          <5>1. (i - 1) * d \in Nat /\ (i - 1) * d <= n
            BY <4>1, <4>3, <1>3
          <5> DEFINE z == (i - 1) * d
          <5> HIDE DEF z
          <5>2. z \in 0..n
            BY <5>1 DEF z
          <5> QED
            BY <5>2 DEF z
        <4>4. off[i] = IF i = m + 1 THEN n ELSE (i - 1) * d
          OBVIOUS
        <4> QED
          BY <4>2, <4>3, <4>4
      <3>2. off[m + 1] = n
        <4>1. m + 1 \in 1..(m + 1)
          BY <1>1
        <4> QED
          BY <4>1
      <3>3. off[1] = 0
        <4>1. 1 \in 1..(m + 1) /\ 1 # m + 1 /\ 1 - 1 = 0 /\ 0 * d = 0
          BY <1>1
        <4> QED
          BY <4>1
      <3>4. off = [i \in 1..(m + 1) |-> off[i]]
        OBVIOUS
      <3> HIDE DEF off
      <3> QED
        BY <3>1, <3>2, <3>3, <3>4
    <2>2. ASSUME NEW i \in 1..m
          PROVE  /\ Len(b[i]) > 0 /\ off[i + 1] = off[i] + Len(b[i])
                 /\ \A j \in 1..Len(b[i]) : b[i][j] = off[i] + j
      <3>1. off[i] = (i - 1) * d /\ off[i + 1] = IF i = m THEN n ELSE i * d
        BY <1>1, <1>3
      <3>2. Len(b[i]) = size(i) /\ \A j \in 1..size(i) : b[i][j] = (i - 1) * d + j
        BY <1>4
      <3> HIDE DEF off, size
      <3>3. off[i + 1] = off[i] + size(i) /\ size(i) > 0
        <4>1. CASE i = m
          BY <4>1, <3>1, <1>3
        <4>2. CASE i # m
          BY <4>2, <3>1, <1>3
        <4> QED
          BY <4>1, <4>2
      <3> QED
        BY <3>1, <3>2, <3>3
    <2> HIDE DEF off
    <2> QED
      BY <2>1, <2>2, <1>5 DEF Strip
  <1>8. b[1] # <<Placeholder>>
    <2>1. 1 \in 1..m /\ (1 - 1) * d = 0
      BY <1>1
    <2>2. b[1] \in Batch /\ Len(b[1]) = size(1) /\ size(1) > 0 /\ \A j \in 1..size(1) : b[1][j] = 0 + j
      BY <2>1, <1>3, <1>4
    <2> HIDE DEF size
    <2> QED
      BY <2>2, BatchLength, NoPlaceholder
  <1> QED
    BY <1>5, <1>6, <1>7, <1>8 DEF b

LEMMA SetCall ==
  ASSUME VectorInv, NEW c \in Calls, NEW e \in EmbedCall, InputsInOrder(e, InputsOf[c]),
         embed' = [embed EXCEPT ![c] = e]
  PROVE  VectorInv'
  <1>1. embed' \in [Calls -> EmbedCall]
    BY DEF VectorInv
  <1>2. ASSUME NEW d \in Calls PROVE InputsInOrder(embed'[d], InputsOf[d])
    <2>1. d # c => embed'[d] = embed[d] /\ InputsInOrder(embed[d], InputsOf[d])
      BY DEF VectorInv
    <2>2. embed'[c] = e
      BY DEF VectorInv
    <2> QED
      BY <2>1, <2>2
  <1> QED
    BY <1>1, <1>2 DEF VectorInv

(* A call goes on. *)
LEMMA GoesOn ==
  ASSUME VectorInv, NEW c \in Calls, NEW e \in EmbedCall,
         NEW p \in Positions, NEW a \in 0..MaxRetries, NEW w \in Seq(Batch), NEW o \in Batch,
         NEW s \in SUBSET Nat, NEW f,
         Changed(e, f, p, a, w, o, s),
         Matched(o, s), Aside(w, o, s), \E off : Strip(w, Len(o), InputsOf[c], off),
         (w = <<>>) <=> (p = "done"),
         embed' = [embed EXCEPT ![c] = f]
  PROVE  VectorInv'
  <1> DEFINE P == Positions
             A == 0..MaxRetries
             W == Seq(Batch)
             S == SUBSET Nat
  <1>3. EmbedCall = [pc : P, attempt : A, work : W, out : Batch, alone : S]
    BY DEF EmbedCall
  <1>4. p \in P /\ a \in A /\ w \in W /\ s \in S
    OBVIOUS
  <1> HIDE DEF P, A, W, S
  <1>1. f \in EmbedCall /\ f.pc = p /\ f.work = w /\ f.out = o /\ f.alone = s
    BY <1>3, <1>4, FieldsChange
  <1>2. InputsInOrder(f, InputsOf[c])
    BY <1>1 DEF InputsInOrder
  <1> QED
    BY <1>1, <1>2, SetCall

LEMMA CallEnds ==
  ASSUME VectorInv, NEW c \in Calls, EndCall(c)
  PROVE  VectorInv'
  BY NoEmbedTypes, SetCall DEF EndCall, InputsInOrder

(* A call under way has a batch to do. *)
LEMMA UnderWay ==
  ASSUME VectorInv, NEW c \in Calls, embed[c].pc \in {"check", "send", "await"}
  PROVE  /\ embed[c] \in EmbedCall /\ embed[c].work # <<>>
         /\ Matched(embed[c].out, embed[c].alone)
         /\ Aside(embed[c].work, embed[c].out, embed[c].alone)
         /\ \E off : Strip(embed[c].work, Len(embed[c].out), InputsOf[c], off)
  BY DEF VectorInv, InputsInOrder

(* Checked, sent, or to be tried again: the batches stay. *)
LEMMA SameData ==
  ASSUME VectorInv, NEW c \in Calls, embed[c].pc \in {"check", "send", "await"},
         NEW p \in {"check", "send", "await"}, NEW a \in 0..MaxRetries,
         \/ embed' = [embed EXCEPT ![c].pc = p] /\ a = embed[c].attempt
         \/ embed' = [embed EXCEPT ![c].pc = p, ![c].attempt = a]
  PROVE  VectorInv'
  <1>1. PICK e \in EmbedCall : e = embed[c]
    BY UnderWay
  <1>2. /\ e.work # <<>> /\ Matched(e.out, e.alone) /\ Aside(e.work, e.out, e.alone)
        /\ \E off : Strip(e.work, Len(e.out), InputsOf[c], off)
    BY <1>1, UnderWay
  <1>3. e.work \in Seq(Batch) /\ e.out \in Batch /\ e.alone \in SUBSET Nat
    BY DEF EmbedCall
  <1>4. p \in Positions /\ ((e.work = <<>>) <=> (p = "done"))
    BY <1>2 DEF Positions
  <1>5. PICK f : Changed(e, f, p, a, e.work, e.out, e.alone) /\ embed' = [embed EXCEPT ![c] = f]
    <2>1. CASE embed' = [embed EXCEPT ![c].pc = p] /\ a = embed[c].attempt
      <3> DEFINE f == [e EXCEPT !.pc = p]
      <3>1. Changed(e, f, p, a, e.work, e.out, e.alone)
        BY <1>1, <2>1 DEF Changed
      <3> QED
        BY <1>1, <2>1, <3>1
    <2>2. CASE embed' = [embed EXCEPT ![c].pc = p, ![c].attempt = a]
      <3> DEFINE f == [e EXCEPT !.pc = p, !.attempt = a]
      <3>1. Changed(e, f, p, a, e.work, e.out, e.alone)
        BY DEF Changed
      <3>2. embed' = [embed EXCEPT ![c] = f]
        BY <1>1, <2>2 DEF VectorInv
      <3> QED
        BY <3>1, <3>2
    <2> QED
      BY <2>1, <2>2
  <1> QED
    BY <1>1, <1>2, <1>3, <1>4, <1>5, GoesOn

LEMMA HalvesSplit ==
  ASSUME NEW b \in Batch, Len(b) > 1
  PROVE  \E x \in Batch, y \in Batch :
           /\ Halves(b) = <<x, y>> /\ Len(x) > 0 /\ Len(y) > 0 /\ Len(x) + Len(y) = Len(b)
           /\ \A j \in 1..Len(x) : x[j] = b[j]
           /\ \A j \in 1..Len(y) : y[j] = b[Len(x) + j]
  <1> DEFINE mid == Len(b) \div 2
             x == SubSeq(b, 1, mid)
             y == SubSeq(b, mid + 1, Len(b))
  <1>1. mid \in Nat /\ mid > 0 /\ mid < Len(b)
    BY DEF Batch
  <1> HIDE DEF mid
  <1>8. b \in Seq(Nat)
    BY DEF Batch
  <1>2. x \in Seq(Nat) /\ Len(x) = mid /\ \A j \in 1..mid : x[j] = b[j]
    BY <1>1, <1>8
  <1>3. y \in Seq(Nat) /\ Len(y) = Len(b) - mid /\ \A j \in 1..(Len(b) - mid) : y[j] = b[mid + j]
    BY <1>1, <1>8
  <1>4. Halves(b) = <<x, y>>
    BY DEF Halves, mid
  <1> HIDE DEF x, y
  <1>5. Len(x) > 0 /\ Len(y) > 0 /\ Len(x) + Len(y) = Len(b)
    BY <1>1, <1>2, <1>3, <1>8
  <1>6. /\ \A j \in 1..Len(x) : x[j] = b[j]
        /\ \A j \in 1..Len(y) : y[j] = b[Len(x) + j]
    BY <1>2, <1>3
  <1>7. x \in Batch /\ y \in Batch
    BY <1>2, <1>3 DEF Batch
  <1> QED
    BY <1>4, <1>5, <1>6, <1>7

LEMMA NotPlaceholder ==
  ASSUME NEW b, Len(b) \in Nat, Len(b) > 1 PROVE b # <<Placeholder>>
  <1>1. Len(<<Placeholder>>) = 1
    OBVIOUS
  <1>2. Len(b) = 1 => ~(Len(b) > 1)
    OBVIOUS
  <1> QED
    BY <1>1, <1>2

LEMMA PartFits ==
  ASSUME NEW n \in Nat, NEW k \in Nat, NEW a \in Nat, NEW b \in Nat, NEW c, c = k + a + b, c \in 0..n
  PROVE  k + a \in 0..n
  OBVIOUS

LEMMA TwoInFront ==
  ASSUME NEW S, NEW x \in S, NEW y \in S, NEW t \in Seq(S), NEW v, v = <<x, y>> \o t
  PROVE  /\ v \in Seq(S) /\ v # <<>> /\ Len(v) = Len(t) + 2 /\ v[1] = x /\ v[2] = y
         /\ \A i \in 3..Len(v) : v[i] = t[i - 2]
  OBVIOUS

LEMMA OneInFront ==
  ASSUME NEW S, NEW x \in S, NEW t \in Seq(S), NEW v, v = <<x>> \o t
  PROVE  /\ v \in Seq(S) /\ v # <<>> /\ Len(v) = Len(t) + 1 /\ v[1] = x
         /\ \A i \in 2..Len(v) : v[i] = t[i - 1]
  OBVIOUS

LEMMA Joined ==
  ASSUME NEW x \in Batch, NEW y \in Batch
  PROVE  /\ x \o y \in Batch /\ Len(x \o y) = Len(x) + Len(y)
         /\ \A k \in 1..Len(x) : (x \o y)[k] = x[k]
         /\ \A k \in (Len(x) + 1)..Len(x \o y) : (x \o y)[k] = y[k - Len(x)]
  BY DEF Batch

LEMMA FirstAndRest ==
  ASSUME NEW S, NEW w \in Seq(S), w # <<>>
  PROVE  /\ Len(w) \in Nat \ {0} /\ Head(w) = w[1] /\ w[1] \in S /\ Tail(w) \in Seq(S)
         /\ Len(Tail(w)) = Len(w) - 1 /\ \A i \in 1..Len(Tail(w)) : Tail(w)[i] = w[i + 1]
  OBVIOUS

(* What a strip says of its first batch, if it is no placeholder, and of   *)
(* the others.                                                             *)
StripSays(w, k, n, off) ==
  /\ off \in [1..(Len(w) + 1) -> 0..n] /\ off[1] = k /\ off[Len(w) + 1] = n
  /\ k \in 0..n /\ off[2] \in 0..n /\ off[2] = k + Len(w[1]) /\ Len(w[1]) > 0
  /\ w[1] # <<Placeholder>> => \A j \in 1..Len(w[1]) : w[1][j] = k + j
  /\ \A i \in 2..Len(w) : /\ Len(w[i]) > 0 /\ off[i + 1] = off[i] + Len(w[i])
                          /\ \A j \in 1..Len(w[i]) : w[i][j] = off[i] + j

LEMMA StripParts ==
  ASSUME NEW n \in Nat, NEW w \in Seq(Batch), w # <<>>, NEW k \in Nat, NEW off, Strip(w, k, n, off)
  PROVE  StripSays(w, k, n, off)
  <1>1. 1 \in 1..Len(w) /\ 1 \in 1..(Len(w) + 1) /\ 1 + 1 \in 1..(Len(w) + 1) /\ 1 + 1 = 2
    OBVIOUS
  <1>2. off \in [1..(Len(w) + 1) -> 0..n] /\ off[1] = k /\ off[Len(w) + 1] = n
    BY DEF Strip
  <1>3. \A i \in 1..Len(w) : Len(w[i]) > 0 /\ off[i + 1] = off[i] + Len(w[i])
    BY DEF Strip
  <1> DEFINE whole(i) == \A j \in 1..Len(w[i]) : w[i][j] = off[i] + j
             held == w[1] = <<Placeholder>>
  <1>4. \A i \in 1..Len(w) : whole(i) \/ (i = 1 /\ held)
    <2>1. \A i \in 1..Len(w) : /\ Len(w[i]) > 0 /\ off[i + 1] = off[i] + Len(w[i])
                               /\ whole(i) \/ (i = 1 /\ held)
      BY Zenon DEF Strip
    <2> HIDE DEF whole, held
    <2> QED
      BY <2>1
  <1>5. off[1] \in 0..n /\ off[1 + 1] \in 0..n
    BY <1>1, <1>2
  <1>6. off[2] = k + Len(w[1]) /\ Len(w[1]) > 0
    BY <1>1, <1>2, <1>3
  <1>8. 1 \in 1..Len(w) /\ \A i \in 2..Len(w) : i \in 1..Len(w) /\ i # 1
    BY <1>1
  <1>9. (~held => whole(1)) /\ \A i \in 2..Len(w) : whole(i)
    <2> HIDE DEF whole, held
    <2> QED
      BY <1>4, <1>8
  <1>7. w[1] # <<Placeholder>> => \A j \in 1..Len(w[1]) : w[1][j] = k + j
    BY <1>2, <1>9
  <1> QED
    BY <1>1, <1>2, <1>3, <1>5, <1>6, <1>7, <1>8, <1>9, Zenon DEF StripSays

LEMMA FirstBatch ==
  ASSUME NEW n \in Nat, NEW w \in Seq(Batch), w # <<>>, NEW k \in Nat, NEW off, Strip(w, k, n, off)
  PROVE  /\ Len(w[1]) > 0
         /\ w[1] = <<Placeholder>> \/ \A j \in 1..Len(w[1]) : w[1][j] = k + j
  <1>1. 1 \in 1..Len(w)
    OBVIOUS
  <1>2. off[1] = k
    BY DEF Strip
  <1>3. Len(w[1]) > 0 /\ (w[1] = <<Placeholder>> \/ \A j \in 1..Len(w[1]) : w[1][j] = off[1] + j)
    BY <1>1, Zenon DEF Strip
  <1> QED
    BY <1>2, <1>3

(* The first batch is replaced by its halves. *)
LEMMA SplitStrip ==
  ASSUME NEW n \in Nat, NEW w \in Seq(Batch), w # <<>>, Len(w[1]) > 1,
         NEW k \in Nat, NEW off, Strip(w, k, n, off)
  PROVE  /\ Halves(w[1]) \o Tail(w) \in Seq(Batch) /\ Halves(w[1]) \o Tail(w) # <<>>
         /\ (Halves(w[1]) \o Tail(w))[1] # <<Placeholder>>
         /\ \E o : Strip(Halves(w[1]) \o Tail(w), k, n, o)
  <1>1. w[1] \in Batch /\ Len(w) \in Nat \ {0} /\ Len(w[1]) \in Nat
    BY FirstAndRest, BatchLength
  <1>2. PICK x \in Batch, y \in Batch :
           /\ Halves(w[1]) = <<x, y>> /\ Len(x) > 0 /\ Len(y) > 0 /\ Len(x) + Len(y) = Len(w[1])
           /\ \A j \in 1..Len(x) : x[j] = w[1][j]
           /\ \A j \in 1..Len(y) : y[j] = w[1][Len(x) + j]
    BY <1>1, HalvesSplit
  <1>3. Len(x) \in Nat \ {0} /\ Len(y) \in Nat \ {0} /\ Len(x) + Len(y) = Len(w[1])
    <2>1. Len(x) \in Nat /\ Len(y) \in Nat
      BY BatchLength
    <2> QED
      BY <2>1, <1>2
  <1>4. PICK v \in Seq(Batch) :
          /\ v = Halves(w[1]) \o Tail(w) /\ v # <<>> /\ Len(v) = Len(w) + 1 /\ v[1] = x /\ v[2] = y
          /\ \A i \in 3..Len(v) : v[i] = w[i - 1]
    <2>1. PICK t \in Seq(Batch) :
            t = Tail(w) /\ Len(t) = Len(w) - 1 /\ \A i \in 1..Len(t) : t[i] = w[i + 1]
      BY FirstAndRest
    <2> DEFINE v == <<x, y>> \o t
    <2>2. /\ v \in Seq(Batch) /\ v # <<>> /\ Len(v) = Len(t) + 2 /\ v[1] = x /\ v[2] = y
          /\ \A i \in 3..Len(v) : v[i] = t[i - 2]
      BY TwoInFront
    <2>3. \A i \in 3..Len(v) : v[i] = w[i - 1]
      BY <2>1, <2>2, <1>1
    <2>4. Len(v) = Len(w) + 1 /\ v = Halves(w[1]) \o Tail(w)
      BY <2>1, <2>2, <1>1, <1>2
    <2> HIDE DEF v
    <2> QED
      BY <2>2, <2>3, <2>4
  <1> DEFINE o == [i \in 1..(Len(w) + 2) |->
                     IF i = 1 THEN k ELSE IF i = 2 THEN k + Len(x) ELSE off[i - 1]]
  <1>0. StripSays(w, k, n, off)
    BY StripParts
  <1>5. k \in 0..n /\ off[2] \in 0..n /\ off[2] = k + Len(w[1])
    BY <1>0 DEF StripSays
  <1>12. off \in [1..(Len(w) + 1) -> 0..n] /\ off[Len(w) + 1] = n
    BY <1>0 DEF StripSays
  <1>6. \A j \in 1..Len(w[1]) : w[1][j] = k + j
    <2>1. w[1] # <<Placeholder>>
      BY <1>1, NotPlaceholder
    <2> QED
      BY <2>1, <1>0 DEF StripSays
  <1>7. \A i \in 2..Len(w) : /\ Len(w[i]) > 0 /\ off[i + 1] = off[i] + Len(w[i])
                             /\ \A j \in 1..Len(w[i]) : w[i][j] = off[i] + j
    BY <1>0 DEF StripSays
  <1>8. /\ DOMAIN o = 1..(Len(w) + 2) /\ o[1] = k /\ o[2] = k + Len(x)
        /\ \A i \in 3..(Len(w) + 2) : o[i] = off[i - 1]
        /\ o = [i \in 1..(Len(w) + 2) |-> o[i]]
    BY <1>1
  <1> HIDE DEF o
  <1>9. o \in [1..(Len(v) + 1) -> 0..n] /\ o[1] = k /\ o[Len(v) + 1] = n
    <2>1. k + Len(x) \in 0..n
      <3>1. off[2] = k + Len(x) + Len(y)
        BY <1>3, <1>5
      <3>2. Len(x) \in Nat /\ Len(y) \in Nat /\ off[2] \in 0..n
        BY <1>3, <1>5
      <3> QED
        BY <3>1, <3>2, PartFits
    <2>2. \A i \in 3..(Len(w) + 2) : o[i] \in 0..n
      <3> TAKE i \in 3..(Len(w) + 2)
      <3>1. i - 1 \in 1..(Len(w) + 1)
        BY <1>1
      <3>2. off[i - 1] \in 0..n
        BY <3>1, <1>12
      <3> QED
        BY <3>2, <1>8
    <2>3. \A i \in 1..(Len(w) + 2) : o[i] \in 0..n
      <3> TAKE i \in 1..(Len(w) + 2)
      <3>1. i = 1 \/ i = 2 \/ i \in 3..(Len(w) + 2)
        BY <1>1
      <3> QED
        BY <3>1, <2>1, <2>2, <1>5, <1>8
    <2>4. o[Len(w) + 2] = n
      <3>1. Len(w) + 2 \in 3..(Len(w) + 2) /\ (Len(w) + 2) - 1 = Len(w) + 1
        BY <1>1
      <3> QED
        BY <3>1, <1>12, <1>8
    <2>5. Len(v) + 1 = Len(w) + 2
      BY <1>4, <1>1
    <2> QED
      BY <2>3, <2>4, <2>5, <1>8
  <1>10. ASSUME NEW i \in 1..Len(v)
         PROVE  /\ Len(v[i]) > 0 /\ o[i + 1] = o[i] + Len(v[i])
                /\ \A j \in 1..Len(v[i]) : v[i][j] = o[i] + j
    <2>1. CASE i = 1
      <3>1. \A j \in 1..Len(x) : x[j] = k + j
        <4> TAKE j \in 1..Len(x)
        <4>1. j \in 1..Len(w[1])
          BY <1>3
        <4> QED
          BY <4>1, <1>2, <1>6
      <3> QED
        BY <2>1, <3>1, <1>2, <1>4, <1>8
    <2>2. CASE i = 2
      <3>1. o[2] = k + Len(x) /\ o[3] = off[2]
        <4>1. 3 \in 3..(Len(w) + 2) /\ 3 - 1 = 2
          BY <1>1
        <4>2. o[3] = off[3 - 1]
          BY <4>1, <1>8
        <4> QED
          BY <4>1, <4>2, <1>8
      <3>2. \A j \in 1..Len(y) : y[j] = (k + Len(x)) + j
        <4> TAKE j \in 1..Len(y)
        <4>1. Len(x) + j \in 1..Len(w[1])
          BY <1>3
        <4>2. y[j] = k + (Len(x) + j)
          BY <4>1, <1>2, <1>6
        <4>3. k \in Int /\ Len(x) \in Int /\ j \in Int
          BY <1>3
        <4>4. k + (Len(x) + j) = (k + Len(x)) + j
          BY <4>3
        <4> QED
          BY <4>2, <4>4
      <3>3. off[2] = (k + Len(x)) + Len(y)
        <4> DEFINE a == Len(x)
                   c == Len(y)
                   e == Len(w[1])
        <4>1. a \in Nat /\ c \in Nat /\ a + c = e /\ k \in Nat
          BY <1>3
        <4> HIDE DEF a, c, e
        <4>2. k + e = (k + a) + c
          BY <4>1
        <4> QED
          BY <4>2, <1>5 DEF a, c, e
      <3> QED
        BY <2>2, <3>1, <3>2, <3>3, <1>2, <1>4
    <2>3. CASE i > 2
      <3>1. i \in 3..Len(v) /\ i - 1 \in 2..Len(w) /\ (i - 1) + 1 = i /\ (i + 1) - 1 = i
            /\ i \in 3..(Len(w) + 2) /\ i + 1 \in 3..(Len(w) + 2)
        BY <2>3, <1>1, <1>4
      <3>2. v[i] = w[i - 1] /\ o[i] = off[i - 1] /\ o[i + 1] = off[i]
        BY <3>1, <1>4, <1>8
      <3>3. /\ Len(w[i - 1]) > 0 /\ off[i] = off[i - 1] + Len(w[i - 1])
            /\ \A j \in 1..Len(w[i - 1]) : w[i - 1][j] = off[i - 1] + j
        BY <3>1, <1>7
      <3> QED
        BY <3>2, <3>3
    <2> QED
      BY <2>1, <2>2, <2>3
  <1>11. Strip(v, k, n, o)
    BY <1>9, <1>10 DEF Strip
  <1>13. v[1] # <<Placeholder>>
    <2>1. 1 \in 1..Len(v)
      BY <1>1, <1>4
    <2>2. Len(v[1]) > 0 /\ \A j \in 1..Len(v[1]) : v[1][j] = k + j
      BY <2>1, <1>8, <1>10
    <2>3. Len(v[1]) \in Nat
      BY <1>3, <1>4
    <2> QED
      BY <2>2, <2>3, NoPlaceholder
  <1> QED
    BY <1>4, <1>11, <1>13

(* The first batch, of one input, is replaced by a placeholder. *)
LEMMA PlaceStrip ==
  ASSUME NEW n \in Nat, NEW w \in Seq(Batch), w # <<>>, Len(w[1]) = 1,
         NEW k \in Nat, NEW off, Strip(w, k, n, off)
  PROVE  LET v == <<<<Placeholder>>>> \o Tail(w) IN
         v \in Seq(Batch) /\ v # <<>> /\ v[1] = <<Placeholder>> /\ Strip(v, k, n, off)
  <1>1. PICK t \in Seq(Batch) : t = Tail(w) /\ Len(t) = Len(w) - 1 /\ \A i \in 1..Len(t) : t[i] = w[i + 1]
    BY FirstAndRest
  <1>2. <<Placeholder>> \in Batch /\ Len(<<Placeholder>>) = 1
    BY DEF Batch, Placeholder
  <1> DEFINE v == <<<<Placeholder>>>> \o t
  <1>3. Len(w) \in Nat \ {0}
    BY FirstAndRest
  <1>4. /\ v \in Seq(Batch) /\ v # <<>> /\ Len(v) = Len(w) /\ v[1] = <<Placeholder>>
        /\ \A i \in 2..Len(w) : v[i] = t[i - 1]
    BY <1>1, <1>2, <1>3, OneInFront
  <1>5. \A i \in 2..Len(w) : v[i] = w[i]
    <2> TAKE i \in 2..Len(w)
    <2>1. i - 1 \in 1..Len(t) /\ (i - 1) + 1 = i
      BY <1>1, <1>3
    <2> QED
      BY <2>1, <1>1, <1>4
  <1> HIDE DEF v
  <1>0. StripSays(w, k, n, off)
    BY StripParts
  <1>6. off \in [1..(Len(w) + 1) -> 0..n] /\ off[1] = k /\ off[Len(w) + 1] = n
    BY <1>0 DEF StripSays
  <1>9. off[2] = k + Len(w[1])
    <2>1. 1 \in 1..Len(w) /\ 1 + 1 = 2
      BY <1>3
    <2>2. off[1 + 1] = off[1] + Len(w[1])
      BY <2>1, Zenon DEF Strip
    <2> QED
      BY <2>1, <2>2, <1>6, Zenon
  <1>10. \A i \in 2..Len(w) : /\ Len(w[i]) > 0 /\ off[i + 1] = off[i] + Len(w[i])
                             /\ \A j \in 1..Len(w[i]) : w[i][j] = off[i] + j
    BY <1>0 DEF StripSays
  <1>7. ASSUME NEW i \in 1..Len(v)
        PROVE  /\ Len(v[i]) > 0 /\ off[i + 1] = off[i] + Len(v[i])
               /\ \/ \A j \in 1..Len(v[i]) : v[i][j] = off[i] + j
                  \/ i = 1 /\ v[1] = <<Placeholder>>
    <2>1. CASE i = 1
      BY <2>1, <1>2, <1>4, <1>6, <1>9
    <2>2. CASE i # 1
      <3>1. i \in 2..Len(w)
        BY <2>2, <1>4, <1>3
      <3> QED
        BY <3>1, <1>5, <1>10
    <2> QED
      BY <2>1, <2>2
  <1>8. Strip(v, k, n, off)
    BY <1>4, <1>6, <1>7 DEF Strip
  <1> QED
    BY <1>1, <1>4, <1>8 DEF v

(* The first batch is done. *)
LEMMA TakeStrip ==
  ASSUME NEW n \in Nat, NEW w \in Seq(Batch), w # <<>>, NEW k \in Nat, NEW off, Strip(w, k, n, off)
  PROVE  /\ \E o : Strip(Tail(w), k + Len(w[1]), n, o)
         /\ Tail(w) # <<>> => Tail(w)[1] # <<Placeholder>>
  <1>1. PICK t \in Seq(Batch) : t = Tail(w) /\ Len(t) = Len(w) - 1 /\ \A i \in 1..Len(t) : t[i] = w[i + 1]
    BY FirstAndRest
  <1>2. Len(w) \in Nat \ {0}
    BY FirstAndRest
  <1> DEFINE o == [i \in 1..Len(w) |-> off[i + 1]]
  <1>0. StripSays(w, k, n, off)
    BY StripParts
  <1>3. off \in [1..(Len(w) + 1) -> 0..n] /\ off[Len(w) + 1] = n
    BY <1>0 DEF StripSays
  <1>8. off[2] = k + Len(w[1])
    BY <1>0 DEF StripSays
  <1>9. \A i \in 2..Len(w) : /\ Len(w[i]) > 0 /\ off[i + 1] = off[i] + Len(w[i])
                            /\ \A j \in 1..Len(w[i]) : w[i][j] = off[i] + j
    BY <1>0 DEF StripSays
  <1>4. /\ o \in [1..(Len(t) + 1) -> 0..n] /\ \A i \in 1..Len(w) : o[i] = off[i + 1]
    <2>1. \A i \in 1..Len(w) : i + 1 \in 1..(Len(w) + 1) /\ off[i + 1] \in 0..n
      <3> TAKE i \in 1..Len(w)
      <3>1. i + 1 \in 1..(Len(w) + 1)
        BY <1>2
      <3> HIDE DEF o
      <3> QED
        BY <3>1, <1>3
    <2>2. Len(t) + 1 = Len(w)
      BY <1>1, <1>2
    <2> QED
      BY <2>1, <2>2
  <1> HIDE DEF o
  <1>5. o[1] = k + Len(w[1]) /\ o[Len(t) + 1] = n
    BY <1>1, <1>2, <1>3, <1>4, <1>8
  <1>6. ASSUME NEW i \in 1..Len(t)
        PROVE  /\ Len(t[i]) > 0 /\ o[i + 1] = o[i] + Len(t[i])
               /\ \A j \in 1..Len(t[i]) : t[i][j] = o[i] + j
    <2>1. i + 1 \in 2..Len(w) /\ i \in 1..Len(w) /\ i + 1 \in 1..Len(w)
      BY <1>1, <1>2
    <2>2. t[i] = w[i + 1] /\ o[i] = off[i + 1] /\ o[i + 1] = off[(i + 1) + 1]
      BY <2>1, <1>1, <1>4
    <2> QED
      BY <2>1, <2>2, <1>9
  <1>7. Strip(t, k + Len(w[1]), n, o)
    BY <1>4, <1>5, <1>6 DEF Strip
  <1>10. ASSUME t # <<>> PROVE t[1] # <<Placeholder>>
    <2>1. 1 \in 1..Len(t) /\ 1 \in 1..(Len(t) + 1)
      BY <1>10
    <2>2. Len(t[1]) > 0 /\ \A j \in 1..Len(t[1]) : t[1][j] = o[1] + j
      BY <2>1, <1>6
    <2>3. t[1] \in Batch
      BY <2>1
    <2>4. o[1] \in Nat
      <3>1. o[1] \in 0..n
        BY <2>1, <1>4
      <3> QED
        BY <3>1
    <2> QED
      BY <2>2, <2>3, <2>4, BatchLength, NoPlaceholder
  <1> QED
    BY <1>1, <1>7, <1>10

LEMMA VectorInitInv == BudgetInit => VectorInv
  BY NoEmbedTypes DEF BudgetInit, VectorInv, InputsInOrder

LEMMA BeginVectors ==
  ASSUME VectorInv, NEW c \in Calls, BeginEmbed(c)
  PROVE  VectorInv'
  <1> DEFINE n == InputsOf[c]
             b == Batches(n)
  <1>1. n \in Nat \ {0} /\ 0 \in 0..MaxRetries
    BY InputNumbers
  <1>2. b \in Seq(Batch) /\ b # <<>> /\ b[1] # <<Placeholder>> /\ \E off : Strip(b, 0, n, off)
    BY <1>1, BatchesLaid
  <1> HIDE DEF b
  <1>4. PICK e \in EmbedCall : e = NoEmbed
    BY NoEmbedTypes
  <1>8. e.attempt = 0 /\ e.out = <<>> /\ e.alone = {}
    BY <1>4 DEF NoEmbed
  <1> DEFINE f == [e EXCEPT !.pc = "check", !.work = b]
  <1>3. embed' = [embed EXCEPT ![c] = f]
    BY <1>4 DEF BeginEmbed, b
  <1>5. Changed(e, f, "check", e.attempt, b, e.out, e.alone)
    BY DEF Changed
  <1> HIDE DEF f
  <1>6. e.out \in Batch /\ Len(e.out) = 0
    BY <1>8 DEF Batch
  <1>7. "check" \in Positions /\ e.attempt \in 0..MaxRetries /\ e.alone \in SUBSET Nat
    BY <1>1, <1>8 DEF Positions
  <1>9. Matched(e.out, e.alone) /\ Aside(b, e.out, e.alone) /\ \E off : Strip(b, Len(e.out), n, off)
    BY <1>2, <1>6, <1>8 DEF Matched, Aside
  <1> QED
    BY <1>2, <1>3, <1>5, <1>6, <1>7, <1>9, GoesOn

(* What an answer finds: the first of the batches still to do. *)
LEMMA Awaited ==
  ASSUME VectorInv, NEW c \in Calls, embed[c].pc = "await"
  PROVE  \E e \in EmbedCall :
           /\ e = embed[c] /\ e.work \in Seq(Batch) /\ e.work # <<>>
           /\ e.out \in Batch /\ Len(e.out) \in Nat /\ e.alone \in SUBSET Nat
           /\ Current(c) = e.work[1] /\ Later(c) = Tail(e.work) /\ e.work[1] \in Batch
           /\ Later(c) \in Seq(Batch)
           /\ Matched(e.out, e.alone) /\ Aside(e.work, e.out, e.alone)
           /\ \E off : Strip(e.work, Len(e.out), InputsOf[c], off)
  <1>1. PICK e \in EmbedCall : e = embed[c]
    BY UnderWay
  <1>2. /\ e.work # <<>> /\ Matched(e.out, e.alone) /\ Aside(e.work, e.out, e.alone)
        /\ \E off : Strip(e.work, Len(e.out), InputsOf[c], off)
    BY <1>1, UnderWay
  <1>3. e.work \in Seq(Batch) /\ e.out \in Batch /\ e.alone \in SUBSET Nat
    BY DEF EmbedCall
  <1>4. Len(e.out) \in Nat
    BY <1>3, BatchLength
  <1>5. Current(c) = e.work[1] /\ Later(c) = Tail(e.work) /\ e.work[1] \in Batch /\ Later(c) \in Seq(Batch)
    BY <1>1, <1>2, <1>3, FirstAndRest DEF Current, Later
  <1> QED
    BY <1>1, <1>2, <1>3, <1>4, <1>5

(* A batch is split. *)
LEMMA SplitVectors ==
  ASSUME VectorInv, NEW c \in Calls, embed[c].pc = "await", Len(Current(c)) > 1,
         Retry(c, Halves(Current(c)) \o Later(c))
  PROVE  VectorInv'
  <1>1. PICK e \in EmbedCall :
           /\ e = embed[c] /\ e.work \in Seq(Batch) /\ e.work # <<>>
           /\ e.out \in Batch /\ Len(e.out) \in Nat /\ e.alone \in SUBSET Nat
           /\ Current(c) = e.work[1] /\ Later(c) = Tail(e.work) /\ e.work[1] \in Batch
           /\ Matched(e.out, e.alone) /\ Aside(e.work, e.out, e.alone)
           /\ \E off : Strip(e.work, Len(e.out), InputsOf[c], off)
    BY Awaited
  <1>2. InputsOf[c] \in Nat /\ 0 \in 0..MaxRetries /\ "check" \in Positions
    BY InputNumbers DEF Positions
  <1> DEFINE w == Halves(e.work[1]) \o Tail(e.work)
             f == [e EXCEPT !.pc = "check", !.attempt = 0, !.work = w]
  <1>3. /\ w \in Seq(Batch) /\ w # <<>> /\ w[1] # <<Placeholder>>
        /\ \E off : Strip(w, Len(e.out), InputsOf[c], off)
    BY <1>1, <1>2, SplitStrip
  <1>4. Retry(c, w)
    BY <1>1
  <1> HIDE DEF w
  <1>5. embed' = [embed EXCEPT ![c] = f]
    BY <1>1, <1>4 DEF Retry, VectorInv
  <1>6. Changed(e, f, "check", 0, w, e.out, e.alone)
    BY DEF Changed
  <1> HIDE DEF f
  <1>7. Aside(w, e.out, e.alone)
    <2>1. e.work[1] # <<Placeholder>>
      BY <1>1, NotPlaceholder, BatchLength
    <2> QED
      BY <2>1, <1>1, <1>3 DEF Aside
  <1> QED
    BY <1>1, <1>2, <1>3, <1>5, <1>6, <1>7, GoesOn

(* An input refused on its own is replaced by the placeholder. *)
LEMMA PlaceVectors ==
  ASSUME VectorInv, NEW c \in Calls, embed[c].pc = "await",
         Len(Current(c)) = 1, Current(c) # <<Placeholder>>,
         embed' = [embed EXCEPT ![c].pc = "check", ![c].attempt = 0,
                                ![c].work = <<<<Placeholder>>>> \o Later(c),
                                ![c].alone = @ \union {Current(c)[1]}]
  PROVE  VectorInv'
  <1>1. PICK e \in EmbedCall :
           /\ e = embed[c] /\ e.work \in Seq(Batch) /\ e.work # <<>>
           /\ e.out \in Batch /\ Len(e.out) \in Nat /\ e.alone \in SUBSET Nat
           /\ Current(c) = e.work[1] /\ Later(c) = Tail(e.work) /\ e.work[1] \in Batch
           /\ Matched(e.out, e.alone) /\ Aside(e.work, e.out, e.alone)
           /\ \E off : Strip(e.work, Len(e.out), InputsOf[c], off)
    BY Awaited
  <1>2. InputsOf[c] \in Nat /\ 0 \in 0..MaxRetries /\ "check" \in Positions
    BY InputNumbers DEF Positions
  <1> DEFINE k == Len(e.out)
             w == <<<<Placeholder>>>> \o Tail(e.work)
             s == e.alone \union {e.work[1][1]}
             f == [e EXCEPT !.pc = "check", !.attempt = 0, !.work = w, !.alone = s]
  <1>3. PICK off : Strip(e.work, k, InputsOf[c], off)
    BY <1>1
  <1>4. w \in Seq(Batch) /\ w # <<>> /\ w[1] = <<Placeholder>> /\ Strip(w, k, InputsOf[c], off)
    BY <1>1, <1>2, <1>3, PlaceStrip
  <1>5. e.work[1][1] = k + 1
    <2>1. \A j \in 1..Len(e.work[1]) : e.work[1][j] = k + j
      BY <1>1, <1>2, <1>3, FirstBatch
    <2>2. 1 \in 1..Len(e.work[1])
      BY <1>1
    <2> QED
      BY <2>1, <2>2
  <1>6. embed' = [embed EXCEPT ![c] = f]
    BY <1>1 DEF VectorInv
  <1>7. Changed(e, f, "check", 0, w, e.out, s)
    BY DEF Changed
  <1>8. e.alone \subseteq 1..k
    BY <1>1 DEF Aside
  <1>9. s = e.alone \union {k + 1}
    BY <1>5
  <1>13. s \in SUBSET Nat
    BY <1>1, <1>9
  <1> HIDE DEF w, f, s
  <1>10. Matched(e.out, s) /\ Aside(w, e.out, s)
    BY <1>1, <1>4, <1>8, <1>9 DEF Matched, Aside
  <1>11. \E z : Strip(w, Len(e.out), InputsOf[c], z)
    BY <1>4
  <1>12. "check" # "done" /\ w # <<>> /\ w \in Seq(Batch) /\ e.out \in Batch
    BY <1>1, <1>4
  <1> QED
    BY <1>2, <1>6, <1>7, <1>10, <1>11, <1>12, <1>13, GoesOn

(* The vectors of a batch follow those there are. *)
LEMMA TakeMatched ==
  ASSUME NEW w \in Seq(Batch), w # <<>>, NEW b \in Batch, b = w[1], Len(b) > 0, NEW o \in Batch,
         NEW s \in SUBSET Nat, Matched(o, s), Aside(w, o, s),
         b = <<Placeholder>> \/ \A j \in 1..Len(b) : b[j] = Len(o) + j
  PROVE  Matched(o \o b, s) /\ s \subseteq 1..Len(o \o b)
  <1> DEFINE v == o \o b
  <1>1. /\ v \in Batch /\ Len(v) = Len(o) + Len(b)
        /\ \A k \in 1..Len(o) : v[k] = o[k]
        /\ \A k \in (Len(o) + 1)..Len(v) : v[k] = b[k - Len(o)]
    BY Joined
  <1>2. Len(o) \in Nat /\ Len(b) \in Nat
    BY BatchLength
  <1> HIDE DEF v
  <1>3. \A k \in 1..Len(v) : k \in 1..Len(o) \/ (k \in (Len(o) + 1)..Len(v) /\ k - Len(o) \in 1..Len(b))
    BY <1>1, <1>2
  <1>4. \A k \in 1..Len(o) : v[k] = IF k \in s THEN Placeholder ELSE k
    BY <1>1 DEF Matched
  <1>5. s \subseteq 1..Len(v)
    BY <1>1, <1>2 DEF Aside
  <1>6. ASSUME NEW k \in (Len(o) + 1)..Len(v), k - Len(o) \in 1..Len(b)
        PROVE  v[k] = IF k \in s THEN Placeholder ELSE k
    <2>1. CASE b = <<Placeholder>>
      <3>1. k = Len(o) + 1 /\ k - Len(o) = 1
        <4>1. 1..Len(b) = {1}
          BY <2>1
        <4> QED
          BY <4>1, <1>2, <1>6
      <3>2. v[k] = Placeholder
        BY <3>1, <2>1, <1>1
      <3>3. k \in s
        BY <2>1, <3>1 DEF Aside
      <3> QED
        BY <3>1, <3>2, <3>3
    <2>2. CASE b # <<Placeholder>>
      <3>1. s \subseteq 1..Len(o)
        BY <2>2 DEF Aside
      <3>2. k \notin s
        BY <3>1, <1>2
      <3>3. v[k] = Len(o) + (k - Len(o))
        BY <2>2, <1>1, <1>6
      <3> QED
        BY <3>2, <3>3, <1>2
    <2> QED
      BY <2>1, <2>2
  <1>7. Matched(v, s)
    BY <1>3, <1>4, <1>6 DEF Matched
  <1> QED
    BY <1>5, <1>7 DEF v

(* A batch is answered. *)
LEMMA TakeVectors ==
  ASSUME VectorInv, NEW c \in Calls, Embedded(c)
  PROVE  VectorInv'
  <1>1. PICK e \in EmbedCall :
           /\ e = embed[c] /\ e.work \in Seq(Batch) /\ e.work # <<>>
           /\ e.out \in Batch /\ Len(e.out) \in Nat /\ e.alone \in SUBSET Nat
           /\ Current(c) = e.work[1] /\ Later(c) = Tail(e.work) /\ e.work[1] \in Batch
           /\ Later(c) \in Seq(Batch)
           /\ Matched(e.out, e.alone) /\ Aside(e.work, e.out, e.alone)
           /\ \E off : Strip(e.work, Len(e.out), InputsOf[c], off)
    BY Awaited DEF Embedded
  <1>2. InputsOf[c] \in Nat /\ 0 \in 0..MaxRetries
    BY InputNumbers
  <1> DEFINE k == Len(e.out)
             b == e.work[1]
             w == Tail(e.work)
             p == IF w = <<>> THEN "done" ELSE "check"
             o == e.out \o b
             f == [e EXCEPT !.pc = p, !.attempt = 0, !.work = w, !.out = o]
  <1>3. PICK off : Strip(e.work, k, InputsOf[c], off)
    BY <1>1
  <1>4. (\E z : Strip(w, k + Len(b), InputsOf[c], z)) /\ (w # <<>> => w[1] # <<Placeholder>>)
    BY <1>1, <1>2, <1>3, TakeStrip
  <1>5. Len(b) > 0 /\ (b = <<Placeholder>> \/ \A j \in 1..Len(b) : b[j] = k + j)
    BY <1>1, <1>2, <1>3, FirstBatch
  <1>6. o \in Batch /\ Len(o) = k + Len(b)
    BY <1>1, Joined
  <1>7. Matched(o, e.alone) /\ e.alone \subseteq 1..Len(o)
    BY <1>1, <1>5, TakeMatched
  <1>8. embed' = [embed EXCEPT ![c] = f]
    BY <1>1 DEF Embedded, VectorInv
  <1>9. Changed(e, f, p, 0, w, o, e.alone)
    BY DEF Changed
  <1>10. w \in Seq(Batch) /\ p \in Positions /\ ((w = <<>>) <=> (p = "done"))
    BY <1>1 DEF Positions
  <1> HIDE DEF w, p, o, f
  <1>11. Aside(w, o, e.alone)
    BY <1>4, <1>7 DEF Aside
  <1>12. \E z : Strip(w, Len(o), InputsOf[c], z)
    BY <1>4, <1>6
  <1> QED
    BY <1>1, <1>2, <1>6, <1>7, <1>8, <1>9, <1>10, <1>11, <1>12, GoesOn

(* The answers that end a call, and the others. *)
LEMMA AnsweredVectors ==
  ASSUME VectorInv, NEW c \in Calls, RateLimitHit(c) \/ Refused(c) \/ TooLarge(c) \/ Embedded(c)
  PROVE  VectorInv'
  <1>1. embed[c].pc = "await"
    BY DEF RateLimitHit, Refused, TooLarge, Embedded
  <1>2. Len(Current(c)) \in Nat /\ Len(Current(c)) > 0
    <2>1. PICK e \in EmbedCall :
            /\ e.work \in Seq(Batch) /\ e.work # <<>> /\ Len(e.out) \in Nat
            /\ Current(c) = e.work[1] /\ e.work[1] \in Batch
            /\ \E off : Strip(e.work, Len(e.out), InputsOf[c], off)
      BY <1>1, Awaited
    <2> QED
      BY <2>1, FirstBatch, BatchLength, InputNumbers
  <1>3. CASE RateLimitHit(c)
    <2>1. CASE LastAttempt(c)
      BY <1>3, <2>1, CallEnds DEF RateLimitHit
    <2>2. CASE ~LastAttempt(c)
      <3>1. PICK a : a = embed[c].attempt + 1
        OBVIOUS
      <3>2. embed' = [embed EXCEPT ![c].pc = "check", ![c].attempt = a]
        BY <1>3, <2>2, <3>1 DEF RateLimitHit
      <3>3. embed[c].attempt \in 0..MaxRetries /\ embed[c].attempt # MaxRetries
        BY <2>2 DEF LastAttempt, EmbedCall, VectorInv
      <3>4. a \in 0..MaxRetries
        BY <3>1, <3>3, InputNumbers
      <3> QED
        BY <1>1, <3>2, <3>4, SameData
    <2> QED
      BY <2>1, <2>2
  <1>4. CASE Refused(c)
    <2>1. CASE Len(Current(c)) > 1 /\ Retry(c, Halves(Current(c)) \o Later(c))
      BY <1>1, <2>1, SplitVectors
    <2>2. CASE Current(c) = <<Placeholder>> /\ EndCall(c)
      BY <2>2, CallEnds
    <2> QED
      BY <1>1, <1>4, <2>1, <2>2, PlaceVectors DEF Refused
  <1>5. CASE TooLarge(c)
    <2>1. CASE Len(Current(c)) = 1
      BY <1>5, <2>1, CallEnds DEF TooLarge
    <2>2. CASE Len(Current(c)) # 1
      <3>1. Retry(c, Halves(Current(c)) \o Later(c))
        BY <1>5, <2>2 DEF TooLarge
      <3>2. Len(Current(c)) > 1
        <4>1. \A m \in Nat : m > 0 => m = 1 \/ m > 1
          OBVIOUS
        <4> QED
          BY <4>1, <1>2, <2>2, Zenon
      <3> QED
        BY <1>1, <3>1, <3>2, SplitVectors
    <2> QED
      BY <2>1, <2>2
  <1> QED
    BY <1>3, <1>4, <1>5, TakeVectors

(* Before an answer, and without one. *)
LEMMA UnansweredVectors ==
  ASSUME VectorInv, NEW c \in Calls,
         CheckBudget(c) \/ Send(c) \/ AnswerLost(c) \/ QuotaUsedUp(c) \/ BadAnswer(c) \/ ReturnVectors(c)
  PROVE  VectorInv'
  <1>1. EndCall(c) => VectorInv'
    BY CallEnds
  <1>2. ASSUME NEW from \in {"check", "send"}, NEW p \in {"send", "await"}, embed[c].pc = from,
               embed' = [embed EXCEPT ![c].pc = p]
        PROVE  VectorInv'
    <2>1. embed[c].attempt \in 0..MaxRetries
      BY DEF VectorInv, EmbedCall
    <2> QED
      BY <1>2, <2>1, SameData
  <1>3. CASE CheckBudget(c)
    BY <1>1, <1>2, <1>3 DEF CheckBudget
  <1>4. CASE Send(c)
    BY <1>2, <1>4 DEF Send
  <1> QED
    BY <1>1, <1>3, <1>4 DEF AnswerLost, QuotaUsedUp, BadAnswer, ReturnVectors

(* A call's vectors and batches are the inputs in order, in every          *)
(* reachable state.                                                        *)
THEOREM VectorInvariant == BudgetSpec => []VectorInv
  <1>1. VectorInv /\ [BudgetNext]_budgetVars => VectorInv'
    <2> SUFFICES ASSUME VectorInv, [BudgetNext]_budgetVars PROVE VectorInv'
      OBVIOUS
    <2>1. CASE embed' = embed
      BY <2>1 DEF VectorInv
    <2>2. ASSUME NEW c \in Calls, BeginEmbed(c) \/ EmbedStep(c) PROVE VectorInv'
      BY <2>2, BeginVectors, UnansweredVectors, AnsweredVectors DEF EmbedStep
    <2> QED
      BY <2>1, <2>2 DEF BudgetNext, budgetVars, BudgetTick
  <1> QED
    BY <1>1, VectorInitInv, PTL DEF BudgetSpec

(* A call that is done has the vectors of its inputs, in their order, with *)
(* the placeholder's for those refused on their own.                       *)
LEMMA DoneMatches ==
  ASSUME VectorInv, NEW c \in Calls, embed[c].pc = "done"
  PROVE  embed[c].out = [i \in Inputs(c) |-> IF i \in embed[c].alone THEN Placeholder ELSE i]
  <1>1. PICK e \in EmbedCall : e = embed[c]
    BY DEF VectorInv
  <1>2. e.work = <<>> /\ Matched(e.out, e.alone) /\ \E off : Strip(e.work, Len(e.out), InputsOf[c], off)
    BY <1>1 DEF VectorInv, InputsInOrder
  <1>3. Len(e.out) = InputsOf[c]
    BY <1>2 DEF Strip
  <1>4. e.out \in Seq(Nat)
    BY DEF EmbedCall, Batch
  <1>5. \A i \in 1..Len(e.out) : e.out[i] = IF i \in e.alone THEN Placeholder ELSE i
    BY <1>2 DEF Matched
  <1>6. e.out = [i \in 1..Len(e.out) |-> e.out[i]]
    BY <1>4
  <1>7. e.out = [i \in 1..Len(e.out) |-> IF i \in e.alone THEN Placeholder ELSE i]
    BY <1>5, <1>6, Zenon
  <1> QED
    BY <1>1, <1>3, <1>7 DEF Inputs

(* However batches are split, whatever is refused and however often a      *)
(* request is tried again, each input gets its own vector in the order of  *)
(* the inputs.                                                             *)
THEOREM VectorsMatch == BudgetSpec => []VectorsMatchInputs
  <1>1. VectorInv => VectorsMatchInputs
    BY DoneMatches DEF VectorsMatchInputs
  <1> QED
    BY <1>1, VectorInvariant, PTL
-----------------------------------------------------------------------------
(* The types of the three components, and of their composition.  A call of *)
(* the embedding provider that is idle has nothing left over of the one    *)
(* before; the inputs, vectors and placeholders of one under way are its   *)
(* own, which follows from VectorInv.                                      *)
AtRest == \A c \in Calls : embed[c].pc = "idle" => embed[c] = NoEmbed

RestInv == AtRest /\ lost \in 0..MaxLost

(* An action gives a call nothing to do, or something other than to rest.  *)
LEMMA RestOfCall ==
  ASSUME VectorInv, AtRest, NEW c \in Calls, NEW f, embed' = [embed EXCEPT ![c] = f],
         f = NoEmbed \/ f.pc # "idle"
  PROVE  AtRest'
  <1>1. ASSUME NEW d \in Calls, embed'[d].pc = "idle" PROVE embed'[d] = NoEmbed
    <2>1. CASE d = c
      BY <1>1, <2>1 DEF VectorInv
    <2>2. CASE d # c
      BY <1>1, <2>2 DEF VectorInv, AtRest
    <2> QED
      BY <2>1, <2>2
  <1> QED
    BY <1>1 DEF AtRest

LEMMA RestStep ==
  ASSUME VectorInv, RestInv, [BudgetNext]_budgetVars
  PROVE  RestInv'
  <1>1. ASSUME NEW c \in Calls, BeginEmbed(c) \/ EmbedStep(c)
        PROVE  AtRest'
    <2>1. embed[c] \in EmbedCall
      BY DEF VectorInv
    <2> DEFINE e == embed[c]
               b == Batches(InputsOf[c])
    <2>2. CASE EndCall(c)
      BY <2>2, RestOfCall DEF RestInv, EndCall
    <2>3. CASE BeginEmbed(c)
      <3> DEFINE f == [NoEmbed EXCEPT !.pc = "check", !.work = b]
      <3>1. embed' = [embed EXCEPT ![c] = f]
        BY <2>3 DEF BeginEmbed
      <3>2. f.pc = "check"
        BY DEF NoEmbed
      <3> HIDE DEF f
      <3> QED
        BY <3>1, <3>2, RestOfCall DEF RestInv
    <2>4. CASE \E p \in Positions \ {"idle"} : embed' = [embed EXCEPT ![c].pc = p]
      <3>1. PICK p \in Positions \ {"idle"} : embed' = [embed EXCEPT ![c].pc = p]
        BY <2>4
      <3>2. [e EXCEPT !.pc = p].pc # "idle"
        BY <2>1, <3>1 DEF EmbedCall
      <3> QED
        BY <3>1, <3>2, RestOfCall DEF RestInv
    <2>5. CASE \E a : embed' = [embed EXCEPT ![c].pc = "check", ![c].attempt = a]
      <3>1. PICK a : embed' = [embed EXCEPT ![c].pc = "check", ![c].attempt = a]
        BY <2>5
      <3> DEFINE f == [e EXCEPT !.pc = "check", !.attempt = a]
      <3>2. f.pc = "check" /\ embed' = [embed EXCEPT ![c] = f]
        BY <2>1, <3>1 DEF EmbedCall, VectorInv
      <3> HIDE DEF f
      <3> QED
        BY <3>2, RestOfCall DEF RestInv
    <2>6. CASE \E w : Retry(c, w)
      <3>1. PICK w : Retry(c, w)
        BY <2>6
      <3> DEFINE f == [e EXCEPT !.pc = "check", !.attempt = 0, !.work = w]
      <3>2. f.pc = "check" /\ embed' = [embed EXCEPT ![c] = f]
        BY <2>1, <3>1 DEF EmbedCall, VectorInv, Retry
      <3> HIDE DEF f
      <3> QED
        BY <3>2, RestOfCall DEF RestInv
    <2>7. CASE \E w, s : embed' = [embed EXCEPT ![c].pc = "check", ![c].attempt = 0, ![c].work = w,
                                                ![c].alone = embed[c].alone \union s]
      <3>1. PICK w, s : embed' = [embed EXCEPT ![c].pc = "check", ![c].attempt = 0, ![c].work = w,
                                               ![c].alone = embed[c].alone \union s]
        BY <2>7
      <3> DEFINE f == [e EXCEPT !.pc = "check", !.attempt = 0, !.work = w, !.alone = e.alone \union s]
      <3>2. f.pc = "check" /\ embed' = [embed EXCEPT ![c] = f]
        BY <2>1, <3>1 DEF EmbedCall, VectorInv
      <3> HIDE DEF f
      <3> QED
        BY <3>2, RestOfCall DEF RestInv
    <2>8. CASE Embedded(c)
      <3> DEFINE p == IF Later(c) = <<>> THEN "done" ELSE "check"
                 f == [e EXCEPT !.pc = p, !.attempt = 0, !.work = Later(c), !.out = e.out \o Current(c)]
      <3>1. embed' = [embed EXCEPT ![c] = f]
        BY <2>8 DEF VectorInv, Embedded
      <3>2. f.pc = p
        BY <2>1 DEF EmbedCall
      <3> HIDE DEF f
      <3> QED
        BY <3>1, <3>2, RestOfCall DEF RestInv
    <2>9. CASE CheckBudget(c) \/ Send(c)
      BY <2>2, <2>4, <2>9 DEF CheckBudget, Send, Positions
    <2>10. CASE AnswerLost(c) \/ QuotaUsedUp(c) \/ BadAnswer(c) \/ ReturnVectors(c)
      BY <2>2, <2>10 DEF AnswerLost, QuotaUsedUp, BadAnswer, ReturnVectors
    <2>11. CASE RateLimitHit(c)
      <3>1. EndCall(c) \/ \E a : embed' = [embed EXCEPT ![c].pc = "check", ![c].attempt = a]
        BY <2>11 DEF RateLimitHit
      <3> QED
        BY <3>1, <2>2, <2>5
    <2>12. CASE Refused(c)
      BY <2>2, <2>6, <2>7, <2>12, Zenon DEF Refused
    <2>13. CASE TooLarge(c)
      BY <2>2, <2>6, <2>13, Zenon DEF TooLarge
    <2> QED
      BY <1>1, <2>3, <2>8, <2>9, <2>10, <2>11, <2>12, <2>13 DEF EmbedStep
  <1>2. embed' = embed => AtRest'
    BY DEF RestInv, AtRest
  <1>3. CASE \E c \in Calls : BeginEmbed(c) \/ EmbedStep(c)
    <2>1. PICK c \in Calls : BeginEmbed(c) \/ EmbedStep(c)
      BY <1>3
    <2>2. lost' = lost \/ (lost < MaxLost /\ lost' = lost + 1)
      BY <2>1 DEF BeginEmbed, EmbedStep, CheckBudget, Send, AnswerLost, QuotaUsedUp, RateLimitHit,
                  Refused, TooLarge, BadAnswer, Embedded, ReturnVectors
    <2>3. lost' \in 0..MaxLost
      BY <2>2, BudgetAssumption DEF RestInv
    <2> QED
      BY <1>1, <2>1, <2>3 DEF RestInv
  <1>4. CASE BudgetTick
    BY <1>2, <1>4, BudgetAssumption DEF BudgetTick, RestInv
  <1>5. CASE UNCHANGED budgetVars
    BY <1>2, <1>5 DEF budgetVars, RestInv
  <1> QED
    BY <1>3, <1>4, <1>5 DEF BudgetNext

(* A batch is a sequence over whatever its entries are in. *)
LEMMA BatchOver ==
  ASSUME NEW b \in Batch, NEW S, \A j \in 1..Len(b) : b[j] \in S
  PROVE  b \in Seq(S)
  BY DEF Batch

(* The batches a call has still to do hold its inputs. *)
LEMMA StripInputs ==
  ASSUME NEW n \in Nat, NEW w \in Seq(Batch), NEW k \in Nat, NEW off, Strip(w, k, n, off)
  PROVE  /\ k <= n
         /\ \A i \in DOMAIN w : w[i] \in Seq((1..n) \union {Placeholder})
         /\ w # <<>> => k + 1 <= n
  <1>1. Len(w) \in Nat /\ DOMAIN w = 1..Len(w)
    OBVIOUS
  <1>2. off \in [1..(Len(w) + 1) -> 0..n] /\ off[1] = k
    BY DEF Strip
  <1>3. k \in 0..n
    BY <1>1, <1>2
  <1>4. ASSUME NEW i \in 1..Len(w)
        PROVE  w[i] \in Seq((1..n) \union {Placeholder})
    <2>1. w[i] \in Batch /\ Len(w[i]) \in Nat
      BY BatchLength
    <2>2. off[i] \in 0..n /\ off[i + 1] \in 0..n
      BY <1>1, <1>2
    <2>3. off[i + 1] = off[i] + Len(w[i])
      BY DEF Strip
    <2>4. (\A j \in 1..Len(w[i]) : w[i][j] = off[i] + j) \/ w[i] = <<Placeholder>>
      BY Zenon DEF Strip
    <2>5. CASE \A j \in 1..Len(w[i]) : w[i][j] = off[i] + j
      <3> DEFINE a == off[i]
                 z == off[i + 1]
                 l == Len(w[i])
      <3>1. a \in 0..n /\ z \in 0..n /\ z = a + l /\ l \in Nat
        BY <2>1, <2>2, <2>3
      <3> HIDE DEF a, z, l
      <3>2. \A j \in 1..l : a + j \in 1..n
        BY <3>1
      <3>3. \A j \in 1..Len(w[i]) : off[i] + j \in 1..n
        BY <3>2 DEF a, l
      <3>4. \A j \in 1..Len(w[i]) : w[i][j] \in (1..n) \union {Placeholder}
        BY <2>5, <3>3
      <3> QED
        BY <2>1, <3>4, BatchOver
    <2>6. CASE w[i] = <<Placeholder>>
      BY <2>6
    <2> QED
      BY <2>4, <2>5, <2>6
  <1>5. w # <<>> => k + 1 <= n
    <2> SUFFICES ASSUME w # <<>> PROVE k + 1 <= n
      OBVIOUS
    <2>1. 1 \in 1..Len(w) /\ 1 + 1 \in 1..(Len(w) + 1)
      BY <1>1
    <2>2. Len(w[1]) > 0 /\ off[1 + 1] = off[1] + Len(w[1])
      BY <2>1 DEF Strip
    <2>3. off[1 + 1] \in 0..n /\ Len(w[1]) \in Nat
      BY <1>2, <2>1, BatchLength
    <2> QED
      BY <1>2, <1>3, <2>2, <2>3
  <1> QED
    BY <1>1, <1>3, <1>4, <1>5

(* What a call holds is of its own inputs. *)
LEMMA CallTypes ==
  ASSUME VectorInv, AtRest, NEW c \in Calls
  PROVE  /\ embed[c].pc \in Positions /\ embed[c].attempt \in 0..MaxRetries
         /\ \A i \in DOMAIN embed[c].work : embed[c].work[i] \in Seq(Inputs(c) \union {Placeholder})
         /\ embed[c].out \in Seq(Inputs(c) \union {Placeholder})
         /\ embed[c].alone \subseteq Inputs(c)
  <1>1. PICK e \in EmbedCall : e = embed[c]
    BY DEF VectorInv
  <1>2. /\ e.pc \in Positions /\ e.attempt \in 0..MaxRetries /\ e.work \in Seq(Batch)
        /\ e.out \in Batch /\ e.alone \in SUBSET Nat
    BY DEF EmbedCall
  <1>3. PICK n \in Nat : n = InputsOf[c]
    BY InputNumbers
  <1>4. Inputs(c) = 1..n
    BY <1>3 DEF Inputs
  <1>5. CASE e.pc = "idle"
    <2>1. e.work = <<>> /\ e.out = <<>> /\ e.alone = {}
      BY <1>1, <1>5 DEF AtRest, NoEmbed
    <2> QED
      BY <1>1, <1>2, <2>1
  <1>6. CASE e.pc # "idle"
    <2>1. /\ Matched(e.out, e.alone) /\ Aside(e.work, e.out, e.alone)
          /\ \E off : Strip(e.work, Len(e.out), n, off)
      BY <1>1, <1>3, <1>6 DEF VectorInv, InputsInOrder
    <2>2. Len(e.out) \in Nat
      BY <1>2, BatchLength
    <2>3. /\ Len(e.out) <= n
          /\ \A i \in DOMAIN e.work : e.work[i] \in Seq((1..n) \union {Placeholder})
          /\ e.work # <<>> => Len(e.out) + 1 <= n
      BY <1>2, <2>1, <2>2, StripInputs
    <2>4. e.out \in Seq((1..n) \union {Placeholder})
      <3>1. \A k \in 1..Len(e.out) : e.out[k] \in (1..n) \union {Placeholder}
        BY <2>1, <2>2, <2>3 DEF Matched
      <3> QED
        BY <1>2, <3>1, BatchOver
    <2>5. e.alone \subseteq 1..n
      BY <1>2, <2>1, <2>2, <2>3 DEF Aside
    <2> QED
      BY <1>1, <1>2, <1>4, <2>3, <2>4, <2>5
  <1> QED
    BY <1>5, <1>6

(* Of the embedding provider: a call has batches, vectors and refused      *)
(* inputs of its own inputs only, whatever is split and tried again.       *)
THEOREM BudgetTypes == BudgetSpec => []BudgetTypeOK
  <1>1. BudgetInit => RestInv
    BY BudgetAssumption DEF BudgetInit, RestInv, AtRest
  <1>2. BudgetInv /\ VectorInv /\ RestInv => BudgetTypeOK
    <2> SUFFICES ASSUME BudgetInv, VectorInv, RestInv PROVE BudgetTypeOK
      OBVIOUS
    <2>1. \A c \in Calls :
            /\ embed[c].pc \in Positions /\ embed[c].attempt \in 0..MaxRetries
            /\ \A i \in DOMAIN embed[c].work : embed[c].work[i] \in Seq(Inputs(c) \union {Placeholder})
            /\ embed[c].out \in Seq(Inputs(c) \union {Placeholder})
            /\ embed[c].alone \subseteq Inputs(c)
      BY CallTypes DEF RestInv
    <2>2. clock \in 0..(DayLength - 1)
      BY BudgetNumbers DEF BudgetInv, Counters
    <2> QED
      BY <2>1, <2>2 DEF BudgetTypeOK, RestInv, BudgetInv, Counters, Positions
  <1>3. VectorInv /\ RestInv /\ [BudgetNext]_budgetVars => RestInv'
    BY RestStep
  <1> QED
    BY <1>1, <1>2, <1>3, BudgetInvariant, VectorInvariant, PTL DEF BudgetSpec
-----------------------------------------------------------------------------
(* That completions and calls end is liveness, and stays with TLC.  What   *)
(* makes them end is proved: every step of one ends it, or brings it       *)
(* nearer to its end in an order without infinite descent.                 *)

(* The steps a completion may still take. *)
TriesLeft(k) == 2 * (ProviderCount - Cardinality(k.tried)) + (IF k.pc = "generate" THEN 1 ELSE 0)

(* Each step of a completion ends it or leaves it fewer steps to take.     *)
CompletionsAdvance ==
  [][\A c \in Completions : call[c].pc # "idle" /\ call'[c] # call[c] =>
       /\ TriesLeft(call[c]) \in Nat
       /\ call'[c].pc = "idle" \/ TriesLeft(call'[c]) < TriesLeft(call[c])]_routerVars

LEMMA TriesCounted ==
  ASSUME NEW T \in SUBSET Providers
  PROVE  /\ Cardinality(T) \in 0..ProviderCount
         /\ \A p \in Providers \ T : Cardinality(T \union {p}) = Cardinality(T) + 1
  <1>1. ProviderCount \in Nat
    BY RouterAssumption
  <1>2. IsFiniteSet(Providers) /\ Cardinality(Providers) = ProviderCount
    BY <1>1, FS_Interval DEF Providers
  <1> DEFINE P == Providers
  <1> HIDE DEF P
  <1>3. T \in SUBSET P /\ IsFiniteSet(P) /\ Cardinality(P) = ProviderCount
    BY <1>2 DEF P
  <1>4. IsFiniteSet(T) /\ Cardinality(T) <= Cardinality(P)
    BY <1>3, FS_Subset
  <1>5. Cardinality(T) \in Nat
    BY <1>4, FS_CardinalityType
  <1>6. \A p \in P \ T : Cardinality(T \union {p}) = Cardinality(T) + 1
    BY <1>4, FS_AddElement
  <1> QED
    BY <1>1, <1>3, <1>4, <1>5, <1>6 DEF P

LEMMA CompletionAdvances ==
  ASSUME RouterInv, NEW c \in Completions, CallStep(c)
  PROVE  /\ TriesLeft(call[c]) \in Nat
         /\ call'[c].pc = "idle" \/ TriesLeft(call'[c]) < TriesLeft(call[c])
  <1> DEFINE T == call[c].tried
             P == ProviderCount
  <1>1. /\ call \in [Completions -> [pc : {"idle", "select", "generate"},
                                     at : Providers \union {0}, tried : SUBSET Providers]]
        /\ P \in Nat
    BY RouterAssumption DEF RouterInv, RouterTypeOK
  <1>2. T \in SUBSET Providers
    BY <1>1
  <1>3. /\ Cardinality(T) \in 0..P
        /\ \A p \in Providers \ T : Cardinality(T \union {p}) = Cardinality(T) + 1
    BY <1>2, TriesCounted
  <1>4. TriesLeft(call[c]) \in Nat
    BY <1>1, <1>3 DEF TriesLeft
  <1>5. CASE Select(c)
    <2> DEFINE checked == [p \in Providers |-> IF p \in T THEN provider[p] ELSE Checked(p)]
               found == {p \in Providers \ T : Available(checked[p])}
    <2>1. /\ call[c].pc = "select"
          /\ \/ call' = [call EXCEPT ![c] = NoCall]
             \/ \E p \in found : call' = [call EXCEPT ![c] = [pc |-> "generate", at |-> p, tried |-> T \union {p}]]
      BY <1>5 DEF Select, Tried
    <2>2. found \subseteq Providers \ T
      OBVIOUS
    <2> HIDE DEF found, checked
    <2>3. CASE call' = [call EXCEPT ![c] = NoCall]
      BY <1>1, <1>4, <2>3 DEF NoCall
    <2>4. CASE \E p \in found : call' = [call EXCEPT ![c] = [pc |-> "generate", at |-> p, tried |-> T \union {p}]]
      <3>1. PICK p \in Providers \ T :
                   call' = [call EXCEPT ![c] = [pc |-> "generate", at |-> p, tried |-> T \union {p}]]
        BY <2>2, <2>4
      <3>2. call'[c].pc = "generate" /\ call'[c].tried = T \union {p}
        BY <1>1, <3>1
      <3>3. Cardinality(T \union {p}) = Cardinality(T) + 1
        BY <1>3
      <3>4. TriesLeft(call'[c]) = 2 * (P - (Cardinality(T) + 1)) + 1
        BY <3>2, <3>3 DEF TriesLeft
      <3>5. TriesLeft(call[c]) = 2 * (P - Cardinality(T)) + 0
        BY <2>1 DEF TriesLeft
      <3> HIDE DEF T, P
      <3>6. 2 * (P - (Cardinality(T) + 1)) + 1 < 2 * (P - Cardinality(T)) + 0
        BY <1>1, <1>3
      <3> QED
        BY <1>4, <3>4, <3>5, <3>6
    <2> QED
      BY <2>1, <2>3, <2>4
  <1>6. CASE Succeeds(c)
    BY <1>1, <1>4, <1>6 DEF Succeeds, NoCall
  <1>7. CASE RateLimited(c) \/ Fails(c)
    <2>1. call[c].pc = "generate" /\ call' = [call EXCEPT ![c].pc = "select"]
      BY <1>7 DEF RateLimited, Fails
    <2>2. call'[c].pc = "select" /\ call'[c].tried = T
      BY <1>1, <2>1
    <2>3. TriesLeft(call'[c]) = 2 * (P - Cardinality(T)) + 0 /\ TriesLeft(call[c]) = 2 * (P - Cardinality(T)) + 1
      BY <2>1, <2>2 DEF TriesLeft
    <2> HIDE DEF T, P
    <2>4. 2 * (P - Cardinality(T)) + 0 < 2 * (P - Cardinality(T)) + 1
      BY <1>1, <1>3
    <2> QED
      BY <1>4, <2>3, <2>4
  <1> QED
    BY <1>5, <1>6, <1>7 DEF CallStep

(* A completion takes at most 2 * ProviderCount + 1 steps: each attempt is *)
(* at a provider it has not tried ("until every registered provider has    *)
(* been tried once").                                                      *)
THEOREM CompletionsNearEnd == RouterSpec => CompletionsAdvance
  <1>1. ASSUME RouterInv, [RouterNext]_routerVars
        PROVE  [\A c \in Completions : call[c].pc # "idle" /\ call'[c] # call[c] =>
                  /\ TriesLeft(call[c]) \in Nat
                  /\ call'[c].pc = "idle" \/ TriesLeft(call'[c]) < TriesLeft(call[c])]_routerVars
    <2> SUFFICES ASSUME NEW c \in Completions, call[c].pc # "idle", call'[c] # call[c]
                 PROVE  /\ TriesLeft(call[c]) \in Nat
                        /\ call'[c].pc = "idle" \/ TriesLeft(call'[c]) < TriesLeft(call[c])
      OBVIOUS
    <2>1. CallStep(c)
      <3>1. call' # call /\ call \in [Completions -> [pc : {"idle", "select", "generate"},
                                        at : Providers \union {0}, tried : SUBSET Providers]]
        BY <1>1 DEF RouterInv, RouterTypeOK
      <3>2. PICK d \in Completions : Complete(d) \/ CallStep(d)
        BY <1>1, <3>1 DEF RouterNext, RouterTick, routerVars
      <3>3. d # c => call'[c] = call[c]
        BY <3>1, <3>2 DEF Complete, CallStep, Select, Succeeds, RateLimited, Fails
      <3> QED
        BY <3>2, <3>3 DEF Complete
    <2> QED
      BY <1>1, <2>1, CompletionAdvances
  <1> QED
    BY <1>1, RouterInvariant, PTL DEF RouterSpec, CompletionsAdvance

(* The inputs of a call that have no vector yet, less the batches they are *)
(* in, and those not yet refused on their own.                             *)
InputsLeft(e, n) == 2 * (n - Len(e.out)) - Len(e.work) + (n - Cardinality(e.alone))

Stage(p) == IF p = "check" THEN 2 ELSE IF p = "send" THEN 1 ELSE 0

(* Fewer inputs are left; or as many, and another of the MaxRetries        *)
(* attempts begins; or that attempt comes nearer to its answer.            *)
Advances(e, f, n) ==
  \/ InputsLeft(f, n) < InputsLeft(e, n)
  \/ InputsLeft(f, n) = InputsLeft(e, n) /\ f.attempt > e.attempt
  \/ InputsLeft(f, n) = InputsLeft(e, n) /\ f.attempt = e.attempt /\ Stage(f.pc) < Stage(e.pc)

(* Each step of an embedding call ends it or advances it; attempts are     *)
(* bounded, inputs left are a number, and there are three stages.          *)
EmbedAdvances ==
  [][\A c \in Calls : embed[c].pc # "idle" /\ embed'[c] # embed[c] =>
       /\ InputsLeft(embed[c], InputsOf[c]) \in Nat /\ embed[c].attempt \in 0..MaxRetries
       /\ embed'[c].pc = "idle" \/ Advances(embed[c], embed'[c], InputsOf[c])]_budgetVars

(* Each batch has an input of its own. *)
LEMMA StripLength ==
  ASSUME NEW n \in Nat, NEW w \in Seq(Batch), NEW k \in Nat, NEW off, Strip(w, k, n, off)
  PROVE  k + Len(w) <= n
  <1> DEFINE m == Len(w)
             S == {i \in Nat : i <= m => off[i + 1] >= k + i}
  <1>1. /\ m \in Nat /\ off \in [1..(m + 1) -> 0..n] /\ off[1] = k /\ off[m + 1] = n
        /\ \A i \in 1..m : Len(w[i]) > 0 /\ off[i + 1] = off[i] + Len(w[i])
    BY DEF Strip
  <1>2. \A i \in 1..m : Len(w[i]) \in Nat
    BY BatchLength
  <1> HIDE DEF m
  <1>3. 0 \in S
    BY <1>1
  <1>4. ASSUME NEW i \in Nat, i \in S PROVE i + 1 \in S
    <2> SUFFICES ASSUME i + 1 <= m PROVE off[(i + 1) + 1] >= k + (i + 1)
      OBVIOUS
    <2>1. i + 1 \in 1..m /\ i + 1 \in 1..(m + 1)
      BY <1>1
    <2>2. off[i + 1] >= k + i /\ off[i + 1] \in Nat
      BY <1>1, <1>4, <2>1
    <2>3. /\ off[(i + 1) + 1] = off[i + 1] + Len(w[i + 1])
          /\ Len(w[i + 1]) > 0 /\ Len(w[i + 1]) \in Nat
      BY <1>1, <1>2, <2>1
    <2> DEFINE l == Len(w[i + 1])
    <2> HIDE DEF l
    <2>4. l \in Nat /\ l > 0 /\ off[(i + 1) + 1] = off[i + 1] + l
      BY <2>3 DEF l
    <2> QED
      BY <2>2, <2>4
  <1>5. m \in S
    <2> HIDE DEF S
    <2> QED
      BY <1>1, <1>3, <1>4, SetInduction
  <1> QED
    BY <1>1, <1>5 DEF m

LEMMA LeftIsNumber ==
  ASSUME NEW n \in Nat, NEW e \in EmbedCall, e.pc # "idle", InputsInOrder(e, n)
  PROVE  /\ InputsLeft(e, n) \in Nat /\ Len(e.out) \in Nat /\ Len(e.work) \in Nat
         /\ IsFiniteSet(e.alone) /\ Cardinality(e.alone) \in Nat
  <1>1. /\ e.work \in Seq(Batch) /\ e.out \in Batch
        /\ Aside(e.work, e.out, e.alone) /\ \E off : Strip(e.work, Len(e.out), n, off)
    BY DEF EmbedCall, InputsInOrder
  <1> DEFINE k == Len(e.out)
             m == Len(e.work)
             h == Cardinality(e.alone)
  <1>2. k \in Nat /\ m \in Nat
    BY <1>1, BatchLength
  <1>3. k + m <= n
    BY <1>1, <1>2, StripLength
  <1>4. e.alone \subseteq 1..n
    <2>1. e.work # <<>> => m > 0
      BY <1>1
    <2>2. (e.work # <<>> /\ e.alone \subseteq 1..(k + 1)) \/ e.alone \subseteq 1..k
      BY <1>1 DEF Aside
    <2> HIDE DEF k, m
    <2> QED
      BY <1>2, <1>3, <2>1, <2>2
  <1>5. IsFiniteSet(e.alone) /\ h <= n /\ h \in Nat
    <2>1. IsFiniteSet(1..n) /\ Cardinality(1..n) = n
      BY FS_Interval
    <2> QED
      BY <1>4, <2>1, FS_Subset, FS_CardinalityType
  <1>6. InputsLeft(e, n) = 2 * (n - k) - m + (n - h)
    BY DEF InputsLeft
  <1> HIDE DEF k, m, h
  <1>7. 2 * (n - k) - m + (n - h) \in Nat
    BY <1>2, <1>3, <1>5
  <1> QED
    BY <1>2, <1>5, <1>6, <1>7 DEF k, m, h

(* A batch split in two. *)
LEMMA SplitAdvances ==
  ASSUME VectorInv, NEW c \in Calls, embed[c].pc = "await", Len(Current(c)) > 1,
         Retry(c, Halves(Current(c)) \o Later(c))
  PROVE  InputsLeft(embed'[c], InputsOf[c]) < InputsLeft(embed[c], InputsOf[c])
  <1>1. PICK e \in EmbedCall :
           /\ e = embed[c] /\ e.work \in Seq(Batch) /\ e.work # <<>>
           /\ Current(c) = e.work[1] /\ Later(c) = Tail(e.work) /\ e.work[1] \in Batch
           /\ Later(c) \in Seq(Batch)
    BY Awaited
  <1> DEFINE n == InputsOf[c]
             t == Tail(e.work)
             w == Halves(e.work[1]) \o t
  <1>2. PICK x \in Batch, y \in Batch : Halves(e.work[1]) = <<x, y>>
    BY <1>1, HalvesSplit
  <1>3. Len(w) = Len(t) + 2 /\ Len(t) = Len(e.work) - 1 /\ Len(e.work) \in Nat
    BY <1>1, <1>2, TwoInFront, FirstAndRest
  <1>4. embed'[c].out = e.out /\ embed'[c].alone = e.alone /\ embed'[c].work = w
    <2>1. Retry(c, w) /\ embed \in [Calls -> EmbedCall]
      BY <1>1 DEF VectorInv
    <2> HIDE DEF w
    <2> QED
      BY <1>1, <2>1 DEF Retry, EmbedCall
  <1>5. InputsLeft(e, n) \in Nat /\ n \in Nat /\ Len(e.out) \in Nat /\ Cardinality(e.alone) \in Nat
    BY <1>1, InputNumbers, LeftIsNumber DEF VectorInv
  <1>6. InputsLeft(embed'[c], n) = 2 * (n - Len(e.out)) - Len(w) + (n - Cardinality(e.alone))
    BY <1>4 DEF InputsLeft
  <1>7. InputsLeft(e, n) = 2 * (n - Len(e.out)) - Len(e.work) + (n - Cardinality(e.alone))
    BY DEF InputsLeft
  <1> DEFINE a == Len(e.out)
             h == Cardinality(e.alone)
             m == Len(e.work)
             v == Len(w)
             u == Len(t)
  <1>8. a \in Nat /\ h \in Nat /\ m \in Nat /\ v = m + 1 /\ n \in Nat
    <2>1. m \in Nat /\ v = u + 2 /\ u = m - 1
      BY <1>3
    <2>2. a \in Nat /\ h \in Nat /\ n \in Nat
      BY <1>5
    <2> HIDE DEF a, h, m, v, n, u
    <2> QED
      BY <2>1, <2>2
  <1> HIDE DEF a, h, m, v, n
  <1>9. 2 * (n - a) - v + (n - h) < 2 * (n - a) - m + (n - h)
    BY <1>8
  <1> QED
    BY <1>1, <1>6, <1>7, <1>9 DEF a, h, m, v, n

(* An input refused on its own. *)
LEMMA PlaceAdvances ==
  ASSUME VectorInv, NEW c \in Calls, embed[c].pc = "await",
         Len(Current(c)) = 1, Current(c) # <<Placeholder>>,
         embed' = [embed EXCEPT ![c].pc = "check", ![c].attempt = 0,
                                ![c].work = <<<<Placeholder>>>> \o Later(c),
                                ![c].alone = @ \union {Current(c)[1]}]
  PROVE  InputsLeft(embed'[c], InputsOf[c]) < InputsLeft(embed[c], InputsOf[c])
  <1>1. PICK e \in EmbedCall :
           /\ e = embed[c] /\ e.work \in Seq(Batch) /\ e.work # <<>>
           /\ e.out \in Batch /\ Len(e.out) \in Nat
           /\ Current(c) = e.work[1] /\ Later(c) = Tail(e.work) /\ e.work[1] \in Batch
           /\ Later(c) \in Seq(Batch) /\ Aside(e.work, e.out, e.alone)
           /\ \E off : Strip(e.work, Len(e.out), InputsOf[c], off)
    BY Awaited
  <1> DEFINE n == InputsOf[c]
             t == Tail(e.work)
             w == <<<<Placeholder>>>> \o t
             s == e.alone \union {e.work[1][1]}
  <1>2. InputsLeft(e, n) \in Nat /\ n \in Nat /\ IsFiniteSet(e.alone) /\ Cardinality(e.alone) \in Nat
    BY <1>1, InputNumbers, LeftIsNumber DEF VectorInv
  <1>3. e.work[1][1] = Len(e.out) + 1
    <2>1. \A j \in 1..Len(e.work[1]) : e.work[1][j] = Len(e.out) + j
      BY <1>1, <1>2, FirstBatch
    <2>2. 1 \in 1..Len(e.work[1])
      BY <1>1
    <2> QED
      BY <2>1, <2>2
  <1>4. e.work[1][1] \notin e.alone
    BY <1>1, <1>3 DEF Aside
  <1>5. Cardinality(s) = Cardinality(e.alone) + 1
    BY <1>2, <1>4, FS_AddElement
  <1>6. Len(w) = Len(e.work) /\ Len(e.work) \in Nat
    <2>1. <<Placeholder>> \in Batch
      BY DEF Batch, Placeholder
    <2>2. Len(w) = Len(t) + 1 /\ Len(t) = Len(e.work) - 1 /\ Len(e.work) \in Nat
      BY <1>1, <2>1, OneInFront, FirstAndRest
    <2> HIDE DEF w, t
    <2> QED
      BY <2>2
  <1>7. embed'[c].out = e.out /\ embed'[c].alone = s /\ embed'[c].work = w
    <2>1. embed' = [embed EXCEPT ![c].pc = "check", ![c].attempt = 0, ![c].work = w,
                                 ![c].alone = e.alone \union {e.work[1][1]}]
      BY <1>1
    <2>2. embed \in [Calls -> EmbedCall]
      BY DEF VectorInv
    <2> HIDE DEF w
    <2> QED
      BY <1>1, <2>1, <2>2 DEF EmbedCall
  <1>8. InputsLeft(embed'[c], n) = 2 * (n - Len(e.out)) - Len(w) + (n - Cardinality(s))
    BY <1>7 DEF InputsLeft
  <1>9. InputsLeft(e, n) = 2 * (n - Len(e.out)) - Len(e.work) + (n - Cardinality(e.alone))
    BY DEF InputsLeft
  <1> DEFINE a == Len(e.out)
             h == Cardinality(e.alone)
             g == Cardinality(s)
             m == Len(e.work)
  <1>10. a \in Nat /\ h \in Nat /\ m \in Nat /\ g = h + 1 /\ n \in Nat /\ Len(w) = m
    BY <1>1, <1>2, <1>5, <1>6
  <1> HIDE DEF a, h, g, m, n
  <1>11. 2 * (n - a) - m + (n - g) < 2 * (n - a) - m + (n - h)
    BY <1>10
  <1> QED
    BY <1>1, <1>8, <1>9, <1>10, <1>11 DEF a, h, g, m, n

(* A batch embedded. *)
LEMMA TakeAdvances ==
  ASSUME VectorInv, NEW c \in Calls, Embedded(c)
  PROVE  InputsLeft(embed'[c], InputsOf[c]) < InputsLeft(embed[c], InputsOf[c])
  <1>1. PICK e \in EmbedCall :
           /\ e = embed[c] /\ e.work \in Seq(Batch) /\ e.work # <<>>
           /\ e.out \in Batch /\ Len(e.out) \in Nat
           /\ Current(c) = e.work[1] /\ Later(c) = Tail(e.work) /\ e.work[1] \in Batch
           /\ \E off : Strip(e.work, Len(e.out), InputsOf[c], off)
    BY Awaited DEF Embedded
  <1> DEFINE n == InputsOf[c]
             b == e.work[1]
             t == Tail(e.work)
             o == e.out \o b
  <1>2. /\ InputsLeft(e, n) \in Nat /\ n \in Nat /\ Cardinality(e.alone) \in Nat
    BY <1>1, InputNumbers, LeftIsNumber DEF VectorInv, Embedded
  <1>3. Len(b) > 0 /\ Len(b) \in Nat /\ Len(o) = Len(e.out) + Len(b)
    BY <1>1, <1>2, FirstBatch, BatchLength, Joined
  <1>4. Len(t) = Len(e.work) - 1 /\ Len(e.work) \in Nat
    BY <1>1, FirstAndRest
  <1>5. embed'[c].out = o /\ embed'[c].alone = e.alone /\ embed'[c].work = t
    <2>1. PICK p : embed' = [embed EXCEPT ![c].pc = p, ![c].attempt = 0, ![c].work = t,
                                          ![c].out = e.out \o b]
      BY <1>1 DEF Embedded
    <2>2. embed \in [Calls -> EmbedCall]
      BY DEF VectorInv
    <2> HIDE DEF t, b
    <2> QED
      BY <1>1, <2>1, <2>2 DEF EmbedCall
  <1>6. InputsLeft(embed'[c], n) = 2 * (n - Len(o)) - Len(t) + (n - Cardinality(e.alone))
    BY <1>5 DEF InputsLeft
  <1>7. InputsLeft(e, n) = 2 * (n - Len(e.out)) - Len(e.work) + (n - Cardinality(e.alone))
    BY DEF InputsLeft
  <1> DEFINE a == Len(e.out)
             h == Cardinality(e.alone)
             m == Len(e.work)
             l == Len(b)
  <1>8. a \in Nat /\ h \in Nat /\ m \in Nat /\ l \in Nat /\ l > 0 /\ n \in Nat
        /\ Len(o) = a + l /\ Len(t) = m - 1
    BY <1>1, <1>2, <1>3, <1>4
  <1> HIDE DEF a, h, m, l, n
  <1>9. 2 * (n - (a + l)) - (m - 1) + (n - h) < 2 * (n - a) - m + (n - h)
    BY <1>8
  <1> QED
    BY <1>1, <1>6, <1>7, <1>8, <1>9 DEF a, h, m, l, n

(* A call that is checked, sent or tried again keeps its inputs. *)
LEMMA SameLeft ==
  ASSUME VectorInv, NEW c \in Calls, NEW p, NEW a,
         \/ embed' = [embed EXCEPT ![c].pc = p] /\ a = embed[c].attempt
         \/ embed' = [embed EXCEPT ![c].pc = p, ![c].attempt = a]
  PROVE  /\ InputsLeft(embed'[c], InputsOf[c]) = InputsLeft(embed[c], InputsOf[c])
         /\ embed'[c].pc = p /\ embed'[c].attempt = a
  <1>1. embed \in [Calls -> EmbedCall]
    BY DEF VectorInv
  <1>2. /\ embed'[c].pc = p /\ embed'[c].attempt = a /\ embed'[c].work = embed[c].work
        /\ embed'[c].out = embed[c].out /\ embed'[c].alone = embed[c].alone
    BY <1>1 DEF EmbedCall
  <1> QED
    BY <1>2 DEF InputsLeft

LEMMA EmbedCallAdvances ==
  ASSUME VectorInv, NEW c \in Calls, EmbedStep(c)
  PROVE  embed'[c].pc = "idle" \/ Advances(embed[c], embed'[c], InputsOf[c])
  <1>1. EndCall(c) => embed'[c].pc = "idle"
    BY DEF EndCall, NoEmbed, VectorInv
  <1>2. CASE CheckBudget(c) \/ Send(c)
    <2>1. CASE EndCall(c)
      BY <1>1, <2>1
    <2>2. CASE embed[c].pc = "check" /\ embed' = [embed EXCEPT ![c].pc = "send"]
      <3>1. /\ InputsLeft(embed'[c], InputsOf[c]) = InputsLeft(embed[c], InputsOf[c])
            /\ embed'[c].pc = "send" /\ embed'[c].attempt = embed[c].attempt
        BY <2>2, SameLeft
      <3> QED
        BY <2>2, <3>1 DEF Advances, Stage
    <2>3. CASE embed[c].pc = "send" /\ embed' = [embed EXCEPT ![c].pc = "await"]
      <3>1. /\ InputsLeft(embed'[c], InputsOf[c]) = InputsLeft(embed[c], InputsOf[c])
            /\ embed'[c].pc = "await" /\ embed'[c].attempt = embed[c].attempt
        BY <2>3, SameLeft
      <3> QED
        BY <2>3, <3>1 DEF Advances, Stage
    <2> QED
      BY <1>2, <2>1, <2>2, <2>3 DEF CheckBudget, Send
  <1>3. CASE AnswerLost(c) \/ QuotaUsedUp(c) \/ BadAnswer(c) \/ ReturnVectors(c)
    BY <1>1, <1>3 DEF AnswerLost, QuotaUsedUp, BadAnswer, ReturnVectors
  <1>4. CASE RateLimitHit(c)
    <2>1. CASE EndCall(c)
      BY <1>1, <2>1
    <2>2. CASE ~EndCall(c)
      <3>1. PICK a : a = embed[c].attempt + 1
        OBVIOUS
      <3>2. embed' = [embed EXCEPT ![c].pc = "check", ![c].attempt = a]
        BY <1>4, <2>2, <3>1 DEF RateLimitHit
      <3>3. embed[c].attempt \in Nat
        BY InputNumbers DEF VectorInv, EmbedCall
      <3>4. a > embed[c].attempt
        BY <3>1, <3>3
      <3> QED
        BY <3>2, <3>4, SameLeft DEF Advances
    <2> QED
      BY <2>1, <2>2
  <1>5. CASE Refused(c)
    BY <1>1, <1>5, SplitAdvances, PlaceAdvances DEF Refused, Advances
  <1>6. CASE TooLarge(c)
    <2>1. Len(Current(c)) \in Nat /\ Len(Current(c)) > 0
      <3>1. PICK e \in EmbedCall :
              /\ e.work \in Seq(Batch) /\ e.work # <<>> /\ Len(e.out) \in Nat
              /\ Current(c) = e.work[1] /\ e.work[1] \in Batch
              /\ \E off : Strip(e.work, Len(e.out), InputsOf[c], off)
        BY <1>6, Awaited DEF TooLarge
      <3> QED
        BY <3>1, FirstBatch, BatchLength, InputNumbers
    <2>2. Len(Current(c)) # 1 => Len(Current(c)) > 1
      <3>1. \A m \in Nat : m > 0 => m = 1 \/ m > 1
        OBVIOUS
      <3> QED
        BY <2>1, <3>1, Zenon
    <2> QED
      BY <1>1, <1>6, <2>2, SplitAdvances DEF TooLarge, Advances
  <1>7. CASE Embedded(c)
    BY <1>7, TakeAdvances DEF Advances
  <1> QED
    BY <1>2, <1>3, <1>4, <1>5, <1>6, <1>7 DEF EmbedStep

(* A call of the embedding provider, whatever is split, refused or tried   *)
(* again, has only finitely many steps to take ("Bisect to isolate the     *)
(* offending input so one bad chunk can't fail the whole batch").          *)
THEOREM CallsNearEnd == BudgetSpec => EmbedAdvances
  <1> DEFINE Step(c) == /\ InputsLeft(embed[c], InputsOf[c]) \in Nat /\ embed[c].attempt \in 0..MaxRetries
                        /\ embed'[c].pc = "idle" \/ Advances(embed[c], embed'[c], InputsOf[c])
  <1>1. ASSUME VectorInv, [BudgetNext]_budgetVars
        PROVE  [\A c \in Calls : embed[c].pc # "idle" /\ embed'[c] # embed[c] => Step(c)]_budgetVars
    <2> SUFFICES ASSUME NEW c \in Calls, embed[c].pc # "idle", embed'[c] # embed[c] PROVE Step(c)
      OBVIOUS
    <2>1. EmbedStep(c)
      <3>1. embed' # embed /\ embed \in [Calls -> EmbedCall]
        BY <1>1 DEF VectorInv
      <3>2. PICK d \in Calls : BeginEmbed(d) \/ EmbedStep(d)
        BY <1>1, <3>1 DEF BudgetNext, BudgetTick, budgetVars
      <3>3. \E f : embed' = [embed EXCEPT ![d] = f]
        BY <3>1, <3>2 DEF BeginEmbed, EmbedStep, CheckBudget, Send, AnswerLost, QuotaUsedUp, RateLimitHit,
             Refused, TooLarge, BadAnswer, Embedded, ReturnVectors, EndCall, Retry
      <3>4. d = c
        BY <3>1, <3>3
      <3> QED
        BY <3>2, <3>4 DEF BeginEmbed
    <2>2. InputsLeft(embed[c], InputsOf[c]) \in Nat /\ embed[c].attempt \in 0..MaxRetries
      BY <1>1, InputNumbers, LeftIsNumber DEF VectorInv, EmbedCall
    <2> QED
      BY <1>1, <2>1, <2>2, EmbedCallAdvances
  <1> QED
    BY <1>1, VectorInvariant, PTL DEF BudgetSpec, EmbedAdvances
-----------------------------------------------------------------------------
(* A behaviour of the composition is one of each of its components:        *)
(* whichever of them moves, the others stay where they begin.              *)
THEOREM ServingParts == ServingSpec => LimiterSpec /\ RouterSpec /\ BudgetSpec
  <1>1. ServingInit => LimiterInit /\ RouterInit /\ BudgetInit
    BY DEF ServingInit
  <1>2. [ServingNext]_servingVars => /\ [LimiterNext]_limiterVars /\ [RouterNext]_routerVars
                                     /\ [BudgetNext]_budgetVars
    BY DEF ServingNext, servingVars
  <1> QED
    BY <1>1, <1>2, PTL DEF ServingSpec, LimiterSpec, RouterSpec, BudgetSpec

(* Every variable of the limiter, the router and the embedding provider    *)
(* has a value of its kind.                                                *)
THEOREM ServingTypes == ServingSpec => []ServingTypeOK
  <1>1. LimiterInv /\ RouterInv /\ BudgetTypeOK => ServingTypeOK
    BY DEF LimiterInv, RouterInv, ServingTypeOK
  <1> QED
    BY <1>1, ServingParts, LimiterInvariant, RouterInvariant, BudgetTypes, PTL

(* And what each component promises holds of the composition that is       *)
(* checked: the limiter's bucket, the router's overrun and rest, the quota *)
(* of the embedding provider and the vectors it returns.                   *)
THEOREM ServingKeepsPromises ==
  ServingSpec => /\ ImplementsTokenBucket /\ RestIsRespected
                 /\ [](OverrunBounded /\ DailyQuotaHolds /\ ExhaustionIsHeeded /\ VectorsMatchInputs)
  BY ServingParts, LimiterRefinement, OverrunIsBounded, RestRespected, QuotaHolds, ExhaustionHeeded,
     VectorsMatch, PTL
=============================================================================
