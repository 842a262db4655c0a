----------------------------- MODULE KeyLimiter -----------------------------
(***************************************************************************)
(* The per-client rate limiter (api/internal/api/ratelimit.go): a map from *)
(* keys to visitors under a mutex, a token bucket for each visitor that is *)
(* used after the mutex is released, and a cleanup loop that forgets       *)
(* visitors idle for longer than IdleTimeout.  Buckets have an identity: a *)
(* request keeps the bucket getLimiter gave it even if the map has since   *)
(* forgotten it.  Time is ticks, and no clock: a bucket's credit grows by  *)
(* one a tick and lastSeen is kept as the ticks since then.                *)
(***************************************************************************)
EXTENDS Integers, FiniteSets

CONSTANTS
    Keys,          \* client addresses
    Requests,      \* requests in the middleware at the same time
    Buckets,       \* names for *rate.Limiter values
    Burst, Cost,   \* a bucket's size in tokens, and the ticks a token takes
    IdleTimeout,   \* visitorLimitIdleTimeout
    MaxStall,      \* ticks a request may wait between getLimiter and Allow
    NoBucket, NoVerdict

(* The limits of registerRoutes refill within two minutes and visitors are *)
(* kept for ten, which leaves a request eight to get to its bucket.        *)
ASSUME LimiterAssumption ==
    /\ Burst \in Nat \ {0} /\ Cost \in Nat \ {0}
    /\ IdleTimeout \in Nat /\ MaxStall \in Nat
    /\ IdleTimeout >= Burst * Cost + MaxStall
    /\ NoBucket \notin Buckets

VARIABLES
    visitor,    \* key -> bucket in the map (or NoBucket) and ticks since lastSeen
    tokens,     \* the credit of each bucket
    slot,       \* request -> key, bucket it holds (or NoBucket) and ticks since getLimiter
    verdict     \* the last decision, for the properties

limiterVars == <<visitor, tokens, slot, verdict>>

Full == Burst * Cost

LimiterTypeOK ==
    /\ visitor \in [Keys -> [bucket : Buckets \union {NoBucket}, idle : 0..(IdleTimeout + 1)]]
    /\ tokens \in [Buckets -> 0..Full]
    /\ slot \in [Requests -> [key : Keys, bucket : Buckets \union {NoBucket}, waited : 0..MaxStall]]

LimiterInit ==
    /\ visitor = [k \in Keys |-> [bucket |-> NoBucket, idle |-> 0]]
    /\ tokens = [b \in Buckets |-> Full]
    /\ slot \in [Requests -> [key : Keys, bucket : {NoBucket}, waited : {0}]]
    /\ verdict = NoVerdict

Known(k)   == visitor[k].bucket # NoBucket
Waiting(r) == slot[r].bucket # NoBucket

(* Buckets that nothing refers to: what the allocator may return. *)
Unused == {b \in Buckets : /\ \A k \in Keys : visitor[k].bucket # b
                           /\ \A r \in Requests : slot[r].bucket # b}

Hold(r, k, b) == slot' = [slot EXCEPT ![r] = [key |-> k, bucket |-> b, waited |-> 0]]

(* Mutant: a known visitor's lastSeen stays at its first request. *)
GetLimiterKeepsLastSeen(r, k) ==
    /\ ~Waiting(r)
    /\ \E b \in (IF Known(k) THEN {visitor[k].bucket} ELSE Unused) :
         /\ Hold(r, k, b)
         /\ IF Known(k) THEN UNCHANGED <<visitor, tokens>>
            ELSE /\ visitor' = [visitor EXCEPT ![k] = [bucket |-> b, idle |-> 0]]
                 /\ tokens' = [tokens EXCEPT ![b] = Full]
    /\ UNCHANGED verdict

(* getLimiter, under the mutex: the visitor's bucket, or a full new one. *)
GetLimiter(r, k) ==
    /\ ~Waiting(r)
    /\ \E b \in (IF Known(k) THEN {visitor[k].bucket} ELSE Unused) :
         /\ Hold(r, k, b)
         /\ visitor' = [visitor EXCEPT ![k] = [bucket |-> b, idle |-> 0]]
         /\ tokens' = IF Known(k) THEN tokens ELSE [tokens EXCEPT ![b] = Full]
    /\ UNCHANGED verdict

(* Middleware's Allow, on the bucket the request holds: it passes and      *)
(* takes a token, or is answered 429.                                      *)
Allow(r) ==
    LET b == slot[r].bucket  passes == tokens[b] >= Cost IN
    /\ Waiting(r)
    /\ tokens' = IF passes THEN [tokens EXCEPT ![b] = @ - Cost] ELSE tokens
    /\ verdict' = [key |-> slot[r].key, passed |-> passes]
    /\ slot' = [slot EXCEPT ![r].bucket = NoBucket, ![r].waited = 0]
    /\ UNCHANGED visitor

(* One pass of cleanupLoop under the mutex. *)
Cleanup ==
    /\ visitor' = [k \in Keys |-> IF visitor[k].idle > IdleTimeout
                                  THEN [bucket |-> NoBucket, idle |-> 0] ELSE visitor[k]]
    /\ UNCHANGED <<tokens, slot, verdict>>

(* A tick: every bucket refills, every lastSeen recedes (beyond            *)
(* IdleTimeout it no longer matters how far).  A request in the middleware *)
(* gets to Allow within MaxStall ticks.                                    *)
LimiterTick ==
    /\ \A r \in Requests : Waiting(r) => slot[r].waited < MaxStall
    /\ tokens' = [b \in Buckets |-> IF tokens[b] < Full THEN tokens[b] + 1 ELSE Full]
    /\ visitor' = [k \in Keys |->
         IF Known(k) /\ visitor[k].idle <= IdleTimeout THEN [visitor[k] EXCEPT !.idle = @ + 1]
                                                       ELSE visitor[k]]
    /\ slot' = [r \in Requests |->
         IF Waiting(r) THEN [slot[r] EXCEPT !.waited = @ + 1] ELSE slot[r]]
    /\ UNCHANGED verdict

LimiterNext ==
    \/ \E r \in Requests : (\E k \in Keys : GetLimiter(r, k)) \/ Allow(r)
    \/ Cleanup
    \/ LimiterTick

LimiterSpec == LimiterInit /\ [][LimiterNext]_limiterVars
-----------------------------------------------------------------------------
(* A key without a visitor has, for its callers, a full bucket. *)
CreditOf(k) == IF Known(k) THEN tokens[visitor[k].bucket] ELSE Full

Ideal == INSTANCE TokenBucket WITH credit <- [k \in Keys |-> CreditOf(k)]

(* Forgetting idle visitors is invisible: the limiter passes and refuses   *)
(* exactly the requests that one bucket per key, never evicted, would,     *)
(* however requests, evictions and time interleave.  (KeyLimiter's comment *)
(* "still bounding the sustained rate", with cleanupLoop running.)         *)
ImplementsTokenBucket == Ideal!TBSpec
-----------------------------------------------------------------------------
(* The inductive invariant behind it. *)

(* Two keys never share a bucket, and a waiting request holds the bucket   *)
(* the map has for its key.                                                *)
OneBucketPerKey ==
    /\ \A k, l \in Keys : Known(k) /\ visitor[k].bucket = visitor[l].bucket => k = l
    /\ \A r \in Requests : Waiting(r) => slot[r].bucket = visitor[slot[r].key].bucket

(* A waiting request has kept its visitor from growing old. *)
SeenSince == \A r \in Requests : Waiting(r) => visitor[slot[r].key].idle <= slot[r].waited

(* A visitor idle for longer than a stall has been refilling since. *)
IdleRefills ==
    \A k \in Keys : Known(k) =>
        \/ tokens[visitor[k].bucket] = Full
        \/ tokens[visitor[k].bucket] + MaxStall >= visitor[k].idle

LimiterInv == LimiterTypeOK /\ OneBucketPerKey /\ SeenSince /\ IdleRefills
=============================================================================
