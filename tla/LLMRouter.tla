----------------------------- MODULE LLMRouter ------------------------------
(***************************************************************************)
(* The sidecar's LLM router (app/providers/router.py): complete() selects  *)
(* a provider under the lock, awaits its answer with the lock released,    *)
(* and marks the outcome under the lock again, for at most one attempt at  *)
(* each provider.  Several completions do so at once.  Providers are       *)
(* 1..ProviderCount in the order of TASK_PROVIDER_ORDER.  Times are ticks  *)
(* from now: the age of the minute's window and what is left of a          *)
(* cooldown.                                                               *)
(***************************************************************************)
EXTENDS Integers, FiniteSets

CONSTANTS
    ProviderCount,
    Completions,    \* calls of complete() under way at once
    RpmLimit,       \* rpm_limit of each provider
    Window,         \* ticks in a minute
    RetryAfters,    \* what a 429 may ask for, in ticks
    Recovery,       \* ERROR_RECOVERY_SECONDS
    ErrorLimit      \* CONSECUTIVE_ERRORS

Providers == 1..ProviderCount

ASSUME RouterAssumption ==
    /\ ProviderCount \in Nat \ {0} /\ IsFiniteSet(Completions)
    /\ RpmLimit \in Nat \ {0} /\ Window \in Nat \ {0}
    /\ RetryAfters \subseteq Nat /\ Recovery \in Nat /\ ErrorLimit \in Nat \ {0}

VARIABLES
    provider,    \* state, requests_this_minute, window's age, cooldown left, error_count
    call,        \* completion -> position, provider in use, tried
    asked        \* history: what is left of the rest a provider asked for last,
                 \* by its latest 429 or its ErrorLimit-th failure in a row

routerVars == <<provider, call, asked>>

NoCall == [pc |-> "idle", at |-> 0, tried |-> {}]

RouterTypeOK ==
    /\ provider \in [Providers -> [state : {"available", "rate_limited", "error"}, used : Nat,
                                   age : 0..Window, cool : Nat, errors : 0..ErrorLimit]]
    /\ call \in [Completions -> [pc : {"idle", "select", "generate"},
                                 at : Providers \union {0}, tried : SUBSET Providers]]
    /\ asked \in [Providers -> Nat]

RouterInit ==
    /\ provider = [p \in Providers |-> [state |-> "available", used |-> 0, age |-> 0,
                                        cool |-> 0, errors |-> 0]]
    /\ call = [c \in Completions |-> NoCall]
    /\ asked = [p \in Providers |-> 0]

Complete(c) ==
    /\ call[c].pc = "idle"
    /\ call' = [call EXCEPT ![c].pc = "select"]
    /\ UNCHANGED <<provider, asked>>

(* What is_available leaves of a provider: recovered when its cooldown is  *)
(* over, and with a new window when it recovered or the minute is over.    *)
Checked(p) ==
    LET q == provider[p]
        recovers == q.state # "available" /\ q.cool = 0
        anew     == recovers \/ q.age >= Window
    IN  IF q.state # "available" /\ ~recovers THEN q
        ELSE [state  |-> "available",
              used   |-> IF anew THEN 0 ELSE q.used,
              age    |-> IF anew THEN 0 ELSE q.age,
              cool   |-> q.cool,
              errors |-> IF q.state = "error" THEN 0 ELSE q.errors]

(* Mutant: the minute's count is not looked at. *)
AvailableUncounted(q) == q.state = "available"

Available(q) == q.state = "available" /\ q.used < RpmLimit

(* Mutant: the provider just used is offered again. *)
TriedForgets(tried, p) == tried

Tried(tried, p) == tried \union {p}

(* _select under the lock: every provider not tried yet is checked, the    *)
(* first available one is taken and the lock released.  Without one, or    *)
(* with all tried, complete raises.                                        *)
Select(c) ==
    LET tried == call[c].tried
        seen  == [p \in Providers |-> IF p \in tried THEN provider[p] ELSE Checked(p)]
        found == {p \in Providers \ tried : Available(seen[p])}
    IN
    /\ call[c].pc = "select"
    /\ IF tried = Providers THEN UNCHANGED provider ELSE provider' = seen
    /\ IF found = {} THEN call' = [call EXCEPT ![c] = NoCall]
       ELSE \E p \in found :
              /\ \A q \in found : p <= q
              /\ call' = [call EXCEPT ![c] = [pc |-> "generate", at |-> p,
                                              tried |-> Tried(tried, p)]]
    /\ UNCHANGED asked

(* Mutant: a success clears the provider's state too. *)
SuccessClearsState(c) ==
    /\ call[c].pc = "generate"
    /\ provider' = [provider EXCEPT ![call[c].at].used = @ + 1, ![call[c].at].errors = 0,
                                    ![call[c].at].state = "available"]
    /\ call' = [call EXCEPT ![c] = NoCall]
    /\ UNCHANGED asked

(* generate returned a valid answer: mark_used and mark_success, and the   *)
(* answer is returned.                                                     *)
Succeeds(c) ==
    /\ call[c].pc = "generate"
    /\ provider' = [provider EXCEPT ![call[c].at].used = @ + 1, ![call[c].at].errors = 0]
    /\ call' = [call EXCEPT ![c] = NoCall]
    /\ UNCHANGED asked

(* A 429: mark_rate_limited, whatever state the provider is in by now. *)
RateLimited(c) ==
    LET p == call[c].at IN
    /\ call[c].pc = "generate"
    /\ \E t \in RetryAfters :
         /\ provider' = [provider EXCEPT ![p].state = "rate_limited", ![p].cool = t]
         /\ asked' = [asked EXCEPT ![p] = t]
    /\ call' = [call EXCEPT ![c].pc = "select"]

(* Another error, or an answer that fails validation: mark_error. *)
Fails(c) ==
    LET p == call[c].at
        n == IF provider[p].errors < ErrorLimit THEN provider[p].errors + 1 ELSE ErrorLimit
    IN
    /\ call[c].pc = "generate"
    /\ IF n < ErrorLimit
       THEN provider' = [provider EXCEPT ![p].errors = n] /\ UNCHANGED asked
       ELSE /\ provider' = [provider EXCEPT ![p].errors = n, ![p].state = "error", ![p].cool = Recovery]
            /\ asked' = [asked EXCEPT ![p] = Recovery]
    /\ call' = [call EXCEPT ![c].pc = "select"]

RouterTick ==
    /\ provider' = [p \in Providers |->
         [provider[p] EXCEPT !.age = IF @ < Window THEN @ + 1 ELSE @,
                             !.cool = IF @ > 0 THEN @ - 1 ELSE @]]
    /\ asked' = [p \in Providers |-> IF asked[p] > 0 THEN asked[p] - 1 ELSE 0]
    /\ UNCHANGED call

CallStep(c) == Select(c) \/ Succeeds(c) \/ RateLimited(c) \/ Fails(c)

RouterNext == (\E c \in Completions : Complete(c) \/ CallStep(c)) \/ RouterTick

RouterSpec == RouterInit /\ [][RouterNext]_routerVars
-----------------------------------------------------------------------------
InFlight(p) == {c \in Completions : call[c].pc = "generate" /\ call[c].at = p}

(* The minute's count is checked before the await and bumped after it, so  *)
(* concurrent completions exceed it; by no more than the other completions *)
(* that can be in flight, over every interleaving of windows, cooldowns    *)
(* and late marks.                                                         *)
OverrunBounded ==
    \A p \in Providers :
        provider[p].used + Cardinality(InFlight(p)) <= RpmLimit + Cardinality(Completions) - 1

(* "Skips providers cooling down": nobody is sent to a provider within the *)
(* rest it asked for last, even if a completion that was in flight at the  *)
(* time succeeds or fails in between.                                      *)
RestIsRespected ==
    [][\A p \in Providers : asked[p] > 0 => InFlight(p)' \subseteq InFlight(p)]_routerVars

(* What both rest on: a completion in flight is at a provider, and a       *)
(* provider that was asked to be left alone cools down for as long.        *)
InUse == \A c \in Completions : call[c].pc = "generate" => call[c].at \in Providers

RestIsKept == \A p \in Providers :
    asked[p] = provider[p].cool /\ (asked[p] > 0 => provider[p].state # "available")

RouterInv == RouterTypeOK /\ InUse /\ RestIsKept /\ OverrunBounded

(* A completion ends, with an answer or an error, after finitely many      *)
(* attempts ("until every registered provider has been tried once").       *)
CompletionsEnd ==
    \A c \in Completions : call[c].pc = "select" ~> call[c].pc = "idle"
=============================================================================
