---------------------------- MODULE EmbedBudget -----------------------------
(***************************************************************************)
(* The sidecar's embedding provider                                        *)
(* (app/providers/openrouter_embed_provider.py): DailyRequestBudget and    *)
(* the calls that spend it.  A call embeds a list of inputs in batches; a  *)
(* batch the server refuses is split in two and its halves are embedded in *)
(* turn, first half first.  Each request to the server checks the budget,  *)
(* waits for the per-minute limiter, awaits the answer and then records    *)
(* itself; other calls and midnight come in between.  Inputs are numbers;  *)
(* a vector is named by the input it embeds.  Time is ticks from now.      *)
(***************************************************************************)
EXTENDS Integers, Sequences, FiniteSets

CONSTANTS
    Calls,         \* calls of embed_query or embed_documents under way at once
    InputsOf,      \* how many inputs each embeds
    DocBatch,      \* batch_size
    DailyLimit,    \* daily_limit, 0 for none
    MaxRetries,    \* MAX_RATE_LIMIT_RETRIES
    DayLength,     \* ticks in a day
    Resets,        \* what an X-RateLimit-Reset header may say, in ticks from now
    MaxLost        \* bound: requests a day whose answer is lost

Placeholder == 0

ASSUME BudgetAssumption ==
    /\ IsFiniteSet(Calls) /\ Calls # {} /\ InputsOf \in [Calls -> Nat \ {0}]
    /\ DocBatch \in Nat \ {0} /\ DailyLimit \in Nat /\ MaxRetries \in Nat
    /\ DayLength \in Nat \ {0} /\ Resets \subseteq Nat /\ MaxLost \in Nat

VARIABLES
    clock,       \* ticks since midnight UTC
    budget,      \* used, whether _day is over, ticks until _exhausted_until (0: None)
    embed,       \* call -> position, attempt, batches to do, vectors so far, and
                 \* (history) the inputs refused on their own
    seen,        \* history: requests the server got today
    lost,        \* history: those of them whose answer never came
    late         \* history: requests sent since the budget became exhausted

budgetVars == <<clock, budget, embed, seen, lost, late>>

NoEmbed == [pc |-> "idle", attempt |-> 0, work |-> <<>>, out |-> <<>>, alone |-> {}]

Inputs(c) == 1..InputsOf[c]

BudgetTypeOK ==
    /\ clock \in 0..(DayLength - 1)
    /\ budget \in [used : Nat, over : BOOLEAN, exhausted : Nat]
    /\ \A c \in Calls :
         /\ embed[c].pc \in {"idle", "check", "send", "await", "done"}
         /\ embed[c].attempt \in 0..MaxRetries
         /\ \A i \in DOMAIN embed[c].work : embed[c].work[i] \in Seq(Inputs(c) \union {Placeholder})
         /\ embed[c].out \in Seq(Inputs(c) \union {Placeholder})
         /\ embed[c].alone \subseteq Inputs(c)
    /\ seen \in Nat /\ lost \in 0..MaxLost /\ late \in Nat

BudgetInit ==
    /\ clock = 0
    /\ budget = [used |-> 0, over |-> FALSE, exhausted |-> 0]
    /\ embed = [c \in Calls |-> NoEmbed]
    /\ seen = 0 /\ lost = 0 /\ late = 0

Midnight == DayLength - clock

(* _roll *)
Rolled == IF budget.over THEN [budget EXCEPT !.used = 0, !.over = FALSE] ELSE budget

Batches(n) == [i \in 1..((n + DocBatch - 1) \div DocBatch) |->
                 [j \in 1..(IF i * DocBatch <= n THEN DocBatch ELSE n - (i - 1) * DocBatch) |->
                    (i - 1) * DocBatch + j]]

(* embed_query with a text that is not in the cache, or embed_documents. *)
BeginEmbed(c) ==
    /\ embed[c].pc = "idle"
    /\ embed' = [embed EXCEPT ![c] = [NoEmbed EXCEPT !.pc = "check", !.work = Batches(InputsOf[c])]]
    /\ UNCHANGED <<clock, budget, seen, lost, late>>

EndCall(c) == embed' = [embed EXCEPT ![c] = NoEmbed]

(* Mutant: a retry does not look at the budget again. *)
CheckBudgetOnce(c) ==
    LET b == Rolled IN
    /\ embed[c].pc = "check"
    /\ IF embed[c].attempt = 0 /\ (b.exhausted > 0 \/ (DailyLimit > 0 /\ b.used >= DailyLimit))
       THEN /\ budget' = IF b.exhausted > 0 THEN b ELSE [b EXCEPT !.exhausted = Midnight]
            /\ EndCall(c)
       ELSE budget' = b /\ embed' = [embed EXCEPT ![c].pc = "send"]
    /\ UNCHANGED <<clock, seen, lost, late>>

(* budget.check: an exhausted budget fails the call; one that has just     *)
(* reached its limit is exhausted until midnight.                          *)
CheckBudget(c) ==
    LET b == Rolled IN
    /\ embed[c].pc = "check"
    /\ IF b.exhausted > 0 \/ (DailyLimit > 0 /\ b.used >= DailyLimit)
       THEN /\ budget' = IF b.exhausted > 0 THEN b ELSE [b EXCEPT !.exhausted = Midnight]
            /\ EndCall(c)
       ELSE budget' = b /\ embed' = [embed EXCEPT ![c].pc = "send"]
    /\ UNCHANGED <<clock, seen, lost, late>>

(* Through the per-minute limiter, and on its way. *)
Send(c) ==
    /\ embed[c].pc = "send"
    /\ embed' = [embed EXCEPT ![c].pc = "await"]
    /\ seen' = seen + 1
    /\ late' = IF budget.exhausted > 0 THEN late + 1 ELSE late
    /\ UNCHANGED <<clock, budget, lost>>

(* The connection fails: the call ends, and nothing is recorded. *)
AnswerLost(c) ==
    /\ embed[c].pc = "await" /\ lost < MaxLost
    /\ lost' = lost + 1
    /\ EndCall(c)
    /\ UNCHANGED <<clock, budget, seen, late>>

(* Mutant: the day is not rolled over when a request is recorded. *)
RecordedUnrolled == [budget EXCEPT !.used = @ + 1]

(* budget.record *)
Recorded == [Rolled EXCEPT !.used = @ + 1]

(* A 429 of the daily quota: mark_exhausted until the time in the header,  *)
(* which may have passed, or midnight.                                     *)
QuotaUsedUp(c) ==
    /\ embed[c].pc = "await"
    /\ \E t \in Resets \union {Midnight} :
         /\ budget' = [Recorded EXCEPT !.exhausted = t]
         /\ late' = IF budget.exhausted > 0 /\ t > 0 THEN late ELSE 0
    /\ EndCall(c)
    /\ UNCHANGED <<clock, seen, lost>>

(* Mutant: one retry too many. *)
PastLastAttempt(c) == embed[c].attempt > MaxRetries

LastAttempt(c) == embed[c].attempt = MaxRetries

(* Another 429: wait and try again, at most MaxRetries times. *)
RateLimitHit(c) ==
    /\ embed[c].pc = "await"
    /\ budget' = Recorded
    /\ IF LastAttempt(c) THEN EndCall(c)
       ELSE embed' = [embed EXCEPT ![c].pc = "check", ![c].attempt = @ + 1]
    /\ UNCHANGED <<clock, seen, lost, late>>

Current(c) == Head(embed[c].work)
Later(c)   == Tail(embed[c].work)

(* Mutant: the halves are swapped. *)
HalvesSwapped(b) == LET mid == Len(b) \div 2 IN
    <<SubSeq(b, mid + 1, Len(b)), SubSeq(b, 1, mid)>>

Halves(b) == LET mid == Len(b) \div 2 IN
    <<SubSeq(b, 1, mid), SubSeq(b, mid + 1, Len(b))>>

Retry(c, batches) == embed' = [embed EXCEPT ![c].pc = "check", ![c].attempt = 0, ![c].work = batches]

(* The server takes an input for an image: split the batch, or put a       *)
(* placeholder in the place of a single input.                             *)
Refused(c) ==
    /\ embed[c].pc = "await"
    /\ budget' = Recorded
    /\ \/ Len(Current(c)) > 1 /\ Retry(c, Halves(Current(c)) \o Later(c))
       \/ /\ Len(Current(c)) = 1 /\ Current(c) # <<Placeholder>>
          /\ embed' = [embed EXCEPT ![c].pc = "check", ![c].attempt = 0,
                                    ![c].work = <<<<Placeholder>>>> \o Later(c),
                                    ![c].alone = @ \union {Current(c)[1]}]
       \/ Current(c) = <<Placeholder>> /\ EndCall(c)
    /\ UNCHANGED <<clock, seen, lost, late>>

(* The batch is too large: split it; a single input cannot be. *)
TooLarge(c) ==
    /\ embed[c].pc = "await"
    /\ budget' = Recorded
    /\ IF Len(Current(c)) = 1 THEN EndCall(c) ELSE Retry(c, Halves(Current(c)) \o Later(c))
    /\ UNCHANGED <<clock, seen, lost, late>>

(* Another status, an error in the body or the wrong number of rows. *)
BadAnswer(c) ==
    /\ embed[c].pc = "await"
    /\ budget' = Recorded
    /\ EndCall(c)
    /\ UNCHANGED <<clock, seen, lost, late>>

(* One row for each input, put in the order of their index. *)
Embedded(c) ==
    /\ embed[c].pc = "await"
    /\ budget' = Recorded
    /\ embed' = [embed EXCEPT ![c].pc = IF Later(c) = <<>> THEN "done" ELSE "check",
                              ![c].attempt = 0, ![c].work = Later(c), ![c].out = @ \o Current(c)]
    /\ UNCHANGED <<clock, seen, lost, late>>

ReturnVectors(c) ==
    /\ embed[c].pc = "done"
    /\ EndCall(c)
    /\ UNCHANGED <<clock, budget, seen, lost, late>>

BudgetTick ==
    /\ clock' = (clock + 1) % DayLength
    /\ budget' = [budget EXCEPT !.over = @ \/ clock' = 0, !.exhausted = IF @ > 0 THEN @ - 1 ELSE 0]
    /\ IF clock' = 0 THEN seen' = 0 /\ lost' = 0 ELSE UNCHANGED <<seen, lost>>
    /\ late' = IF budget'.exhausted = 0 THEN 0 ELSE late
    /\ UNCHANGED embed

EmbedStep(c) ==
    \/ CheckBudget(c) \/ Send(c) \/ AnswerLost(c) \/ QuotaUsedUp(c) \/ RateLimitHit(c)
    \/ Refused(c) \/ TooLarge(c) \/ BadAnswer(c) \/ Embedded(c) \/ ReturnVectors(c)

BudgetNext == (\E c \in Calls : BeginEmbed(c) \/ EmbedStep(c)) \/ BudgetTick

BudgetSpec == BudgetInit /\ [][BudgetNext]_budgetVars
-----------------------------------------------------------------------------
(* The budget is checked before a request and charged after it, and a lost *)
(* answer is not charged at all.  On no day does the server get more       *)
(* requests than the limit, one for each other call that was under way,    *)
(* and those whose answer was lost; requests that straddle midnight        *)
(* included (DailyRequestBudget: "so an exhausted quota fails fast         *)
(* locally").                                                              *)
DailyQuotaHolds == DailyLimit > 0 => seen <= DailyLimit + Cardinality(Calls) - 1 + lost

(* Once the quota is known to be used up, no call sends a second request   *)
(* before the reset: at most the other calls that had passed their check   *)
(* send one each, also when they are between two retries or two halves of  *)
(* a batch (_post: "a daily-quota 429 ... is never retried").              *)
ExhaustionIsHeeded == late <= Cardinality(Calls) - 1

(* What both rest on: the requests of today the server has seen were       *)
(* charged, were lost or are awaited; what was charged and what is past    *)
(* its check stay within the limit and the other calls; and calls past     *)
(* their check when the budget became exhausted send one request each.     *)
UsedToday == IF budget.over THEN 0 ELSE budget.used

At(places) == {c \in Calls : embed[c].pc \in places}

SeenIsAccounted == seen <= UsedToday + Cardinality(At({"await"})) + lost

ChargesFit ==
    DailyLimit > 0 =>
        UsedToday + Cardinality(At({"send", "await"})) <= DailyLimit + Cardinality(Calls) - 1

LateAreCounted ==
    IF budget.exhausted > 0 THEN late + Cardinality(At({"send"})) <= Cardinality(Calls) - 1 ELSE late = 0

(* However batches were split, each input gets its own vector, in the      *)
(* order of the inputs; only one that was refused on its own gets the      *)
(* placeholder's (_embed_many: "so one bad chunk can't fail the whole      *)
(* batch").                                                                *)
VectorsMatchInputs ==
    \A c \in Calls : embed[c].pc = "done" =>
        embed[c].out = [i \in Inputs(c) |-> IF i \in embed[c].alone THEN Placeholder ELSE i]

(* A call ends: retries and splits are finite in number. *)
CallsEnd == \A c \in Calls : embed[c].pc = "check" ~> embed[c].pc = "idle"
=============================================================================
