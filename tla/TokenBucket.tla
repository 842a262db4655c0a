---------------------------- MODULE TokenBucket -----------------------------
(***************************************************************************)
(* What a rate limiter promises its callers: one bucket per key, for ever. *)
(* A bucket holds at most Burst tokens and gains one every Cost ticks; a   *)
(* request passes when there is a whole token, and takes it.               *)
(***************************************************************************)
EXTENDS Integers

CONSTANTS Keys, Burst, Cost, NoVerdict

VARIABLES
    credit,    \* ticks of credit of each key; a token is worth Cost of them
    verdict    \* the last decision: the key and whether the request passed

FullCredit == Burst * Cost

TBInit == /\ credit = [k \in Keys |-> FullCredit]
          /\ verdict = NoVerdict

TBTick == /\ credit' = [k \in Keys |-> IF credit[k] < FullCredit THEN credit[k] + 1 ELSE FullCredit]
          /\ UNCHANGED verdict

TBPass(k) == /\ credit[k] >= Cost
             /\ credit' = [credit EXCEPT ![k] = @ - Cost]
             /\ verdict' = [key |-> k, passed |-> TRUE]

TBRefuse(k) == /\ credit[k] < Cost
               /\ verdict' = [key |-> k, passed |-> FALSE]
               /\ UNCHANGED credit

TBNext == TBTick \/ \E k \in Keys : TBPass(k) \/ TBRefuse(k)

TBSpec == TBInit /\ [][TBNext]_<<credit, verdict>>
=============================================================================
