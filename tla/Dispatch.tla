------------------------------ MODULE Dispatch ------------------------------
(***************************************************************************)
(* What callers of the worker pool rely on, without its channel, mutex or  *)
(* wait group: submissions are accepted while the service is open, each    *)
(* accepted submission is started once, in the order of acceptance, by one *)
(* handler that holds no other, and the service reports the end of its     *)
(* shutdown only when every accepted submission has been handled.          *)
(***************************************************************************)
EXTENDS Naturals, Sequences

CONSTANTS Jobs, Handlers

VARIABLES
    accepted,    \* the submissions accepted so far, in order
    begun,       \* how many of them have been started
    holds,       \* the submission each handler is working on, 0 for none
    handled,     \* the positions in accepted that have been handled
    open,        \* submissions are still accepted
    ended        \* the shutdown has been reported complete

dvars == <<accepted, begun, holds, handled, open, ended>>

Init ==
    /\ accepted = <<>>
    /\ begun = 0
    /\ holds = [h \in Handlers |-> 0]
    /\ handled = {}
    /\ open = TRUE
    /\ ended = FALSE

Accept(j) ==
    /\ open
    /\ accepted' = Append(accepted, j)
    /\ UNCHANGED <<begun, holds, handled, open, ended>>

Begin(h) ==
    /\ holds[h] = 0
    /\ begun < Len(accepted)
    /\ begun' = begun + 1
    /\ holds' = [holds EXCEPT ![h] = begun + 1]
    /\ UNCHANGED <<accepted, handled, open, ended>>

Handle(h) ==
    /\ holds[h] # 0
    /\ handled' = handled \union {holds[h]}
    /\ holds' = [holds EXCEPT ![h] = 0]
    /\ UNCHANGED <<accepted, begun, open, ended>>

Close ==
    /\ open
    /\ open' = FALSE
    /\ UNCHANGED <<accepted, begun, holds, handled, ended>>

End ==
    /\ ~open
    /\ ~ended
    /\ handled = 1..Len(accepted)
    /\ ended' = TRUE
    /\ UNCHANGED <<accepted, begun, holds, handled, open>>

Next ==
    \/ \E j \in Jobs : Accept(j)
    \/ \E h \in Handlers : Begin(h) \/ Handle(h)
    \/ Close
    \/ End

Spec == Init /\ [][Next]_dvars
=============================================================================
