----------------------------- MODULE MCServing ------------------------------
(***************************************************************************)
(* Model-checking instance of the three components that ration what many   *)
(* users ask for at once: the API's rate limiter, the sidecar's LLM router *)
(* and its embedding budget.  They share no state and no step, so each is  *)
(* checked on its own: `moving' picks one at the start and the others stay *)
(* where they begin.                                                       *)
(***************************************************************************)
EXTENDS KeyLimiter, LLMRouter, EmbedBudget

CONSTANTS c1, c2    \* the calls of the embedding provider

VARIABLE moving

ServedInputs == [c \in Calls |-> IF c = c1 THEN 1 ELSE 4]

servingVars == <<limiterVars, routerVars, budgetVars, moving>>

ServingInit ==
    /\ LimiterInit /\ RouterInit /\ BudgetInit
    /\ moving \in {"limiter", "router", "budget"}
    /\ \A r \in Requests : slot[r].key = CHOOSE k \in Keys : TRUE    \* not read before it is set

Only(part) == moving = part /\ UNCHANGED moving

ServingNext ==
    \/ Only("limiter") /\ LimiterNext /\ UNCHANGED <<routerVars, budgetVars>>
    \/ Only("router")  /\ RouterNext  /\ UNCHANGED <<limiterVars, budgetVars>>
    \/ Only("budget")  /\ BudgetNext  /\ UNCHANGED <<limiterVars, routerVars>>

(* A completion and an embedding call keep taking their own steps: asyncio *)
(* resumes every ready task, each request to a provider has a timeout, and *)
(* the waits of a retry end.                                               *)
ServingSpec ==
    /\ ServingInit /\ [][ServingNext]_servingVars
    /\ \A c \in Completions :
         WF_servingVars(Only("router") /\ CallStep(c) /\ UNCHANGED <<limiterVars, budgetVars>>)
    /\ \A c \in Calls :
         WF_servingVars(Only("budget") /\ EmbedStep(c) /\ UNCHANGED <<limiterVars, routerVars>>)

(* Every variable of the three components has a value of its kind. *)
ServingTypeOK == LimiterTypeOK /\ RouterTypeOK /\ BudgetTypeOK

(* Completions and embedding calls end: every retry, failover and split is *)
(* one of finitely many.                                                   *)
CallsFinish == CompletionsEnd /\ CallsEnd
=============================================================================
