---------------------------- MODULE MCJobControl ----------------------------
(* Model-checking instance of the control plane: request slots, workers and *)
(* repository IDs are interchangeable.                                      *)
EXTENDS JobControl, TLC

Symmetry == Permutations(Requests) \union Permutations(Workers) \union Permutations(Ids)

(* No step depends on the stage shown, on what was indexed or damaged, or   *)
(* on who is unrecorded: states that differ in these alone are one, where   *)
(* no property speaks of them.                                              *)
WithoutIndex == <<poolVars, status, url, repo, clone, hpc, req, server, orphaned>>
=============================================================================
