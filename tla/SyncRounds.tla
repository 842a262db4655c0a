----------------------------- MODULE SyncRounds -----------------------------
(***************************************************************************)
(* How many syncs a repository needs: the runs of Ingestion, counted since *)
(* a push, a change of the sidecar's model or a fault last disturbed them. *)
(* A repository that was not recorded starts over.  With the embedding     *)
(* budget (MaxEmbedChunks) a run may leave files for the next one; that no *)
(* run is in vain is the safety side of Converges.                         *)
(***************************************************************************)
EXTENDS Ingestion

VARIABLE rounds    \* history: the runs begun since then, up to MaxRounds

roundVars == <<vars, rounds>>

MaxRounds == FileCount + 2    \* bound: one round more than too many

Disturbed == remote' # remote \/ model' # model \/ faults' # faults

Begins == run.pc = "idle" /\ run'.pc # "idle"

Counted ==
    rounds' = IF Disturbed THEN 0
              ELSE IF Begins /\ ~recorded THEN 1
              ELSE IF Begins /\ rounds < MaxRounds THEN rounds + 1 ELSE rounds

RoundsInit == Init /\ rounds = 0
RoundsSpec == RoundsInit /\ [][Next /\ Counted]_roundVars
-----------------------------------------------------------------------------
(* One run can get through any file of the remote's head: there is a       *)
(* grammar for it, and its chunks fit into the budget.                     *)
Affordable ==
    \A f \in Walked(remote.tree) :
        /\ f \notin Unsupported
        /\ MaxEmbedChunks > 0 => ChunkCount[remote.tree[f]] <= MaxEmbedChunks

(* No run is in vain: left undisturbed, each one after the first embeds at *)
(* least one file that the one before had left over, so as many runs as    *)
(* there are files bring the index up to date, and no further one is       *)
(* started.  This is the bound behind config.go:65, "picked up by the next *)
(* sync, so a large repo converges over runs"; Affordable is needed, since *)
(* a file with more chunks than the budget is never through; no number of  *)
(* runs is enough for a clone that a crash broke.                          *)
SyncsAreFew ==
    Affordable /\ git # "broken" =>
        /\ rounds <= 1 \/ rounds <= FileCount
        /\ run.pc = "idle" /\ recorded /\ rounds > 0 /\ rounds >= FileCount => UpToDate(TRUE)
=============================================================================
