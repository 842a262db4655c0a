---------------------------- MODULE MCSyncRounds ----------------------------
(* Model-checking instance of the syncs of one repository.                 *)
EXTENDS MCIngestion, SyncRounds
=============================================================================
