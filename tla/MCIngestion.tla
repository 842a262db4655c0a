---------------------------- MODULE MCIngestion ----------------------------
(* Model-checking instances of one repository's indexing.                  *)
EXTENDS Ingestion

CONSTANTS v1, v2

(* v1 splits into one chunk and v2 into two, so a run's items do not line  *)
(* up with its batches.                                                    *)
OneAndTwoChunks == [v \in Versions |-> IF v = v1 THEN 1 ELSE 2]

(* v1 has no function and hence no chunk; two files of v2 exceed a budget  *)
(* of two chunks.                                                          *)
ZeroAndTwoChunks == [v \in Versions |-> IF v = v1 THEN 0 ELSE 2]
=============================================================================
