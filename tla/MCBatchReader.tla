---------------------------- MODULE MCBatchReader -----------------------------
(* Small instances of BatchReader for TLC.                                 *)
EXTENDS BatchReader

MCRowsIn == <<3, 0, 1>>
===============================================================================
