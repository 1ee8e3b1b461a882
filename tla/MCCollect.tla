------------------------------ MODULE MCCollect -------------------------------
(* A small instance of Collect for TLC.                                    *)
EXTENDS Collect

MCRowsIn == <<2, 0, 1>>
===============================================================================
