---------------------------- MODULE MCBatchProcess ----------------------------
(***************************************************************************)
(* Instances of BatchProcess for TLC.  Two runs of the runner share        *)
(* nothing, so one command is enough for each question.                    *)
(***************************************************************************)
EXTENDS BatchProcess

CONSTANTS p1
===============================================================================
