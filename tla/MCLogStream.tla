----------------------------- MODULE MCLogStream -----------------------------
(***************************************************************************)
(* Instances of LogStream for TLC: buffers of two lines and five events,   *)
(* enough for the staging area and the queue to overflow at once while a   *)
(* snapshot is being sent, and for the log to be pruned behind a client.   *)
(***************************************************************************)
EXTENDS LogStream

CONSTANTS f1, f2
=============================================================================
