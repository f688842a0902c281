------------------------- MODULE MCServiceShutdown -------------------------
(***************************************************************************)
(* A server with two tasks that is told to stop at any moment; one of them *)
(* generates code and may leave a retry to the server's loop.              *)
(***************************************************************************)
EXTENDS ServiceShutdown, TLC

CONSTANTS t1, t2
=============================================================================
