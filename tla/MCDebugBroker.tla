---------------------------- MODULE MCDebugBroker ----------------------------
(***************************************************************************)
(* Instances of DebugBroker for TLC: three requests, so that one is being  *)
(* dispatched or popped while others are queued, one of each kind.  The    *)
(* wait for a stop has no time limit, as is the default; the others do.    *)
(***************************************************************************)
EXTENDS DebugBroker

CONSTANTS run, wait, close

KindOf == (run :> "command") @@ (wait :> "wait") @@ (close :> "close")
=============================================================================
