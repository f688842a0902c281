---------------------------- MODULE MCGdbSession ----------------------------
(***************************************************************************)
(* Instances of GdbSession for TLC: one breakpoint, so that a late answer  *)
(* about it can be mistaken for another command's, and enough commands to  *)
(* run, stop, resume and interrupt the inferior around it.                 *)
(***************************************************************************)
EXTENDS GdbSession

CONSTANTS b1
=============================================================================
