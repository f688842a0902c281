------------------------ MODULE MCVulnerabilityScan ------------------------
(***************************************************************************)
(* An instance of VulnerabilityScan for TLC: two incremental scans of a    *)
(* project, so that a tree is replaced while another scan waits, and one   *)
(* that is not incremental.                                                *)
(***************************************************************************)
EXTENDS VulnerabilityScan

CONSTANTS t1, t2, t3
=============================================================================
