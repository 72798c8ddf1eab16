-------------------------- MODULE MCBlockRangeJobs --------------------------
(***************************************************************************)
(* BlockRangeJobs for TLC.  The constants come from the cfgs.              *)
(***************************************************************************)
EXTENDS BlockRangeJobs

=============================================================================
