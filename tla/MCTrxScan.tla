----------------------------- MODULE MCTrxScan ------------------------------
(***************************************************************************)
(* TrxScan for TLC.  The constants come from the cfgs.                     *)
(***************************************************************************)
EXTENDS TrxScan

=============================================================================
