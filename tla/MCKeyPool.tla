------------------------------ MODULE MCKeyPool -------------------------------
(***************************************************************************)
(* KeyPool for TLC.  The constants come from the cfg.                      *)
(***************************************************************************)
EXTENDS KeyPool

=============================================================================
