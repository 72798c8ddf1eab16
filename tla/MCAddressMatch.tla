---------------------------- MODULE MCAddressMatch ----------------------------
(***************************************************************************)
(* AddressMatch for TLC.  The constants come from the cfg.                 *)
(***************************************************************************)
EXTENDS AddressMatch

=============================================================================
