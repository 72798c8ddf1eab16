--------------------------- MODULE MCWatchStores ----------------------------
(***************************************************************************)
(* WatchStores for TLC.  The constants come from the cfg.                  *)
(***************************************************************************)
EXTENDS WatchStores

=============================================================================
