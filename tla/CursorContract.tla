--------------------------- MODULE CursorContract ---------------------------
(***************************************************************************)
(* What a forward-scan scope promises to the rest of tronvent, with every  *)
(* lease, batch and replica abstracted away.  The row of scanner_cursors   *)
(* holds one number, the cursor; everything at or below it will never be   *)
(* looked at again by the forward scan.  So the cursor may only move up,   *)
(* and only over blocks that have been dealt with.                         *)
(*                                                                         *)
(* A block is "accounted" when its matches are in the outbox, or a         *)
(* reconcile job covers it, or the code knowingly passed it over.          *)
(***************************************************************************)
EXTENDS Naturals

VARIABLES cursor,     \* scanner_cursors.highest_block
          accounted   \* the blocks that have been dealt with

contractVars == <<cursor, accounted>>

Init ==
  /\ cursor \in Nat
  /\ accounted \in SUBSET Nat
  /\ 1..cursor \subseteq accounted

\* Some blocks are dealt with; a block never stops being dealt with.
Account ==
  /\ accounted \subseteq accounted'
  /\ cursor' = cursor

\* The cursor moves up over blocks that were dealt with before this step or
\* are by it; it never moves down.
Advance ==
  /\ cursor' >= cursor
  /\ accounted \subseteq accounted'
  /\ 1..cursor' \subseteq accounted'

Next == Account \/ Advance

Spec == Init /\ [][Next]_contractVars

=============================================================================
