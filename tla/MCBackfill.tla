---------------------------- MODULE MCBackfill ----------------------------
(***************************************************************************)
(* An instance of Backfill for TLC: two full pages and a bit, one row the  *)
(* source cannot use, one post behind a paywall, one the ledger knows by   *)
(* another URL, and a saved list on which an old post was saved late.      *)
(***************************************************************************)
EXTENDS Backfill

MCSavedDate == [p \in Post |-> CASE p = 2 -> 5 [] p = 4 -> 1 [] OTHER -> p]
=============================================================================
