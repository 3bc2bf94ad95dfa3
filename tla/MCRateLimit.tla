---------------------------- MODULE MCRateLimit ----------------------------
(***************************************************************************)
(* Instances of RateLimit for TLC: two threads and one bucket, the scope   *)
(* "substack".  The clock's unit is the pacing interval; the other times   *)
(* keep the order they have in the code.                                   *)
(***************************************************************************)
EXTENDS RateLimit

\* At once, a sleep longer than the floor, a wait too long to sit out.
MCHeader == {0, 3, 6}
=============================================================================
