------------------------------- MODULE MCSink -------------------------------
(***************************************************************************)
(* An instance of Sink for TLC.  The header values lie on both sides of    *)
(* Interval, MinCooldown and MaxWait.                                      *)
(***************************************************************************)
EXTENDS Sink
=============================================================================
