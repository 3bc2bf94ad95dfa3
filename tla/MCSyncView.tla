---------------------------- MODULE MCSyncView ----------------------------
(***************************************************************************)
(* An instance of SyncView for TLC: a feed that is switched on and off, or *)
(* replaced under its name by a followed publication that also comes and   *)
(* goes under a name of its own.                                           *)
(***************************************************************************)
EXTENDS SyncView

MCFollow == [n \in Name |-> IF n = "pub" THEN "pub.example" ELSE NoUrl]
MCEdits ==
  {[op |-> "add", name |-> "rss", url |-> "pub.example"],
   [op |-> "remove", name |-> "rss"],
   [op |-> "disable", name |-> "rss"],
   [op |-> "import"], [op |-> "opml"]}
MCInitially == {[n \in Name |-> IF n = "rss" THEN Fresh("rss.example") ELSE Absent]}
=============================================================================
