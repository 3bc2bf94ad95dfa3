------------------------------ MODULE Delivery ------------------------------
(***************************************************************************)
(* What the pipeline promises for one article, whatever the workers,       *)
(* crashes and lost answers in between: it reaches a provider before the   *)
(* ledger owns it, the ledger owns it before its mailbox is told, and an   *)
(* article the user deleted comes back only because the user asked.        *)
(***************************************************************************)
CONSTANTS
  Base,       \* articles, as the ledger tells them apart
  Item,       \* <<subscription, url>> pairs a mailbox can be told about
  BasesOf,    \* item -> the articles it may be filed as
  Exempt      \* items that are not content and never filed

VARIABLES
  ledger,     \* article -> "unknown", "owned" or "forgotten"
  reached,    \* articles a provider has accepted at some time
  asked,      \* articles the user is adding by hand
  settled     \* items their mailbox was told about

vars == <<ledger, reached, asked, settled>>

\* Articles an earlier tool had filed are in the ledger from the start.
Init ==
  /\ ledger \in [Base -> {"unknown", "owned", "forgotten"}]
  /\ reached = {} /\ asked = {} /\ settled = {}

Ask(b) == asked' = asked \cup {b} /\ UNCHANGED <<ledger, reached, settled>>

Withdraw(b) == asked' = asked \ {b} /\ UNCHANGED <<ledger, reached, settled>>

\* The answer may be lost, and with it the user's request.
Reach(b) ==
  /\ reached' = reached \cup {b}
  /\ asked' \in {asked, asked \ {b}}
  /\ UNCHANGED <<ledger, settled>>

Own(b) ==
  /\ b \in reached /\ ledger[b] = "unknown"
  /\ ledger' = [ledger EXCEPT ![b] = "owned"]
  /\ asked' = asked \ {b}
  /\ UNCHANGED <<reached, settled>>

Revive(b) ==
  /\ b \in reached /\ b \in asked
  /\ ledger' = [ledger EXCEPT ![b] = "owned"]
  /\ asked' = asked \ {b}
  /\ UNCHANGED <<reached, settled>>

Forget(b) ==
  /\ ledger[b] = "owned"
  /\ ledger' = [ledger EXCEPT ![b] = "forgotten"]
  /\ UNCHANGED <<reached, asked, settled>>

Settle(i) ==
  /\ i \in Exempt \/ \E b \in BasesOf[i] : ledger[b] # "unknown"
  /\ settled' = settled \cup {i}
  /\ UNCHANGED <<ledger, reached, asked>>

Next ==
  \/ \E b \in Base : Ask(b) \/ Withdraw(b) \/ Reach(b) \/ Own(b) \/ Revive(b) \/ Forget(b)
  \/ \E i \in Item : Settle(i)

Spec == Init /\ [][Next]_vars
=============================================================================
