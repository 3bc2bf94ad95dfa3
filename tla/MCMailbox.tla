----------------------------- MODULE MCMailbox -----------------------------
(***************************************************************************)
(* An instance of Mailbox for TLC: a newsletter delivered twice, with an   *)
(* ebook in between.  The settings pair every value of each option with    *)
(* every value of every other.                                             *)
(***************************************************************************)
EXTENDS Mailbox

MCUrlOf == [u \in Uid |-> IF u = 2 THEN "book" ELSE "letter"]

Setting(p, unseen, structureless, outside) ==
  [policy |-> p, unseenOnly |-> unseen, opaque |-> structureless, aged |-> outside]

MCSettings ==
  {Setting("seen", FALSE, Book, {1}), Setting("seen", TRUE, {}, {}),
   Setting("move", FALSE, {}, {1}), Setting("move", TRUE, Book, {}),
   Setting("none", FALSE, Book, {}), Setting("none", TRUE, {}, {1})}
=============================================================================
