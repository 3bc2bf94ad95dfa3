----------------------------- MODULE MCPipeline -----------------------------
(***************************************************************************)
(* Instances of Pipeline for TLC.  A newsletter arrives by mail under a    *)
(* mid: URL and is filed under its web permalink; a feed lists the same    *)
(* permalink, with a tracking parameter; a book delivered by mail is       *)
(* skipped.                                                                *)
(***************************************************************************)
EXTENDS Pipeline, TLC

AnyWorker == Permutations(Worker)

MCUrl == {"mid", "web", "utm", "book"}
MCBase == {"M", "W", "B"}
MCDedupKey == [u \in MCUrl |-> CASE u = "mid" -> "M" [] u = "book" -> "B" [] OTHER -> "W"]

MCSub == {"mail", "rss"}
MCOrder == <<"mail", "rss">>
MailOnly == <<"mail">>
ToReadwise == [s \in Sub |-> "readwise"]
MCFeed == [s \in Sub |-> IF s = "mail" THEN {"mid", "book"} ELSE {"utm"}]
SameForm == [s \in Sub |-> IF s = "mail" THEN {"mid"} ELSE {"web"}]
OneMail == [s \in Sub |-> {"mid"}]
MCArchive == [s \in Sub |-> IF s = "mail" THEN {"mid"} ELSE {}]
MCPolicy == [s \in Sub |-> IF s = "mail" THEN "move" ELSE "none"]
MCIdentity ==
  [s \in Sub \cup {"none"} |->
     [u \in MCUrl |-> IF s = "mail" /\ u = "mid" THEN "web" ELSE u]]
\* A newsletter without a permalink.
NoPermalink == [s \in Sub \cup {"none"} |-> [u \in MCUrl |-> u]]
MCOneRef == [u \in MCUrl |-> u]

\* Shiori takes public web URLs only.
MCRefused == {<<"shiori", "mid">>, <<"shiori", "book">>}

MailToShiori == {<<"mail", "shiori">>}
RssToShiori == {<<"rss", "shiori">>}

Fresh == {[b \in MCBase |-> "none"]}
Inherited == {[b \in MCBase |-> IF b = "W" THEN k ELSE "none"] : k \in LegacyKind}
=============================================================================
