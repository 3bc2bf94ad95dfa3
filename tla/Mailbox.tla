------------------------------ MODULE Mailbox ------------------------------
(***************************************************************************)
(* One mailbox subscription: an IMAP folder that its owner and other       *)
(* clients use too, and the runs of EmailSource (sources/email.py) over    *)
(* ImapSession (util/imap.py) that read it, file its messages and apply    *)
(* the mark_read policy afterwards.                                        *)
(*                                                                         *)
(* A run is a sync, which lists and registers every message of the window  *)
(* first and then takes them oldest first, or a backfill, which walks the  *)
(* whole folder newest first and registers each message as it comes to it. *)
(* Its connection is opened once and, once lost, every later call of the   *)
(* run fails.                                                              *)
(*                                                                         *)
(* Building, pushing and recording an item is one step here (Pipeline has  *)
(* its parts); acknowledging it is another.                                *)
(***************************************************************************)
EXTENDS Integers, FiniteSets

CONSTANTS
  LastUid,     \* messages are 1 .. LastUid, in the order they arrive
  Initially,   \* how many of them have arrived at the start
  Url,         \* mid: URLs
  UrlOf,       \* the URL made of a message's Message-ID; copies share it
  Linked,      \* mid: URLs whose messages carry a web permalink
  Book,        \* ebook deliveries
  TextOnly,    \* messages without an HTML body
  Settings,    \* bound: the options and circumstances that are tried
  Discardable, \* messages another client may mark for deletion (a bound)
  PageSize     \* _BACKFILL_PAGE_SIZE

Uid == 1..LastUid
NoUid == 0

ASSUME MailboxAssumption ==
  /\ LastUid \in Nat /\ Initially \in 0..LastUid
  /\ UrlOf \in [Uid -> Url]
  /\ Linked \subseteq Url
  /\ Book \subseteq Uid /\ TextOnly \subseteq Uid
  /\ Settings \subseteq [policy : {"none", "seen", "move"}, unseenOnly : BOOLEAN,
                          opaque : SUBSET Uid, aged : SUBSET Uid]
  /\ Discardable \subseteq Uid
  /\ \A u, v \in Uid : UrlOf[u] = UrlOf[v] =>
        (u \in Book <=> v \in Book) /\ (u \in TextOnly <=> v \in TextOnly)
  /\ PageSize \in Nat \ {0}

VARIABLES
  policy,      \* option mark_read
  unseenOnly,  \* option unseen_only
  opaque,      \* messages whose BODYSTRUCTURE cannot be parsed
  aged,        \* messages too old for the window of a sync
  arrived,     \* messages 1 .. arrived have arrived
  folder,      \* those the folder holds
  seen,        \* those with the \Seen flag
  condemned,   \* those another client gave the \Deleted flag
  filed,       \* mid: URLs the ledger has a row for
  twinned,     \* mid: URLs whose web permalink it has a row for
  mode,        \* "idle", "sync", "backfill"
  up,          \* the run's connection is alive
  todo,        \* messages whose refs are still to be taken
  page,        \* backfill: messages with a summary, not yet taken
  byUrl,       \* _by_url: the message registered last under each URL
  wasSeen,     \* messages whose summary says seen
  acting,      \* the ref in hand and what is next: "none", "item", "ack"
  settled,     \* _seen_done or _moved, whichever the policy uses
  touched      \* history: messages pulpwise marked or moved

options == <<policy, unseenOnly, opaque, aged>>
mailbox == <<arrived, folder, seen, condemned>>
ledger == <<filed, twinned>>
run == <<mode, up, todo, page, byUrl, wasSeen, acting, settled>>
vars == <<options, mailbox, ledger, run, touched>>

TypeOK ==
  /\ policy \in {"none", "seen", "move"} /\ unseenOnly \in BOOLEAN
  /\ opaque \subseteq Uid /\ aged \subseteq Uid
  /\ arrived \in 0..LastUid
  /\ folder \subseteq 1..arrived
  /\ seen \subseteq Uid /\ condemned \subseteq folder
  /\ filed \subseteq Url /\ twinned \subseteq Linked
  /\ mode \in {"idle", "sync", "backfill"} /\ up \in BOOLEAN
  /\ todo \subseteq 1..arrived /\ page \subseteq todo
  /\ byUrl \in [Url -> Uid \cup {NoUid}]
  /\ \A m \in Url : byUrl[m] # NoUid => UrlOf[byUrl[m]] = m
  /\ wasSeen \subseteq Uid /\ settled \subseteq Uid
  /\ acting \in [uid : Uid \cup {NoUid}, step : {"none", "item", "ack"}]
  /\ acting.step # "none" =>
        mode # "idle" /\ acting.uid # NoUid /\ byUrl[UrlOf[acting.uid]] # NoUid
  /\ touched \subseteq Uid

-----------------------------------------------------------------------------
(* Listing and registering.                                                *)

Nothing == [uid |-> NoUid, step |-> "none"]

\* _register_summary passes over what it can tell to be an ebook delivery.
Registers(u) == u \notin Book \/ u \in opaque

\* The SEARCH of a sync.
InView(u) == u \in folder /\ u \notin aged /\ (unseenOnly => u \notin seen)

\* What _by_url is once all of S are registered, oldest first.
Latest(S) ==
  {f \in [Url -> Uid \cup {NoUid}] :
     \A m \in Url :
       LET copies == {u \in S : UrlOf[u] = m} IN
       IF copies = {} THEN f[m] = NoUid
       ELSE f[m] \in copies /\ \A v \in copies : v <= f[m]}

StartSync ==
  /\ mode = "idle"
  /\ mode' = "sync" /\ up' = TRUE
  /\ todo' = {u \in Uid : InView(u) /\ Registers(u)}
  /\ byUrl' \in Latest(todo')
  /\ wasSeen' = todo' \cap seen
  /\ page' = {} /\ acting' = Nothing /\ settled' = {}
  /\ UNCHANGED <<options, mailbox, ledger, touched>>

StartBackfill ==
  /\ mode = "idle"
  /\ mode' = "backfill" /\ up' = TRUE
  /\ todo' = folder
  /\ byUrl' = [m \in Url |-> NoUid]
  /\ wasSeen' = {} /\ page' = {} /\ acting' = Nothing /\ settled' = {}
  /\ UNCHANGED <<options, mailbox, ledger, touched>>

Ready == mode # "idle" /\ acting = Nothing

\* The newest PageSize of the walk's UIDs; those no longer in the folder have
\* no summary and are passed over.
NextPage == {u \in todo : Cardinality({v \in todo : u < v}) < PageSize}

ReadPage ==
  /\ mode = "backfill" /\ Ready /\ up
  /\ page = {} /\ todo # {}
  /\ page' = NextPage \cap folder
  /\ todo' = todo \ (NextPage \ folder)
  /\ wasSeen' = wasSeen \cup (page' \cap seen)
  /\ UNCHANGED <<options, mailbox, ledger, mode, up, byUrl, acting, settled, touched>>

TakeFromSync(u) ==
  /\ mode = "sync" /\ Ready
  /\ u \in todo /\ \A v \in todo : u <= v
  /\ todo' = todo \ {u}
  /\ acting' = [uid |-> u, step |-> "item"]
  /\ UNCHANGED <<options, mailbox, ledger, mode, up, page, byUrl, wasSeen, settled, touched>>

\* Mutant of TakeFromPage: an ebook is taken although it was not registered.
TakeFromPageAnyway(u) ==
  /\ mode = "backfill" /\ Ready
  /\ u \in page /\ \A v \in page : v <= u
  /\ todo' = todo \ {u} /\ page' = page \ {u}
  /\ byUrl' = IF Registers(u) THEN [byUrl EXCEPT ![UrlOf[u]] = u] ELSE byUrl
  /\ acting' = [uid |-> u, step |-> "item"]
  /\ UNCHANGED <<options, mailbox, ledger, mode, up, wasSeen, settled, touched>>

TakeFromPage(u) ==
  /\ mode = "backfill" /\ Ready
  /\ u \in page /\ \A v \in page : v <= u
  /\ todo' = todo \ {u} /\ page' = page \ {u}
  /\ IF Registers(u)
     THEN byUrl' = [byUrl EXCEPT ![UrlOf[u]] = u] /\ acting' = [uid |-> u, step |-> "item"]
     ELSE UNCHANGED <<byUrl, acting>>
  /\ UNCHANGED <<options, mailbox, ledger, mode, up, wasSeen, settled, touched>>

-----------------------------------------------------------------------------
(* The item in hand.                                                       *)

url == UrlOf[acting.uid]

\* The message fetch() and ack() work on: not always the one listed.
target == byUrl[url]

AtItem == acting.step = "item"
ToAck == acting' = [acting EXCEPT !.step = "ack"]
Leaves == acting' = Nothing
ItemOnly ==
  UNCHANGED <<options, mailbox, twinned, mode, up, todo, page, byUrl, wasSeen, settled, touched>>

\* Mutant of SkipFiled: a ref the ledger knows is not acknowledged.
SkipFiledUnacked == AtItem /\ url \in filed /\ Leaves /\ UNCHANGED filed /\ ItemOnly

SkipFiled == AtItem /\ url \in filed /\ ToAck /\ UNCHANGED filed /\ ItemOnly

Fetched == AtItem /\ url \notin filed /\ up /\ target \in folder

\* ItemSkipped: an ebook that shows only once the whole message is here.
SkipBook == Fetched /\ target \in Book /\ ToAck /\ UNCHANGED filed /\ ItemOnly

\* _already_ingested_as: a feed has brought the article the message links to.
\* The message gets no row of its own, and is acknowledged.
SkipTwin ==
  /\ Fetched /\ target \notin Book \cup TextOnly /\ url \in twinned
  /\ ToAck /\ UNCHANGED filed /\ ItemOnly

\* The row is recorded under the mid: URL, whatever URL was submitted.
Files ==
  /\ Fetched /\ target \notin Book \cup TextOnly /\ url \notin twinned
  /\ filed' = filed \cup {url}
  /\ ToAck /\ ItemOnly

\* Mutant of ItemFails: the failed item is acknowledged.
ItemFailsAcked == AtItem /\ url \notin filed /\ ToAck /\ UNCHANGED filed /\ ItemOnly

\* The connection is gone, the message has disappeared or has no HTML, or the
\* push fails.
ItemFails == AtItem /\ url \notin filed /\ Leaves /\ UNCHANGED filed /\ ItemOnly

AtAck == acting.step = "ack"

AckDone ==
  Leaves /\ UNCHANGED <<options, arrived, ledger, mode, up, todo, page, byUrl, wasSeen>>

\* Does the policy ask for a call to the server?
Asks ==
  \/ policy = "seen" /\ target \notin settled \cup wasSeen
  \/ policy = "move" /\ target \notin settled

\* The policy asks for nothing, or nothing more.
AckNothing ==
  /\ AtAck /\ ~Asks
  /\ AckDone
  /\ UNCHANGED <<folder, seen, condemned, settled, touched>>

\* The connection is gone, the server refuses the STORE or the MOVE, or has no
\* MOVE: _ack_item swallows it, and nothing is settled.
AckRefused ==
  /\ AtAck /\ Asks
  /\ AckDone
  /\ UNCHANGED <<folder, seen, condemned, settled, touched>>

\* Mutant of MarkSeen: imap-tools' flag(), which expunges the folder.
MarkSeenByFlag ==
  /\ AtAck /\ policy = "seen" /\ up /\ Asks
  /\ seen' = seen \cup {target}
  /\ touched' = touched \cup {target}
  /\ settled' = settled \cup {target}
  /\ folder' = folder \ condemned /\ condemned' = {}
  /\ AckDone

\* A STORE or MOVE of a UID that has gone does nothing and succeeds.
MarkSeen ==
  /\ AtAck /\ policy = "seen" /\ up /\ Asks
  /\ seen' = seen \cup (folder \cap {target})
  /\ touched' = touched \cup (folder \cap {target})
  /\ settled' = settled \cup {target}
  /\ AckDone
  /\ UNCHANGED <<folder, condemned>>

Move ==
  /\ AtAck /\ policy = "move" /\ up /\ Asks
  /\ folder' = folder \ {target} /\ condemned' = condemned \ {target}
  /\ touched' = touched \cup (folder \cap {target})
  /\ settled' = settled \cup {target}
  /\ AckDone
  /\ UNCHANGED seen

-----------------------------------------------------------------------------
(* The end of a run.                                                       *)

Over ==
  /\ mode' = "idle" /\ up' = FALSE
  /\ todo' = {} /\ page' = {} /\ wasSeen' = {} /\ settled' = {}
  /\ byUrl' = [m \in Url |-> NoUid]
  /\ acting' = Nothing
  /\ UNCHANGED <<options, mailbox, ledger, touched>>

\* A walk that has to read a page over a dead connection fails.
Finished == Ready /\ (todo = {} \/ (mode = "backfill" /\ page = {} /\ ~up))

Finish == Finished /\ Over

\* A crash, an AuthError or a rate limit, between any two steps.
Aborts == mode # "idle" /\ ~Finished /\ Over

Drops ==
  /\ up /\ up' = FALSE
  /\ UNCHANGED <<options, mailbox, ledger, mode, todo, page, byUrl, wasSeen, acting, settled, touched>>

-----------------------------------------------------------------------------
(* The mailbox's owner and its other clients.                              *)

Others == UNCHANGED <<options, ledger, run, touched>>

Arrives ==
  /\ arrived < LastUid
  /\ arrived' = arrived + 1
  /\ folder' = folder \cup {arrived'}
  /\ Others /\ UNCHANGED <<seen, condemned>>

OwnerReads(u) ==
  /\ u \in folder \ seen
  /\ seen' = seen \cup {u}
  /\ Others /\ UNCHANGED <<arrived, folder, condemned>>

OtherClientCondemns(u) ==
  /\ u \in (folder \cap Discardable) \ condemned
  /\ condemned' = condemned \cup {u}
  /\ Others /\ UNCHANGED <<arrived, folder, seen>>

OwnerExpunges ==
  /\ condemned # {}
  /\ folder' = folder \ condemned /\ condemned' = {}
  /\ Others /\ UNCHANGED <<arrived, seen>>

-----------------------------------------------------------------------------

\* Another subscription files the web version of a message.
FiledElsewhere(m) ==
  /\ twinned' = twinned \cup {m}
  /\ UNCHANGED <<options, mailbox, filed, run, touched>>

Init ==
  /\ \E s \in Settings :
       /\ policy = s.policy /\ unseenOnly = s.unseenOnly
       /\ opaque = s.opaque /\ aged = s.aged
  /\ arrived = Initially /\ folder = 1..Initially
  /\ seen = {} /\ condemned = {}
  /\ filed = {} /\ twinned = {}
  /\ mode = "idle" /\ up = FALSE
  /\ todo = {} /\ page = {} /\ wasSeen = {} /\ settled = {}
  /\ byUrl = [m \in Url |-> NoUid]
  /\ acting = Nothing
  /\ touched = {}

Take == \E u \in Uid : TakeFromSync(u) \/ TakeFromPage(u)

Step ==
  \/ ReadPage \/ Take
  \/ SkipFiled \/ SkipBook \/ SkipTwin \/ Files \/ ItemFails
  \/ AckNothing \/ AckRefused \/ MarkSeen \/ Move
  \/ Finish

Owner ==
  \/ Arrives \/ OwnerExpunges
  \/ \E u \in Uid : OwnerReads(u) \/ OtherClientCondemns(u)

Elsewhere == \E m \in Linked \ twinned : FiledElsewhere(m)

Next == StartSync \/ StartBackfill \/ Step \/ Aborts \/ Drops \/ Owner \/ Elsewhere

Spec == Init /\ [][Next]_vars

\* A fetch or push that fails though the message is there and can be filed, or a
\* server that will not mark or move what it holds.
Fault ==
  Drops \/ Aborts \/ (ItemFails /\ Fetched /\ target \notin TextOnly) \/ (AckRefused /\ up)

\* Runs go on until they end, cron keeps starting syncs, and outages and refusals
\* end.
FairSpec ==
  Spec /\ WF_vars(Step) /\ SF_vars(StartSync) /\ <>[][~Fault]_vars

-----------------------------------------------------------------------------
(* Properties.                                                             *)

\* pulpwise marks or moves a message only once the ledger accounts for it, by a
\* row for the message or for the web version it links to: also when copies share
\* a URL, messages come and go during the run, the run dies or an item fails.
\* Ebooks whose structure could not be told are the exception fetch() makes;
\* other ebooks are never touched.
TouchedIsAccounted ==
  \A u \in touched : UrlOf[u] \in filed \cup twinned \/ u \in Book \cap opaque

\* mark_seen and move say why they avoid imap-tools' own calls: those expunge
\* what "other clients are holding in this folder".  A message leaves the
\* folder by its owner's hand, or because this very message was moved.
OnlyOwnersExpunge ==
  [][\A u \in folder \ folder' : OwnerExpunges \/ (Move /\ u = target)]_vars

\* What mark_read promises of a message.  Under "seen" a sync acknowledges one
\* copy of a message and not the older ones.
Marked(u) ==
  CASE policy = "none" -> TRUE
    [] policy = "move" -> FALSE
    [] OTHER -> u \in seen \/ \E v \in folder : u < v /\ UrlOf[v] = UrlOf[u]

Handled(u) == UrlOf[u] \in filed \cup twinned \cup {UrlOf[b] : b \in Book} /\ Marked(u)

\* A message that stays in the view of a sync is filed and its mailbox told in
\* the end, through lost connections, crashes and failures.
EventuallyHandled ==
  \A u \in Uid \ TextOnly :
    InView(u) /\ Registers(u) ~> Handled(u) \/ ~InView(u)
=============================================================================
