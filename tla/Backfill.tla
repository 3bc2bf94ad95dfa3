------------------------------ MODULE Backfill ------------------------------
(***************************************************************************)
(* One subscription's backfill: the two generators of sources/substack.py  *)
(* that page backwards through a feed which changes while they walk it,    *)
(* and the loop of pipeline.py that takes their rows, one at a time, until *)
(* a limit, a date, a rate limit or the end of the feed.                   *)
(*                                                                         *)
(* A post is its place in the order the feed is sorted by, newest highest: *)
(* publication order for an archive, the time of saving for the saved      *)
(* list.  An archive page is asked for by offset, a saved page by the save *)
(* time it must lie before.  Posts arrive and are taken off at any moment. *)
(*                                                                         *)
(* Pushing and recording a post is one step here; Pipeline has what can    *)
(* happen in between.                                                      *)
(***************************************************************************)
EXTENDS Integers, FiniteSets

CONSTANTS
  Newest,      \* the last post that may ever arrive; posts are 1 .. Newest
  Initially,   \* how many of them are listed at the start
  PageSize,    \* backfill_page_size
  Unusable,    \* rows without a usable canonical_url: never yielded
  Gated,       \* posts whose body stays empty: fetching them is Paywalled
  Twin,        \* posts the ledger has under the URL they are submitted by
  Undated,     \* posts without a publication date
  SavedDate,   \* publication date of each post of a saved list
  Limits,      \* values of max_new, 0 for none
  Floors,      \* values of since, 0 for none
  Known        \* the posts the ledger may know at the start

Post == 1..Newest
Kind == {"archive", "saved"}
NoPost == Newest + 1

ASSUME BackfillAssumption ==
  /\ Newest \in Nat /\ Initially \in 0..Newest
  /\ PageSize \in Nat \ {0}
  /\ Unusable \subseteq Post /\ Gated \subseteq Post /\ Twin \subseteq Post
  /\ Undated \subseteq Post
  /\ SavedDate \in [Post -> Nat]
  /\ Limits \subseteq Nat /\ Floors \subseteq Nat
  /\ Known \subseteq SUBSET Post

VARIABLES
  kind,      \* which of the two sources the subscription has
  heeds,     \* does the saved endpoint honour its `after` parameter?
  arrived,   \* posts 1 .. arrived have been published or saved so far
  listed,    \* those the feed still lists
  filed,     \* posts the ledger has a row for
  at,        \* "idle", "page" (about to ask for one), "rows", "done" (reported)
  pos,       \* offset of the next archive page; `after` of the next saved one
  last,      \* the page in hand is the last one the generator asks for
  rows,      \* refs of the page in hand that are still to be yielded
  limit,     \* max_new of the walk
  floor,     \* since of the walk
  new,       \* new_items
  erred,     \* erred > 0
  stopped,   \* stopped_reason
  begun,     \* history: the last post that had arrived when the walk began
  due,       \* history: listed and usable at the start, still listed, not yielded
  removed    \* history: number of posts taken off during the walk
             \* (all three are kept of a walk under way, or one that ran to the end)

server == <<kind, heeds, arrived, listed>>
request == <<limit, floor, begun>>
report == <<new, erred, stopped>>
cursor == <<pos, last>>
vars == <<server, filed, at, cursor, rows, request, report, due, removed>>

Reason == {"none", "exhausted", "max_new", "since", "rate_limited"}

TypeOK ==
  /\ kind \in Kind /\ heeds \in BOOLEAN
  /\ arrived \in 0..Newest /\ listed \subseteq 1..arrived
  /\ filed \subseteq Post
  /\ at \in {"idle", "page", "rows", "done"}
  /\ pos \in Nat /\ last \in BOOLEAN
  /\ rows \subseteq Post \ Unusable
  /\ limit \in Limits \cup {0} /\ floor \in Floors \cup {0}
  /\ new \in Nat /\ (limit # 0 => new <= limit)
  /\ erred \in BOOLEAN /\ stopped \in Reason
  /\ begun \in 0..arrived
  /\ due \subseteq listed \ Unusable /\ removed \in Nat

-----------------------------------------------------------------------------
(* Pages.                                                                  *)

\* The endpoints answer with the newest posts of those asked for.
IsPage(page, from) ==
  /\ page \subseteq from
  /\ Cardinality(page) = IF Cardinality(from) < PageSize THEN Cardinality(from) ELSE PageSize
  /\ \A p \in page : \A q \in from \ page : q < p

Oldest(page) == CHOOSE p \in page : \A q \in page : p <= q

\* sort=new, offset=n: all but the n newest.
BeyondOffset(n) == {p \in listed : Cardinality({q \in listed : p < q}) >= n}

SavedBefore(after) == IF heeds THEN {p \in listed : p < after} ELSE listed

AskedFor == IF kind = "archive" THEN BeyondOffset(pos) ELSE SavedBefore(pos)

\* Mutant of NextOffset: one post too far.
NextOffsetTooFar(page) == pos + Cardinality(page) + 1

NextOffset(page) ==
  LET yielded == Cardinality(page \ Unusable)
  IN  pos + IF yielded = 0 THEN Cardinality(page) ELSE yielded

\* Mutant of NextAfter: the last post's publication date, as the web app does.
NextAfterContentDate(page) ==
  IF page = {} THEN pos ELSE SavedDate[Oldest(page)]

NextAfter(page) == IF page = {} THEN pos ELSE Oldest(page)

\* Mutant of IsLast: asks again although the cursor does not move.
IsLastUnchecked(page) ==
  IF kind = "archive" THEN page = {} ELSE page = AskedFor \/ page = {}

\* The archive ends at an empty page; the saved list when the server has no
\* more, or when the cursor would not move.
IsLast(page) ==
  IF kind = "archive" THEN page = {}
  ELSE \/ page = AskedFor
       \/ page = {}
       \/ NextAfter(page) = pos

-----------------------------------------------------------------------------
(* The walk.                                                               *)

Ended == at \in {"idle", "done"}

Start(n, date) ==
  /\ Ended
  /\ at' = "page"
  /\ pos' = IF kind = "archive" THEN 0 ELSE NoPost
  /\ limit' = n /\ floor' = date
  /\ last' = FALSE /\ rows' = {}
  /\ new' = 0 /\ erred' = FALSE /\ stopped' = "none"
  /\ begun' = arrived /\ due' = listed \ Unusable /\ removed' = 0
  /\ UNCHANGED <<server, filed>>

FetchPage ==
  /\ at = "page"
  /\ \E page \in SUBSET AskedFor :
       /\ IsPage(page, AskedFor)
       /\ rows' = page \ Unusable
       /\ last' = IsLast(page)
       /\ pos' = IF kind = "archive" THEN NextOffset(page) ELSE NextAfter(page)
  /\ at' = "rows"
  /\ UNCHANGED <<server, filed, request, report, due, removed>>

\* backfill() returns: the generator and its page are gone.
Returns(reason) ==
  /\ at' = "done" /\ stopped' = reason
  /\ pos' = 0 /\ last' = FALSE /\ rows' = {} /\ floor' = 0
  /\ begun' = (IF reason = "exhausted" THEN begun ELSE 0)
  /\ due' = (IF reason = "exhausted" THEN due ELSE {})
  /\ removed' = (IF reason = "exhausted" THEN removed ELSE 0)
  /\ UNCHANGED <<server, limit>>

EndOfFeed ==
  /\ at = "rows" /\ rows = {} /\ last
  /\ Returns("exhausted")
  /\ UNCHANGED <<filed, new, erred>>

EndOfPage ==
  /\ at = "rows" /\ rows = {} /\ ~last
  /\ at' = "page"
  /\ UNCHANGED <<server, filed, cursor, rows, request, report, due, removed>>

\* p is the row the generator yields next.
Yields(p) == at = "rows" /\ p \in rows /\ \A q \in rows : q <= p

PubDate(p) == IF kind = "archive" THEN p ELSE SavedDate[p]

BelowFloor(p) == p \notin Undated /\ PubDate(p) < floor

StopAtFloor(p) ==
  /\ Yields(p) /\ BelowFloor(p)
  /\ Returns("since")
  /\ UNCHANGED <<filed, new, erred>>

\* The row is consumed and the loop comes back for the next one.
GoesOn(p) ==
  /\ rows' = rows \ {p} /\ due' = due \ {p}
  /\ UNCHANGED <<server, at, cursor, request, stopped, removed>>

\* Mutant of SkipKnown: the first known row ends the walk.
SkipKnownAndStop(p) ==
  /\ Yields(p) /\ ~BelowFloor(p) /\ p \in filed
  /\ Returns("exhausted")
  /\ UNCHANGED <<filed, new, erred>>

\* A row the ledger knows does not end the walk: there may be holes behind it.
SkipKnown(p) ==
  /\ Yields(p) /\ ~BelowFloor(p) /\ p \in filed
  /\ GoesOn(p)
  /\ UNCHANGED <<filed, new, erred>>

Fetches(p) == Yields(p) /\ ~BelowFloor(p) /\ p \notin filed

\* The fetched submission turns out to be in the ledger under its own URL.
SkipTwin(p) ==
  /\ Fetches(p) /\ p \in Twin \ Gated
  /\ GoesOn(p)
  /\ UNCHANGED <<filed, new, erred>>

\* Mutant of Pushes: the limit is looked at before the push is counted.
PushesThenCounts(p) ==
  /\ Fetches(p) /\ p \notin Twin \cup Gated
  /\ filed' = filed \cup {p}
  /\ new' = new + 1
  /\ IF limit # 0 /\ new = limit THEN Returns("max_new") ELSE GoesOn(p)
  /\ UNCHANGED erred

\* Pushed, recorded and counted; the count may be the walk's limit.
Pushes(p) ==
  /\ Fetches(p) /\ p \notin Twin \cup Gated
  /\ filed' = filed \cup {p}
  /\ new' = new + 1
  /\ IF new' = limit THEN Returns("max_new") ELSE GoesOn(p)
  /\ UNCHANGED erred

MeetsPaywall(p) ==
  /\ Fetches(p) /\ p \in Gated
  /\ GoesOn(p)
  /\ UNCHANGED <<filed, new, erred>>

\* Mutant of ItemFails: counted among the skipped.
ItemFailsSkipped(p) ==
  /\ Fetches(p)
  /\ GoesOn(p)
  /\ UNCHANGED <<filed, new, erred>>

\* The fetch (one request, or two for a post known by its id) or the push
\* fails; the walk goes on.
ItemFails(p) ==
  /\ Fetches(p)
  /\ GoesOn(p)
  /\ erred' = TRUE
  /\ UNCHANGED <<filed, new>>

\* The provider limits a page or a fetch, or the destination a push.
Limited ==
  /\ at = "page" \/ \E p \in rows : Fetches(p)
  /\ Returns("rate_limited")
  /\ erred' = TRUE
  /\ UNCHANGED <<filed, new>>

\* The page cannot be had or read, the token is refused, the process dies:
\* backfill() raises and there is no report.
WalkFails ==
  /\ ~Ended
  /\ at' = "idle"
  /\ pos' = 0 /\ last' = FALSE /\ rows' = {}
  /\ limit' = 0 /\ floor' = 0
  /\ new' = 0 /\ erred' = FALSE /\ stopped' = "none"
  /\ begun' = 0 /\ due' = {} /\ removed' = 0
  /\ UNCHANGED <<server, filed>>

Row(p) ==
  \/ StopAtFloor(p) \/ SkipKnown(p) \/ SkipTwin(p) \/ Pushes(p) \/ MeetsPaywall(p)
  \/ ItemFails(p)

Walk ==
  \/ FetchPage \/ EndOfPage \/ EndOfFeed \/ Limited \/ WalkFails
  \/ \E p \in Post : Row(p)

Fault == Limited \/ WalkFails \/ \E p \in Post : ItemFails(p)

-----------------------------------------------------------------------------
(* The feed.                                                               *)

Arrives ==
  /\ arrived < Newest
  /\ arrived' = arrived + 1
  /\ listed' = listed \cup {arrived'}
  /\ UNCHANGED <<kind, heeds, filed, at, cursor, rows, request, report, due, removed>>

\* Unpublished, or no longer saved.
TakenOff(p) ==
  /\ p \in listed
  /\ listed' = listed \ {p}
  /\ due' = due \ {p}
  /\ removed' = IF Ended THEN removed ELSE removed + 1
  /\ UNCHANGED <<kind, heeds, arrived, filed, at, cursor, rows, request, report>>

-----------------------------------------------------------------------------

Init ==
  /\ kind \in Kind /\ heeds \in BOOLEAN /\ (kind = "archive" => heeds)
  /\ arrived = Initially /\ listed = 1..Initially
  /\ filed \in Known
  /\ at = "idle" /\ pos = 0 /\ last = FALSE /\ rows = {}
  /\ limit = 0 /\ floor = 0
  /\ new = 0 /\ erred = FALSE /\ stopped = "none"
  /\ begun = 0 /\ due = {} /\ removed = 0

Feed == Arrives \/ \E p \in Post : TakenOff(p)

Next ==
  \/ Walk
  \/ \E n \in Limits \cup {0}, date \in Floors \cup {0} : Start(n, date)
  \/ Feed

\* The worker runs until backfill() returns or raises.
Runs == WF_vars(Walk)

Spec == Init /\ [][Next]_vars /\ Runs

\* Outages end, and somebody who wants the whole archive runs it again.
Reruns ==
  /\ <>[][~Fault]_vars
  /\ SF_vars(\E n \in Limits \cup {0} : Start(n, 0))

FairSpec == Spec /\ Reruns

-----------------------------------------------------------------------------
(* Properties.                                                             *)

ReachedTheEnd == at = "done" /\ stopped = "exhausted"

\* Offsets shift when a post is unpublished behind the walk's back: each one
\* taken off may hide one post that was listed all along, and never more.  New
\* posts and unusable rows only make the walk see a post twice.
ArchiveLossBounded ==
  kind = "archive" /\ ReachedTheEnd => Cardinality(due) <= removed

\* Save times do not shift: whatever is saved or unsaved meanwhile, a walk that
\* reaches the end was given every post that was on the list all along.
SavedWalkComplete ==
  kind = "saved" /\ heeds /\ ReachedTheEnd => due = {}

\* Every walk ends, also when the saved endpoint ignores `after` and answers
\* with the same page for ever.
EveryWalkEnds == (at \in {"page", "rows"}) ~> Ended

\* "a later backfill resumes where it left off via the dedup ledger": however
\* often walks fail, are limited or stop at max_new, re-running them files
\* every post that stays listed, however deep it lies behind filed ones.
RerunsFileEverything ==
  \A p \in Post \ (Unusable \cup Gated \cup Twin) :
    p \in listed /\ (kind = "saved" => heeds) ~> p \in filed \/ p \notin listed

Accounted == filed \cup Gated \cup Twin

\* What a walk that reached the end left behind of the posts listed all along.
LeftBehind == {p \in listed \ Unusable : p <= begun} \ Accounted

\* "full archive now ingested" (subscriptions.py:532): a walk that reaches the end
\* and reports no error has left nothing of the saved list behind, and of an
\* archive no more than the posts that removals made it jump over.  Paywalled
\* posts are neither filed nor reported.
DrainedMeansFiled ==
  ReachedTheEnd /\ ~erred /\ heeds =>
    Cardinality(LeftBehind) <= IF kind = "archive" THEN removed ELSE 0
=============================================================================
