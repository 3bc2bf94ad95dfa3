------------------------------ MODULE Pipeline ------------------------------
(***************************************************************************)
(* pipeline.py: sync(), backfill() and add_once() run by any number of     *)
(* workers (the cron job, a terminal, the TUI's two worker threads) over   *)
(* one ledger, with the providers, the mailboxes and the user around them. *)
(*                                                                         *)
(* One action per step between two effects that another worker, the user   *)
(* or a crash can come between: read the ledger, fetch, push, record, ack. *)
(* An exception clause of the per-item try is a disjunct of the step that  *)
(* can raise it.                                                           *)
(***************************************************************************)
EXTENDS Ledger, Sequences, Naturals, FiniteSets

CONSTANTS
  Worker,       \* processes and threads that may run the pipeline at once
  Sub,          \* names of the configured subscriptions
  NoSub,        \* the subscription of a one-shot add
  SubOrder,     \* cfg.subscriptions, in the order of the file
  Routing,      \* the destination each is first configured with
  Reroutes,     \* <<subscription, destination>> changes the user may make
  Pausable,     \* the subscriptions the user may disable and enable
  Feed,         \* what discover() lists for each subscription
  Archive,      \* what discover_backwards() walks ({}: unsupported)
  Policy,       \* `mark_read` of each: "none" (or no ack()), "seen", "move"
  FetchNeeded,  \* subscriptions whose source fetches an item to submit it
  Identity,     \* the URL the submission of a ref carries, by subscription
  OneRef,       \* the ref a one-shot discover() yields for a URL
  Addable,      \* the URLs the user may add by hand
  Ebook,        \* mail whose fetch raises ItemSkipped
  Refused,      \* <<destination, url>> the provider never accepts
  Past,         \* ledgers an older tool may have left: [Base -> LegacyKind]
  MaxNew        \* bound: the largest --posts of a backfill

ASSUME PipelineAssumption ==
  /\ NoSub \notin Sub
  /\ SubOrder \in Seq(Sub)
  /\ Routing \in [Sub -> Destination] /\ Reroutes \subseteq Sub \X Destination
  /\ Pausable \subseteq Sub
  /\ Feed \in [Sub -> SUBSET Url] /\ Archive \in [Sub -> SUBSET Url]
  /\ Policy \in [Sub -> {"none", "seen", "move"}]
  /\ FetchNeeded \subseteq Sub
  /\ Identity \in [Sub \cup {NoSub} -> [Url -> Url]]
  /\ OneRef \in [Url -> Url]
  /\ Addable \subseteq Url /\ Ebook \subseteq Url
  /\ Refused \subseteq Destination \X Url
  /\ Past \subseteq [Base -> LegacyKind]
  /\ MaxNew \in Nat

VARIABLES
  rows,      \* the ledger: Key -> Row
  delivered, \* <<destination, url>> a provider has accepted
  route,     \* the config file: the destination of each subscription
  disabled,  \* the config file: the subscriptions switched off
  status,    \* subscription_state.last_status
  handled,   \* <<subscription, url>> a mailbox was told about
  run,       \* per worker: the locals of the call in progress
  sent,      \* history: hashes some push of which was accepted
  lost       \* history: those whose acceptance the pusher never recorded

vars == <<rows, delivered, route, disabled, status, handled, run, sent, lost>>

-----------------------------------------------------------------------------
(* The locals of one call.                                                 *)

Pc == {"idle", "next", "discover", "items", "build", "push", "record", "ack"}

Run ==
  [pc : Pc, kind : {"sync", "backfill", "add"},
   plan : [Sub -> Destination],     \* the config as the call loaded it
   off : SUBSET Sub,
   queue : Seq(Sub),                \* subscriptions still to visit
   sub : Sub \cup {NoSub}, via : Destination,
   refs : SUBSET Url, todo : SUBSET Url, ref : Url \cup {NoUrl},
   walled : SUBSET Url, errs : BOOLEAN,
   left : Nat,                      \* what max_new still allows
   blocked : SUBSET Destination]    \* blocked_destinations

Idle ==
  [pc |-> "idle", kind |-> "sync", plan |-> Routing, off |-> {}, queue |-> <<>>,
   sub |-> NoSub, via |-> "readwise", refs |-> {}, todo |-> {}, ref |-> NoUrl,
   walled |-> {}, errs |-> FALSE, left |-> 0, blocked |-> {}]

\* The URL the provider files the document under: for Shiori the listed URL
\* itself, for Readwise what the source makes of it.
SubmissionUrl(r) == IF r.via = "shiori" THEN r.ref ELSE Identity[r.sub][r.ref]

\* A subscription item is recorded under the URL it was discovered by, a
\* one-shot under the URL it was submitted as.
RecordKey(r) ==
  DestinationKey(IF r.kind = "add" THEN SubmissionUrl(r) ELSE r.ref, r.via)

\* Messages a "move" policy took out of the folder are listed no more.
Listed(s, urls) ==
  {u \in urls : Policy[s] = "move" => <<s, u>> \notin handled}

-----------------------------------------------------------------------------
(* Starting: every call connects to the ledger, and so migrates it; a call *)
(* whose connect() fails has done nothing.                                 *)

StartSync(w) ==
  /\ run[w].pc = "idle"
  /\ ~KeysCollide(rows) /\ rows' = Connected(rows)
  /\ run' = [run EXCEPT ![w] =
               [Idle EXCEPT !.pc = "next", !.plan = route, !.off = disabled,
                            !.queue = SubOrder]]
  /\ UNCHANGED <<delivered, route, disabled, status, handled, sent, lost>>

StartBackfill(w, s, posts) ==
  /\ run[w].pc = "idle" /\ Archive[s] # {}
  /\ ~KeysCollide(rows) /\ rows' = Connected(rows)
  /\ run' = [run EXCEPT ![w] =
               [Idle EXCEPT !.pc = "items", !.kind = "backfill", !.sub = s,
                            !.via = route[s], !.left = posts,
                            !.refs = Listed(s, Archive[s]),
                            !.todo = Listed(s, Archive[s])]]
  /\ UNCHANGED <<delivered, route, disabled, status, handled, sent, lost>>

\* A URL with a live document is answered from the ledger.
StartAdd(w, u, d) ==
  /\ run[w].pc = "idle"
  /\ ~KeysCollide(rows) /\ rows' = Connected(rows)
  /\ run' = IF IsSeen(rows', DestinationKey(u, d)) THEN run
            ELSE [run EXCEPT ![w] =
                    [Idle EXCEPT !.pc = "build", !.kind = "add", !.via = d,
                                 !.refs = {u}, !.ref = OneRef[u]]]
  /\ UNCHANGED <<delivered, route, disabled, status, handled, sent, lost>>
-----------------------------------------------------------------------------
(* The loop over subscriptions.                                            *)

\* A block that later subscriptions ignore.
OnlyDisabledPassedOver(r, s) == s \in r.off

\* Disabled subscriptions, and those whose destination is rate limited for
\* the rest of this run, are passed over.
PassedOver(r, s) == s \in r.off \/ r.plan[s] \in r.blocked

NextSubscription(w) ==
  LET r == run[w]
      s == Head(r.queue)
      tail == Tail(r.queue)
  IN  /\ r.pc = "next" /\ r.queue # <<>>
      /\ run' = [run EXCEPT ![w] =
                   IF PassedOver(r, s) THEN [r EXCEPT !.queue = tail]
                   ELSE [r EXCEPT !.pc = "discover", !.queue = tail, !.sub = s,
                                  !.via = r.plan[s], !.errs = FALSE, !.walled = {}]]
      /\ UNCHANGED <<rows, delivered, route, disabled, status, handled, sent, lost>>

FinishSync(w) ==
  /\ run[w].pc = "next" /\ run[w].queue = <<>>
  /\ run' = [run EXCEPT ![w] = Idle]
  /\ UNCHANGED <<rows, delivered, route, disabled, status, handled, sent, lost>>

Discover(w) ==
  LET found == Listed(run[w].sub, Feed[run[w].sub])
  IN  /\ run[w].pc = "discover"
      /\ run' = [run EXCEPT ![w].pc = "items", ![w].refs = found, ![w].todo = found]
      /\ UNCHANGED <<rows, delivered, route, disabled, status, handled, sent, lost>>

\* What is left of a subscription the loop has finished with.
AfterSubscription(r) ==
  [r EXCEPT !.pc = "next", !.sub = NoSub, !.via = "readwise", !.refs = {},
            !.todo = {}, !.ref = NoUrl, !.walled = {}, !.errs = FALSE]

\* A feed that cannot be listed (network, parse, bad option) costs the run
\* that subscription only.
DiscoverFails(w) ==
  /\ run[w].pc = "discover"
  /\ status' = [status EXCEPT ![run[w].sub] = "error"]
  /\ run' = [run EXCEPT ![w] = AfterSubscription(@)]
  /\ UNCHANGED <<rows, delivered, route, disabled, handled, sent, lost>>

FinishSubscription(w) ==
  LET r == run[w]
  IN  /\ r.pc = "items" /\ r.todo = {} /\ r.kind = "sync"
      /\ status' = [status EXCEPT ![r.sub] = IF r.errs THEN "error" ELSE "ok"]
      /\ run' = [run EXCEPT ![w] = AfterSubscription(r)]
      /\ UNCHANGED <<rows, delivered, route, disabled, handled, sent, lost>>

\* A backfill ends when the archive is walked or max_new is reached, and may
\* end anywhere before: the date floor, or a page that cannot be fetched.
FinishBackfill(w) ==
  /\ run[w].pc = "items" /\ run[w].kind = "backfill"
  /\ run' = [run EXCEPT ![w] = Idle]
  /\ UNCHANGED <<rows, delivered, route, disabled, status, handled, sent, lost>>

-----------------------------------------------------------------------------
(* One item.                                                               *)

\* A `continue` before the ack of an item that needs no push.
NextItemUnacked(w, u) ==
  LET r == run[w]
  IN  /\ r.pc = "items" /\ u \in r.todo
      /\ r.kind = "backfill" => r.left > 0
      /\ run' = [run EXCEPT ![w] =
                   IF WasSubscriptionIngested(rows, u) THEN [r EXCEPT !.todo = @ \ {u}]
                   ELSE [r EXCEPT !.ref = u, !.todo = @ \ {u}, !.pc = "build"]]
      /\ UNCHANGED <<rows, delivered, route, disabled, status, handled, sent, lost>>

\* First ledger check, before anything is fetched.
NextItem(w, u) ==
  LET r == run[w]
  IN  /\ r.pc = "items" /\ u \in r.todo
      /\ r.kind = "backfill" => r.left > 0
      /\ run' = [run EXCEPT ![w] =
                   [r EXCEPT !.ref = u, !.todo = @ \ {u},
                             !.pc = IF WasSubscriptionIngested(rows, u)
                                      THEN "ack" ELSE "build"]]
      /\ UNCHANGED <<rows, delivered, route, disabled, status, handled, sent, lost>>

\* Shiori needs no content, and neither do sources without a body to fetch;
\* a one-shot add lists the URL again before it submits it.
Fetching(r) == r.kind = "add" \/ (r.via = "readwise" /\ r.sub \in FetchNeeded)

\* Fetch, then the second ledger check, on the URL the document will have.
Build(w) ==
  LET r == run[w]
      known == IF r.kind = "add"
                 THEN /\ RecordKey(r) \notin {DestinationKey(u, r.via) : u \in r.refs}
                      /\ IsSeen(rows, RecordKey(r))
                 ELSE AlreadyIngestedAs(rows, SubmissionUrl(r), RecordKey(r))
      after == IF r.kind = "add" THEN Idle ELSE [r EXCEPT !.pc = "ack"]
  IN  /\ r.pc = "build"
      /\ r.ref \in Ebook => r.via = "shiori"
      /\ run' = [run EXCEPT ![w] = IF known THEN after ELSE [r EXCEPT !.pc = "push"]]
      /\ UNCHANGED <<rows, delivered, route, disabled, status, handled, sent, lost>>

\* ItemSkipped: never recorded, but acked.
BuildSkips(w) ==
  /\ run[w].pc = "build" /\ run[w].ref \in Ebook
  /\ run[w].via = "readwise" /\ run[w].kind # "add"
  /\ run' = [run EXCEPT ![w].pc = "ack"]
  /\ UNCHANGED <<rows, delivered, route, disabled, status, handled, sent, lost>>

\* A failed item that is acked all the same, and one that leaves no error.
DroppedAcked(r, failed) ==
  IF r.kind = "add" THEN Idle ELSE [r EXCEPT !.pc = "ack", !.errs = @ \/ failed]

DroppedQuietly(r, failed) ==
  IF r.kind = "add" THEN Idle ELSE [r EXCEPT !.pc = "items", !.ref = NoUrl]

\* The item is given up for this run and not acked; an add gives up at once.
Dropped(r, failed) ==
  IF r.kind = "add" THEN Idle
  ELSE [r EXCEPT !.pc = "items", !.ref = NoUrl, !.errs = @ \/ failed]

BuildFails(w) ==
  /\ run[w].pc = "build" /\ Fetching(run[w])
  /\ run' = [run EXCEPT ![w] = Dropped(@, TRUE)]
  /\ UNCHANGED <<rows, delivered, route, disabled, status, handled, sent, lost>>

\* Paywalled: reported apart, and no error of the subscription.
BuildPaywalled(w) ==
  LET r == run[w]
  IN  /\ r.pc = "build" /\ Fetching(r)
      /\ run' = [run EXCEPT ![w] =
                   IF r.kind = "add" THEN Idle
                   ELSE [Dropped(r, FALSE) EXCEPT !.walled = @ \cup {r.ref}]]
      /\ UNCHANGED <<rows, delivered, route, disabled, status, handled, sent, lost>>

\* RateLimited by `host`: the rest of the subscription is deferred, and with
\* it every later subscription whose destination is that host.
Limited(r, hosts) ==
  IF r.kind = "sync"
    THEN [Dropped(r, TRUE) EXCEPT !.todo = {}, !.blocked = @ \cup hosts]
    ELSE Idle

BuildLimited(w) ==
  /\ run[w].pc = "build" /\ Fetching(run[w])
  /\ run' = [run EXCEPT ![w] = Limited(@, {})]
  /\ UNCHANGED <<rows, delivered, route, disabled, status, handled, sent, lost>>
-----------------------------------------------------------------------------
(* Push, record, ack.                                                      *)

\* The provider accepts the document (or finds that it has it already).
Accepted(r) ==
  /\ r.pc = "push" /\ <<r.via, SubmissionUrl(r)>> \notin Refused
  /\ delivered' = delivered \cup {<<r.via, SubmissionUrl(r)>>}
  /\ sent' = sent \cup {RecordKey(r)[2]}

Push(w) ==
  /\ Accepted(run[w])
  /\ run' = [run EXCEPT ![w].pc = "record"]
  /\ UNCHANGED <<rows, route, disabled, status, handled, lost>>

\* The answer to an accepted push is lost: FetchError, as for a refusal.
PushAnswerLost(w) ==
  /\ Accepted(run[w])
  /\ lost' = lost \cup {RecordKey(run[w])[2]}
  /\ run' = [run EXCEPT ![w] = Dropped(@, TRUE)]
  /\ UNCHANGED <<rows, route, disabled, status, handled>>

PushRefused(w) ==
  /\ run[w].pc = "push"
  /\ run' = [run EXCEPT ![w] = Dropped(@, TRUE)]
  /\ UNCHANGED <<rows, delivered, route, disabled, status, handled, sent, lost>>

\* A 429 taken for a success.
PushLimitedRecorded(w) ==
  /\ run[w].pc = "push"
  /\ run' = [run EXCEPT ![w].pc = "record"]
  /\ UNCHANGED <<rows, delivered, route, disabled, status, handled, sent, lost>>

PushLimited(w) ==
  /\ run[w].pc = "push"
  /\ run' = [run EXCEPT ![w] = Limited(@, {run[w].via})]
  /\ UNCHANGED <<rows, delivered, route, disabled, status, handled, sent, lost>>

\* A rejected token ends the whole call.
PushUnauthorized(w) ==
  LET r == run[w]
  IN  /\ r.pc = "push"
      /\ status' = IF r.kind = "sync" THEN [status EXCEPT ![r.sub] = "error"] ELSE status
      /\ run' = [run EXCEPT ![w] = Idle]
      /\ UNCHANGED <<rows, delivered, route, disabled, handled, sent, lost>>

\* Every push counted against a --posts limit, a sync's too.
RecordCounted(w) ==
  LET r == run[w]
  IN  /\ r.pc = "record"
      /\ rows' = RecordItem(rows, RecordKey(r), r.via, SubmissionUrl(r))
      /\ lost' = lost \ {RecordKey(r)[2]}
      /\ run' = [run EXCEPT ![w] =
                   IF r.kind = "add" THEN Idle
                   ELSE [r EXCEPT !.pc = "ack", !.left = @ - 1]]
      /\ UNCHANGED <<delivered, route, disabled, status, handled, sent>>

\* record_item commits; only subscriptions go on to ack.
Record(w) ==
  LET r == run[w]
  IN  /\ r.pc = "record"
      /\ rows' = RecordItem(rows, RecordKey(r), r.via, SubmissionUrl(r))
      /\ lost' = lost \ {RecordKey(r)[2]}
      /\ run' = [run EXCEPT ![w] =
                   IF r.kind = "add" THEN Idle
                   ELSE [r EXCEPT !.pc = "ack",
                                  !.left = IF r.kind = "backfill" THEN @ - 1 ELSE @]]
      /\ UNCHANGED <<delivered, route, disabled, status, handled, sent>>

\* The ack reaches the mailbox, or fails and is swallowed.
Ack(w, reached) ==
  LET r == run[w]
  IN  /\ r.pc = "ack"
      /\ handled' = IF reached /\ Policy[r.sub] # "none"
                      THEN handled \cup {<<r.sub, r.ref>>} ELSE handled
      /\ run' = [run EXCEPT ![w].pc = "items", ![w].ref = NoUrl]
      /\ UNCHANGED <<rows, delivered, route, disabled, status, sent, lost>>

\* The process dies, or an exception nobody catches ends the call: a SQLite
\* error, a cookie file that cannot be read.
Crash(w) ==
  LET r == run[w]
  IN  /\ r.pc # "idle"
      /\ lost' = IF r.pc = "record" THEN lost \cup {RecordKey(r)[2]} ELSE lost
      /\ run' = [run EXCEPT ![w] = Idle]
      /\ UNCHANGED <<rows, delivered, route, disabled, status, handled, sent>>

-----------------------------------------------------------------------------
(* The user: the TUI's library and subscription screens, and the config    *)
(* commands.                                                               *)

UserDeletes(key) ==
  /\ ~KeysCollide(rows) /\ Connected(rows)[key].state = "live"
  /\ rows' = DeleteItem(Connected(rows), key)
  /\ UNCHANGED <<delivered, route, disabled, status, handled, run, sent, lost>>

UserReroutes(s, d) ==
  /\ d # route[s] /\ route' = [route EXCEPT ![s] = d]
  /\ UNCHANGED <<rows, delivered, disabled, status, handled, run, sent, lost>>

UserToggles(s) ==
  /\ disabled' = IF s \in disabled THEN disabled \ {s} ELSE disabled \cup {s}
  /\ UNCHANGED <<rows, delivered, route, status, handled, run, sent, lost>>

-----------------------------------------------------------------------------

Init ==
  /\ \E past \in Past :
       /\ rows = LegacyLedger(past)
       /\ delivered = {<<"shiori", LegacyLedger(past)[<<"readwise", b>>].url>> :
                         b \in {b \in Base : past[b] = "shiori"}}
  /\ route = Routing /\ disabled = {}
  /\ status = [s \in Sub |-> "never"]
  /\ handled = {} /\ sent = {} /\ lost = {}
  /\ run = [w \in Worker |-> Idle]

\* The steps of a call under way, but for a crash.
Step(w) ==
  \/ NextSubscription(w) \/ FinishSync(w) \/ Discover(w) \/ DiscoverFails(w)
  \/ FinishSubscription(w) \/ FinishBackfill(w)
  \/ \E u \in run[w].todo : NextItem(w, u)
  \/ Build(w) \/ BuildSkips(w) \/ BuildFails(w) \/ BuildPaywalled(w) \/ BuildLimited(w)
  \/ Push(w) \/ PushAnswerLost(w) \/ PushRefused(w) \/ PushLimited(w)
  \/ PushUnauthorized(w) \/ Record(w) \/ \E reached \in BOOLEAN : Ack(w, reached)

User ==
  \/ \E key \in Key : UserDeletes(key)
  \/ \E change \in Reroutes : UserReroutes(change[1], change[2])
  \/ \E s \in Pausable : UserToggles(s)

Next ==
  \/ \E w \in Worker :
       \/ StartSync(w)
       \/ \E s \in Sub, posts \in 1..MaxNew : StartBackfill(w, s, posts)
       \/ \E u \in Addable, d \in Destination : StartAdd(w, u, d)
       \/ Step(w) \/ Crash(w)
  \/ User

Spec == Init /\ [][Next]_vars

\* A call goes on as it should, a push that is refused for good included.
Works(w) ==
  \/ NextSubscription(w) \/ FinishSync(w) \/ Discover(w)
  \/ FinishSubscription(w) \/ FinishBackfill(w)
  \/ \E u \in run[w].todo : NextItem(w, u)
  \/ Build(w) \/ BuildSkips(w) \/ Push(w) \/ Record(w) \/ Ack(w, TRUE)
  \/ PushRefused(w) /\ <<run[w].via, SubmissionUrl(run[w])>> \in Refused

\* What the network, the providers, the mailbox or the machine do wrong.
Fault == \E w \in Worker : (Step(w) \/ Crash(w)) /\ ~Works(w)

(***************************************************************************)
(* Fairness.  A call under way goes on until it ends, and cron starts a    *)
(* sync again and again whatever else the worker is used for.  Faults may  *)
(* strike any number of times at any step, but an outage is not for ever:  *)
(* deferring a failed item "to the next sync run" counts on no less.       *)
(* Nothing is assumed of adds, backfills and the user.                     *)
(***************************************************************************)
Fairness ==
  /\ \A w \in Worker : WF_vars(Step(w)) /\ SF_vars(StartSync(w))
  /\ <>[][~Fault]_vars

FairSpec == Spec /\ Fairness
-----------------------------------------------------------------------------
(* Properties.                                                             *)

\* Every variable has the type of the state it stands for.
TypeOK ==
  /\ rows \in [Key -> Row]
  /\ delivered \subseteq Destination \X Url
  /\ route \in [Sub -> Destination] /\ disabled \subseteq Sub
  /\ status \in [Sub -> {"never", "ok", "error"}]
  /\ handled \subseteq Sub \X Url
  /\ run \in [Worker -> Run]
  /\ sent \subseteq Base /\ lost \subseteq Base

\* "Remote push strictly precedes ledger write": a row pulpwise wrote names a
\* document its provider has accepted, through crashes, lost answers, changed
\* destinations and the migrations of every connect().
RowsWereDelivered ==
  \A key \in Key :
    rows[key].origin = "push" => <<rows[key].owner, rows[key].url>> \in delivered

\* The URLs an item of a subscription may be filed under.
Aliases(s, u) == {u, Identity[s][u]}

HasRow(b) == \E key \in Key : key[2] = b /\ rows[key].state # "absent"

Filed(s, u) == \E v \in Aliases(s, u) : HasRow(DedupKey[v])

\* "... which strictly precedes source ack": no message is marked or moved
\* unless the ledger has a row for it or it is not content at all, so a crash
\* never loses mail.
HandledIsFiled ==
  \A s \in Sub, u \in Url : <<s, u>> \in handled => Filed(s, u) \/ u \in Ebook

\* A push a provider accepted is in the ledger, or about to be, or its answer
\* was lost to a crash or the network: nothing else leaves a document in the
\* provider that the ledger does not know of.
SentIsFiledOrLost ==
  \A b \in sent :
    \/ HasRow(b)
    \/ b \in lost
    \/ \E w \in Worker : run[w].pc = "record" /\ RecordKey(run[w])[2] = b

\* The call is a sync or a backfill, not an add the user asked for.
Syncs(w) == run[w].kind # "add"

\* What a subscription run pushes has no row, live or deleted, under the URL it
\* was discovered by nor under the URL it is submitted as, for any
\* destination: not one bought before the destination was changed, not one the
\* user deleted, not one written since the ledger was last read.
PushesOnlyUnfiled ==
  [][\A w \in Worker :
       (Push(w) \/ PushAnswerLost(w)) /\ Syncs(w) =>
         ~HasRow(DedupKey[run[w].ref]) /\ ~HasRow(DedupKey[SubmissionUrl(run[w])])]_vars

\* The hashes a document, known by the hash b of the URL it is submitted as, may
\* be recorded under: its own, and those of the items it is made of.
FormsOf(b) == {b} \cup {DedupKey[u] : u \in {u \in Url : \E s \in Sub : DedupKey[Identity[s][u]] = b}}

Document(r) == DedupKey[SubmissionUrl(r)]

\* A document a provider has accepted, whoever submitted it and under whatever
\* destination, is pushed for a subscription again only when a push of it was
\* lost before the ledger had it, or when the ledger knows it by another item
\* alone (a mail's mid: URL, where a feed now lists the permalink): the case run
\* `other_form` is about, which no lookup of the code can see.
RepushesOnlyLost ==
  [][\A w \in Worker :
       /\ Push(w) \/ PushAnswerLost(w)
       /\ Syncs(w) /\ \E i \in delivered : DedupKey[i[2]] = Document(run[w])
       => \E b \in FormsOf(Document(run[w])) :
            b \in lost \/ (b \notin {Document(run[w]), DedupKey[run[w].ref]} /\ HasRow(b))]_vars

\* Only the user's delete tombstones a row pulpwise wrote: the migrations that
\* rerun on every connect() leave it alone.
OnlyTheUserForgets ==
  [][\A key \in Key :
       rows[key].state = "live" /\ rows[key].origin = "push"
         /\ rows'[key].state = "deleted" => UserDeletes(key)]_vars

\* A tombstone gives way to an add the user asked for and to nothing else.
TombstonesHold ==
  [][\A key \in Key :
       rows[key].state = "deleted" /\ rows'[key].state # "deleted" =>
         \E w \in Worker : ~Syncs(w) /\ Record(w)]_vars

\* The docstring of _already_ingested_as: the second ledger check keeps a
\* tombstoned document from being resurrected "via the other form" of its URL.
NeverResurrects ==
  [][\A w \in Worker :
       (Push(w) \/ PushAnswerLost(w)) /\ Syncs(w) =>
         \A key \in Key :
           rows[key].state = "deleted" /\ rows[key].owner = run[w].via =>
             rows[key].url # SubmissionUrl(run[w])]_vars

\* A subscription's status is "ok" only if everything its feed listed is in
\* the ledger, was not content, or is reported as paywalled.
Accounted(r, u) == Filed(r.sub, u) \/ u \in Ebook \/ u \in r.walled

OkAccountsForAll ==
  [][\A w \in Worker :
       FinishSubscription(w) /\ status'[run[w].sub] = "ok" =>
         \A u \in run[w].refs : Accounted(run[w], u)]_vars

\* Once a destination has rate limited a run, the run pushes nothing more to
\* it, whatever subscriptions are left.
NoPushOnceLimited ==
  \A w \in Worker : run[w].pc \in {"build", "push"} => run[w].via \notin run[w].blocked

\* Whatever fails, is rate limited or crashes on the way, what a feed keeps
\* listing is in the ledger in the end.
EventuallyFiled == \A s \in Sub : \A u \in Feed[s] \ Ebook : <>Filed(s, u)

\* ... and its mailbox is told, even when the call that filed it died before.
EventuallyHandled ==
  \A s \in Sub : Policy[s] # "none" => \A u \in Feed[s] : <>(<<s, u>> \in handled)

-----------------------------------------------------------------------------
(* The pipeline implements Delivery.                                       *)

\* Rows the older tool had deleted are tombstones even before they are
\* migrated.
Forgotten(key) ==
  WasIngested(rows, key) /\ (rows[key].state = "deleted" \/ rows[key].origin = "gone")

Owned(key) == WasIngested(rows, key) /\ ~Forgotten(key)

Promise == INSTANCE Delivery WITH
  Item <- Sub \X Url,
  BasesOf <- [i \in Sub \X Url |-> {DedupKey[v] : v \in Aliases(i[1], i[2])}],
  Exempt <- Sub \X Ebook,
  ledger <- [b \in Base |->
               IF \E d \in Destination : Owned(<<d, b>>) THEN "owned"
               ELSE IF \E d \in Destination : Forgotten(<<d, b>>) THEN "forgotten"
               ELSE "unknown"],
  reached <- sent,
  asked <- {RecordKey(run[w])[2] :
              w \in {w \in Worker : ~Syncs(w) /\ run[w].pc \in {"push", "record"}}},
  settled <- handled

KeepsPromise == Promise!Spec
=============================================================================
