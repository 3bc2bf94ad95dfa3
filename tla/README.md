# A verification project for Pulp Wise

Pulp Wise pulls articles from feeds, mailboxes, Substack, arXiv and single URLs
and pushes each, once, to a reading service (Readwise or Shiori). There is no
server and no lock: a cron job, a terminal and the TUI's worker threads run the
same pipeline over one SQLite file, one TOML file and the providers' APIs, and
any of them may die between two effects. The questions are therefore about
order and history: what was pushed, what the ledger knows, what the mailbox was
told, what the user deleted.

## Inventory

| part (source under `src/src/pulpwise/`) | state it keeps | operations | interacts with |
|---|---|---|---|
| Sync pipeline (`pipeline.py`) | locals of a call: subscriptions left, refs, blocked destinations, errors, new-item count | `sync`, `backfill`, `add_once` | ledger, sources, sinks, `ack` |
| Dedup ledger (`state.py`, `util/dedup.py`) | SQLite rows `items`, `subscription_state` | `connect` (migrations), `is_seen`, `was_ingested`, `record_item`, `delete_item`, `update_subscription_state` | every call; the TUI |
| HTTP limiter (`util/http.py`) | per bucket: `blocked_until`, `next_send`, `wait_spent`, under a lock | `handle_request` and the five registry operations | every source client of the process, from several threads |
| Sinks (`sinks/readwise.py`, `sinks/shiori.py`) | `next_save_at`, `blocked_until` | `push`, `_pace`, `_trip` | pipeline |
| Email source (`sources/email.py`, `util/imap.py`) | messages by URL, pending acks, marked and moved uids, one session per run | `discover`, `discover_backwards`, `fetch`, `ack` | the IMAP folder, its owner and other clients; pipeline |
| Substack sources (`sources/substack.py`) | cookies, page cursors | `discover`, `discover_backwards`, `fetch` | limiter bucket "substack", pipeline |
| RSS, arXiv, URL (`sources/*.py`) | none | `discover`, `submission_for_ref` | pipeline |
| Config store (`config.py`) | the TOML file | load, whole-file save, edits by name | CLI, TUI, importers |
| Importers (`importers/`) | none; writes config and ledger markers | `auto_reconcile`, OPML import | config store |
| TUI (`tui/`) | `in_flight`, progress counters | sync, backfill, delete, toggle, reroute | worker threads, ledger, config |
| CLI (`cli.py`) | none | one command per operation | all of the above |
| Email cleaning, statistics, logging, credentials | - | HTML rewriting, rendering, reading files | - |

What is hard here, and what each part owes:

* **Pipeline and ledger.** Push, record, ack are effects on three systems with
  nothing atomic around them. A row must never be ahead of the push, nor the
  mailbox ahead of the row; nothing may be pushed twice unless the first answer
  was lost; what the user deleted must stay away; a failure must neither hide
  behind an "ok" nor stop an item from being retried.
* **Limiter and sinks.** Several threads share one cooldown. The breaker must
  fail fast while it is armed and must let the run resume after it.
* **Backfills.** The feed changes under a walk that pages by offset or by save
  time. A walk must end, a completed one must have seen what was there all
  along, and re-running it must fill every hole.
* **Email.** Copies share a URL, other clients share the folder, the connection
  may go. Nothing may be marked or moved that is not accounted for, and nobody
  else's message may disappear.
* **Config store.** Nobody locks the file. A whole-file save from a snapshot may
  undo what was saved since the snapshot was taken, and nothing else.
* **TUI.** One sync at a time; the rows must be those of the run on the screen;
  no failure of a worker may take the key away; worker threads outlive the
  application and must not disturb the next one; what the user chose for one
  subscription must not hit another that has come to have its name.

`PROJECT.json` lists the hazards at their lines, with the properties that are
about each, or why there is none.

## Modules

| module | what it is |
|---|---|
| `Ledger` | rows, keys, lookups, upsert, tombstone and the row-changing migrations of `connect()`, as operators on a function `Key -> Row` |
| `Pipeline` | the specification: workers, providers, mailboxes, crashes, the user; extends `Ledger` |
| `Delivery` | the abstract promise for one article: unknown, owned, forgotten; reached before owned, owned before settled, back from forgotten only when asked |
| `MCPipeline` | instances for TLC |
| `PipelineProofs` | theorems about `Pipeline` for every value of the constants: types and the invariants of its effects |
| `PipelineActionProofs` | its action properties, the honesty of statuses, the migrations, and that it implements `Delivery` |
| `RateLimit` | requests of several threads through `RetryTransport` and the shared registry, with a clock |
| `Sink` | pushes of a run through one sink per destination: pacing, breaker, retry, with a clock |
| `Backfill` | one walk over a Substack archive or saved list that changes meanwhile, and the loop that takes its rows |
| `Mailbox` | syncs and backfills of one IMAP folder, acks included, with its owner and other clients |
| `ConfigStore` | `config.toml` and its writers: commands, importers, the subscription screen, the user's editor |
| `SyncView` | the TUI's sync screen and worker over `ConfigStore`, which it extends |
| `MC...`, `...Proofs` | of each of these: the instance for TLC and the theorems (`SyncViewProofs` covers `ConfigStore` too) |

`Pipeline` keeps what a push, a page or a message may come to and what happens
between the effects of one item; `Sink`, `RateLimit`, `Backfill` and `Mailbox`
each open one of those outcomes and take the rest of an item as one step.

### How `Pipeline` corresponds to the code

A worker's `run[w]` holds the locals of the call in progress, and `pc` the point
it has reached. One action runs from one effect that others can observe, or from
one read of shared state, to the next:

| `pc` | action | code |
|---|---|---|
| idle | `StartSync`, `StartBackfill`, `StartAdd` | load config, `connect()` (migrations included), and `is_seen` for an add |
| next | `NextSubscription`, `FinishSync` | the loop of `sync()`, with `disabled` and `blocked_destinations` |
| discover | `Discover`, `DiscoverFails` | `source.discover` |
| items | `NextItem`, `FinishSubscription`, `FinishBackfill` | first ledger check; status at the end |
| build | `Build`, `BuildSkips`, `BuildFails`, `BuildPaywalled`, `BuildLimited` | fetch, second ledger check, one disjunct per exception clause |
| push | `Push`, `PushAnswerLost`, `PushRefused`, `PushLimited`, `PushUnauthorized` | `sink.push` |
| record | `Record` | `record_item`, committed |
| ack | `Ack` | `_ack_item`, which swallows failures |
| any | `Crash` | the process dies, or an exception nobody catches |

The config a call works on is the snapshot it loaded (`plan`, `off`); the user
may change the file (`route`, `disabled`) at any time. `sent` and `lost` are
history variables: hashes some push of which was accepted, and those of them
the pusher never recorded because the answer was lost or the process died.

URLs are model values. `DedupKey` stands for `dedup_key(normalize_url(url))` and
may identify several URLs. `Identity` is the submission URL a source gives a
discovered URL (a mail's permalink, arXiv's pdf), so that one document has
several keys. `Feed` and `Archive` are fixed: an article, once listed, stays
listed, except that a mailbox under the "move" policy stops listing what it was
told about (so does `unseen_only` with the "seen" policy).

### How `RateLimit` corresponds to the code

`call[t]` holds the locals of one `handle_request`. Each operation of the
registry runs under its lock and is one step; other threads come between them.
All times are what is left of them: `cooling` is `_blocked_until - now`, `slot`
is `_next_send - now` (`Unpaced`: no entry), and both stay at zero once past,
where the code too treats them alike.

| `at` | action | code |
|---|---|---|
| idle | `Begin` | `raise_if_blocked`; a refused call leaves no trace |
| slot | `ReserveSendSlot` | the wait for a slot, none in a bucket that never tripped |
| free, pacing, retry, grace | `Send` | the sleep is over, the request goes out |
| answer | `Lands`, `Breaks`, `TooMany`, `Unwell` | success or a POST's answer, a transport error, 429, 502-504 |
| claim | `TryClaimWait` | the allowance, or on to the trip |
| trip | `Trip` | arms the breaker and raises `RateLimited` |

`Tick` takes one unit off every timer once no thread has anything to do but wait:
sleeps end on time, code takes none, the network takes as long as it likes. The
histories `shared` and `rearmed` say of a bucket whether two calls were ever in
it at once, and whether its next slot was set anew while a call slept for one:
what the limiter promises of calls in turn is more than what it promises of
overlapping ones. `seen429` stops counting one past its limit, where the code
only asks whether it is past it.

### How `Sink` corresponds to the code

A `sync` builds the sinks of its subscriptions before it begins, an `add` of
several URLs makes each when it first needs it (`_BatchSink.get`, `BatchGets`).
`push` holds the sleep under way and what this push has slept; `gap[d]` is what
is left until `_next_save_at`, `blocked[d]` until `_blocked_until`. `Push` is
the breaker check and `_pace`, `Post` and `PostAgain` the two requests,
`TooMany` a 429 with any parsed header, and `Answered`, `Unauthorized` the other
ways back. A push that an open breaker refuses changes nothing and is not a
step. The code takes no time between the end of a sleep and the request. A run
forgets the breakers of the run before, and two runs share no pacing: every
property is about one sink. A POST goes through the HTTP client of `RateLimit`,
which never retries it but whose breaker may refuse it (`ClientRefuses`) and
whose slot it may have to sleep for (`ClientHolds`); both are the work of token
checks, which share the bucket of Readwise's client, and come as they like.
`owed`, `since` and `late` are histories.

### How `Backfill` corresponds to the code

A post is its rank in the order its feed is sorted by. `pos` is the next offset
of an archive, or the time before which a saved page must lie; `rows` are those
of the page in hand that are still to come. `FetchPage` is one turn of
`discover_backwards`: any page the endpoint may answer, the next cursor
(`NextOffset`, `NextAfter`) and whether it is the last (`IsLast`). One action
per way through the loop of `backfill()` follows: `StopAtFloor`, `SkipKnown`,
`SkipTwin`, `Pushes`, `MeetsPaywall`, `ItemFails`, `Limited`. `Arrives` and
`TakenOff` are the feed. `heeds` says whether the saved endpoint honours
`after`, which the code cannot know and guards against. Push and record of an
item are one step. `due` and `removed` are histories.

### How `Mailbox` corresponds to the code

A sync registers all it lists before it takes the first message
(`StartSync`: `_by_url` ends with the newest copy of each Message-ID); a
backfill registers each message as it comes to it (`ReadPage`, `TakeFromPage`).
`target` is the message `fetch` and `ack` work on: the one registered last under
the URL, not always the one listed. `SkipFiled`, `SkipBook`, `SkipTwin`, `Files`
and `ItemFails` are the item, `AckNothing`, `MarkSeen` and `Move` its ack under
the three policies, `AckRefused` an ack that fails, whether the connection is
gone or the server answers NO, `Drops` the loss of the connection, `Aborts` a
crash between any two steps. `SkipTwin` is the second ledger check: another
subscription has filed the web version a message links to (`FiledElsewhere`,
`twinned`), so the message is acknowledged without a row of its own. `Old` messages may lie outside the window of a sync (`aged`, chosen
at the start). A `_pending_acks` entry always holds the single URL of its
message in this version, so the acknowledged message waits for nobody.

### How `ConfigStore` and `SyncView` correspond to the code

A writer loads (`Load`, `LoadConfig`, `ScreenEdits`, `ScreenReroutes`), works on
`held[w].copy`, and replaces the file (`Save`, `Reconciles`, `ScreenSaves`): two
steps for every writer, the subscription screen's handlers included, since
nothing locks the file between them. `held[w].missed` is a history: the
subscriptions others have changed since. A subscription is its URL, its
`disabled` flag and its location. `broken` is a file that does not parse or
validate: loading it is an error. An import takes every entry it may add, or
gives up.

`ui` is what the UI thread does on the subscription screen: it `Listens` to keys
and callbacks, or is in a handler that has an edit to save, or is to refresh
(`show`) or refresh and report (`report`). Delete and toggle go by the name in a
row of an earlier refresh (`shown`). The destination dialog keeps its row in
`asked`; its handler compares it with the file before it edits, and survives a
file that cannot be read, written or shown, which the others do not.

`worker[t].pc` is where a sync thread stands: load, reconcile, the pipeline's
loop and items, a report, and the callback `_on_done`. Every event of the
pipeline renders, and rendering loads the file and the ledger: where that raises
within a handler of the pipeline it counts as an error of the subscription
(`Discovers`, `ItemEventRaises`), elsewhere it ends the run (`Reports`), and out
of `_on_done` it ends the application (`OnDone`). `Dies` is every other end of
it, at any time: the user quits, a key's handler or the token probe raises.
Threads at work go on as `orphans`: their callbacks change nothing on any
screen, they may still save the file, and they perish at a callback or with the
process (`Perishes`). `Restarts` starts the application again beside them.

## Runs

| run | instance | shows |
|---|---|---|
| `solo` | one worker, a "move" mailbox and a feed whose items overlap, an ebook that is skipped, every inherited kind of legacy row, an add, a backfill of one, a reroute, deletes at any step | all the safety properties and the refinement `KeepsPromise` |
| `pair` | two workers on one mailbox with an add, a backfill, a reroute and a toggle; workers are symmetric | rows of delivered documents and the honesty of statuses survive overlapping workers (the order of the effects, and both of these, are proved for any number of them) |
| `live` | one worker, a newsletter without a permalink and a feed, a backfill of one, a reroute | `EventuallyFiled`, `EventuallyHandled`; the items do not overlap, so each must be filed by its own subscription |
| `overlap` | two workers, deletes | **violated:** `TombstonesHold` |
| `other_form` | one worker, a mail and a feed with the same permalink | **violated:** `NeverResurrects` |
| `limiter` | two threads, one bucket, one retry of each kind, Retry-After absent, 0, 3 or 6 | calls in turn: bounded attempts and sleeps, Retry-After kept; overlapping calls: paced sends apart, every bucket opens again |
| `frozen` | the same | **violated:** `NeverFrozen` |
| `cut_short` | the same | **violated:** `CooldownRunsItsTime` |
| `backfill` | up to five posts, four at first, pages of two: one row unusable, one behind a paywall, one known by another URL, an old post saved late; a limit of one, a date floor | what a completed walk may have missed and what its report may say, that each walk ends, that re-running fills every hole |
| `mailbox` | three messages, two copies of a newsletter around an ebook, an old and discardable first one, a web version filed elsewhere at any time; every policy | marks and moves follow the ledger, nobody else's messages are expunged, every message is handled in the end |
| `tui` | two threads, a command, a feed and a followed publication, three initiatives | rows are this run's, every sync and thread ends, which edits are lost, what the destination dialog may change |
| `sink` | two destinations, one of them with its token checked, interval 2, floor 3, longest wait 4, Retry-After 0, 1, 4, 6 or unreadable, client slots 1 or 3 away | bounded pushes, Retry-After heeded, saves apart |

Bounds: `MaxNew` is the largest `--posts` of a backfill (1); the other constants
are the finite sets of the instance, and nothing else is bounded - crashes,
faults, deletes, syncs and lost answers may happen any number of times. Two
subscriptions are needed for overlap and for a blocked destination to have a
later victim; two workers for every race the code has, since a race is between
one reader and one writer of a row; three hashes (mail, permalink, ebook) for
the two forms of one document and an item that is never recorded. `web` and
`utm` share a hash, so that normalization matters. In the `Pipeline` runs deadlock
is not checked: with no addable URL left and every worker idle the system may
rest; nor in `tui`, where the application may have ended for good.

In `limiter` the unit of time is the pacing interval; backoff 1, floor 2,
longest sleep and longest waited-out cooldown 3 keep the order of 2-10 s, 60 s and
120 s, and a Retry-After of 0, 3 or 6 lies below, at and above the limits. One
retry of each kind reaches every branch; the saturated counters (`sends`,
`since`, `seen429`) stop where no property tells higher values apart. Two
threads are the TUI's sync and backfill workers; the safety properties were also
checked once with three. The next slot is not kept across a trip: with three
threads, two calls under way may trip a bucket in turn and the later trip gives
out the slot of a call already asleep for it. `PacedSendsApart` excludes that case
(`rearmed`), and compares only requests that slept for a slot: retries, the
attempt after a waited-out cooldown and requests of a bucket without a slot go
out when they are due. `AttemptsBounded`, `BoundedSleep` and `RetryAfterHonoured`
are claimed of buckets whose calls have not overlapped (`shared`); what overlap
breaks is the subject of `frozen` and `cut_short`.

In `backfill` (`Newest`, `Initially`: posts) four posts make two full pages, so
that the second page is asked for by a cursor that has gone stale, and a fifth
may arrive at any moment; removals at any moment. Post 2 of the saved list has a
newer publication date than its place and post 4 an older one, which is what a
cursor of the wrong kind trips over. In `mailbox` three messages are the fewest
with two copies and something between them, and pages of two make the backfill
read twice; `Discardable` bounds what other clients delete, `Linked` which
messages link to a web version, `Settings` the policies and circumstances that
are tried. In `tui` `Initiatives` bounds what the user and the other processes
begin (edits, the destination dialog, syncs, hand edits of the file, restarts):
three are an edit, an overtaking edit and a sync, or a sync, a restart and a
second sync beside the first's thread; everything that follows from them, the
application's end included, is unbounded. Two threads are the sync of an
application that has ended and that of the next, or a second worker beside the
first, were the flag not kept. In `sink` the header values lie below, at and
above the interval, the floor and the longest wait; `Checked` names the sinks
whose client's bucket other requests use, `Hold` its slots, one shorter than the
interval and one longer; one push is under way at a time, as in the code, where
each run has its own sinks.

Every property has a mutant of the code that it catches (`PROJECT.json`); the
mutated forms stand next to the definition they replace and say what the bug
would be.

### Fairness

`FairSpec` assumes that a call under way goes on until it ends (weak fairness of
`Step`), that cron starts a sync again and again whatever else the worker is
used for (strong fairness of `StartSync`), and that faults of the network, the
providers, the mailbox and the machine stop at some time. An item found behind a
paywall and a token the provider rejects count among them: both fail an item for
as long as they last, and nothing is claimed while they do. A fault is a step of a
call, or a crash, that no working step (`Works`) could have been: a crash at the
end of a run, or a failed ack of a source without mailbox, leaves what success
leaves and is none. The code relies on no less: an item is deferred "to the next
sync run". A push of something a provider
never accepts (`Refused`) is not a fault and is never assumed to stop. Nothing
is assumed of adds, backfills or the user.

`RateLimit`'s `FairSpec` assumes that threads run, that the clock goes on and
that every request is answered or timed out (httpx's timeout is 30 s); nobody
need begin a call, and the server may refuse for ever.

`Backfill` assumes that a walk under way goes on (`Runs`); for
`RerunsFileEverything` alone also that faults stop and that somebody who wants
the whole archive runs it again, without a date. `EveryWalkEnds` uses `Runs`
only: only finitely many posts can arrive, and removals end too. `Mailbox`
assumes that runs go on, that cron starts syncs again and again, and that faults
stop (lost connections, crashes, failing items, a server that refuses to mark or
move what it holds). `SyncView` assumes that the worker threads run and that an
event handler of the subscription screen returns or raises (`HandlerReturns`),
for which workers' callbacks wait; nothing is assumed of the user, who may leave
the destination dialog open for ever. `Sink` states no fairness.

### Findings

* **Tombstones and overlapping calls** (`overlap`). The ledger check and
  `record_item` are not one transaction. Two syncs pass the check for one item;
  the first records it, the user deletes it, the second's upsert sets
  `deleted_at = NULL`. `state.py:226` promises that the row "stays in `items` so
  sync never re-pushes the item". With one worker the property holds (`solo`),
  and for any number of them as long as no two have articles with a common hash
  in hand (`OnlyTheUserRevives`): two calls on one article are all it takes, and
  nothing less does.
* **The other form** (`other_form`). `_already_ingested_as` looks up the
  submission's URL, but rows are recorded under the discovery URL alone. A mail
  filed under `mid:...` and submitted as its permalink leaves no row for the
  permalink; if the user deletes it and a feed lists the permalink, the document
  is pushed again, which the docstring (`pipeline.py:123`) says cannot happen.
* **Frozen behind a breaker** (`frozen`). `raise_if_blocked` and
  `reserve_send_slot` lock one after the other. A request that passed the
  breaker just before another thread tripped it gets the slot behind the whole
  cooldown and sleeps there, an hour after a `Retry-After: 3600`, although
  `http.py:66` says anything over 120 s "fails fast so an interactive sync isn't
  silently frozen". Calls in turn never sleep longer (`BoundedSleep`).
* **A cooldown cut short** (`cut_short`). `trip` overwrites the cooldown in force.
  Of two requests that passed the breaker the first trips it for a long time and
  the second for a short one; requests go out while the first cooldown, and the
  Retry-After behind it, still run, although `http.py:14` says they "fail fast
  (no network) until the cooldown passes". Nothing but such a trip cuts one short
  (`OnlyOverlapCutsShort`).

One remark is not a finding, as no text of the repository speaks of it:
`_backfill_outcome_message` looks at `new_items` and `stopped_reason` before it
looks at errors (`subscriptions.py:516-522`), so a walk all of whose items failed
says "full archive (0 posts) already ingested". `DrainedMeansFiled` is claimed of
walks that report no error.

## Proofs

`PipelineProofs` proves, for any number of workers, subscriptions and URLs, any
routing, feed, policy and legacy ledger allowed by `PipelineAssumption` and
`LedgerAssumption`:

| theorem | statement | argument |
|---|---|---|
| `TypeCorrect` | `Spec => []TypeOK` | `TypeInv` adds `CallOK`: where a call stands decides which of its locals are set, and that a backfill under way has something left |
| `PushPrecedesLedger` | `Spec => []RowsWereDelivered` | `PushedInv` adds that a call about to record was accepted; migrations keep a row's owner and URL together (`ConnectedDelivered`) |
| `NothingElseIsLost` | `Spec => []SentIsFiledOrLost` | inductive with `BareRows`: a missing row has the column default, so the key migration cannot overwrite a row with nothing; hence rows stay (`RowsStay`) |
| `LedgerPrecedesAck` | `Spec => []HandledIsFiled` | `HandledInv` adds that a call at its ack has seen or written the row; the four ways to the ack are `AckedWhenReached` |
| `BlockedForTheRun` | `Spec => []NoPushOnceLimited` | `LimitedInv`: a call may stand in the subscription that hit the limit only with nothing left to do |

`PipelineActionProofs` goes on from there:

| theorem | statement | argument |
|---|---|---|
| `OnlyTheUserDeletes` | `Spec => OnlyTheUserForgets` | `FormInv`: until the first `connect()` no worker has run and nothing is deleted; from then on no bare key holds a Shiori row, so that no migration moves or tombstones a row a worker wrote |
| `MigrationsAreIdempotent`, `MigrationsRunOnce` | `Connected(Connected(rows)) = Connected(rows)` where no bare Shiori key stands beside its prefixed form; `Spec => [](Connected(rows) = rows \/ Untouched)` | `FinalInv`: rows that are written later are in their final form already |
| `MigrationsNeverFail` | `Spec => []` no bare Shiori key beside its prefixed form | from the same forms; beside one the key migration would raise `IntegrityError`, which `connect()` does not catch (`state.py:131`) |
| `OkIsHonest` | `Spec => OkAccountsForAll` | `AccountInv`: what a sync has listed is still to do, in hand, acknowledged or paywalled, unless it has an error to report |
| `OnlyUnfiledIsPushed` | `Spec /\ []NoSharedItem => PushesOnlyUnfiled` | `UnfiledInv`: a subscription's call with an item in hand has seen no row for it, and nobody can have made one since |
| `OnlyLostIsPushedAgain` | `Spec /\ [](NoSharedItem /\ NoSharedForm) => RepushesOnlyLost` | the same with `SentIsFiledOrLost`: a document that was sent is, by one of the hashes it may be recorded under, filed or lost |
| `OnlyTheUserRevives` | `Spec /\ []NoSharedItem => TombstonesHold` | the same: a call that records has seen no tombstone, except for an add |
| `PromiseKept` | `Spec /\ []NoSharedItem => KeepsPromise` | `Mapped`: the invariants above under which each effect is a step of `Delivery`: `Push` reaches, `Record` owns, `Ack` settles, a delete forgets, `StartAdd` asks, a crash or a failed add withdraws; `connect()` leaves who owns what as it was (`ConnectedMapped`), and the other steps stutter |
| `OneWorkerKeepsAll` | all four hold of a single worker | a call shares nothing with itself; `TurnsKeepAll` says it of any number of workers whose calls do not overlap |
| `OnceThrough` | every step of a call `Advances` it | the subscriptions left, then the items left, then the way of the one in hand (`Ending`) |

`NoSharedItem` says that no two calls that build, push or record have articles
with a common hash in hand, and `NoSharedForm` that no call pushes a document
another is about to record under another item. They are hypotheses about the
environment (who starts calls when), not about the code, and not idle ones:
without `NoSharedItem`, `TombstonesHold` is false (`overlap`), since check and record are not one
transaction. Any single worker satisfies it, and so do overlapping workers on
different articles, crashed and restarted ones, and those that merely look at a
common feed.

The frame lemmas (`EveryFrame`) say once, action by action, which steps write
the ledger, reach a provider or a mailbox, or bring a call to the point where it
may; the invariants are then argued over those few steps. The assumptions say
only that the constants are typed and that every hash is the hash of some URL
(used for the URL of a legacy row).

`RateLimitProofs` proves, for any threads, buckets, headers and limits that
`RateLimitAssumption` allows (naturals; the backoff within the longest sleep,
the pacing interval within the floor, both cooldown limits in their order):

| theorem | statement | argument |
|---|---|---|
| `TypeCorrect` | `Spec => []TypeOK` | inductive as it stands |
| `CallsAreBounded` | `Spec => []AttemptsBounded` | `SerialInv`: a call has sent what it has counted and the request under way; past the last 429 retry its allowance is spent and nobody else is there to restore it |
| `OnlyOverlapCutsShort` | a step leaves at least what the clock leaves of a cooldown, unless it is a trip of a bucket whose calls have overlapped | `SerialInv`: a call is in a bucket only when nothing is left of its cooldown |
| `ServerIsHeeded` | `Spec => RetryAfterHonoured` | `SerialInv`: what is left of the wait asked for is covered by the call's sleep, or between two calls by the cooldown |
| `SleepsAreBounded` | `Spec => []BoundedSleep` | `WaitInv`: what each kind of sleep may still take, and that a bucket nobody is in gives its next slot within its cooldown or one interval |
| `PacedSendsAreApart` | `Spec => PacedSendsApart` | `PaceInv`: two calls asleep for slots of a bucket wake an interval apart, and the next slot lies an interval behind both |
| `CallsComeToAnEnd` | every step of a call is `Onward`, and no one else takes that back | allowance, then retries, then the place within the attempt (`Turn`); while calls do not overlap nobody restores the allowance, and `Tick` shortens sleeps |

`SerialInv` speaks of buckets whose calls never overlapped. `FrameKeeps` reduces
each step to the part of the call that takes it.

`BackfillProofs` (posts, pages, limits, dates and initial ledger as
`BackfillAssumption` allows):

| theorem | statement | argument |
|---|---|---|
| `TypeCorrect` | `Spec => []TypeOK` | a walk that goes on is below its limit; that a page has an oldest row is `LeastElement`, from the well-foundedness of the naturals |
| `SavedIsComplete` | `Spec => []SavedWalkComplete` | `SavedAhead`: what was on the list all along is on the page in hand, or older than a cursor the walk will still use; it follows at `FetchPage` since a row that is not on a page is older than all of it |
| `ArchiveLossIsBounded` | `Spec => []ArchiveLossBounded` | `ArchiveBehind`: the posts an offset has passed without yielding them (`Hidden`) are no more than those taken off. A page fills all the offsets up to its length (`PageFills`), an arrival only raises ranks, and a removal lowers one rank at most below the offset, since no two posts have one rank (`RankOrder`) |
| `DrainedIsFiled` | `Spec => []DrainedMeansFiled` | the two above, and `Unyielded`: what a walk that counted no error has left behind is what it was never given |
| `WalksComeToAnEnd` | a step of the walk is `Nearer` its end, one of the feed `Wanes` | `PagesLeft`: an offset below the posts listed, a cursor in time, or, where `after` is ignored, one page more, since the same page again is the last; then the rows of the page |

`MailboxProofs` (any folder, copies, ebooks, page size and policy):

| theorem | statement | argument |
|---|---|---|
| `TypeCorrect` | `Spec => []TypeOK` | with `Registered` and `AllRegistered`: a ref in hand leads to a message |
| `LedgerBeforeMailbox` | `Spec => []TouchedIsAccounted` | `AckIsAccounted`: whoever is about to ack has a row, of its own or of its web version, or an ebook nobody could tell; copies share what they are by assumption |
| `NeverExpunges` | `Spec => OnlyOwnersExpunge` | the folder shrinks in two actions only |
| `RunsComeToAnEnd` | a step of the run is `Onward`, and owners, other clients, other subscriptions and lost connections leave it `Unmoved` | the messages to do, then the page, then the step of the one in hand; a page is never empty (`NewestOf`) |

`SinkProofs` (any destinations, limits and headers, with a positive interval):

| theorem | statement | argument |
|---|---|---|
| `TypeCorrect` | `Spec => []TypeOK` | `FirstSleep`: before its first answer a push has slept for its slot alone |
| `PushesAreBounded` | `Spec => []BoundedPush` | the same, and the retry is worth waiting for |
| `ProvidersAreHeeded` | `Spec => RetryAfterHonoured` | `Owing`: what is owed is covered by the sleep under way or by the breaker |
| `SavesAreSpaced` | `Spec => SpacedUnlessLate` | `Slotted`: the slot given lies an interval after the last save, unless that came late |
| `PushesComeToAnEnd` | while a push is under way, every step is `Onward` or the clock's while its answer is on its way | `Stage`, then the sleep, which the client may add to once before each POST; no stage comes twice, so a push posts twice at most |

`SyncViewProofs` (any subscriptions, processes, threads, edits and first file):

| theorem | statement | argument |
|---|---|---|
| `TypeCorrect` | `Spec => []TypeOK` | edits make configurations of configurations (`EditsTheirOwn`); `CopyHeld`: a thread holds a copy exactly while it reconciles; `ScreenInv`: the screen exactly while it has an edit to save |
| `RowsAreTheRuns` | `Spec => []RowsAreThisRuns` | `Alone`: a worker not idle is the runner of the run in flight, or an orphan; `Consistent`: until it fails, rows and reports differ only in the subscription under way |
| `OnlyMissedAreLost` | `Spec => OnlyMissedEditsAreLost` | `CopiesAreCurrent`: a copy is the file but for what its writer has missed; an edit leaves alone what it does not concern (`EditsTheirOwn`) |
| `ReroutesTheSame` | `Spec => RerouteIsOfTheSame` | `Answered`: the copy the screen is to save has the dialog's row, as the dialog knew it |
| `FlagIsServed` | `Spec => []Served` | with `Alone`: whoever sets the flag leaves idle, and whoever goes idle clears it, is an orphan, or the application is gone |
| `SyncsComeToAnEnd` | a worker's own step is `Onward`, and nobody else, not even the end of the application, changes its place or what it has to do | `Stage`, then the subscriptions left, then the point within the one under way; from `Served`: a worker among items has a subscription to report |

The assumptions on constants are those named in the modules (`...Assumption`),
which TLC evaluates on every run.

Every invariant and action property of the passing runs, and the refinement, is
a theorem. Only model-checked are the liveness properties: `EventuallyFiled`,
both `EventuallyHandled`, `EveryCallEnds`, `Recovers`, `EveryWalkEnds`,
`RerunsFileEverything` and `EverySyncEnds`. They need fairness and `ENABLED`,
which the prover does not reason about. What they rest on besides fairness is
proved where it is a matter of single steps: `OnceThrough`, `CallsComeToAnEnd`,
`WalksComeToAnEnd`, `RunsComeToAnEnd`, `SyncsComeToAnEnd` and, for the sinks,
`PushesComeToAnEnd` say that each step takes a call, walk, run, sync or push on in a well-founded order. That such a step is
always possible is what TLC shows.

## Not modelled

* Parsing and rewriting without state: feeds, OPML, post and mail bodies, HTML
  cleaning, headers of articles, wire formats of IMAP and HTTP.
* URL normalization (`util/dedup.py`) is a constant function `DedupKey`: its
  rules work on characters, which the models do not have. The hazard stays
  listed without a property.
* `_resolve_without_discover` of the Substack source: an add by URL, one lookup
  without state.
* Location and URL validation of the sinks and the texts of their answers.
* Rendering, dialogs, the token probe, per-item counters and statistics of the
  TUI; prompts and output of the commands; partial selections of an import and
  the ledger's auto-import markers.
* Several configurations or ledgers, and the file system below them: a save is
  one rename, as the code makes it.

## Plan

Done, in the order of importance: `Pipeline` over `Ledger` with `Delivery`,
`RateLimit`, `Backfill`, `Mailbox`, `ConfigStore` with `SyncView`, `Sink`, each
with its proofs. Left:

1. The composition of `Pipeline` with `Sink`, whose breaker and blocked
   destinations meet only through the outcome of a push so far.
2. The auto-import markers of the ledger together with `ConfigStore`.
