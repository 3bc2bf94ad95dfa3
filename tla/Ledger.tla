------------------------------- MODULE Ledger -------------------------------
(***************************************************************************)
(* The dedup ledger of state.py: the rows of the SQLite table `items`,     *)
(* the lookups and writes the pipeline makes, and the forward migrations   *)
(* every connect() runs.  Operators only: the modules that own a ledger    *)
(* variable apply them in their actions.                                   *)
(*                                                                         *)
(* A row is kept down to what decides a lookup or a migration:             *)
(*   state   "absent" (no row), "live" (deleted_at IS NULL), "deleted"     *)
(*   origin  "push" (readwise_id set: written by pulpwise), "file" and     *)
(*           "gone" (rows of the older tool, with and without output_path) *)
(*   owner   the column `destination`                                      *)
(*   url     the column `canonical_url`                                    *)
(***************************************************************************)

CONSTANTS
  Url,       \* URLs a source lists or a submission carries
  NoUrl,     \* the URL column of a row that does not exist
  Base,      \* values of dedup_key(): hashes of normalized URLs
  DedupKey   \* the function dedup_key, from Url to Base

ASSUME LedgerAssumption ==
  /\ NoUrl \notin Url
  /\ DedupKey \in [Url -> Base]
  /\ \A b \in Base : \E u \in Url : DedupKey[u] = b

Destination == {"readwise", "shiori"}

\* A key is a hash, prefixed with "shiori:" for that destination.
Key == Destination \X Base

DestinationKey(url, destination) == <<destination, DedupKey[url]>>

\* Looking up the key of the default destination alone.
BareKeyOnly(url) == {DestinationKey(url, "readwise")}

SubscriptionKeys(url) == {DestinationKey(url, d) : d \in Destination}

-----------------------------------------------------------------------------
(* Rows.                                                                   *)

Row ==
  [state : {"absent", "live", "deleted"}, origin : {"none", "file", "gone", "push"},
   owner : Destination, url : Url \cup {NoUrl}]

NoRow == [state |-> "absent", origin |-> "none", owner |-> "readwise", url |-> NoUrl]

\* was_ingested: any row at all, tombstones included.
WasIngested(rows, key) == rows[key].state # "absent"

\* is_seen: a live row that has a document URL.
IsSeen(rows, key) == rows[key].state = "live" /\ rows[key].origin = "push"

\* is_seen where was_ingested is meant: tombstones no longer count.
IsSubscriptionSeen(rows, url) == \E key \in SubscriptionKeys(url) : IsSeen(rows, key)

WasSubscriptionIngested(rows, url) ==
  \E key \in SubscriptionKeys(url) : WasIngested(rows, key)

\* The submission's URL was ingested under a different discovery URL.
AlreadyIngestedAs(rows, submissionUrl, refKey) ==
  /\ refKey \notin SubscriptionKeys(submissionUrl)
  /\ WasSubscriptionIngested(rows, submissionUrl)

\* record_item: insert, or update the row in place and clear its tombstone.
RecordItem(rows, key, destination, submissionUrl) ==
  [rows EXCEPT ![key] = [state |-> "live", origin |-> "push",
                         owner |-> destination, url |-> submissionUrl]]

\* A DELETE in place of the tombstone.
DeleteItemForGood(rows, key) == [rows EXCEPT ![key] = NoRow]

\* delete_item: a tombstone; the row stays.
DeleteItem(rows, key) == [rows EXCEPT ![key].state = "deleted"]

-----------------------------------------------------------------------------
(* connect(): the migrations that change rows, in their order.             *)

\* A row under the prefixed key already stands where a bare one has to move:
\* the UPDATE raises IntegrityError, which connect() does not suppress.
KeysCollide(rows) ==
  \E b \in Base :
    /\ rows[<<"readwise", b>>].state # "absent" /\ rows[<<"readwise", b>>].owner = "shiori"
    /\ rows[<<"shiori", b>>].state # "absent"

\* Shiori rows written under a bare hash move to the prefixed key, on a ledger
\* where no keys collide.
PrefixShioriKeys(rows) ==
  [key \in Key |->
     LET bare == rows[<<"readwise", key[2]>>]
     IN  IF bare.owner = "shiori"
           THEN IF key[1] = "shiori" THEN bare ELSE NoRow
           ELSE rows[key]]

\* Without the guard on readwise_id every row pulpwise wrote itself, which
\* has no output_path either, would be tombstoned by the next connect().
BackfillTombstonesUnguarded(rows) ==
  [key \in Key |->
     IF rows[key].origin \in {"gone", "push"}
       THEN [rows[key] EXCEPT !.state = "deleted"] ELSE rows[key]]

\* Rows the older tool had soft-deleted (output_path NULL) get deleted_at.
BackfillTombstones(rows) ==
  [key \in Key |->
     IF rows[key].origin = "gone"
       THEN [rows[key] EXCEPT !.state = "deleted"] ELSE rows[key]]

Connected(rows) == BackfillTombstones(PrefixShioriKeys(rows))

\* The ledger as an older tool left it, from what it held for each hash.
LegacyKind == {"none", "file", "gone", "shiori"}

LegacyRow(kind, url) ==
  [state |-> "live", origin |-> IF kind = "shiori" THEN "push" ELSE kind,
   owner |-> IF kind = "shiori" THEN "shiori" ELSE "readwise", url |-> url]

LegacyLedger(past) ==
  [key \in Key |->
     IF key[1] = "shiori" \/ past[key[2]] = "none" THEN NoRow
     ELSE LegacyRow(past[key[2]], CHOOSE u \in Url : DedupKey[u] = key[2])]
=============================================================================
