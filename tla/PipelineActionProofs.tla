------------------------ MODULE PipelineActionProofs ------------------------
(***************************************************************************)
(* Theorems about the steps of Pipeline: what a step may never do to the   *)
(* ledger, to a document or to a subscription's status, for every          *)
(* configuration and any number of workers, and that calls which share no  *)
(* article implement Delivery.                                             *)
(***************************************************************************)
EXTENDS PipelineProofs

-----------------------------------------------------------------------------
(* Who writes the ledger.                                                  *)

\* A start connects, the user connects and deletes, a call under way records
\* or leaves the ledger alone.
LEMMA BusyLedger ==
  ASSUME NEW w \in Worker, Step(w) \/ Crash(w)
  PROVE  run[w].pc # "idle" /\ (rows' = rows \/ Record(w))
<1>1. (\/ NextSubscription(w) \/ FinishSync(w) \/ Discover(w) \/ DiscoverFails(w)
       \/ FinishSubscription(w) \/ FinishBackfill(w) \/ Crash(w))
        => run[w].pc # "idle" /\ rows' = rows
  BY DEF NextSubscription, FinishSync, Discover, DiscoverFails, FinishSubscription,
         FinishBackfill, Crash
<1>2. (\/ \E u \in run[w].todo : NextItem(w, u)
       \/ Build(w) \/ BuildSkips(w) \/ BuildFails(w) \/ BuildPaywalled(w)
       \/ BuildLimited(w))
        => run[w].pc # "idle" /\ rows' = rows
  BY DEF NextItem, Build, BuildSkips, BuildFails, BuildPaywalled, BuildLimited
<1>3. (\/ Push(w) \/ PushAnswerLost(w) \/ PushRefused(w) \/ PushLimited(w)
       \/ PushUnauthorized(w) \/ \E reached \in BOOLEAN : Ack(w, reached))
        => run[w].pc # "idle" /\ rows' = rows
  BY DEF Push, PushAnswerLost, Accepted, PushRefused, PushLimited, PushUnauthorized, Ack
<1>4. Record(w) => run[w].pc # "idle" BY DEF Record
<1> QED BY <1>1, <1>2, <1>3, <1>4 DEF Step

LEMMA LedgerActs ==
  ASSUME [Next]_vars
  PROVE  \/ UNCHANGED <<rows, run>>
         \/ rows' = Connected(rows)
         \/ \E key \in Key : UserDeletes(key)
         \/ \E w \in Worker : run[w].pc # "idle" /\ (rows' = rows \/ Record(w))
<1>1. CASE UNCHANGED vars BY <1>1 DEF vars
<1>2. CASE User BY <1>2 DEF User, UserReroutes, UserToggles
<1>3. ASSUME NEW w \in Worker, Step(w) \/ Crash(w)
      PROVE  run[w].pc # "idle" /\ (rows' = rows \/ Record(w))
  BY <1>3, BusyLedger
<1>4. ASSUME NEW w \in Worker,
             \/ StartSync(w)
             \/ \E s \in Sub, posts \in 1..MaxNew : StartBackfill(w, s, posts)
             \/ \E u \in Addable, d \in Destination : StartAdd(w, u, d)
      PROVE  rows' = Connected(rows)
  BY <1>4 DEF StartSync, StartBackfill, StartAdd
<1> QED BY <1>1, <1>2, <1>3, <1>4 DEF Next

\* What connect() makes of a row, in full.
LEMMA ConnectedIs ==
  ASSUME NEW f \in [Key -> Row], NEW key \in Key
  PROVE  LET bare == f[<<"readwise", key[2]>>]
             old == IF bare.owner = "shiori"
                      THEN IF key[1] = "shiori" THEN bare ELSE NoRow
                      ELSE f[key]
         IN  Connected(f)[key] =
               IF old.origin = "gone" THEN [old EXCEPT !.state = "deleted"] ELSE old
BY DEF Connected, BackfillTombstones, PrefixShioriKeys

-----------------------------------------------------------------------------
(* "connect() runs every migration, every time."  The first one makes the  *)
(* ledger's form final: until then nothing has touched what the older tool *)
(* left.                                                                   *)

\* No bare key holds a Shiori row.
Migrated == \A b \in Base : rows[<<"readwise", b>>].owner = "readwise"

Untouched ==
  /\ \A w \in Worker : run[w].pc = "idle"
  /\ \A key \in Key :
       rows[key].state # "deleted" /\ (key[1] = "shiori" => rows[key] = NoRow)

\* A row that is not there has the column defaults.
AbsentRows == \A key \in Key : rows[key].state = "absent" => rows[key] = NoRow

FormInv == AbsentRows /\ (Migrated \/ Untouched)

LEMMA UntouchedInit == Init => Untouched /\ AbsentRows
<1> SUFFICES ASSUME Init PROVE Untouched /\ AbsentRows OBVIOUS
<1>1. PICK past \in Past : rows = LegacyLedger(past) BY DEF Init
<1>2. \A w \in Worker : run[w].pc = "idle" BY DEF Init, Idle
<1>3. ASSUME NEW key \in Key
      PROVE  \/ rows[key] = NoRow
             \/ rows[key].state = "live" /\ key[1] # "shiori"
  BY <1>1 DEF LegacyLedger, LegacyRow
<1> QED BY <1>2, <1>3 DEF AbsentRows, Untouched, NoRow

LEMMA FormInit == Init => FormInv
BY UntouchedInit DEF FormInv

\* The migrations leave a form that they do not change again.
LEMMA ConnectedForm ==
  ASSUME TypeInv, FormInv
  PROVE  /\ \A key \in Key : Connected(rows)[key].state = "absent" =>
                               Connected(rows)[key] = NoRow
         /\ \A b \in Base : Connected(rows)[<<"readwise", b>>].owner = "readwise"
<1>1. rows \in [Key -> Row] BY DEF TypeInv, TypeOK
<1>2. ASSUME NEW key \in Key, Connected(rows)[key].state = "absent"
      PROVE  Connected(rows)[key] = NoRow
  <2> DEFINE bare == rows[<<"readwise", key[2]>>]
             old == IF bare.owner = "shiori"
                      THEN IF key[1] = "shiori" THEN bare ELSE NoRow
                      ELSE rows[key]
  <2>1. /\ old.state = "absent" => old = NoRow
        /\ old \in Row
    BY <1>1, KeyParts, NoRowType DEF FormInv, AbsentRows
  <2>2. Connected(rows)[key] =
          IF old.origin = "gone" THEN [old EXCEPT !.state = "deleted"] ELSE old
    BY <1>1, ConnectedIs
  <2> HIDE DEF old
  <2> QED BY <1>2, <2>1, <2>2 DEF Row
<1>3. ASSUME NEW b \in Base PROVE Connected(rows)[<<"readwise", b>>].owner = "readwise"
  <2>1. <<"readwise", b>> \in Key /\ rows[<<"readwise", b>>].owner \in Destination
    BY <1>1, KeyParts DEF Row
  <2> QED BY <1>1, <2>1, ConnectedRow DEF NoRow, Destination
<1> QED BY <1>2, <1>3

LEMMA FormStep == TypeInv /\ FormInv /\ [Next]_vars => FormInv'
<1> SUFFICES ASSUME TypeInv, FormInv, [Next]_vars PROVE FormInv' OBVIOUS
<1>1. CASE UNCHANGED <<rows, run>>
  BY <1>1 DEF FormInv, AbsentRows, Migrated, Untouched
<1>2. CASE rows' = Connected(rows)
  BY <1>2, ConnectedForm DEF FormInv, AbsentRows, Migrated
<1>3. ASSUME NEW k \in Key, UserDeletes(k) PROVE FormInv'
  <2>1. Connected(rows) \in [Key -> Row] /\ rows' = DeleteItem(Connected(rows), k)
    BY <1>3, ConnectedType DEF TypeInv, TypeOK, UserDeletes
  <2>2. ASSUME NEW key \in Key, rows'[key].state = "absent" PROVE rows'[key] = NoRow
    <3>1. key # k BY <2>1, <2>2, DeleteItemRow
    <3>2. rows'[key] = Connected(rows)[key] BY <2>1, <3>1 DEF DeleteItem
    <3> QED BY <2>2, <3>2, ConnectedForm
  <2>3. ASSUME NEW b \in Base PROVE rows'[<<"readwise", b>>].owner = "readwise"
    BY <2>1, DeleteItemRow, ConnectedForm, KeyParts
  <2> QED BY <2>2, <2>3 DEF FormInv, AbsentRows, Migrated
<1>4. ASSUME NEW w \in Worker, run[w].pc # "idle", rows' = rows PROVE FormInv'
  BY <1>4 DEF FormInv, AbsentRows, Migrated, Untouched
<1>5. ASSUME NEW w \in Worker, run[w].pc # "idle", Record(w) PROVE FormInv'
  <2>1. Migrated BY <1>5 DEF FormInv, Untouched
  <2>2. ASSUME NEW key \in Key, rows'[key].state = "absent" PROVE rows'[key] = NoRow
    BY <1>5, <2>2, RecordRow DEF FormInv, AbsentRows
  <2>3. ASSUME NEW b \in Base PROVE rows'[<<"readwise", b>>].owner = "readwise"
    <3>1. PICK key \in Key : key = <<"readwise", b>> BY KeyParts
    <3>2. run[w] \in Run /\ run[w].ref \in Url BY <1>5, RecordRow
    <3>3. RecordKey(run[w])[1] = run[w].via BY <3>2, SubmissionType
    <3> QED BY <1>5, <2>1, <3>1, <3>3, RecordRow DEF Migrated
  <2> QED BY <2>2, <2>3 DEF FormInv, AbsentRows, Migrated
<1> QED BY <1>1, <1>2, <1>3, <1>4, <1>5, LedgerActs

\* No migration tombstones a row pulpwise wrote.
LEMMA ConnectedSpares ==
  ASSUME TypeInv, FormInv, NEW key \in Key,
         rows[key].state = "live", rows[key].origin = "push"
  PROVE  Connected(rows)[key].state # "deleted"
<1>1. rows \in [Key -> Row] BY DEF TypeInv, TypeOK
<1>2. rows[<<"readwise", key[2]>>].owner = "shiori" => key[1] # "shiori"
  BY KeyParts DEF FormInv, Migrated, Untouched, NoRow
<1>3. CASE rows[<<"readwise", key[2]>>].owner = "shiori"
  <2>1. Connected(rows)[key].state = "absent"
    BY <1>1, <1>2, <1>3, ConnectedRow DEF NoRow
  <2> QED BY <2>1
<1>4. CASE rows[<<"readwise", key[2]>>].owner # "shiori"
  <2>1. Connected(rows)[key] = rows[key] BY <1>1, <1>4, ConnectedIs
  <2> QED BY <2>1
<1> QED BY <1>3, <1>4

\* Only the user's delete tombstones a document pulpwise sent: however often
\* the migrations run and whatever else the workers do, a row it wrote stays.
THEOREM OnlyTheUserDeletes == Spec => OnlyTheUserForgets
<1> DEFINE Holds ==
      \A key \in Key :
        rows[key].state = "live" /\ rows[key].origin = "push"
          /\ rows'[key].state = "deleted" => UserDeletes(key)
<1>1. ASSUME TypeInv, FormInv, [Next]_vars PROVE Holds
  <2> SUFFICES ASSUME NEW key \in Key, rows[key].state = "live",
                      rows[key].origin = "push", rows'[key].state = "deleted"
               PROVE  UserDeletes(key)
    OBVIOUS
  <2>1. rows' # rows /\ rows' # Connected(rows) BY <1>1, ConnectedSpares
  <2>2. ASSUME NEW w \in Worker, Record(w) PROVE FALSE BY <1>1, <2>2, RecordRow
  <2>3. PICK k \in Key : UserDeletes(k) BY <1>1, <2>1, <2>2, LedgerActs
  <2>4. Connected(rows) \in [Key -> Row] /\ rows' = DeleteItem(Connected(rows), k)
    BY <1>1, <2>3, ConnectedType DEF TypeInv, TypeOK, UserDeletes
  <2>5. k = key BY <1>1, <2>4, DeleteItemRow, ConnectedSpares
  <2> QED BY <2>3, <2>5
<1>2. TypeInv /\ FormInv /\ [Next]_vars => [Holds]_vars BY <1>1
<1> QED
  BY <1>2, TypeInit, TypeStep, FormInit, FormStep, PTL DEF Spec, OnlyTheUserForgets, Holds

-----------------------------------------------------------------------------
(* The migrations change the ledger once.  They run on every connect(),    *)
(* under every call and every screen, and must then leave it alone.        *)

\* Nothing is left for a migration to do.
Final(f) ==
  /\ \A b \in Base : f[<<"readwise", b>>].owner = "readwise"
  /\ \A key \in Key : f[key].origin = "gone" => f[key].state = "deleted"

LEMMA FinalIsFixed ==
  ASSUME NEW f \in [Key -> Row], Final(f)
  PROVE  Connected(f) = f
<1>1. ASSUME NEW key \in Key PROVE Connected(f)[key] = f[key]
  <2>1. f[key] \in Row /\ f[<<"readwise", key[2]>>].owner # "shiori"
    BY KeyParts DEF Final
  <2>2. Connected(f)[key] =
          IF f[key].origin = "gone" THEN [f[key] EXCEPT !.state = "deleted"] ELSE f[key]
    BY <2>1, ConnectedIs
  <2>3. f[key].origin = "gone" => [f[key] EXCEPT !.state = "deleted"] = f[key]
    BY <2>1 DEF Final, Row
  <2> QED BY <2>2, <2>3
<1>2. Connected(f) = [key \in Key |-> Connected(f)[key]]
  BY DEF Connected, BackfillTombstones
<1> QED BY <1>1, <1>2

\* Whatever ledger they find, the migrations finish with it in one pass.
LEMMA ConnectedIsFinal ==
  ASSUME NEW f \in [Key -> Row]
  PROVE  Final(Connected(f))
<1>1. ASSUME NEW b \in Base PROVE Connected(f)[<<"readwise", b>>].owner = "readwise"
  <2>1. <<"readwise", b>> \in Key /\ f[<<"readwise", b>>].owner \in Destination
    BY KeyParts DEF Row
  <2> QED BY <2>1, ConnectedRow DEF NoRow, Destination
<1>2. ASSUME NEW key \in Key, Connected(f)[key].origin = "gone"
      PROVE  Connected(f)[key].state = "deleted"
  <2> DEFINE bare == f[<<"readwise", key[2]>>]
             old == IF bare.owner = "shiori"
                      THEN IF key[1] = "shiori" THEN bare ELSE NoRow
                      ELSE f[key]
  <2>1. old \in Row BY KeyParts, NoRowType
  <2>2. Connected(f)[key] =
          IF old.origin = "gone" THEN [old EXCEPT !.state = "deleted"] ELSE old
    BY ConnectedIs
  <2> HIDE DEF old
  <2> QED BY <1>2, <2>1, <2>2 DEF Row
<1> QED BY <1>1, <1>2 DEF Final

\* connect() is idempotent on every ledger it opens at all, well-formed rows and
\* no colliding keys being all it asks: a second connect() opens it too and
\* changes nothing.
THEOREM MigrationsAreIdempotent ==
  \A f \in [Key -> Row] :
    ~KeysCollide(f) => ~KeysCollide(Connected(f)) /\ Connected(Connected(f)) = Connected(f)
BY ConnectedType, ConnectedIsFinal, FinalIsFixed DEF Final, KeysCollide

\* No connect() ever fails on keys that collide: until the first one only bare
\* keys have rows, after it no bare key holds a Shiori row, whoever writes.
THEOREM MigrationsNeverFail == Spec => []~KeysCollide(rows)
<1>1. ASSUME FormInv, NEW b \in Base, rows[<<"readwise", b>>].owner = "shiori"
      PROVE  rows[<<"shiori", b>>].state = "absent"
  <2>1. Untouched BY <1>1 DEF FormInv, Migrated
  <2>2. PICK key \in Key : key = <<"shiori", b>> BY KeyParts
  <2>3. rows[key] = NoRow BY <2>1, <2>2 DEF Untouched
  <2> QED BY <2>2, <2>3 DEF NoRow
<1>2. FormInv => ~KeysCollide(rows) BY <1>1 DEF KeysCollide
<1> QED BY <1>2, TypeInit, TypeStep, FormInit, FormStep, PTL DEF Spec

FinalInv == Final(rows) \/ Untouched

LEMMA FinalStep == TypeInv /\ FormInv /\ FinalInv /\ [Next]_vars => FinalInv'
<1> SUFFICES ASSUME TypeInv, FormInv, FinalInv, [Next]_vars PROVE FinalInv' OBVIOUS
<1>1. rows \in [Key -> Row] /\ Connected(rows) \in [Key -> Row]
  BY ConnectedType DEF TypeInv, TypeOK
<1>2. Final(Connected(rows)) BY <1>1, ConnectedIsFinal
<1>3. CASE UNCHANGED <<rows, run>> BY <1>3 DEF FinalInv, Final, Untouched
<1>4. CASE rows' = Connected(rows) BY <1>2, <1>4 DEF FinalInv, Final
<1>5. ASSUME NEW k \in Key, UserDeletes(k) PROVE FinalInv'
  <2>1. rows' = DeleteItem(Connected(rows), k) BY <1>5 DEF UserDeletes
  <2>2. ASSUME NEW b \in Base PROVE rows'[<<"readwise", b>>].owner = "readwise"
    BY <1>1, <1>2, <2>1, DeleteItemRow, KeyParts DEF Final
  <2>3. ASSUME NEW key \in Key, rows'[key].origin = "gone"
        PROVE  rows'[key].state = "deleted"
    BY <1>1, <1>2, <2>1, <2>3, DeleteItemRow DEF Final
  <2> QED BY <2>2, <2>3 DEF FinalInv, Final
<1>6. ASSUME NEW w \in Worker, run[w].pc # "idle", rows' = rows PROVE FinalInv'
  BY <1>6 DEF FinalInv, Final, Untouched
<1>7. ASSUME NEW w \in Worker, run[w].pc # "idle", Record(w) PROVE FinalInv'
  <2>1. Final(rows) BY <1>7 DEF FinalInv, Untouched
  <2>2. RecordKey(run[w])[1] = run[w].via BY <1>7, RecordRow, SubmissionType
  <2>3. ASSUME NEW b \in Base PROVE rows'[<<"readwise", b>>].owner = "readwise"
    <3>1. PICK key \in Key : key = <<"readwise", b>> BY KeyParts
    <3> QED BY <1>7, <2>1, <2>2, <3>1, RecordRow DEF Final
  <2>4. ASSUME NEW key \in Key, rows'[key].origin = "gone"
        PROVE  rows'[key].state = "deleted"
    BY <1>7, <2>1, <2>4, RecordRow DEF Final
  <2> QED BY <2>3, <2>4 DEF FinalInv, Final
<1> QED BY <1>3, <1>4, <1>5, <1>6, <1>7, LedgerActs

\* The first connect() does all the migrations ever do.  From then on every
\* other one, whoever makes it and whatever was written, deleted or added by
\* hand in between, finds the ledger as it would leave it.
THEOREM MigrationsRunOnce == Spec => [](Connected(rows) = rows \/ Untouched)
<1>1. TypeInv /\ FinalInv => Connected(rows) = rows \/ Untouched
  BY FinalIsFixed DEF FinalInv, TypeInv, TypeOK
<1>2. Init => FinalInv BY UntouchedInit DEF FinalInv
<1> QED
  BY <1>1, <1>2, TypeInit, TypeStep, FormInit, FormStep, FinalStep, PTL DEF Spec

-----------------------------------------------------------------------------
(* "ok" accounts for all.  What a sync has listed it still has to do, has  *)
(* in hand, or has accounted for, unless it has an error to report.        *)

Accounts(r) ==
  r.kind = "sync" /\ r.pc \in {"items"} \cup ItemPc /\ ~r.errs =>
    \A u \in r.refs :
      \/ u \in r.todo
      \/ r.pc \in ItemPc /\ u = r.ref
      \/ Acked(r.sub, u)
      \/ u \in r.walled

AccountInv == \A w \in Worker : Accounts(run[w])

\* A call that goes on with the item it has in hand.
LEMMA InHandAccounts ==
  ASSUME NEW r, NEW q, Accounts(r), r.pc \in ItemPc, q.pc \in ItemPc,
         q.kind = r.kind, q.sub = r.sub, q.refs = r.refs, q.todo = r.todo,
         q.ref = r.ref, q.walled = r.walled, q.errs = r.errs
  PROVE  Accounts(q)
BY DEF Accounts

\* One that gives the item up says so.
LEMMA DroppedAccounts ==
  ASSUME NEW r \in Run, CallOK(r), r.pc \in ItemPc
  PROVE  Accounts(Dropped(r, TRUE))
<1>1. CASE r.kind = "add" BY <1>1 DEF Dropped, Idle, Accounts, ItemPc
<1>2. CASE r.kind # "add"
  <2>1. Dropped(r, TRUE).errs BY <1>2 DEF Dropped, Run
  <2> QED BY <2>1 DEF Accounts
<1> QED BY <1>1, <1>2

LEMMA LimitedAccounts ==
  ASSUME NEW r \in Run, CallOK(r), r.pc \in ItemPc, NEW hosts \in SUBSET Destination
  PROVE  Accounts(Limited(r, hosts))
<1>1. CASE r.kind = "sync"
  <2> DEFINE q == [r EXCEPT !.pc = "items", !.ref = NoUrl, !.errs = @ \/ TRUE]
  <2>1. q \in Run /\ q.errs = TRUE BY DEF Run, Pc
  <2>2. Limited(r, hosts) = [q EXCEPT !.todo = {}, !.blocked = @ \cup hosts]
    BY <1>1 DEF Limited, Dropped
  <2> HIDE DEF q
  <2>3. Limited(r, hosts).errs = TRUE BY <2>1, <2>2 DEF Run
  <2> QED BY <2>3 DEF Accounts
<1>2. CASE r.kind # "sync" BY <1>2 DEF Limited, Idle, Accounts, ItemPc
<1> QED BY <1>1, <1>2

LEMMA StepAccounts ==
  ASSUME TypeInv, HandledInv, AccountInv, NEW w \in Worker, Step(w) \/ Crash(w)
  PROVE  Accounts(run'[w])
<1> DEFINE r == run[w]
<1>1. run \in [Worker -> Run] /\ r \in Run /\ CallOK(r) /\ Accounts(r)
  BY DEF TypeInv, TypeOK, CallsOK, AccountInv
<1>2. Accounts(Idle) BY DEF Accounts, Idle, ItemPc
<1>3. CASE NextSubscription(w)
  <2> DEFINE s == Head(r.queue)
             passed == [r EXCEPT !.queue = Tail(r.queue)]
             begun == [r EXCEPT !.pc = "discover", !.queue = Tail(r.queue), !.sub = s,
                                !.via = r.plan[s], !.errs = FALSE, !.walled = {}]
  <2>1. r.pc = "next" /\ (run'[w] = passed \/ run'[w] = begun)
    BY <1>1, <1>3 DEF NextSubscription
  <2>2. passed.pc = "next" /\ begun.pc = "discover" BY <1>1, <2>1 DEF Run
  <2> HIDE DEF passed, begun
  <2> QED BY <2>1, <2>2 DEF Accounts, ItemPc
<1>4. CASE FinishSync(w) \/ FinishBackfill(w) \/ PushUnauthorized(w) \/ Crash(w)
  BY <1>1, <1>2, <1>4 DEF FinishSync, FinishBackfill, PushUnauthorized, Crash
<1>5. CASE Discover(w)
  <2> DEFINE found == Listed(r.sub, Feed[r.sub])
             listed == [r EXCEPT !.pc = "items", !.refs = found, !.todo = found]
  <2>1. run'[w] = listed BY <1>1, <1>5 DEF Discover, Run
  <2> HIDE DEF found
  <2>2. listed.refs = listed.todo BY <1>1 DEF Run
  <2> QED BY <2>1, <2>2 DEF Accounts
<1>6. CASE DiscoverFails(w) \/ FinishSubscription(w)
  <2>1. run'[w] = AfterSubscription(r)
    BY <1>1, <1>6 DEF DiscoverFails, FinishSubscription
  <2>2. AfterSubscription(r).pc = "next" BY <1>1 DEF AfterSubscription, Run
  <2> QED BY <2>1, <2>2 DEF Accounts, ItemPc
<1>7. ASSUME NEW u \in r.todo, NextItem(w, u) PROVE Accounts(run'[w])
  <2>1. /\ r.pc = "items" /\ run'[w].pc \in ItemPc /\ run'[w].ref = u
        /\ run'[w].todo = r.todo \ {u} /\ run'[w].kind = r.kind
        /\ run'[w].sub = r.sub /\ run'[w].refs = r.refs
        /\ run'[w].walled = r.walled /\ run'[w].errs = r.errs
    BY <1>1, <1>7 DEF NextItem, Run, ItemPc
  <2> QED BY <1>1, <2>1 DEF Accounts, ItemPc
<1>8. CASE Build(w) \/ BuildSkips(w) \/ Push(w)
  <2>1. PICK pc \in {"push", "ack", "record"} :
          run'[w] = Idle \/ run'[w] = [r EXCEPT !.pc = pc]
    BY <1>1, <1>8 DEF Build, BuildSkips, Push
  <2>2. r.pc \in ItemPc BY <1>8 DEF Build, BuildSkips, Push, Accepted, ItemPc
  <2>3. CASE run'[w] = [r EXCEPT !.pc = pc]
    <3> DEFINE q == [r EXCEPT !.pc = pc]
    <3>1. /\ q.pc \in ItemPc /\ q.kind = r.kind /\ q.sub = r.sub /\ q.refs = r.refs
          /\ q.todo = r.todo /\ q.ref = r.ref /\ q.walled = r.walled /\ q.errs = r.errs
      BY <1>1 DEF Run, ItemPc
    <3> HIDE DEF q
    <3>2. Accounts(q) BY <1>1, <2>2, <3>1, InHandAccounts
    <3> QED BY <2>3, <3>2 DEF q
  <2> QED BY <1>2, <2>1, <2>3
<1>9. CASE BuildFails(w) \/ PushAnswerLost(w) \/ PushRefused(w)
  <2>1. r.pc \in ItemPc /\ run'[w] = Dropped(r, TRUE)
    BY <1>1, <1>9 DEF BuildFails, PushAnswerLost, Accepted, PushRefused, ItemPc
  <2> QED BY <1>1, <2>1, DroppedAccounts
<1>10. CASE BuildPaywalled(w)
  <2> DEFINE q == [r EXCEPT !.pc = "items", !.ref = NoUrl, !.errs = @ \/ FALSE]
             walled == [q EXCEPT !.walled = @ \cup {r.ref}]
  <2>1. r.pc \in ItemPc /\ run'[w] = IF r.kind = "add" THEN Idle ELSE walled
    BY <1>1, <1>10 DEF BuildPaywalled, Dropped, ItemPc
  <2>2. /\ q \in Run /\ q.kind = r.kind /\ q.sub = r.sub /\ q.refs = r.refs
        /\ q.todo = r.todo /\ q.walled = r.walled /\ q.errs = r.errs
    BY <1>1 DEF Run, Pc
  <2> HIDE DEF q
  <2>3. /\ walled.kind = r.kind /\ walled.sub = r.sub /\ walled.refs = r.refs
        /\ walled.todo = r.todo /\ walled.walled = r.walled \cup {r.ref}
        /\ walled.errs = r.errs
    BY <2>2 DEF Run
  <2> HIDE DEF walled
  <2>4. Accounts(walled) BY <1>1, <2>1, <2>3 DEF Accounts
  <2> QED BY <1>2, <2>1, <2>4
<1>11. CASE BuildLimited(w) \/ PushLimited(w)
  <2>1. PICK hosts \in SUBSET Destination : run'[w] = Limited(r, hosts)
    BY <1>1, <1>11 DEF BuildLimited, PushLimited, Run
  <2>2. r.pc \in ItemPc BY <1>11 DEF BuildLimited, PushLimited, ItemPc
  <2> QED BY <1>1, <2>1, <2>2, LimitedAccounts
<1>12. CASE Record(w)
  <2> DEFINE left == IF r.kind = "backfill" THEN r.left - 1 ELSE r.left
             recorded == [r EXCEPT !.pc = "ack", !.left = left]
  <2>1. r.pc \in ItemPc /\ run'[w] = IF r.kind = "add" THEN Idle ELSE recorded
    BY <1>1, <1>12 DEF Record, ItemPc
  <2> HIDE DEF left
  <2>2. /\ recorded.pc \in ItemPc /\ recorded.kind = r.kind /\ recorded.sub = r.sub
        /\ recorded.refs = r.refs /\ recorded.todo = r.todo /\ recorded.ref = r.ref
        /\ recorded.walled = r.walled /\ recorded.errs = r.errs
    BY <1>1 DEF Run, ItemPc
  <2> HIDE DEF recorded
  <2>3. Accounts(recorded) BY <1>1, <2>1, <2>2, InHandAccounts
  <2> QED BY <1>2, <2>1, <2>3
<1>13. ASSUME NEW reached \in BOOLEAN, Ack(w, reached) PROVE Accounts(run'[w])
  <2> DEFINE q == [r EXCEPT !.pc = "items", !.ref = NoUrl]
  <2>1. r.pc = "ack" /\ run'[w] = q BY <1>1, <1>13 DEF Ack, Run
  <2>2. Acked(r.sub, r.ref) BY <2>1 DEF HandledInv
  <2>3. /\ q.kind = r.kind /\ q.sub = r.sub /\ q.refs = r.refs
        /\ q.todo = r.todo /\ q.walled = r.walled /\ q.errs = r.errs
    BY <1>1 DEF Run
  <2> HIDE DEF q
  <2> QED BY <1>1, <2>1, <2>2, <2>3 DEF Accounts, ItemPc
<1> QED
  BY <1>3, <1>4, <1>5, <1>6, <1>7, <1>8, <1>9, <1>10, <1>11, <1>12, <1>13 DEF Step

LEMMA StartAccounts ==
  ASSUME TypeInv, AccountInv, NEW w \in Worker,
         \/ StartSync(w)
         \/ \E s \in Sub, posts \in 1..MaxNew : StartBackfill(w, s, posts)
         \/ \E u \in Addable, d \in Destination : StartAdd(w, u, d)
  PROVE  Accounts(run'[w])
<1>1. run \in [Worker -> Run] /\ Idle \in Run BY IdleOK DEF TypeInv, TypeOK
<1>2. CASE StartSync(w)
  <2>1. run'[w].pc = "next" BY <1>1, <1>2 DEF StartSync, Run
  <2> QED BY <2>1 DEF Accounts, ItemPc
<1>3. ASSUME NEW s \in Sub, NEW posts \in 1..MaxNew, StartBackfill(w, s, posts)
      PROVE  run'[w].kind # "sync"
  BY <1>1, <1>3 DEF StartBackfill, Run
<1>4. ASSUME NEW u \in Addable, NEW d \in Destination, StartAdd(w, u, d)
      PROVE  run'[w] = run[w] \/ run'[w].kind # "sync"
  BY <1>1, <1>4 DEF StartAdd, Run
<1> QED BY <1>2, <1>3, <1>4 DEF Accounts, AccountInv

LEMMA AccountStep ==
  TypeInv /\ BareRows /\ HandledInv /\ AccountInv /\ [Next]_vars => AccountInv'
<1> SUFFICES ASSUME TypeInv, BareRows, HandledInv, AccountInv, [Next]_vars,
                    NEW v \in Worker
             PROVE  Accounts(run[v])'
  BY DEF AccountInv
<1>1. Accounts(run'[v])
  <2>1. CASE run' = run BY <2>1 DEF AccountInv, Accounts
  <2>2. ASSUME NEW w \in Worker, StartSync(w)
                 \/ (\E s \in Sub, posts \in 1..MaxNew : StartBackfill(w, s, posts))
                 \/ (\E u \in Addable, d \in Destination : StartAdd(w, u, d))
                 \/ Step(w) \/ Crash(w)
        PROVE  Accounts(run'[v])
    <3>1. CASE v = w BY <2>2, <3>1, StartAccounts, StepAccounts
    <3>2. CASE v # w
      <4>1. run'[v] = run[v] BY <2>2, <3>2, OthersStand
      <4> QED BY <4>1 DEF AccountInv
    <3> QED BY <3>1, <3>2
  <2> QED
    BY <2>1, <2>2 DEF Next, User, UserDeletes, UserReroutes, UserToggles, vars
<1>2. CallOK(run'[v]) /\ run'[v] \in Run
  BY TypeStep DEF TypeInv, TypeOK, CallsOK
<1>3. PICK q \in Run : q = run'[v] BY <1>2
<1>4. ASSUME q.kind = "sync", q.pc \in {"items"} \cup ItemPc, ~q.errs, NEW u \in q.refs
      PROVE  \/ u \in q.todo \/ (q.pc \in ItemPc /\ u = q.ref)
             \/ Acked(q.sub, u)' \/ u \in q.walled
  <2>1. \/ u \in q.todo \/ (q.pc \in ItemPc /\ u = q.ref)
        \/ Acked(q.sub, u) \/ u \in q.walled
    BY <1>1, <1>3, <1>4 DEF Accounts
  <2>2. PICK s \in Sub : s = q.sub BY <1>2, <1>3, <1>4 DEF CallOK, ItemPc
  <2>3. u \in Url BY <1>3, <1>4 DEF Run
  <2>4. Acked(s, u) => Acked(s, u)' BY <2>3, AckedStays
  <2>5. Acked(q.sub, u) => Acked(q.sub, u)' BY <2>2, <2>4
  <2> QED BY <2>1, <2>5
<1>5. Accounts(q)'
  BY <1>4 DEF Accounts, ItemPc
<1> QED BY <1>3, <1>5 DEF Accounts

\* A subscription is reported "ok" only when all its feed listed is in the
\* ledger, is not content, or is reported as paywalled: an item that was
\* skipped, deferred or dropped on the way shows in the status.
THEOREM OkIsHonest == Spec => OkAccountsForAll
<1> DEFINE Holds ==
      \A w \in Worker :
        FinishSubscription(w) /\ status'[run[w].sub] = "ok" =>
          \A u \in run[w].refs : Accounted(run[w], u)
<1>1. ASSUME TypeInv, AccountInv PROVE Holds
  <2> SUFFICES ASSUME NEW w \in Worker, FinishSubscription(w),
                      status'[run[w].sub] = "ok", NEW u \in run[w].refs
               PROVE  Accounted(run[w], u)
    OBVIOUS
  <2>1. run[w].pc = "items" /\ run[w].todo = {} /\ run[w].kind = "sync"
    BY DEF FinishSubscription
  <2>2. run[w].sub \in Sub BY <1>1, <2>1 DEF TypeInv, CallsOK, CallOK
  <2>3. ~run[w].errs BY <1>1, <2>2 DEF FinishSubscription, TypeInv, TypeOK
  <2> QED BY <1>1, <2>1, <2>3 DEF AccountInv, Accounts, Acked, Accounted, ItemPc
<1>2. TypeInv /\ AccountInv /\ [Next]_vars => [Holds]_vars BY <1>1
<1>3. Init => AccountInv BY DEF Init, AccountInv, Accounts, Idle, ItemPc
<1>4. Init => HandledInv BY DEF Init, HandledInv, HandledIsFiled, Idle
<1> QED
  BY <1>2, <1>3, <1>4, TypeInit, TypeStep, BareInit, BareStep, HandledStep, AccountStep, PTL
  DEF Spec, OkAccountsForAll, Holds

-----------------------------------------------------------------------------
(* A call goes through its work once.  Nothing fails back to an earlier    *)
(* point: a subscription that is left is not visited again, an item that   *)
(* is taken is not taken again, and an item only moves on or is dropped.   *)
(* With finite feeds this is why every call ends.                          *)

Ending == [items |-> 0, ack |-> 1, record |-> 2, push |-> 3, build |-> 4]

Listing(r) == r.pc \in {"items"} \cup ItemPc

\* The steps of a call, from r to q, in the order they go through its work.
Advances(r, q) ==
  \/ q.pc = "idle"
  \/ Len(q.queue) < Len(r.queue)
  \/ /\ q.queue = r.queue
     /\ \/ r.pc = "discover" /\ q.pc \in {"items", "next"}
        \/ Listing(r) /\ q.pc = "next"
        \/ /\ Listing(r) /\ Listing(q) /\ q.refs = r.refs /\ q.todo \subseteq r.todo
           /\ q.todo # r.todo \/ Ending[q.pc] < Ending[r.pc]

LEMMA EndingIs ==
  /\ Ending["build"] = 4 /\ Ending["push"] = 3 /\ Ending["record"] = 2
  /\ Ending["ack"] = 1 /\ Ending["items"] = 0
BY DEF Ending

\* An item that is dropped, or put to its next step.
LEMMA MovesOn ==
  ASSUME NEW r, NEW q, Listing(r), Listing(q), q.queue = r.queue, q.refs = r.refs,
         q.todo \subseteq r.todo, Ending[q.pc] < Ending[r.pc]
  PROVE  Advances(r, q)
BY DEF Advances

LEMMA DroppedAdvances ==
  ASSUME NEW r \in Run, r.pc \in {"build", "push"}, NEW failed \in BOOLEAN
  PROVE  Advances(r, Dropped(r, failed))
<1>1. CASE r.kind = "add" BY <1>1 DEF Dropped, Idle, Advances
<1>2. CASE r.kind # "add"
  <2> DEFINE q == [r EXCEPT !.pc = "items", !.ref = NoUrl, !.errs = @ \/ failed]
  <2>1. Dropped(r, failed) = q BY <1>2 DEF Dropped
  <2>2. q.pc = "items" /\ q.queue = r.queue /\ q.refs = r.refs /\ q.todo = r.todo
    BY DEF Run
  <2> HIDE DEF q
  <2>3. Advances(r, q) BY <2>2, EndingIs, MovesOn DEF Listing, ItemPc
  <2> QED BY <2>1, <2>3
<1> QED BY <1>1, <1>2

LEMMA LimitedAdvances ==
  ASSUME NEW r \in Run, r.pc \in {"build", "push"}, NEW hosts \in SUBSET Destination
  PROVE  Advances(r, Limited(r, hosts))
<1>1. CASE r.kind = "sync"
  <2> DEFINE q == [r EXCEPT !.pc = "items", !.ref = NoUrl, !.errs = @ \/ TRUE]
             l == [q EXCEPT !.todo = {}, !.blocked = @ \cup hosts]
  <2>1. /\ q \in Run /\ q.pc = "items" /\ q.queue = r.queue /\ q.refs = r.refs
    BY DEF Run, Pc
  <2>2. Limited(r, hosts) = l BY <1>1 DEF Limited, Dropped
  <2> HIDE DEF q
  <2>3. l.pc = "items" /\ l.queue = r.queue /\ l.refs = r.refs /\ l.todo = {}
    BY <2>1 DEF Run
  <2> HIDE DEF l
  <2>4. Advances(r, l) BY <2>3, EndingIs, MovesOn DEF Listing, ItemPc
  <2> QED BY <2>2, <2>4
<1>2. CASE r.kind # "sync" BY <1>2 DEF Limited, Idle, Advances
<1> QED BY <1>1, <1>2

LEMMA StepAdvances ==
  ASSUME TypeInv, NEW w \in Worker, Step(w)
  PROVE  Advances(run[w], run'[w])
<1> DEFINE r == run[w]
<1>1. run \in [Worker -> Run] /\ r \in Run /\ CallOK(r)
  BY DEF TypeInv, TypeOK, CallsOK
<1>2. Advances(r, Idle) BY DEF Advances, Idle
<1>3. CASE NextSubscription(w)
  <2> DEFINE s == Head(r.queue)
             passed == [r EXCEPT !.queue = Tail(r.queue)]
             begun == [r EXCEPT !.pc = "discover", !.queue = Tail(r.queue), !.sub = s,
                                !.via = r.plan[s], !.errs = FALSE, !.walled = {}]
  <2>1. r.queue # <<>> /\ (run'[w] = passed \/ run'[w] = begun)
    BY <1>1, <1>3 DEF NextSubscription
  <2>2. passed.queue = Tail(r.queue) /\ begun.queue = Tail(r.queue) BY <1>1 DEF Run
  <2>3. r.queue \in Seq(Sub) BY <1>1 DEF Run
  <2>4. Len(Tail(r.queue)) < Len(r.queue) BY <2>1, <2>3
  <2> HIDE DEF passed, begun
  <2> QED BY <2>1, <2>2, <2>4 DEF Advances
<1>4. CASE FinishSync(w) \/ FinishBackfill(w) \/ PushUnauthorized(w)
  BY <1>1, <1>2, <1>4 DEF FinishSync, FinishBackfill, PushUnauthorized
<1>5. CASE Discover(w)
  <2> DEFINE found == Listed(r.sub, Feed[r.sub])
             listed == [r EXCEPT !.pc = "items", !.refs = found, !.todo = found]
  <2>1. r.pc = "discover" /\ run'[w] = listed BY <1>1, <1>5 DEF Discover, Run
  <2>2. listed.pc = "items" /\ listed.queue = r.queue BY <1>1 DEF Run
  <2> HIDE DEF listed
  <2> QED BY <2>1, <2>2 DEF Advances
<1>6. CASE DiscoverFails(w) \/ FinishSubscription(w)
  <2>1. r.pc \in {"discover", "items"} /\ run'[w] = AfterSubscription(r)
    BY <1>1, <1>6 DEF DiscoverFails, FinishSubscription
  <2>2. AfterSubscription(r).pc = "next" /\ AfterSubscription(r).queue = r.queue
    BY <1>1 DEF AfterSubscription, Run
  <2> QED BY <2>1, <2>2 DEF Advances, Listing
<1>7. ASSUME NEW u \in r.todo, NextItem(w, u) PROVE Advances(r, run'[w])
  <2>1. /\ r.pc = "items" /\ run'[w].pc \in ItemPc /\ run'[w].queue = r.queue
        /\ run'[w].refs = r.refs /\ run'[w].todo = r.todo \ {u}
    BY <1>1, <1>7 DEF NextItem, Run, ItemPc
  <2> QED BY <2>1 DEF Advances, Listing
<1>8. CASE Build(w) \/ BuildSkips(w) \/ Push(w)
  <2>1. ASSUME NEW pc \in {"push", "ack", "record"}, r.pc \in {"build", "push"},
               Ending[pc] < Ending[r.pc]
        PROVE  Advances(r, [r EXCEPT !.pc = pc])
    <3> DEFINE q == [r EXCEPT !.pc = pc]
    <3>1. q.pc = pc /\ q.queue = r.queue /\ q.refs = r.refs /\ q.todo = r.todo
      BY <1>1 DEF Run
    <3> HIDE DEF q
    <3>2. Advances(r, q) BY <2>1, <3>1, MovesOn DEF Listing, ItemPc
    <3> QED BY <3>2 DEF q
  <2>2. CASE Build(w) \/ BuildSkips(w)
    <3>1. /\ r.pc = "build"
          /\ \/ run'[w] = Idle \/ run'[w] = [r EXCEPT !.pc = "push"]
             \/ run'[w] = [r EXCEPT !.pc = "ack"]
      BY <1>1, <2>2 DEF Build, BuildSkips
    <3> QED BY <1>2, <2>1, <3>1, EndingIs
  <2>3. CASE Push(w)
    <3>1. r.pc = "push" /\ run'[w] = [r EXCEPT !.pc = "record"]
      BY <1>1, <2>3 DEF Push, Accepted
    <3> QED BY <2>1, <3>1, EndingIs
  <2> QED BY <1>8, <2>2, <2>3
<1>9. CASE BuildFails(w) \/ PushAnswerLost(w) \/ PushRefused(w)
  <2>1. r.pc \in {"build", "push"} /\ run'[w] = Dropped(r, TRUE)
    BY <1>1, <1>9 DEF BuildFails, PushAnswerLost, Accepted, PushRefused
  <2> QED BY <1>1, <2>1, DroppedAdvances
<1>10. CASE BuildPaywalled(w)
  <2> DEFINE q == [r EXCEPT !.pc = "items", !.ref = NoUrl, !.errs = @ \/ FALSE]
             walled == [q EXCEPT !.walled = @ \cup {r.ref}]
  <2>1. r.pc = "build" /\ run'[w] = IF r.kind = "add" THEN Idle ELSE walled
    BY <1>1, <1>10 DEF BuildPaywalled, Dropped
  <2>2. /\ q \in Run /\ q.pc = "items" /\ q.queue = r.queue /\ q.refs = r.refs
        /\ q.todo = r.todo
    BY <1>1 DEF Run, Pc
  <2> HIDE DEF q
  <2>3. /\ walled.pc = "items" /\ walled.queue = r.queue /\ walled.refs = r.refs
        /\ walled.todo = r.todo
    BY <2>2 DEF Run
  <2> HIDE DEF walled
  <2>4. Advances(r, walled) BY <2>1, <2>3, EndingIs, MovesOn DEF Listing, ItemPc
  <2> QED BY <1>2, <2>1, <2>4
<1>11. CASE BuildLimited(w) \/ PushLimited(w)
  <2>1. PICK hosts \in SUBSET Destination : run'[w] = Limited(r, hosts)
    BY <1>1, <1>11 DEF BuildLimited, PushLimited, Run
  <2>2. r.pc \in {"build", "push"} BY <1>11 DEF BuildLimited, PushLimited
  <2> QED BY <1>1, <2>1, <2>2, LimitedAdvances
<1>12. CASE Record(w)
  <2> DEFINE left == IF r.kind = "backfill" THEN r.left - 1 ELSE r.left
             q == [r EXCEPT !.pc = "ack", !.left = left]
  <2>1. r.pc = "record" /\ run'[w] = IF r.kind = "add" THEN Idle ELSE q
    BY <1>1, <1>12 DEF Record
  <2> HIDE DEF left
  <2>2. q.pc = "ack" /\ q.queue = r.queue /\ q.refs = r.refs /\ q.todo = r.todo
    BY <1>1 DEF Run
  <2> HIDE DEF q
  <2>3. Advances(r, q) BY <2>1, <2>2, EndingIs, MovesOn DEF Listing, ItemPc
  <2> QED BY <1>2, <2>1, <2>3
<1>13. ASSUME NEW reached \in BOOLEAN, Ack(w, reached) PROVE Advances(r, run'[w])
  <2> DEFINE q == [r EXCEPT !.pc = "items", !.ref = NoUrl]
  <2>1. r.pc = "ack" /\ run'[w] = q BY <1>1, <1>13 DEF Ack, Run
  <2>2. q.pc = "items" /\ q.queue = r.queue /\ q.refs = r.refs /\ q.todo = r.todo
    BY <1>1 DEF Run
  <2> HIDE DEF q
  <2>3. Advances(r, q) BY <2>1, <2>2, EndingIs, MovesOn DEF Listing, ItemPc
  <2> QED BY <2>1, <2>3
<1> QED
  BY <1>3, <1>4, <1>5, <1>6, <1>7, <1>8, <1>9, <1>10, <1>11, <1>12, <1>13 DEF Step

\* No step of a sync, a backfill or an add goes back: no item is retried within
\* the call that dropped it and no subscription is visited twice, whatever
\* fails on the way.
THEOREM OnceThrough ==
  Spec => [][\A w \in Worker : Step(w) => Advances(run[w], run'[w])]_vars
<1> DEFINE Holds == \A w \in Worker : Step(w) => Advances(run[w], run'[w])
<1>1. TypeInv /\ [Next]_vars => [Holds]_vars BY StepAdvances
<1> QED BY <1>1, TypeInit, TypeStep, PTL DEF Spec, Holds

-----------------------------------------------------------------------------
(* Calls that share no article.  Between a call's look at the ledger and   *)
(* its write nothing holds a lock, so what follows is promised to calls    *)
(* that may overlap but never have the same article in hand.  Run          *)
(* `overlap` shows what happens to two that have.                          *)

InHand(r) ==
  IF r.pc \in {"build", "push", "record"}
    THEN {DedupKey[r.ref], DedupKey[SubmissionUrl(r)]} ELSE {}

NoSharedItem ==
  \A v, w \in Worker : v # w => InHand(run[v]) \cap InHand(run[w]) = {}

\* What a call pushes and records is in its hand.
LEMMA RecordInHand ==
  ASSUME NEW r \in Run, CallOK(r), r.pc \in {"build", "push", "record"}
  PROVE  RecordKey(r)[2] \in InHand(r)
BY SubmissionType DEF CallOK, ItemPc, InHand

\* A subscription's call that is about to submit an item, and one about to
\* push or record it, has seen no row it would duplicate or revive.
Unfiled(r) ==
  r.kind # "add" =>
    /\ r.pc \in {"build", "push", "record"} => ~HasRow(DedupKey[r.ref])
    /\ r.pc \in {"push", "record"} => ~HasRow(DedupKey[SubmissionUrl(r)])

UnfiledInv == \A w \in Worker : Unfiled(run[w])

\* Only recording makes a row of a hash that had none.
LEMMA RowsAreRecorded ==
  ASSUME TypeInv, FormInv, [Next]_vars, NEW b \in Base, ~HasRow(b), HasRow(b)'
  PROVE  \E w \in Worker : Record(w) /\ RecordKey(run[w])[2] = b
<1>1. PICK key \in Key : key[2] = b /\ rows'[key].state # "absent" BY DEF HasRow
<1>2. /\ rows[key] = NoRow /\ rows[<<"readwise", b>>] = NoRow
      /\ rows[key].state = "absent"
  BY <1>1, KeyParts DEF HasRow, FormInv, AbsentRows
<1>3. rows \in [Key -> Row] /\ Connected(rows) \in [Key -> Row]
  BY ConnectedType DEF TypeInv, TypeOK
<1>4. Connected(rows)[key].state = "absent"
  BY <1>1, <1>2, <1>3, ConnectedRow DEF NoRow
<1>5. ASSUME NEW k \in Key, UserDeletes(k) PROVE FALSE
  <2>1. rows' = DeleteItem(Connected(rows), k) /\ Connected(rows)[k].state = "live"
    BY <1>5 DEF UserDeletes
  <2>2. k = key BY <1>1, <1>3, <1>4, <2>1, DeleteItemRow
  <2> QED BY <1>4, <2>1, <2>2
<1>6. PICK w \in Worker : Record(w) BY <1>1, <1>2, <1>4, <1>5, LedgerActs
<1>7. key = RecordKey(run[w]) BY <1>1, <1>2, <1>6, RecordRow
<1> QED BY <1>1, <1>6, <1>7

\* The subscription lookup misses only what has no row.
LEMMA NotIngestedNoRow ==
  ASSUME NEW u \in Url, ~WasSubscriptionIngested(rows, u)
  PROVE  ~HasRow(DedupKey[u])
<1> SUFFICES ASSUME NEW key \in Key, key[2] = DedupKey[u], rows[key].state # "absent"
             PROVE  FALSE
  BY DEF HasRow
<1>1. key \in SubscriptionKeys(u)
  BY KeyParts DEF SubscriptionKeys, DestinationKey, Destination
<1> QED BY <1>1 DEF WasSubscriptionIngested, WasIngested

\* How a subscription's call comes to hold an item it will submit.
LEMMA WorkFrame ==
  ASSUME TypeInv, NEW w \in Worker,
         \/ StartSync(w)
         \/ \E s \in Sub, posts \in 1..MaxNew : StartBackfill(w, s, posts)
         \/ \E u \in Addable, d \in Destination : StartAdd(w, u, d)
         \/ Step(w) \/ Crash(w)
  PROVE  \/ run'[w] = run[w]
         \/ run'[w].pc \notin {"build", "push", "record"}
         \/ run'[w].kind = "add"
         \/ Build(w) \/ Push(w) \/ \E u \in run[w].todo : NextItem(w, u)
<1> DEFINE r == run[w]
           q == run'[w]
<1>1. run \in [Worker -> Run] /\ r \in Run /\ CallOK(r) /\ Idle \in Run /\ Idle.pc = "idle"
  BY IdleOK DEF TypeInv, TypeOK, CallsOK, Idle
<1>2. CASE StartSync(w) BY <1>1, <1>2 DEF StartSync, Run
<1>3. ASSUME NEW s \in Sub, NEW posts \in 1..MaxNew, StartBackfill(w, s, posts)
      PROVE  q.pc = "items"
  BY <1>1, <1>3 DEF StartBackfill, Run
<1>4. ASSUME NEW u \in Addable, NEW d \in Destination, StartAdd(w, u, d)
      PROVE  q = r \/ q.kind = "add"
  BY <1>1, <1>4 DEF StartAdd, Run
<1>5. CASE NextSubscription(w)
  <2> DEFINE s == Head(r.queue)
             passed == [r EXCEPT !.queue = Tail(r.queue)]
             begun == [r EXCEPT !.pc = "discover", !.queue = Tail(r.queue), !.sub = s,
                                !.via = r.plan[s], !.errs = FALSE, !.walled = {}]
  <2>1. r.pc = "next" /\ (q = passed \/ q = begun)
    BY <1>1, <1>5 DEF NextSubscription
  <2>2. passed.pc = "next" /\ begun.pc = "discover" BY <1>1, <2>1 DEF Run
  <2> HIDE DEF passed, begun
  <2> QED BY <2>1, <2>2
<1>6. CASE FinishSync(w) \/ FinishBackfill(w) \/ PushUnauthorized(w) \/ Crash(w)
  BY <1>1, <1>6 DEF FinishSync, FinishBackfill, PushUnauthorized, Crash
<1>7. CASE Discover(w) BY <1>1, <1>7 DEF Discover, Run
<1>8. CASE DiscoverFails(w) \/ FinishSubscription(w)
  <2>1. q = AfterSubscription(r) BY <1>1, <1>8 DEF DiscoverFails, FinishSubscription
  <2>2. AfterSubscription(r).pc = "next" BY <1>1 DEF AfterSubscription, Run
  <2> QED BY <2>1, <2>2
<1>9. CASE BuildSkips(w) BY <1>1, <1>9 DEF BuildSkips, Run
<1>10. CASE BuildFails(w) \/ PushAnswerLost(w) \/ PushRefused(w)
  <2>1. r.pc \in ItemPc /\ q = Dropped(r, TRUE)
    BY <1>1, <1>10 DEF BuildFails, PushAnswerLost, Accepted, PushRefused, ItemPc
  <2>2. q.pc \in {"idle", "items"} BY <1>1, <2>1, DroppedOK DEF Dropped
  <2> QED BY <2>2
<1>11. CASE BuildPaywalled(w)
  <2> DEFINE dropped == Dropped(r, FALSE)
             walled == [dropped EXCEPT !.walled = @ \cup {r.ref}]
  <2>1. r.pc \in ItemPc /\ q = IF r.kind = "add" THEN Idle ELSE walled
    BY <1>1, <1>11 DEF BuildPaywalled, ItemPc
  <2>2. dropped \in Run /\ (r.kind # "add" => dropped.pc = "items")
    BY <1>1, <2>1, DroppedOK
  <2> HIDE DEF dropped
  <2>3. r.kind # "add" => walled.pc = "items" BY <2>2 DEF Run
  <2> HIDE DEF walled
  <2> QED BY <1>1, <2>1, <2>3
<1>12. CASE BuildLimited(w) \/ PushLimited(w)
  <2>1. PICK hosts \in SUBSET Destination : q = Limited(r, hosts)
    BY <1>1, <1>12 DEF BuildLimited, PushLimited, Run
  <2>2. r.pc \in ItemPc BY <1>12 DEF BuildLimited, PushLimited, ItemPc
  <2>3. Dropped(r, TRUE) \in Run /\ (r.kind # "add" => Dropped(r, TRUE).pc = "items")
    BY <1>1, <2>2, DroppedOK
  <2>4. q.pc \in {"idle", "items"} BY <1>1, <2>1, <2>3 DEF Limited, Run
  <2> QED BY <2>4
<1>13. CASE Record(w)
  <2> DEFINE left == IF r.kind = "backfill" THEN r.left - 1 ELSE r.left
  <2>1. q = IF r.kind = "add" THEN Idle ELSE [r EXCEPT !.pc = "ack", !.left = left]
    BY <1>1, <1>13 DEF Record
  <2> HIDE DEF left
  <2> QED BY <1>1, <2>1 DEF Run
<1>14. ASSUME NEW reached \in BOOLEAN, Ack(w, reached) PROVE q.pc = "items"
  BY <1>1, <1>14 DEF Ack, Run
<1> QED
  BY <1>2, <1>3, <1>4, <1>5, <1>6, <1>7, <1>8, <1>9, <1>10, <1>11, <1>12, <1>13, <1>14
  DEF Step

\* The two looks at the ledger.
LEMMA LooksBeforePush ==
  ASSUME TypeInv, UnfiledInv, NEW w \in Worker,
         Build(w) \/ Push(w) \/ \E u \in run[w].todo : NextItem(w, u)
  PROVE  Unfiled(run'[w])
<1> DEFINE r == run[w]
<1>1. run \in [Worker -> Run] /\ r \in Run /\ CallOK(r) /\ Unfiled(r)
      /\ Idle.pc = "idle"
  BY DEF TypeInv, TypeOK, CallsOK, UnfiledInv, Idle
<1>2. ASSUME NEW u \in r.todo, NextItem(w, u) PROVE Unfiled(run'[w])
  <2>1. u \in Url BY <1>1 DEF Run
  <2>2. /\ run'[w].ref = u /\ run'[w].pc \in {"ack", "build"}
        /\ run'[w].pc = "build" => ~WasSubscriptionIngested(rows, u)
    BY <1>1, <1>2 DEF NextItem, Run
  <2> QED BY <2>1, <2>2, NotIngestedNoRow DEF Unfiled
<1>3. CASE Build(w)
  <2>1. r.pc = "build" /\ r.ref \in Url BY <1>1, <1>3 DEF Build, CallOK, ItemPc
  <2>2. CASE run'[w].kind = "add" BY <2>2 DEF Unfiled
  <2>3. CASE run'[w].pc \notin {"build", "push", "record"} BY <2>3 DEF Unfiled
  <2>4. CASE run'[w].kind # "add" /\ run'[w].pc \in {"build", "push", "record"}
    <3>1. /\ run'[w] = [r EXCEPT !.pc = "push"] /\ r.kind # "add"
          /\ ~AlreadyIngestedAs(rows, SubmissionUrl(r), RecordKey(r))
      BY <1>1, <1>3, <2>4 DEF Build, Run
    <3>2. run'[w].ref = r.ref /\ SubmissionUrl(run'[w]) = SubmissionUrl(r)
      BY <1>1, <3>1 DEF SubmissionUrl, Run
    <3>3. ~HasRow(DedupKey[r.ref]) BY <1>1, <2>1, <3>1 DEF Unfiled
    <3>4. SubmissionUrl(r) \in Url /\ RecordKey(r)[2] = DedupKey[r.ref]
      BY <1>1, <2>1, <3>1, SubmissionType
    <3>5. ~HasRow(DedupKey[SubmissionUrl(r)])
      <4>1. CASE RecordKey(r) \in SubscriptionKeys(SubmissionUrl(r))
        <5>1. RecordKey(r)[2] = DedupKey[SubmissionUrl(r)]
          BY <4>1 DEF SubscriptionKeys, DestinationKey
        <5> QED BY <3>3, <3>4, <5>1
      <4>2. CASE ~WasSubscriptionIngested(rows, SubmissionUrl(r))
        BY <3>4, <4>2, NotIngestedNoRow
      <4> QED BY <3>1, <4>1, <4>2 DEF AlreadyIngestedAs
    <3> QED BY <3>2, <3>3, <3>5 DEF Unfiled
  <2> QED BY <2>2, <2>3, <2>4
<1>4. CASE Push(w)
  <2>1. r.pc = "push" /\ run'[w] = [r EXCEPT !.pc = "record"]
    BY <1>1, <1>4 DEF Push, Accepted
  <2>2. /\ run'[w].ref = r.ref /\ run'[w].kind = r.kind
        /\ SubmissionUrl(run'[w]) = SubmissionUrl(r)
    BY <1>1, <2>1 DEF SubmissionUrl, Run
  <2> QED BY <1>1, <2>1, <2>2 DEF Unfiled
<1> QED BY <1>2, <1>3, <1>4

LEMMA UnfiledStep ==
  TypeInv /\ FormInv /\ UnfiledInv /\ NoSharedItem /\ [Next]_vars => UnfiledInv'
<1> SUFFICES ASSUME TypeInv, FormInv, UnfiledInv, NoSharedItem, [Next]_vars,
                    NEW v \in Worker
             PROVE  Unfiled(run[v])'
  BY DEF UnfiledInv
<1>1. CallOK(run'[v]) /\ run'[v] \in Run
  BY TypeStep DEF TypeInv, TypeOK, CallsOK
<1>2. PICK q \in Run : q = run'[v] BY <1>1
<1>3. Unfiled(q)
  <2>1. CASE run' = run BY <1>2, <2>1 DEF UnfiledInv
  <2>2. ASSUME NEW w \in Worker, StartSync(w)
                 \/ (\E s \in Sub, posts \in 1..MaxNew : StartBackfill(w, s, posts))
                 \/ (\E u \in Addable, d \in Destination : StartAdd(w, u, d))
                 \/ Step(w) \/ Crash(w)
        PROVE  Unfiled(q)
    <3>1. CASE v = w
      <4>1. CASE Build(w) \/ Push(w) \/ \E u \in run[w].todo : NextItem(w, u)
        BY <1>2, <3>1, <4>1, LooksBeforePush
      <4>2. CASE q = run[w] BY <4>2 DEF UnfiledInv
      <4>3. CASE q.pc \notin {"build", "push", "record"} \/ q.kind = "add"
        BY <4>3 DEF Unfiled
      <4> QED BY <1>2, <2>2, <3>1, <4>1, <4>2, <4>3, WorkFrame
    <3>2. CASE v # w
      <4>1. q = run[v] BY <1>2, <2>2, <3>2, OthersStand
      <4> QED BY <4>1 DEF UnfiledInv
    <3> QED BY <3>1, <3>2
  <2> QED
    BY <2>1, <2>2 DEF Next, User, UserDeletes, UserReroutes, UserToggles, vars
<1>4. ASSUME q.kind # "add", NEW b \in Base, b \in InHand(q), HasRow(b)'
      PROVE  HasRow(b)
  <2> SUFFICES ASSUME ~HasRow(b) PROVE FALSE OBVIOUS
  <2>1. PICK w \in Worker : Record(w) /\ RecordKey(run[w])[2] = b
    BY <1>4, RowsAreRecorded
  <2>2. run \in [Worker -> Run] /\ run[w] \in Run /\ CallOK(run[w]) /\ run[w].pc = "record"
    BY <2>1 DEF TypeInv, TypeOK, CallsOK, Record
  <2>3. CASE v = w
    <3> DEFINE left == IF run[w].kind = "backfill" THEN run[w].left - 1 ELSE run[w].left
    <3>1. q = IF run[w].kind = "add" THEN Idle ELSE [run[w] EXCEPT !.pc = "ack", !.left = left]
      BY <1>2, <2>1, <2>2, <2>3 DEF Record
    <3> HIDE DEF left
    <3> QED BY <1>4, <2>2, <3>1 DEF Run, Idle, InHand
  <2>4. CASE v # w
    <3>1. q = run[v] BY <1>2, <2>1, <2>2, <2>4 DEF Record
    <3>2. b \in InHand(run[w]) BY <2>1, <2>2, RecordInHand
    <3> QED BY <1>4, <2>4, <3>1, <3>2 DEF NoSharedItem
  <2> QED BY <2>3, <2>4
<1>5. q.pc \in {"build", "push", "record"} =>
        DedupKey[q.ref] \in Base /\ DedupKey[SubmissionUrl(q)] \in Base
  BY <1>1, <1>2, SubmissionType, LedgerAssumption DEF CallOK, ItemPc
<1>6. Unfiled(q)'
  <2>1. ASSUME q.kind # "add", q.pc \in {"build", "push", "record"}
        PROVE  HasRow(DedupKey[q.ref])' => HasRow(DedupKey[q.ref])
    <3>1. PICK b \in Base : b = DedupKey[q.ref] BY <1>5, <2>1
    <3>2. HasRow(b)' => HasRow(b) BY <1>4, <2>1, <3>1 DEF InHand
    <3> QED BY <3>1, <3>2 DEF HasRow
  <2>2. ASSUME q.kind # "add", q.pc \in {"push", "record"}
        PROVE  HasRow(DedupKey[SubmissionUrl(q)])' => HasRow(DedupKey[SubmissionUrl(q)])
    <3>1. PICK b \in Base : b = DedupKey[SubmissionUrl(q)] BY <1>5, <2>2
    <3>2. HasRow(b)' => HasRow(b) BY <1>4, <2>2, <3>1 DEF InHand
    <3> QED BY <3>1, <3>2 DEF HasRow
  <2> QED BY <1>3, <2>1, <2>2 DEF Unfiled
<1> QED BY <1>2, <1>6 DEF Unfiled, SubmissionUrl

LEMMA UnfiledInit == Init => UnfiledInv
BY DEF Init, UnfiledInv, Unfiled, Idle

\* While no two calls share an article, a subscription run pushes nothing that has a row
\* of any destination under either of its URLs: nothing is bought twice and
\* nothing the user deleted is sent again.
THEOREM OnlyUnfiledIsPushed == Spec /\ []NoSharedItem => PushesOnlyUnfiled
<1> DEFINE Holds ==
      \A w \in Worker :
        (Push(w) \/ PushAnswerLost(w)) /\ Syncs(w) =>
          ~HasRow(DedupKey[run[w].ref]) /\ ~HasRow(DedupKey[SubmissionUrl(run[w])])
<1>1. UnfiledInv => Holds
  BY DEF UnfiledInv, Unfiled, Syncs, Push, PushAnswerLost, Accepted
<1>2. UnfiledInv /\ [Next]_vars => [Holds]_vars BY <1>1
<1> QED
  BY <1>2, TypeInit, TypeStep, FormInit, FormStep, UnfiledInit, UnfiledStep, PTL
  DEF Spec, PushesOnlyUnfiled, Holds

\* No call pushes a document another is about to record, under whatever item.
NoSharedForm ==
  \A v, w \in Worker :
    v # w /\ run[v].pc = "record" /\ run[w].pc = "push" =>
      RecordKey(run[v])[2] \notin FormsOf(Document(run[w]))

LEMMA RecordIsAForm ==
  ASSUME NEW r \in Run, CallOK(r), r.pc \in ItemPc, r.pc # "ack"
  PROVE  RecordKey(r)[2] \in FormsOf(Document(r))
<1>1. /\ r.ref \in Url
      /\ RecordKey(r)[2] = DedupKey[IF r.kind = "add" THEN SubmissionUrl(r) ELSE r.ref]
  BY SubmissionType DEF CallOK, ItemPc
<1>2. CASE r.kind = "add" \/ r.via = "shiori"
  BY <1>1, <1>2 DEF FormsOf, Document, SubmissionUrl
<1>3. CASE r.kind # "add" /\ r.via # "shiori"
  <2>1. r.sub \in Sub /\ SubmissionUrl(r) = Identity[r.sub][r.ref]
    BY <1>3 DEF CallOK, SubmissionUrl, ItemPc
  <2> QED BY <1>1, <1>3, <2>1 DEF FormsOf, Document
<1> QED BY <1>2, <1>3

\* What a provider has is known by one of its items.
DeliveredInv ==
  \A i \in delivered : \E b \in Base : b \in FormsOf(DedupKey[i[2]]) /\ Known(b)

LEMMA DeliveredInit == Init => DeliveredInv
<1> SUFFICES ASSUME Init, NEW i \in delivered
             PROVE  \E b \in Base : b \in FormsOf(DedupKey[i[2]]) /\ Known(b)
  BY DEF DeliveredInv
<1>1. PICK past \in Past :
        /\ rows = LegacyLedger(past)
        /\ delivered = {<<"shiori", LegacyLedger(past)[<<"readwise", b>>].url>> :
                          b \in {b \in Base : past[b] = "shiori"}}
  BY DEF Init
<1>2. PICK b \in Base : past[b] = "shiori" /\ i[2] = LegacyLedger(past)[<<"readwise", b>>].url
  <2>1. PICK b \in {b \in Base : past[b] = "shiori"} :
          i = <<"shiori", LegacyLedger(past)[<<"readwise", b>>].url>>
    BY <1>1
  <2> QED BY <2>1
<1>3. <<"readwise", b>> \in Key BY KeyParts
<1>4. rows[<<"readwise", b>>] = LegacyRow("shiori", CHOOSE u \in Url : DedupKey[u] = b)
  BY <1>1, <1>2, <1>3 DEF LegacyLedger
<1>5. DedupKey[CHOOSE u \in Url : DedupKey[u] = b] = b BY LedgerAssumption
<1>6. DedupKey[i[2]] = b /\ HasRow(b)
  BY <1>1, <1>2, <1>3, <1>4, <1>5 DEF LegacyRow, HasRow
<1> QED BY <1>6 DEF FormsOf, Known

LEMMA DeliveredStep ==
  TypeInv /\ BareRows /\ DeliveredInv /\ [Next]_vars => DeliveredInv'
<1> SUFFICES ASSUME TypeInv, BareRows, DeliveredInv, [Next]_vars, NEW i \in delivered'
             PROVE  \E b \in Base :
                      /\ b \in FormsOf(DedupKey[i[2]])
                      /\ \/ HasRow(b)' \/ b \in lost'
                         \/ \E w \in Worker :
                              run'[w].pc = "record" /\ RecordKey(run'[w])[2] = b
  BY DEF DeliveredInv, Known, FormsOf, RecordKey, SubmissionUrl
<1>1. CASE i \in delivered
  <2>1. PICK b \in Base : b \in FormsOf(DedupKey[i[2]]) /\ Known(b) BY <1>1 DEF DeliveredInv
  <2> QED BY <2>1, KnownStays
<1>2. CASE i \notin delivered
  <2>1. PICK w \in Worker : Push(w) \/ PushAnswerLost(w)
    BY <1>2, EveryFrame DEF Frame, PushFrame
  <2>2. /\ run[w] \in Run /\ run[w].pc = "push" /\ CallOK(run[w])
        /\ i[2] = SubmissionUrl(run[w])
    <3>1. Accepted(run[w]) BY <2>1 DEF Push, PushAnswerLost
    <3>2. i = <<run[w].via, SubmissionUrl(run[w])>> /\ run[w].pc = "push"
      BY <1>2, <3>1 DEF Accepted
    <3> QED BY <3>2 DEF TypeInv, TypeOK, CallsOK
  <2>3. RecordKey(run[w])[2] \in FormsOf(Document(run[w])) BY <2>2, RecordIsAForm DEF ItemPc
  <2>4. RecordKey(run[w])[2] \in Base BY <2>2, SubmissionType DEF CallOK, ItemPc
  <2>5. PICK b \in Base : b = RecordKey(run[w])[2] BY <2>4
  <2> QED BY <2>1, <2>2, <2>3, <2>5, PushKnows DEF Document
<1> QED BY <1>1, <1>2

\* While no two calls share an article, a document a provider has is pushed again
\* for a subscription only if a push of it was lost, or if the ledger knows it by
\* another item alone.
THEOREM OnlyLostIsPushedAgain == Spec /\ [](NoSharedItem /\ NoSharedForm) => RepushesOnlyLost
<1> DEFINE Holds ==
      \A w \in Worker :
        /\ Push(w) \/ PushAnswerLost(w)
        /\ Syncs(w) /\ \E i \in delivered : DedupKey[i[2]] = Document(run[w])
        => \E b \in FormsOf(Document(run[w])) :
             b \in lost \/ (b \notin {Document(run[w]), DedupKey[run[w].ref]} /\ HasRow(b))
<1>1. ASSUME TypeInv, UnfiledInv, NoSharedForm, DeliveredInv PROVE Holds
  <2> SUFFICES ASSUME NEW w \in Worker, Push(w) \/ PushAnswerLost(w), Syncs(w),
                      NEW i \in delivered, DedupKey[i[2]] = Document(run[w])
               PROVE  \E b \in FormsOf(Document(run[w])) :
                        \/ b \in lost
                        \/ b \notin {Document(run[w]), DedupKey[run[w].ref]} /\ HasRow(b)
    OBVIOUS
  <2>1. run[w].pc = "push" /\ run[w].kind # "add"
    BY DEF Push, PushAnswerLost, Accepted, Syncs
  <2>2. ~HasRow(Document(run[w])) /\ ~HasRow(DedupKey[run[w].ref])
    BY <1>1, <2>1 DEF UnfiledInv, Unfiled, Document
  <2>3. PICK b \in Base : b \in FormsOf(Document(run[w])) /\ Known(b)
    BY <1>1 DEF DeliveredInv
  <2>4. ~\E v \in Worker : run[v].pc = "record" /\ RecordKey(run[v])[2] = b
    BY <1>1, <2>1, <2>3 DEF NoSharedForm
  <2> QED BY <2>2, <2>3, <2>4 DEF Known
<1>2. TypeInv /\ UnfiledInv /\ NoSharedForm /\ DeliveredInv /\ [Next]_vars => [Holds]_vars
  BY <1>1
<1> QED
  BY <1>2, TypeInit, TypeStep, BareInit, BareStep, FormInit, FormStep, DeliveredInit,
     DeliveredStep, UnfiledInit, UnfiledStep, PTL
  DEF Spec, RepushesOnlyLost, Holds

\* While no two calls share an article, a tombstone gives way to an add the
\* user asked for and to nothing else: no migration lifts it, no subscription revives it.
THEOREM OnlyTheUserRevives == Spec /\ []NoSharedItem => TombstonesHold
<1> DEFINE Holds ==
      \A key \in Key :
        rows[key].state = "deleted" /\ rows'[key].state # "deleted" =>
          \E w \in Worker : ~Syncs(w) /\ Record(w)
<1>1. ASSUME TypeInv, FormInv, UnfiledInv, [Next]_vars PROVE Holds
  <2> SUFFICES ASSUME NEW key \in Key, rows[key].state = "deleted",
                      rows'[key].state # "deleted"
               PROVE  \E w \in Worker : ~Syncs(w) /\ Record(w)
    OBVIOUS
  <2>1. Connected(rows) \in [Key -> Row] /\ rows \in [Key -> Row]
    BY <1>1, ConnectedType DEF TypeInv, TypeOK
  <2>2. Connected(rows)[key].state = "deleted"
    <3>1. rows[<<"readwise", key[2]>>].owner # "shiori"
      BY <1>1, KeyParts DEF FormInv, Migrated, Untouched
    <3>2. Connected(rows)[key] =
            IF rows[key].origin = "gone" THEN [rows[key] EXCEPT !.state = "deleted"]
            ELSE rows[key]
      BY <2>1, <3>1, ConnectedIs
    <3> QED BY <2>1, <3>2 DEF Row
  <2>3. ASSUME NEW k \in Key, UserDeletes(k) PROVE FALSE
    BY <2>1, <2>2, <2>3, DeleteItemRow DEF UserDeletes
  <2>4. PICK w \in Worker : Record(w) BY <1>1, <2>2, <2>3, LedgerActs
  <2>5. CASE Syncs(w)
    <3>1. key = RecordKey(run[w]) /\ run[w] \in Run /\ run[w].ref \in Url
      BY <1>1, <2>4, RecordRow
    <3>2. key[2] = DedupKey[run[w].ref] BY <2>5, <3>1, SubmissionType DEF Syncs
    <3>3. ~HasRow(key[2])
      BY <1>1, <2>4, <2>5, <3>2 DEF UnfiledInv, Unfiled, Syncs, Record
    <3> QED BY <3>3 DEF HasRow
  <2> QED BY <2>4, <2>5
<1>2. TypeInv /\ FormInv /\ UnfiledInv /\ [Next]_vars => [Holds]_vars BY <1>1
<1> QED
  BY <1>2, TypeInit, TypeStep, FormInit, FormStep, UnfiledInit, UnfiledStep, PTL
  DEF Spec, TombstonesHold, Holds

-----------------------------------------------------------------------------
(* The pipeline implements Delivery.  The refinement mapping of Pipeline,  *)
(* as functions of the ledger and of the calls.                            *)

OwnedIn(f, key) ==
  f[key].state # "absent" /\ ~(f[key].state = "deleted" \/ f[key].origin = "gone")

ForgottenIn(f, key) ==
  f[key].state # "absent" /\ (f[key].state = "deleted" \/ f[key].origin = "gone")

LedgerOf(f) ==
  [b \in Base |->
     IF \E d \in Destination : OwnedIn(f, <<d, b>>) THEN "owned"
     ELSE IF \E d \in Destination : ForgottenIn(f, <<d, b>>) THEN "forgotten"
     ELSE "unknown"]

Adding(r) == r.kind = "add" /\ r.pc \in {"push", "record"}

AskedOf(calls) ==
  {RecordKey(calls[w])[2] : w \in {w \in Worker : Adding(calls[w])}}

LEMMA MappedLedger ==
  /\ LedgerOf(rows) =
       [b \in Base |->
          IF \E d \in Destination : Owned(<<d, b>>) THEN "owned"
          ELSE IF \E d \in Destination : Forgotten(<<d, b>>) THEN "forgotten"
          ELSE "unknown"]
  /\ LedgerOf(rows') =
       [b \in Base |->
          IF \E d \in Destination : Owned(<<d, b>>)' THEN "owned"
          ELSE IF \E d \in Destination : Forgotten(<<d, b>>)' THEN "forgotten"
          ELSE "unknown"]
BY DEF LedgerOf, OwnedIn, ForgottenIn, Owned, Forgotten, WasIngested

LEMMA MappedAsked ==
  /\ AskedOf(run) =
       {RecordKey(run[w])[2] :
          w \in {w \in Worker : ~Syncs(w) /\ run[w].pc \in {"push", "record"}}}
  /\ AskedOf(run') =
       {RecordKey(run'[w])[2] :
          w \in {w \in Worker : ~Syncs(w)' /\ run'[w].pc \in {"push", "record"}}}
BY DEF AskedOf, Adding, Syncs

\* Each step of Delivery, in terms of the mapping.
LEMMA ItAsks ==
  ASSUME NEW b, AskedOf(run') = AskedOf(run) \cup {b},
         LedgerOf(rows') = LedgerOf(rows), UNCHANGED <<sent, handled>>
  PROVE  Promise!Ask(b)
BY MappedLedger, MappedAsked DEF Promise!Ask

LEMMA ItWithdraws ==
  ASSUME NEW b, AskedOf(run') = AskedOf(run) \ {b},
         LedgerOf(rows') = LedgerOf(rows), UNCHANGED <<sent, handled>>
  PROVE  Promise!Withdraw(b)
BY MappedLedger, MappedAsked DEF Promise!Withdraw

LEMMA ItReaches ==
  ASSUME NEW b, sent' = sent \cup {b},
         AskedOf(run') = AskedOf(run) \/ AskedOf(run') = AskedOf(run) \ {b},
         LedgerOf(rows') = LedgerOf(rows), UNCHANGED handled
  PROVE  Promise!Reach(b)
BY MappedLedger, MappedAsked DEF Promise!Reach

LEMMA ItOwns ==
  ASSUME NEW b, b \in sent, LedgerOf(rows)[b] = "unknown",
         LedgerOf(rows') = [LedgerOf(rows) EXCEPT ![b] = "owned"],
         AskedOf(run') = AskedOf(run) \ {b}, UNCHANGED <<sent, handled>>
  PROVE  Promise!Own(b)
BY MappedLedger, MappedAsked DEF Promise!Own

LEMMA ItRevives ==
  ASSUME NEW b, b \in sent, b \in AskedOf(run),
         LedgerOf(rows') = [LedgerOf(rows) EXCEPT ![b] = "owned"],
         AskedOf(run') = AskedOf(run) \ {b}, UNCHANGED <<sent, handled>>
  PROVE  Promise!Revive(b)
BY MappedLedger, MappedAsked DEF Promise!Revive

LEMMA ItForgets ==
  ASSUME NEW b, LedgerOf(rows)[b] = "owned",
         LedgerOf(rows') = [LedgerOf(rows) EXCEPT ![b] = "forgotten"],
         AskedOf(run') = AskedOf(run), UNCHANGED <<sent, handled>>
  PROVE  Promise!Forget(b)
BY MappedLedger, MappedAsked DEF Promise!Forget

LEMMA ItSettles ==
  ASSUME NEW s \in Sub, NEW u \in Url, handled' = handled \cup {<<s, u>>},
         u \in Ebook \/ \E v \in Aliases(s, u) : LedgerOf(rows)[DedupKey[v]] # "unknown",
         LedgerOf(rows') = LedgerOf(rows), AskedOf(run') = AskedOf(run), UNCHANGED sent
  PROVE  Promise!Settle(<<s, u>>)
BY MappedLedger, MappedAsked DEF Promise!Settle

LEMMA ItStutters ==
  ASSUME LedgerOf(rows') = LedgerOf(rows), AskedOf(run') = AskedOf(run),
         UNCHANGED <<sent, handled>>
  PROVE  UNCHANGED Promise!vars
BY MappedLedger, MappedAsked DEF Promise!vars

-----------------------------------------------------------------------------
(* What the steps do to the mapped ledger.                                 *)

LEMMA LedgerOfIs ==
  ASSUME NEW f, NEW b \in Base
  PROVE  /\ LedgerOf(f)[b] = "owned" <=> \E d \in Destination : OwnedIn(f, <<d, b>>)
         /\ LedgerOf(f)[b] = "unknown" <=>
              \A d \in Destination : f[<<d, b>>].state = "absent"
BY DEF LedgerOf, OwnedIn, ForgottenIn

LEMMA HasRowKnown ==
  ASSUME NEW b \in Base
  PROVE  HasRow(b) <=> LedgerOf(rows)[b] # "unknown"
<1>1. ASSUME NEW key \in Key, key[2] = b, rows[key].state # "absent"
      PROVE  \E d \in Destination : rows[<<d, b>>].state # "absent"
  BY <1>1, KeyParts DEF Destination
<1>2. ASSUME NEW d \in Destination, rows[<<d, b>>].state # "absent"
      PROVE  HasRow(b)
  BY <1>2 DEF HasRow, Key
<1> QED BY <1>1, <1>2, LedgerOfIs DEF HasRow

\* The migrations carry out what the older tool left undone, and the mapping
\* counts it as done from the start.
LEMMA ConnectedOwns ==
  ASSUME TypeInv, FormInv, NEW b \in Base
  PROVE  /\ (\E d \in Destination : OwnedIn(Connected(rows), <<d, b>>))
              <=> \E d \in Destination : OwnedIn(rows, <<d, b>>)
         /\ (\E d \in Destination : ForgottenIn(Connected(rows), <<d, b>>))
              <=> \E d \in Destination : ForgottenIn(rows, <<d, b>>)
<1> DEFINE bare == <<"readwise", b>>
           pref == <<"shiori", b>>
<1>1. bare \in Key /\ pref \in Key /\ rows \in [Key -> Row]
  BY KeyParts DEF TypeInv, TypeOK
<1>2. rows[bare] \in Row /\ rows[pref] \in Row BY <1>1
<1>3. ASSUME NEW old \in Row
      PROVE  LET new == IF old.origin = "gone" THEN [old EXCEPT !.state = "deleted"]
                        ELSE old
             IN  /\ new.origin = old.origin
                 /\ old.origin # "gone" => new.state = old.state
                 /\ old.origin = "gone" => new.state = "deleted"
  BY DEF Row
<1>4. \A key \in Key : rows[key].state = "absent" => rows[key].origin # "gone"
  BY DEF FormInv, AbsentRows, NoRow
<1>5. CASE rows[bare].owner = "shiori"
  <2>1. rows[pref] = NoRow BY <1>1, <1>5, KeyParts DEF FormInv, Migrated, Untouched
  <2>2. Connected(rows)[bare].state = "absent" BY <1>1, <1>5, ConnectedRow DEF NoRow
  <2>3. Connected(rows)[pref] = IF rows[bare].origin = "gone"
                                  THEN [rows[bare] EXCEPT !.state = "deleted"]
                                  ELSE rows[bare]
    BY <1>1, <1>5, ConnectedIs
  <2>4. /\ OwnedIn(Connected(rows), pref) <=> OwnedIn(rows, bare)
        /\ ForgottenIn(Connected(rows), pref) <=> ForgottenIn(rows, bare)
    BY <1>1, <1>2, <1>3, <1>4, <2>3 DEF OwnedIn, ForgottenIn
  <2> QED BY <2>1, <2>2, <2>4 DEF OwnedIn, ForgottenIn, Destination, NoRow
<1>6. CASE rows[bare].owner # "shiori"
  <2>1. ASSUME NEW key \in {bare, pref}
        PROVE  /\ OwnedIn(Connected(rows), key) <=> OwnedIn(rows, key)
               /\ ForgottenIn(Connected(rows), key) <=> ForgottenIn(rows, key)
    <3>1. key \in Key /\ rows[key] \in Row /\ key[2] = b BY <1>1
    <3>2. Connected(rows)[key] = IF rows[key].origin = "gone"
                                   THEN [rows[key] EXCEPT !.state = "deleted"]
                                   ELSE rows[key]
      BY <1>1, <1>6, <3>1, ConnectedIs
    <3> QED BY <1>3, <1>4, <3>1, <3>2 DEF OwnedIn, ForgottenIn
  <2> QED BY <2>1 DEF Destination
<1> QED BY <1>5, <1>6

LEMMA ConnectedMapped ==
  ASSUME TypeInv, FormInv
  PROVE  LedgerOf(Connected(rows)) = LedgerOf(rows)
BY ConnectedOwns DEF LedgerOf

\* Deleting the last row that owns an article forgets it; deleting one of two
\* changes nothing that was promised.
LEMMA DeletedMapped ==
  ASSUME NEW f \in [Key -> Row], NEW k \in Key, f[k].state = "live",
         f[k].origin # "gone"
  PROVE  /\ LedgerOf(f)[k[2]] = "owned"
         /\ \/ LedgerOf(DeleteItem(f, k)) = LedgerOf(f)
            \/ LedgerOf(DeleteItem(f, k)) = [LedgerOf(f) EXCEPT ![k[2]] = "forgotten"]
<1> DEFINE g == DeleteItem(f, k)
<1>1. PICK b \in Base, e \in Destination : k = <<e, b>> BY DEF Key
<1>2. OwnedIn(f, <<e, b>>) BY <1>1 DEF OwnedIn
<1>3. ASSUME NEW c \in Base, c # b PROVE LedgerOf(g)[c] = LedgerOf(f)[c]
  <2>1. \A d \in Destination : <<d, c>> \in Key /\ g[<<d, c>>] = f[<<d, c>>]
    BY <1>1, <1>3 DEF DeleteItem, Key
  <2> QED BY <2>1 DEF LedgerOf, OwnedIn, ForgottenIn
<1>4. LedgerOf(g)[b] \in {"owned", "forgotten"}
  <2>1. g[k].state = "deleted" BY DeleteItemRow
  <2>2. ForgottenIn(g, <<e, b>>) BY <1>1, <2>1 DEF ForgottenIn
  <2> QED BY <2>2 DEF LedgerOf
<1>5. LedgerOf(f)[b] = "owned" BY <1>2, LedgerOfIs
<1>6. k[2] = b BY <1>1
<1>7. /\ LedgerOf(f) = [c \in Base |-> LedgerOf(f)[c]]
      /\ LedgerOf(g) = [c \in Base |-> LedgerOf(g)[c]]
  BY DEF LedgerOf
<1> HIDE DEF g
<1>8. CASE LedgerOf(g)[b] = "owned"
  <2>1. \A c \in Base : LedgerOf(g)[c] = LedgerOf(f)[c] BY <1>3, <1>5, <1>8
  <2> QED BY <1>5, <1>6, <1>7, <2>1 DEF g
<1>9. CASE LedgerOf(g)[b] = "forgotten"
  <2>1. LedgerOf(g) = [LedgerOf(f) EXCEPT ![b] = "forgotten"] BY <1>3, <1>7, <1>9
  <2> QED BY <1>5, <1>6, <2>1 DEF g
<1> QED BY <1>4, <1>8, <1>9

\* A recorded push owns its article.
LEMMA RecordedMapped ==
  ASSUME TypeInv, NEW w \in Worker, Record(w), NEW b, b = RecordKey(run[w])[2]
  PROVE  LedgerOf(rows') = [LedgerOf(rows) EXCEPT ![b] = "owned"]
<1>1. RecordKey(run[w]) \in Key BY RecordRow
<1>2. PICK e \in Destination : RecordKey(run[w]) = <<e, b>> /\ b \in Base
  BY <1>1, KeyParts DEF Key
<1>3. ASSUME NEW c \in Base, c # b PROVE LedgerOf(rows')[c] = LedgerOf(rows)[c]
  <2>1. \A d \in Destination : <<d, c>> \in Key /\ rows'[<<d, c>>] = rows[<<d, c>>]
    BY <1>2, <1>3, RecordRow DEF Key
  <2> QED BY <2>1 DEF LedgerOf, OwnedIn, ForgottenIn
<1>4. OwnedIn(rows', <<e, b>>) BY <1>1, <1>2, RecordRow DEF OwnedIn
<1>5. LedgerOf(rows')[b] = "owned" BY <1>2, <1>4, LedgerOfIs
<1>6. /\ LedgerOf(rows) = [c \in Base |-> LedgerOf(rows)[c]]
      /\ LedgerOf(rows') = [c \in Base |-> LedgerOf(rows')[c]]
  BY DEF LedgerOf
<1> QED BY <1>2, <1>3, <1>5, <1>6

-----------------------------------------------------------------------------
(* What they do to the adds under way.                                     *)

AskedBy(r) == IF Adding(r) THEN {RecordKey(r)[2]} ELSE {}

\* What all calls but that of w are asked.
AskedElsewhere(w) ==
  {RecordKey(run[v])[2] : v \in {v \in Worker : v # w /\ Adding(run[v])}}

\* A step of w changes its own part of what is asked, and the article it holds
\* is asked of nobody else.
LEMMA AskedStep ==
  ASSUME TypeInv, NoSharedItem, NEW w \in Worker,
         \/ StartSync(w)
         \/ \E s \in Sub, posts \in 1..MaxNew : StartBackfill(w, s, posts)
         \/ \E u \in Addable, d \in Destination : StartAdd(w, u, d)
         \/ Step(w) \/ Crash(w)
  PROVE  /\ AskedOf(run) = AskedElsewhere(w) \cup AskedBy(run[w])
         /\ AskedOf(run') = AskedElsewhere(w) \cup AskedBy(run'[w])
         /\ run[w].pc \in {"push", "record"} =>
              RecordKey(run[w])[2] \notin AskedElsewhere(w)
<1>1. \A v \in Worker : v # w => run'[v] = run[v] BY OthersStand
<1>2. \A v \in Worker : run[v] \in Run /\ CallOK(run[v])
  BY DEF TypeInv, TypeOK, CallsOK
<1>3. ASSUME NEW calls, \A v \in Worker : v # w => calls[v] = run[v]
      PROVE  AskedOf(calls) = AskedElsewhere(w) \cup AskedBy(calls[w])
  BY <1>3 DEF AskedOf, AskedElsewhere, AskedBy
<1>4. ASSUME run[w].pc \in {"push", "record"}, NEW v \in Worker, v # w, Adding(run[v])
      PROVE  RecordKey(run[w])[2] # RecordKey(run[v])[2]
  <2>1. RecordKey(run[w])[2] \in InHand(run[w]) /\ RecordKey(run[v])[2] \in InHand(run[v])
    BY <1>2, <1>4, RecordInHand DEF Adding
  <2> QED BY <1>4, <2>1 DEF NoSharedItem
<1> QED BY <1>1, <1>3, <1>4 DEF AskedElsewhere

\* A call that starts has asked for nothing yet, not even an add: it has not
\* fetched the article.
LEMMA AskedStart ==
  ASSUME TypeInv, NoSharedItem, NEW w \in Worker,
         \/ StartSync(w)
         \/ \E s \in Sub, posts \in 1..MaxNew : StartBackfill(w, s, posts)
         \/ \E u \in Addable, d \in Destination : StartAdd(w, u, d)
  PROVE  AskedOf(run') = AskedOf(run)
<1>1. run \in [Worker -> Run] /\ Idle \in Run BY IdleOK DEF TypeInv, TypeOK
<1>2. run[w].pc = "idle" BY DEF StartSync, StartBackfill, StartAdd
<1>3. run'[w].pc \in {"idle", "next", "items", "build"}
  <2>1. CASE StartSync(w) BY <1>1, <2>1 DEF StartSync, Run
  <2>2. ASSUME NEW s \in Sub, NEW posts \in 1..MaxNew, StartBackfill(w, s, posts)
        PROVE  run'[w].pc = "items"
    BY <1>1, <2>2 DEF StartBackfill, Run
  <2>3. ASSUME NEW u \in Addable, NEW d \in Destination, StartAdd(w, u, d)
        PROVE  run'[w].pc \in {"idle", "build"}
    BY <1>1, <1>2, <2>3 DEF StartAdd, Run
  <2> QED BY <2>1, <2>2, <2>3
<1> QED BY <1>2, <1>3, AskedStep DEF AskedBy, Adding

-----------------------------------------------------------------------------
(* Step by step.                                                           *)

\* What a call is about to record was accepted.
RecordsSent == \A w \in Worker : run[w].pc = "record" => RecordKey(run[w])[2] \in sent

LEMMA RecordsSentStep == TypeInv /\ RecordsSent /\ [Next]_vars => RecordsSent'
<1> SUFFICES ASSUME TypeInv, RecordsSent, [Next]_vars,
                    NEW w \in Worker, run'[w].pc = "record"
             PROVE  RecordKey(run'[w])[2] \in sent'
  BY DEF RecordsSent, RecordKey, SubmissionUrl
<1>1. Frame BY EveryFrame
<1>2. sent \subseteq sent' BY <1>1 DEF Frame, PushFrame, Push, PushAnswerLost, Accepted
<1>3. run \in [Worker -> Run] /\ run[w] \in Run /\ Idle.pc = "idle"
  BY DEF TypeInv, TypeOK, Idle
<1>4. CASE run'[w] = run[w] BY <1>2, <1>4 DEF RecordsSent
<1>5. CASE Push(w)
  <2>1. run'[w] = [run[w] EXCEPT !.pc = "record"] BY <1>3, <1>5 DEF Push
  <2>2. RecordKey(run'[w]) = RecordKey(run[w])
    BY <1>3, <2>1 DEF RecordKey, SubmissionUrl, Run
  <2> QED BY <1>5, <2>2 DEF Push, Accepted
<1>6. CASE Record(w)
  <2> DEFINE left == IF run[w].kind = "backfill" THEN run[w].left - 1 ELSE run[w].left
  <2>1. run'[w] = IF run[w].kind = "add" THEN Idle
                  ELSE [run[w] EXCEPT !.pc = "ack", !.left = left]
    BY <1>3, <1>6 DEF Record
  <2> HIDE DEF left
  <2> QED BY <1>3, <2>1 DEF Run
<1>7. CASE BuildSkips(w) \/ Build(w) BY <1>3, <1>7 DEF BuildSkips, Build, Run
<1>8. ASSUME NEW u \in run[w].todo, NextItem(w, u) PROVE FALSE
  BY <1>3, <1>8 DEF NextItem, Run
<1> QED BY <1>1, <1>4, <1>5, <1>6, <1>7, <1>8 DEF Frame, CallFrame

\* A step that neither pushes, records nor acks changes nothing of what is
\* promised, and starts or ends at most one request.
LEMMA QuietStep ==
  ASSUME TypeInv, NEW w \in Worker, Step(w) \/ Crash(w)
  PROVE  \/ Push(w) \/ PushAnswerLost(w) \/ Record(w)
         \/ \E reached \in BOOLEAN : Ack(w, reached)
         \/ /\ UNCHANGED <<rows, sent, handled>>
            /\ ~Adding(run[w]) \/ ~Adding(run'[w])
<1> DEFINE r == run[w]
           q == run'[w]
<1>1. run \in [Worker -> Run] /\ r \in Run /\ Idle.pc = "idle"
  BY DEF TypeInv, TypeOK, Idle
<1>2. (\/ NextSubscription(w) \/ FinishSync(w) \/ Discover(w) \/ DiscoverFails(w)
       \/ FinishSubscription(w) \/ FinishBackfill(w))
        => UNCHANGED <<rows, sent, handled>> /\ ~Adding(r)
  BY DEF NextSubscription, FinishSync, Discover, DiscoverFails, FinishSubscription,
         FinishBackfill, Adding
<1>3. (\/ \E u \in run[w].todo : NextItem(w, u)
       \/ Build(w) \/ BuildSkips(w) \/ BuildFails(w) \/ BuildPaywalled(w)
       \/ BuildLimited(w))
        => UNCHANGED <<rows, sent, handled>> /\ ~Adding(r)
  BY DEF NextItem, Build, BuildSkips, BuildFails, BuildPaywalled, BuildLimited, Adding
<1>4. CASE PushRefused(w) \/ PushLimited(w)
  <2>1. r.kind = "add" => q = Idle
    BY <1>1, <1>4 DEF PushRefused, PushLimited, Dropped, Limited
  <2> QED BY <1>1, <1>4, <2>1 DEF PushRefused, PushLimited, Adding
<1>5. CASE PushUnauthorized(w) \/ Crash(w)
  BY <1>1, <1>5 DEF PushUnauthorized, Crash, Adding
<1> QED BY <1>2, <1>3, <1>4, <1>5 DEF Step

Mapped == TypeInv /\ FormInv /\ UnfiledInv /\ HandledInv /\ RecordsSent

LEMMA QuietPromise ==
  ASSUME TypeInv, NoSharedItem, NEW w \in Worker, Step(w) \/ Crash(w),
         UNCHANGED <<rows, sent, handled>>, ~Adding(run[w]) \/ ~Adding(run'[w])
  PROVE  [Promise!Next]_(Promise!vars)
<1>1. /\ AskedOf(run) = AskedElsewhere(w) \cup AskedBy(run[w])
      /\ AskedOf(run') = AskedElsewhere(w) \cup AskedBy(run'[w])
      /\ Adding(run[w]) => RecordKey(run[w])[2] \notin AskedElsewhere(w)
  BY AskedStep DEF Adding
<1>2. LedgerOf(rows') = LedgerOf(rows) OBVIOUS
<1>3. CASE AskedOf(run') = AskedOf(run) BY <1>2, <1>3, ItStutters
<1>4. CASE Adding(run[w])
  <2>1. PICK b \in Base : b = RecordKey(run[w])[2]
    BY <1>4, SubmissionType DEF TypeInv, TypeOK, CallsOK, CallOK, Adding, ItemPc
  <2>2. CASE ~Adding(run'[w])
    <3>1. AskedOf(run') = AskedOf(run) \ {b} BY <1>1, <1>4, <2>1, <2>2 DEF AskedBy
    <3>2. Promise!Withdraw(b) BY <1>2, <3>1, ItWithdraws
    <3> QED BY <3>2 DEF Promise!Next
  <2> QED BY <1>4, <2>2
<1>5. CASE Adding(run'[w])
  <2>1. run'[w] \in Run /\ CallOK(run'[w]) BY TypeStep DEF TypeInv, TypeOK, CallsOK, Next
  <2>2. PICK b \in Base : b = RecordKey(run'[w])[2]
    BY <1>5, <2>1, SubmissionType DEF CallOK, Adding, ItemPc
  <2>3. AskedOf(run') = AskedOf(run) \cup {b} BY <1>1, <1>5, <2>2 DEF AskedBy
  <2>4. Promise!Ask(b) BY <1>2, <2>3, ItAsks
  <2> QED BY <2>4 DEF Promise!Next
<1>6. CASE ~Adding(run[w]) /\ ~Adding(run'[w])
  BY <1>1, <1>3, <1>6 DEF AskedBy
<1> QED BY <1>4, <1>5, <1>6

LEMMA PushPromise ==
  ASSUME TypeInv, NoSharedItem, NEW w \in Worker, Push(w) \/ PushAnswerLost(w)
  PROVE  [Promise!Next]_(Promise!vars)
<1> DEFINE r == run[w]
<1>1. /\ AskedOf(run) = AskedElsewhere(w) \cup AskedBy(run[w])
      /\ AskedOf(run') = AskedElsewhere(w) \cup AskedBy(run'[w])
      /\ run[w].pc \in {"push", "record"} =>
           RecordKey(run[w])[2] \notin AskedElsewhere(w)
  BY AskedStep DEF Step
<1>2. /\ run \in [Worker -> Run] /\ r \in Run /\ r.pc = "push" /\ r.ref \in Url
      /\ Idle.pc = "idle"
  BY DEF TypeInv, TypeOK, CallsOK, CallOK, ItemPc, Push, PushAnswerLost, Accepted, Idle
<1>3. PICK b \in Base : b = RecordKey(r)[2] BY <1>2, SubmissionType
<1>4. sent' = sent \cup {b} /\ UNCHANGED <<rows, handled>>
  BY <1>3 DEF Push, PushAnswerLost, Accepted
<1>5. AskedOf(run') = AskedOf(run) \/ AskedOf(run') = AskedOf(run) \ {b}
  <2>1. CASE Push(w)
    <3>1. run'[w] = [r EXCEPT !.pc = "record"] BY <1>2, <2>1 DEF Push
    <3>2. RecordKey(run'[w]) = RecordKey(r) /\ run'[w].kind = r.kind
          /\ run'[w].pc = "record"
      BY <1>2, <3>1 DEF RecordKey, SubmissionUrl, Run
    <3> QED BY <1>1, <1>2, <3>2 DEF AskedBy, Adding
  <2>2. CASE PushAnswerLost(w)
    <3>1. run'[w] = Dropped(r, TRUE) BY <1>2, <2>2 DEF PushAnswerLost
    <3>2. ~Adding(run'[w])
      BY <1>2, <3>1, DroppedOK DEF Adding, Dropped, TypeInv, CallsOK, ItemPc
    <3> QED BY <1>1, <1>2, <1>3, <3>2 DEF AskedBy
  <2> QED BY <2>1, <2>2
<1>6. Promise!Reach(b) BY <1>4, <1>5, ItReaches
<1> QED BY <1>6 DEF Promise!Next

LEMMA RecordPromise ==
  ASSUME Mapped, NoSharedItem, NEW w \in Worker, Record(w)
  PROVE  [Promise!Next]_(Promise!vars)
<1> USE DEF Mapped
<1> DEFINE r == run[w]
<1>1. /\ AskedOf(run) = AskedElsewhere(w) \cup AskedBy(run[w])
      /\ AskedOf(run') = AskedElsewhere(w) \cup AskedBy(run'[w])
      /\ run[w].pc \in {"push", "record"} =>
           RecordKey(run[w])[2] \notin AskedElsewhere(w)
  BY AskedStep DEF Step
<1>2. /\ run \in [Worker -> Run] /\ r \in Run /\ r.pc = "record" /\ r.ref \in Url
      /\ Idle.pc = "idle"
  BY DEF TypeInv, TypeOK, CallsOK, CallOK, ItemPc, Record, Idle
<1>3. PICK b \in Base : b = RecordKey(r)[2] BY <1>2, SubmissionType
<1>4. b \in sent /\ UNCHANGED <<sent, handled>> BY <1>2, <1>3 DEF RecordsSent, Record
<1>5. LedgerOf(rows') = [LedgerOf(rows) EXCEPT ![b] = "owned"]
  BY <1>3, RecordedMapped
<1>6. ~Adding(run'[w])
  <2> DEFINE left == IF r.kind = "backfill" THEN r.left - 1 ELSE r.left
  <2>1. run'[w] = IF r.kind = "add" THEN Idle ELSE [r EXCEPT !.pc = "ack", !.left = left]
    BY <1>2 DEF Record
  <2> HIDE DEF left
  <2> QED BY <1>2, <2>1 DEF Adding, Run
<1>7. AskedOf(run') = AskedOf(run) \ {b} BY <1>1, <1>2, <1>3, <1>6 DEF AskedBy
<1>8. CASE LedgerOf(rows)[b] = "unknown"
  <2>1. Promise!Own(b) BY <1>4, <1>5, <1>7, <1>8, ItOwns
  <2> QED BY <2>1 DEF Promise!Next
<1>9. CASE LedgerOf(rows)[b] # "unknown"
  <2>1. HasRow(b) BY <1>9, HasRowKnown
  <2>2. r.kind = "add"
    <3>1. r.kind # "add" => b = DedupKey[r.ref] BY <1>2, <1>3, SubmissionType
    <3> QED BY <1>2, <2>1, <3>1 DEF UnfiledInv, Unfiled
  <2>3. b \in AskedOf(run) BY <1>1, <1>2, <1>3, <2>2 DEF AskedBy, Adding
  <2>4. Promise!Revive(b) BY <1>4, <1>5, <1>7, <2>3, ItRevives
  <2> QED BY <2>4 DEF Promise!Next
<1> QED BY <1>8, <1>9

LEMMA AckPromise ==
  ASSUME Mapped, NoSharedItem, NEW w \in Worker, NEW reached \in BOOLEAN, Ack(w, reached)
  PROVE  [Promise!Next]_(Promise!vars)
<1> USE DEF Mapped
<1>1. /\ AskedOf(run) = AskedElsewhere(w) \cup AskedBy(run[w])
      /\ AskedOf(run') = AskedElsewhere(w) \cup AskedBy(run'[w])
      /\ run[w].pc \in {"push", "record"} =>
           RecordKey(run[w])[2] \notin AskedElsewhere(w)
  BY AskedStep DEF Step
<1>2. /\ run \in [Worker -> Run] /\ run[w] \in Run /\ CallOK(run[w]) /\ run[w].pc = "ack"
  BY DEF TypeInv, TypeOK, CallsOK, Ack
<1>3. PICK s \in Sub, u \in Url : s = run[w].sub /\ u = run[w].ref
  BY <1>2 DEF CallOK, ItemPc
<1>4. run'[w].pc = "items" BY <1>2 DEF Ack, Run
<1>5. AskedOf(run') = AskedOf(run) BY <1>1, <1>2, <1>4 DEF AskedBy, Adding
<1>6. UNCHANGED <<rows, sent>> BY DEF Ack
<1>7. CASE handled' = handled BY <1>5, <1>6, <1>7, ItStutters
<1>8. CASE handled' # handled
  <2>1. handled' = handled \cup {<<s, u>>} BY <1>3, <1>8 DEF Ack
  <2>2. Acked(s, u) BY <1>2, <1>3 DEF HandledInv
  <2>3. u \in Ebook \/ \E v \in Aliases(s, u) : LedgerOf(rows)[DedupKey[v]] # "unknown"
    <3>1. ASSUME NEW v \in Aliases(s, u), HasRow(DedupKey[v])
          PROVE  LedgerOf(rows)[DedupKey[v]] # "unknown"
      <4>1. v \in Url BY PipelineAssumption DEF Aliases
      <4>2. DedupKey[v] \in Base BY <4>1, LedgerAssumption
      <4> QED BY <3>1, <4>2, HasRowKnown
    <3> QED BY <2>2, <3>1 DEF Acked, Filed
  <2>4. Promise!Settle(<<s, u>>) BY <1>5, <1>6, <2>1, <2>3, ItSettles
  <2> QED BY <2>4 DEF Promise!Next
<1> QED BY <1>7, <1>8

LEMMA UserPromise ==
  ASSUME Mapped, User
  PROVE  [Promise!Next]_(Promise!vars)
<1> USE DEF Mapped
<1>1. UNCHANGED <<run, sent, handled>> BY DEF User, UserDeletes, UserReroutes, UserToggles
<1>2. CASE rows' = rows BY <1>1, <1>2, ItStutters
<1>3. ASSUME NEW k \in Key, UserDeletes(k) PROVE [Promise!Next]_(Promise!vars)
  <2> DEFINE f == Connected(rows)
  <2>1. f \in [Key -> Row] /\ f[k].state = "live" /\ rows' = DeleteItem(f, k)
    BY <1>3, ConnectedType DEF UserDeletes, TypeInv, TypeOK
  <2>2. LedgerOf(f) = LedgerOf(rows) BY ConnectedMapped
  <2>3. f[k].origin # "gone"
    <3>1. rows \in [Key -> Row] BY DEF TypeInv, TypeOK
    <3> DEFINE bare == rows[<<"readwise", k[2]>>]
               old == IF bare.owner = "shiori"
                        THEN IF k[1] = "shiori" THEN bare ELSE NoRow
                        ELSE rows[k]
    <3>2. old \in Row BY <3>1, KeyParts, NoRowType
    <3>3. f[k] = IF old.origin = "gone" THEN [old EXCEPT !.state = "deleted"] ELSE old
      BY <3>1, ConnectedIs
    <3> HIDE DEF old, f
    <3> QED BY <2>1, <3>2, <3>3 DEF Row
  <2> HIDE DEF f
  <2>4. /\ LedgerOf(rows)[k[2]] = "owned"
        /\ \/ LedgerOf(rows') = LedgerOf(rows)
           \/ LedgerOf(rows') = [LedgerOf(rows) EXCEPT ![k[2]] = "forgotten"]
    BY <2>1, <2>2, <2>3, DeletedMapped
  <2>5. k[2] \in Base BY KeyParts
  <2>6. CASE LedgerOf(rows') = LedgerOf(rows) BY <1>1, <2>6, ItStutters
  <2>7. CASE LedgerOf(rows') = [LedgerOf(rows) EXCEPT ![k[2]] = "forgotten"]
    <3>1. Promise!Forget(k[2]) BY <1>1, <2>4, <2>7, ItForgets
    <3> QED BY <2>5, <3>1 DEF Promise!Next
  <2> QED BY <2>4, <2>6, <2>7
<1> QED BY <1>2, <1>3 DEF User, UserReroutes, UserToggles

LEMMA StartPromise ==
  ASSUME Mapped, NoSharedItem, NEW w \in Worker,
         \/ StartSync(w)
         \/ \E s \in Sub, posts \in 1..MaxNew : StartBackfill(w, s, posts)
         \/ \E u \in Addable, d \in Destination : StartAdd(w, u, d)
  PROVE  [Promise!Next]_(Promise!vars)
<1>1. rows' = Connected(rows) /\ UNCHANGED <<sent, handled>>
  BY DEF StartSync, StartBackfill, StartAdd
<1>2. LedgerOf(rows') = LedgerOf(rows) BY <1>1, ConnectedMapped DEF Mapped
<1>3. AskedOf(run') = AskedOf(run) BY AskedStart DEF Mapped
<1> QED BY <1>1, <1>2, <1>3, ItStutters

LEMMA PromiseStep ==
  Mapped /\ NoSharedItem /\ [Next]_vars => [Promise!Next]_(Promise!vars)
<1> SUFFICES ASSUME Mapped, NoSharedItem, [Next]_vars
             PROVE  [Promise!Next]_(Promise!vars)
  OBVIOUS
<1>1. CASE UNCHANGED vars BY <1>1, ItStutters DEF vars
<1>2. ASSUME NEW w \in Worker, Step(w) \/ Crash(w)
      PROVE  [Promise!Next]_(Promise!vars)
  BY <1>2, QuietStep, QuietPromise, PushPromise, RecordPromise, AckPromise DEF Mapped
<1> QED BY <1>1, <1>2, StartPromise, UserPromise DEF Next

LEMMA PromiseInit == Init => Promise!Init
<1> SUFFICES ASSUME Init PROVE Promise!Init OBVIOUS
<1>1. sent = {} /\ handled = {} /\ \A w \in Worker : run[w].pc = "idle"
  BY DEF Init, Idle
<1>2. LedgerOf(rows) \in [Base -> {"unknown", "owned", "forgotten"}] BY DEF LedgerOf
<1>3. AskedOf(run) = {} BY <1>1 DEF AskedOf, Adding
<1> QED BY <1>1, <1>2, <1>3, MappedLedger, MappedAsked DEF Promise!Init

\* While no two calls share an article, the pipeline implements Delivery: an
\* article is owned only after a provider has it, its mailbox is told only
\* after it is owned, and what the user deleted comes back only when asked.
THEOREM PromiseKept == Spec /\ []NoSharedItem => KeepsPromise
<1>1. Mapped /\ NoSharedItem /\ [Next]_vars => [Promise!Next]_(Promise!vars)
  BY PromiseStep
<1>2. Mapped <=> TypeInv /\ FormInv /\ UnfiledInv /\ HandledInv /\ RecordsSent
  BY DEF Mapped
<1>3. Init => RecordsSent BY DEF Init, RecordsSent, Idle
<1>4. Init => HandledInv BY DEF Init, HandledInv, HandledIsFiled, Idle
<1> QED
  BY <1>1, <1>2, <1>3, <1>4, PromiseInit, TypeInit, TypeStep, BareInit, BareStep,
     FormInit, FormStep, UnfiledInit, UnfiledStep, HandledStep, RecordsSentStep, PTL
  DEF Spec, KeepsPromise, Promise!Spec

\* Calls that take turns share no article, and a single worker's take turns:
\* of it the four promises hold as they stand.
NoOverlap ==
  \A v, w \in Worker : run[v].pc # "idle" /\ run[w].pc # "idle" => v = w

LEMMA TurnsShareNothing == NoOverlap => NoSharedItem /\ NoSharedForm
BY DEF NoOverlap, NoSharedItem, NoSharedForm, InHand

\* Of calls that never overlap all four promises hold.
THEOREM TurnsKeepAll ==
  Spec /\ []NoOverlap =>
    PushesOnlyUnfiled /\ RepushesOnlyLost /\ TombstonesHold /\ KeepsPromise
BY TurnsShareNothing, OnlyUnfiledIsPushed, OnlyLostIsPushedAgain, OnlyTheUserRevives,
   PromiseKept, PTL

\* One worker, whatever it runs and however often it crashes, keeps all four.
THEOREM OneWorkerKeepsAll ==
  ASSUME \A v, w \in Worker : v = w
  PROVE  Spec => PushesOnlyUnfiled /\ RepushesOnlyLost /\ TombstonesHold /\ KeepsPromise
<1>1. NoOverlap BY DEF NoOverlap
<1> QED BY <1>1, TurnsKeepAll, PTL
=============================================================================
