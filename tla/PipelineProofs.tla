--------------------------- MODULE PipelineProofs ---------------------------
(***************************************************************************)
(* Theorems of Pipeline for every configuration, any number of workers and *)
(* ledgers of any size.                                                    *)
(***************************************************************************)
EXTENDS Pipeline, TLAPS

-----------------------------------------------------------------------------
(* The ledger's operators.                                                 *)

LEMMA RowParts ==
  ASSUME NEW r \in Row
  PROVE  /\ r.state \in {"absent", "live", "deleted"}
         /\ r.origin \in {"none", "file", "gone", "push"}
         /\ r.owner \in Destination /\ r.url \in Url \cup {NoUrl}
         /\ [r EXCEPT !.state = "deleted"] \in Row
BY DEF Row

LEMMA NoRowType == NoRow \in Row
BY DEF NoRow, Row, Destination

\* Every connect() leaves a well-formed ledger.
LEMMA ConnectedType ==
  ASSUME NEW f \in [Key -> Row]
  PROVE  Connected(f) \in [Key -> Row]
<1>1. PrefixShioriKeys(f) \in [Key -> Row]
  <2> SUFFICES ASSUME NEW key \in Key
               PROVE  PrefixShioriKeys(f)[key] \in Row
    BY DEF PrefixShioriKeys
  <2>1. <<"readwise", key[2]>> \in Key BY DEF Key, Destination
  <2> QED BY <2>1, NoRowType DEF PrefixShioriKeys
<1>2. ASSUME NEW g \in [Key -> Row] PROVE BackfillTombstones(g) \in [Key -> Row]
  <2> SUFFICES ASSUME NEW key \in Key
               PROVE  BackfillTombstones(g)[key] \in Row
    BY DEF BackfillTombstones
  <2>1. g[key] \in Row OBVIOUS
  <2> QED BY <2>1, RowParts DEF BackfillTombstones
<1> QED BY <1>1, <1>2 DEF Connected

\* The migrations move a row from the bare key to the prefixed one at most,
\* and add a tombstone at most.
LEMMA ConnectedRow ==
  ASSUME NEW f \in [Key -> Row], NEW key \in Key
  PROVE  LET bare == f[<<"readwise", key[2]>>]
             old == IF bare.owner = "shiori"
                      THEN IF key[1] = "shiori" THEN bare ELSE NoRow
                      ELSE f[key]
         IN  /\ Connected(f)[key].origin = old.origin
             /\ Connected(f)[key].owner = old.owner
             /\ Connected(f)[key].url = old.url
             /\ (Connected(f)[key].state = "absent" <=>
                   old.state = "absent" /\ old.origin # "gone")
<1> DEFINE g == PrefixShioriKeys(f)
<1>1. g \in [Key -> Row]
  <2> SUFFICES ASSUME NEW k \in Key
               PROVE  g[k] \in Row
    BY DEF PrefixShioriKeys
  <2>1. <<"readwise", k[2]>> \in Key BY DEF Key, Destination
  <2> QED BY <2>1, NoRowType DEF PrefixShioriKeys
<1>2. g[key] \in Row BY <1>1
<1>3. Connected(f)[key] = IF g[key].origin = "gone"
                            THEN [g[key] EXCEPT !.state = "deleted"] ELSE g[key]
  BY DEF Connected, BackfillTombstones
<1>4. g[key] = IF f[<<"readwise", key[2]>>].owner = "shiori"
                 THEN IF key[1] = "shiori" THEN f[<<"readwise", key[2]>>] ELSE NoRow
                 ELSE f[key]
  BY DEF PrefixShioriKeys
<1> HIDE DEF g
<1>5. /\ Connected(f)[key].origin = g[key].origin
      /\ Connected(f)[key].owner = g[key].owner
      /\ Connected(f)[key].url = g[key].url
      /\ (Connected(f)[key].state = "absent" <=>
            g[key].state = "absent" /\ g[key].origin # "gone")
  BY <1>2, <1>3 DEF Row
<1> QED BY <1>4, <1>5

\* What an older tool left is a well-formed ledger.
LEMMA LegacyType ==
  ASSUME NEW past \in [Base -> LegacyKind]
  PROVE  LegacyLedger(past) \in [Key -> Row]
<1> SUFFICES ASSUME NEW key \in Key
             PROVE  LegacyLedger(past)[key] \in Row
  BY DEF LegacyLedger
<1>1. key[2] \in Base BY DEF Key
<1>2. (CHOOSE u \in Url : DedupKey[u] = key[2]) \in Url BY <1>1, LedgerAssumption
<1>3. ASSUME NEW kind \in LegacyKind, NEW u \in Url PROVE LegacyRow(kind, u) \in Row
  BY DEF LegacyRow, LegacyKind, Row, Destination
<1> QED BY <1>1, <1>2, <1>3, NoRowType DEF LegacyLedger

-----------------------------------------------------------------------------
(* Types.  A call's locals are typed because of where the call stands: an  *)
(* item step has an item, a subscription step a subscription, and a        *)
(* backfill under its limit something left to push.                        *)

ItemPc == {"build", "push", "record", "ack"}

CallOK(r) ==
  /\ r.pc \in ItemPc => r.ref \in Url
  /\ r.pc \in {"next", "discover"} => r.kind = "sync"
  /\ r.kind = "add" => r.pc \in {"build", "push", "record"}
  /\ r.kind # "add" /\ r.pc \notin {"idle", "next"} => r.sub \in Sub
  /\ r.kind = "backfill" /\ r.pc \in {"build", "push", "record"} => r.left > 0

CallsOK == \A w \in Worker : CallOK(run[w])

TypeInv == TypeOK /\ CallsOK

LEMMA IdleOK == Idle \in Run /\ CallOK(Idle)
BY PipelineAssumption DEF Idle, Run, Pc, Destination, CallOK, ItemPc

\* The helpers that end an item or a subscription.
LEMMA AfterOK ==
  ASSUME NEW r \in Run, CallOK(r), r.kind = "sync"
  PROVE  AfterSubscription(r) \in Run /\ CallOK(AfterSubscription(r))
BY DEF AfterSubscription, Run, Pc, Destination, CallOK, ItemPc

LEMMA DroppedOK ==
  ASSUME NEW r \in Run, CallOK(r), r.pc \in ItemPc, NEW failed \in BOOLEAN
  PROVE  /\ Dropped(r, failed) \in Run /\ CallOK(Dropped(r, failed))
         /\ r.kind # "add" =>
              /\ Dropped(r, failed).pc = "items"
              /\ Dropped(r, failed).kind = r.kind /\ Dropped(r, failed).sub = r.sub
              /\ Dropped(r, failed).via = r.via
              /\ Dropped(r, failed).blocked = r.blocked
<1>1. CASE r.kind = "add" BY <1>1, IdleOK DEF Dropped
<1>2. CASE r.kind # "add"
  BY <1>2 DEF Dropped, Run, Pc, CallOK, ItemPc
<1> QED BY <1>1, <1>2

LEMMA LimitedOK ==
  ASSUME NEW r \in Run, CallOK(r), r.pc \in ItemPc, NEW hosts \in SUBSET Destination
  PROVE  Limited(r, hosts) \in Run /\ CallOK(Limited(r, hosts))
<1>1. CASE r.kind = "sync"
  <2>1. Dropped(r, TRUE) \in Run /\ CallOK(Dropped(r, TRUE)) BY DroppedOK
  <2>2. Dropped(r, TRUE).pc = "items" BY <1>1, DroppedOK
  <2> QED BY <1>1, <2>1, <2>2 DEF Limited, Run, CallOK, ItemPc
<1>2. CASE r.kind # "sync" BY <1>2, IdleOK DEF Limited
<1> QED BY <1>1, <1>2

\* What a call submits and records is well typed.
LEMMA SubmissionType ==
  ASSUME NEW r \in Run, r.ref \in Url
  PROVE  /\ SubmissionUrl(r) \in Url
         /\ RecordKey(r) \in Key
         /\ RecordKey(r)[1] = r.via
         /\ RecordKey(r)[2] = DedupKey[IF r.kind = "add" THEN SubmissionUrl(r) ELSE r.ref]
         /\ RecordKey(r)[2] \in Base
<1>1. SubmissionUrl(r) \in Url BY PipelineAssumption DEF SubmissionUrl, Run
<1> QED BY <1>1, LedgerAssumption DEF RecordKey, DestinationKey, Key, Run

LEMMA ListedType == ASSUME NEW s, NEW urls PROVE Listed(s, urls) \subseteq urls
BY DEF Listed

\* Changing the locals of one worker to well-formed ones.
LEMMA OneCall ==
  ASSUME TypeInv, NEW w \in Worker, NEW r \in Run, CallOK(r),
         run' = [run EXCEPT ![w] = r]
  PROVE  run' \in [Worker -> Run] /\ CallsOK'
BY DEF TypeInv, TypeOK, CallsOK

LEMMA TypeInit == Init => TypeInv
<1> SUFFICES ASSUME Init PROVE TypeInv OBVIOUS
<1>1. PICK past \in Past :
        /\ rows = LegacyLedger(past)
        /\ delivered = {<<"shiori", LegacyLedger(past)[<<"readwise", b>>].url>> :
                          b \in {b \in Base : past[b] = "shiori"}}
  BY DEF Init
<1>2. past \in [Base -> LegacyKind] BY PipelineAssumption
<1>3. rows \in [Key -> Row] BY <1>1, <1>2, LegacyType
<1>4. delivered \subseteq Destination \X Url
  <2> SUFFICES ASSUME NEW x \in delivered PROVE x \in Destination \X Url
    OBVIOUS
  <2> PICK b \in Base : /\ past[b] = "shiori"
                        /\ x = <<"shiori", LegacyLedger(past)[<<"readwise", b>>].url>>
    BY <1>1
  <2>1. <<"readwise", b>> \in Key BY DEF Key, Destination
  <2>2. (CHOOSE u \in Url : DedupKey[u] = b) \in Url BY LedgerAssumption
  <2>3. LegacyLedger(past)[<<"readwise", b>>].url \in Url
    BY <2>1, <2>2 DEF LegacyLedger, LegacyRow
  <2> QED BY <2>3 DEF Destination
<1>5. run \in [Worker -> Run] /\ CallsOK BY IdleOK DEF Init, CallsOK
<1> QED BY <1>3, <1>4, <1>5, PipelineAssumption DEF Init, TypeInv, TypeOK

-----------------------------------------------------------------------------
(* Each step keeps the types: first the starts and the loop over           *)
(* subscriptions, then the item, then the push, then the user.             *)

LEMMA StartTypes ==
  ASSUME TypeInv, NEW w \in Worker,
         \/ StartSync(w)
         \/ \E s \in Sub, posts \in 1..MaxNew : StartBackfill(w, s, posts)
         \/ \E u \in Addable, d \in Destination : StartAdd(w, u, d)
  PROVE  TypeInv'
<1> USE DEF TypeInv, TypeOK
<1>1. Connected(rows) \in [Key -> Row] BY ConnectedType
<1>2. CASE StartSync(w)
  <2> DEFINE r == [Idle EXCEPT !.pc = "next", !.plan = route, !.off = disabled,
                               !.queue = SubOrder]
  <2>1. r \in Run /\ CallOK(r)
    BY PipelineAssumption DEF Idle, Run, Pc, Destination, CallOK, ItemPc
  <2>2. run' = [run EXCEPT ![w] = r] BY <1>2 DEF StartSync
  <2> HIDE DEF r
  <2> QED BY <1>1, <1>2, <2>1, <2>2, OneCall DEF StartSync
<1>3. ASSUME NEW s \in Sub, NEW posts \in 1..MaxNew, StartBackfill(w, s, posts)
      PROVE  TypeInv'
  <2> DEFINE found == Listed(s, Archive[s])
             r == [Idle EXCEPT !.pc = "items", !.kind = "backfill", !.sub = s,
                               !.via = route[s], !.left = posts,
                               !.refs = found, !.todo = found]
  <2>1. found \subseteq Url BY PipelineAssumption, ListedType
  <2>2. posts \in Nat /\ posts > 0 /\ route[s] \in Destination BY PipelineAssumption
  <2> HIDE DEF found
  <2>3. r \in Run BY <2>1, <2>2, IdleOK DEF Run, Pc
  <2>4. CallOK(r) BY <2>2, IdleOK DEF Run, CallOK, ItemPc
  <2>5. run' = [run EXCEPT ![w] = r] BY <1>3 DEF StartBackfill, found
  <2> HIDE DEF r
  <2> QED BY <1>1, <1>3, <2>3, <2>5, <2>4, OneCall DEF StartBackfill
<1>4. ASSUME NEW u \in Addable, NEW d \in Destination, StartAdd(w, u, d)
      PROVE  TypeInv'
  <2> DEFINE r == [Idle EXCEPT !.pc = "build", !.kind = "add", !.via = d,
                               !.refs = {u}, !.ref = OneRef[u]]
  <2>1. u \in Url /\ OneRef[u] \in Url BY PipelineAssumption
  <2>2. r \in Run BY <2>1, IdleOK DEF Run, Pc
  <2>3. CallOK(r) BY <2>1, IdleOK DEF Run, CallOK, ItemPc
  <2>4. run' = run \/ run' = [run EXCEPT ![w] = r] BY <1>4 DEF StartAdd
  <2> HIDE DEF r
  <2>5. run' \in [Worker -> Run] /\ CallsOK'
    BY <2>2, <2>4, <2>3, OneCall DEF CallsOK
  <2> QED BY <1>1, <1>4, <2>5 DEF StartAdd
<1> QED BY <1>2, <1>3, <1>4

LEMMA LoopTypes ==
  ASSUME TypeInv, NEW w \in Worker,
         \/ NextSubscription(w) \/ FinishSync(w) \/ Discover(w) \/ DiscoverFails(w)
         \/ FinishSubscription(w) \/ FinishBackfill(w)
  PROVE  TypeInv'
<1> USE DEF TypeInv, TypeOK
<1> DEFINE r == run[w]
<1>1. r \in Run /\ CallOK(r) BY DEF CallsOK
<1>2. CASE NextSubscription(w)
  <2> DEFINE s == Head(r.queue)
             passed == [r EXCEPT !.queue = Tail(r.queue)]
             begun == [r EXCEPT !.pc = "discover", !.queue = Tail(r.queue), !.sub = s,
                                !.via = r.plan[s], !.errs = FALSE, !.walled = {}]
  <2>1. r.pc = "next" /\ r.queue # <<>> /\ r.queue \in Seq(Sub)
    BY <1>1, <1>2 DEF NextSubscription, Run
  <2>2. s \in Sub /\ Tail(r.queue) \in Seq(Sub) BY <2>1
  <2>3. passed \in Run /\ CallOK(passed)
    BY <1>1, <2>1, <2>2 DEF Run, CallOK, ItemPc
  <2>4. begun \in Run /\ CallOK(begun)
    BY <1>1, <2>1, <2>2 DEF Run, Pc, CallOK, ItemPc
  <2>5. run' = [run EXCEPT ![w] = passed] \/ run' = [run EXCEPT ![w] = begun]
    BY <1>2 DEF NextSubscription
  <2> HIDE DEF passed, begun
  <2>6. run' \in [Worker -> Run] /\ CallsOK' BY <2>3, <2>4, <2>5, OneCall
  <2> QED BY <1>2, <2>6 DEF NextSubscription
<1>3. CASE FinishSync(w)
  BY <1>3, IdleOK, OneCall DEF FinishSync
<1>4. CASE Discover(w)
  <2> DEFINE found == Listed(r.sub, Feed[r.sub])
             listed == [r EXCEPT !.pc = "items", !.refs = found, !.todo = found]
  <2>1. r.pc = "discover" /\ r.sub \in Sub BY <1>1, <1>4 DEF Discover, CallOK
  <2>2. found \subseteq Url BY <2>1, PipelineAssumption, ListedType
  <2>3. run' = [run EXCEPT ![w] = listed] BY <1>1, <1>4 DEF Discover, Run
  <2> HIDE DEF found
  <2>4. listed \in Run /\ CallOK(listed)
    BY <1>1, <2>1, <2>2 DEF Run, Pc, CallOK, ItemPc
  <2> HIDE DEF listed
  <2> QED BY <1>4, <2>3, <2>4, OneCall DEF Discover
<1>5. CASE DiscoverFails(w)
  <2>1. AfterSubscription(r) \in Run /\ CallOK(AfterSubscription(r))
    BY <1>1, <1>5, AfterOK DEF DiscoverFails, CallOK
  <2>2. status' \in [Sub -> {"never", "ok", "error"}] BY <1>5 DEF DiscoverFails
  <2>3. run' \in [Worker -> Run] /\ CallsOK'
    BY <1>5, <2>1, OneCall DEF DiscoverFails
  <2> QED BY <1>5, <2>2, <2>3 DEF DiscoverFails
<1>6. CASE FinishSubscription(w)
  <2>1. AfterSubscription(r) \in Run /\ CallOK(AfterSubscription(r))
    BY <1>1, <1>6, AfterOK DEF FinishSubscription
  <2>2. status' \in [Sub -> {"never", "ok", "error"}] BY <1>6 DEF FinishSubscription
  <2>3. run' \in [Worker -> Run] /\ CallsOK'
    BY <1>6, <2>1, OneCall DEF FinishSubscription
  <2> QED BY <1>6, <2>2, <2>3 DEF FinishSubscription
<1>7. CASE FinishBackfill(w)
  BY <1>7, IdleOK, OneCall DEF FinishBackfill
<1> QED BY <1>2, <1>3, <1>4, <1>5, <1>6, <1>7

LEMMA ItemTypes ==
  ASSUME TypeInv, NEW w \in Worker,
         \/ \E u \in run[w].todo : NextItem(w, u)
         \/ Build(w) \/ BuildSkips(w) \/ BuildFails(w) \/ BuildPaywalled(w)
         \/ BuildLimited(w)
  PROVE  TypeInv'
<1> USE DEF TypeInv, TypeOK
<1> DEFINE r == run[w]
<1>1. r \in Run /\ CallOK(r) BY DEF CallsOK
<1>2. ASSUME NEW u \in r.todo, NextItem(w, u) PROVE TypeInv'
  <2> DEFINE taken(pc) == [r EXCEPT !.ref = u, !.todo = @ \ {u}, !.pc = pc]
  <2>1. u \in Url /\ r.todo \ {u} \subseteq Url BY <1>1 DEF Run
  <2>2. /\ r.pc = "items" /\ (r.kind = "backfill" => r.left > 0)
        /\ (run' = [run EXCEPT ![w] = taken("ack")]
             \/ run' = [run EXCEPT ![w] = taken("build")])
    BY <1>2 DEF NextItem
  <2>3. ASSUME NEW pc \in {"ack", "build"} PROVE taken(pc) \in Run /\ CallOK(taken(pc))
    BY <1>1, <2>1, <2>2 DEF Run, Pc, CallOK, ItemPc
  <2> HIDE DEF taken
  <2>4. run' \in [Worker -> Run] /\ CallsOK' BY <2>2, <2>3, OneCall
  <2> QED BY <1>2, <2>4 DEF NextItem
<1>3. CASE Build(w)
  <2> DEFINE ready == [r EXCEPT !.pc = "push"]
             known == IF r.kind = "add" THEN Idle ELSE [r EXCEPT !.pc = "ack"]
  <2>1. r.pc = "build" BY <1>3 DEF Build
  <2>2. run' = [run EXCEPT ![w] = ready] \/ run' = [run EXCEPT ![w] = known]
    BY <1>3 DEF Build
  <2>3. ready \in Run /\ CallOK(ready) BY <1>1, <2>1 DEF Run, Pc, CallOK, ItemPc
  <2>4. known \in Run /\ CallOK(known)
    BY <1>1, <2>1, IdleOK DEF Run, Pc, CallOK, ItemPc
  <2> HIDE DEF ready, known
  <2>5. run' \in [Worker -> Run] /\ CallsOK' BY <2>2, <2>3, <2>4, OneCall
  <2> QED BY <1>3, <2>5 DEF Build
<1>4. CASE BuildSkips(w)
  <2> DEFINE skipped == [r EXCEPT !.pc = "ack"]
  <2>1. /\ r.pc = "build" /\ r.kind # "add" /\ run' = [run EXCEPT ![w] = skipped]
    BY <1>1, <1>4 DEF BuildSkips, Run
  <2>2. skipped \in Run /\ CallOK(skipped) BY <1>1, <2>1 DEF Run, Pc, CallOK, ItemPc
  <2> HIDE DEF skipped
  <2>3. run' \in [Worker -> Run] /\ CallsOK' BY <2>1, <2>2, OneCall
  <2> QED BY <1>4, <2>3 DEF BuildSkips
<1>5. CASE BuildFails(w)
  <2>1. r.pc \in ItemPc /\ run' = [run EXCEPT ![w] = Dropped(r, TRUE)]
    BY <1>5 DEF BuildFails, ItemPc
  <2>2. run' \in [Worker -> Run] /\ CallsOK' BY <1>1, <2>1, DroppedOK, OneCall
  <2> QED BY <1>5, <2>2 DEF BuildFails
<1>6. CASE BuildPaywalled(w)
  <2> DEFINE dropped == Dropped(r, FALSE)
             walled == [dropped EXCEPT !.walled = @ \cup {r.ref}]
  <2>1. /\ r.pc \in ItemPc /\ r.ref \in Url
        /\ run' = [run EXCEPT ![w] = IF r.kind = "add" THEN Idle ELSE walled]
    BY <1>1, <1>6 DEF BuildPaywalled, ItemPc, CallOK
  <2>2. dropped \in Run /\ CallOK(dropped) BY <1>1, <2>1, DroppedOK
  <2> HIDE DEF dropped
  <2>3. walled \in Run BY <2>1, <2>2 DEF Run
  <2>4. CallOK(walled) BY <2>2 DEF Run, CallOK
  <2> HIDE DEF walled
  <2>5. run' \in [Worker -> Run] /\ CallsOK' BY <2>1, <2>3, <2>4, IdleOK, OneCall
  <2> QED BY <1>6, <2>5 DEF BuildPaywalled
<1>7. CASE BuildLimited(w)
  <2>1. r.pc \in ItemPc /\ run' = [run EXCEPT ![w] = Limited(r, {})]
    BY <1>7 DEF BuildLimited, ItemPc
  <2>2. Limited(r, {}) \in Run /\ CallOK(Limited(r, {})) BY <1>1, <2>1, LimitedOK
  <2>3. run' \in [Worker -> Run] /\ CallsOK' BY <2>1, <2>2, OneCall
  <2> QED BY <1>7, <2>3 DEF BuildLimited
<1> QED BY <1>2, <1>3, <1>4, <1>5, <1>6, <1>7

LEMMA PushTypes ==
  ASSUME TypeInv, NEW w \in Worker,
         \/ Push(w) \/ PushAnswerLost(w) \/ PushRefused(w) \/ PushLimited(w)
         \/ PushUnauthorized(w) \/ Record(w)
         \/ \E reached \in BOOLEAN : Ack(w, reached)
         \/ Crash(w)
  PROVE  TypeInv'
<1> USE DEF TypeInv, TypeOK
<1> DEFINE r == run[w]
<1>1. r \in Run /\ CallOK(r) BY DEF CallsOK
<1>2. r.pc \in ItemPc =>
        /\ r.ref \in Url /\ SubmissionUrl(r) \in Url
        /\ RecordKey(r) \in Key /\ RecordKey(r)[2] \in Base /\ r.via \in Destination
  BY <1>1, SubmissionType DEF CallOK, Run
<1>3. Accepted(r) => delivered' \subseteq Destination \X Url /\ sent' \subseteq Base
  BY <1>2 DEF Accepted, ItemPc
<1>4. CASE Push(w)
  <2> DEFINE pushed == [r EXCEPT !.pc = "record"]
  <2>1. r.pc = "push" /\ run' = [run EXCEPT ![w] = pushed]
    BY <1>1, <1>4 DEF Push, Accepted, Run
  <2>2. pushed \in Run /\ CallOK(pushed) BY <1>1, <2>1 DEF Run, Pc, CallOK, ItemPc
  <2> HIDE DEF pushed
  <2>3. run' \in [Worker -> Run] /\ CallsOK' BY <2>1, <2>2, OneCall
  <2> QED BY <1>3, <1>4, <2>3 DEF Push
<1>5. CASE PushAnswerLost(w)
  <2>1. r.pc \in ItemPc /\ run' = [run EXCEPT ![w] = Dropped(r, TRUE)]
    BY <1>5 DEF PushAnswerLost, Accepted, ItemPc
  <2>2. run' \in [Worker -> Run] /\ CallsOK' BY <1>1, <2>1, DroppedOK, OneCall
  <2> QED BY <1>2, <1>3, <1>5, <2>1, <2>2 DEF PushAnswerLost
<1>6. CASE PushRefused(w)
  <2>1. r.pc \in ItemPc /\ run' = [run EXCEPT ![w] = Dropped(r, TRUE)]
    BY <1>6 DEF PushRefused, ItemPc
  <2>2. run' \in [Worker -> Run] /\ CallsOK' BY <1>1, <2>1, DroppedOK, OneCall
  <2> QED BY <1>6, <2>2 DEF PushRefused
<1>7. CASE PushLimited(w)
  <2>1. r.pc \in ItemPc /\ run' = [run EXCEPT ![w] = Limited(r, {r.via})]
    BY <1>7 DEF PushLimited, ItemPc
  <2>2. Limited(r, {r.via}) \in Run /\ CallOK(Limited(r, {r.via}))
    BY <1>1, <1>2, <2>1, LimitedOK
  <2>3. run' \in [Worker -> Run] /\ CallsOK' BY <2>1, <2>2, OneCall
  <2> QED BY <1>7, <2>3 DEF PushLimited
<1>8. CASE PushUnauthorized(w)
  <2>1. run' \in [Worker -> Run] /\ CallsOK'
    BY <1>8, IdleOK, OneCall DEF PushUnauthorized
  <2>2. status' \in [Sub -> {"never", "ok", "error"}] BY <1>8 DEF PushUnauthorized
  <2> QED BY <1>8, <2>1, <2>2 DEF PushUnauthorized
<1>9. CASE Record(w)
  <2> DEFINE left == IF r.kind = "backfill" THEN r.left - 1 ELSE r.left
             recorded == [r EXCEPT !.pc = "ack", !.left = left]
             row == [state |-> "live", origin |-> "push",
                     owner |-> r.via, url |-> SubmissionUrl(r)]
  <2>1. r.pc = "record" /\ r.pc \in ItemPc BY <1>9 DEF Record, ItemPc
  <2>2. row \in Row BY <1>2, <2>1 DEF Row
  <2>3. rows' = [rows EXCEPT ![RecordKey(r)] = row] BY <1>9 DEF Record, RecordItem
  <2> HIDE DEF row
  <2>4. rows' \in [Key -> Row] BY <2>2, <2>3
  <2>5. run' = [run EXCEPT ![w] = IF r.kind = "add" THEN Idle ELSE recorded]
    BY <1>9 DEF Record
  <2>6. left \in Nat BY <1>1, <2>1 DEF Run, CallOK
  <2> HIDE DEF left
  <2>7. r.kind # "add" => recorded \in Run /\ CallOK(recorded)
    BY <1>1, <2>1, <2>6 DEF Run, Pc, CallOK, ItemPc
  <2> HIDE DEF recorded
  <2>8. run' \in [Worker -> Run] /\ CallsOK' BY <2>7, <2>5, IdleOK, OneCall
  <2> QED BY <1>9, <2>4, <2>8 DEF Record
<1>10. ASSUME NEW reached \in BOOLEAN, Ack(w, reached) PROVE TypeInv'
  <2> DEFINE acked == [r EXCEPT !.pc = "items", !.ref = NoUrl]
  <2>1. r.pc = "ack" /\ r.sub \in Sub /\ r.ref \in Url
    BY <1>1, <1>10 DEF Ack, CallOK, ItemPc
  <2>2. run' = [run EXCEPT ![w] = acked] BY <1>1, <1>10 DEF Ack, Run
  <2>3. acked \in Run /\ CallOK(acked) BY <1>1, <2>1 DEF Run, Pc, CallOK, ItemPc
  <2> HIDE DEF acked
  <2>4. run' \in [Worker -> Run] /\ CallsOK' BY <2>2, <2>3, OneCall
  <2>5. handled' \subseteq Sub \X Url BY <1>10, <2>1 DEF Ack
  <2> QED BY <1>10, <2>4, <2>5 DEF Ack
<1>11. CASE Crash(w)
  <2>1. run' \in [Worker -> Run] /\ CallsOK' BY <1>11, IdleOK, OneCall DEF Crash
  <2>2. lost' \subseteq Base BY <1>2, <1>11 DEF Crash, ItemPc
  <2> QED BY <1>11, <2>1, <2>2 DEF Crash
<1> QED BY <1>4, <1>5, <1>6, <1>7, <1>8, <1>9, <1>10, <1>11

LEMMA UserTypes ==
  ASSUME TypeInv, User
  PROVE  TypeInv'
<1> USE DEF TypeInv, TypeOK
<1>1. ASSUME NEW key \in Key, UserDeletes(key) PROVE TypeInv'
  <2> DEFINE f == Connected(rows)
  <2>1. f \in [Key -> Row] BY ConnectedType
  <2> HIDE DEF f
  <2>2. [f[key] EXCEPT !.state = "deleted"] \in Row BY <2>1 DEF Row
  <2>3. rows' = [f EXCEPT ![key] = [f[key] EXCEPT !.state = "deleted"]]
    BY <1>1, <2>1 DEF UserDeletes, DeleteItem, f
  <2>4. rows' \in [Key -> Row] BY <2>1, <2>2, <2>3
  <2> QED BY <1>1, <2>4 DEF UserDeletes, CallsOK
<1>2. ASSUME NEW change \in Reroutes, UserReroutes(change[1], change[2]) PROVE TypeInv'
  BY <1>2, PipelineAssumption DEF UserReroutes, CallsOK
<1>3. ASSUME NEW s \in Pausable, UserToggles(s) PROVE TypeInv'
  BY <1>3, PipelineAssumption DEF UserToggles, CallsOK
<1> QED BY <1>1, <1>2, <1>3 DEF User

LEMMA TypeStep == TypeInv /\ [Next]_vars => TypeInv'
<1> SUFFICES ASSUME TypeInv, [Next]_vars PROVE TypeInv' OBVIOUS
<1>1. CASE UNCHANGED vars BY <1>1 DEF vars, TypeInv, TypeOK, CallsOK
<1>2. ASSUME NEW w \in Worker, Step(w) PROVE TypeInv'
  BY <1>2, LoopTypes, ItemTypes, PushTypes DEF Step
<1> QED BY <1>1, <1>2, StartTypes, PushTypes, UserTypes DEF Next

\* Every reachable state is well typed, in particular the ledger stays a
\* function on keys through the migrations and `left` never goes below zero.
THEOREM TypeCorrect == Spec => []TypeOK
<1>1. TypeInv => TypeOK BY DEF TypeInv
<1> QED BY <1>1, TypeInit, TypeStep, PTL DEF Spec

-----------------------------------------------------------------------------
(* Frames: which steps write the ledger, reach a provider or a mailbox, or *)
(* bring a call to the point where it may.                                 *)

\* A call reaches "record" by a push and "ack" from four places, and leaves
\* "record" by recording or by dying.
CallFrame(v) ==
  /\ \/ run'[v] = run[v]
     \/ run'[v].pc \notin {"record", "ack"}
     \/ Push(v) \/ Record(v) \/ BuildSkips(v) \/ Build(v)
     \/ \E u \in run[v].todo : NextItem(v, u)
  /\ run[v].pc = "record" => run'[v] = run[v] \/ Record(v) \/ Crash(v)

LedgerFrame ==
  \/ rows' = rows
  \/ rows' = Connected(rows)
  \/ \E key \in Key : rows' = DeleteItem(Connected(rows), key)
  \/ \E w \in Worker : Record(w)

PushFrame ==
  \/ delivered' = delivered /\ sent' = sent
  \/ \E w \in Worker : Push(w) \/ PushAnswerLost(w)

LostFrame ==
  lost' = lost \/ \E w \in Worker : PushAnswerLost(w) \/ Record(w) \/ Crash(w)

MailFrame ==
  handled' = handled \/ \E w \in Worker, reached \in BOOLEAN : Ack(w, reached)

Frame ==
  /\ \A v \in Worker : CallFrame(v)
  /\ LedgerFrame /\ PushFrame /\ LostFrame /\ MailFrame

\* One worker moves, by a step that writes none of these but its own call.
LEMMA QuietFrame ==
  ASSUME TypeInv, NEW w \in Worker, NEW r,
         run' = [run EXCEPT ![w] = r], r.pc \notin {"record", "ack"},
         run[w].pc # "record",
         rows' = rows \/ rows' = Connected(rows),
         UNCHANGED <<delivered, handled, sent, lost>>
  PROVE  Frame
<1>1. ASSUME NEW v \in Worker PROVE CallFrame(v)
  BY DEF TypeInv, TypeOK, CallFrame
<1> QED BY <1>1 DEF Frame, LedgerFrame, PushFrame, LostFrame, MailFrame

LEMMA StartFrame ==
  ASSUME TypeInv, NEW w \in Worker,
         \/ StartSync(w)
         \/ \E s \in Sub, posts \in 1..MaxNew : StartBackfill(w, s, posts)
         \/ \E u \in Addable, d \in Destination : StartAdd(w, u, d)
  PROVE  Frame
<1>1. Idle \in Run /\ run[w] \in Run BY IdleOK DEF TypeInv, TypeOK
<1>2. CASE StartSync(w)
  <2> DEFINE r == [Idle EXCEPT !.pc = "next", !.plan = route, !.off = disabled,
                               !.queue = SubOrder]
  <2>1. r.pc = "next" BY <1>1 DEF Run
  <2>2. run' = [run EXCEPT ![w] = r] /\ run[w].pc = "idle" BY <1>2 DEF StartSync
  <2> HIDE DEF r
  <2> QED BY <1>2, <2>1, <2>2, QuietFrame DEF StartSync
<1>3. ASSUME NEW s \in Sub, NEW posts \in 1..MaxNew, StartBackfill(w, s, posts)
      PROVE  Frame
  <2> DEFINE r == [Idle EXCEPT !.pc = "items", !.kind = "backfill", !.sub = s,
                               !.via = route[s], !.left = posts,
                               !.refs = Listed(s, Archive[s]),
                               !.todo = Listed(s, Archive[s])]
  <2>1. r.pc = "items" BY <1>1 DEF Run
  <2>2. run' = [run EXCEPT ![w] = r] /\ run[w].pc = "idle" BY <1>3 DEF StartBackfill
  <2> HIDE DEF r
  <2> QED BY <1>3, <2>1, <2>2, QuietFrame DEF StartBackfill
<1>4. ASSUME NEW u \in Addable, NEW d \in Destination, StartAdd(w, u, d)
      PROVE  Frame
  <2> DEFINE r == [Idle EXCEPT !.pc = "build", !.kind = "add", !.via = d,
                               !.refs = {u}, !.ref = OneRef[u]]
  <2>1. r.pc = "build" BY <1>1 DEF Run
  <2>2. (run' = run \/ run' = [run EXCEPT ![w] = r]) /\ run[w].pc = "idle"
    BY <1>4 DEF StartAdd
  <2> HIDE DEF r
  <2>3. run' = run => run' = [run EXCEPT ![w] = run[w]] BY DEF TypeInv, TypeOK
  <2> QED BY <1>4, <2>1, <2>2, <2>3, QuietFrame DEF StartAdd
<1> QED BY <1>2, <1>3, <1>4

LEMMA StepFrame ==
  ASSUME TypeInv, NEW w \in Worker, Step(w) \/ Crash(w)
  PROVE  Frame
<1> DEFINE r == run[w]
<1>1. r \in Run /\ CallOK(r) /\ Idle.pc = "idle" BY DEF TypeInv, TypeOK, CallsOK, Idle
<1>2. CASE NextSubscription(w)
  <2> DEFINE s == Head(r.queue)
             passed == [r EXCEPT !.queue = Tail(r.queue)]
             begun == [r EXCEPT !.pc = "discover", !.queue = Tail(r.queue), !.sub = s,
                                !.via = r.plan[s], !.errs = FALSE, !.walled = {}]
  <2>1. r.pc = "next" BY <1>2 DEF NextSubscription
  <2>2. passed.pc = "next" /\ begun.pc = "discover" BY <1>1, <2>1 DEF Run
  <2>3. run' = [run EXCEPT ![w] = passed] \/ run' = [run EXCEPT ![w] = begun]
    BY <1>2 DEF NextSubscription
  <2> HIDE DEF passed, begun
  <2> QED BY <1>2, <2>1, <2>2, <2>3, QuietFrame DEF NextSubscription
<1>3. CASE FinishSync(w)
  BY <1>1, <1>3, QuietFrame DEF FinishSync
<1>4. CASE Discover(w)
  <2> DEFINE found == Listed(r.sub, Feed[r.sub])
             listed == [r EXCEPT !.pc = "items", !.refs = found, !.todo = found]
  <2>1. r.pc = "discover" /\ run' = [run EXCEPT ![w] = listed]
    BY <1>1, <1>4 DEF Discover, Run
  <2>2. listed.pc = "items" BY <1>1 DEF Run
  <2> HIDE DEF listed
  <2> QED BY <1>4, <2>1, <2>2, QuietFrame DEF Discover
<1>5. CASE DiscoverFails(w) \/ FinishSubscription(w)
  <2>1. AfterSubscription(r).pc = "next" BY <1>1 DEF AfterSubscription, Run
  <2>2. r.pc \in {"discover", "items"} /\ run' = [run EXCEPT ![w] = AfterSubscription(r)]
    BY <1>5 DEF DiscoverFails, FinishSubscription
  <2> QED BY <1>5, <2>1, <2>2, QuietFrame DEF DiscoverFails, FinishSubscription
<1>6. CASE FinishBackfill(w)
  BY <1>1, <1>6, QuietFrame DEF FinishBackfill
<1>7. CASE (\E u \in r.todo : NextItem(w, u)) \/ Build(w) \/ BuildSkips(w)
  <2>1. /\ r.pc # "record" /\ UNCHANGED <<rows, delivered, handled, sent, lost>>
        /\ \A v \in Worker : v # w => run'[v] = run[v]
    BY <1>7 DEF NextItem, Build, BuildSkips, TypeInv, TypeOK
  <2>2. ASSUME NEW v \in Worker PROVE CallFrame(v) BY <1>7, <2>1 DEF CallFrame
  <2> QED BY <2>1, <2>2 DEF Frame, LedgerFrame, PushFrame, LostFrame, MailFrame
<1>8. CASE BuildFails(w) \/ PushRefused(w)
  <2>1. r.pc \in {"build", "push"} /\ run' = [run EXCEPT ![w] = Dropped(r, TRUE)]
    BY <1>8 DEF BuildFails, PushRefused
  <2>2. Dropped(r, TRUE).pc \in {"idle", "items"} BY <1>1, <2>1, DroppedOK DEF Dropped, ItemPc
  <2> QED BY <1>8, <2>1, <2>2, QuietFrame DEF BuildFails, PushRefused
<1>9. CASE BuildPaywalled(w)
  <2> DEFINE dropped == Dropped(r, FALSE)
             walled == IF r.kind = "add" THEN Idle
                       ELSE [dropped EXCEPT !.walled = @ \cup {r.ref}]
  <2>1. r.pc = "build" /\ run' = [run EXCEPT ![w] = walled] BY <1>9 DEF BuildPaywalled
  <2>2. dropped \in Run /\ (r.kind # "add" => dropped.pc = "items")
    BY <1>1, <2>1, DroppedOK DEF ItemPc
  <2> HIDE DEF dropped
  <2>3. walled.pc \in {"idle", "items"} BY <1>1, <2>2 DEF Run
  <2> HIDE DEF walled
  <2> QED BY <1>9, <2>1, <2>3, QuietFrame DEF BuildPaywalled
<1>10. CASE BuildLimited(w) \/ PushLimited(w)
  <2>1. PICK hosts \in SUBSET Destination : run' = [run EXCEPT ![w] = Limited(r, hosts)]
    BY <1>1, <1>10 DEF BuildLimited, PushLimited, Run
  <2>2. r.pc \in {"build", "push"} BY <1>10 DEF BuildLimited, PushLimited
  <2>3. Limited(r, hosts).pc \in {"idle", "items"}
    <3>1. Dropped(r, TRUE) \in Run /\ (r.kind # "add" => Dropped(r, TRUE).pc = "items")
      BY <1>1, <2>2, DroppedOK DEF ItemPc
    <3> QED BY <1>1, <3>1 DEF Limited, Run
  <2> QED BY <1>10, <2>1, <2>2, <2>3, QuietFrame DEF BuildLimited, PushLimited
<1>11. CASE PushUnauthorized(w)
  BY <1>1, <1>11, QuietFrame DEF PushUnauthorized
<1>12. CASE Push(w) \/ PushAnswerLost(w)
  <2>1. /\ r.pc = "push" /\ UNCHANGED <<rows, handled>>
        /\ \A v \in Worker : v # w => run'[v] = run[v]
    BY <1>12 DEF Push, PushAnswerLost, Accepted, TypeInv, TypeOK
  <2>2. PushAnswerLost(w) => run'[w].pc \in {"idle", "items"}
    BY <1>1, <2>1, DroppedOK DEF PushAnswerLost, Dropped, ItemPc, TypeInv, TypeOK
  <2>3. ASSUME NEW v \in Worker PROVE CallFrame(v) BY <1>12, <2>1, <2>2 DEF CallFrame
  <2>4. Push(w) => lost' = lost BY DEF Push
  <2> QED BY <1>12, <2>1, <2>3, <2>4 DEF Frame, LedgerFrame, PushFrame, LostFrame, MailFrame
<1>13. CASE Record(w) \/ Crash(w)
  <2>1. /\ UNCHANGED <<delivered, sent, handled>> /\ (Crash(w) => rows' = rows)
        /\ (Crash(w) => run'[w].pc = "idle")
        /\ \A v \in Worker : v # w => run'[v] = run[v]
    BY <1>1, <1>13 DEF Record, Crash, TypeInv, TypeOK
  <2>2. ASSUME NEW v \in Worker PROVE CallFrame(v) BY <1>13, <2>1 DEF CallFrame
  <2> QED BY <1>13, <2>1, <2>2 DEF Frame, LedgerFrame, PushFrame, LostFrame, MailFrame
<1>14. ASSUME NEW reached \in BOOLEAN, Ack(w, reached) PROVE Frame
  <2>1. /\ r.pc = "ack" /\ UNCHANGED <<rows, delivered, sent, lost>>
        /\ \A v \in Worker : v # w => run'[v] = run[v]
        /\ run'[w].pc = "items"
    BY <1>1, <1>14 DEF Ack, TypeInv, TypeOK, Run
  <2>2. ASSUME NEW v \in Worker PROVE CallFrame(v) BY <2>1 DEF CallFrame
  <2> QED BY <1>14, <2>1, <2>2 DEF Frame, LedgerFrame, PushFrame, LostFrame, MailFrame
<1> QED
  BY <1>2, <1>3, <1>4, <1>5, <1>6, <1>7, <1>8, <1>9, <1>10, <1>11, <1>12, <1>13, <1>14
  DEF Step

LEMMA EveryFrame == TypeInv /\ [Next]_vars => Frame
<1> SUFFICES ASSUME TypeInv, [Next]_vars PROVE Frame OBVIOUS
<1>1. CASE UNCHANGED vars
  BY <1>1 DEF vars, Frame, CallFrame, LedgerFrame, PushFrame, LostFrame, MailFrame
<1>2. CASE User
  <2>1. UNCHANGED <<delivered, run, sent, lost, handled>>
    BY <1>2 DEF User, UserDeletes, UserReroutes, UserToggles
  <2>2. rows' = rows \/ \E key \in Key : rows' = DeleteItem(Connected(rows), key)
    BY <1>2 DEF User, UserDeletes, UserReroutes, UserToggles
  <2> QED BY <2>1, <2>2 DEF Frame, CallFrame, LedgerFrame, PushFrame, LostFrame, MailFrame
<1> QED BY <1>1, <1>2, StartFrame, StepFrame DEF Next

-----------------------------------------------------------------------------
(* "Remote push strictly precedes ledger write."  The invariant adds what  *)
(* a call that is about to record knows.                                   *)

PushedInv ==
  /\ RowsWereDelivered
  /\ \A w \in Worker :
       run[w].pc = "record" => <<run[w].via, SubmissionUrl(run[w])>> \in delivered

LEMMA PushedInit == Init => PushedInv
<1> SUFFICES ASSUME Init PROVE PushedInv OBVIOUS
<1>1. PICK past \in Past :
        /\ rows = LegacyLedger(past)
        /\ delivered = {<<"shiori", LegacyLedger(past)[<<"readwise", b>>].url>> :
                          b \in {b \in Base : past[b] = "shiori"}}
  BY DEF Init
<1>2. past \in [Base -> LegacyKind] BY PipelineAssumption
<1>3. ASSUME NEW key \in Key, rows[key].origin = "push"
      PROVE  <<rows[key].owner, rows[key].url>> \in delivered
  <2>1. key[2] \in Base /\ key = <<key[1], key[2]>> /\ key[1] \in {"readwise", "shiori"}
    BY DEF Key, Destination
  <2>2. ~(key[1] = "shiori" \/ past[key[2]] = "none")
    BY <1>1, <1>3 DEF LegacyLedger, NoRow
  <2>3. rows[key] = LegacyRow(past[key[2]], CHOOSE u \in Url : DedupKey[u] = key[2])
    BY <1>1, <2>2 DEF LegacyLedger
  <2>4. past[key[2]] = "shiori" /\ rows[key].owner = "shiori"
    BY <1>2, <1>3, <2>1, <2>3 DEF LegacyRow, LegacyKind
  <2>5. key = <<"readwise", key[2]>> BY <2>1, <2>2
  <2> QED BY <1>1, <2>1, <2>4, <2>5
<1>4. \A w \in Worker : run[w].pc = "idle" BY DEF Init, Idle
<1> QED BY <1>3, <1>4 DEF PushedInv, RowsWereDelivered

\* The migrations keep a document's owner and URL together.
LEMMA ConnectedDelivered ==
  ASSUME TypeInv, PushedInv, NEW key \in Key, Connected(rows)[key].origin = "push"
  PROVE  <<Connected(rows)[key].owner, Connected(rows)[key].url>> \in delivered
<1>1. <<"readwise", key[2]>> \in Key BY DEF Key, Destination
<1>2. rows \in [Key -> Row] BY DEF TypeInv, TypeOK
<1> QED BY <1>1, <1>2, ConnectedRow DEF PushedInv, RowsWereDelivered, NoRow

\* DeleteItem changes the state of a row and nothing else of it.
LEMMA DeleteItemRow ==
  ASSUME NEW f \in [Key -> Row], NEW k \in Key, NEW key \in Key
  PROVE  /\ DeleteItem(f, k)[key].origin = f[key].origin
         /\ DeleteItem(f, k)[key].owner = f[key].owner
         /\ DeleteItem(f, k)[key].url = f[key].url
         /\ DeleteItem(f, k)[key].state = IF key = k THEN "deleted" ELSE f[key].state
<1>1. f[k] \in Row /\ f[key] \in Row OBVIOUS
<1>2. DeleteItem(f, k) = [f EXCEPT ![k] = [f[k] EXCEPT !.state = "deleted"]]
  BY DEF DeleteItem
<1>3. DeleteItem(f, k)[key] =
        IF key = k THEN [f[k] EXCEPT !.state = "deleted"] ELSE f[key]
  BY <1>2
<1> QED BY <1>1, <1>3 DEF Row

\* What Record(w) writes, and where.
LEMMA RecordRow ==
  ASSUME TypeInv, NEW w \in Worker, Record(w)
  PROVE  /\ RecordKey(run[w]) \in Key /\ run[w] \in Run
         /\ run[w].ref \in Url /\ SubmissionUrl(run[w]) \in Url
         /\ \A key \in Key :
              IF key = RecordKey(run[w])
                THEN /\ rows'[key].state = "live" /\ rows'[key].origin = "push"
                     /\ rows'[key].owner = run[w].via
                     /\ rows'[key].url = SubmissionUrl(run[w])
                ELSE rows'[key] = rows[key]
<1>1. run[w] \in Run /\ run[w].ref \in Url
  BY DEF TypeInv, TypeOK, CallsOK, CallOK, Record, ItemPc
<1>2. RecordKey(run[w]) \in Key /\ SubmissionUrl(run[w]) \in Url BY <1>1, SubmissionType
<1> QED BY <1>1, <1>2 DEF Record, RecordItem, TypeInv, TypeOK

LEMMA PushedStep == TypeInv /\ PushedInv /\ [Next]_vars => PushedInv'
<1> SUFFICES ASSUME TypeInv, PushedInv, [Next]_vars PROVE PushedInv' OBVIOUS
<1>1. Frame /\ TypeInv' BY EveryFrame, TypeStep
<1>2. delivered \subseteq delivered'
  BY <1>1 DEF Frame, PushFrame, Push, PushAnswerLost, Accepted
<1>3. RowsWereDelivered'
  <2> SUFFICES ASSUME NEW key \in Key, rows'[key].origin = "push"
               PROVE  <<rows'[key].owner, rows'[key].url>> \in delivered'
    BY DEF RowsWereDelivered
  <2>1. CASE rows' = rows
    BY <1>2, <2>1 DEF PushedInv, RowsWereDelivered
  <2>2. CASE rows' = Connected(rows)
    BY <1>2, <2>2, ConnectedDelivered
  <2>3. ASSUME NEW k \in Key, rows' = DeleteItem(Connected(rows), k)
        PROVE  <<rows'[key].owner, rows'[key].url>> \in delivered'
    <3>1. Connected(rows) \in [Key -> Row] BY ConnectedType DEF TypeInv, TypeOK
    <3> QED BY <1>2, <2>3, <3>1, DeleteItemRow, ConnectedDelivered
  <2>4. ASSUME NEW w \in Worker, Record(w)
        PROVE  <<rows'[key].owner, rows'[key].url>> \in delivered'
    <3>1. <<run[w].via, SubmissionUrl(run[w])>> \in delivered
      BY <2>4 DEF PushedInv, Record
    <3> QED BY <1>2, <2>4, <3>1, RecordRow DEF PushedInv, RowsWereDelivered
  <2> QED BY <1>1, <2>1, <2>2, <2>3, <2>4 DEF Frame, LedgerFrame
<1>4. ASSUME NEW w \in Worker, run'[w].pc = "record"
      PROVE  <<run'[w].via, SubmissionUrl(run'[w])>> \in delivered'
  <2>1. CallFrame(w) BY <1>1 DEF Frame
  <2>2. CASE run'[w] = run[w]
    BY <1>2, <1>4, <2>2 DEF PushedInv
  <2>3. CASE Push(w)
    <3>1. run[w] \in Run BY DEF TypeInv, TypeOK
    <3>2. run'[w] = [run[w] EXCEPT !.pc = "record"] BY <2>3 DEF Push, TypeInv, TypeOK
    <3>3. SubmissionUrl(run'[w]) = SubmissionUrl(run[w]) /\ run'[w].via = run[w].via
      BY <3>1, <3>2 DEF SubmissionUrl, Run
    <3> QED BY <2>3, <3>3 DEF Push, Accepted
  <2>4. CASE Record(w) \/ BuildSkips(w) \/ Build(w) \/ \E u \in run[w].todo : NextItem(w, u)
    <3>1. run \in [Worker -> Run] /\ run[w] \in Run /\ Idle.pc = "idle"
      BY DEF TypeInv, TypeOK, Idle
    <3>2. CASE Record(w)
      <4> DEFINE left == IF run[w].kind = "backfill" THEN run[w].left - 1 ELSE run[w].left
      <4>1. run'[w] = IF run[w].kind = "add" THEN Idle
                      ELSE [run[w] EXCEPT !.pc = "ack", !.left = left]
        BY <3>1, <3>2 DEF Record
      <4> HIDE DEF left
      <4> QED BY <1>4, <3>1, <4>1 DEF Run
    <3>3. CASE BuildSkips(w) \/ Build(w)
      BY <1>4, <3>1, <3>3 DEF BuildSkips, Build, Run
    <3>4. ASSUME NEW u \in run[w].todo, NextItem(w, u) PROVE FALSE
      BY <1>4, <3>1, <3>4 DEF NextItem, Run
    <3> QED BY <2>4, <3>2, <3>3, <3>4
  <2> QED BY <1>4, <2>1, <2>2, <2>3, <2>4 DEF CallFrame
<1> QED BY <1>3, <1>4 DEF PushedInv

\* Whatever the configuration, the workers and the crashes, a ledger row names
\* a document its provider has accepted.
THEOREM PushPrecedesLedger == Spec => []RowsWereDelivered
<1>1. PushedInv => RowsWereDelivered BY DEF PushedInv
<1> QED BY <1>1, TypeInit, TypeStep, PushedInit, PushedStep, PTL DEF Spec

-----------------------------------------------------------------------------
(* The ledger never loses a row.  A missing row has the column defaults,   *)
(* so the migration of bare Shiori keys cannot overwrite one with it.      *)

BareRows ==
  \A b \in Base :
    rows[<<"readwise", b>>].state = "absent" => rows[<<"readwise", b>>].owner = "readwise"

LEMMA KeyParts ==
  /\ \A key \in Key :
       /\ key[2] \in Base
       /\ key = <<"readwise", key[2]>> \/ key = <<"shiori", key[2]>>
  /\ \A b \in Base : <<"readwise", b>> \in Key /\ <<"shiori", b>> \in Key
BY DEF Key, Destination

LEMMA BareInit == Init => BareRows
<1> SUFFICES ASSUME Init, NEW b \in Base,
                    rows[<<"readwise", b>>].state = "absent"
             PROVE  rows[<<"readwise", b>>].owner = "readwise"
  BY DEF BareRows
<1>1. PICK past \in Past : rows = LegacyLedger(past) BY DEF Init
<1>2. <<"readwise", b>> \in Key BY KeyParts
<1>3. past[b] = "none" BY <1>1, <1>2 DEF LegacyLedger, LegacyRow
<1> QED BY <1>1, <1>2, <1>3 DEF LegacyLedger, NoRow

LEMMA ConnectedKeeps ==
  ASSUME TypeInv, BareRows, NEW b \in Base
  PROVE  /\ HasRow(b) => \E key \in Key : key[2] = b /\ Connected(rows)[key].state # "absent"
         /\ Connected(rows)[<<"readwise", b>>].owner = "readwise"
<1> DEFINE bare == <<"readwise", b>>
           prefixed == <<"shiori", b>>
<1>1. rows \in [Key -> Row] /\ bare \in Key /\ prefixed \in Key
  BY KeyParts DEF TypeInv, TypeOK
<1>2. rows[bare].owner \in {"readwise", "shiori"} BY <1>1 DEF Row, Destination
<1>3. Connected(rows)[bare].owner = "readwise"
  BY <1>1, <1>2, ConnectedRow DEF NoRow
<1>4. CASE rows[bare].owner = "shiori"
  <2>1. rows[bare].state # "absent" BY <1>4 DEF BareRows
  <2>2. Connected(rows)[prefixed].state # "absent" BY <1>1, <1>4, <2>1, ConnectedRow
  <2> QED BY <1>1, <1>3, <2>2
<1>5. CASE rows[bare].owner # "shiori"
  <2>1. ASSUME NEW key \in Key, key[2] = b, rows[key].state # "absent"
        PROVE  Connected(rows)[key].state # "absent"
    BY <1>1, <1>5, <2>1, ConnectedRow
  <2> QED BY <1>3, <2>1 DEF HasRow
<1> QED BY <1>4, <1>5

LEMMA BareStep == TypeInv /\ BareRows /\ [Next]_vars => BareRows'
<1> SUFFICES ASSUME TypeInv, BareRows, [Next]_vars, NEW b \in Base,
                    rows'[<<"readwise", b>>].state = "absent"
             PROVE  rows'[<<"readwise", b>>].owner = "readwise"
  BY DEF BareRows
<1>1. LedgerFrame BY EveryFrame DEF Frame
<1>2. <<"readwise", b>> \in Key /\ Connected(rows) \in [Key -> Row]
  BY KeyParts, ConnectedType DEF TypeInv, TypeOK
<1>3. CASE rows' = rows BY <1>3 DEF BareRows
<1>4. CASE rows' = Connected(rows) BY <1>4, ConnectedKeeps
<1>5. ASSUME NEW k \in Key, rows' = DeleteItem(Connected(rows), k)
      PROVE  rows'[<<"readwise", b>>].owner = "readwise"
  BY <1>2, <1>5, DeleteItemRow, ConnectedKeeps
<1>6. ASSUME NEW w \in Worker, Record(w)
      PROVE  rows'[<<"readwise", b>>].owner = "readwise"
  BY <1>2, <1>6, RecordRow DEF BareRows
<1> QED BY <1>1, <1>3, <1>4, <1>5, <1>6 DEF LedgerFrame

LEMMA RowsStay ==
  ASSUME TypeInv, BareRows, [Next]_vars, NEW b \in Base, HasRow(b)
  PROVE  HasRow(b)'
<1>1. LedgerFrame BY EveryFrame DEF Frame
<1>2. Connected(rows) \in [Key -> Row] BY ConnectedType DEF TypeInv, TypeOK
<1>3. CASE rows' = rows BY <1>3 DEF HasRow
<1>4. CASE rows' = Connected(rows) BY <1>4, ConnectedKeeps DEF HasRow
<1>5. ASSUME NEW k \in Key, rows' = DeleteItem(Connected(rows), k)
      PROVE  HasRow(b)'
  <2>1. PICK key \in Key : key[2] = b /\ Connected(rows)[key].state # "absent"
    BY ConnectedKeeps
  <2>2. rows'[key].state # "absent" BY <1>2, <1>5, <2>1, DeleteItemRow
  <2> QED BY <2>1, <2>2 DEF HasRow
<1>6. ASSUME NEW w \in Worker, Record(w) PROVE HasRow(b)'
  <2>1. PICK key \in Key : key[2] = b /\ rows[key].state # "absent" BY DEF HasRow
  <2>2. rows'[key].state # "absent" BY <1>6, <2>1, RecordRow
  <2> QED BY <2>1, <2>2 DEF HasRow
<1> QED BY <1>1, <1>3, <1>4, <1>5, <1>6 DEF LedgerFrame

\* Recording files the document under the key of the call.
LEMMA RecordFiles ==
  ASSUME TypeInv, NEW w \in Worker, Record(w), NEW b, b = RecordKey(run[w])[2]
  PROVE  HasRow(b)'
<1>1. PICK key \in Key : key = RecordKey(run[w]) BY RecordRow
<1>2. key[2] = b /\ rows'[key].state # "absent" BY <1>1, RecordRow
<1> QED BY <1>2 DEF HasRow

-----------------------------------------------------------------------------
(* A push the provider accepted is filed, about to be, or known as lost.   *)

\* The ledger has a row of the hash, or is about to, or knows not of a push.
Known(b) ==
  \/ HasRow(b) \/ b \in lost
  \/ \E w \in Worker : run[w].pc = "record" /\ RecordKey(run[w])[2] = b

\* An accepted push makes its hash known, and known it stays.
LEMMA PushKnows ==
  ASSUME TypeInv, NEW w \in Worker, Push(w) \/ PushAnswerLost(w),
         NEW b, b = RecordKey(run[w])[2]
  PROVE  b \in lost' \/ \E v \in Worker : run'[v].pc = "record" /\ RecordKey(run'[v])[2] = b
<1>1. CASE Push(w)
  <2>1. run[w] \in Run /\ run'[w] = [run[w] EXCEPT !.pc = "record"]
    BY <1>1 DEF Push, TypeInv, TypeOK
  <2>2. RecordKey(run'[w]) = RecordKey(run[w]) /\ run'[w].pc = "record"
    BY <2>1 DEF RecordKey, SubmissionUrl, Run
  <2> QED BY <2>2
<1>2. CASE PushAnswerLost(w) BY <1>2 DEF PushAnswerLost
<1> QED BY <1>1, <1>2

LEMMA KnownStays ==
  ASSUME TypeInv, BareRows, [Next]_vars, NEW b \in Base, Known(b)
  PROVE  \/ HasRow(b)' \/ b \in lost'
         \/ \E w \in Worker : run'[w].pc = "record" /\ RecordKey(run'[w])[2] = b
<1>1. Frame BY EveryFrame
<1>2. CASE HasRow(b) BY <1>2, RowsStay
<1>3. CASE b \in lost
  <2>1. CASE lost' = lost BY <1>3, <2>1
  <2>2. ASSUME NEW w \in Worker, PushAnswerLost(w) \/ Crash(w) PROVE b \in lost'
    BY <1>3, <2>2 DEF PushAnswerLost, Crash
  <2>3. ASSUME NEW w \in Worker, Record(w) PROVE b \in lost' \/ HasRow(b)'
    <3>1. lost' = lost \ {RecordKey(run[w])[2]} BY <2>3 DEF Record
    <3> QED BY <1>3, <2>3, <3>1, RecordFiles
  <2> QED BY <1>1, <2>1, <2>2, <2>3 DEF Frame, LostFrame
<1>4. ASSUME NEW w \in Worker, run[w].pc = "record", RecordKey(run[w])[2] = b
      PROVE  \/ HasRow(b)' \/ b \in lost'
             \/ run'[w].pc = "record" /\ RecordKey(run'[w])[2] = b
  <2>1. run'[w] = run[w] \/ Record(w) \/ Crash(w) BY <1>1, <1>4 DEF Frame, CallFrame
  <2>2. Crash(w) => b \in lost' BY <1>4 DEF Crash
  <2>3. Record(w) => HasRow(b)' BY <1>4, RecordFiles
  <2> QED BY <1>4, <2>1, <2>2, <2>3
<1> QED BY <1>2, <1>3, <1>4 DEF Known

LEMMA SentStep ==
  TypeInv /\ BareRows /\ SentIsFiledOrLost /\ [Next]_vars => SentIsFiledOrLost'
<1> SUFFICES ASSUME TypeInv, BareRows, SentIsFiledOrLost, [Next]_vars, NEW b \in sent'
             PROVE  \/ HasRow(b)' \/ b \in lost'
                    \/ \E w \in Worker :
                         run'[w].pc = "record" /\ RecordKey(run'[w])[2] = b
  BY DEF SentIsFiledOrLost
<1>1. Frame /\ TypeInv' BY EveryFrame, TypeStep
<1>2. b \in Base BY <1>1 DEF TypeInv, TypeOK
<1>3. CASE b \notin sent
  <2>1. PICK w \in Worker : Push(w) \/ PushAnswerLost(w)
    BY <1>1, <1>3 DEF Frame, PushFrame
  <2>2. b = RecordKey(run[w])[2]
    BY <1>3, <2>1 DEF Push, PushAnswerLost, Accepted
  <2> QED BY <2>1, <2>2, PushKnows
<1>4. CASE b \in sent BY <1>2, <1>4, KnownStays DEF SentIsFiledOrLost, Known
<1> QED BY <1>3, <1>4

\* Nothing but a lost answer or a crash leaves a provider with a document the
\* ledger does not know of.
THEOREM NothingElseIsLost == Spec => []SentIsFiledOrLost
<1>1. Init => SentIsFiledOrLost BY DEF Init, SentIsFiledOrLost
<1> QED BY <1>1, TypeInit, TypeStep, BareInit, BareStep, SentStep, PTL DEF Spec

-----------------------------------------------------------------------------
(* "... which strictly precedes source ack."  A call that is about to ack  *)
(* has seen or written the row, or holds an item that is not content.      *)

Acked(s, u) == Filed(s, u) \/ u \in Ebook

HandledInv ==
  /\ HandledIsFiled
  /\ \A w \in Worker : run[w].pc = "ack" => Acked(run[w].sub, run[w].ref)

\* Whatever is accounted for stays so.
LEMMA AckedStays ==
  ASSUME TypeInv, BareRows, [Next]_vars, NEW s \in Sub, NEW u \in Url, Acked(s, u)
  PROVE  Acked(s, u)'
<1>1. CASE u \in Ebook BY <1>1 DEF Acked
<1>2. ASSUME NEW v \in Aliases(s, u), HasRow(DedupKey[v]) PROVE Acked(s, u)'
  <2>1. v \in Url BY PipelineAssumption DEF Aliases
  <2>2. PICK b \in Base : b = DedupKey[v] BY <2>1, LedgerAssumption
  <2>3. HasRow(b)' BY <1>2, <2>2, RowsStay
  <2> QED BY <1>2, <2>2, <2>3 DEF Acked, Filed, HasRow
<1> QED BY <1>1, <1>2 DEF Acked, Filed

\* A hit of the subscription lookup is a row of that hash.
LEMMA IngestedHasRow ==
  ASSUME NEW u \in Url, WasSubscriptionIngested(rows, u)
  PROVE  HasRow(DedupKey[u])
<1>1. PICK key \in SubscriptionKeys(u) : rows[key].state # "absent"
  BY DEF WasSubscriptionIngested, WasIngested
<1>2. key \in Key /\ key[2] = DedupKey[u]
  BY <1>1, LedgerAssumption DEF SubscriptionKeys, DestinationKey, Key
<1> QED BY <1>1, <1>2 DEF HasRow

\* The four ways to the ack.
LEMMA AckedWhenReached ==
  ASSUME TypeInv, NEW w \in Worker, run'[w].pc = "ack",
         NEW s \in Sub, NEW u \in Url, s = run'[w].sub, u = run'[w].ref,
         \/ Record(w) \/ BuildSkips(w) \/ Build(w)
         \/ \E v \in run[w].todo : NextItem(w, v)
  PROVE  Acked(s, u) \/ \E b \in Base : HasRow(b)' /\ b = DedupKey[u]
<1> DEFINE r == run[w]
<1>1. run \in [Worker -> Run] /\ r \in Run /\ CallOK(r) /\ Idle.pc = "idle"
  BY DEF TypeInv, TypeOK, CallsOK, Idle
<1>2. CASE Record(w)
  <2> DEFINE left == IF r.kind = "backfill" THEN r.left - 1 ELSE r.left
  <2>1. run'[w] = IF r.kind = "add" THEN Idle ELSE [r EXCEPT !.pc = "ack", !.left = left]
    BY <1>1, <1>2 DEF Record
  <2> HIDE DEF left
  <2>2. r.kind # "add" /\ r.ref = u BY <1>1, <2>1 DEF Run
  <2>3. RecordKey(r)[2] = DedupKey[u] /\ RecordKey(r)[2] \in Base
    BY <1>1, <2>2, SubmissionType
  <2>4. PICK b \in Base : b = RecordKey(r)[2] BY <2>3
  <2>5. HasRow(b)' BY <1>2, <2>4, RecordFiles
  <2> QED BY <2>3, <2>4, <2>5
<1>3. CASE BuildSkips(w)
  <2>1. r.ref \in Ebook /\ run'[w] = [r EXCEPT !.pc = "ack"]
    BY <1>1, <1>3 DEF BuildSkips
  <2> QED BY <1>1, <2>1 DEF Run, Acked
<1>4. CASE Build(w)
  <2>1. r.pc = "build" /\ (r.kind = "add" => run'[w].pc # "ack")
    BY <1>1, <1>4 DEF Build, Run
  <2>2. /\ AlreadyIngestedAs(rows, SubmissionUrl(r), RecordKey(r))
        /\ run'[w] = [r EXCEPT !.pc = "ack"]
    BY <1>1, <1>4, <2>1 DEF Build, Run
  <2>3. s = r.sub /\ u = r.ref BY <1>1, <2>2 DEF Run
  <2>4. SubmissionUrl(r) \in Url /\ SubmissionUrl(r) \in Aliases(s, u)
    BY <1>1, <2>3, SubmissionType DEF Aliases, SubmissionUrl
  <2>5. HasRow(DedupKey[SubmissionUrl(r)]) BY <2>2, <2>4, IngestedHasRow DEF AlreadyIngestedAs
  <2> QED BY <2>4, <2>5 DEF Acked, Filed
<1>5. ASSUME NEW v \in r.todo, NextItem(w, v) PROVE Acked(s, u)
  <2>1. s = r.sub /\ u = v /\ WasSubscriptionIngested(rows, u)
    BY <1>1, <1>5 DEF NextItem, Run
  <2> QED BY <2>1, IngestedHasRow DEF Acked, Filed, Aliases
<1> QED BY <1>2, <1>3, <1>4, <1>5

LEMMA HandledStep ==
  TypeInv /\ BareRows /\ HandledInv /\ [Next]_vars => HandledInv'
<1> SUFFICES ASSUME TypeInv, BareRows, HandledInv, [Next]_vars PROVE HandledInv' OBVIOUS
<1>1. Frame /\ TypeInv' BY EveryFrame, TypeStep
<1>2. ASSUME NEW s \in Sub, NEW u \in Url, <<s, u>> \in handled' PROVE Acked(s, u)'
  <2>1. CASE <<s, u>> \in handled
    BY <2>1, AckedStays DEF HandledInv, HandledIsFiled, Acked
  <2>2. CASE <<s, u>> \notin handled
    <3>1. PICK w \in Worker, reached \in BOOLEAN : Ack(w, reached)
      BY <1>1, <1>2, <2>2 DEF Frame, MailFrame
    <3>2. run[w].pc = "ack" /\ <<s, u>> = <<run[w].sub, run[w].ref>>
      BY <1>2, <2>2, <3>1 DEF Ack
    <3> QED BY <3>2, AckedStays DEF HandledInv
  <2> QED BY <2>1, <2>2
<1>3. ASSUME NEW w \in Worker, run'[w].pc = "ack",
             NEW s \in Sub, NEW u \in Url, s = run'[w].sub, u = run'[w].ref
      PROVE  Acked(s, u)'
  <2>1. CallFrame(w) BY <1>1 DEF Frame
  <2>2. CASE run'[w] = run[w]
    <3>1. Acked(s, u) BY <1>3, <2>2 DEF HandledInv
    <3> QED BY <3>1, AckedStays
  <2>3. CASE \/ Record(w) \/ BuildSkips(w) \/ Build(w)
             \/ \E v \in run[w].todo : NextItem(w, v)
    <3>1. CASE Acked(s, u) BY <3>1, AckedStays
    <3>2. ASSUME NEW b \in Base, HasRow(b)', b = DedupKey[u] PROVE Acked(s, u)'
      BY <3>2 DEF Acked, Filed, Aliases, HasRow
    <3> QED BY <1>3, <2>3, <3>1, <3>2, AckedWhenReached
  <2>4. CASE Push(w)
    <3>1. run[w] \in Run /\ run'[w] = [run[w] EXCEPT !.pc = "record"]
      BY <2>4 DEF Push, TypeInv, TypeOK
    <3> QED BY <1>3, <3>1 DEF Run
  <2> QED BY <1>3, <2>1, <2>2, <2>3, <2>4 DEF CallFrame
<1>4. ASSUME NEW w \in Worker, run'[w].pc = "ack" PROVE Acked(run[w].sub, run[w].ref)'
  <2>1. PICK s \in Sub, u \in Url : s = run'[w].sub /\ u = run'[w].ref
    BY <1>1, <1>4 DEF TypeInv, CallsOK, CallOK, ItemPc
  <2>2. Acked(s, u)' BY <1>3, <1>4, <2>1
  <2> QED BY <2>1, <2>2 DEF Acked, Filed
<1> QED BY <1>2, <1>4 DEF HandledInv, HandledIsFiled, Acked

\* Whatever fails or crashes, no mailbox is told of a message before the
\* ledger has it: mail is never lost.
THEOREM LedgerPrecedesAck == Spec => []HandledIsFiled
<1>1. Init => HandledInv BY DEF Init, HandledInv, HandledIsFiled, Idle
<1>2. HandledInv => HandledIsFiled BY DEF HandledInv
<1> QED BY <1>1, <1>2, TypeInit, TypeStep, BareInit, BareStep, HandledStep, PTL DEF Spec

-----------------------------------------------------------------------------
(* Once a destination has rate limited a run, nothing more is pushed to it *)
(* by that run.  The call may still stand in the subscription that hit the *)
(* limit, but with nothing left to do.                                     *)

Unblocked(r) ==
  r.via \in r.blocked => r.pc \in {"idle", "next"} \/ (r.pc = "items" /\ r.todo = {})

LimitedInv == \A w \in Worker : Unblocked(run[w])

LEMMA DroppedUnblocked ==
  ASSUME NEW r \in Run, CallOK(r), r.pc \in ItemPc, r.via \notin r.blocked,
         NEW failed \in BOOLEAN
  PROVE  Dropped(r, failed).via \notin Dropped(r, failed).blocked
<1>1. CASE r.kind = "add" BY <1>1 DEF Dropped, Idle
<1>2. CASE r.kind # "add" BY <1>2, DroppedOK
<1> QED BY <1>1, <1>2

LEMMA StepUnblocked ==
  ASSUME TypeInv, LimitedInv, NEW w \in Worker, Step(w) \/ Crash(w)
  PROVE  Unblocked(run'[w])
<1> DEFINE r == run[w]
<1>1. run \in [Worker -> Run] /\ r \in Run /\ CallOK(r) /\ Unblocked(r)
  BY DEF TypeInv, TypeOK, CallsOK, LimitedInv
<1>2. r.pc \in {"discover", "build", "push", "record", "ack"} => r.via \notin r.blocked
  BY <1>1 DEF Unblocked
<1>3. Unblocked(Idle) BY DEF Unblocked, Idle
<1>4. CASE NextSubscription(w)
  <2> DEFINE s == Head(r.queue)
             passed == [r EXCEPT !.queue = Tail(r.queue)]
             begun == [r EXCEPT !.pc = "discover", !.queue = Tail(r.queue), !.sub = s,
                                !.via = r.plan[s], !.errs = FALSE, !.walled = {}]
  <2>1. r.pc = "next" /\ run'[w] = IF PassedOver(r, s) THEN passed ELSE begun
    BY <1>1, <1>4 DEF NextSubscription
  <2>2. Unblocked(passed) BY <1>1, <2>1 DEF Unblocked, Run
  <2>3. ~PassedOver(r, s) => Unblocked(begun) BY <1>1 DEF PassedOver, Unblocked, Run
  <2> HIDE DEF passed, begun
  <2> QED BY <2>1, <2>2, <2>3
<1>5. CASE FinishSync(w) \/ FinishBackfill(w) \/ PushUnauthorized(w) \/ Crash(w)
  BY <1>1, <1>3, <1>5 DEF FinishSync, FinishBackfill, PushUnauthorized, Crash
<1>6. CASE Discover(w)
  <2> DEFINE found == Listed(r.sub, Feed[r.sub])
  <2>1. r.pc = "discover" /\ run'[w] = [r EXCEPT !.pc = "items", !.refs = found, !.todo = found]
    BY <1>1, <1>6 DEF Discover, Run
  <2> QED BY <1>1, <1>2, <2>1 DEF Unblocked, Run
<1>7. CASE DiscoverFails(w) \/ FinishSubscription(w)
  <2>1. run'[w] = AfterSubscription(r)
    BY <1>1, <1>7 DEF DiscoverFails, FinishSubscription
  <2>2. AfterSubscription(r).pc = "next" BY <1>1 DEF AfterSubscription, Run
  <2> QED BY <2>1, <2>2 DEF Unblocked
<1>8. ASSUME NEW u \in r.todo, NextItem(w, u) PROVE Unblocked(run'[w])
  <2>1. r.pc = "items" /\ r.todo # {} /\ run'[w].via = r.via /\ run'[w].blocked = r.blocked
    BY <1>1, <1>8 DEF NextItem, Run
  <2> QED BY <1>1, <2>1 DEF Unblocked
<1>9. CASE Build(w) \/ BuildSkips(w)
  <2>1. r.pc = "build" BY <1>9 DEF Build, BuildSkips
  <2>2. \/ run'[w] = Idle
        \/ run'[w].via = r.via /\ run'[w].blocked = r.blocked
    BY <1>1, <1>9 DEF Build, BuildSkips, Run
  <2> QED BY <1>2, <1>3, <2>1, <2>2 DEF Unblocked
<1>10. CASE BuildFails(w) \/ PushAnswerLost(w) \/ PushRefused(w)
  <2>1. r.pc \in {"build", "push"} /\ run'[w] = Dropped(r, TRUE)
    BY <1>1, <1>10 DEF BuildFails, PushAnswerLost, Accepted, PushRefused
  <2>2. Dropped(r, TRUE).via \notin Dropped(r, TRUE).blocked
    BY <1>1, <1>2, <2>1, DroppedUnblocked DEF ItemPc
  <2> QED BY <2>1, <2>2 DEF Unblocked
<1>11. CASE BuildPaywalled(w)
  <2> DEFINE dropped == Dropped(r, FALSE)
             walled == [dropped EXCEPT !.walled = @ \cup {r.ref}]
  <2>1. r.pc = "build" /\ run'[w] = IF r.kind = "add" THEN Idle ELSE walled
    BY <1>1, <1>11 DEF BuildPaywalled
  <2>2. dropped \in Run /\ dropped.via \notin dropped.blocked
    BY <1>1, <1>2, <2>1, DroppedOK, DroppedUnblocked DEF ItemPc
  <2> HIDE DEF dropped
  <2>3. Unblocked(walled) BY <2>2 DEF Unblocked, Run
  <2> HIDE DEF walled
  <2> QED BY <1>3, <2>1, <2>3
<1>12. CASE BuildLimited(w) \/ PushLimited(w)
  <2>1. PICK hosts \in SUBSET Destination : run'[w] = Limited(r, hosts)
    BY <1>1, <1>12 DEF BuildLimited, PushLimited, Run
  <2>2. r.pc \in {"build", "push"} BY <1>12 DEF BuildLimited, PushLimited
  <2>3. CASE r.kind = "sync"
    <3>1. Dropped(r, TRUE) \in Run /\ Dropped(r, TRUE).pc = "items"
      BY <1>1, <2>2, <2>3, DroppedOK DEF ItemPc
    <3>2. Limited(r, hosts).pc = "items" /\ Limited(r, hosts).todo = {}
      BY <2>3, <3>1 DEF Limited, Run
    <3> QED BY <2>1, <3>2 DEF Unblocked
  <2>4. CASE r.kind # "sync" BY <1>3, <2>1, <2>4 DEF Limited
  <2> QED BY <2>3, <2>4
<1>13. CASE Push(w)
  <2>1. r.pc = "push" /\ run'[w] = [r EXCEPT !.pc = "record"]
    BY <1>1, <1>13 DEF Push, Accepted
  <2> QED BY <1>1, <1>2, <2>1 DEF Unblocked, Run
<1>14. CASE Record(w)
  <2> DEFINE left == IF r.kind = "backfill" THEN r.left - 1 ELSE r.left
             recorded == [r EXCEPT !.pc = "ack", !.left = left]
  <2>1. r.pc = "record" /\ run'[w] = IF r.kind = "add" THEN Idle ELSE recorded
    BY <1>1, <1>14 DEF Record
  <2> HIDE DEF left
  <2>2. recorded.via = r.via /\ recorded.blocked = r.blocked BY <1>1 DEF Run
  <2> HIDE DEF recorded
  <2> QED BY <1>2, <1>3, <2>1, <2>2 DEF Unblocked
<1>15. ASSUME NEW reached \in BOOLEAN, Ack(w, reached) PROVE Unblocked(run'[w])
  <2>1. r.pc = "ack" /\ run'[w] = [r EXCEPT !.pc = "items", !.ref = NoUrl]
    BY <1>1, <1>15 DEF Ack, Run
  <2> QED BY <1>1, <1>2, <2>1 DEF Unblocked, Run
<1> QED
  BY <1>4, <1>5, <1>6, <1>7, <1>8, <1>9, <1>10, <1>11, <1>12, <1>13, <1>14, <1>15 DEF Step

LEMMA StartUnblocked ==
  ASSUME TypeInv, LimitedInv, NEW w \in Worker,
         \/ StartSync(w)
         \/ \E s \in Sub, posts \in 1..MaxNew : StartBackfill(w, s, posts)
         \/ \E u \in Addable, d \in Destination : StartAdd(w, u, d)
  PROVE  Unblocked(run'[w])
<1>1. /\ run \in [Worker -> Run] /\ Unblocked(run[w])
      /\ Idle \in Run /\ Idle.blocked = {}
  BY IdleOK DEF TypeInv, TypeOK, LimitedInv, Idle
<1>2. \/ run'[w] = run[w]
      \/ run'[w].blocked = {}
  <2>1. CASE StartSync(w) BY <1>1, <2>1 DEF StartSync, Run
  <2>2. ASSUME NEW s \in Sub, NEW posts \in 1..MaxNew, StartBackfill(w, s, posts)
        PROVE  run'[w].blocked = {}
    BY <1>1, <2>2 DEF StartBackfill, Run
  <2>3. ASSUME NEW u \in Addable, NEW d \in Destination, StartAdd(w, u, d)
        PROVE  run'[w] = run[w] \/ run'[w].blocked = {}
    BY <1>1, <2>3 DEF StartAdd, Run
  <2> QED BY <2>1, <2>2, <2>3
<1> QED BY <1>1, <1>2 DEF Unblocked

LEMMA OthersStand ==
  ASSUME TypeInv, NEW w \in Worker, NEW v \in Worker, v # w,
         \/ StartSync(w)
         \/ \E s \in Sub, posts \in 1..MaxNew : StartBackfill(w, s, posts)
         \/ \E u \in Addable, d \in Destination : StartAdd(w, u, d)
         \/ Step(w) \/ Crash(w)
  PROVE  run'[v] = run[v]
<1> USE DEF TypeInv, TypeOK
<1>1. (StartSync(w) \/ \E s \in Sub, posts \in 1..MaxNew : StartBackfill(w, s, posts))
        => run'[v] = run[v]
  BY DEF StartSync, StartBackfill
<1>2. (\E u \in Addable, d \in Destination : StartAdd(w, u, d)) => run'[v] = run[v]
  BY DEF StartAdd
<1>3. (\/ NextSubscription(w) \/ FinishSync(w) \/ Discover(w) \/ DiscoverFails(w)
       \/ FinishSubscription(w) \/ FinishBackfill(w)) => run'[v] = run[v]
  BY DEF NextSubscription, FinishSync, Discover, DiscoverFails, FinishSubscription,
         FinishBackfill
<1>4. (\/ \E u \in run[w].todo : NextItem(w, u)
       \/ Build(w) \/ BuildSkips(w) \/ BuildFails(w) \/ BuildPaywalled(w)
       \/ BuildLimited(w)) => run'[v] = run[v]
  BY DEF NextItem, Build, BuildSkips, BuildFails, BuildPaywalled, BuildLimited
<1>5. (\/ Push(w) \/ PushAnswerLost(w) \/ PushRefused(w) \/ PushLimited(w)
       \/ PushUnauthorized(w) \/ Record(w) \/ \E reached \in BOOLEAN : Ack(w, reached)
       \/ Crash(w)) => run'[v] = run[v]
  BY DEF Push, PushAnswerLost, PushRefused, PushLimited, PushUnauthorized, Record, Ack, Crash
<1> QED BY <1>1, <1>2, <1>3, <1>4, <1>5 DEF Step

LEMMA LimitedStep == TypeInv /\ LimitedInv /\ [Next]_vars => LimitedInv'
<1> SUFFICES ASSUME TypeInv, LimitedInv, [Next]_vars, NEW v \in Worker
             PROVE  Unblocked(run'[v])
  BY DEF LimitedInv, Unblocked
<1>1. CASE run' = run BY <1>1 DEF LimitedInv, Unblocked
<1>2. ASSUME NEW w \in Worker, StartSync(w)
               \/ (\E s \in Sub, posts \in 1..MaxNew : StartBackfill(w, s, posts))
               \/ (\E u \in Addable, d \in Destination : StartAdd(w, u, d))
               \/ Step(w) \/ Crash(w)
      PROVE  Unblocked(run'[v])
  <2>1. CASE v = w BY <1>2, <2>1, StartUnblocked, StepUnblocked
  <2>2. CASE v # w
    <3>1. run'[v] = run[v] BY <1>2, <2>2, OthersStand
    <3> QED BY <3>1 DEF LimitedInv
  <2> QED BY <2>1, <2>2
<1> QED
  BY <1>1, <1>2 DEF Next, User, UserDeletes, UserReroutes, UserToggles, vars

\* A 429 from a provider's push ends this run's traffic to that provider, for
\* every later subscription of the run.
THEOREM BlockedForTheRun == Spec => []NoPushOnceLimited
<1>1. Init => LimitedInv BY DEF Init, LimitedInv, Unblocked, Idle
<1>2. LimitedInv => NoPushOnceLimited BY DEF LimitedInv, Unblocked, NoPushOnceLimited
<1> QED BY <1>1, <1>2, TypeInit, TypeStep, LimitedStep, PTL DEF Spec
=============================================================================
