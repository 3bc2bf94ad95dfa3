--------------------------- MODULE MailboxProofs ---------------------------
(***************************************************************************)
(* Theorems of Mailbox for any folder, Message-IDs, page size and policy.  *)
(***************************************************************************)
EXTENDS Mailbox, FiniteSetTheorems, WellFoundedInduction, TLAPS

\* Whatever a URL leads to was registered: an ebook only if nobody could tell.
Registered == \A m \in Url : byUrl[m] # NoUid => Registers(byUrl[m])

\* A sync has no pages, and every ref it still has to yield leads to a message.
AllRegistered ==
  mode = "sync" => page = {} /\ \A u \in todo : byUrl[UrlOf[u]] # NoUid

\* Nothing is acknowledged that the ledger does not account for.
AckIsAccounted == AtAck => url \in filed \cup twinned \/ target \in Book \cap opaque

IInv == TypeOK /\ Registered /\ AllRegistered /\ AckIsAccounted /\ TouchedIsAccounted

-----------------------------------------------------------------------------

LEMMA NothingInHand == Nothing \in [uid : Uid \cup {NoUid}, step : {"none", "item", "ack"}]
BY DEF Nothing

LEMMA UidTypes == /\ NoUid \notin Uid
                  /\ \A n \in 0..LastUid : 1..n \subseteq Uid
BY MailboxAssumption DEF NoUid, Uid

\* The message in hand has a URL, and that URL leads to a registered copy of it.
LEMMA InHand ==
  ASSUME TypeOK, acting.step # "none"
  PROVE  /\ acting.uid \in Uid /\ url \in Url
         /\ target \in Uid /\ UrlOf[target] = url
BY MailboxAssumption DEF TypeOK, url, target

LEMMA InitIInv == Init => IInv
<1> SUFFICES ASSUME Init PROVE IInv
  OBVIOUS
<1> USE MailboxAssumption
<1>1. TypeOK
  <2>1. arrived \in 0..LastUid /\ folder = 1..arrived BY DEF Init
  <2>2. /\ policy \in {"none", "seen", "move"} /\ unseenOnly \in BOOLEAN
        /\ opaque \subseteq Uid /\ aged \subseteq Uid
    BY DEF Init
  <2>3. byUrl \in [Url -> Uid \cup {NoUid}] BY DEF Init
  <2> QED BY <2>1, <2>2, <2>3, NothingInHand DEF Init, TypeOK, Nothing
<1>2. Registered /\ AllRegistered /\ AckIsAccounted /\ TouchedIsAccounted
  BY DEF Init, Registered, AllRegistered, AckIsAccounted, TouchedIsAccounted, AtAck, Nothing
<1> QED BY <1>1, <1>2 DEF IInv

\* A run with nothing in hand has nothing to acknowledge.
LEMMA NothingToAck ==
  ASSUME IInv, acting' = Nothing, UNCHANGED ledger, opaque' = opaque,
         \A u \in touched' \ touched : UrlOf[u] \in filed \cup twinned \/ u \in Book \cap opaque
  PROVE  AckIsAccounted' /\ TouchedIsAccounted'
BY DEF IInv, AckIsAccounted, TouchedIsAccounted, AtAck, Nothing, ledger

LEMMA Starts ==
  ASSUME IInv, StartSync \/ StartBackfill
  PROVE  IInv'
<1> USE MailboxAssumption
<1>1. AckIsAccounted' /\ TouchedIsAccounted'
  BY NothingToAck DEF StartSync, StartBackfill, options
<1>2. CASE StartSync
  <2>1. todo' \subseteq folder /\ \A u \in todo' : Registers(u)
    BY <1>2 DEF StartSync, InView
  <2>2. byUrl' \in Latest(todo') BY <1>2 DEF StartSync
  <2>3. /\ byUrl' \in [Url -> Uid \cup {NoUid}]
        /\ \A m \in Url : byUrl'[m] # NoUid => byUrl'[m] \in todo' /\ UrlOf[byUrl'[m]] = m
        /\ \A u \in todo' : byUrl'[UrlOf[u]] # NoUid
    <3>1. \A u \in todo' : u \in Uid /\ UrlOf[u] \in Url /\ u # NoUid
      BY <2>1, UidTypes DEF IInv, TypeOK
    <3>2. \A m \in Url :
            LET copies == {u \in todo' : UrlOf[u] = m} IN
            IF copies = {} THEN byUrl'[m] = NoUid
            ELSE byUrl'[m] \in copies /\ \A v \in copies : v <= byUrl'[m]
      BY <2>2 DEF Latest
    <3>3. \A m \in Url : byUrl'[m] # NoUid => byUrl'[m] \in {u \in todo' : UrlOf[u] = m}
      BY <3>2
    <3>4. \A m \in Url : {u \in todo' : UrlOf[u] = m} # {} => byUrl'[m] \in todo'
      BY <3>2
    <3>5. byUrl' \in [Url -> Uid \cup {NoUid}] BY <2>2 DEF Latest
    <3>6. ASSUME NEW u \in todo' PROVE byUrl'[UrlOf[u]] # NoUid
      <4>1. u \in {v \in todo' : UrlOf[v] = UrlOf[u]} OBVIOUS
      <4>2. byUrl'[UrlOf[u]] \in todo' BY <3>1, <3>4, <4>1
      <4> QED BY <3>1, <4>2
    <3>7. \A m \in Url : byUrl'[m] # NoUid => byUrl'[m] \in todo' /\ UrlOf[byUrl'[m]] = m
      BY <3>3
    <3> QED BY <3>5, <3>6, <3>7
  <2>4. UNCHANGED <<options, mailbox, ledger, touched>> BY <1>2 DEF StartSync
  <2>5. TypeOK'
    <3>1. /\ UNCHANGED <<policy, unseenOnly, opaque, aged, arrived, folder, seen, condemned,
                       filed, twinned, touched>>
          /\ mode' = "sync" /\ up' = TRUE /\ page' = {} /\ acting' = Nothing
          /\ settled' = {} /\ wasSeen' \subseteq seen
      BY <1>2, <2>4 DEF StartSync, options, mailbox, ledger
    <3>2. todo' \subseteq 1..arrived BY <2>1 DEF IInv, TypeOK
    <3>3. acting'.step = "none" BY <3>1 DEF Nothing
    <3> QED BY <2>3, <3>1, <3>2, <3>3, NothingInHand DEF IInv, TypeOK
  <2>6. Registered'
    <3>1. opaque' = opaque BY <2>4 DEF options
    <3>2. \A m \in Url : byUrl'[m] # NoUid => Registers(byUrl'[m]) BY <2>1, <2>3
    <3> QED BY <3>1, <3>2 DEF Registered, Registers
  <2>7. AllRegistered' BY <1>2, <2>3 DEF StartSync, AllRegistered
  <2> QED BY <1>1, <2>5, <2>6, <2>7 DEF IInv
<1>3. CASE StartBackfill
  <2>1. TypeOK'
    BY <1>3, NothingInHand DEF StartBackfill, IInv, TypeOK, options, mailbox, ledger, Nothing
  <2>2. Registered' /\ AllRegistered'
    BY <1>3 DEF StartBackfill, Registered, AllRegistered
  <2> QED BY <1>1, <2>1, <2>2 DEF IInv
<1> QED BY <1>2, <1>3

LEMMA Takes ==
  ASSUME IInv, ReadPage \/ Take
  PROVE  IInv'
<1> USE MailboxAssumption
<1>1. CASE ReadPage
  <2>1. /\ page' \subseteq todo' /\ todo' \subseteq todo
        /\ UNCHANGED <<options, mailbox, ledger, mode, up, byUrl, acting, settled, touched>>
        /\ wasSeen' \subseteq wasSeen \cup seen
    BY <1>1 DEF ReadPage, NextPage
  <2>2. TypeOK' BY <2>1 DEF IInv, TypeOK, options, mailbox, ledger
  <2>3. opaque' = opaque BY <2>1 DEF options
  <2>4. Registered' BY <2>1, <2>3 DEF IInv, Registered, Registers
  <2>5. AllRegistered' BY <1>1, <2>1 DEF ReadPage, AllRegistered
  <2>6. AckIsAccounted' /\ TouchedIsAccounted'
    BY <2>1, <2>3 DEF IInv, AckIsAccounted, TouchedIsAccounted, AtAck, url, target, ledger
  <2> QED BY <2>2, <2>4, <2>5, <2>6 DEF IInv
<1>2. ASSUME NEW u \in Uid, TakeFromSync(u) PROVE IInv'
  <2>1. /\ mode = "sync" /\ u \in todo /\ todo' = todo \ {u}
        /\ acting' = [uid |-> u, step |-> "item"]
        /\ UNCHANGED <<options, mailbox, ledger, mode, up, page, byUrl, wasSeen, settled, touched>>
    BY <1>2 DEF TakeFromSync
  <2>2. page = {} /\ byUrl[UrlOf[u]] # NoUid BY <2>1 DEF IInv, AllRegistered
  <2>3. acting' \in [uid : Uid \cup {NoUid}, step : {"none", "item", "ack"}]
        /\ acting'.uid = u /\ acting'.step = "item"
    BY <2>1
  <2>4. TypeOK' BY <2>1, <2>2, <2>3, UidTypes DEF IInv, TypeOK, options, mailbox, ledger
  <2>5. ~AtAck' BY <2>3 DEF AtAck
  <2> QED BY <2>1, <2>4, <2>5
          DEF IInv, Registered, Registers, AllRegistered, AckIsAccounted, TouchedIsAccounted,
              options, ledger
<1>3. ASSUME NEW u \in Uid, TakeFromPage(u) PROVE IInv'
  <2>1. /\ mode = "backfill" /\ acting = Nothing /\ u \in page
        /\ todo' = todo \ {u} /\ page' = page \ {u}
        /\ UNCHANGED <<options, mailbox, ledger, mode, up, wasSeen, settled, touched>>
    BY <1>3 DEF TakeFromPage, Ready
  <2>2. UrlOf[u] \in Url /\ u # NoUid BY UidTypes
  <2>3. CASE Registers(u)
    <3>1. /\ byUrl' = [byUrl EXCEPT ![UrlOf[u]] = u]
          /\ acting' = [uid |-> u, step |-> "item"]
      BY <1>3, <2>3 DEF TakeFromPage
    <3>2. acting' \in [uid : Uid \cup {NoUid}, step : {"none", "item", "ack"}]
          /\ acting'.uid = u /\ acting'.step = "item"
      BY <3>1
    <3>3. /\ byUrl' \in [Url -> Uid \cup {NoUid}] /\ byUrl'[UrlOf[u]] = u
          /\ \A m \in Url : byUrl'[m] = byUrl[m] \/ (m = UrlOf[u] /\ byUrl'[m] = u)
      BY <2>2, <3>1 DEF IInv, TypeOK
    <3>4. TypeOK' BY <2>1, <2>2, <3>2, <3>3 DEF IInv, TypeOK, options, mailbox, ledger
    <3>5. ~AtAck' BY <3>2 DEF AtAck
    <3>6. Registered' BY <2>1, <2>3, <3>3 DEF IInv, Registered, Registers, options
    <3> QED BY <2>1, <3>4, <3>5, <3>6
            DEF IInv, AllRegistered, AckIsAccounted, TouchedIsAccounted, options, ledger
  <2>4. CASE ~Registers(u)
    <3>1. UNCHANGED <<byUrl, acting>> BY <1>3, <2>4 DEF TakeFromPage
    <3>2. TypeOK' BY <2>1, <3>1 DEF IInv, TypeOK, options, mailbox, ledger
    <3> QED BY <2>1, <3>1, <3>2
            DEF IInv, Registered, Registers, AllRegistered, AckIsAccounted, TouchedIsAccounted,
                AtAck, Nothing, options, ledger
  <2> QED BY <2>3, <2>4
<1> QED BY <1>1, <1>2, <1>3 DEF Take

\* An item that is accounted for may be acknowledged.
LEMMA Items ==
  ASSUME IInv, SkipFiled \/ SkipBook \/ SkipTwin \/ Files \/ ItemFails
  PROVE  IInv'
<1> USE MailboxAssumption
<1>1. /\ acting.step = "item" /\ ItemOnly /\ filed \subseteq filed' /\ filed' \subseteq filed \cup {url}
      /\ \/ acting' = Nothing
         \/ acting' = [acting EXCEPT !.step = "ack"]
              /\ (url \in filed' \cup twinned \/ target \in Book)
  BY DEF SkipFiled, SkipBook, SkipTwin, Files, ItemFails, Fetched, AtItem, ToAck, Leaves
<1>2. /\ acting.uid \in Uid /\ url \in Url /\ target \in Uid
      /\ byUrl[url] # NoUid /\ UrlOf[target] = url
  BY <1>1, InHand DEF IInv, TypeOK, url
<1>3. UNCHANGED <<policy, unseenOnly, opaque, aged, arrived, folder, seen, condemned, twinned, mode, up,
                  todo, page, byUrl, wasSeen, settled, touched>>
  BY <1>1 DEF ItemOnly, options, mailbox, ledger
<1>4. target \in Book => target \in opaque
  BY <1>2 DEF IInv, Registered, Registers, target
<1>5. TouchedIsAccounted' BY <1>1, <1>3 DEF IInv, TouchedIsAccounted
<1>6. Registered' /\ AllRegistered'
  BY <1>3 DEF IInv, Registered, Registers, AllRegistered
<1>7. CASE acting' = Nothing
  <2>1. TypeOK' BY <1>1, <1>2, <1>3, <1>7, NothingInHand DEF IInv, TypeOK, Nothing
  <2>2. AckIsAccounted' BY <1>7 DEF AckIsAccounted, AtAck, Nothing
  <2> QED BY <1>5, <1>6, <2>1, <2>2 DEF IInv
<1>8. CASE acting' = [acting EXCEPT !.step = "ack"] /\ (url \in filed' \cup twinned \/ target \in Book)
  <2>1. /\ acting' \in [uid : Uid \cup {NoUid}, step : {"none", "item", "ack"}]
        /\ acting'.uid = acting.uid
    BY <1>8 DEF IInv, TypeOK
  <2>2. TypeOK' BY <1>1, <1>2, <1>3, <2>1 DEF IInv, TypeOK, url
  <2>3. url' = url /\ target' = target BY <1>3, <2>1 DEF url, target
  <2>4. AckIsAccounted' BY <1>3, <1>4, <1>8, <2>3 DEF AckIsAccounted
  <2> QED BY <1>5, <1>6, <2>2, <2>4 DEF IInv
<1> QED BY <1>1, <1>7, <1>8

LEMMA Acks ==
  ASSUME IInv, AckNothing \/ AckRefused \/ MarkSeen \/ Move
  PROVE  IInv'
<1>1. /\ AtAck /\ acting' = Nothing
      /\ UNCHANGED <<policy, unseenOnly, opaque, aged, arrived, filed, twinned, mode, up, todo, page,
                     byUrl, wasSeen>>
      /\ folder' \subseteq folder /\ condemned' \subseteq folder'
      /\ seen' \subseteq seen \cup {target} /\ settled' \subseteq settled \cup {target}
      /\ touched' \subseteq touched \cup {target}
  BY DEF AckNothing, AckRefused, MarkSeen, Move, AckDone, Leaves, options, ledger, IInv, TypeOK
<1>2. target \in Uid /\ UrlOf[target] = url BY <1>1, InHand DEF IInv, AtAck
<1>3. AckIsAccounted' /\ TouchedIsAccounted'
  <2>1. url \in filed \cup twinned \/ target \in Book \cap opaque BY <1>1 DEF IInv, AckIsAccounted
  <2> QED BY <1>1, <1>2, <2>1, NothingToAck DEF ledger
<1>4. TypeOK' BY <1>1, <1>2, NothingInHand DEF IInv, TypeOK, Nothing
<1>5. Registered' /\ AllRegistered'
  BY <1>1 DEF IInv, Registered, Registers, AllRegistered
<1> QED BY <1>3, <1>4, <1>5 DEF IInv

LEMMA Ends ==
  ASSUME IInv, Over
  PROVE  IInv'
<1> USE MailboxAssumption
<1>1. AckIsAccounted' /\ TouchedIsAccounted' BY NothingToAck DEF Over, options
<1>2. TypeOK' BY NothingInHand DEF Over, IInv, TypeOK, options, mailbox, ledger, Nothing
<1>3. Registered' /\ AllRegistered' BY DEF Over, Registered, AllRegistered
<1> QED BY <1>1, <1>2, <1>3 DEF IInv

LEMMA Disturbances ==
  ASSUME IInv, Drops \/ Owner
  PROVE  IInv'
<1> USE MailboxAssumption
<1>1. /\ UNCHANGED <<policy, unseenOnly, opaque, aged, filed, twinned, mode, todo, page, byUrl, wasSeen,
                     acting, settled, touched>>
      /\ up' \in BOOLEAN /\ arrived' \in 0..LastUid /\ arrived <= arrived'
      /\ folder' \subseteq 1..arrived' /\ seen' \subseteq Uid /\ condemned' \subseteq folder'
  <2>1. CASE Drops
    <3>1. /\ UNCHANGED <<policy, unseenOnly, opaque, aged, filed, twinned, mode, todo, page, byUrl, wasSeen,
                         acting, settled, touched, arrived, folder, seen, condemned>>
          /\ up' = FALSE
      BY <2>1 DEF Drops, options, mailbox, ledger
    <3>2. /\ arrived \in 0..LastUid /\ folder \subseteq 1..arrived
          /\ seen \subseteq Uid /\ condemned \subseteq folder
      BY DEF IInv, TypeOK
    <3>3. arrived' \in 0..LastUid /\ arrived <= arrived' BY <3>1, <3>2
    <3> QED BY <3>1, <3>2, <3>3
  <2>2. CASE Arrives
    <3>1. /\ UNCHANGED <<policy, unseenOnly, opaque, aged, filed, twinned, mode, up, todo, page, byUrl,
                         wasSeen, acting, settled, touched, seen, condemned>>
          /\ arrived' = arrived + 1 /\ folder' = folder \cup {arrived'} /\ arrived < LastUid
      BY <2>2 DEF Arrives, Others, options, ledger, run
    <3>2. arrived \in Nat /\ folder \subseteq 1..arrived BY DEF IInv, TypeOK
    <3>3. folder' \subseteq 1..arrived'
      <4>1. 1..arrived \subseteq 1..(arrived + 1) /\ arrived + 1 \in 1..(arrived + 1) BY <3>2
      <4> QED BY <3>1, <3>2, <4>1
    <3>4. condemned \subseteq folder /\ seen \subseteq Uid /\ up \in BOOLEAN BY DEF IInv, TypeOK
    <3>5. arrived' \in 0..LastUid /\ arrived <= arrived' BY <3>1, <3>2
    <3>6. condemned' \subseteq folder' BY <3>1, <3>4
    <3>7. /\ UNCHANGED <<policy, unseenOnly, opaque, aged, filed, twinned, mode, todo, page, byUrl, wasSeen,
                         acting, settled, touched>>
          /\ up' \in BOOLEAN /\ seen' \subseteq Uid
      BY <3>1, <3>4
    <3> QED BY <3>3, <3>5, <3>6, <3>7
  <2>3. CASE OwnerExpunges
    <3>1. /\ UNCHANGED <<policy, unseenOnly, opaque, aged, filed, twinned, mode, up, todo, page, byUrl,
                         wasSeen, acting, settled, touched, arrived, seen>>
          /\ folder' \subseteq folder /\ condemned' = {}
      BY <2>3 DEF OwnerExpunges, Others, options, ledger, run
    <3>2. /\ arrived \in 0..LastUid /\ folder \subseteq 1..arrived
          /\ seen \subseteq Uid /\ up \in BOOLEAN
      BY DEF IInv, TypeOK
    <3> QED BY <3>1, <3>2
  <2>4. ASSUME NEW u \in Uid, OwnerReads(u) \/ OtherClientCondemns(u)
        PROVE  /\ UNCHANGED <<policy, unseenOnly, opaque, aged, filed, twinned, mode, todo, page, byUrl,
                              wasSeen, acting, settled, touched, up, arrived>>
               /\ folder' = folder /\ seen' \subseteq Uid /\ condemned' \subseteq folder
    BY <2>4 DEF OwnerReads, OtherClientCondemns, Others, options, ledger, run, IInv, TypeOK
  <2>5. arrived \in 0..LastUid /\ up \in BOOLEAN /\ folder \subseteq 1..arrived BY DEF IInv, TypeOK
  <2>6. CASE \E u \in Uid : OwnerReads(u) \/ OtherClientCondemns(u)
    <3>1. PICK u \in Uid : OwnerReads(u) \/ OtherClientCondemns(u) BY <2>6
    <3>2. /\ UNCHANGED <<policy, unseenOnly, opaque, aged, filed, twinned, mode, todo, page, byUrl,
                         wasSeen, acting, settled, touched, up, arrived>>
          /\ folder' = folder /\ seen' \subseteq Uid /\ condemned' \subseteq folder
      BY <3>1, <2>4
    <3>3. arrived' \in 0..LastUid /\ arrived <= arrived' BY <2>5, <3>2
    <3> QED BY <2>5, <3>2, <3>3
  <2> QED BY <2>1, <2>2, <2>3, <2>6, Zenon DEF Owner
<1>2. TypeOK'
  <2>1. todo \subseteq 1..arrived /\ arrived \in Nat BY DEF IInv, TypeOK
  <2>2. todo' \subseteq 1..arrived' BY <1>1, <2>1
  <2> QED BY <1>1, <2>2 DEF IInv, TypeOK
<1> QED BY <1>1, <1>2
        DEF IInv, Registered, Registers, AllRegistered, AckIsAccounted, TouchedIsAccounted,
            AtAck, url, target

LEMMA Twins ==
  ASSUME IInv, Elsewhere
  PROVE  IInv'
<1>1. PICK m \in Linked : FiledElsewhere(m) BY DEF Elsewhere
<1>2. /\ twinned' = twinned \cup {m}
      /\ UNCHANGED <<policy, unseenOnly, opaque, aged, arrived, folder, seen, condemned, filed,
                     mode, up, todo, page, byUrl, wasSeen, acting, settled, touched>>
  BY <1>1 DEF FiledElsewhere, options, mailbox, run
<1>3. TypeOK' BY <1>1, <1>2 DEF IInv, TypeOK
<1> QED BY <1>2, <1>3
        DEF IInv, Registered, Registers, AllRegistered, AckIsAccounted, TouchedIsAccounted,
            AtAck, url, target

LEMMA NextIInv == IInv /\ [Next]_vars => IInv'
<1> SUFFICES ASSUME IInv, [Next]_vars PROVE IInv'
  OBVIOUS
<1>1. CASE StartSync \/ StartBackfill BY <1>1, Starts
<1>2. CASE ReadPage \/ Take BY <1>2, Takes
<1>3. CASE SkipFiled \/ SkipBook \/ SkipTwin \/ Files \/ ItemFails BY <1>3, Items
<1>4. CASE AckNothing \/ AckRefused \/ MarkSeen \/ Move BY <1>4, Acks
<1>5. CASE Finish \/ Aborts BY <1>5, Ends DEF Finish, Aborts
<1>6. CASE Drops \/ Owner BY <1>6, Disturbances
<1>7. CASE Elsewhere BY <1>7, Twins
<1>8. CASE UNCHANGED vars
  <2>1. UNCHANGED <<policy, unseenOnly, opaque, aged, arrived, folder, seen, condemned, filed, twinned, mode,
                    up, todo, page, byUrl, wasSeen, acting, settled, touched>>
    BY <1>8 DEF vars, options, mailbox, ledger, run
  <2> QED BY <2>1
          DEF IInv, TypeOK, Registered, Registers, AllRegistered, AckIsAccounted,
              TouchedIsAccounted, AtAck, url, target
<1> QED BY <1>1, <1>2, <1>3, <1>4, <1>5, <1>6, <1>7, <1>8 DEF Next, Step

LEMMA Inductive == Spec => []IInv
BY InitIInv, NextIInv, PTL DEF Spec

-----------------------------------------------------------------------------

\* Every reachable state is well typed; in particular the message in hand
\* always leads to one registered under its URL.
THEOREM TypeCorrect == Spec => []TypeOK
<1>1. IInv => TypeOK BY DEF IInv
<1> QED BY <1>1, Inductive, PTL

\* A message is marked or moved only once the ledger accounts for it.
THEOREM LedgerBeforeMailbox == Spec => []TouchedIsAccounted
<1>1. IInv => TouchedIsAccounted BY DEF IInv
<1> QED BY <1>1, Inductive, PTL

\* pulpwise takes a message out of the folder by moving that one message only.
THEOREM NeverExpunges == Spec => OnlyOwnersExpunge
<1>1. [Next]_vars =>
        [\A u \in folder \ folder' : OwnerExpunges \/ (Move /\ u = target)]_vars
  <2> SUFFICES ASSUME [Next]_vars, NEW u \in folder \ folder'
               PROVE  OwnerExpunges \/ (Move /\ u = target)
    OBVIOUS
  <2>1. ~UNCHANGED folder OBVIOUS
  <2>2. ~(StartSync \/ StartBackfill \/ ReadPage \/ Take)
    BY <2>1 DEF StartSync, StartBackfill, ReadPage, Take, TakeFromSync, TakeFromPage, mailbox
  <2>3. ~(SkipFiled \/ SkipBook \/ SkipTwin \/ Files \/ ItemFails)
    BY <2>1 DEF SkipFiled, SkipBook, SkipTwin, Files, ItemFails, ItemOnly, mailbox
  <2>4. ~(AckNothing \/ AckRefused \/ MarkSeen)
    BY <2>1 DEF AckNothing, AckRefused, MarkSeen
  <2>5. Move => u = target BY DEF Move
  <2>6. ~(Finish \/ Aborts \/ Drops)
    BY <2>1 DEF Finish, Aborts, Over, Drops, mailbox
  <2>7. ~Arrives BY DEF Arrives
  <2>8. ASSUME NEW v \in Uid, OwnerReads(v) \/ OtherClientCondemns(v) PROVE FALSE
    BY <2>1, <2>8 DEF OwnerReads, OtherClientCondemns
  <2>9. ~Elsewhere BY <2>1 DEF Elsewhere, FiledElsewhere, mailbox
  <2>10. ~UNCHANGED vars BY <2>1 DEF vars, mailbox
  <2> QED BY <2>2, <2>3, <2>4, <2>5, <2>6, <2>7, <2>8, <2>9, <2>10 DEF Next, Step, Owner
<1> QED BY <1>1, PTL DEF Spec, OnlyOwnersExpunge
-----------------------------------------------------------------------------
(* Every run comes to an end: what EventuallyHandled needs of a run.       *)

\* A step of the run ends it, takes or passes over a message, gets a page to
\* take messages from, or brings the message in hand on.
Onward ==
  \/ mode' = "idle"
  \/ /\ mode' = mode /\ todo' \subseteq todo
     /\ \/ todo' # todo
        \/ page = {} /\ page' # {}
        \/ page' = page /\ AtItem /\ acting'.step \in {"ack", "none"}
        \/ page' = page /\ AtAck /\ acting'.step = "none"

\* What no arrival, expunge, flag or lost connection changes.
Unmoved == UNCHANGED <<mode, todo, page, acting>>

\* A nonempty set of messages has a newest one.
LEMMA NewestOf ==
  ASSUME NEW S \in SUBSET Uid, S # {}
  PROVE  \E m \in S : \A u \in S : u <= m
<1> DEFINE R == OpToRel(<, Nat)
           Ages == {LastUid - u : u \in S}
<1>1. LastUid \in Nat /\ \A u \in S : u \in Nat /\ LastUid - u \in Nat
  BY MailboxAssumption DEF Uid
<1>2. IsWellFoundedOn(R, Nat) BY NatLessThanWellFounded
<1>3. \A x, y \in Nat : x < y => <<x, y>> \in R BY DEF OpToRel
<1>4. Ages \subseteq Nat /\ Ages # {} BY <1>1
<1> HIDE DEF R
<1>5. PICK a \in Ages : \A b \in Ages : ~(<<b, a>> \in R) BY <1>2, <1>4, WFMin
<1>6. PICK m \in S : a = LastUid - m BY <1>5
<1>7. ASSUME NEW u \in S PROVE u <= m
  <2>1. LastUid - u \in Ages OBVIOUS
  <2>2. ~(LastUid - u < LastUid - m) BY <1>1, <1>3, <1>5, <1>6, <2>1
  <2> QED BY <1>1, <2>2
<1> QED BY <1>7

\* A page asks for something as long as there is something left.
LEMMA PageAsks ==
  ASSUME TypeOK, todo # {}
  PROVE  NextPage # {}
<1>1. todo \in SUBSET Uid BY UidTypes DEF TypeOK
<1>2. PICK m \in todo : \A u \in todo : u <= m BY <1>1, NewestOf
<1>3. \A u \in todo : u \in Nat BY <1>1, MailboxAssumption DEF Uid
<1>4. {v \in todo : m < v} = {} BY <1>2, <1>3
<1>5. m \in NextPage BY <1>4, FS_EmptySet, MailboxAssumption DEF NextPage
<1> QED BY <1>5

LEMMA StepOnward ==
  ASSUME TypeOK, Step
  PROVE  Onward
<1> USE DEF Onward
<1>1. CASE ReadPage
  <2>1. /\ mode' = mode /\ page = {} /\ page' = NextPage \cap folder
        /\ todo' = todo \ (NextPage \ folder)
    BY <1>1 DEF ReadPage
  <2>2. CASE page' # {} BY <2>1, <2>2
  <2>3. CASE page' = {}
    <3>1. PICK u \in NextPage : TRUE BY <1>1, PageAsks DEF ReadPage
    <3>2. u \in todo /\ u \notin todo' BY <2>1, <2>3, <3>1 DEF NextPage
    <3> QED BY <2>1, <3>2
  <2> QED BY <2>2, <2>3
<1>2. CASE Take
  <2>1. PICK u \in todo : todo' = todo \ {u} /\ mode' = mode
    BY <1>2 DEF Take, TakeFromSync, TakeFromPage, TypeOK
  <2>2. u \notin todo' BY <2>1
  <2> QED BY <2>1, <2>2
<1>3. CASE SkipFiled \/ SkipBook \/ SkipTwin \/ Files \/ ItemFails
  <2>1. AtItem /\ UNCHANGED <<mode, todo, page>>
    BY <1>3 DEF SkipFiled, SkipBook, SkipTwin, Files, ItemFails, Fetched, ItemOnly
  <2>2. ToAck \/ Leaves BY <1>3 DEF SkipFiled, SkipBook, SkipTwin, Files, ItemFails
  <2>3. acting'.step \in {"ack", "none"}
    BY <2>2 DEF ToAck, Leaves, Nothing, TypeOK
  <2> QED BY <2>1, <2>3
<1>4. CASE AckNothing \/ AckRefused \/ MarkSeen \/ Move
  <2>1. AtAck /\ AckDone BY <1>4 DEF AckNothing, AckRefused, MarkSeen, Move
  <2>2. UNCHANGED <<mode, todo, page>> /\ acting'.step = "none"
    BY <2>1 DEF AckDone, Leaves, Nothing
  <2> QED BY <2>1, <2>2
<1>5. CASE Finish BY <1>5 DEF Finish, Over
<1> QED BY <1>1, <1>2, <1>3, <1>4, <1>5 DEF Step

\* A run goes through its messages once, pages that have lost all theirs
\* included, and whatever happens to the folder or the connection meanwhile
\* takes nothing back.
THEOREM RunsComeToAnEnd == Spec => [][(Step => Onward) /\ (Owner \/ Elsewhere \/ Drops => Unmoved)]_vars
<1>1. IInv /\ Step => Onward BY StepOnward DEF IInv
<1>2. Owner \/ Elsewhere \/ Drops => Unmoved
  BY DEF Owner, Arrives, OwnerExpunges, OwnerReads, OtherClientCondemns, Others, run,
         Elsewhere, FiledElsewhere, Drops, Unmoved
<1>3. IInv /\ [Next]_vars => [(Step => Onward) /\ (Owner \/ Elsewhere \/ Drops => Unmoved)]_vars
  BY <1>1, <1>2
<1> QED BY <1>3, Inductive, PTL DEF Spec
=============================================================================
