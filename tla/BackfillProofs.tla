--------------------------- MODULE BackfillProofs ---------------------------
(***************************************************************************)
(* Theorems of Backfill for any number of posts, page size and requests.   *)
(***************************************************************************)
EXTENDS Backfill, FiniteSetTheorems, WellFoundedInduction, TLAPS

Walking == at \in {"page", "rows"}

\* A walk that goes on has not reached its limit; a page in hand is finished
\* before the next one is asked for.
UnderWay ==
  /\ Walking => limit = 0 \/ new < limit
  /\ at = "page" => rows = {}

\* What the saved list has had all along is on the page in hand, or older than
\* the cursor, and only where the walk will still ask.
SavedAhead ==
  kind = "saved" /\ heeds =>
    /\ at = "page" => \A p \in due : p < pos
    /\ at = "rows" => \A p \in due : p \in rows \/ (p < pos /\ ~last)
    /\ ReachedTheEnd => due = {}

\* Number of listed posts newer than p: the offset p is found at.
Newer(p) == {q \in listed : p < q}
Rank(p) == Cardinality(Newer(p))

\* Posts listed all along that the offset has passed without yielding them.
Hidden == {p \in due \ rows : Rank(p) < pos}

\* Every post passed over is paid for by a removal; on the last page all that
\* is still due has been passed over.
ArchiveBehind ==
  kind = "archive" =>
    /\ at = "page" \/ (at = "rows" /\ ~last) => Cardinality(Hidden) <= removed
    /\ at = "rows" /\ last => rows = {} /\ Cardinality(due) <= removed
    /\ ReachedTheEnd => Cardinality(due) <= removed

IInv == TypeOK /\ UnderWay

-----------------------------------------------------------------------------
(* Finite sets of posts.                                                   *)

\* Every nonempty set of naturals has a least element.
LEMMA LeastElement ==
  ASSUME NEW S \in SUBSET Nat, S # {}
  PROVE  \E m \in S : \A n \in S : m <= n
<1> DEFINE R == OpToRel(<, Nat)
<1>1. IsWellFoundedOn(R, Nat) BY NatLessThanWellFounded
<1>2. \A x, y \in Nat : x < y => <<x, y>> \in R BY DEF OpToRel
<1> HIDE DEF R
<1>3. PICK m \in S : \A n \in S : ~(<<n, m>> \in R) BY <1>1, WFMin
<1>4. \A n \in S : m \in Nat /\ n \in Nat /\ ~(n < m) BY <1>2, <1>3
<1>5. \A n \in S : m <= n BY <1>4
<1> QED BY <1>5

LEMMA PostsAreNaturals == Post \subseteq Nat
BY DEF Post

\* A nonempty set of posts has an oldest and a newest member.
LEMMA Ends ==
  ASSUME NEW S \in SUBSET Post, S # {}
  PROVE  /\ Oldest(S) \in S /\ \A q \in S : Oldest(S) <= q
         /\ \E m \in S : \A q \in S : q <= m
<1>1. Newest \in Nat /\ S \subseteq Nat /\ \A q \in S : q <= Newest
  BY BackfillAssumption DEF Post
<1>2. \E m \in S : \A n \in S : m <= n BY <1>1, LeastElement
<1>3. Oldest(S) \in S /\ \A q \in S : Oldest(S) <= q BY <1>2 DEF Oldest
<1>4. \E m \in S : \A q \in S : q <= m
  <2> DEFINE T == {Newest - q : q \in S}
  <2>1. T \in SUBSET Nat /\ T # {}
    <3>1. \A q \in S : Newest - q \in Nat BY <1>1
    <3>2. T \subseteq Nat BY <3>1
    <3>3. PICK q \in S : TRUE OBVIOUS
    <3>4. Newest - q \in T OBVIOUS
    <3> QED BY <3>2, <3>4
  <2>2. PICK t \in T : \A u \in T : t <= u BY <2>1, LeastElement
  <2>3. PICK m \in S : t = Newest - m BY <2>2
  <2>4. \A q \in S : Newest - m <= Newest - q BY <2>2, <2>3
  <2>5. \A q \in S : q \in Nat /\ m \in Nat BY <1>1
  <2>6. \A q \in S : q <= m BY <1>1, <2>4, <2>5
  <2> QED BY <2>6
<1> QED BY <1>3, <1>4

LEMMA PostsFinite ==
  ASSUME NEW S \in SUBSET Post
  PROVE  IsFiniteSet(S) /\ Cardinality(S) \in Nat
<1>1. IsFiniteSet(Post) BY BackfillAssumption, FS_Interval DEF Post
<1>2. IsFiniteSet(S) BY <1>1, FS_Subset
<1> QED BY <1>2, FS_CardinalityType

LEMMA Listed == TypeOK => listed \subseteq Post /\ AskedFor \subseteq listed
BY BackfillAssumption DEF TypeOK, Post, AskedFor, BeyondOffset, SavedBefore

\* A page is empty only if nothing was asked for.
LEMMA EmptyPage ==
  ASSUME TypeOK, IsPage({}, AskedFor)
  PROVE  AskedFor = {}
<1>1. AskedFor \in SUBSET Post BY Listed
<1>2. IsFiniteSet(AskedFor) /\ Cardinality(AskedFor) \in Nat BY <1>1, PostsFinite
<1>3. Cardinality({}) = 0 BY FS_EmptySet
<1>4. Cardinality(AskedFor) = 0
  BY <1>2, <1>3, BackfillAssumption DEF IsPage
<1> QED BY <1>2, <1>4, FS_EmptySet

-----------------------------------------------------------------------------
(* The steps, as what they leave of a walk.                                *)

\* A row is consumed and the walk goes on.
LEMMA GoingOn ==
  ASSUME TypeOK, NEW p \in Post, GoesOn(p), Yields(p)
  PROVE  /\ at = "rows" /\ at' = "rows" /\ p \in rows
         /\ rows' = rows \ {p} /\ due' = due \ {p}
         /\ UNCHANGED <<kind, heeds, arrived, listed, pos, last, limit, floor, begun, stopped, removed>>
BY DEF GoesOn, Yields, server, cursor, request

LEMMA Rows ==
  ASSUME TypeOK, NEW p \in Post, Row(p)
  PROVE  /\ Yields(p)
         /\ \/ /\ GoesOn(p) /\ filed' \subseteq Post /\ erred' \in BOOLEAN
               /\ \/ new' = new
                  \/ new' = new + 1 /\ new' # limit
            \/ /\ Returns("since") /\ UNCHANGED <<filed, new, erred>>
            \/ /\ Returns("max_new") /\ filed' = filed \cup {p} /\ erred' = erred
               /\ new' = new + 1 /\ new' = limit
BY DEF Row, StopAtFloor, SkipKnown, SkipTwin, Pushes, MeetsPaywall, ItemFails, Fetches,
       TypeOK

-----------------------------------------------------------------------------
(* Type correctness.                                                       *)

LEMMA InitIInv == Init => IInv
<1> SUFFICES ASSUME Init PROVE IInv
  OBVIOUS
<1>1. /\ kind \in Kind /\ heeds \in BOOLEAN /\ filed \subseteq Post
      /\ last \in BOOLEAN /\ erred \in BOOLEAN
      /\ rows \subseteq Post \ Unusable /\ due \subseteq listed \ Unusable
      /\ limit \in Limits \cup {0} /\ floor \in Floors \cup {0}
  BY BackfillAssumption DEF Init
<1>2. /\ arrived \in 0..Newest /\ listed \subseteq 1..arrived
      /\ at \in {"idle", "page", "rows", "done"} /\ stopped \in Reason
      /\ pos \in Nat /\ new \in Nat /\ (limit # 0 => new <= limit) /\ removed \in Nat
  BY BackfillAssumption DEF Init, Reason
<1>5. begun \in 0..arrived BY BackfillAssumption DEF Init
<1>3. TypeOK BY <1>1, <1>2, <1>5 DEF TypeOK
<1>4. UnderWay BY DEF Init, UnderWay, Walking
<1> QED BY <1>3, <1>4 DEF IInv

LEMMA ReturningIInv ==
  ASSUME IInv, NEW reason \in Reason, Returns(reason),
         filed' \subseteq Post, erred' \in BOOLEAN,
         new' = new \/ (new' = new + 1 /\ new' = limit)
  PROVE  IInv'
<1>1. TypeOK'
  <2>1. UNCHANGED <<kind, heeds, arrived, listed, limit>>
    BY DEF Returns, server
  <2>2. /\ at' \in {"idle", "page", "rows", "done"} /\ stopped' \in Reason
        /\ pos' \in Nat /\ last' \in BOOLEAN /\ rows' \subseteq Post \ Unusable
        /\ floor' \in Floors \cup {0}
    BY DEF Returns
  <2>6. begun' \in 0..arrived'
    <3>1. arrived \in 0..Newest /\ begun \in 0..arrived BY DEF IInv, TypeOK
    <3>2. begun' \in {begun, 0} BY DEF Returns
    <3> QED BY <2>1, <3>1, <3>2, BackfillAssumption
  <2>3. due' \subseteq due /\ removed' \in Nat BY DEF Returns, IInv, TypeOK
  <2>4. limit \in Nat BY BackfillAssumption DEF IInv, TypeOK
  <2>5. new' \in Nat /\ (limit # 0 => new' <= limit) BY <2>4 DEF IInv, TypeOK
  <2> QED BY <2>1, <2>2, <2>3, <2>5, <2>6 DEF IInv, TypeOK
<1>2. UnderWay' BY DEF Returns, UnderWay, Walking
<1> QED BY <1>1, <1>2 DEF IInv

LEMMA RowIInv ==
  ASSUME IInv, NEW p \in Post, Row(p)
  PROVE  IInv'
<1>1. TypeOK BY DEF IInv
<1>2. CASE Returns("since") /\ UNCHANGED <<filed, new, erred>>
  BY <1>1, <1>2, ReturningIInv DEF TypeOK, Reason
<1>3. CASE /\ Returns("max_new") /\ filed' = filed \cup {p} /\ erred' = erred
           /\ new' = new + 1 /\ new' = limit
  BY <1>1, <1>3, ReturningIInv DEF TypeOK, Reason
<1>4. CASE /\ GoesOn(p) /\ filed' \subseteq Post /\ erred' \in BOOLEAN
           /\ \/ new' = new
              \/ new' = new + 1 /\ new' # limit
  <2>1. Yields(p) BY <1>1, Rows
  <2>2. /\ at = "rows" /\ at' = "rows" /\ rows' \subseteq rows /\ due' \subseteq due
        /\ UNCHANGED <<kind, heeds, arrived, listed, pos, last, limit, floor, begun, stopped, removed>>
    BY <1>1, <1>4, <2>1, GoingOn
  <2>3. limit = 0 \/ new < limit BY <2>2 DEF IInv, UnderWay, Walking
  <2>4. new' \in Nat /\ (limit' = 0 \/ new' < limit')
    <3>1. limit \in Nat /\ new \in Nat BY <1>1, BackfillAssumption DEF TypeOK
    <3>2. new' \in Nat /\ (limit = 0 \/ new' < limit) BY <1>4, <2>3, <3>1
    <3> QED BY <3>2, <2>2
  <2>5. TypeOK'
    <3>1. /\ at' \in {"idle", "page", "rows", "done"} /\ rows' \subseteq Post \ Unusable
          /\ due' \subseteq listed \ Unusable
      BY <1>1, <2>2 DEF TypeOK
    <3>2. limit \in Nat BY <1>1, BackfillAssumption DEF TypeOK
    <3>3. limit' # 0 => new' <= limit' BY <2>2, <2>4, <3>2
    <3> QED BY <1>1, <1>4, <2>2, <2>4, <3>1, <3>3 DEF TypeOK
  <2>6. UnderWay' BY <2>2, <2>4 DEF UnderWay, Walking
  <2> QED BY <2>5, <2>6 DEF IInv
<1> QED BY <1>1, <1>2, <1>3, <1>4, Rows

LEMMA FetchIInv ==
  ASSUME IInv, FetchPage
  PROVE  IInv'
<1>0. TypeOK BY DEF IInv
<1>1. PICK page \in SUBSET AskedFor :
        /\ IsPage(page, AskedFor)
        /\ rows' = page \ Unusable
        /\ last' = IsLast(page)
        /\ pos' = IF kind = "archive" THEN NextOffset(page) ELSE NextAfter(page)
  BY DEF FetchPage
<1>2. page \in SUBSET Post BY <1>0, Listed
<1>3. pos' \in Nat
  <2>1. Cardinality(page) \in Nat /\ Cardinality(page \ Unusable) \in Nat BY <1>2, PostsFinite
  <2>2. NextOffset(page) \in Nat BY <1>0, <2>1 DEF NextOffset, TypeOK
  <2>3. NextAfter(page) \in Nat
    <3>1. CASE page = {} BY <1>0, <3>1 DEF NextAfter, TypeOK
    <3>2. CASE page # {}
      <4>1. Oldest(page) \in page BY <1>2, <3>2, Ends
      <4>2. Oldest(page) \in Nat BY <1>2, <4>1, PostsAreNaturals
      <4> QED BY <3>2, <4>2 DEF NextAfter
    <3> QED BY <3>1, <3>2
  <2> QED BY <1>1, <2>2, <2>3
<1>4. last' \in BOOLEAN BY <1>1 DEF IsLast
<1>5. rows' \subseteq Post \ Unusable BY <1>1, <1>2
<1>6. /\ at = "page" /\ at' = "rows"
      /\ UNCHANGED <<server, filed, request, report, due, removed>>
  BY DEF FetchPage
<1>7. TypeOK' BY <1>0, <1>3, <1>4, <1>5, <1>6 DEF TypeOK, server, request, report
<1>8. UnderWay' BY <1>6 DEF IInv, UnderWay, Walking, request, report
<1> QED BY <1>7, <1>8 DEF IInv

LEMMA NextIInv == IInv /\ [Next]_vars => IInv'
<1> SUFFICES ASSUME IInv, [Next]_vars PROVE IInv'
  OBVIOUS
<1>0. TypeOK BY DEF IInv
<1>1. CASE FetchPage BY <1>1, FetchIInv
<1>2. CASE EndOfPage
  BY <1>2 DEF EndOfPage, IInv, TypeOK, UnderWay, Walking, server, cursor, request, report
<1>3. CASE EndOfFeed
  <2>1. Returns("exhausted") /\ UNCHANGED <<filed, new, erred>> BY <1>3 DEF EndOfFeed
  <2> QED BY <1>0, <2>1, ReturningIInv DEF TypeOK, Reason
<1>4. CASE Limited
  <2>1. Returns("rate_limited") /\ UNCHANGED <<filed, new>> /\ erred' = TRUE
    BY <1>4 DEF Limited
  <2> QED BY <1>0, <2>1, ReturningIInv DEF TypeOK, Reason
<1>5. CASE WalkFails
  <2>1. arrived \in 0..Newest /\ arrived' = arrived /\ begun' = 0
    BY <1>0, <1>5 DEF TypeOK, WalkFails, server
  <2>2. begun' \in 0..arrived' BY <2>1, BackfillAssumption
  <2> QED BY <1>0, <1>5, <2>2 DEF WalkFails, IInv, TypeOK, UnderWay, Walking, server, Reason
<1>6. ASSUME NEW p \in Post, Row(p) PROVE IInv'
  BY <1>6, RowIInv
<1>7. ASSUME NEW n \in Limits \cup {0}, NEW date \in Floors \cup {0}, Start(n, date)
      PROVE  IInv'
  <2>1. n \in Nat /\ NoPost \in Nat BY BackfillAssumption DEF NoPost
  <2>2. TypeOK'
    <3>1. UNCHANGED <<kind, heeds, arrived, listed, filed>> BY <1>7 DEF Start, server
    <3>2. /\ at' \in {"idle", "page", "rows", "done"} /\ stopped' \in Reason
          /\ pos' \in Nat /\ last' \in BOOLEAN /\ rows' \subseteq Post \ Unusable
      BY <1>7, <2>1 DEF Start, Reason
    <3>3. /\ limit' \in Limits \cup {0} /\ floor' \in Floors \cup {0}
          /\ new' \in Nat /\ (limit' # 0 => new' <= limit')
      BY <1>7, <2>1 DEF Start
    <3>4. erred' \in BOOLEAN /\ due' \subseteq listed \ Unusable /\ removed' \in Nat
      BY <1>7 DEF Start
    <3>5. begun' \in 0..arrived'
      <4>1. begun' = arrived /\ arrived' = arrived BY <1>7, <3>1 DEF Start
      <4>2. arrived \in 0..Newest /\ Newest \in Nat BY <1>0, BackfillAssumption DEF TypeOK
      <4> QED BY <4>1, <4>2
    <3> QED BY <1>0, <3>1, <3>2, <3>3, <3>4, <3>5 DEF TypeOK
  <2>3. UnderWay' BY <1>7, <2>1 DEF Start, UnderWay, Walking
  <2> QED BY <2>2, <2>3 DEF IInv
<1>8. CASE Arrives
  <2>1. arrived \in 0..Newest /\ arrived < Newest /\ Newest \in Nat
    BY <1>0, <1>8, BackfillAssumption DEF Arrives, TypeOK
  <2>2. arrived' \in 0..Newest /\ 1..arrived \subseteq 1..arrived' /\ arrived' \in 1..arrived'
    BY <1>8, <2>1 DEF Arrives
  <2>3. listed' \subseteq 1..arrived' /\ listed \subseteq listed'
    BY <1>0, <1>8, <2>2 DEF Arrives, TypeOK
  <2>4. UNCHANGED <<kind, heeds, filed, at, pos, last, rows, limit, floor, begun, new, erred,
                    stopped, due, removed>>
    BY <1>8 DEF Arrives, cursor, request, report
  <2>5. TypeOK'
    <3>1. begun' \in 0..arrived' BY <1>0, <1>8, <2>1, <2>4 DEF Arrives, TypeOK
    <3> QED BY <1>0, <2>2, <2>3, <2>4, <3>1 DEF TypeOK
  <2>6. UnderWay' BY <2>4 DEF IInv, UnderWay, Walking
  <2> QED BY <2>5, <2>6 DEF IInv
<1>9. ASSUME NEW p \in Post, TakenOff(p) PROVE IInv'
  <2>1. TypeOK' BY <1>0, <1>9 DEF TakenOff, TypeOK, cursor, request, report
  <2>2. UnderWay' BY <1>9 DEF TakenOff, IInv, UnderWay, Walking, cursor, request, report
  <2> QED BY <2>1, <2>2 DEF IInv
<1>10. CASE UNCHANGED vars
  BY <1>10 DEF vars, server, cursor, request, report, IInv, TypeOK, UnderWay, Walking
<1> QED
  BY <1>1, <1>2, <1>3, <1>4, <1>5, <1>6, <1>7, <1>8, <1>9, <1>10 DEF Next, Walk, Feed

\* Every reachable state is well typed; in particular a walk never adds more
\* than its max_new, whatever the feed does meanwhile.
THEOREM TypeCorrect == Spec => []TypeOK
<1>1. IInv => TypeOK BY DEF IInv
<1> QED BY <1>1, InitIInv, NextIInv, PTL DEF Spec
-----------------------------------------------------------------------------
(* The saved list.                                                         *)

\* Until a walk of the saved list ends, only its pages matter.
LEMMA SavedInit == Init => SavedAhead
BY DEF Init, SavedAhead, ReachedTheEnd

\* A walk that is over or raises has nothing ahead unless it reached the end.
LEMMA SavedReturning ==
  ASSUME SavedAhead, NEW reason, Returns(reason), reason = "exhausted" => due = {}
  PROVE  SavedAhead'
BY DEF Returns, SavedAhead, ReachedTheEnd

LEMMA SavedFetch ==
  ASSUME TypeOK, SavedAhead, FetchPage
  PROVE  SavedAhead'
<1> SUFFICES ASSUME kind' = "saved" /\ heeds' PROVE \A p \in due' : p \in rows' \/ (p < pos' /\ ~last')
  BY DEF SavedAhead, ReachedTheEnd, FetchPage
<1>1. /\ kind = "saved" /\ heeds /\ at = "page" /\ due' = due
  BY DEF FetchPage, server
<1>2. PICK page \in SUBSET AskedFor :
        /\ IsPage(page, AskedFor)
        /\ rows' = page \ Unusable
        /\ last' = IsLast(page)
        /\ pos' = IF kind = "archive" THEN NextOffset(page) ELSE NextAfter(page)
  BY DEF FetchPage
<1>3. page \in SUBSET Post BY Listed
<1>4. AskedFor = {p \in listed : p < pos} BY <1>1 DEF AskedFor, SavedBefore
<1>5. SUFFICES ASSUME NEW p \in due, p \notin rows' PROVE p < pos' /\ ~last'
  BY <1>1
<1>6. p \in AskedFor /\ p \notin Unusable
  BY <1>1, <1>4 DEF SavedAhead, TypeOK
<1>7. p \in AskedFor \ page BY <1>2, <1>5, <1>6
<1>8. page # {} BY <1>2, <1>7, EmptyPage
<1>9. Oldest(page) \in page BY <1>3, <1>8, Ends
<1>10. pos' = Oldest(page) BY <1>1, <1>2, <1>8 DEF NextAfter
<1>11. p < pos' BY <1>2, <1>7, <1>9, <1>10 DEF IsPage
<1>12. ~last'
  <2>1. Oldest(page) < pos BY <1>4, <1>9
  <2>2. Oldest(page) # pos
    <3>1. Oldest(page) \in Nat /\ pos \in Nat
      BY <1>3, <1>9, PostsAreNaturals DEF TypeOK
    <3> QED BY <2>1, <3>1
  <2>3. page # AskedFor BY <1>7
  <2> QED BY <1>1, <1>2, <1>8, <2>2, <2>3 DEF IsLast, NextAfter
<1> QED BY <1>11, <1>12

LEMMA SavedNext == IInv /\ SavedAhead /\ [Next]_vars => SavedAhead'
<1> SUFFICES ASSUME IInv, SavedAhead, [Next]_vars PROVE SavedAhead'
  OBVIOUS
<1>0. TypeOK BY DEF IInv
<1>1. CASE FetchPage BY <1>0, <1>1, SavedFetch
<1>2. CASE EndOfPage
  BY <1>2 DEF EndOfPage, SavedAhead, ReachedTheEnd, server, cursor, request, report
<1>3. CASE EndOfFeed
  <2>1. /\ Returns("exhausted") /\ UNCHANGED <<kind, heeds>> /\ at = "rows" /\ rows = {} /\ last
    BY <1>3 DEF EndOfFeed, Returns, server
  <2>2. CASE kind = "saved" /\ heeds
    <3>1. due = {} BY <2>1, <2>2 DEF SavedAhead
    <3> QED BY <2>1, <3>1, SavedReturning
  <2>3. CASE ~(kind = "saved" /\ heeds) BY <2>1, <2>3 DEF SavedAhead
  <2> QED BY <2>2, <2>3
<1>4. CASE Limited BY <1>4, SavedReturning DEF Limited
<1>5. CASE WalkFails BY <1>5 DEF WalkFails, SavedAhead, ReachedTheEnd
<1>6. ASSUME NEW p \in Post, Row(p) PROVE SavedAhead'
  <2>1. Yields(p) BY <1>0, <1>6, Rows
  <2>2. CASE Returns("since") BY <2>2, SavedReturning
  <2>3. CASE Returns("max_new") BY <2>3, SavedReturning
  <2>4. CASE GoesOn(p)
    <3>1. /\ at = "rows" /\ at' = "rows" /\ rows' = rows \ {p} /\ due' = due \ {p}
          /\ UNCHANGED <<kind, heeds, pos, last>>
      BY <1>0, <2>1, <2>4, GoingOn
    <3> QED BY <3>1 DEF SavedAhead, ReachedTheEnd
  <2> QED BY <1>0, <1>6, <2>2, <2>3, <2>4, Rows
<1>7. ASSUME NEW n \in Limits \cup {0}, NEW date \in Floors \cup {0}, Start(n, date)
      PROVE  SavedAhead'
  <2>1. at' = "page" /\ kind' = kind /\ due' \subseteq listed
    BY <1>7 DEF Start, server
  <2>2. kind = "saved" => pos' = NoPost BY <1>7 DEF Start
  <2>3. listed \subseteq Post BY <1>0, Listed
  <2>4. \A p \in Post : p < NoPost BY BackfillAssumption DEF Post, NoPost
  <2> QED BY <2>1, <2>2, <2>3, <2>4 DEF SavedAhead, ReachedTheEnd
<1>8. CASE Arrives
  BY <1>8 DEF Arrives, SavedAhead, ReachedTheEnd, cursor, request, report
<1>9. ASSUME NEW p \in Post, TakenOff(p) PROVE SavedAhead'
  <2>1. due' \subseteq due /\ UNCHANGED <<kind, heeds, at, pos, last, rows, stopped>>
    BY <1>9 DEF TakenOff, cursor, report
  <2> QED BY <2>1 DEF SavedAhead, ReachedTheEnd
<1>10. CASE UNCHANGED vars
  BY <1>10 DEF vars, server, cursor, request, report, SavedAhead, ReachedTheEnd
<1> QED
  BY <1>1, <1>2, <1>3, <1>4, <1>5, <1>6, <1>7, <1>8, <1>9, <1>10 DEF Next, Walk, Feed

\* A walk of the saved list that reaches the end was given every usable post
\* that was on the list all along, however many were saved or unsaved meanwhile
\* and wherever its pages were cut.
THEOREM SavedIsComplete == Spec => []SavedWalkComplete
<1>1. SavedAhead => SavedWalkComplete BY DEF SavedAhead, SavedWalkComplete
<1> QED BY <1>1, InitIInv, NextIInv, SavedInit, SavedNext, PTL DEF Spec
-----------------------------------------------------------------------------
(* The archive.                                                            *)

LEMMA RankTypes ==
  ASSUME TypeOK, NEW p
  PROVE  /\ Newer(p) \subseteq Post /\ IsFiniteSet(Newer(p)) /\ Rank(p) \in Nat
<1>1. Newer(p) \in SUBSET Post BY Listed DEF Newer
<1> QED BY <1>1, PostsFinite DEF Rank

\* Of two listed posts the older one is found at the larger offset.
LEMMA RankOrder ==
  ASSUME TypeOK, NEW p \in Post, NEW q \in listed, p < q
  PROVE  Rank(q) < Rank(p)
<1>1. p \in Nat /\ q \in Nat /\ \A r \in listed : r \in Nat
  BY Listed, PostsAreNaturals
<1>2. q \notin Newer(q) BY <1>1 DEF Newer
<1>3. Newer(q) \cup {q} \subseteq Newer(p)
  <2> SUFFICES ASSUME NEW r \in Newer(q) \cup {q} PROVE r \in Newer(p)
    OBVIOUS
  <2>1. r \in listed /\ (q < r \/ r = q) BY DEF Newer
  <2>2. p < r BY <1>1, <2>1
  <2> QED BY <2>1, <2>2 DEF Newer
<1>4. /\ IsFiniteSet(Newer(p)) /\ IsFiniteSet(Newer(q))
      /\ Rank(p) \in Nat /\ Rank(q) \in Nat
  BY RankTypes
<1>5. Cardinality(Newer(q) \cup {q}) = Rank(q) + 1 BY <1>2, <1>4, FS_AddElement DEF Rank
<1>6. Cardinality(Newer(q) \cup {q}) <= Rank(p) BY <1>3, <1>4, FS_Subset DEF Rank
<1> QED BY <1>4, <1>5, <1>6

LEMMA HiddenFinite ==
  ASSUME TypeOK
  PROVE  /\ Hidden \subseteq due /\ due \subseteq Post
         /\ IsFiniteSet(Hidden) /\ Cardinality(Hidden) \in Nat
         /\ IsFiniteSet(due) /\ Cardinality(due) \in Nat
<1>1. due \in SUBSET Post BY Listed DEF TypeOK
<1>2. Hidden \in SUBSET due BY DEF Hidden
<1> QED BY <1>1, <1>2, PostsFinite

\* The same of the next state.
LEMMA NextTypes ==
  ASSUME TypeOK'
  PROVE  /\ \A p : IsFiniteSet(Newer(p)') /\ Rank(p)' \in Nat
         /\ Cardinality(Hidden') \in Nat /\ Cardinality(due') \in Nat
<1>1. listed' \subseteq Post /\ due' \subseteq listed'
  BY BackfillAssumption DEF TypeOK, Post
<1>2. due' \in SUBSET Post /\ Hidden' \in SUBSET Post BY <1>1 DEF Hidden
<1>3. \A p : Newer(p)' \in SUBSET Post BY <1>1 DEF Newer
<1>4. \A p : IsFiniteSet(Newer(p)') /\ Cardinality(Newer(p)') \in Nat
  BY <1>3, PostsFinite
<1>5. Cardinality(Hidden') \in Nat /\ Cardinality(due') \in Nat BY <1>2, PostsFinite
<1> QED BY <1>4, <1>5 DEF Rank

\* The page at an offset fills all the offsets up to its length: a post that is
\* not on it, though far enough down, is at least a page further.
LEMMA PageFills ==
  ASSUME TypeOK, NEW page \in SUBSET BeyondOffset(pos), IsPage(page, BeyondOffset(pos)),
         NEW p \in BeyondOffset(pos) \ page
  PROVE  pos + Cardinality(page) <= Rank(p)
<1>1. /\ page \in SUBSET Post /\ page \subseteq listed /\ p \in Post /\ p \in listed
      /\ pos <= Rank(p)
  BY Listed DEF BeyondOffset, Rank, Newer
<1>2. CASE page = {}
  BY <1>1, <1>2, FS_EmptySet, RankTypes DEF TypeOK
<1>3. CASE page # {}
  <2>1. PICK m \in page : \A q \in page : q <= m BY <1>1, <1>3, Ends
  <2>2. m \in Nat /\ p \in Nat /\ \A q \in listed : q \in Nat
    BY <1>1, Listed, PostsAreNaturals
  <2>3. \A q \in page : p < q BY DEF IsPage
  <2>4. Newer(m) \cap page = {}
    <3> SUFFICES ASSUME NEW r \in page, r \in Newer(m) PROVE FALSE
      OBVIOUS
    <3>1. m < r /\ r <= m /\ r \in Nat BY <1>1, <2>1, <2>2 DEF Newer
    <3> QED BY <2>2, <3>1
  <2>5. Newer(m) \cup page \subseteq Newer(p)
    <3> SUFFICES ASSUME NEW r \in Newer(m) \cup page PROVE r \in Newer(p)
      OBVIOUS
    <3>1. r \in listed /\ (r \in page \/ m < r) BY <1>1 DEF Newer
    <3>2. p < m /\ r \in Nat BY <2>2, <2>3, <3>1
    <3>3. p < r BY <2>2, <2>3, <3>1, <3>2
    <3> QED BY <3>1, <3>3 DEF Newer
  <2>6. pos <= Rank(m) BY <2>1 DEF BeyondOffset, Rank, Newer
  <2>7. /\ IsFiniteSet(Newer(p)) /\ IsFiniteSet(Newer(m)) /\ IsFiniteSet(page)
        /\ Rank(p) \in Nat /\ Rank(m) \in Nat /\ Cardinality(page) \in Nat
    BY <1>1, RankTypes, PostsFinite
  <2>8. Cardinality(Newer(m) \cap page) = 0 BY <2>4, FS_EmptySet
  <2>9. Cardinality(Newer(m) \cup page) = Rank(m) + Cardinality(page)
    <3>1. Cardinality(Newer(m) \cup page)
            = Cardinality(Newer(m)) + Cardinality(page) - Cardinality(Newer(m) \cap page)
      BY <2>7, FS_Union
    <3>2. Rank(m) = Cardinality(Newer(m)) BY DEF Rank
    <3> QED BY <2>7, <2>8, <3>1, <3>2
  <2>10. Cardinality(Newer(m) \cup page) <= Cardinality(Newer(p)) BY <2>5, <2>7, FS_Subset
  <2>11. pos \in Nat BY DEF TypeOK
  <2> QED BY <2>6, <2>7, <2>9, <2>10, <2>11 DEF Rank
<1> QED BY <1>2, <1>3
LEMMA ArchiveInit == Init => ArchiveBehind
BY DEF Init, ArchiveBehind, ReachedTheEnd

LEMMA ArchiveReturning ==
  ASSUME ArchiveBehind, NEW reason, Returns(reason),
         reason = "exhausted" => at = "rows" /\ last
  PROVE  ArchiveBehind'
<1>1. at' = "done" /\ stopped' = reason /\ kind' = kind BY DEF Returns, server
<1>2. CASE reason = "exhausted"
  BY <1>1, <1>2 DEF Returns, ArchiveBehind, ReachedTheEnd
<1>3. CASE reason # "exhausted"
  BY <1>1, <1>3 DEF ArchiveBehind, ReachedTheEnd
<1> QED BY <1>2, <1>3

\* Nothing is hidden that was not: less of it, or the same.
LEMMA HiddenShrinks ==
  ASSUME TypeOK, TypeOK', Hidden' \subseteq Hidden
  PROVE  Cardinality(Hidden') <= Cardinality(Hidden)
BY HiddenFinite, FS_Subset

LEMMA ArchiveFetch ==
  ASSUME TypeOK, TypeOK', UnderWay, ArchiveBehind, FetchPage
  PROVE  ArchiveBehind'
<1> SUFFICES ASSUME kind = "archive" PROVE ArchiveBehind'
  BY DEF ArchiveBehind, FetchPage, server
<1>1. /\ at = "page" /\ at' = "rows" /\ rows = {}
      /\ UNCHANGED <<listed, due, removed, kind>>
  BY DEF FetchPage, UnderWay, server
<1>2. PICK page \in SUBSET AskedFor :
        /\ IsPage(page, AskedFor)
        /\ rows' = page \ Unusable
        /\ last' = IsLast(page)
        /\ pos' = IF kind = "archive" THEN NextOffset(page) ELSE NextAfter(page)
  BY DEF FetchPage
<1>3. AskedFor = BeyondOffset(pos) BY DEF AskedFor
<1>4. Cardinality(Hidden) <= removed BY <1>1 DEF ArchiveBehind
<1>5. CASE page = {}
  <2>1. BeyondOffset(pos) = {} BY <1>2, <1>3, <1>5, EmptyPage
  <2>2. \A p \in due : p \in listed /\ ~(Rank(p) >= pos)
    BY <2>1 DEF TypeOK, BeyondOffset, Rank, Newer
  <2>3. \A p \in due : Rank(p) < pos BY <2>2, RankTypes DEF TypeOK
  <2>4. Hidden = due BY <1>1, <2>3 DEF Hidden
  <2>5. last' /\ rows' = {} BY <1>2, <1>5 DEF IsLast
  <2> QED BY <1>1, <1>4, <2>4, <2>5 DEF ArchiveBehind, ReachedTheEnd
<1>6. CASE page # {}
  <2>1. ~last' BY <1>2, <1>6 DEF IsLast
  <2>2. Hidden' \subseteq Hidden
    <3> SUFFICES ASSUME NEW p \in Hidden' PROVE p \in Hidden
      OBVIOUS
    <3>1. p \in due /\ p \notin rows' /\ Rank(p) < pos' BY <1>1 DEF Hidden, Rank, Newer
    <3>2. p \in listed /\ p \notin Unusable BY <3>1 DEF TypeOK
    <3>3. p \notin page BY <1>2, <3>1, <3>2
    <3>4. pos' <= pos + Cardinality(page)
      <4>1. page \in SUBSET Post BY Listed
      <4>2. /\ IsFiniteSet(page) /\ Cardinality(page) \in Nat
            /\ Cardinality(page \ Unusable) \in Nat
        BY <4>1, PostsFinite
      <4>3. Cardinality(page \ Unusable) <= Cardinality(page) BY <4>2, FS_Subset
      <4> QED BY <1>2, <4>2, <4>3 DEF NextOffset, TypeOK
    <3>5. ~(Rank(p) >= pos)
      <4> SUFFICES ASSUME Rank(p) >= pos PROVE FALSE
        OBVIOUS
      <4>1. p \in BeyondOffset(pos) \ page BY <3>2, <3>3 DEF BeyondOffset, Rank, Newer
      <4>2. pos + Cardinality(page) <= Rank(p) BY <1>2, <1>3, <4>1, PageFills
      <4>3. page \in SUBSET Post BY Listed
      <4>4. Cardinality(page) \in Nat BY <4>3, PostsFinite
      <4>5. Rank(p) \in Nat /\ pos \in Nat /\ pos' \in Nat BY RankTypes DEF TypeOK
      <4> QED BY <3>1, <3>4, <4>2, <4>4, <4>5
    <3>6. Rank(p) < pos BY <3>5, RankTypes DEF TypeOK
    <3> QED BY <1>1, <3>1, <3>6 DEF Hidden
  <2>3. Cardinality(Hidden') <= Cardinality(Hidden) BY <2>2, HiddenShrinks
  <2>4. Cardinality(Hidden) \in Nat /\ Cardinality(Hidden') \in Nat /\ removed \in Nat
    BY HiddenFinite, NextTypes DEF TypeOK
  <2>5. Cardinality(Hidden') <= removed' BY <1>1, <1>4, <2>3, <2>4
  <2> QED BY <1>1, <2>1, <2>5 DEF ArchiveBehind, ReachedTheEnd
<1> QED BY <1>5, <1>6

\* An arrival pushes every post one offset further.
LEMMA ArchiveArrives ==
  ASSUME TypeOK, TypeOK', ArchiveBehind, Arrives
  PROVE  ArchiveBehind'
<1>1. /\ listed \subseteq listed'
      /\ UNCHANGED <<kind, at, pos, last, rows, stopped, due, removed>>
  BY DEF Arrives, cursor, report
<1>2. Hidden' \subseteq Hidden
  <2> SUFFICES ASSUME NEW p \in Hidden' PROVE p \in Hidden
    OBVIOUS
  <2>1. p \in due \ rows /\ Rank(p)' < pos BY <1>1 DEF Hidden, Rank, Newer
  <2>2. Newer(p) \subseteq Newer(p)' BY <1>1 DEF Newer
  <2>3. /\ IsFiniteSet(Newer(p)') /\ Rank(p) \in Nat /\ Rank(p)' \in Nat
    BY RankTypes, NextTypes
  <2>4. Rank(p) <= Rank(p)' BY <2>2, <2>3, FS_Subset DEF Rank
  <2>5. Rank(p) < pos BY <2>1, <2>3, <2>4 DEF TypeOK
  <2> QED BY <2>1, <2>5 DEF Hidden
<1>3. Cardinality(Hidden') <= Cardinality(Hidden) BY <1>2, HiddenShrinks
<1>4. Cardinality(Hidden) \in Nat /\ Cardinality(Hidden') \in Nat /\ removed \in Nat
  BY HiddenFinite, NextTypes DEF TypeOK
<1> QED BY <1>1, <1>3, <1>4 DEF ArchiveBehind, ReachedTheEnd

\* A removal pulls the older posts one offset nearer: at most one of them to an
\* offset the walk has passed.
LEMMA ArchiveTakenOff ==
  ASSUME TypeOK, TypeOK', ArchiveBehind, NEW r \in Post, TakenOff(r)
  PROVE  ArchiveBehind'
<1>1. /\ r \in listed /\ listed' = listed \ {r} /\ due' = due \ {r}
      /\ removed' = (IF Ended THEN removed ELSE removed + 1)
      /\ UNCHANGED <<kind, at, pos, last, rows, stopped>>
  BY DEF TakenOff, cursor, report
<1>2. Cardinality(due') <= Cardinality(due)
  <2>1. due' \subseteq due BY <1>1
  <2> QED BY <2>1, HiddenFinite, FS_Subset
<1>3. removed \in Nat /\ removed <= removed' BY <1>1 DEF TypeOK
<1>4. ~Ended => Cardinality(Hidden') <= Cardinality(Hidden) + 1
  <2>1. \A p \in due : Rank(p)' >= Rank(p) - 1 /\ Rank(p)' \in Nat /\ Rank(p) \in Nat
    <3> SUFFICES ASSUME NEW p \in due
                 PROVE  Rank(p)' >= Rank(p) - 1 /\ Rank(p)' \in Nat /\ Rank(p) \in Nat
      OBVIOUS
    <3>1. Newer(p)' = Newer(p) \ {r} BY <1>1 DEF Newer
    <3>2. IsFiniteSet(Newer(p)) /\ Rank(p) \in Nat /\ Rank(p)' \in Nat
      BY RankTypes, NextTypes
    <3>3. Cardinality(Newer(p) \ {r}) =
            IF r \in Newer(p) THEN Cardinality(Newer(p)) - 1 ELSE Cardinality(Newer(p))
      BY <3>2, FS_RemoveElement
    <3>4. Rank(p)' = Cardinality(Newer(p) \ {r}) /\ Rank(p) = Cardinality(Newer(p))
      BY <3>1 DEF Rank
    <3> QED BY <3>2, <3>3, <3>4
  <2>2. \A p \in Hidden' \ Hidden : p \in due /\ p \notin rows /\ Rank(p) = pos
    <3> SUFFICES ASSUME NEW p \in Hidden' \ Hidden
                 PROVE  p \in due /\ p \notin rows /\ Rank(p) = pos
      OBVIOUS
    <3>1. p \in due /\ p \notin rows /\ Rank(p)' < pos BY <1>1 DEF Hidden, Rank, Newer
    <3>2. ~(Rank(p) < pos) BY <3>1 DEF Hidden
    <3> QED BY <2>1, <3>1, <3>2 DEF TypeOK
  <2>3. \A p, q \in Hidden' \ Hidden : p = q
    <3> SUFFICES ASSUME NEW p \in Hidden' \ Hidden, NEW q \in Hidden' \ Hidden, p < q
                 PROVE  FALSE
      <4>1. \A p \in Hidden' \ Hidden : p \in Nat
        BY <2>2, Listed, PostsAreNaturals DEF TypeOK
      <4>2. \A p, q \in Nat : p < q \/ q < p \/ p = q OBVIOUS
      <4> QED BY <4>1, <4>2
    <3>1. p \in Post /\ q \in listed /\ Rank(p) = pos /\ Rank(q) = pos
      BY <2>2, Listed DEF TypeOK
    <3> QED BY <3>1, RankOrder DEF TypeOK
  <2>4. IsFiniteSet(Hidden) /\ Cardinality(Hidden) \in Nat /\ Cardinality(Hidden') \in Nat
    BY HiddenFinite, NextTypes
  <2>5. CASE Hidden' \ Hidden = {}
    <3>1. Hidden' \subseteq Hidden BY <2>5
    <3>2. Cardinality(Hidden') <= Cardinality(Hidden) BY <3>1, HiddenShrinks
    <3> QED BY <2>4, <3>2
  <2>6. CASE Hidden' \ Hidden # {}
    <3>1. PICK x \in Hidden' : x \notin Hidden BY <2>6
    <3>2. Hidden' \subseteq Hidden \cup {x} BY <2>3, <3>1
    <3>3. /\ IsFiniteSet(Hidden \cup {x})
          /\ Cardinality(Hidden \cup {x}) = Cardinality(Hidden) + 1
      BY <2>4, <3>1, FS_AddElement
    <3>4. Cardinality(Hidden') <= Cardinality(Hidden \cup {x}) BY <3>2, <3>3, FS_Subset
    <3> QED BY <3>3, <3>4
  <2> QED BY <2>5, <2>6
<1>5. /\ Cardinality(Hidden) \in Nat /\ Cardinality(Hidden') \in Nat
      /\ Cardinality(due) \in Nat /\ Cardinality(due') \in Nat
  BY HiddenFinite, NextTypes
<1>6. at \in {"page", "rows"} => removed' = removed + 1 /\ ~Ended BY <1>1 DEF Ended
<1> QED BY <1>1, <1>2, <1>3, <1>4, <1>5, <1>6 DEF ArchiveBehind, ReachedTheEnd

LEMMA ArchiveNext == IInv /\ IInv' /\ ArchiveBehind /\ [Next]_vars => ArchiveBehind'
<1> SUFFICES ASSUME IInv, IInv', ArchiveBehind, [Next]_vars PROVE ArchiveBehind'
  OBVIOUS
<1>0. TypeOK /\ TypeOK' /\ UnderWay BY DEF IInv
<1>1. CASE FetchPage BY <1>0, <1>1, ArchiveFetch
<1>2. CASE EndOfPage
  <2>1. /\ at = "rows" /\ ~last /\ at' = "page" /\ Hidden' = Hidden
        /\ UNCHANGED <<kind, removed>>
    BY <1>2 DEF EndOfPage, server, cursor, Hidden, Rank, Newer
  <2> QED BY <2>1 DEF ArchiveBehind, ReachedTheEnd
<1>3. CASE EndOfFeed BY <1>3, ArchiveReturning DEF EndOfFeed
<1>4. CASE Limited BY <1>4, ArchiveReturning DEF Limited
<1>5. CASE WalkFails BY <1>5 DEF WalkFails, ArchiveBehind, ReachedTheEnd
<1>6. ASSUME NEW p \in Post, Row(p) PROVE ArchiveBehind'
  <2>1. Yields(p) BY <1>0, <1>6, Rows
  <2>2. CASE Returns("since") BY <2>2, ArchiveReturning
  <2>3. CASE Returns("max_new") BY <2>3, ArchiveReturning
  <2>4. CASE GoesOn(p)
    <3>1. /\ at = "rows" /\ at' = "rows" /\ p \in rows
          /\ rows' = rows \ {p} /\ due' = due \ {p}
          /\ UNCHANGED <<kind, listed, pos, last, stopped, removed>>
      BY <1>0, <2>1, <2>4, GoingOn
    <3>2. Hidden' = Hidden BY <3>1 DEF Hidden, Rank, Newer
    <3>3. last /\ kind = "archive" => rows = {} BY <3>1 DEF ArchiveBehind
    <3> QED BY <3>1, <3>2, <3>3 DEF ArchiveBehind, ReachedTheEnd
  <2> QED BY <1>0, <1>6, <2>2, <2>3, <2>4, Rows
<1>7. ASSUME NEW n \in Limits \cup {0}, NEW date \in Floors \cup {0}, Start(n, date)
      PROVE  ArchiveBehind'
  <2>1. at' = "page" /\ kind' = kind /\ removed' = 0 BY <1>7 DEF Start, server
  <2>2. SUFFICES ASSUME kind = "archive" PROVE Cardinality(Hidden') <= removed'
    BY <2>1 DEF ArchiveBehind, ReachedTheEnd
  <2>3. pos' = 0 BY <1>7, <2>2 DEF Start
  <2>4. \A p : Rank(p)' \in Nat BY <1>0, NextTypes
  <2>5. \A p : ~(Rank(p)' < pos') BY <2>3, <2>4
  <2>6. Hidden' = {} BY <2>5 DEF Hidden
  <2> QED BY <2>1, <2>6, FS_EmptySet
<1>8. CASE Arrives BY <1>0, <1>8, ArchiveArrives
<1>9. ASSUME NEW p \in Post, TakenOff(p) PROVE ArchiveBehind'
  BY <1>0, <1>9, ArchiveTakenOff
<1>10. CASE UNCHANGED vars
  <2>1. Hidden' = Hidden /\ UNCHANGED <<kind, at, last, rows, stopped, due, removed>>
    BY <1>10 DEF vars, server, cursor, report, Hidden, Rank, Newer
  <2> QED BY <2>1 DEF ArchiveBehind, ReachedTheEnd
<1> QED
  BY <1>1, <1>2, <1>3, <1>4, <1>5, <1>6, <1>7, <1>8, <1>9, <1>10 DEF Next, Walk, Feed

\* A walk of an archive that reaches the end misses at most one of the posts
\* listed all along for each post taken off while it ran; new posts and rows it
\* cannot use cost it nothing.
THEOREM ArchiveLossIsBounded == Spec => []ArchiveLossBounded
<1>1. ArchiveBehind => ArchiveLossBounded BY DEF ArchiveBehind, ArchiveLossBounded
<1> QED BY <1>1, InitIInv, NextIInv, ArchiveInit, ArchiveNext, PTL DEF Spec
-----------------------------------------------------------------------------
(* Every walk comes nearer to its end: the reason behind EveryWalkEnds.    *)

\* Where the one page ends that an endpoint deaf to `after` answers.
Answered == {p \in listed : Cardinality({q \in listed : p < q}) < PageSize}

\* At most so many further pages can be asked for, were the feed to stand still.
FurtherPages ==
  CASE kind = "archive" -> IF pos < Cardinality(listed) THEN Cardinality(listed) - pos ELSE 0
    [] kind = "saved" /\ heeds -> pos
    [] OTHER -> IF listed = {} \/ pos = Oldest(Answered) THEN 0 ELSE 1

PagesLeft == IF at = "rows" /\ last THEN 0 ELSE FurtherPages + 1

\* A step of the walk ends it, uses up a page or a row of the page in hand, or
\* turns to the next page.
Nearer ==
  \/ Ended'
  \/ PagesLeft' < PagesLeft
  \/ /\ PagesLeft' = PagesLeft /\ at = "rows"
     /\ \/ at' = "rows" /\ rows' \subseteq rows /\ rows' # rows
        \/ at' = "page"

\* A change of the feed uses up one of the arrivals that are to come, or one of
\* the posts that are listed.
Wanes == arrived' > arrived \/ (arrived' = arrived /\ listed' \subseteq listed /\ listed' # listed)

\* Fewer posts are newer than a listed one than are listed.
LEMMA RankBelow ==
  ASSUME TypeOK, NEW p \in listed
  PROVE  Rank(p) < Cardinality(listed)
<1>1. listed \in SUBSET Post /\ p \in Nat BY Listed, PostsAreNaturals
<1>2. IsFiniteSet(listed) /\ Cardinality(listed) \in Nat BY <1>1, PostsFinite
<1>3. Newer(p) \subseteq listed /\ Newer(p) # listed BY <1>1 DEF Newer
<1> QED BY <1>2, <1>3, FS_Subset, FS_CardinalityType DEF Rank

\* Every answer of an endpoint deaf to `after` is the same page.
LEMMA SameAnswer ==
  ASSUME TypeOK, NEW page \in SUBSET listed, IsPage(page, listed)
  PROVE  page = Answered
<1>1. listed \in SUBSET Post /\ PageSize \in Nat BY Listed, BackfillAssumption
<1>2. /\ IsFiniteSet(listed) /\ Cardinality(listed) \in Nat
      /\ IsFiniteSet(page) /\ Cardinality(page) \in Nat
  BY <1>1, PostsFinite
<1>3. /\ Cardinality(page) <= PageSize
      /\ page # listed => Cardinality(page) = PageSize
  <2>1. Cardinality(page) = IF Cardinality(listed) < PageSize THEN Cardinality(listed)
                            ELSE PageSize
    BY DEF IsPage
  <2>2. page # listed => Cardinality(page) < Cardinality(listed)
    BY <1>2, FS_Subset
  <2> QED BY <1>1, <1>2, <2>1, <2>2
<1>4. \A p \in listed : Newer(p) \subseteq Post /\ IsFiniteSet(Newer(p)) /\ Rank(p) \in Nat
  BY RankTypes
<1>5. ASSUME NEW p \in page PROVE Rank(p) < PageSize
  <2>1. p \in Nat /\ \A q \in listed : q \in Nat BY <1>1, PostsAreNaturals
  <2>2. Newer(p) \subseteq page
    <3> SUFFICES ASSUME NEW q \in listed, p < q, q \notin page PROVE FALSE
      BY DEF Newer
    <3>1. q < p BY DEF IsPage
    <3> QED BY <2>1, <3>1
  <2>3. p \notin Newer(p) BY <2>1 DEF Newer
  <2>4. Newer(p) # page BY <2>3
  <2>5. Cardinality(Newer(p)) < Cardinality(page)
    BY <1>2, <1>4, <2>2, <2>4, FS_Subset DEF Rank
  <2> QED BY <1>1, <1>2, <1>3, <1>4, <2>5 DEF Rank
<1>6. ASSUME NEW p \in listed \ page PROVE ~(Rank(p) < PageSize)
  <2>1. page \subseteq Newer(p) BY DEF IsPage, Newer
  <2>2. Cardinality(page) <= Rank(p) BY <1>4, <2>1, FS_Subset DEF Rank
  <2>3. Cardinality(page) = PageSize BY <1>3
  <2> QED BY <1>1, <1>4, <2>2, <2>3
<1>7. \A p \in listed : p \in Answered <=> Rank(p) < PageSize
  BY DEF Answered, Rank, Newer
<1>8. Answered \subseteq listed BY DEF Answered
<1> QED BY <1>5, <1>6, <1>7, <1>8

LEMMA PagesTyped == TypeOK => FurtherPages \in Nat /\ PagesLeft \in Nat
<1> SUFFICES ASSUME TypeOK PROVE FurtherPages \in Nat /\ PagesLeft \in Nat
  OBVIOUS
<1>1. listed \in SUBSET Post BY Listed
<1>2. Cardinality(listed) \in Nat /\ pos \in Nat BY <1>1, PostsFinite DEF TypeOK
<1>3. FurtherPages \in Nat
  <2>1. kind = "archive" => FurtherPages \in Nat BY <1>2 DEF FurtherPages
  <2>2. kind = "saved" /\ heeds => FurtherPages \in Nat BY <1>2 DEF FurtherPages
  <2>3. kind = "saved" /\ ~heeds => FurtherPages \in Nat BY DEF FurtherPages
  <2> QED BY <2>1, <2>2, <2>3 DEF TypeOK, Kind
<1> QED BY <1>3 DEF PagesLeft

LEMMA PagesTypedNext == TypeOK' => FurtherPages' \in Nat
<1>1. (TypeOK => FurtherPages \in Nat)' BY PagesTyped, PTL
<1> QED BY <1>1

\* A page is the last, or brings the cursor on.
LEMMA FetchNearer ==
  ASSUME TypeOK, TypeOK', FetchPage
  PROVE  PagesLeft' < PagesLeft
<1>1. PICK page \in SUBSET AskedFor :
        /\ IsPage(page, AskedFor)
        /\ last' = IsLast(page)
        /\ pos' = IF kind = "archive" THEN NextOffset(page) ELSE NextAfter(page)
  BY DEF FetchPage
<1>2. /\ at = "page" /\ at' = "rows" /\ UNCHANGED <<kind, heeds, listed>>
  BY DEF FetchPage, server
<1>3. FurtherPages \in Nat /\ FurtherPages' \in Nat BY PagesTyped, PagesTypedNext
<1>4. PagesLeft = FurtherPages + 1 BY <1>2 DEF PagesLeft
<1>5. CASE last'
  <2>1. PagesLeft' = 0 BY <1>2, <1>5 DEF PagesLeft
  <2> QED BY <1>3, <1>4, <2>1
<1>6. CASE ~last'
  <2>1. PagesLeft' = FurtherPages' + 1 BY <1>2, <1>6 DEF PagesLeft
  <2>2. page \in SUBSET Post /\ page \in SUBSET listed /\ listed \in SUBSET Post BY Listed
  <2>3. page # {} BY <1>1, <1>6 DEF IsLast
  <2>4. pos \in Nat /\ Cardinality(listed) \in Nat BY <2>2, PostsFinite DEF TypeOK
  <2>5. Oldest(page) \in page BY <2>2, <2>3, Ends
  <2>6. CASE kind = "archive"
    <3>1. Cardinality(page) \in Nat /\ Cardinality(page) # 0
      BY <2>2, <2>3, PostsFinite, FS_EmptySet
    <3>2. Cardinality(page \ Unusable) \in Nat BY <2>2, PostsFinite
    <3>3. pos' > pos BY <1>1, <2>4, <2>6, <3>1, <3>2 DEF NextOffset
    <3>4. PICK p \in listed : Rank(p) >= pos
      BY <2>3, <2>6 DEF AskedFor, BeyondOffset, Rank, Newer
    <3>5. Rank(p) < Cardinality(listed) /\ Rank(p) \in Nat BY RankBelow, RankTypes
    <3>6. pos < Cardinality(listed) BY <2>4, <3>4, <3>5
    <3>7. FurtherPages = Cardinality(listed) - pos BY <2>6, <3>6 DEF FurtherPages
    <3>8. FurtherPages' = IF pos' < Cardinality(listed) THEN Cardinality(listed) - pos' ELSE 0
      BY <1>2, <2>6 DEF FurtherPages
    <3>9. pos' \in Nat BY DEF TypeOK
    <3> QED BY <1>4, <2>1, <2>4, <3>3, <3>6, <3>7, <3>8, <3>9
  <2>7. CASE kind = "saved" /\ heeds
    <3>1. pos' = Oldest(page) BY <1>1, <2>3, <2>7 DEF NextAfter
    <3>2. Oldest(page) < pos BY <2>5, <2>7 DEF AskedFor, SavedBefore
    <3>3. FurtherPages = pos /\ FurtherPages' = pos' BY <1>2, <2>7 DEF FurtherPages
    <3> QED BY <1>3, <1>4, <2>1, <3>1, <3>2, <3>3
  <2>8. CASE kind = "saved" /\ ~heeds
    <3>1. AskedFor = listed BY <2>8 DEF AskedFor, SavedBefore
    <3>2. page = Answered BY <1>1, <2>2, <3>1, SameAnswer
    <3>3. pos' = Oldest(Answered) /\ pos' # pos
      BY <1>1, <1>6, <2>3, <2>8, <3>2 DEF NextAfter, IsLast
    <3>4. FurtherPages = 1 BY <2>2, <2>3, <2>8, <3>3 DEF FurtherPages
    <3>5. FurtherPages' = 0 BY <1>2, <2>8, <3>3 DEF FurtherPages, Answered
    <3> QED BY <1>4, <2>1, <3>4, <3>5
  <2> QED BY <2>6, <2>7, <2>8 DEF TypeOK, Kind
<1> QED BY <1>5, <1>6

LEMMA WalkNearer ==
  ASSUME TypeOK, TypeOK', Walk
  PROVE  Nearer
<1>1. CASE FetchPage BY <1>1, FetchNearer DEF Nearer
<1>2. CASE EndOfPage
  <2>1. /\ at = "rows" /\ ~last /\ at' = "page"
        /\ UNCHANGED <<kind, heeds, listed, pos>>
    BY <1>2 DEF EndOfPage, server, cursor
  <2>2. PagesLeft' = PagesLeft BY <2>1 DEF PagesLeft, FurtherPages, Answered
  <2> QED BY <2>1, <2>2 DEF Nearer
<1>3. ASSUME NEW reason, Returns(reason) PROVE Nearer
  BY <1>3 DEF Returns, Nearer, Ended
<1>4. CASE WalkFails BY <1>4 DEF WalkFails, Nearer, Ended
<1>5. ASSUME NEW p \in Post, Row(p) PROVE Nearer
  <2>1. Yields(p) BY <1>5, Rows
  <2>2. CASE GoesOn(p)
    <3>1. /\ at = "rows" /\ at' = "rows" /\ p \in rows /\ rows' = rows \ {p}
          /\ UNCHANGED <<kind, heeds, listed, pos, last>>
      BY <2>1, <2>2, GoingOn
    <3>2. PagesLeft' = PagesLeft BY <3>1 DEF PagesLeft, FurtherPages, Answered
    <3> QED BY <3>1, <3>2 DEF Nearer
  <2> QED BY <1>3, <1>5, <2>2, Rows
<1> QED BY <1>1, <1>2, <1>3, <1>4, <1>5 DEF Walk, EndOfFeed, Limited

\* Every walk, also of a saved list whose endpoint ignores `after`, comes
\* nearer to its end with each of its steps, unless the feed changes; and of
\* the changes of the feed there are only finitely many.
THEOREM WalksComeToAnEnd == Spec => [][(Walk => Nearer) /\ (Feed => Wanes)]_vars
<1>1. IInv /\ IInv' /\ Walk => Nearer BY WalkNearer DEF IInv
<1>2. IInv /\ Feed => Wanes
  <2>1. TypeOK /\ Arrives => Wanes BY DEF TypeOK, Arrives, Wanes
  <2>2. ASSUME NEW p \in Post, TakenOff(p) PROVE Wanes BY <2>2 DEF TakenOff, Wanes
  <2> QED BY <2>1, <2>2 DEF IInv, Feed
<1>3. IInv /\ IInv' /\ [Next]_vars => [(Walk => Nearer) /\ (Feed => Wanes)]_vars
  BY <1>1, <1>2
<1> QED BY <1>3, InitIInv, NextIInv, PTL DEF Spec
-----------------------------------------------------------------------------
(* What a walk that reports no error leaves behind.                        *)

\* While no error is counted, what was listed all along and is not accounted for
\* has not been yielded.
Unyielded == (Walking \/ ReachedTheEnd) /\ ~erred => LeftBehind \subseteq due

LEMMA UnyieldedInit == Init => Unyielded
BY DEF Init, Unyielded, Walking, ReachedTheEnd

LEMMA UnyieldedReturning ==
  ASSUME Unyielded, Walking, NEW reason, Returns(reason),
         reason = "exhausted" => UNCHANGED <<filed, erred>>
  PROVE  Unyielded'
<1>1. at' = "done" /\ stopped' = reason /\ UNCHANGED listed BY DEF Returns, server
<1>2. CASE reason # "exhausted" BY <1>1, <1>2 DEF Unyielded, Walking, ReachedTheEnd
<1>3. CASE reason = "exhausted"
  <2>1. UNCHANGED <<listed, filed, erred, begun, due>> BY <1>1, <1>3 DEF Returns
  <2> QED BY <2>1 DEF Unyielded, LeftBehind, Accounted
<1> QED BY <1>2, <1>3

LEMMA UnyieldedRow ==
  ASSUME TypeOK, Unyielded, NEW p \in Post, Row(p)
  PROVE  Unyielded'
<1>1. Walking BY Rows DEF Yields, Walking
<1>2. ASSUME GoesOn(p), filed \subseteq filed', erred' = erred, p \in Accounted'
      PROVE  Unyielded'
  <2>1. /\ due' = due \ {p} /\ UNCHANGED <<at, listed, begun>>
    BY <1>2 DEF GoesOn, server, request
  <2>2. LeftBehind' \subseteq LeftBehind /\ p \notin LeftBehind'
    BY <1>2, <2>1 DEF LeftBehind, Accounted
  <2> QED BY <1>1, <1>2, <2>1, <2>2 DEF Unyielded
<1>3. CASE SkipKnown(p) \/ SkipTwin(p) \/ MeetsPaywall(p)
  BY <1>2, <1>3 DEF SkipKnown, SkipTwin, MeetsPaywall, Fetches, Accounted
<1>4. CASE StopAtFloor(p)
  BY <1>1, <1>4, UnyieldedReturning DEF StopAtFloor
<1>5. CASE Pushes(p)
  <2>1. filed' = filed \cup {p} /\ erred' = erred /\ (Returns("max_new") \/ GoesOn(p))
    BY <1>5 DEF Pushes
  <2>2. p \in Accounted' BY <2>1 DEF Accounted
  <2> QED BY <1>1, <1>2, <2>1, <2>2, UnyieldedReturning
<1>6. CASE ItemFails(p) BY <1>6 DEF ItemFails, Unyielded
<1> QED BY <1>3, <1>4, <1>5, <1>6 DEF Row

LEMMA UnyieldedNext == IInv /\ Unyielded /\ [Next]_vars => Unyielded'
<1> SUFFICES ASSUME IInv, Unyielded, [Next]_vars PROVE Unyielded'
  OBVIOUS
<1>0. TypeOK BY DEF IInv
<1>1. CASE FetchPage \/ EndOfPage
  <2>1. /\ Walking /\ UNCHANGED <<listed, filed, begun, erred, due>>
    BY <1>1 DEF FetchPage, EndOfPage, Walking, server, request, report
  <2> QED BY <2>1 DEF Unyielded, LeftBehind, Accounted
<1>2. CASE EndOfFeed \/ Limited
  <2>1. Walking BY <1>2 DEF EndOfFeed, Limited, Walking, Fetches, Yields
  <2> QED BY <1>2, <2>1, UnyieldedReturning DEF EndOfFeed, Limited
<1>3. CASE WalkFails BY <1>3 DEF WalkFails, Unyielded, Walking, ReachedTheEnd
<1>4. ASSUME NEW p \in Post, Row(p) PROVE Unyielded'
  BY <1>0, <1>4, UnyieldedRow
<1>5. ASSUME NEW n \in Limits \cup {0}, NEW date \in Floors \cup {0}, Start(n, date)
      PROVE  Unyielded'
  <2>1. due' = listed \ Unusable /\ UNCHANGED listed BY <1>5 DEF Start, server
  <2> QED BY <2>1 DEF Unyielded, LeftBehind
<1>6. CASE Arrives
  <2>1. /\ listed' = listed \cup {arrived + 1} /\ arrived \in 0..Newest
        /\ UNCHANGED <<filed, at, begun, erred, stopped, due>>
    BY <1>0, <1>6 DEF Arrives, TypeOK, request, report
  <2>2. ~(arrived + 1 <= begun) BY <1>0, <2>1 DEF TypeOK
  <2>3. LeftBehind' = LeftBehind BY <2>1, <2>2 DEF LeftBehind, Accounted
  <2> QED BY <2>1, <2>3 DEF Unyielded, Walking, ReachedTheEnd
<1>7. ASSUME NEW p \in Post, TakenOff(p) PROVE Unyielded'
  <2>1. /\ listed' = listed \ {p} /\ due' = due \ {p}
        /\ UNCHANGED <<filed, at, begun, erred, stopped>>
    BY <1>7 DEF TakenOff, request, report
  <2> QED BY <2>1 DEF Unyielded, LeftBehind, Accounted, Walking, ReachedTheEnd
<1>8. CASE UNCHANGED vars
  BY <1>8 DEF vars, server, request, report, Unyielded, LeftBehind, Accounted, Walking, ReachedTheEnd
<1> QED BY <1>1, <1>2, <1>3, <1>4, <1>5, <1>6, <1>7, <1>8 DEF Next, Walk, Feed

\* A walk that reaches the end and reports no error has nothing of the saved list
\* left to file, and of an archive at most one post for each that was taken off.
THEOREM DrainedIsFiled == Spec => []DrainedMeansFiled
<1>1. TypeOK /\ Unyielded /\ SavedWalkComplete /\ ArchiveLossBounded => DrainedMeansFiled
  <2> SUFFICES ASSUME TypeOK, Unyielded, SavedWalkComplete, ArchiveLossBounded,
                      ReachedTheEnd, ~erred, heeds
               PROVE  Cardinality(LeftBehind) <= IF kind = "archive" THEN removed ELSE 0
    BY DEF DrainedMeansFiled
  <2>1. LeftBehind \subseteq due BY DEF Unyielded
  <2>2. due \in SUBSET Post BY Listed DEF TypeOK
  <2>3. /\ IsFiniteSet(due) /\ Cardinality(due) \in Nat
        /\ Cardinality(LeftBehind) \in Nat /\ Cardinality(LeftBehind) <= Cardinality(due)
    <3>1. IsFiniteSet(due) /\ Cardinality(due) \in Nat BY <2>2, PostsFinite
    <3>2. LeftBehind \in SUBSET Post BY <2>1, <2>2
    <3>3. Cardinality(LeftBehind) \in Nat BY <3>2, PostsFinite
    <3>4. Cardinality(LeftBehind) <= Cardinality(due) BY <2>1, <3>1, FS_Subset
    <3> QED BY <3>1, <3>3, <3>4
  <2>4. CASE kind = "archive"
    BY <2>3, <2>4 DEF ArchiveLossBounded, TypeOK
  <2>5. CASE kind # "archive"
    <3>1. due = {} BY <2>5 DEF SavedWalkComplete, TypeOK, Kind
    <3>2. Cardinality(LeftBehind) = 0 BY <2>1, <3>1, FS_EmptySet
    <3> QED BY <2>5, <3>2
  <2> QED BY <2>4, <2>5
<1>2. Spec => []Unyielded
  <2>1. IInv /\ Unyielded /\ [Next]_vars => Unyielded' BY UnyieldedNext
  <2> QED BY <2>1, InitIInv, NextIInv, UnyieldedInit, PTL DEF Spec
<1> QED BY <1>1, <1>2, TypeCorrect, SavedIsComplete, ArchiveLossIsBounded, PTL
=============================================================================
