-------------------------- MODULE RateLimitProofs --------------------------
(***************************************************************************)
(* Theorems of RateLimit for any threads, buckets, headers and limits.     *)
(***************************************************************************)
EXTENDS RateLimit, TLAPS

-----------------------------------------------------------------------------
(* Arithmetic of the timers.                                               *)

LEMMA TimerTypes ==
  ASSUME NEW after \in Header \cup {NoHeader}
  PROVE  /\ RetrySleep(after) \in Nat /\ Cooldown(after) \in Nat
         /\ after # NoHeader => after \in Nat /\ Cooldown(after) >= after
         /\ after # NoHeader /\ ~(after > MaxRetrySleep) => RetrySleep(after) >= after
BY RateLimitAssumption DEF RetrySleep, Cooldown, Longer, Shorter

LEMMA LessType ==
  ASSUME NEW n \in Nat
  PROVE  Less(n) \in Nat /\ Less(n) <= n
BY DEF Less

LEMMA LessMonotone ==
  ASSUME NEW m \in Nat, NEW n \in Nat, m <= n
  PROVE  Less(m) <= Less(n)
BY DEF Less

-----------------------------------------------------------------------------
(* Types.                                                                  *)

LEMMA CallTyped ==
  ASSUME TypeOK, NEW t \in Thread
  PROVE  /\ InCall(t) => call[t] \in Call /\ In(t) \in Bucket
         /\ ~InCall(t) => call[t] = NoCall
BY DEF TypeOK, InCall, In, Call, NoCall, Place, Asleep

LEMMA PlacesInCall ==
  ASSUME NEW t \in Thread, call[t].at \in Place
  PROVE  InCall(t)
BY DEF InCall, Place, Asleep

\* A call that moves on is still a call, one that ends is none.
LEMMA GoesTyped ==
  ASSUME TypeOK, NEW t \in Thread, InCall(t),
         NEW place \in Place, NEW wait \in Nat, Goes(t, place, wait)
  PROVE  call' \in [Thread -> Call \cup {NoCall}]
<1>1. call[t] \in Call BY CallTyped
<1> QED BY <1>1 DEF TypeOK, Goes, Call

LEMMA EndsTyped ==
  ASSUME TypeOK, NEW t \in Thread, Ends(t)
  PROVE  /\ call' \in [Thread -> Call \cup {NoCall}]
         /\ sends' \in [Thread -> 0 .. Attempts + 1]
BY RateLimitAssumption DEF TypeOK, Ends, Attempts

LEMMA InitTypeOK == Init => TypeOK
BY RateLimitAssumption DEF Init, TypeOK, Attempts

LEMMA NextTypeOK == TypeOK /\ [Next]_vars => TypeOK'
<1> SUFFICES ASSUME TypeOK, [Next]_vars PROVE TypeOK'
  OBVIOUS
<1> USE RateLimitAssumption
<1>1. ASSUME NEW t \in Thread, NEW b \in Bucket, NEW retried \in BOOLEAN,
             Begin(t, b, retried)
      PROVE  TypeOK'
  <2>1. call' \in [Thread -> Call \cup {NoCall}]
    BY <1>1 DEF Begin, TypeOK, Call, Place
  <2>2. shared' \subseteq Bucket BY <1>1 DEF Begin, TypeOK
  <2> QED BY <1>1, <2>1, <2>2 DEF Begin, TypeOK, registry
<1>2. ASSUME NEW t \in Thread, ReserveSendSlot(t) PROVE TypeOK'
  <2>1. InCall(t) /\ In(t) \in Bucket
    BY <1>2, CallTyped DEF ReserveSendSlot, At, InCall
  <2>2. CASE slot[In(t)] = Unpaced
    <3>1. Goes(t, "free", 0) BY <1>2, <2>2 DEF ReserveSendSlot
    <3>2. call' \in [Thread -> Call \cup {NoCall}]
      BY <2>1, <3>1, GoesTyped DEF Place
    <3> QED BY <1>2, <2>2, <3>2 DEF ReserveSendSlot, TypeOK, history
  <2>3. CASE slot[In(t)] # Unpaced
    <3>1. slot[In(t)] \in Nat BY <2>1, <2>3 DEF TypeOK
    <3>2. Goes(t, "pacing", slot[In(t)]) BY <1>2, <2>3 DEF ReserveSendSlot
    <3>3. call' \in [Thread -> Call \cup {NoCall}]
      BY <2>1, <3>1, <3>2, GoesTyped DEF Place, Asleep
    <3>4. slot' = [slot EXCEPT ![In(t)] = slot[In(t)] + PaceInterval]
      BY <1>2, <2>3 DEF ReserveSendSlot
    <3>5. slot[In(t)] + PaceInterval \in Nat BY <3>1
    <3>6. slot' \in [Bucket -> Nat \cup {Unpaced}]
      <4> DEFINE next == slot[In(t)] + PaceInterval
      <4>1. next \in Nat BY <3>5
      <4>2. slot' = [slot EXCEPT ![In(t)] = next] BY <3>4
      <4> HIDE DEF next
      <4> QED BY <4>1, <4>2 DEF TypeOK
    <3> QED BY <1>2, <3>3, <3>6 DEF ReserveSendSlot, TypeOK, history
  <2> QED BY <2>2, <2>3
<1>3. ASSUME NEW t \in Thread, Send(t) PROVE TypeOK'
  <2>1. InCall(t) BY <1>3 DEF Send, InCall, Asleep
  <2>2. call' \in [Thread -> Call \cup {NoCall}]
    <3>1. Goes(t, "answer", 0) BY <1>3 DEF Send
    <3>2. "answer" \in Place /\ 0 \in Nat BY DEF Place
    <3> QED BY <2>1, <3>1, <3>2, GoesTyped
  <2>3. sends' \in [Thread -> 0 .. Attempts + 1]
    <3>1. Attempts \in Nat BY DEF Attempts
    <3>2. Shorter(sends[t] + 1, Attempts + 1) \in 0 .. Attempts + 1
      BY <3>1 DEF TypeOK, Shorter
    <3> QED BY <1>3, <3>2 DEF Send, TypeOK
  <2>4. since' \in [Bucket -> 0 .. PaceInterval]
    <3>1. 0 \in 0 .. PaceInterval OBVIOUS
    <3>2. \/ since' = since
          \/ since' = [since EXCEPT ![In(t)] = 0]
      BY <1>3 DEF Send
    <3> QED BY <3>1, <3>2 DEF TypeOK
  <2> QED BY <1>3, <2>2, <2>3, <2>4 DEF Send, TypeOK, registry
<1>4. ASSUME NEW t \in Thread, Lands(t) PROVE TypeOK'
  BY <1>4, EndsTyped DEF Lands, NoteSuccess, TypeOK
<1>5. ASSUME NEW t \in Thread, Breaks(t) PROVE TypeOK'
  BY <1>5, EndsTyped DEF Breaks, TypeOK, registry
<1>6. ASSUME NEW t \in Thread, NEW after \in Header \cup {NoHeader}, TooMany(t, after)
      PROVE  TypeOK'
  <2>1. InCall(t) BY <1>6 DEF TooMany, At, InCall
  <2>2. call[t] \in Call /\ In(t) \in Bucket BY <2>1, CallTyped
  <2>3. call' \in [Thread -> Call \cup {NoCall}]
    <3>1. PICK place \in {"retry", "claim", "trip"}, seen \in 0 .. MaxRetries429 + 1, wait \in Nat :
            call' = [call EXCEPT ![t].at = place, ![t].seen429 = seen, ![t].wait = wait]
      <4>1. Shorter(call[t].seen429 + 1, MaxRetries429 + 1) \in 0 .. MaxRetries429 + 1
        BY <2>2 DEF Call, Shorter
      <4> QED BY <1>6, <4>1, TimerTypes DEF TooMany
    <3> QED BY <2>2, <3>1 DEF TypeOK, Call, Place, Asleep
  <2>4. asked' \in [Bucket -> Nat]
    BY <1>6, <2>2, TimerTypes DEF TooMany, Asks, Longer, TypeOK
  <2> QED BY <1>6, <2>3, <2>4 DEF TooMany, TypeOK, registry
<1>7. ASSUME NEW t \in Thread, NEW after \in Header \cup {NoHeader}, Unwell(t, after)
      PROVE  TypeOK'
  <2>1. InCall(t) BY <1>7 DEF Unwell, At, InCall
  <2>2. call[t] \in Call BY <2>1, CallTyped
  <2>3. CASE call[t].seen5xx < MaxRetries5xx
    <3>1. call' = [call EXCEPT ![t].at = "retry", ![t].seen5xx = call[t].seen5xx + 1,
                               ![t].wait = RetrySleep(after)]
      BY <1>7, <2>2, <2>3 DEF Unwell, Call
    <3>2. call[t].seen5xx + 1 \in 0 .. MaxRetries5xx BY <2>2, <2>3 DEF Call
    <3>3. call' \in [Thread -> Call \cup {NoCall}]
      BY <2>2, <3>1, <3>2, TimerTypes DEF TypeOK, Call, Place, Asleep
    <3> QED BY <1>7, <2>2, <2>3, <3>3 DEF Unwell, TypeOK, Call
  <2>4. CASE ~(call[t].seen5xx < MaxRetries5xx)
    BY <1>7, <2>4, EndsTyped DEF Unwell, NoteSuccess, TypeOK
  <2> QED BY <2>3, <2>4
<1>8. ASSUME NEW t \in Thread, TryClaimWait(t) PROVE TypeOK'
  <2>1. InCall(t) /\ In(t) \in Bucket
    BY <1>8, CallTyped DEF TryClaimWait, At, InCall
  <2>2. call[t].wait \in Nat BY <2>1, CallTyped DEF Call
  <2>3. call' \in [Thread -> Call \cup {NoCall}]
    BY <1>8, <2>1, <2>2, GoesTyped DEF TryClaimWait, Place, Asleep
  <2> QED BY <1>8, <2>1, <2>2, <2>3 DEF TryClaimWait, Rearms, TypeOK
<1>9. ASSUME NEW t \in Thread, Trip(t) PROVE TypeOK'
  <2>1. InCall(t) /\ In(t) \in Bucket BY <1>9, CallTyped DEF Trip, At, InCall
  <2>2. call[t].wait \in Nat BY <2>1, CallTyped DEF Call
  <2> QED BY <1>9, <2>1, <2>2, EndsTyped DEF Trip, Rearms, TypeOK
<1>10. CASE Tick
  <2>1. ASSUME NEW t \in Thread PROVE call'[t] \in Call \cup {NoCall}
    <3>1. CASE call[t].at \in Asleep
      <4>1. call[t] \in Call BY <3>1, CallTyped DEF InCall, Asleep
      <4>2. Less(call[t].wait) \in Nat BY <4>1, LessType DEF Call
      <4>3. call'[t] = [call[t] EXCEPT !.wait = Less(call[t].wait)]
        BY <1>10, <3>1 DEF Tick
      <4> QED BY <4>1, <4>2, <4>3 DEF Call
    <3>2. CASE call[t].at \notin Asleep BY <1>10, <3>2 DEF Tick, TypeOK
    <3> QED BY <3>1, <3>2
  <2>2. call' \in [Thread -> Call \cup {NoCall}] BY <1>10, <2>1 DEF Tick
  <2>3. cooling' \in [Bucket -> Nat] BY <1>10, LessType DEF Tick, TypeOK
  <2>4. asked' \in [Bucket -> Nat] BY <1>10, LessType DEF Tick, TypeOK
  <2>5. slot' \in [Bucket -> Nat \cup {Unpaced}] BY <1>10, LessType DEF Tick, TypeOK
  <2>6. since' \in [Bucket -> 0 .. PaceInterval]
    BY <1>10 DEF Tick, TypeOK, Shorter
  <2> QED BY <1>10, <2>2, <2>3, <2>4, <2>5, <2>6 DEF Tick, TypeOK
<1>11. CASE UNCHANGED vars BY <1>11 DEF vars, TypeOK
<1> QED
  BY <1>1, <1>2, <1>3, <1>4, <1>5, <1>6, <1>7, <1>8, <1>9, <1>10, <1>11
  DEF Next, Proceed, Answer

\* Type correctness: the timers never run below zero, and the retries a
\* call counts stay within their limits.
THEOREM TypeCorrect == Spec => []TypeOK
BY InitTypeOK, NextTypeOK, PTL DEF Spec

-----------------------------------------------------------------------------
(* While the calls of a bucket come one after the other: what a call has   *)
(* sent is what it has counted and the request under way, the allowance it *)
(* spent stays spent until it ends, and what the server last asked for is  *)
(* covered by its sleep or, between two calls, by the cooldown.            *)

Counted(t) == call[t].seen429 + call[t].seen5xx

CallInv(t) ==
  /\ cooling[In(t)] = 0
  /\ call[t].at \in {"slot", "free", "pacing"} =>
       sends[t] = 0 /\ asked[In(t)] = 0 /\ call[t].seen429 = 0
  /\ At(t, "answer") => sends[t] <= 1 + Counted(t) /\ asked[In(t)] = 0
  /\ call[t].at \in {"retry", "grace"} =>
       sends[t] <= Counted(t) /\ asked[In(t)] <= call[t].wait
  /\ call[t].at \in {"claim", "trip"} =>
       sends[t] <= 1 + Counted(t) /\ asked[In(t)] <= call[t].wait
  /\ At(t, "claim") => sends[t] <= Counted(t) \/ In(t) \in spent
  /\ At(t, "grace") => In(t) \in spent
  /\ call[t].at \in {"answer", "retry"} /\ call[t].seen429 = MaxRetries429 + 1 =>
       In(t) \in spent

Alone ==
  \A t, u \in Thread :
    InCall(t) /\ InCall(u) /\ In(t) = In(u) /\ Serial(In(t)) => t = u

Empty(b) == \A t \in Thread : InCall(t) => In(t) # b

Rested(b) == Serial(b) /\ Empty(b) => asked[b] <= cooling[b]

NothingSent == \A t \in Thread : ~InCall(t) => sends[t] = 0

SerialInv ==
  /\ Alone
  /\ NothingSent
  /\ \A t \in Thread : InCall(t) /\ Serial(In(t)) => CallInv(t)
  /\ \A b \in Bucket : Rested(b)

-----------------------------------------------------------------------------
(* A step of a call leaves every other call and bucket alone, so it is     *)
(* enough to look at its own part of the invariant.                        *)

\* What no step of t may touch.
Frame(t) ==
  /\ InCall(t) /\ In(t) \in Bucket
  /\ \A u \in Thread \ {t} : call'[u] = call[u] /\ sends'[u] = sends[u]
  /\ \A b \in Bucket \ {In(t)} :
       /\ cooling'[b] = cooling[b] /\ asked'[b] = asked[b]
       /\ b \in spent' <=> b \in spent
  /\ shared' = shared
  /\ InCall(t)' => In(t)' = In(t)

\* What a step of t must do in a bucket of its own.
Keeps(t) ==
  /\ ~InCall(t)' => sends'[t] = 0
  /\ Serial(In(t)) =>
       /\ InCall(t)' => CallInv(t)'
       /\ ~InCall(t)' => asked'[In(t)] <= cooling'[In(t)]

LEMMA FrameKeeps ==
  ASSUME TypeOK, SerialInv, NEW t \in Thread, Frame(t), Keeps(t)
  PROVE  SerialInv'
<1>1. \A b : Serial(b)' <=> Serial(b) BY DEF Frame, Serial
<1>2. \A u \in Thread \ {t} : (InCall(u)' <=> InCall(u)) /\ In(u)' = In(u)
  BY DEF Frame, InCall, In
<1>3. ASSUME NEW u \in Thread, InCall(u)'
      PROVE  InCall(u) /\ In(u)' = In(u) /\ In(u) \in Bucket
  BY <1>2, <1>3, CallTyped DEF Frame
<1>4. Alone'
  <2> SUFFICES ASSUME NEW u \in Thread, NEW v \in Thread,
                      InCall(u)', InCall(v)', In(u)' = In(v)', Serial(In(u))'
               PROVE  u = v
    BY DEF Alone
  <2>1. InCall(u) /\ InCall(v) /\ In(u) = In(v) BY <1>3
  <2>2. Serial(In(u)) BY <1>1, <1>3 DEF Serial
  <2> QED BY <2>1, <2>2 DEF SerialInv, Alone
<1>5. ASSUME NEW u \in Thread, InCall(u)', Serial(In(u))' PROVE CallInv(u)'
  <2>1. Serial(In(u)) BY <1>1, <1>3, <1>5 DEF Serial
  <2>2. CASE u = t BY <1>5, <2>1, <2>2 DEF Keeps
  <2>3. CASE u # t
    <3>1. CallInv(u) BY <1>3, <1>5, <2>1 DEF SerialInv
    <3>2. In(u) # In(t) BY <1>3, <1>5, <2>1, <2>3 DEF SerialInv, Alone, Frame
    <3>3. /\ call'[u] = call[u] /\ sends'[u] = sends[u] /\ In(u)' = In(u)
          /\ cooling'[In(u)] = cooling[In(u)] /\ asked'[In(u)] = asked[In(u)]
          /\ In(u) \in spent' <=> In(u) \in spent
      BY <1>3, <1>5, <2>3, <3>2 DEF Frame
    <3> QED BY <3>1, <3>3 DEF CallInv, Counted, At
  <2> QED BY <2>2, <2>3
<1>6. ASSUME NEW b \in Bucket PROVE Rested(b)'
  <2> SUFFICES ASSUME Serial(b)', Empty(b)' PROVE asked'[b] <= cooling'[b]
    BY DEF Rested
  <2>1. Serial(b) BY <1>1
  <2>2. CASE b = In(t)
    <3>1. ~InCall(t)' BY <1>3, <2>2 DEF Empty
    <3> QED BY <2>1, <2>2, <3>1 DEF Keeps
  <2>3. CASE b # In(t)
    <3>1. Empty(b) BY <1>2, <2>3 DEF Empty
    <3> QED BY <2>1, <2>3, <3>1 DEF SerialInv, Rested, Frame
  <2> QED BY <2>2, <2>3
<1>7. NothingSent' BY <1>2 DEF Frame, Keeps, SerialInv, NothingSent
<1> QED BY <1>4, <1>5, <1>6, <1>7 DEF SerialInv

\* Facts about the call that takes a step in a bucket of its own.
LEMMA OwnPart ==
  ASSUME TypeOK, SerialInv, NEW t \in Thread, InCall(t)
  PROVE  /\ call[t] \in Call /\ In(t) \in Bucket
         /\ sends[t] \in Nat /\ asked[In(t)] \in Nat /\ cooling[In(t)] \in Nat
         /\ call[t].seen429 \in 0 .. MaxRetries429 + 1
         /\ call[t].seen5xx \in 0 .. MaxRetries5xx /\ call[t].wait \in Nat
         /\ Serial(In(t)) => CallInv(t)
<1>1. call[t] \in Call /\ In(t) \in Bucket BY CallTyped
<1>2. sends[t] \in Nat BY RateLimitAssumption DEF TypeOK, Attempts
<1> QED BY <1>1, <1>2 DEF TypeOK, SerialInv, Call

LEMMA ReserveKeeps ==
  ASSUME TypeOK, SerialInv, NEW t \in Thread, ReserveSendSlot(t)
  PROVE  SerialInv'
<1>1. InCall(t) BY DEF ReserveSendSlot, At, InCall
<1>2. PICK place \in {"free", "pacing"}, wait \in {0, slot[In(t)]} :
        call' = [call EXCEPT ![t].at = place, ![t].wait = wait]
  BY DEF ReserveSendSlot, Goes
<1>3. call'[t] = [call[t] EXCEPT !.at = place, !.wait = wait]
  BY <1>1, <1>2 DEF TypeOK
<1>4. /\ call'[t].at = place /\ call'[t].bucket = In(t)
      /\ call'[t].seen429 = call[t].seen429
  BY <1>1, <1>3, OwnPart DEF Call, In
<1>5. \A u \in Thread \ {t} : call'[u] = call[u] BY <1>2 DEF TypeOK
<1>6. UNCHANGED <<cooling, spent, sends, asked, shared>>
  BY DEF ReserveSendSlot, history
<1>7. Frame(t) BY <1>1, <1>4, <1>5, <1>6, OwnPart DEF Frame, In
<1>8. Keeps(t)
  BY <1>1, <1>4, <1>6, OwnPart
  DEF Keeps, CallInv, At, In, InCall, ReserveSendSlot
<1> QED BY <1>7, <1>8, FrameKeeps

LEMMA SendKeeps ==
  ASSUME TypeOK, SerialInv, NEW t \in Thread, Send(t)
  PROVE  SerialInv'
<1>1. InCall(t) BY DEF Send, InCall, Asleep
<1>2. call'[t] = [call[t] EXCEPT !.at = "answer", !.wait = 0]
  BY <1>1 DEF Send, Goes, TypeOK
<1>3. /\ call'[t].at = "answer" /\ call'[t].bucket = In(t)
      /\ call'[t].seen429 = call[t].seen429 /\ call'[t].seen5xx = call[t].seen5xx
  BY <1>1, <1>2, OwnPart DEF Call, In
<1>4. \A u \in Thread \ {t} : call'[u] = call[u] /\ sends'[u] = sends[u]
  BY DEF TypeOK, Send, Goes
<1>5. UNCHANGED <<cooling, spent, asked, shared>> BY DEF Send, registry
<1>6. sends'[t] \in Nat /\ sends'[t] <= sends[t] + 1
  <2>1. Attempts \in Nat BY RateLimitAssumption DEF Attempts
  <2>2. sends'[t] = Shorter(sends[t] + 1, Attempts + 1) BY DEF Send, TypeOK
  <2> QED BY <1>1, <2>1, <2>2, OwnPart DEF Shorter
<1>7. Frame(t) BY <1>1, <1>3, <1>4, <1>5, OwnPart DEF Frame, In
<1>8. ASSUME Serial(In(t)) PROVE CallInv(t)'
  <2>1. CallInv(t) BY <1>1, <1>8, OwnPart
  <2>2. call[t].at \in {"free", "pacing", "retry", "grace"} /\ call[t].wait = 0
    BY DEF Send, Asleep
  <2>3. sends[t] <= Counted(t) /\ asked[In(t)] = 0
    <3>1. Counted(t) \in Nat BY <1>1, OwnPart, RateLimitAssumption DEF Counted
    <3> QED BY <1>1, <2>1, <2>2, <3>1, OwnPart DEF CallInv
  <2>4. sends'[t] <= 1 + Counted(t)'
    BY <1>1, <1>3, <1>6, <2>3, OwnPart, RateLimitAssumption DEF Counted
  <2>5. call[t].seen429 = MaxRetries429 + 1 => In(t) \in spent
    <3>1. 0 # MaxRetries429 + 1 BY RateLimitAssumption
    <3> QED BY <2>1, <2>2, <3>1 DEF CallInv, At
  <2> QED BY <1>3, <1>5, <2>1, <2>3, <2>4, <2>5 DEF CallInv, At, In
<1>9. Keeps(t) BY <1>3, <1>8 DEF Keeps, InCall
<1> QED BY <1>7, <1>9, FrameKeeps

\* A call may end where what was asked for has passed, or is the cooldown.
LEMMA EndKeeps ==
  ASSUME TypeOK, SerialInv, NEW t \in Thread, InCall(t), Ends(t),
         UNCHANGED <<asked, shared>>,
         \A b \in Bucket \ {In(t)} : cooling'[b] = cooling[b],
         spent' \in {spent, spent \ {In(t)}},
         Serial(In(t)) => asked[In(t)] <= cooling'[In(t)]
  PROVE  SerialInv'
<1>1. call'[t] = NoCall BY DEF Ends, TypeOK
<1>2. ~InCall(t)' BY <1>1 DEF InCall, NoCall
<1>3. \A u \in Thread \ {t} : call'[u] = call[u] /\ sends'[u] = sends[u]
  BY DEF Ends, TypeOK
<1>4. Frame(t) BY <1>2, <1>3, OwnPart DEF Frame
<1>5. sends'[t] = 0 BY DEF Ends, TypeOK
<1>6. Keeps(t) BY <1>2, <1>5 DEF Keeps
<1> QED BY <1>4, <1>6, FrameKeeps

LEMMA LandsKeeps ==
  ASSUME TypeOK, SerialInv, NEW t \in Thread, Lands(t) \/ Breaks(t)
  PROVE  SerialInv'
<1>1. InCall(t) /\ At(t, "answer") BY DEF Lands, Breaks, At, InCall
<1>2. /\ Ends(t) /\ UNCHANGED <<asked, shared, cooling>>
      /\ spent' \in {spent, spent \ {In(t)}}
  BY DEF Lands, Breaks, NoteSuccess, registry
<1>3. Serial(In(t)) => asked[In(t)] <= cooling'[In(t)]
  BY <1>1, <1>2, OwnPart DEF CallInv
<1> QED BY <1>1, <1>2, <1>3, EndKeeps

LEMMA TripKeeps ==
  ASSUME TypeOK, SerialInv, NEW t \in Thread, Trip(t)
  PROVE  SerialInv'
<1>1. InCall(t) /\ At(t, "trip") BY DEF Trip, At, InCall
<1>2. cooling' = [cooling EXCEPT ![In(t)] = call[t].wait] BY DEF Trip
<1>3. cooling'[In(t)] = call[t].wait BY <1>1, <1>2, OwnPart DEF TypeOK
<1>4. \A b \in Bucket \ {In(t)} : cooling'[b] = cooling[b]
  BY <1>2 DEF TypeOK
<1>5. Serial(In(t)) => asked[In(t)] <= cooling'[In(t)]
  BY <1>1, <1>3, OwnPart DEF CallInv, At
<1>6. Ends(t) /\ UNCHANGED <<asked, shared, spent>> BY DEF Trip
<1> QED BY <1>1, <1>4, <1>5, <1>6, EndKeeps

LEMMA UnwellKeeps ==
  ASSUME TypeOK, SerialInv, NEW t \in Thread,
         NEW after \in Header \cup {NoHeader}, Unwell(t, after)
  PROVE  SerialInv'
<1>1. InCall(t) /\ At(t, "answer") BY DEF Unwell, At, InCall
<1>2. UNCHANGED <<cooling, asked, shared>> BY DEF Unwell
<1>3. CASE call[t].seen5xx < MaxRetries5xx
  <2>1. /\ call' = [call EXCEPT ![t].at = "retry", ![t].seen5xx = call[t].seen5xx + 1,
                                ![t].wait = RetrySleep(after)]
        /\ UNCHANGED <<spent, sends>>
    BY <1>1, <1>3, OwnPart, RateLimitAssumption DEF Unwell
  <2>2. call'[t] = [call[t] EXCEPT !.at = "retry", !.seen5xx = call[t].seen5xx + 1,
                                   !.wait = RetrySleep(after)]
    BY <2>1 DEF TypeOK
  <2>3. /\ call'[t].at = "retry" /\ call'[t].bucket = In(t)
        /\ call'[t].seen429 = call[t].seen429
        /\ call'[t].seen5xx = call[t].seen5xx + 1
        /\ call'[t].wait = RetrySleep(after)
    BY <1>1, <2>2, OwnPart DEF Call, In
  <2>4. Frame(t) BY <1>1, <1>2, <2>1, <2>3, OwnPart DEF Frame, In, TypeOK
  <2>5. ASSUME Serial(In(t)) PROVE CallInv(t)'
    <3>1. CallInv(t) BY <1>1, <2>5, OwnPart
    <3>2. sends'[t] <= Counted(t)'
      BY <1>1, <2>1, <2>3, <3>1, OwnPart, RateLimitAssumption DEF CallInv, Counted
    <3>3. asked'[In(t)] <= call'[t].wait
      BY <1>1, <1>2, <2>3, <3>1, OwnPart, TimerTypes DEF CallInv
    <3> QED BY <1>1, <1>2, <2>1, <2>3, <3>1, <3>2, <3>3 DEF CallInv, At, In
  <2>6. Keeps(t) BY <2>3, <2>5 DEF Keeps, InCall
  <2> QED BY <2>4, <2>6, FrameKeeps
<1>4. CASE ~(call[t].seen5xx < MaxRetries5xx)
  <2>1. Ends(t) /\ spent' = spent \ {In(t)} BY <1>4 DEF Unwell, NoteSuccess
  <2>2. Serial(In(t)) => asked[In(t)] <= cooling'[In(t)]
    BY <1>1, <1>2, OwnPart DEF CallInv
  <2> QED BY <1>1, <1>2, <2>1, <2>2, EndKeeps
<1> QED BY <1>3, <1>4

LEMMA TooManyKeeps ==
  ASSUME TypeOK, SerialInv, NEW t \in Thread,
         NEW after \in Header \cup {NoHeader}, TooMany(t, after)
  PROVE  SerialInv'
<1> DEFINE seen == Shorter(call[t].seen429 + 1, MaxRetries429 + 1)
           giveUp == \/ call[t].seen429 + 1 > MaxRetries429
                     \/ after # NoHeader /\ after > MaxRetrySleep
           wait == IF giveUp THEN Cooldown(after) ELSE RetrySleep(after)
<1>1. InCall(t) /\ At(t, "answer") BY DEF TooMany, At, InCall
<1>2. UNCHANGED <<cooling, spent, sends, shared>> BY DEF TooMany, registry
<1>3. PICK place \in {"retry", "claim", "trip"} :
        /\ call' = [call EXCEPT ![t].at = place, ![t].seen429 = seen, ![t].wait = wait]
        /\ place = "retry" <=> ~giveUp
  BY DEF TooMany
<1>4. call'[t] = [call[t] EXCEPT !.at = place, !.seen429 = seen, !.wait = wait]
  BY <1>3 DEF TypeOK
<1>5. /\ call'[t].at = place /\ call'[t].bucket = In(t)
      /\ call'[t].seen429 = seen /\ call'[t].wait = wait
      /\ call'[t].seen5xx = call[t].seen5xx
  BY <1>1, <1>4, OwnPart DEF Call, In
<1>6. \A b \in Bucket \ {In(t)} : asked'[b] = asked[b] BY DEF TooMany, Asks, TypeOK
<1>7. Frame(t) BY <1>1, <1>2, <1>3, <1>5, <1>6, OwnPart DEF Frame, In, TypeOK
<1>8. ASSUME Serial(In(t)) PROVE CallInv(t)'
  <2>1. CallInv(t) BY <1>1, <1>8, OwnPart
  <2>2. asked'[In(t)] <= wait
    <3>1. asked[In(t)] = 0 BY <1>1, <2>1 DEF CallInv
    <3>2. CASE after = NoHeader
      <4>1. asked' = asked BY <3>2 DEF TooMany, Asks
      <4>2. wait \in Nat BY TimerTypes
      <4> QED BY <3>1, <4>1, <4>2
    <3>3. CASE after # NoHeader
      <4>1. asked'[In(t)] = Longer(0, after)
        BY <1>1, <3>1, <3>3, OwnPart DEF TooMany, Asks, TypeOK
      <4>2. after \in Nat /\ wait >= after /\ wait \in Nat BY <3>3, TimerTypes
      <4> QED BY <4>1, <4>2 DEF Longer
    <3> QED BY <3>2, <3>3
  <2>3. CASE call[t].seen429 <= MaxRetries429
    <3>1. seen = call[t].seen429 + 1
      BY <1>1, <2>3, OwnPart, RateLimitAssumption DEF Shorter
    <3>2. sends'[t] <= Counted(t)'
      BY <1>1, <1>2, <1>5, <2>1, <3>1, OwnPart, RateLimitAssumption DEF CallInv, Counted
    <3>3. place = "retry" => seen # MaxRetries429 + 1
      BY <1>1, <1>3, <3>1, OwnPart, RateLimitAssumption
    <3>4. sends'[t] <= 1 + Counted(t)'
      BY <1>1, <1>2, <1>5, <3>1, <3>2, OwnPart, RateLimitAssumption DEF Counted
    <3> HIDE DEF seen, wait, giveUp
    <3> QED BY <1>2, <1>3, <1>5, <2>1, <2>2, <3>2, <3>3, <3>4 DEF CallInv, At, In
  <2>4. CASE ~(call[t].seen429 <= MaxRetries429)
    <3>1. call[t].seen429 = MaxRetries429 + 1 /\ seen = call[t].seen429 /\ giveUp
      BY <1>1, <2>4, OwnPart, RateLimitAssumption DEF Shorter
    <3>2. In(t) \in spent BY <1>1, <2>1, <3>1 DEF CallInv, At
    <3>3. sends'[t] <= 1 + Counted(t)'
      BY <1>1, <1>2, <1>5, <2>1, <3>1, OwnPart DEF CallInv, Counted
    <3>4. place # "retry" BY <1>3, <3>1
    <3> HIDE DEF seen, wait, giveUp
    <3> QED BY <1>2, <1>3, <1>5, <2>1, <2>2, <3>2, <3>3, <3>4 DEF CallInv, At, In
  <2> QED BY <2>3, <2>4
<1>9. Keeps(t) BY <1>3, <1>5, <1>8 DEF Keeps, InCall
<1> QED BY <1>7, <1>9, FrameKeeps

LEMMA ClaimKeeps ==
  ASSUME TypeOK, SerialInv, NEW t \in Thread, TryClaimWait(t)
  PROVE  SerialInv'
<1>1. InCall(t) /\ At(t, "claim") BY DEF TryClaimWait, At, InCall
<1>2. UNCHANGED <<cooling, sends, asked, shared>> BY DEF TryClaimWait
<1>3. PICK place \in {"grace", "trip"} :
        /\ Goes(t, place, call[t].wait)
        /\ place = "grace" => In(t) \notin spent /\ spent' = spent \cup {In(t)}
        /\ place = "trip" => spent' = spent
  BY DEF TryClaimWait
<1>4. call'[t] = [call[t] EXCEPT !.at = place, !.wait = call[t].wait]
  BY <1>3 DEF Goes, TypeOK
<1>5. /\ call'[t].at = place /\ call'[t].bucket = In(t)
      /\ call'[t].seen429 = call[t].seen429 /\ call'[t].seen5xx = call[t].seen5xx
      /\ call'[t].wait = call[t].wait
  BY <1>1, <1>4, OwnPart DEF Call, In
<1>6. \A u \in Thread \ {t} : call'[u] = call[u] BY <1>3 DEF Goes, TypeOK
<1>7. Frame(t) BY <1>1, <1>2, <1>3, <1>5, <1>6, OwnPart DEF Frame, In
<1>8. ASSUME Serial(In(t)) PROVE CallInv(t)'
  <2>1. CallInv(t) BY <1>1, <1>8, OwnPart
  <2>2. Counted(t)' = Counted(t) BY <1>5 DEF Counted
  <2> QED BY <1>1, <1>2, <1>3, <1>5, <2>1, <2>2 DEF CallInv, At, In
<1>9. Keeps(t) BY <1>3, <1>5, <1>8 DEF Keeps, InCall
<1> QED BY <1>7, <1>9, FrameKeeps

\* A call that finds the bucket empty begins where nothing more is asked.
LEMMA BeginKeeps ==
  ASSUME TypeOK, SerialInv, NEW t \in Thread, NEW b \in Bucket,
         NEW retried \in BOOLEAN, Begin(t, b, retried)
  PROVE  SerialInv'
<1>1. /\ ~InCall(t) /\ cooling[b] = 0
      /\ UNCHANGED <<cooling, spent, sends, asked>>
  BY DEF Begin, registry
<1>2. call'[t] = [at |-> "slot", bucket |-> b, retried |-> retried, wait |-> 0,
                  seen429 |-> 0, seen5xx |-> 0]
  BY DEF Begin, TypeOK
<1>3. call'[t].at = "slot" /\ call'[t].bucket = b /\ call'[t].seen429 = 0
  BY <1>2
<1>4. InCall(t)' /\ In(t)' = b BY <1>3 DEF InCall, In
<1>5. \A u \in Thread \ {t} : (InCall(u)' <=> InCall(u)) /\ In(u)' = In(u) /\ call'[u] = call[u]
  BY DEF Begin, TypeOK, InCall, In
<1>6. \A c : Serial(c)' => Serial(c) BY DEF Begin, Serial
<1>7. Serial(b)' => Empty(b) BY DEF Begin, Serial, Empty
<1>8. Alone'
  <2> SUFFICES ASSUME NEW u \in Thread, NEW v \in Thread,
                      InCall(u)', InCall(v)', In(u)' = In(v)', Serial(In(u))'
               PROVE  u = v
    BY DEF Alone
  <2>1. CASE In(u)' = b
    <3>1. Serial(b)' BY <2>1 DEF Serial
    <3> QED BY <1>5, <1>7, <2>1, <3>1 DEF Empty
  <2>2. CASE In(u)' # b
    <3>1. u # t /\ v # t BY <1>4, <2>2
    <3>2. InCall(u) /\ InCall(v) /\ In(u) = In(v) /\ In(u)' = In(u) BY <1>5, <3>1
    <3>3. Serial(In(u)) BY <1>6, <3>2 DEF Serial
    <3> QED BY <3>2, <3>3 DEF SerialInv, Alone
  <2> QED BY <2>1, <2>2
<1>9. NothingSent' BY <1>1, <1>4, <1>5 DEF SerialInv, NothingSent
<1>10. ASSUME NEW u \in Thread, InCall(u)', Serial(In(u))' PROVE CallInv(u)'
  <2>1. CASE u = t
    <3>1. Serial(b) /\ Empty(b) BY <1>4, <1>6, <1>7, <1>10, <2>1 DEF Serial
    <3>2. asked[b] = 0
      <4>1. asked[b] <= cooling[b] BY <3>1 DEF SerialInv, Rested
      <4> QED BY <1>1, <4>1 DEF TypeOK
    <3>3. sends[t] = 0 BY <1>1 DEF SerialInv, NothingSent
    <3> QED BY <1>1, <1>3, <1>4, <2>1, <3>2, <3>3 DEF CallInv, At
  <2>2. CASE u # t
    <3>1. InCall(u) /\ In(u)' = In(u) /\ call'[u] = call[u] BY <1>5, <1>10, <2>2
    <3>2. Serial(In(u)) BY <1>6, <1>10, <3>1 DEF Serial
    <3>3. CallInv(u) BY <3>1, <3>2 DEF SerialInv
    <3> QED BY <1>1, <3>1, <3>3 DEF CallInv, Counted, At
  <2> QED BY <2>1, <2>2
<1>11. ASSUME NEW c \in Bucket PROVE Rested(c)'
  <2> SUFFICES ASSUME Serial(c)', Empty(c)' PROVE asked'[c] <= cooling'[c]
    BY DEF Rested
  <2>1. c # b BY <1>4 DEF Empty
  <2>2. Empty(c) BY <1>1, <1>5 DEF Empty
  <2> QED BY <1>1, <1>6, <2>2 DEF SerialInv, Rested
<1> QED BY <1>8, <1>9, <1>10, <1>11 DEF SerialInv

\* The clock takes as much off a sleep or a cooldown as off what it covers.
LEMMA TickKeeps ==
  ASSUME TypeOK, SerialInv, Tick
  PROVE  SerialInv'
<1>1. UNCHANGED <<spent, sends, shared>> BY DEF Tick
<1>2. \A b \in Bucket : cooling'[b] = Less(cooling[b]) /\ asked'[b] = Less(asked[b])
  BY DEF Tick
<1>3. ASSUME NEW t \in Thread, InCall(t)
      PROVE  /\ call'[t].at = call[t].at /\ call'[t].bucket = In(t)
             /\ call'[t].seen429 = call[t].seen429
             /\ call'[t].seen5xx = call[t].seen5xx
             /\ call[t].at \in Asleep => call'[t].wait = Less(call[t].wait)
  <2>1. call[t] \in Call BY <1>3, CallTyped
  <2>2. call'[t] = IF call[t].at \in Asleep
                   THEN [call[t] EXCEPT !.wait = Less(call[t].wait)] ELSE call[t]
    BY DEF Tick
  <2> QED BY <2>1, <2>2 DEF Call, In
<1>4. ASSUME NEW t \in Thread, ~InCall(t) PROVE call'[t] = call[t]
  BY <1>4 DEF Tick, InCall, Asleep
<1>5. \A t \in Thread : (InCall(t)' <=> InCall(t)) /\ (InCall(t) => In(t)' = In(t))
  BY <1>3, <1>4 DEF InCall, In
<1>6. Alone' /\ NothingSent'
  BY <1>1, <1>5 DEF SerialInv, Alone, NothingSent, Serial
<1>7. ASSUME NEW t \in Thread, InCall(t)', Serial(In(t))' PROVE CallInv(t)'
  <2>1. InCall(t) /\ In(t)' = In(t) /\ Serial(In(t)) BY <1>1, <1>5, <1>7 DEF Serial
  <2>2. CallInv(t) BY <2>1, OwnPart
  <2>3. call[t].at \notin {"slot", "free", "claim", "trip"} BY DEF Tick, Due
  <2>4. Counted(t)' = Counted(t) BY <1>3, <2>1 DEF Counted
  <2>5. cooling'[In(t)] = 0 BY <1>2, <2>1, <2>2, OwnPart DEF CallInv, Less
  <2>6. asked[In(t)] = 0 => asked'[In(t)] = 0 BY <1>2, <2>1, OwnPart DEF Less
  <2>7. call[t].at \in {"retry", "grace"} => asked'[In(t)] <= call'[t].wait
    BY <1>2, <1>3, <2>1, <2>2, OwnPart, LessMonotone DEF CallInv, Asleep
  <2> QED BY <1>1, <1>3, <2>1, <2>2, <2>3, <2>4, <2>5, <2>6, <2>7 DEF CallInv, At
<1>8. ASSUME NEW b \in Bucket PROVE Rested(b)'
  <2> SUFFICES ASSUME Serial(b)', Empty(b)' PROVE asked'[b] <= cooling'[b]
    BY DEF Rested
  <2>1. Serial(b) /\ Empty(b) BY <1>1, <1>5 DEF Serial, Empty
  <2>2. asked[b] <= cooling[b] BY <2>1 DEF SerialInv, Rested
  <2> QED BY <1>2, <2>2, LessMonotone DEF TypeOK
<1> QED BY <1>6, <1>7, <1>8 DEF SerialInv

LEMMA InitSerial == Init => SerialInv
BY DEF Init, SerialInv, Alone, NothingSent, Rested, Empty, InCall, NoCall

LEMMA NextSerial == TypeOK /\ SerialInv /\ [Next]_vars => SerialInv'
<1> SUFFICES ASSUME TypeOK, SerialInv, [Next]_vars PROVE SerialInv'
  OBVIOUS
<1>1. CASE UNCHANGED vars
  <2>1. /\ UNCHANGED <<cooling, spent, call, sends, asked, shared>>
    BY <1>1 DEF vars
  <2> QED BY <2>1 DEF SerialInv, Alone, NothingSent, Rested, Empty, InCall, In, Serial,
                      CallInv, At, Counted
<1> QED
  BY <1>1, ReserveKeeps, SendKeeps, LandsKeeps, TripKeeps, UnwellKeeps, TooManyKeeps,
     ClaimKeeps, BeginKeeps, TickKeeps
  DEF Next, Proceed, Answer

LEMMA AlwaysSerial == Spec => [](TypeOK /\ SerialInv)
BY InitTypeOK, NextTypeOK, InitSerial, NextSerial, PTL DEF Spec

-----------------------------------------------------------------------------
\* A call costs at most one request per retry, one after the cooldown it
\* waits out and the last one, as long as the calls of its bucket come one
\* after the other (http.py:53).
THEOREM CallsAreBounded == Spec => []AttemptsBounded
<1>1. TypeOK /\ SerialInv => AttemptsBounded
  <2> SUFFICES ASSUME TypeOK, SerialInv, NEW t \in Thread, InCall(t), Serial(In(t))
               PROVE  sends[t] <= Attempts
    BY DEF AttemptsBounded
  <2>1. CallInv(t) BY OwnPart
  <2>2. Counted(t) \in Nat /\ 1 + Counted(t) <= Attempts
    BY OwnPart, RateLimitAssumption DEF Counted, Attempts
  <2>3. call[t].at \in Place BY OwnPart DEF Call
  <2>4. sends[t] <= 1 + Counted(t)
    BY <2>1, <2>2, <2>3, OwnPart DEF CallInv, At, Place, Asleep
  <2> QED BY <2>2, <2>4, OwnPart, RateLimitAssumption DEF Attempts
<1> QED BY <1>1, AlwaysSerial, PTL

\* A cooldown is cut short by nothing but the trip of its own bucket, and only
\* where calls of the bucket overlapped (http.py:149).  Run `cut_short` shows that
\* such a trip does.
OverlapCutsShort(b) == b \in shared /\ \E t \in Thread : In(t) = b /\ Trip(t)

THEOREM OnlyOverlapCutsShort ==
  Spec => [][\A b \in Bucket : cooling'[b] < Less(cooling[b]) => OverlapCutsShort(b)]_vars
<1> DEFINE Holds == \A b \in Bucket : cooling'[b] < Less(cooling[b]) => OverlapCutsShort(b)
<1>1. TypeOK /\ SerialInv /\ [Next]_vars => Holds
  <2> SUFFICES ASSUME TypeOK, SerialInv, [Next]_vars, NEW b \in Bucket
               PROVE  cooling'[b] < Less(cooling[b]) => OverlapCutsShort(b)
    OBVIOUS
  <2>1. cooling[b] \in Nat /\ cooling'[b] \in Nat BY NextTypeOK DEF TypeOK
  <2>2. ASSUME NEW t \in Thread, Trip(t)
        PROVE  cooling'[b] >= Less(cooling[b]) \/ OverlapCutsShort(b)
    <3>1. InCall(t) BY <2>2 DEF Trip, At, InCall
    <3>2. cooling' = [cooling EXCEPT ![In(t)] = call[t].wait] BY <2>2 DEF Trip
    <3>3. CASE In(t) = b /\ Serial(b)
      <4>1. cooling[b] = 0 BY <3>1, <3>3, OwnPart DEF CallInv
      <4>2. cooling'[b] = call[t].wait BY <3>2, <3>3 DEF TypeOK
      <4> QED BY <3>1, <3>3, <4>1, <4>2, OwnPart DEF Less
    <3>4. CASE In(t) = b /\ ~Serial(b) BY <2>2, <3>4 DEF OverlapCutsShort, Serial
    <3>5. CASE In(t) # b
      <4>1. cooling'[b] = cooling[b] BY <3>2, <3>5 DEF TypeOK
      <4> QED BY <2>1, <4>1, LessType
    <3> QED BY <3>3, <3>4, <3>5
  <2>3. CASE Tick
    <3>1. cooling'[b] = Less(cooling[b]) BY <2>3 DEF Tick
    <3> QED BY <2>1, <3>1, LessType
  <2>4. CASE UNCHANGED cooling BY <2>1, <2>4, LessType
  <2>5. \/ UNCHANGED cooling \/ Tick \/ \E t \in Thread : Trip(t)
    BY DEF Next, Proceed, Answer, Begin, ReserveSendSlot, Send, Lands, Breaks,
           TooMany, Unwell, TryClaimWait, registry, vars
  <2> QED BY <2>1, <2>2, <2>3, <2>4, <2>5, LessType
<1>2. TypeOK /\ SerialInv /\ [Next]_vars => [Holds]_vars BY <1>1
<1> QED BY <1>2, AlwaysSerial, PTL DEF Spec

\* No request is sent before the Retry-After of the last 429 has passed:
\* a retry and a waited-out cooldown sleep it, the next call meets it as
\* the breaker's cooldown (http.py:63).
THEOREM ServerIsHeeded == Spec => RetryAfterHonoured
<1> DEFINE Holds ==
      \A t \in Thread :
        At(t, "answer")' /\ ~At(t, "answer") /\ Serial(In(t)) => asked[In(t)] = 0
<1>1. TypeOK /\ SerialInv /\ [Next]_vars => Holds
  <2> SUFFICES ASSUME TypeOK, SerialInv, [Next]_vars, NEW t \in Thread,
                      At(t, "answer")', ~At(t, "answer"), Serial(In(t))
               PROVE  asked[In(t)] = 0
    OBVIOUS
  <2>1. CASE Send(t)
    <3>1. InCall(t) BY <2>1 DEF Send, InCall, Asleep
    <3>2. CallInv(t) BY <3>1, OwnPart
    <3>3. call[t].at \in {"free", "pacing", "retry", "grace"} /\ call[t].wait = 0
      BY <2>1 DEF Send, Asleep
    <3> QED BY <3>1, <3>2, <3>3, OwnPart DEF CallInv
  <2>2. ASSUME NEW u \in Thread, u # t, Proceed(u) PROVE FALSE
    <3>1. call'[t] = call[t]
      BY <2>2 DEF Proceed, Answer, ReserveSendSlot, Send, Lands, Breaks, TooMany, Unwell,
                  TryClaimWait, Trip, Goes, Ends, TypeOK
    <3> QED BY <3>1 DEF At
  <2>3. ASSUME ReserveSendSlot(t) \/ TryClaimWait(t) \/ Trip(t) \/ Answer(t)
        PROVE  FALSE
    <3>1. call'[t].at # "answer"
      <4>1. InCall(t) BY <2>3 DEF ReserveSendSlot, TryClaimWait, Trip, Answer, Lands,
                                  Breaks, TooMany, Unwell, At, InCall
      <4>2. call[t] \in Call BY <4>1, CallTyped
      <4>3. ~Answer(t) BY DEF Answer, Lands, Breaks, TooMany, Unwell, At
      <4> QED BY <2>3, <4>2, <4>3
              DEF ReserveSendSlot, TryClaimWait, Trip, Goes, Ends, NoCall, TypeOK, Call
    <3> QED BY <3>1 DEF At
  <2>4. ASSUME NEW u \in Thread, NEW b \in Bucket, NEW retried \in BOOLEAN,
               Begin(u, b, retried)
        PROVE  FALSE
    <3>1. call'[t] = call[t] \/ call'[t].at = "slot" BY <2>4 DEF Begin, TypeOK
    <3> QED BY <3>1 DEF At
  <2>5. CASE Tick
    <3>1. call'[t].at = call[t].at
      <4>1. CASE call[t].at \in Asleep
        <5>1. call[t] \in Call BY <4>1, CallTyped DEF InCall, Asleep
        <5> QED BY <2>5, <4>1, <5>1 DEF Tick, Call
      <4>2. CASE call[t].at \notin Asleep BY <2>5, <4>2 DEF Tick
      <4> QED BY <4>1, <4>2
    <3> QED BY <3>1 DEF At
  <2>6. CASE UNCHANGED vars BY <2>6 DEF vars, At
  <2> QED BY <2>1, <2>2, <2>3, <2>4, <2>5, <2>6 DEF Next, Proceed
<1>2. TypeOK /\ SerialInv /\ [Next]_vars => [Holds]_vars BY <1>1
<1> QED BY <1>2, AlwaysSerial, PTL DEF Spec, RetryAfterHonoured

-----------------------------------------------------------------------------
(* What a step of a call does to its sleep and to the slots of its bucket, *)
(* one shape per way there is.                                             *)

Paced(b) == slot[b] # Unpaced

\* reserve_send_slot in a bucket that never tripped, and in one that did.
GoesFree(t) ==
  /\ At(t, "slot") /\ ~Paced(In(t)) /\ At(t, "free")'
  /\ UNCHANGED <<cooling, slot, since, rearmed>>

Queues(t) ==
  /\ At(t, "slot") /\ Paced(In(t)) /\ At(t, "pacing")'
  /\ call'[t].wait = slot[In(t)]
  /\ slot' = [slot EXCEPT ![In(t)] = call'[t].wait + PaceInterval]
  /\ UNCHANGED <<cooling, since, rearmed>>

Sends(t) ==
  /\ call[t].at \in Asleep \cup {"free"} /\ call[t].wait = 0 /\ At(t, "answer")'
  /\ since' = IF At(t, "pacing") THEN [since EXCEPT ![In(t)] = 0] ELSE since
  /\ UNCHANGED <<cooling, slot, rearmed>>

IsAnswered(t) ==
  /\ At(t, "answer") /\ ~InCall(t)'
  /\ UNCHANGED <<cooling, slot, since, rearmed>>

Retries(t) ==
  /\ At(t, "answer") /\ At(t, "retry")' /\ call'[t].wait <= MaxRetrySleep
  /\ UNCHANGED <<cooling, slot, since, rearmed>>

GivesUp(t) ==
  /\ At(t, "answer") /\ call'[t].at \in {"claim", "trip"}
  /\ call'[t].wait >= PaceInterval
  /\ At(t, "claim")' => call'[t].wait <= MaxCooldownWait
  /\ UNCHANGED <<cooling, slot, since, rearmed>>

Claims(t) ==
  /\ At(t, "claim") /\ At(t, "grace")' /\ call'[t].wait = call[t].wait
  /\ slot' = [slot EXCEPT ![In(t)] = call[t].wait] /\ Rearms(In(t))
  /\ UNCHANGED <<cooling, since>>

FindsSpent(t) ==
  /\ At(t, "claim") /\ At(t, "trip")' /\ call'[t].wait = call[t].wait
  /\ UNCHANGED <<cooling, slot, since, rearmed>>

Trips(t) ==
  /\ At(t, "trip") /\ ~InCall(t)'
  /\ cooling' = [cooling EXCEPT ![In(t)] = call[t].wait]
  /\ slot' = [slot EXCEPT ![In(t)] = call[t].wait] /\ Rearms(In(t))
  /\ UNCHANGED since

Shape(t) ==
  \/ GoesFree(t) \/ Queues(t) \/ Sends(t) \/ IsAnswered(t) \/ Retries(t) \/ GivesUp(t)
  \/ Claims(t) \/ FindsSpent(t) \/ Trips(t)

OthersKeep(t) ==
  /\ InCall(t) /\ call[t] \in Call /\ In(t) \in Bucket /\ UNCHANGED shared
  /\ \A u \in Thread \ {t} : call'[u] = call[u]
  /\ InCall(t)' => In(t)' = In(t) /\ call'[t] \in Call

LEMMA CooldownLength ==
  ASSUME NEW after \in Header \cup {NoHeader}
  PROVE  Cooldown(after) >= PaceInterval /\ RetrySleep(after) <= MaxRetrySleep
<1>1. after \in Header => after \in Nat BY RateLimitAssumption
<1>2. Cooldown(after) >= PaceInterval
  <2>1. \A n \in Nat : Longer(n, CooldownFloor) >= PaceInterval
    BY RateLimitAssumption DEF Longer
  <2> QED BY <1>1, <2>1 DEF Cooldown
<1>3. RetrySleep(after) <= MaxRetrySleep
  <2>1. \A n \in Nat : Shorter(n, MaxRetrySleep) <= MaxRetrySleep
    BY RateLimitAssumption DEF Shorter
  <2> QED BY <1>1, <2>1, RateLimitAssumption DEF RetrySleep
<1> QED BY <1>2, <1>3

LEMMA ProceedShape ==
  ASSUME TypeOK, NEW t \in Thread, Proceed(t)
  PROVE  Shape(t) /\ OthersKeep(t)
<1>1. InCall(t)
  BY DEF Proceed, Answer, ReserveSendSlot, Send, Lands, Breaks, TooMany, Unwell,
         TryClaimWait, Trip, At, InCall, Asleep
<1>2. call[t] \in Call /\ In(t) \in Bucket BY <1>1, CallTyped
<1>3. /\ UNCHANGED shared
      /\ \A u \in Thread \ {t} : call'[u] = call[u]
  BY DEF Proceed, Answer, ReserveSendSlot, Send, Lands, Breaks, TooMany, Unwell,
         TryClaimWait, Trip, Goes, Ends, TypeOK, history
<1>4. ASSUME NEW place, NEW wait, Goes(t, place, wait)
      PROVE  call'[t].at = place /\ call'[t].wait = wait /\ In(t)' = In(t)
  <2>1. call'[t] = [call[t] EXCEPT !.at = place, !.wait = wait]
    BY <1>4 DEF Goes, TypeOK
  <2> QED BY <1>2, <2>1 DEF Call, In
<1>5. Ends(t) => ~InCall(t)' BY DEF Ends, InCall, NoCall, TypeOK
<1>6. ASSUME In(t)' = In(t) \/ ~InCall(t)' PROVE OthersKeep(t)
  <2>1. InCall(t)' => call'[t] \in Call
    BY NextTypeOK, CallTyped DEF Next, InCall, TypeOK, NoCall
  <2> QED BY <1>1, <1>2, <1>3, <1>6, <2>1 DEF OthersKeep
<1>7. CASE ReserveSendSlot(t)
  <2>1. CASE ~Paced(In(t))
    <3>1. Goes(t, "free", 0) BY <1>7, <2>1 DEF ReserveSendSlot, Paced
    <3>2. GoesFree(t) BY <1>4, <1>7, <2>1, <3>1 DEF GoesFree, ReserveSendSlot, At, Paced, history
    <3> QED BY <1>4, <1>6, <3>1, <3>2 DEF Shape
  <2>2. CASE Paced(In(t))
    <3>1. Goes(t, "pacing", slot[In(t)]) BY <1>7, <2>2 DEF ReserveSendSlot, Paced
    <3>2. slot' = [slot EXCEPT ![In(t)] = slot[In(t)] + PaceInterval]
      BY <1>7, <2>2 DEF ReserveSendSlot, Paced
    <3>3. Queues(t)
      BY <1>4, <1>7, <2>2, <3>1, <3>2 DEF Queues, ReserveSendSlot, At, history
    <3> QED BY <1>4, <1>6, <3>1, <3>3 DEF Shape
  <2> QED BY <2>1, <2>2
<1>8. CASE Send(t)
  <2>1. Goes(t, "answer", 0) BY <1>8 DEF Send
  <2>2. Sends(t) BY <1>4, <1>8, <2>1 DEF Sends, Send, At, registry
  <2> QED BY <1>4, <1>6, <2>1, <2>2 DEF Shape
<1>9. CASE Lands(t) \/ Breaks(t)
  <2>1. IsAnswered(t) BY <1>5, <1>9 DEF IsAnswered, Lands, Breaks, registry
  <2> QED BY <1>6, <2>1 DEF Shape, IsAnswered
<1>10. ASSUME NEW after \in Header \cup {NoHeader}, TooMany(t, after)
       PROVE  Shape(t) /\ OthersKeep(t)
  <2> DEFINE seen == Shorter(call[t].seen429 + 1, MaxRetries429 + 1)
             giveUp == \/ call[t].seen429 + 1 > MaxRetries429
                       \/ after # NoHeader /\ after > MaxRetrySleep
             wait == IF giveUp THEN Cooldown(after) ELSE RetrySleep(after)
  <2>1. PICK place \in {"retry", "claim", "trip"} :
          /\ call' = [call EXCEPT ![t].at = place, ![t].seen429 = seen, ![t].wait = wait]
          /\ place = "retry" <=> ~giveUp
          /\ place = "claim" => Cooldown(after) <= MaxCooldownWait
    BY <1>10 DEF TooMany
  <2>2. call'[t] = [call[t] EXCEPT !.at = place, !.seen429 = seen, !.wait = wait]
    BY <2>1 DEF TypeOK
  <2> HIDE DEF seen
  <2>3. call'[t].at = place /\ call'[t].wait = wait /\ In(t)' = In(t)
    BY <1>2, <2>2 DEF Call, In
  <2>4. At(t, "answer") /\ UNCHANGED <<cooling, slot, since, rearmed>>
    BY <1>10 DEF TooMany, registry
  <2>5. CASE place = "retry"
    <3>1. Retries(t) BY <2>1, <2>3, <2>4, <2>5, CooldownLength DEF Retries, At
    <3> QED BY <1>6, <2>3, <3>1 DEF Shape
  <2>6. CASE place \in {"claim", "trip"}
    <3>1. wait = Cooldown(after) BY <2>1, <2>6
    <3>2. GivesUp(t) BY <2>1, <2>3, <2>4, <2>6, <3>1, CooldownLength DEF GivesUp, At
    <3> QED BY <1>6, <2>3, <3>2 DEF Shape
  <2> QED BY <2>5, <2>6
<1>11. ASSUME NEW after \in Header \cup {NoHeader}, Unwell(t, after)
       PROVE  Shape(t) /\ OthersKeep(t)
  <2>1. CASE call[t].seen5xx < MaxRetries5xx
    <3>1. call' = [call EXCEPT ![t].at = "retry", ![t].seen5xx = call[t].seen5xx + 1,
                               ![t].wait = RetrySleep(after)]
      BY <1>2, <1>11, <2>1 DEF Unwell, Call
    <3>2. call'[t] = [call[t] EXCEPT !.at = "retry", !.seen5xx = call[t].seen5xx + 1,
                                     !.wait = RetrySleep(after)]
      BY <3>1 DEF TypeOK
    <3>3. call'[t].at = "retry" /\ call'[t].wait = RetrySleep(after) /\ In(t)' = In(t)
      BY <1>2, <3>2 DEF Call, In
    <3>4. Retries(t) BY <1>11, <3>3, CooldownLength DEF Retries, Unwell, At
    <3> QED BY <1>6, <3>3, <3>4 DEF Shape
  <2>2. CASE ~(call[t].seen5xx < MaxRetries5xx)
    <3>1. IsAnswered(t) BY <1>5, <1>11, <2>2 DEF IsAnswered, Unwell
    <3> QED BY <1>6, <3>1 DEF Shape, IsAnswered
  <2> QED BY <2>1, <2>2
<1>12. CASE TryClaimWait(t)
  <2>1. CASE In(t) \notin spent
    <3>1. Goes(t, "grace", call[t].wait) BY <1>12, <2>1 DEF TryClaimWait
    <3>2. Claims(t) BY <1>4, <1>12, <2>1, <3>1 DEF Claims, TryClaimWait, At
    <3> QED BY <1>4, <1>6, <3>1, <3>2 DEF Shape
  <2>2. CASE In(t) \in spent
    <3>1. Goes(t, "trip", call[t].wait) BY <1>12, <2>2 DEF TryClaimWait
    <3>2. FindsSpent(t) BY <1>4, <1>12, <2>2, <3>1 DEF FindsSpent, TryClaimWait, At
    <3> QED BY <1>4, <1>6, <3>1, <3>2 DEF Shape
  <2> QED BY <2>1, <2>2
<1>13. CASE Trip(t)
  <2>1. Trips(t) BY <1>5, <1>13 DEF Trips, Trip
  <2> QED BY <1>6, <2>1 DEF Shape, Trips
<1> QED BY <1>7, <1>8, <1>9, <1>10, <1>11, <1>12, <1>13 DEF Proceed, Answer

-----------------------------------------------------------------------------
(* While the calls of a bucket come one after the other, the next slot is  *)
(* an interval away at most, but for what is left of a cooldown or of the  *)
(* sleep of the call that reserved it.                                     *)

Within(b, n) == Paced(b) => slot[b] <= n

WaitOK(t) ==
  /\ call[t].at \in {"slot", "free", "answer", "retry"} => Within(In(t), PaceInterval)
  /\ call[t].at \in {"pacing", "grace"} => Within(In(t), call[t].wait + PaceInterval)
  /\ At(t, "pacing") => call[t].wait <= PaceInterval
  /\ At(t, "retry") => call[t].wait <= MaxRetrySleep
  /\ call[t].at \in {"claim", "grace"} => call[t].wait <= MaxCooldownWait

NextSlot(b) == Serial(b) /\ Empty(b) => Within(b, Longer(cooling[b], PaceInterval))

WaitInv ==
  /\ \A t \in Thread : InCall(t) /\ Serial(In(t)) => WaitOK(t)
  /\ \A b \in Bucket : NextSlot(b)

\* A call alone in its bucket leaves every other call's sleep as it was.
LEMMA ProceedWaits ==
  ASSUME TypeOK, SerialInv, WaitInv, NEW t \in Thread, Proceed(t)
  PROVE  WaitInv'
<1> USE RateLimitAssumption
<1>1. Shape(t) /\ OthersKeep(t) BY ProceedShape
<1>2. \A b : Serial(b)' <=> Serial(b) BY <1>1 DEF OthersKeep, Serial
<1>3. \A u \in Thread \ {t} : (InCall(u)' <=> InCall(u)) /\ In(u)' = In(u)
  BY <1>1 DEF OthersKeep, InCall, In
<1>4. ASSUME NEW b \in Bucket, b # In(t)
      PROVE  cooling'[b] = cooling[b] /\ slot'[b] = slot[b]
  BY <1>1, <1>4 DEF Shape, GoesFree, Queues, Sends, IsAnswered, Retries, GivesUp, Claims,
                    FindsSpent, Trips, TypeOK
<1>5. In(t) \in Bucket /\ InCall(t) /\ (InCall(t)' => In(t)' = In(t))
  BY <1>1 DEF OthersKeep
<1>6. call[t].wait \in Nat /\ (Paced(In(t)) => slot[In(t)] \in Nat)
  BY <1>1 DEF OthersKeep, Call, TypeOK, Paced
<1>7. InCall(t)' => call'[t].wait \in Nat BY <1>1 DEF OthersKeep, Call
<1>8. Serial(In(t)) => WaitOK(t) /\ cooling[In(t)] = 0
  BY <1>5 DEF WaitInv, SerialInv, CallInv
<1>9. ASSUME InCall(t)', Serial(In(t)) PROVE WaitOK(t)'
  <2>1. WaitOK(t) /\ In(t)' = In(t) BY <1>5, <1>8, <1>9
  <2>2. CASE GoesFree(t)
    BY <2>1, <2>2 DEF GoesFree, WaitOK, Within, Paced, At
  <2>3. CASE Queues(t)
    <3>1. slot'[In(t)] = call'[t].wait + PaceInterval /\ call'[t].wait <= PaceInterval
      BY <1>5, <2>1, <2>3 DEF Queues, WaitOK, Within, At, TypeOK
    <3> QED BY <1>6, <2>1, <2>3, <3>1 DEF Queues, WaitOK, Within, At, Paced
  <2>4. CASE Sends(t)
    <3>1. slot' = slot /\ call'[t].at = "answer" BY <2>4 DEF Sends, At
    <3>2. Within(In(t), PaceInterval)
      BY <1>6, <2>1, <2>4 DEF Sends, WaitOK, Within, Asleep
    <3> QED BY <2>1, <3>1, <3>2 DEF WaitOK, Within, At, Paced
  <2>5. CASE IsAnswered(t) BY <1>9, <2>5 DEF IsAnswered
  <2>6. CASE Retries(t)
    BY <2>1, <2>6 DEF Retries, WaitOK, Within, Paced, At
  <2>7. CASE GivesUp(t)
    BY <2>1, <2>7 DEF GivesUp, WaitOK, Within, Paced, At
  <2>8. CASE Claims(t)
    <3>1. slot'[In(t)] = call'[t].wait BY <1>5, <2>8 DEF Claims, TypeOK
    <3> QED BY <1>6, <2>1, <2>8, <3>1 DEF Claims, WaitOK, Within, Paced, At
  <2>9. CASE FindsSpent(t)
    BY <2>9 DEF FindsSpent, WaitOK, At
  <2>10. CASE Trips(t) BY <1>9, <2>10 DEF Trips
  <2> QED BY <1>1, <2>2, <2>3, <2>4, <2>5, <2>6, <2>7, <2>8, <2>9, <2>10 DEF Shape
<1>10. ASSUME NEW u \in Thread, InCall(u)', Serial(In(u))' PROVE WaitOK(u)'
  <2>1. CASE u = t
    BY <1>2, <1>5, <1>9, <1>10, <2>1 DEF Serial
  <2>2. CASE u # t
    <3>1. InCall(u) /\ In(u)' = In(u) /\ call'[u] = call[u]
      BY <1>1, <1>3, <1>10, <2>2 DEF OthersKeep
    <3>2. Serial(In(u)) BY <1>2, <1>10, <3>1 DEF Serial
    <3>3. In(u) \in Bucket /\ In(u) # In(t)
      BY <1>5, <2>2, <3>1, <3>2, CallTyped DEF SerialInv, Alone
    <3>4. WaitOK(u) /\ slot'[In(u)] = slot[In(u)] BY <1>4, <3>1, <3>2, <3>3 DEF WaitInv
    <3> QED BY <3>1, <3>4 DEF WaitOK, Within, Paced, At
  <2> QED BY <2>1, <2>2
<1>11. ASSUME NEW b \in Bucket, Serial(b)', Empty(b)'
       PROVE  Within(b, Longer(cooling[b], PaceInterval))'
  <2>1. CASE b = In(t)
    <3>1. ~InCall(t)' /\ Serial(In(t)) BY <1>2, <1>5, <1>11, <2>1 DEF Empty
    <3>2. IsAnswered(t) \/ Trips(t)
      BY <1>1, <3>1 DEF Shape, GoesFree, Queues, Sends, Retries, GivesUp, Claims,
                        FindsSpent, At, InCall
    <3>3. CASE IsAnswered(t)
      <4>1. slot' = slot /\ cooling' = cooling /\ Within(b, PaceInterval)
        BY <1>8, <2>1, <3>1, <3>3 DEF IsAnswered, WaitOK, At
      <4> QED BY <1>8, <2>1, <3>1, <4>1 DEF Within, Paced, Longer
    <3>4. CASE Trips(t)
      <4>1. slot'[b] = call[t].wait /\ cooling'[b] = call[t].wait
        BY <2>1, <3>4 DEF Trips, TypeOK
      <4> QED BY <1>6, <4>1 DEF Within, Longer
    <3> QED BY <3>2, <3>3, <3>4
  <2>2. CASE b # In(t)
    <3>1. Empty(b) BY <1>3, <1>5, <1>11, <2>2 DEF Empty
    <3>2. Within(b, Longer(cooling[b], PaceInterval))
      BY <1>2, <1>11, <3>1 DEF WaitInv, NextSlot
    <3> QED BY <1>4, <2>2, <3>2 DEF Within, Paced
  <2> QED BY <2>1, <2>2
<1> QED BY <1>10, <1>11 DEF WaitInv, NextSlot

LEMMA BeginWaits ==
  ASSUME TypeOK, SerialInv, WaitInv, NEW t \in Thread, NEW b \in Bucket,
         NEW retried \in BOOLEAN, Begin(t, b, retried)
  PROVE  WaitInv'
<1> USE RateLimitAssumption
<1>1. ~InCall(t) /\ cooling[b] = 0 /\ UNCHANGED <<cooling, slot>>
  BY DEF Begin, registry
<1>2. call'[t].at = "slot" /\ InCall(t)' /\ In(t)' = b
  BY DEF Begin, TypeOK, InCall, In
<1>3. \A u \in Thread \ {t} : (InCall(u)' <=> InCall(u)) /\ In(u)' = In(u) /\ call'[u] = call[u]
  BY DEF Begin, TypeOK, InCall, In
<1>4. \A c : Serial(c)' => Serial(c) BY DEF Begin, Serial
<1>5. Serial(b)' => Empty(b) BY DEF Begin, Serial, Empty
<1>6. ASSUME NEW u \in Thread, InCall(u)', Serial(In(u))' PROVE WaitOK(u)'
  <2>1. CASE u = t
    <3>1. Serial(b) /\ Empty(b) BY <1>2, <1>4, <1>5, <1>6, <2>1 DEF Serial
    <3>2. Within(b, Longer(cooling[b], PaceInterval)) BY <3>1 DEF WaitInv, NextSlot
    <3>3. Within(b, PaceInterval) BY <1>1, <3>2 DEF Within, Longer
    <3> QED BY <1>1, <1>2, <2>1, <3>3 DEF WaitOK, Within, Paced, At
  <2>2. CASE u # t
    <3>1. InCall(u) /\ In(u)' = In(u) /\ call'[u] = call[u] BY <1>3, <1>6, <2>2
    <3>2. Serial(In(u)) BY <1>4, <1>6, <3>1 DEF Serial
    <3>3. WaitOK(u) BY <3>1, <3>2 DEF WaitInv
    <3> QED BY <1>1, <3>1, <3>3 DEF WaitOK, Within, Paced, At
  <2> QED BY <2>1, <2>2
<1>7. ASSUME NEW c \in Bucket, Serial(c)', Empty(c)'
      PROVE  Within(c, Longer(cooling[c], PaceInterval))'
  <2>1. Empty(c) BY <1>1, <1>3, <1>7 DEF Empty
  <2>2. Within(c, Longer(cooling[c], PaceInterval))
    BY <1>4, <1>7, <2>1 DEF WaitInv, NextSlot
  <2> QED BY <1>1, <2>2 DEF Within, Paced
<1> QED BY <1>6, <1>7 DEF WaitInv, NextSlot

\* What the clock does: it takes a unit off a sleep, which has one left.
LEMMA TickCall ==
  ASSUME TypeOK, Tick, NEW t \in Thread
  PROVE  /\ call'[t].at = call[t].at /\ (InCall(t)' <=> InCall(t))
         /\ InCall(t) => In(t)' = In(t)
         /\ call[t].at \in Asleep =>
              call[t].wait \in Nat \ {0} /\ call'[t].wait = call[t].wait - 1
         /\ call[t].at \notin Asleep => call'[t] = call[t]
         /\ call[t].at \notin {"slot", "free", "claim", "trip"}
<1>1. CASE call[t].at \in Asleep
  <2>1. call[t] \in Call /\ InCall(t) BY <1>1, CallTyped DEF InCall, Asleep
  <2>2. call[t].wait \in Nat \ {0} BY <1>1, <2>1 DEF Tick, Due, Call
  <2>3. call'[t] = [call[t] EXCEPT !.wait = Less(call[t].wait)] BY <1>1 DEF Tick
  <2>4. Less(call[t].wait) = call[t].wait - 1 BY <2>2 DEF Less
  <2> QED BY <1>1, <2>1, <2>2, <2>3, <2>4 DEF Call, InCall, In, Asleep
<1>2. CASE call[t].at \notin Asleep BY <1>2 DEF Tick, Due, InCall, In
<1> QED BY <1>1, <1>2

LEMMA TickSlot ==
  ASSUME TypeOK, Tick, NEW b \in Bucket
  PROVE  /\ Paced(b)' <=> Paced(b)
         /\ Paced(b) => slot[b] \in Nat /\ slot'[b] = Less(slot[b])
         /\ cooling'[b] = Less(cooling[b])
         /\ since[b] \in Nat /\ since'[b] = Shorter(since[b] + 1, PaceInterval)
<1>1. Paced(b) => slot[b] \in Nat /\ slot'[b] = Less(slot[b]) /\ Less(slot[b]) \in Nat
  BY LessType DEF Tick, TypeOK, Paced
<1>2. ~Paced(b) => slot'[b] = Unpaced BY DEF Tick, Paced
<1>3. Paced(b)' <=> Paced(b) BY <1>1, <1>2, RateLimitAssumption DEF Paced
<1>4. since[b] \in Nat BY RateLimitAssumption DEF TypeOK
<1> QED BY <1>1, <1>3, <1>4 DEF Tick

LEMMA TickWaits ==
  ASSUME TypeOK, SerialInv, WaitInv, Tick
  PROVE  WaitInv'
<1> USE RateLimitAssumption
<1>1. \A b : Serial(b)' <=> Serial(b) BY DEF Tick, Serial
<1>2. ASSUME NEW t \in Thread, InCall(t)', Serial(In(t))' PROVE WaitOK(t)'
  <2>1. InCall(t) /\ In(t)' = In(t) /\ Serial(In(t)) /\ In(t) \in Bucket
    BY <1>1, <1>2, TickCall, CallTyped DEF Serial
  <2>2. WaitOK(t) BY <2>1 DEF WaitInv
  <2>3. CASE call[t].at \in Asleep
    <3>1. /\ call'[t].at = call[t].at /\ call[t].wait \in Nat \ {0}
          /\ call'[t].wait = call[t].wait - 1
      BY <2>3, TickCall
    <3>2. /\ Paced(In(t))' <=> Paced(In(t))
          /\ Paced(In(t)) => slot[In(t)] \in Nat /\ slot'[In(t)] = Less(slot[In(t)])
      BY <2>1, TickSlot
    <3>3. \A n \in Nat : Less(n) <= n /\ (n > 0 => Less(n) = n - 1) /\ (n = 0 => Less(n) = 0)
      BY DEF Less
    <3>4. Within(In(t), PaceInterval) => Within(In(t), PaceInterval)'
      BY <2>1, <3>2, <3>3 DEF Within, Paced
    <3>5. Within(In(t), call[t].wait + PaceInterval) =>
            Within(In(t), call[t].wait + PaceInterval)'
      BY <2>1, <3>1, <3>2, <3>3 DEF Within, Paced
    <3> QED BY <2>1, <2>2, <3>1, <3>4, <3>5 DEF WaitOK, At
  <2>4. CASE call[t].at \notin Asleep
    <3>1. call'[t] = call[t] /\ call[t].at \notin {"slot", "free", "claim", "trip"}
      BY <2>4, TickCall
    <3>2. Within(In(t), PaceInterval) => Within(In(t), PaceInterval)'
      BY <2>1, TickSlot, LessType DEF Within, Paced
    <3> QED BY <2>1, <2>2, <2>4, <3>1, <3>2 DEF WaitOK, At, Asleep
  <2> QED BY <2>3, <2>4
<1>3. ASSUME NEW b \in Bucket, Serial(b)', Empty(b)'
      PROVE  Within(b, Longer(cooling[b], PaceInterval))'
  <2>1. Serial(b) /\ Empty(b) BY <1>1, <1>3, TickCall DEF Empty
  <2>2. Within(b, Longer(cooling[b], PaceInterval)) BY <2>1 DEF WaitInv, NextSlot
  <2>3. cooling[b] \in Nat BY DEF TypeOK
  <2>4. \A m, n \in Nat :
          m <= Longer(n, PaceInterval) => Less(m) <= Longer(Less(n), PaceInterval)
    BY DEF Longer, Less
  <2> QED BY <2>2, <2>3, <2>4, TickSlot DEF Within, Paced
<1> QED BY <1>2, <1>3 DEF WaitInv, NextSlot

LEMMA NextWaits == TypeOK /\ SerialInv /\ WaitInv /\ [Next]_vars => WaitInv'
<1> SUFFICES ASSUME TypeOK, SerialInv, WaitInv, [Next]_vars PROVE WaitInv'
  OBVIOUS
<1>1. CASE UNCHANGED vars
  <2>1. UNCHANGED <<cooling, slot, call, shared>> BY <1>1 DEF vars
  <2> QED BY <2>1 DEF WaitInv, NextSlot, WaitOK, Within, Paced, Serial, Empty, InCall, In, At
<1> QED BY <1>1, ProceedWaits, BeginWaits, TickWaits DEF Next

\* While the calls of a bucket come one after the other none of them sleeps
\* longer than the longest cooldown a run may be blocked for, whether it
\* retries, waits a cooldown out or queues for a slot (http.py:66).
THEOREM SleepsAreBounded == Spec => []BoundedSleep
<1>1. Init => WaitInv
  BY DEF Init, WaitInv, NextSlot, Within, Paced, InCall, NoCall
<1>2. TypeOK /\ WaitInv => BoundedSleep
  <2> SUFFICES ASSUME TypeOK, WaitInv, NEW t \in Thread,
                      InCall(t), Serial(In(t)), call[t].at \in Asleep
               PROVE  call[t].wait <= MaxCooldownWait
    BY DEF BoundedSleep
  <2>1. WaitOK(t) /\ call[t].wait \in Nat BY CallTyped DEF WaitInv, Call
  <2> QED BY <2>1, RateLimitAssumption DEF WaitOK, At, Asleep
<1> QED BY <1>1, <1>2, NextWaits, AlwaysSerial, PTL DEF Spec

-----------------------------------------------------------------------------
(* Slots, however many calls sleep for one: as long as no claim or trip    *)
(* has set the next slot anew under them, the sleeps of a bucket's calls   *)
(* are an interval apart, the last is an interval before the next slot,    *)
(* and the first is an interval after the slot used last.                  *)

Pacing(t) == At(t, "pacing") /\ In(t) \notin rearmed

Apart(m, n) == m >= n + PaceInterval \/ n >= m + PaceInterval

PacedOK(b) == Paced(b) => since[b] + slot[b] >= PaceInterval

PacingOK(t) ==
  /\ Paced(In(t)) /\ slot[In(t)] >= call[t].wait + PaceInterval
  /\ since[In(t)] + call[t].wait >= PaceInterval

PaceInv ==
  /\ \A t \in Thread : call[t].at \in {"claim", "trip"} => call[t].wait >= PaceInterval
  /\ \A b \in Bucket \ rearmed : PacedOK(b)
  /\ \A t \in Thread : Pacing(t) => PacingOK(t)
  /\ \A t, u \in Thread :
       Pacing(t) /\ Pacing(u) /\ t # u /\ In(t) = In(u) =>
         Apart(call[t].wait, call[u].wait)

LEMMA PacingTyped ==
  ASSUME TypeOK, NEW t \in Thread, Pacing(t)
  PROVE  /\ InCall(t) /\ In(t) \in Bucket \ rearmed /\ call[t].wait \in Nat
         /\ since[In(t)] \in Nat
         /\ Paced(In(t)) => slot[In(t)] \in Nat
<1>1. InCall(t) /\ call[t] \in Call /\ In(t) \in Bucket
  BY CallTyped DEF Pacing, At, InCall
<1> QED BY <1>1, RateLimitAssumption DEF Pacing, Call, TypeOK, Paced

\* A call that neither joins nor leaves those that sleep for a slot, nor sets
\* the next one anew.
LEMMA PaceKept ==
  ASSUME TypeOK, PaceInv, NEW t \in Thread, OthersKeep(t),
         UNCHANGED <<slot, since, rearmed>>,
         ~At(t, "pacing")', call'[t].at \in {"claim", "trip"} => call'[t].wait >= PaceInterval
  PROVE  PaceInv'
<1>1. \A u \in Thread : Pacing(u)' => u # t /\ Pacing(u) /\ call'[u] = call[u] /\ In(u)' = In(u)
  BY DEF OthersKeep, Pacing, At, In
<1>2. ASSUME NEW u \in Thread, Pacing(u)' PROVE PacingOK(u)'
  <2>1. PacingOK(u) BY <1>1, <1>2 DEF PaceInv
  <2> QED BY <1>1, <1>2, <2>1 DEF PacingOK, Paced
<1>3. ASSUME NEW u \in Thread, NEW v \in Thread, Pacing(u)', Pacing(v)', u # v, In(u)' = In(v)'
      PROVE  Apart(call[u].wait, call[v].wait)'
  <2>1. Apart(call[u].wait, call[v].wait) BY <1>1, <1>3 DEF PaceInv
  <2> QED BY <1>1, <1>3, <2>1 DEF Apart
<1>4. \A u \in Thread : call'[u].at \in {"claim", "trip"} => call'[u].wait >= PaceInterval
  BY DEF OthersKeep, PaceInv
<1>5. \A b \in Bucket \ rearmed' : PacedOK(b)' BY DEF PaceInv, PacedOK, Paced
<1> QED BY <1>2, <1>3, <1>4, <1>5 DEF PaceInv

\* reserve_send_slot puts its caller behind everyone who sleeps already.
LEMMA QueuesPace ==
  ASSUME TypeOK, PaceInv, NEW t \in Thread, OthersKeep(t), Queues(t)
  PROVE  PaceInv'
<1> USE RateLimitAssumption
<1> DEFINE b == In(t)
<1>1. /\ b \in Bucket /\ In(t)' = b /\ slot[b] \in Nat /\ call'[t].wait = slot[b]
      /\ slot'[b] = slot[b] + PaceInterval /\ Paced(b) /\ Paced(b)'
      /\ since[b] \in Nat
      /\ At(t, "slot") /\ At(t, "pacing")' /\ UNCHANGED <<since, rearmed>>
  <2>1. b \in Bucket /\ InCall(t)' BY DEF OthersKeep, Queues, InCall, At
  <2>2. slot[b] \in Nat /\ since[b] \in Nat BY <2>1 DEF TypeOK, Queues, Paced
  <2>3. slot'[b] = slot[b] + PaceInterval BY <2>1 DEF TypeOK, Queues
  <2>4. slot'[b] \in Nat BY <2>2, <2>3
  <2> QED BY <2>1, <2>2, <2>3, <2>4 DEF Queues, OthersKeep, Paced
<1>2. \A c \in Bucket \ {b} : slot'[c] = slot[c] BY <1>1 DEF Queues, TypeOK
<1>3. \A u \in Thread \ {t} :
        Pacing(u)' => Pacing(u) /\ call'[u] = call[u] /\ In(u)' = In(u)
  BY <1>1 DEF OthersKeep, Pacing, At, In
<1>4. ASSUME NEW u \in Thread, Pacing(u)' PROVE PacingOK(u)'
  <2>1. CASE u = t
    <3>1. since[b] + slot[b] >= PaceInterval
      BY <1>1, <1>4, <2>1 DEF PaceInv, PacedOK, Pacing
    <3> QED BY <1>1, <2>1, <3>1 DEF PacingOK
  <2>2. CASE u # t
    <3>1. PacingOK(u) /\ In(u)' = In(u) /\ call'[u] = call[u] /\ Pacing(u)
      BY <1>3, <1>4, <2>2 DEF PaceInv
    <3>2. slot'[In(u)] >= slot[In(u)] /\ Paced(In(u))' /\ slot'[In(u)] \in Nat
      BY <1>1, <1>2, <3>1, PacingTyped DEF PacingOK, Paced
    <3> QED BY <1>1, <3>1, <3>2, PacingTyped DEF PacingOK
  <2> QED BY <2>1, <2>2
<1>5. ASSUME NEW u \in Thread \ {t}, Pacing(u)', In(u)' = b
      PROVE  Apart(call[t].wait, call[u].wait)' /\ Apart(call[u].wait, call[t].wait)'
  <2>1. PacingOK(u) /\ In(u) = b /\ call'[u] = call[u] BY <1>3, <1>5 DEF PaceInv
  <2> QED BY <1>1, <2>1 DEF PacingOK, Apart
<1>6. ASSUME NEW u \in Thread, NEW v \in Thread, Pacing(u)', Pacing(v)', u # v, In(u)' = In(v)'
      PROVE  Apart(call[u].wait, call[v].wait)'
  <2>1. CASE u = t \/ v = t BY <1>1, <1>5, <1>6, <2>1
  <2>2. CASE u # t /\ v # t
    <3>1. Apart(call[u].wait, call[v].wait) BY <1>3, <1>6, <2>2 DEF PaceInv
    <3> QED BY <1>3, <1>6, <2>2, <3>1 DEF Apart
  <2> QED BY <2>1, <2>2
<1>7. \A u \in Thread : call'[u].at \in {"claim", "trip"} => call'[u].wait >= PaceInterval
  BY <1>1 DEF OthersKeep, PaceInv, At
<1>8. ASSUME NEW c \in Bucket \ rearmed' PROVE PacedOK(c)'
  <2>1. PacedOK(c) BY <1>1, <1>8 DEF PaceInv
  <2>2. CASE c = b BY <1>1, <2>1, <2>2 DEF PacedOK
  <2>3. CASE c # b BY <1>1, <1>2, <2>1, <2>3 DEF PacedOK, Paced
  <2> QED BY <2>2, <2>3
<1> QED BY <1>4, <1>6, <1>7, <1>8 DEF PaceInv

\* A call whose slot has come leaves everyone else an interval to wait.
LEMMA PacedSendPace ==
  ASSUME TypeOK, PaceInv, NEW t \in Thread, OthersKeep(t), Sends(t), At(t, "pacing")
  PROVE  PaceInv'
<1> USE RateLimitAssumption
<1> DEFINE b == In(t)
<1>1. /\ b \in Bucket /\ call[t].wait = 0 /\ At(t, "answer")'
      /\ since' = [since EXCEPT ![b] = 0] /\ UNCHANGED <<slot, rearmed>>
  BY DEF OthersKeep, Sends
<1>2. since'[b] = 0 /\ \A c \in Bucket \ {b} : since'[c] = since[c]
  BY <1>1 DEF TypeOK
<1>3. \A u \in Thread :
        Pacing(u)' => u # t /\ Pacing(u) /\ call'[u] = call[u] /\ In(u)' = In(u)
  BY <1>1 DEF OthersKeep, Pacing, At, In
<1>4. b \notin rearmed => slot[b] \in Nat /\ slot[b] >= PaceInterval /\ Pacing(t)
  BY <1>1, PacingTyped DEF PaceInv, PacingOK, Pacing
<1>5. ASSUME NEW u \in Thread, Pacing(u)' PROVE PacingOK(u)'
  <2>1. PacingOK(u) /\ In(u)' = In(u) /\ call'[u] = call[u] /\ Pacing(u) /\ u # t
    BY <1>3, <1>5 DEF PaceInv
  <2>2. CASE In(u) = b
    <3>1. Pacing(t) BY <1>4, <2>1, <2>2 DEF Pacing
    <3>2. Apart(call[u].wait, 0) BY <1>1, <2>1, <2>2, <3>1 DEF PaceInv
    <3>3. call[u].wait >= PaceInterval
      BY <2>1, <3>2, PacingTyped DEF Apart
    <3> QED BY <1>1, <1>2, <2>1, <2>2, <3>3, PacingTyped DEF PacingOK, Paced
  <2>3. CASE In(u) # b
    <3>1. since'[In(u)] = since[In(u)] BY <1>2, <2>1, <2>3, PacingTyped
    <3> QED BY <1>1, <2>1, <3>1 DEF PacingOK, Paced
  <2> QED BY <2>2, <2>3
<1>6. ASSUME NEW u \in Thread, NEW v \in Thread, Pacing(u)', Pacing(v)', u # v, In(u)' = In(v)'
      PROVE  Apart(call[u].wait, call[v].wait)'
  <2>1. Apart(call[u].wait, call[v].wait) BY <1>3, <1>6 DEF PaceInv
  <2> QED BY <1>3, <1>6, <2>1 DEF Apart
<1>7. \A u \in Thread : call'[u].at \in {"claim", "trip"} => call'[u].wait >= PaceInterval
  BY <1>1 DEF OthersKeep, PaceInv, At
<1>8. ASSUME NEW c \in Bucket \ rearmed' PROVE PacedOK(c)'
  <2>1. PacedOK(c) BY <1>1, <1>8 DEF PaceInv
  <2>2. CASE c = b BY <1>1, <1>2, <1>4, <1>8, <2>2 DEF PacedOK
  <2>3. CASE c # b BY <1>1, <1>2, <2>1, <2>3 DEF PacedOK, Paced
  <2> QED BY <2>2, <2>3
<1> QED BY <1>5, <1>6, <1>7, <1>8 DEF PaceInv

\* A claim or a trip sets the next slot of a bucket nobody sleeps in, or the
\* bucket is excused from then on.
LEMMA RearmPace ==
  ASSUME TypeOK, PaceInv, NEW t \in Thread, OthersKeep(t), Claims(t) \/ Trips(t)
  PROVE  PaceInv'
<1> USE RateLimitAssumption
<1> DEFINE b == In(t)
<1>1. /\ b \in Bucket /\ slot' = [slot EXCEPT ![b] = call[t].wait] /\ since' = since
      /\ Rearms(b) /\ call[t].at \in {"claim", "trip"} /\ call[t].wait \in Nat
      /\ call'[t].at \notin {"pacing", "claim", "trip"}
  BY DEF OthersKeep, Claims, Trips, At, InCall, Call
<1>2. /\ slot'[b] = call[t].wait /\ call[t].wait >= PaceInterval
      /\ \A c \in Bucket \ {b} : slot'[c] = slot[c]
  BY <1>1 DEF TypeOK, PaceInv
<1>3. rearmed \subseteq rearmed' BY <1>1 DEF Rearms
<1>4. \A u \in Thread :
        Pacing(u)' => u # t /\ Pacing(u) /\ call'[u] = call[u] /\ In(u)' = In(u) /\ In(u) # b
  BY <1>1, <1>3 DEF OthersKeep, Pacing, At, In, Rearms
<1>5. ASSUME NEW u \in Thread, Pacing(u)' PROVE PacingOK(u)'
  <2>1. PacingOK(u) /\ In(u)' = In(u) /\ call'[u] = call[u] /\ Pacing(u)
    BY <1>4, <1>5 DEF PaceInv
  <2>2. slot'[In(u)] = slot[In(u)] BY <1>2, <1>4, <1>5, <2>1, PacingTyped
  <2> QED BY <1>1, <2>1, <2>2 DEF PacingOK, Paced
<1>6. ASSUME NEW u \in Thread, NEW v \in Thread, Pacing(u)', Pacing(v)', u # v, In(u)' = In(v)'
      PROVE  Apart(call[u].wait, call[v].wait)'
  <2>1. Apart(call[u].wait, call[v].wait) BY <1>4, <1>6 DEF PaceInv
  <2> QED BY <1>4, <1>6, <2>1 DEF Apart
<1>7. \A u \in Thread : call'[u].at \in {"claim", "trip"} => call'[u].wait >= PaceInterval
  BY <1>1 DEF OthersKeep, PaceInv
<1>8. ASSUME NEW c \in Bucket \ rearmed' PROVE PacedOK(c)'
  <2>1. CASE c = b
    <3>1. since[b] \in Nat BY <1>1 DEF TypeOK
    <3> QED BY <1>1, <1>2, <2>1, <3>1 DEF PacedOK
  <2>2. CASE c # b
    <3>1. PacedOK(c) BY <1>3, <1>8 DEF PaceInv
    <3> QED BY <1>1, <1>2, <2>2, <3>1 DEF PacedOK, Paced
  <2> QED BY <2>1, <2>2
<1> QED BY <1>5, <1>6, <1>7, <1>8 DEF PaceInv

LEMMA ProceedPace ==
  ASSUME TypeOK, PaceInv, NEW t \in Thread, Proceed(t)
  PROVE  PaceInv'
<1>1. Shape(t) /\ OthersKeep(t) BY ProceedShape
<1>2. CASE GoesFree(t) \/ IsAnswered(t) \/ Retries(t)
  BY <1>1, <1>2, PaceKept DEF GoesFree, IsAnswered, Retries, At, InCall
<1>3. CASE GivesUp(t) BY <1>1, <1>3, PaceKept DEF GivesUp, At
<1>4. CASE FindsSpent(t)
  BY <1>1, <1>4, PaceKept DEF FindsSpent, At, PaceInv
<1>5. CASE Sends(t) /\ ~At(t, "pacing")
  BY <1>1, <1>5, PaceKept DEF Sends, At
<1> QED
  BY <1>1, <1>2, <1>3, <1>4, <1>5, QueuesPace, PacedSendPace, RearmPace DEF Shape

LEMMA BeginPace ==
  ASSUME TypeOK, PaceInv, NEW t \in Thread, NEW b \in Bucket,
         NEW retried \in BOOLEAN, Begin(t, b, retried)
  PROVE  PaceInv'
<1>1. /\ call'[t].at = "slot" /\ \A u \in Thread \ {t} : call'[u] = call[u]
      /\ UNCHANGED <<slot, since, rearmed>>
  BY DEF Begin, TypeOK, registry
<1>2. \A u \in Thread :
        Pacing(u)' => Pacing(u) /\ call'[u] = call[u] /\ In(u)' = In(u)
  BY <1>1 DEF Pacing, At, In
<1>3. ASSUME NEW u \in Thread, Pacing(u)' PROVE PacingOK(u)'
  <2>1. PacingOK(u) BY <1>2, <1>3 DEF PaceInv
  <2> QED BY <1>1, <1>2, <1>3, <2>1 DEF PacingOK, Paced
<1>4. ASSUME NEW u \in Thread, NEW v \in Thread, Pacing(u)', Pacing(v)', u # v, In(u)' = In(v)'
      PROVE  Apart(call[u].wait, call[v].wait)'
  <2>1. Apart(call[u].wait, call[v].wait) BY <1>2, <1>4 DEF PaceInv
  <2> QED BY <1>2, <1>4, <2>1 DEF Apart
<1>5. \A u \in Thread : call'[u].at \in {"claim", "trip"} => call'[u].wait >= PaceInterval
  BY <1>1 DEF PaceInv
<1>6. \A c \in Bucket \ rearmed' : PacedOK(c)' BY <1>1 DEF PaceInv, PacedOK, Paced
<1> QED BY <1>3, <1>4, <1>5, <1>6 DEF PaceInv

\* The clock takes the same off every sleep, as they all have some left.
LEMMA TickPace ==
  ASSUME TypeOK, PaceInv, Tick
  PROVE  PaceInv'
<1> USE RateLimitAssumption
<1>1. rearmed' = rearmed BY DEF Tick
<1>2. ASSUME NEW u \in Thread, Pacing(u)'
      PROVE  /\ Pacing(u) /\ In(u)' = In(u) /\ In(u) \in Bucket
             /\ call[u].wait \in Nat \ {0} /\ call'[u].wait = call[u].wait - 1
  <2>1. At(u, "pacing") BY <1>2, TickCall DEF Pacing, At
  <2>2. InCall(u) /\ In(u)' = In(u) BY <2>1, TickCall DEF At, InCall
  <2>3. Pacing(u) BY <1>1, <1>2, <2>1, <2>2 DEF Pacing
  <2> QED BY <2>1, <2>2, <2>3, TickCall, PacingTyped DEF At, Asleep
<1>3. ASSUME NEW b \in Bucket \ rearmed PROVE PacedOK(b)'
  <2>1. PacedOK(b) BY <1>3 DEF PaceInv
  <2>2. \A m, n \in Nat :
          m + n >= PaceInterval => Shorter(m + 1, PaceInterval) + Less(n) >= PaceInterval
    BY DEF Shorter, Less
  <2> QED BY <2>1, <2>2, TickSlot DEF PacedOK
<1>4. ASSUME NEW u \in Thread, Pacing(u)' PROVE PacingOK(u)'
  <2> DEFINE b == In(u)
  <2>1. PacingOK(u) /\ b \in Bucket /\ In(u)' = b BY <1>2, <1>4 DEF PaceInv
  <2>2. Paced(b)' /\ slot[b] \in Nat /\ slot'[b] = Less(slot[b])
    BY <2>1, TickSlot DEF PacingOK
  <2>3. slot'[b] >= call'[u].wait + PaceInterval
    BY <1>2, <1>4, <2>1, <2>2 DEF PacingOK, Less
  <2>4. since'[b] + call'[u].wait >= PaceInterval
    <3>1. since[b] \in Nat /\ since'[b] = Shorter(since[b] + 1, PaceInterval)
      BY <2>1, TickSlot
    <3> QED BY <1>2, <1>4, <2>1, <3>1 DEF PacingOK, Shorter
  <2> QED BY <2>1, <2>2, <2>3, <2>4 DEF PacingOK
<1>5. ASSUME NEW u \in Thread, NEW v \in Thread, Pacing(u)', Pacing(v)', u # v, In(u)' = In(v)'
      PROVE  Apart(call[u].wait, call[v].wait)'
  <2>1. Pacing(u) /\ Pacing(v) /\ In(u) = In(v) BY <1>2, <1>5
  <2>2. Apart(call[u].wait, call[v].wait) BY <1>5, <2>1 DEF PaceInv
  <2> QED BY <1>2, <1>5, <2>2 DEF Apart
<1>6. \A u \in Thread : call'[u].at \notin {"claim", "trip"} BY TickCall
<1> QED BY <1>1, <1>3, <1>4, <1>5, <1>6 DEF PaceInv

LEMMA NextPace == TypeOK /\ PaceInv /\ [Next]_vars => PaceInv'
<1> SUFFICES ASSUME TypeOK, PaceInv, [Next]_vars PROVE PaceInv'
  OBVIOUS
<1>1. CASE UNCHANGED vars
  <2>1. UNCHANGED <<slot, since, call, rearmed>> BY <1>1 DEF vars
  <2> QED BY <2>1 DEF PaceInv, PacedOK, PacingOK, Pacing, Apart, Paced, In, At
<1> QED BY <1>1, ProceedPace, BeginPace, TickPace DEF Next

\* However many calls of a bucket sleep for their slots at once, they use
\* them the interval apart, but for a bucket whose next slot was set anew
\* while some slept (http.py:114).  Requests without a slot, retries and the
\* attempts after a waited-out cooldown are not compared.
THEOREM PacedSendsAreApart == Spec => PacedSendsApart
<1> DEFINE Holds ==
      \A t \in Thread :
        At(t, "pacing") /\ At(t, "answer")' /\ In(t) \notin rearmed =>
          since[In(t)] = PaceInterval
<1>1. Init => PaceInv
  BY DEF Init, PaceInv, PacedOK, Paced, Pacing, At, NoCall
<1>2. TypeOK /\ PaceInv /\ [Next]_vars => Holds
  <2> SUFFICES ASSUME TypeOK, PaceInv, [Next]_vars, NEW t \in Thread,
                      At(t, "pacing"), At(t, "answer")', In(t) \notin rearmed
               PROVE  since[In(t)] = PaceInterval
    OBVIOUS
  <2>1. Proceed(t)
    <3>1. call'[t] # call[t] BY DEF At
    <3>2. ASSUME NEW u \in Thread, u # t, Proceed(u) PROVE FALSE
      <4>1. OthersKeep(u) BY <3>2, ProceedShape
      <4> QED BY <3>1, <3>2, <4>1 DEF OthersKeep
    <3>3. ASSUME NEW u \in Thread, NEW b \in Bucket, NEW retried \in BOOLEAN,
                 Begin(u, b, retried)
          PROVE  FALSE
      BY <3>3 DEF Begin, TypeOK, At, InCall
    <3>4. ~Tick BY TickCall DEF At
    <3>5. vars' # vars BY <3>1 DEF vars
    <3> QED BY <3>2, <3>3, <3>4, <3>5 DEF Next
  <2>2. Sends(t)
    BY <2>1, ProceedShape DEF Shape, GoesFree, Queues, Sends, IsAnswered, Retries, GivesUp,
                              Claims, FindsSpent, Trips, At
  <2>3. Pacing(t) /\ call[t].wait = 0 BY <2>2 DEF Sends, Pacing
  <2>4. since[In(t)] >= PaceInterval BY <2>3, PacingTyped DEF PaceInv, PacingOK
  <2> QED BY <2>3, <2>4, PacingTyped, RateLimitAssumption DEF TypeOK
<1>3. TypeOK /\ PaceInv /\ [Next]_vars => [Holds]_vars BY <1>2
<1> QED BY <1>1, <1>3, InitTypeOK, NextTypeOK, NextPace, PTL DEF Spec, PacedSendsApart
-----------------------------------------------------------------------------
(* Every call comes to an end: the reason behind EveryCallEnds.            *)

\* What is left of the retries.
Left(t) == (MaxRetries429 + 1 - call[t].seen429) + (MaxRetries5xx - call[t].seen5xx)

\* The places of one attempt, in the order a call takes them.
Turn == [slot |-> 4, free |-> 3, pacing |-> 3, retry |-> 3, grace |-> 3, answer |-> 2,
         claim |-> 1, trip |-> 0]

\* A step of a call ends it, spends the allowance of its bucket, spends a
\* retry, or brings the attempt on.
Onward(t) ==
  \/ ~InCall(t)'
  \/ /\ InCall(t)' /\ In(t)' = In(t)
     /\ \/ In(t) \notin spent /\ In(t) \in spent'
        \/ /\ In(t) \in spent' <=> In(t) \in spent
           /\ \/ Left(t)' < Left(t)
              \/ Left(t)' = Left(t) /\ Turn[call[t].at]' < Turn[call[t].at]

\* A step of another call or of the clock takes nothing of this back: a sleep
\* may have become shorter.
Undisturbed(t) ==
  /\ InCall(t)' /\ In(t)' = In(t) /\ call'[t].at = call[t].at /\ Left(t)' = Left(t)
  /\ call'[t].wait <= call[t].wait
  /\ In(t) \in spent' <=> In(t) \in spent
  /\ Tick /\ call[t].at \in Asleep => call'[t].wait < call[t].wait

LEMMA TurnIs ==
  /\ Turn["slot"] = 4 /\ Turn["free"] = 3 /\ Turn["pacing"] = 3 /\ Turn["retry"] = 3
  /\ Turn["grace"] = 3 /\ Turn["answer"] = 2 /\ Turn["claim"] = 1 /\ Turn["trip"] = 0
BY DEF Turn

\* A step that spends no retry brings the attempt on.
LEMMA TurnsOn ==
  ASSUME TypeOK, NEW t \in Thread, InCall(t), NEW place \in Place, NEW wait \in Nat,
         Goes(t, place, wait), In(t) \in spent' <=> In(t) \in spent,
         Turn[place] < Turn[call[t].at]
  PROVE  Onward(t)
<1>1. call[t] \in Call BY CallTyped
<1>2. call'[t] = [call[t] EXCEPT !.at = place, !.wait = wait] BY DEF Goes, TypeOK
<1>3. /\ call'[t].at = place /\ call'[t].bucket = call[t].bucket
      /\ call'[t].seen429 = call[t].seen429 /\ call'[t].seen5xx = call[t].seen5xx
  BY <1>1, <1>2 DEF Call
<1>4. InCall(t)' /\ In(t)' = In(t) /\ Left(t)' = Left(t)
  BY <1>3 DEF InCall, In, Left, Place, Asleep
<1> QED BY <1>3, <1>4 DEF Onward

LEMMA TooManyOnward ==
  ASSUME TypeOK, NEW t \in Thread, NEW after \in Header \cup {NoHeader}, TooMany(t, after)
  PROVE  Onward(t)
<1> DEFINE seen == Shorter(call[t].seen429 + 1, MaxRetries429 + 1)
           giveUp == \/ call[t].seen429 + 1 > MaxRetries429
                     \/ after # NoHeader /\ after > MaxRetrySleep
           wait == IF giveUp THEN Cooldown(after) ELSE RetrySleep(after)
<1>1. At(t, "answer") /\ InCall(t) /\ UNCHANGED spent
  BY DEF TooMany, At, InCall, registry
<1>2. PICK place \in {"retry", "claim", "trip"} :
        /\ call' = [call EXCEPT ![t].at = place, ![t].seen429 = seen, ![t].wait = wait]
        /\ place = "retry" => ~giveUp
  BY DEF TooMany
<1>3. call[t] \in Call BY <1>1, CallTyped
<1>4. call'[t] = [call[t] EXCEPT !.at = place, !.seen429 = seen, !.wait = wait]
  BY <1>2 DEF TypeOK
<1>5. call[t].seen429 \in 0 .. MaxRetries429 + 1 /\ call[t].seen5xx \in 0 .. MaxRetries5xx
  BY <1>3 DEF Call
<1>6. /\ seen = call[t].seen429 + 1 \/ (seen = call[t].seen429 /\ seen = MaxRetries429 + 1)
      /\ ~giveUp => seen = call[t].seen429 + 1
  BY <1>5, RateLimitAssumption DEF Shorter
<1> HIDE DEF seen, wait, giveUp
<1>7. /\ call'[t].at = place /\ call'[t].bucket = call[t].bucket
      /\ call'[t].seen429 = seen /\ call'[t].seen5xx = call[t].seen5xx
  BY <1>3, <1>4 DEF Call
<1>8. InCall(t)' /\ In(t)' = In(t) BY <1>7 DEF InCall, In
<1>9. CASE seen = call[t].seen429 + 1
  <2>1. Left(t)' < Left(t) BY <1>5, <1>7, <1>9, RateLimitAssumption DEF Left
  <2> QED BY <1>1, <1>8, <2>1 DEF Onward
<1>10. CASE seen = call[t].seen429
  <2>1. Left(t)' = Left(t) BY <1>7, <1>10 DEF Left
  <2>2. place \in {"claim", "trip"} BY <1>2, <1>5, <1>6, <1>10
  <2>3. Turn[call[t].at]' < Turn[call[t].at] BY <1>1, <1>7, <2>2, TurnIs DEF At
  <2> QED BY <1>1, <1>8, <2>1, <2>3 DEF Onward
<1> QED BY <1>6, <1>9, <1>10

LEMMA ProceedOnward ==
  ASSUME TypeOK, NEW t \in Thread, Proceed(t)
  PROVE  Onward(t)
<1>1. InCall(t)
  BY DEF Proceed, Answer, ReserveSendSlot, Send, Lands, Breaks, TooMany, Unwell,
         TryClaimWait, Trip, At, InCall, Asleep
<1>2. call[t] \in Call /\ In(t) \in Bucket BY <1>1, CallTyped
<1>3. Ends(t) => Onward(t) BY DEF Ends, Onward, InCall, NoCall, TypeOK
<1>4. CASE ReserveSendSlot(t)
  <2>1. PICK place \in {"free", "pacing"}, wait \in {0, slot[In(t)]} :
          Goes(t, place, wait) /\ wait # Unpaced
    BY <1>4, RateLimitAssumption DEF ReserveSendSlot
  <2>2. wait \in Nat /\ place \in Place BY <1>2, <2>1 DEF TypeOK, Place, Asleep
  <2>3. Turn[place] < Turn[call[t].at] BY <1>4, TurnIs DEF ReserveSendSlot, At
  <2> QED BY <1>1, <1>4, <2>1, <2>2, <2>3, TurnsOn DEF ReserveSendSlot
<1>5. CASE Send(t)
  <2>1. Goes(t, "answer", 0) /\ UNCHANGED spent BY <1>5 DEF Send, registry
  <2>2. Turn["answer"] < Turn[call[t].at] BY <1>5, TurnIs DEF Send, Asleep
  <2> QED BY <1>1, <2>1, <2>2, TurnsOn DEF Place
<1>6. CASE Lands(t) \/ Breaks(t) \/ Trip(t) BY <1>3, <1>6 DEF Lands, Breaks, Trip
<1>7. ASSUME NEW after \in Header \cup {NoHeader}, Unwell(t, after) PROVE Onward(t)
  <2>1. CASE call[t].seen5xx < MaxRetries5xx
    <3>1. /\ call' = [call EXCEPT ![t].at = "retry", ![t].seen5xx = call[t].seen5xx + 1,
                                  ![t].wait = RetrySleep(after)]
          /\ UNCHANGED spent
      BY <1>2, <1>7, <2>1 DEF Unwell, Call
    <3>2. call'[t] = [call[t] EXCEPT !.at = "retry", !.seen5xx = call[t].seen5xx + 1,
                                     !.wait = RetrySleep(after)]
      BY <3>1 DEF TypeOK
    <3>3. /\ call'[t].at = "retry" /\ call'[t].bucket = call[t].bucket
          /\ call'[t].seen429 = call[t].seen429
          /\ call'[t].seen5xx = call[t].seen5xx + 1
      BY <1>2, <3>2 DEF Call
    <3>4. call[t].seen429 \in 0 .. MaxRetries429 + 1 /\ call[t].seen5xx \in 0 .. MaxRetries5xx
      BY <1>2 DEF Call
    <3>5. Left(t)' < Left(t) BY <3>3, <3>4, RateLimitAssumption DEF Left
    <3> QED BY <3>1, <3>3, <3>5 DEF Onward, InCall, In
  <2>2. CASE ~(call[t].seen5xx < MaxRetries5xx) BY <1>3, <1>7, <2>2 DEF Unwell
  <2> QED BY <2>1, <2>2
<1>8. CASE TryClaimWait(t)
  <2>1. call[t].wait \in Nat BY <1>2 DEF Call
  <2>2. CASE In(t) \notin spent
    <3>1. Goes(t, "grace", call[t].wait) /\ In(t) \in spent'
      BY <1>8, <2>2 DEF TryClaimWait
    <3>2. call'[t].at = "grace" /\ call'[t].bucket = call[t].bucket
      BY <1>2, <3>1 DEF Goes, TypeOK, Call
    <3> QED BY <2>2, <3>1, <3>2 DEF Onward, InCall, In
  <2>3. CASE In(t) \in spent
    <3>1. Goes(t, "trip", call[t].wait) /\ UNCHANGED spent BY <1>8, <2>3 DEF TryClaimWait
    <3>2. Turn["trip"] < Turn[call[t].at] BY <1>8, TurnIs DEF TryClaimWait, At
    <3> QED BY <1>1, <2>1, <3>1, <3>2, TurnsOn DEF Place
  <2> QED BY <2>2, <2>3
<1> QED BY <1>4, <1>5, <1>6, <1>7, <1>8, TooManyOnward DEF Proceed, Answer

\* What another call may do to this one: nothing, in a bucket of its own.
LEMMA OthersUndisturb ==
  ASSUME TypeOK, SerialInv, NEW t \in Thread, InCall(t), Serial(In(t)),
         NEW u \in Thread, u # t, Proceed(u)
  PROVE  Undisturbed(t)
<1>1. InCall(u)
  BY DEF Proceed, Answer, ReserveSendSlot, Send, Lands, Breaks, TooMany, Unwell,
         TryClaimWait, Trip, At, InCall, Asleep
<1>2. In(u) # In(t) BY <1>1 DEF SerialInv, Alone
<1>3. call'[t] = call[t] BY ProceedShape DEF OthersKeep
<1>4. In(t) \in spent' <=> In(t) \in spent
  BY <1>2
  DEF Proceed, Answer, ReserveSendSlot, Send, Lands, Breaks, TooMany, Unwell,
      TryClaimWait, Trip, NoteSuccess, registry
<1>5. ~Tick
  <2>1. CASE Due(u) BY <2>1 DEF Tick
  <2>2. CASE ~Due(u)
    <3>1. At(u, "answer")
      BY <2>2
      DEF Due, Proceed, Answer, ReserveSendSlot, Send, Lands, Breaks, TooMany, Unwell,
          TryClaimWait, Trip, At
    <3>2. call'[u] # call[u]
      BY <1>1, <3>1, ProceedShape
      DEF Shape, GoesFree, Queues, Sends, IsAnswered, Retries, GivesUp, Claims, FindsSpent,
          Trips, At, InCall, Asleep
    <3>3. ~(call[u].at \in Asleep) BY <3>1 DEF At, Asleep
    <3> QED BY <3>2, <3>3 DEF Tick
  <2> QED BY <2>1, <2>2
<1>6. call[t].wait \in Nat BY CallTyped DEF Call
<1> QED BY <1>3, <1>4, <1>5, <1>6 DEF Undisturbed, InCall, In, Left

LEMMA TickUndisturbs ==
  ASSUME TypeOK, NEW t \in Thread, InCall(t), Tick
  PROVE  Undisturbed(t)
<1>1. call[t] \in Call /\ call[t].wait \in Nat BY CallTyped DEF Call
<1>2. call'[t] = IF call[t].at \in Asleep THEN [call[t] EXCEPT !.wait = Less(@)] ELSE call[t]
  BY DEF Tick
<1>3. /\ UNCHANGED spent
      /\ call'[t].at = call[t].at /\ call'[t].bucket = call[t].bucket
      /\ call'[t].seen429 = call[t].seen429 /\ call'[t].seen5xx = call[t].seen5xx
      /\ call'[t].wait = IF call[t].at \in Asleep THEN Less(call[t].wait) ELSE call[t].wait
  BY <1>1, <1>2 DEF Tick, Call
<1>4. call[t].at \in Asleep => call[t].wait # 0 BY DEF Tick, Due
<1>5. /\ call'[t].wait <= call[t].wait
      /\ call[t].at \in Asleep => call'[t].wait < call[t].wait
  BY <1>1, <1>3, <1>4 DEF Less
<1> QED BY <1>3, <1>5 DEF Undisturbed, InCall, In, Left

\* A call's every step is onward, and as long as the calls of its bucket come
\* one after the other no other call takes anything of it back: nobody
\* restores the allowance it has spent, and every tick shortens its sleep.
THEOREM CallsComeToAnEnd ==
  Spec => [][\A t \in Thread :
               /\ Proceed(t) => Onward(t)
               /\ InCall(t) /\ Serial(In(t)) /\ ~Proceed(t) => Undisturbed(t)]_vars
<1>1. ASSUME TypeOK, SerialInv, Next, NEW t \in Thread,
             InCall(t), Serial(In(t)), ~Proceed(t)
      PROVE  Undisturbed(t)
  <2>1. CASE Tick BY <1>1, <2>1, TickUndisturbs
  <2>2. ASSUME NEW u \in Thread, Proceed(u) PROVE Undisturbed(t)
    BY <1>1, <2>2, OthersUndisturb
  <2>3. ASSUME NEW u \in Thread, NEW b \in Bucket, NEW retried \in BOOLEAN,
               Begin(u, b, retried), ~Tick
        PROVE  Undisturbed(t)
    <3>1. call'[t] = call[t] /\ UNCHANGED spent
      BY <1>1, <2>3 DEF Begin, TypeOK, registry
    <3>2. call[t].wait \in Nat BY <1>1, CallTyped DEF Call
    <3> QED BY <1>1, <2>3, <3>1, <3>2 DEF Undisturbed, InCall, In, Left
  <2> QED BY <1>1, <2>1, <2>2, <2>3 DEF Next, vars
<1>2. TypeOK /\ SerialInv /\ Next =>
        [\A t \in Thread :
           /\ Proceed(t) => Onward(t)
           /\ InCall(t) /\ Serial(In(t)) /\ ~Proceed(t) => Undisturbed(t)]_vars
  BY <1>1, ProceedOnward
<1> QED BY <1>2, AlwaysSerial, PTL DEF Spec
=============================================================================
