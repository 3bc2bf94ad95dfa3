---------------------------- MODULE SinkProofs ----------------------------
(***************************************************************************)
(* Theorems of Sink for any destinations, header values and limits.        *)
(***************************************************************************)
EXTENDS Sink, TLAPS

Rested == run = "none" => push = NoPush /\ made = {}

\* What a push has slept before its retry is its slot.
FirstSleep == push.pc \in {"pace", "sent"} => push.slept <= Interval

At(d, places) == push.pc \in places /\ push.to = d

\* The slot of a sink: Interval past the one slept for, or past the last POST.
\* While the client holds a POST up, the slot it came for is gone already.
Slotted(d) ==
  IF At(d, {"pace"}) /\ ~push.held
  THEN /\ gap[d] = push.sleep + Interval /\ push.sleep <= Interval
       /\ late[d] \/ push.sleep + since[d] >= Interval
  ELSE /\ gap[d] <= Interval
       /\ late[d] \/ gap[d] + since[d] >= Interval
       /\ At(d, {"pace"}) => late[d] \/ since[d] = Interval

\* The Retry-After a sink still owes is being slept or guarded by its breaker.
Owing(d) ==
  /\ At(d, {"pace", "sent", "resent"}) => owed[d] = 0
  /\ At(d, {"wait"}) => owed[d] <= push.sleep
  /\ ~At(d, {"pace", "sent", "wait", "resent"}) => owed[d] <= blocked[d]

IInv == TypeOK /\ Rested /\ FirstSleep /\ (\A d \in Destination : Slotted(d) /\ Owing(d))

-----------------------------------------------------------------------------

LEMMA HeaderTypes ==
  ASSUME NEW h \in Header \cup {Unreadable}
  PROVE  /\ RetryAfterSeconds(h) \in Nat
         /\ Cooldown(RetryAfterSeconds(h)) \in Nat
         /\ Cooldown(RetryAfterSeconds(h)) >= RetryAfterSeconds(h)
BY SinkAssumption DEF RetryAfterSeconds, Unreadable, Cooldown

LEMMA PushTyped ==
  ASSUME TypeOK, push.pc # "idle"
  PROVE  \E d \in made : push \in Pushing(d) /\ push.to = d /\ d \in Destination
BY DEF TypeOK, NoPush, Pushing

LEMMA InitIInv == Init => IInv
BY SinkAssumption DEF Init, IInv, TypeOK, Rested, FirstSleep, Slotted, Owing, At, NoPush, Token

\* A sink that was just made owes nothing and has its first slot at once.
LEMMA BuiltSound ==
  ASSUME IInv, NEW ds \in SUBSET Destination, Built(ds), push = NoPush, UNCHANGED push
  PROVE  /\ made' \subseteq Destination
         /\ gap' \in [Destination -> 0..(2 * Interval)]
         /\ blocked' \in [Destination -> Nat] /\ owed' \in [Destination -> Nat]
         /\ since' \in [Destination -> 0..Interval]
         /\ late' \in [Destination -> BOOLEAN]
         /\ FirstSleep'
         /\ \A d \in Destination : Slotted(d)' /\ Owing(d)'
<1> USE SinkAssumption
<1>1. /\ made' \subseteq Destination
      /\ gap' \in [Destination -> 0..(2 * Interval)]
      /\ blocked' \in [Destination -> Nat] /\ owed' \in [Destination -> Nat]
      /\ since' \in [Destination -> 0..Interval]
      /\ late' \in [Destination -> BOOLEAN]
  <2>1. made' \subseteq Destination BY DEF IInv, TypeOK, Built
  <2>2. gap' \in [Destination -> 0..(2 * Interval)] BY DEF IInv, TypeOK, Built
  <2>3. blocked' \in [Destination -> Nat] /\ owed' \in [Destination -> Nat]
    BY DEF IInv, TypeOK, Built
  <2>4. since' \in [Destination -> 0..Interval] BY DEF IInv, TypeOK, Built
  <2>5. late' \in [Destination -> BOOLEAN]
    <3>1. \A d \in Destination : (IF d \in ds THEN FALSE ELSE late[d]) \in BOOLEAN
      BY DEF IInv, TypeOK
    <3> QED BY <3>1, Zenon DEF Built
  <2> QED BY <2>1, <2>2, <2>3, <2>4, <2>5
<1>2. FirstSleep' BY DEF FirstSleep, NoPush
<1>3. ASSUME NEW d \in Destination PROVE Slotted(d)' /\ Owing(d)'
  <2>1. Slotted(d) /\ Owing(d) BY DEF IInv
  <2>2. ~At(d, {"pace", "sent", "wait", "resent"}) /\ ~At(d, {"pace"}) BY DEF At, NoPush
  <2>3. ~At(d, {"pace", "sent", "wait", "resent"})' /\ ~At(d, {"pace"})'
        /\ ~At(d, {"wait"})' /\ ~At(d, {"pace", "sent", "resent"})'
    BY DEF At, NoPush
  <2>4. CASE d \in ds
    BY <2>3, <2>4 DEF Built, Slotted, Owing, IInv, TypeOK
  <2>5. CASE d \notin ds
    BY <2>1, <2>2, <2>3, <2>5 DEF Built, Slotted, Owing, IInv, TypeOK
  <2> QED BY <2>4, <2>5
<1> QED BY <1>1, <1>2, <1>3

LEMMA NextIInv == IInv /\ [Next]_vars => IInv'
<1> SUFFICES ASSUME IInv, [Next]_vars PROVE IInv'
  OBVIOUS
<1> USE SinkAssumption
<1>1. ASSUME NEW ds \in SUBSET Destination, StartSync(ds) PROVE IInv'
  <2>1. push = NoPush BY <1>1 DEF StartSync, IInv, Rested
  <2>2. push' = push /\ Built(ds) BY <1>1 DEF StartSync
  <2>3. run' = "sync" /\ token' \in [Destination -> Token] /\ refused' = refused
    BY <1>1 DEF StartSync
  <2> HIDE DEF IInv
  <2>4. /\ made' \subseteq Destination
        /\ gap' \in [Destination -> 0..(2 * Interval)]
        /\ blocked' \in [Destination -> Nat] /\ owed' \in [Destination -> Nat]
        /\ since' \in [Destination -> 0..Interval]
        /\ late' \in [Destination -> BOOLEAN]
        /\ FirstSleep' /\ (\A d \in Destination : Slotted(d)' /\ Owing(d)')
    BY <2>1, <2>2, BuiltSound
  <2> QED BY <2>1, <2>2, <2>3, <2>4 DEF IInv, TypeOK, Rested
<1>2. CASE StartBatch
  <2>1. push = NoPush /\ push' = push BY <1>2 DEF StartBatch, IInv, Rested
  <2>2. TypeOK' /\ Rested' BY <1>2, <2>1 DEF StartBatch, IInv, TypeOK, Rested, timers
  <2> QED BY <1>2, <2>1, <2>2 DEF StartBatch, IInv, FirstSleep, Slotted, Owing, At, timers
<1>3. ASSUME NEW d \in Destination, BatchGets(d) PROVE IInv'
  <2>1. push = NoPush /\ push' = push /\ run' = run /\ token' = token
    BY <1>3 DEF BatchGets
  <2>2. CASE token[d] = "missing"
    <3>1. TypeOK' BY <1>3, <2>1, <2>2 DEF BatchGets, IInv, TypeOK, timers
    <3> QED BY <1>3, <2>1, <2>2, <3>1
            DEF BatchGets, IInv, Rested, FirstSleep, Slotted, Owing, At, timers
  <2>3. CASE token[d] # "missing"
    <3>1. Built({d}) /\ refused' = refused BY <1>3, <2>3 DEF BatchGets
    <3>2. {d} \in SUBSET Destination OBVIOUS
    <3>3. /\ made' \subseteq Destination
          /\ gap' \in [Destination -> 0..(2 * Interval)]
          /\ blocked' \in [Destination -> Nat] /\ owed' \in [Destination -> Nat]
          /\ since' \in [Destination -> 0..Interval]
          /\ late' \in [Destination -> BOOLEAN]
          /\ FirstSleep' /\ (\A e \in Destination : Slotted(e)' /\ Owing(e)')
      BY <2>1, <3>1, <3>2, BuiltSound
    <3>4. Rested' BY <1>3, <2>1 DEF BatchGets, Rested
    <3> QED BY <2>1, <3>1, <3>3, <3>4 DEF IInv, TypeOK
  <2> QED BY <2>2, <2>3
<1>4. CASE Close
  <2>1. push = NoPush /\ push' = NoPush BY <1>4 DEF Close, Closed
  <2>2. TypeOK' /\ Rested' BY <1>4, <2>1 DEF Close, Closed, IInv, TypeOK, Rested, timers
  <2> QED BY <1>4, <2>1, <2>2 DEF Close, IInv, FirstSleep, Slotted, Owing, At, timers
<1>5. ASSUME NEW d \in Destination, Push(d) PROVE IInv'
  <2>1. /\ push = NoPush /\ d \in made /\ blocked[d] = 0
        /\ push' = [pc |-> "pace", to |-> d, sleep |-> gap[d], slept |-> gap[d],
                     held |-> FALSE]
        /\ gap' = [gap EXCEPT ![d] = gap[d] + Interval]
        /\ UNCHANGED <<run, token, made, refused, blocked, owed, since, late>>
    BY <1>5 DEF Push, Pace, pool
  <2>2. \A e \in Destination : ~At(e, {"pace", "sent", "wait", "resent"}) /\ ~At(e, {"pace"})
    BY <2>1 DEF At, NoPush
  <2>3. gap[d] \in 0..Interval /\ owed[d] = 0 /\ (late[d] \/ gap[d] + since[d] >= Interval)
    BY <2>1, <2>2 DEF IInv, TypeOK, Slotted, Owing
  <2>4. push' \in Pushing(d)
    <3>1. gap[d] \in 0..(Interval + MaxWait) BY <2>3
    <3> QED BY <2>1, <3>1 DEF Pushing
  <2>5. gap' \in [Destination -> 0..(2 * Interval)]
    <3>1. gap[d] + Interval \in 0..(2 * Interval) BY <2>3
    <3> QED BY <2>1, <3>1 DEF IInv, TypeOK
  <2>6. TypeOK' BY <2>1, <2>4, <2>5 DEF IInv, TypeOK
  <2>7. FirstSleep' BY <2>1, <2>3 DEF FirstSleep
  <2>8. Rested' BY <2>1, <1>5 DEF Rested, IInv, TypeOK, Push
  <2>9. ASSUME NEW e \in Destination PROVE Slotted(e)' /\ Owing(e)'
    <3>1. Slotted(e) /\ Owing(e) BY DEF IInv
    <3>2. CASE e = d
      BY <2>1, <2>3, <3>2 DEF Slotted, Owing, At, IInv, TypeOK
    <3>3. CASE e # d
      BY <2>1, <2>2, <3>1, <3>3 DEF Slotted, Owing, At, IInv, TypeOK
    <3> QED BY <3>2, <3>3
  <2> QED BY <2>6, <2>7, <2>8, <2>9 DEF IInv
<1>6. ASSUME NEW d \in Destination, NEW pc \in {"sent", "resent"},
             Posts(d, pc), Handed(d),
             \/ push.pc = "pace" /\ pc = "sent"
             \/ push.pc = "wait" /\ pc = "resent"
      PROVE  IInv'
  <2>1. d \in made /\ push \in Pushing(d) /\ push.to = d /\ push.sleep = 0
    BY <1>6, PushTyped DEF IInv, Pushing, Handed
  <2>2. /\ push' = [push EXCEPT !.pc = pc, !.held = FALSE]
        /\ since' = [since EXCEPT ![d] = 0]
        /\ late' = [late EXCEPT ![d] = (pc = "resent" \/ push.held)]
        /\ UNCHANGED <<run, token, made, refused, gap, blocked, owed>>
    BY <1>6 DEF Posts, pool
  <2>3. /\ push' \in Pushing(d) /\ push'.pc = pc /\ push'.to = d /\ ~push'.held
        /\ push'.slept = push.slept
    BY <2>1, <2>2 DEF Pushing
  <2>4. TypeOK'
    <3>1. (pc = "resent" \/ push.held) \in BOOLEAN OBVIOUS
    <3>2. late' \in [Destination -> BOOLEAN] BY <2>2, <3>1, Zenon DEF IInv, TypeOK
    <3>3. since' \in [Destination -> 0..Interval] BY <2>2 DEF IInv, TypeOK
    <3> QED BY <2>1, <2>2, <2>3, <3>2, <3>3 DEF IInv, TypeOK
  <2>5. FirstSleep'
    <3>1. push'.slept = push.slept /\ push'.pc = pc BY <2>3
    <3>2. pc = "sent" => push.pc = "pace" BY <1>6
    <3> QED BY <3>1, <3>2, <2>1 DEF IInv, FirstSleep, Pushing
  <2>6. Rested' BY <1>6, <2>1, <2>2 DEF IInv, Rested, NoPush
  <2>7. ASSUME NEW e \in Destination PROVE Slotted(e)' /\ Owing(e)'
    <3>1. Slotted(e) /\ Owing(e) BY DEF IInv
    <3>2. CASE e = d
      <4>1. owed[d] = 0 BY <1>6, <2>1, <3>1, <3>2 DEF Owing, At, IInv, TypeOK
      <4>2. gap[d] <= Interval /\ (pc = "sent" /\ ~push.held => gap[d] = Interval)
        BY <1>6, <2>1, <3>1, <3>2 DEF Slotted, At, IInv, TypeOK
      <4>3. Owing(e)' BY <2>2, <2>3, <3>2, <4>1 DEF Owing, At
      <4>4. since'[e] = 0 /\ gap'[e] = gap[e] /\ ~At(e, {"pace"})'
        BY <2>2, <2>3, <3>2 DEF At, IInv, TypeOK
      <4>5. gap[e] \in Nat BY DEF IInv, TypeOK
      <4>6. gap'[e] <= Interval BY <3>2, <4>2, <4>4
      <4>7. CASE pc = "sent" /\ ~push.held
        <5>1. gap'[e] + since'[e] >= Interval BY <3>2, <4>2, <4>4, <4>5, <4>7
        <5> QED BY <4>3, <4>4, <4>6, <5>1, Zenon DEF Slotted
      <4>8. CASE pc = "resent" \/ push.held
        <5>1. late' = [late EXCEPT ![e] = TRUE] BY <2>2, <3>2, <4>8, Zenon
        <5>2. late'[e] BY <5>1 DEF IInv, TypeOK
        <5> QED BY <4>3, <4>4, <4>6, <5>2, Zenon DEF Slotted
      <4> QED BY <1>6, <4>3, <4>7, <4>8
    <3>3. CASE e # d
      <4>1. late'[e] = late[e] BY <2>2, <3>3, Zenon DEF IInv, TypeOK
      <4>2. since'[e] = since[e] /\ gap'[e] = gap[e] /\ owed'[e] = owed[e]
            /\ blocked'[e] = blocked[e]
        BY <2>2, <3>3 DEF IInv, TypeOK
      <4>3. push.to # e /\ push'.to # e BY <2>1, <2>3, <3>3
      <4> QED BY <3>1, <4>1, <4>2, <4>3 DEF Slotted, Owing, At
    <3> QED BY <3>2, <3>3
  <2> QED BY <2>4, <2>5, <2>6, <2>7 DEF IInv
<1>7. ASSUME NEW d \in Destination, Answered(d) \/ Unauthorized(d) PROVE IInv'
  <2>1. /\ push.pc \in {"sent", "resent"} /\ push.to = d /\ push' = NoPush
        /\ UNCHANGED <<gap, blocked, owed, since, late, token>>
        /\ \/ UNCHANGED <<run, made, refused>>
           \/ run' = "none" /\ made' = {} /\ refused' = {}
    BY <1>7 DEF Answered, Unauthorized, Posted, Closed, pool, timers
  <2>2. TypeOK' BY <2>1 DEF IInv, TypeOK
  <2>3. FirstSleep' /\ Rested' BY <2>1 DEF IInv, FirstSleep, Rested, NoPush
  <2>4. ASSUME NEW e \in Destination PROVE Slotted(e)' /\ Owing(e)'
    <3>1. Slotted(e) /\ Owing(e) BY DEF IInv
    <3>2. ~At(e, {"pace"}) /\ ~At(e, {"pace"})' /\ ~At(e, {"wait"})'
          /\ ~At(e, {"pace", "sent", "resent"})' /\ ~At(e, {"pace", "sent", "wait", "resent"})'
      BY <2>1 DEF At, NoPush
    <3>3. owed[e] <= blocked[e]
      BY <2>1, <3>1 DEF Owing, At, IInv, TypeOK
    <3> QED BY <2>1, <3>1, <3>2, <3>3 DEF Slotted, Owing
  <2> QED BY <2>2, <2>3, <2>4 DEF IInv
<1>8. ASSUME NEW d \in Destination, NEW h \in Header \cup {Unreadable}, TooMany(d, h)
      PROVE  IInv'
  <2> DEFINE ra == RetryAfterSeconds(h)
  <2>1. ra \in Nat /\ Cooldown(ra) \in Nat /\ Cooldown(ra) >= ra BY HeaderTypes
  <2>2. /\ push.pc \in {"sent", "resent"} /\ push.to = d
        /\ owed' = [owed EXCEPT ![d] = ra]
        /\ UNCHANGED <<run, token, made, refused, gap, since, late>>
    BY <1>8 DEF TooMany, Posted, pool
  <2>3. d \in made /\ push \in Pushing(d) BY <2>2, PushTyped DEF IInv, Pushing
  <2>4. run # "none" BY <2>2 DEF IInv, Rested, NoPush
  <2>5. CASE push.pc = "sent" /\ WorthWaiting(ra)
    <3>1. /\ push' = [push EXCEPT !.pc = "wait", !.sleep = ra, !.slept = push.slept + ra]
          /\ blocked' = blocked
      BY <1>8, <2>3, <2>5 DEF TooMany, Waits, Pushing
    <3>2. ra \in 0..(Interval + MaxWait) /\ push.slept + ra \in 0..(Interval + MaxWait)
      BY <2>1, <2>3, <2>5 DEF IInv, FirstSleep, Pushing, WorthWaiting
    <3> HIDE DEF ra
    <3>3. push' \in Pushing(d) /\ push'.pc = "wait" /\ push'.to = d /\ push'.sleep = ra
      <4> DEFINE n == push.slept + ra
      <4>1. n \in 0..(Interval + MaxWait) /\ ra \in Nat BY <2>1, <3>2
      <4>2. push' = [push EXCEPT !.pc = "wait", !.sleep = ra, !.slept = n] BY <3>1
      <4> HIDE DEF n
      <4>3. push' = [pc |-> "wait", to |-> d, sleep |-> ra, slept |-> n, held |-> push.held]
        BY <2>3, <4>2 DEF Pushing
      <4>4. push.held \in BOOLEAN BY <2>3 DEF Pushing
      <4> QED BY <4>1, <4>3, <4>4 DEF Pushing
    <3>4. TypeOK' BY <2>1, <2>2, <2>3, <3>1, <3>3 DEF IInv, TypeOK
    <3>5. FirstSleep' /\ Rested' BY <2>2, <2>4, <3>3 DEF FirstSleep, Rested
    <3>6. ASSUME NEW e \in Destination PROVE Slotted(e)' /\ Owing(e)'
      <4>1. Slotted(e) /\ Owing(e) BY DEF IInv
      <4>2. CASE e = d
        BY <2>1, <2>2, <3>1, <3>3, <4>1, <4>2 DEF Slotted, Owing, At, IInv, TypeOK
      <4>3. CASE e # d
        BY <2>2, <3>1, <3>3, <4>1, <4>3 DEF Slotted, Owing, At, IInv, TypeOK
      <4> QED BY <4>2, <4>3
    <3> QED BY <3>4, <3>5, <3>6 DEF IInv
  <2>6. CASE ~(push.pc = "sent" /\ WorthWaiting(ra))
    <3>1. push' = NoPush /\ blocked' = [blocked EXCEPT ![d] = Cooldown(ra)]
      BY <1>8, <2>6 DEF TooMany, Trips
    <3> HIDE DEF ra
    <3>2. TypeOK' BY <2>1, <2>2, <3>1 DEF IInv, TypeOK
    <3>3. FirstSleep' /\ Rested' BY <2>2, <2>4, <3>1 DEF FirstSleep, Rested, NoPush
    <3>4. ASSUME NEW e \in Destination PROVE Slotted(e)' /\ Owing(e)'
      <4>1. Slotted(e) /\ Owing(e) BY DEF IInv
      <4>2. ~At(e, {"pace"}) /\ ~At(e, {"pace"})' /\ ~At(e, {"wait"})'
            /\ ~At(e, {"pace", "sent", "resent"})'
        BY <2>2, <3>1 DEF At, NoPush
      <4>3. owed'[e] <= blocked'[e]
        BY <2>1, <2>2, <3>1, <4>1 DEF Owing, At, IInv, TypeOK
      <4> QED BY <2>2, <4>1, <4>2, <4>3 DEF Slotted, Owing
    <3> QED BY <3>2, <3>3, <3>4 DEF IInv
  <2> QED BY <2>5, <2>6
<1>9. CASE Tick
  <2>1. /\ \A n \in Nat : Less(n) \in Nat /\ Less(n) <= n
        /\ \A n \in Nat \ {0} : Less(n) = n - 1
    BY DEF Less
  <2>2. /\ gap' = [d \in Destination |-> Less(gap[d])]
        /\ blocked' = [d \in Destination |-> Less(blocked[d])]
        /\ owed' = [d \in Destination |-> Less(owed[d])]
        /\ since' = [d \in Destination |-> IF since[d] < Interval THEN since[d] + 1 ELSE Interval]
        /\ UNCHANGED <<run, token, made, refused, late>>
    BY <1>9 DEF Tick, Runs, pool
  <2>3. CASE push.pc \in {"pace", "wait"}
    <3>1. push.sleep > 0 /\ push' = [push EXCEPT !.sleep = push.sleep - 1]
      BY <1>9, <2>3 DEF Tick
    <3>2. PICK t \in made : push \in Pushing(t) /\ push.to = t /\ t \in Destination
      BY <2>3, PushTyped DEF IInv
    <3>3. /\ push' \in Pushing(t) /\ push'.to = t /\ push'.pc = push.pc
          /\ push'.sleep = push.sleep - 1 /\ push'.slept = push.slept
          /\ push'.held = push.held
      BY <3>1, <3>2 DEF Pushing
    <3>4. TypeOK'
      <4>1. gap' \in [Destination -> 0..(2 * Interval)] BY <2>1, <2>2 DEF IInv, TypeOK
      <4>2. since' \in [Destination -> 0..Interval] BY <2>2 DEF IInv, TypeOK
      <4>3. blocked' \in [Destination -> Nat] /\ owed' \in [Destination -> Nat]
        BY <2>1, <2>2 DEF IInv, TypeOK
      <4> QED BY <2>2, <3>2, <3>3, <4>1, <4>2, <4>3 DEF IInv, TypeOK
    <3>5. FirstSleep' /\ Rested'
      BY <2>2, <2>3, <3>3 DEF IInv, FirstSleep, Rested, NoPush
    <3>6. ASSUME NEW e \in Destination PROVE Slotted(e)' /\ Owing(e)'
      <4>1. Slotted(e) /\ Owing(e) BY DEF IInv
      <4>2. /\ gap[e] \in Nat /\ owed[e] \in Nat /\ blocked[e] \in Nat
            /\ since[e] \in 0..Interval /\ late[e] \in BOOLEAN /\ push.sleep \in Nat
        BY <3>2 DEF IInv, TypeOK, Pushing
      <4>3. Slotted(e)'
        BY <2>2, <3>1, <3>3, <4>1, <4>2 DEF Slotted, At, Less
      <4>4. Owing(e)'
        BY <2>2, <3>1, <3>3, <4>1, <4>2 DEF Owing, At, Less
      <4> QED BY <4>3, <4>4
    <3> QED BY <3>4, <3>5, <3>6 DEF IInv
  <2>4. CASE push.pc \notin {"pace", "wait"}
    <3>1. push' = push BY <1>9, <2>4 DEF Tick
    <3>2. TypeOK'
      <4>1. gap' \in [Destination -> 0..(2 * Interval)] BY <2>1, <2>2 DEF IInv, TypeOK
      <4>2. since' \in [Destination -> 0..Interval] BY <2>2 DEF IInv, TypeOK
      <4>3. blocked' \in [Destination -> Nat] /\ owed' \in [Destination -> Nat]
        BY <2>1, <2>2 DEF IInv, TypeOK
      <4> QED BY <2>2, <3>1, <4>1, <4>2, <4>3 DEF IInv, TypeOK
    <3>3. FirstSleep' /\ Rested' BY <2>2, <3>1 DEF IInv, FirstSleep, Rested
    <3>4. ASSUME NEW e \in Destination PROVE Slotted(e)' /\ Owing(e)'
      <4>1. Slotted(e) /\ Owing(e) BY DEF IInv
      <4>2. /\ gap[e] \in Nat /\ owed[e] \in Nat /\ blocked[e] \in Nat
            /\ since[e] \in 0..Interval /\ late[e] \in BOOLEAN
        BY DEF IInv, TypeOK
      <4>3. Slotted(e)' BY <2>2, <2>4, <3>1, <4>1, <4>2 DEF Slotted, At, Less
      <4>4. Owing(e)' BY <2>2, <2>4, <3>1, <4>1, <4>2 DEF Owing, At, Less
      <4> QED BY <4>3, <4>4
    <3> QED BY <3>2, <3>3, <3>4 DEF IInv
  <2> QED BY <2>3, <2>4
<1>10. CASE UNCHANGED vars
  <2>1. UNCHANGED <<run, token, made, refused, gap, blocked, owed, since, late, push>>
    BY <1>10 DEF vars, pool, timers
  <2> QED BY <2>1 DEF IInv, TypeOK, Rested, FirstSleep, Slotted, Owing, At
<1>13. ASSUME NEW d \in Destination, ClientRefuses(d) PROVE IInv'
  <2>1. /\ push.pc \in {"pace", "wait"} /\ push.to = d /\ push.sleep = 0 /\ ~push.held
        /\ push' = NoPush
        /\ UNCHANGED <<run, token, made, refused, gap, blocked, owed, since, late>>
    BY <1>13 DEF ClientRefuses, Handed, pool, timers
  <2>2. TypeOK' BY <2>1 DEF IInv, TypeOK
  <2>3. FirstSleep' /\ Rested' BY <2>1 DEF IInv, FirstSleep, Rested, NoPush
  <2>4. ASSUME NEW e \in Destination PROVE Slotted(e)' /\ Owing(e)'
    <3>1. Slotted(e) /\ Owing(e) BY DEF IInv
    <3>2. ~At(e, {"pace"})' /\ ~At(e, {"wait"})'
          /\ ~At(e, {"pace", "sent", "resent"})'
      BY <2>1 DEF At, NoPush
    <3>3. owed[e] <= blocked[e]
      BY <2>1, <3>1 DEF Owing, At, IInv, TypeOK
    <3>4. gap[e] <= Interval /\ (late[e] \/ gap[e] + since[e] >= Interval)
      BY <2>1, <3>1, SinkAssumption DEF Slotted, At, IInv, TypeOK
    <3> QED BY <2>1, <3>2, <3>3, <3>4 DEF Slotted, Owing
  <2> QED BY <2>2, <2>3, <2>4 DEF IInv
<1>14. ASSUME NEW d \in Destination, NEW n \in Hold, ClientHolds(d, n) PROVE IInv'
  <2>1. /\ push.pc \in {"pace", "wait"} /\ push.to = d /\ push.sleep = 0 /\ ~push.held
        /\ push' = [push EXCEPT !.sleep = n, !.held = TRUE]
        /\ UNCHANGED <<run, token, made, refused, gap, blocked, owed, since, late>>
    BY <1>14 DEF ClientHolds, Handed, pool, timers
  <2>2. d \in made /\ push \in Pushing(d)
    BY <2>1, PushTyped DEF IInv, Pushing
  <2>3. /\ push' \in Pushing(d) /\ push'.pc = push.pc /\ push'.to = d /\ push'.held
        /\ push'.sleep = n /\ n \in Nat /\ push'.slept = push.slept
    BY <2>1, <2>2, SinkAssumption DEF Pushing
  <2>4. TypeOK' BY <2>1, <2>2, <2>3 DEF IInv, TypeOK
  <2>5. FirstSleep' /\ Rested' BY <2>1, <2>2, <2>3 DEF IInv, FirstSleep, Rested, NoPush
  <2>6. ASSUME NEW e \in Destination PROVE Slotted(e)' /\ Owing(e)'
    <3>1. Slotted(e) /\ Owing(e) BY DEF IInv
    <3>2. gap[e] <= Interval /\ (late[e] \/ gap[e] + since[e] >= Interval)
      BY <2>1, <3>1, SinkAssumption DEF Slotted, At, IInv, TypeOK
    <3>3. Slotted(e)'
      <4>1. ~(At(e, {"pace"}) /\ ~push.held)' BY <2>3 DEF At
      <4>2. At(e, {"pace"})' => At(e, {"pace"}) BY <2>1, <2>3 DEF At
      <4>3. At(e, {"pace"}) => late[e] \/ since[e] = Interval
        BY <2>1, <3>1, SinkAssumption DEF Slotted, At, IInv, TypeOK
      <4> QED BY <2>1, <3>2, <4>1, <4>2, <4>3 DEF Slotted
    <3>4. Owing(e)' BY <2>1, <2>3, <3>1 DEF Owing, At, IInv, TypeOK
    <3> QED BY <3>3, <3>4
  <2> QED BY <2>4, <2>5, <2>6 DEF IInv
<1>11. ASSUME NEW d \in Destination, Post(d) PROVE IInv'
  BY <1>6, <1>11 DEF Post
<1>12. ASSUME NEW d \in Destination, PostAgain(d) PROVE IInv'
  BY <1>6, <1>12 DEF PostAgain
<1> QED
  BY <1>1, <1>2, <1>3, <1>4, <1>5, <1>7, <1>8, <1>9, <1>10, <1>11, <1>12,
     <1>13, <1>14 DEF Next

LEMMA Inductive == Spec => []IInv
BY InitIInv, NextIInv, PTL DEF Spec

-----------------------------------------------------------------------------

\* Every reachable state is well typed.
THEOREM TypeCorrect == Spec => []TypeOK
<1>1. IInv => TypeOK BY DEF IInv
<1> QED BY <1>1, Inductive, PTL

\* However long the Retry-After a provider asks for, one push sleeps for at most a
\* slot and the longest wait worth waiting for.
THEOREM PushesAreBounded == Spec => []BoundedPush
<1>1. IInv => BoundedPush
  BY SinkAssumption DEF IInv, TypeOK, BoundedPush, Pushing
<1> QED BY <1>1, Inductive, PTL

\* No sink posts before the Retry-After of its last 429 has passed.
THEOREM ProvidersAreHeeded == Spec => RetryAfterHonoured
<1>1. IInv /\ [Next]_vars => [\A d \in Destination : Sends(d) => owed[d] = 0]_vars
  <2> SUFFICES ASSUME IInv, NEW d \in Destination, Sends(d) PROVE owed[d] = 0
    OBVIOUS
  <2>1. CASE Post(d) BY <2>1 DEF Post, Handed, IInv, Owing, At
  <2>2. CASE PostAgain(d)
    BY <2>2 DEF PostAgain, Handed, IInv, TypeOK, Owing, At
  <2> QED BY <2>1, <2>2 DEF Sends
<1> QED BY <1>1, Inductive, PTL DEF Spec, RetryAfterHonoured

\* Pacing keeps the saves of a sink apart, the retries after a 429 and those that
\* follow a late one excepted.
THEOREM SavesAreSpaced == Spec => SpacedUnlessLate
<1>1. IInv /\ [Next]_vars =>
        [\A d \in Destination :
           Sends(d) /\ since[d] < Interval => late[d] \/ PostAgain(d)]_vars
  <2> SUFFICES ASSUME IInv, NEW d \in Destination, Post(d), since[d] < Interval
               PROVE  late[d]
    BY DEF Sends
  <2>1. push.pc = "pace" /\ push.to = d /\ push.sleep = 0 BY DEF Post, Handed
  <2>2. Slotted(d) /\ since[d] \in Nat /\ gap[d] \in Nat BY DEF IInv, TypeOK
  <2>3. CASE ~push.held BY <2>1, <2>2, <2>3, SinkAssumption DEF Slotted, At
  <2>4. CASE push.held BY <2>1, <2>2, <2>4, SinkAssumption DEF Slotted, At
  <2> QED BY <2>3, <2>4
<1> QED BY <1>1, Inductive, PTL DEF Spec, SpacedUnlessLate
-----------------------------------------------------------------------------
(* Every push comes to an end, after two POSTs at most.                    *)

Stage == [pace |-> 4, sent |-> 3, wait |-> 2, resent |-> 1, idle |-> 0]

\* The push comes to its next stage, skipping some perhaps, or sleeps on, or the
\* client makes it sleep, once a stage.
Onward ==
  \/ Stage[push'.pc] < Stage[push.pc]
  \/ /\ push.pc \in {"pace", "wait"} /\ push'.pc = push.pc /\ push'.to = push.to
     /\ push.held => push'.held
     /\ \/ push.sleep \in Nat /\ push'.sleep < push.sleep /\ push'.held = push.held
        \/ push'.held /\ ~push.held

\* Only the provider keeps a push where it is: its answer takes any time.
Unanswered == push.pc \in {"sent", "resent"} /\ push' = push

LEMMA StageIs ==
  /\ Stage["pace"] = 4 /\ Stage["sent"] = 3 /\ Stage["wait"] = 2
  /\ Stage["resent"] = 1 /\ Stage["idle"] = 0
BY DEF Stage

\* Once begun a push is all its run does, and all it does leads on: no stage is
\* gone through twice, so it posts twice at most, and no sleep grows but by the
\* one the client adds before a POST.
THEOREM PushesComeToAnEnd ==
  Spec => [][push # NoPush => Onward \/ (Tick /\ Unanswered)]_vars
<1>1. ASSUME IInv, push # NoPush, Next PROVE Onward \/ (Tick /\ Unanswered)
  <2>1. PICK d \in made : push \in Pushing(d) BY <1>1 DEF IInv, TypeOK
  <2>2. run # "none" BY <1>1 DEF IInv, Rested
  <2>3. ASSUME NEW e \in Destination, NEW pc \in {"sent", "resent"}, Posts(e, pc),
               \/ push.pc = "pace" /\ pc = "sent"
               \/ push.pc = "wait" /\ pc = "resent"
        PROVE  Onward
    <3>1. push'.pc = pc BY <2>1, <2>3 DEF Posts, Pushing
    <3> QED BY <2>3, <3>1, StageIs DEF Onward
  <2>4. ASSUME NEW e \in Destination, Answered(e) \/ Unauthorized(e) PROVE Onward
    <3>1. push.pc \in {"sent", "resent"} /\ push'.pc = "idle"
      BY <2>4 DEF Answered, Unauthorized, Posted, Closed, NoPush
    <3> QED BY <3>1, StageIs DEF Onward
  <2>5. ASSUME NEW e \in Destination, NEW h \in Header \cup {Unreadable}, TooMany(e, h)
        PROVE  Onward
    <3> DEFINE ra == RetryAfterSeconds(h)
    <3>1. /\ push.pc \in {"sent", "resent"}
          /\ (push.pc = "sent" /\ Waits(e, ra)) \/ Trips(e, ra)
      BY <2>5 DEF TooMany, Posted
    <3> HIDE DEF ra
    <3>2. CASE push.pc = "sent" /\ Waits(e, ra)
      <4>1. push'.pc = "wait" BY <2>1, <3>2 DEF Waits, Pushing
      <4> QED BY <3>2, <4>1, StageIs DEF Onward
    <3>3. CASE Trips(e, ra)
      <4>1. push'.pc = "idle" BY <3>3 DEF Trips, NoPush
      <4> QED BY <3>1, <4>1, StageIs DEF Onward
    <3> QED BY <3>1, <3>2, <3>3
  <2>6. CASE Tick /\ push.pc \in {"pace", "wait"}
    <3>1. push.sleep > 0 /\ push' = [push EXCEPT !.sleep = push.sleep - 1]
      BY <2>6 DEF Tick
    <3>2. /\ push.sleep \in Nat /\ push'.sleep = push.sleep - 1
          /\ push'.pc = push.pc /\ push'.to = push.to /\ push'.held = push.held
      BY <2>1, <3>1, SinkAssumption DEF Pushing
    <3> QED BY <2>6, <3>2 DEF Onward
  <2>7. CASE Tick /\ push.pc \notin {"pace", "wait"}
    <3>1. push' = push /\ push.pc \in {"sent", "resent"} BY <2>1, <2>7 DEF Tick, Pushing
    <3> QED BY <2>7, <3>1 DEF Unanswered
  <2>8. /\ ~\E ds \in SUBSET Destination : StartSync(ds)
        /\ ~StartBatch /\ ~Close
        /\ ~\E e \in Destination : BatchGets(e) \/ Push(e)
    BY <1>1, <2>2 DEF StartSync, StartBatch, Close, BatchGets, Push
  <2>9. \A e \in Destination : Post(e) \/ PostAgain(e) => Onward
    BY <2>3 DEF Post, PostAgain
  <2>10. ASSUME NEW e \in Destination, ClientRefuses(e) PROVE Onward
    <3>1. push.pc \in {"pace", "wait"} /\ push'.pc = "idle"
      BY <2>10 DEF ClientRefuses, Handed, NoPush
    <3> QED BY <3>1, StageIs DEF Onward
  <2>11. ASSUME NEW e \in Destination, NEW n \in Hold, ClientHolds(e, n) PROVE Onward
    <3>1. /\ push.pc \in {"pace", "wait"} /\ ~push.held
          /\ push' = [push EXCEPT !.sleep = n, !.held = TRUE]
      BY <2>11 DEF ClientHolds, Handed
    <3>2. push'.pc = push.pc /\ push'.to = push.to /\ push'.held
      BY <2>1, <3>1 DEF Pushing
    <3> QED BY <3>1, <3>2 DEF Onward
  <2> QED BY <1>1, <2>4, <2>5, <2>6, <2>7, <2>8, <2>9, <2>10, <2>11 DEF Next
<1>2. IInv /\ [Next]_vars => [push # NoPush => Onward \/ (Tick /\ Unanswered)]_vars
  BY <1>1
<1> QED BY <1>2, Inductive, PTL DEF Spec
=============================================================================
