----------------------------- MODULE RateLimit -----------------------------
(***************************************************************************)
(* util/http.py: the requests of several threads through RetryTransport    *)
(* and the registry of cooldowns, send slots and wait allowances that all  *)
(* clients of the process share.                                           *)
(*                                                                         *)
(* Times are what is left of them, in the clock's unit: Tick takes one     *)
(* unit off each.  The registry's lock makes each of its operations one    *)
(* step; between two of them other threads run.  Sleepers wake on time     *)
(* and code that need not wait takes none (Tick waits for it); only the    *)
(* network takes as long as it likes.                                      *)
(***************************************************************************)
EXTENDS Naturals

CONSTANTS
  Thread,           \* sync, backfill and auto-import may each run in one
  Bucket,           \* a host, or the scope several hosts share
  Header,           \* Retry-After values a server may send, parsed
  NoHeader,         \* absent or unparseable
  Unpaced,          \* a bucket that never tripped has no slots
  MaxRetries429,    \* _MAX_RETRIES_429
  MaxRetries5xx,    \* _MAX_RETRIES_5XX
  Backoff,          \* the sleep of a retry without Retry-After
  MaxRetrySleep,    \* _MAX_RETRY_SLEEP
  CooldownFloor,    \* _COOLDOWN_FLOOR
  MaxCooldownWait,  \* _MAX_COOLDOWN_WAIT
  PaceInterval      \* _PACE_INTERVAL

ASSUME RateLimitAssumption ==
  /\ Header \subseteq Nat /\ NoHeader \notin Nat /\ Unpaced \notin Nat
  /\ MaxRetries429 \in Nat /\ MaxRetries5xx \in Nat
  /\ Backoff \in Nat /\ MaxRetrySleep \in Nat /\ CooldownFloor \in Nat
  /\ MaxCooldownWait \in Nat /\ PaceInterval \in Nat
  /\ Backoff <= MaxRetrySleep /\ PaceInterval <= CooldownFloor
  /\ MaxRetrySleep <= MaxCooldownWait /\ CooldownFloor <= MaxCooldownWait

VARIABLES
  cooling,  \* _blocked_until: what is left of each bucket's cooldown
  slot,     \* _next_send: the wait until the next slot, or Unpaced
  spent,    \* _wait_spent
  call,     \* per thread: the locals of handle_request
  sends,    \* history: requests the call under way has sent (saturating)
  asked,    \* history: what is left of the longest wait a 429 asked for
  since,    \* history: time since a call last used a slot (saturating)
  shared,   \* history: buckets two calls were ever in at once
  rearmed   \* history: buckets armed while a call was asleep for its slot

registry == <<cooling, slot, spent>>
history == <<sends, asked, since, shared, rearmed>>
vars == <<cooling, slot, spent, call, sends, asked, since, shared, rearmed>>

Longer(m, n) == IF m >= n THEN m ELSE n
Shorter(m, n) == IF m <= n THEN m ELSE n

\* A call that runs into everything it may: each retry, the attempt after
\* the cooldown, and the one whose answer ends it.
Attempts == MaxRetries429 + MaxRetries5xx + 2

\* Where a call stands: before reserve_send_slot, free to send, in one of
\* the three sleeps, waiting for the answer, or before try_claim_wait or
\* trip.
Asleep == {"pacing", "retry", "grace"}
Place == {"slot", "free", "answer", "claim", "trip"} \cup Asleep
NoCall == [at |-> "idle"]
Call == [at : Place, bucket : Bucket, retried : BOOLEAN, wait : Nat,
         seen429 : 0 .. MaxRetries429 + 1, seen5xx : 0 .. MaxRetries5xx]

InCall(t) == call[t].at # "idle"
At(t, place) == call[t].at = place
In(t) == call[t].bucket

Goes(t, place, wait) ==
  call' = [call EXCEPT ![t].at = place, ![t].wait = wait]
Ends(t) ==
  /\ call' = [call EXCEPT ![t] = NoCall]
  /\ sends' = [sends EXCEPT ![t] = 0]

-----------------------------------------------------------------------------
\* Mutant of Begin: raise_if_blocked is not called.
BeginUnchecked(t, b, retried) ==
  /\ ~InCall(t)
  /\ call' = [call EXCEPT ![t] = [at |-> "slot", bucket |-> b,
                                  retried |-> retried, wait |-> 0,
                                  seen429 |-> 0, seen5xx |-> 0]]
  /\ shared' = IF \E u \in Thread : InCall(u) /\ In(u) = b
               THEN shared \cup {b} ELSE shared
  /\ UNCHANGED <<registry, sends, asked, since, rearmed>>

\* A call begins where raise_if_blocked lets it through.  One that finds
\* the bucket cooling down raises RateLimited and leaves no trace.  Only
\* GET and HEAD are `retried`.
Begin(t, b, retried) ==
  /\ ~InCall(t)
  /\ cooling[b] = 0
  /\ call' = [call EXCEPT ![t] = [at |-> "slot", bucket |-> b,
                                  retried |-> retried, wait |-> 0,
                                  seen429 |-> 0, seen5xx |-> 0]]
  /\ shared' = IF \E u \in Thread : InCall(u) /\ In(u) = b
               THEN shared \cup {b} ELSE shared
  /\ UNCHANGED <<registry, sends, asked, since, rearmed>>

\* Mutant of ReserveSendSlot: the slot is used but not taken.
ReserveSameSlot(t) ==
  LET b == In(t)
  IN /\ At(t, "slot")
     /\ \/ slot[b] = Unpaced /\ Goes(t, "free", 0)
        \/ slot[b] # Unpaced /\ Goes(t, "pacing", slot[b])
     /\ UNCHANGED <<registry, history>>

\* reserve_send_slot: no wait in a bucket that never tripped, else the
\* next slot, and the one after it moves on.
ReserveSendSlot(t) ==
  LET b == In(t)
  IN /\ At(t, "slot")
     /\ \/ /\ slot[b] = Unpaced
           /\ Goes(t, "free", 0)
           /\ UNCHANGED slot
        \/ /\ slot[b] # Unpaced
           /\ Goes(t, "pacing", slot[b])
           /\ slot' = [slot EXCEPT ![b] = @ + PaceInterval]
     /\ UNCHANGED <<cooling, spent, history>>

\* The sleep is over and the request goes out, with no look at the registry.
Send(t) ==
  /\ call[t].at \in Asleep \cup {"free"} /\ call[t].wait = 0
  /\ Goes(t, "answer", 0)
  /\ sends' = [sends EXCEPT ![t] = Shorter(@ + 1, Attempts + 1)]
  /\ since' = IF At(t, "pacing")
              THEN [since EXCEPT ![In(t)] = 0] ELSE since
  /\ UNCHANGED <<registry, asked, shared, rearmed>>

\* note_success: whatever is no 429 restores the bucket's allowance.
NoteSuccess(b) == spent' = spent \ {b}

\* An answer no retry is for, or any answer to a request not `retried`.
Lands(t) ==
  /\ At(t, "answer")
  /\ IF call[t].retried THEN NoteSuccess(In(t)) ELSE UNCHANGED spent
  /\ Ends(t)
  /\ UNCHANGED <<cooling, slot, asked, since, shared, rearmed>>

\* The connection fails, or the answer takes longer than the timeout.
Breaks(t) ==
  /\ At(t, "answer")
  /\ Ends(t)
  /\ UNCHANGED <<registry, asked, since, shared, rearmed>>

Asks(b, after) ==
  asked' = IF after = NoHeader THEN asked
           ELSE [asked EXCEPT ![b] = Longer(@, after)]

\* Mutant of RetrySleep: Retry-After is taken as it comes.
RetrySleepUncapped(after) == IF after = NoHeader THEN Backoff ELSE after

RetrySleep(after) ==
  Shorter(IF after = NoHeader THEN Backoff ELSE after, MaxRetrySleep)

\* Mutant of Cooldown: the server's own Retry-After does not count.
CooldownFloorOnly(after) == CooldownFloor

Cooldown(after) ==
  Longer(IF after = NoHeader THEN 0 ELSE after, CooldownFloor)

\* A 429: sleep and retry, or, when the retries are used up or the server
\* asks for too long a sleep, a cooldown.  One short enough may be waited
\* out.
TooMany(t, after) ==
  LET seen == Shorter(call[t].seen429 + 1, MaxRetries429 + 1)
      giveUp == \/ call[t].seen429 + 1 > MaxRetries429
                \/ after # NoHeader /\ after > MaxRetrySleep
      place == IF ~giveUp THEN "retry"
               ELSE IF Cooldown(after) <= MaxCooldownWait THEN "claim" ELSE "trip"
  IN /\ At(t, "answer") /\ call[t].retried
     /\ call' = [call EXCEPT
          ![t].at = place, ![t].seen429 = seen,
          ![t].wait = IF giveUp THEN Cooldown(after) ELSE RetrySleep(after)]
     /\ Asks(In(t), after)
     /\ UNCHANGED <<registry, sends, since, shared, rearmed>>

\* A 502, 503 or 504: sleep and retry, at last hand it back as it is, which
\* counts as a success for the allowance.
Unwell(t, after) ==
  /\ At(t, "answer") /\ call[t].retried
  /\ \/ /\ call[t].seen5xx < MaxRetries5xx
        /\ call' = [call EXCEPT ![t].at = "retry", ![t].seen5xx = @ + 1,
                                ![t].wait = RetrySleep(after)]
        /\ UNCHANGED <<spent, sends>>
     \/ /\ call[t].seen5xx = MaxRetries5xx
        /\ NoteSuccess(In(t))
        /\ Ends(t)
  /\ UNCHANGED <<cooling, slot, asked, since, shared, rearmed>>

\* The next slot of b is set anew, whoever sleeps for one now.
Rearms(b) ==
  rearmed' = IF \E u \in Thread : At(u, "pacing") /\ In(u) = b
             THEN rearmed \cup {b} ELSE rearmed

\* Mutant of TryClaimWait: the allowance is not marked spent.
TryClaimUnmarked(t) ==
  LET b == In(t)
  IN /\ At(t, "claim")
     /\ \/ /\ b \notin spent
           /\ slot' = [slot EXCEPT ![b] = call[t].wait]
           /\ Rearms(b)
           /\ Goes(t, "grace", call[t].wait)
        \/ /\ b \in spent
           /\ Goes(t, "trip", call[t].wait)
           /\ UNCHANGED <<slot, rearmed>>
     /\ UNCHANGED <<cooling, spent, sends, asked, since, shared>>

\* try_claim_wait: the one wait-through since the last success, or the trip.
TryClaimWait(t) ==
  LET b == In(t)
  IN /\ At(t, "claim")
     /\ \/ /\ b \notin spent
           /\ spent' = spent \cup {b}
           /\ slot' = [slot EXCEPT ![b] = call[t].wait]
           /\ Rearms(b)
           /\ Goes(t, "grace", call[t].wait)
        \/ /\ b \in spent
           /\ Goes(t, "trip", call[t].wait)
           /\ UNCHANGED <<spent, slot, rearmed>>
     /\ UNCHANGED <<cooling, sends, asked, since, shared>>

\* trip, and RateLimited is raised.
Trip(t) ==
  /\ At(t, "trip")
  /\ cooling' = [cooling EXCEPT ![In(t)] = call[t].wait]
  /\ slot' = [slot EXCEPT ![In(t)] = call[t].wait]
  /\ Ends(t)
  /\ Rearms(In(t))
  /\ UNCHANGED <<spent, asked, since, shared>>

\* Nothing left to wait for but the network.
Due(t) == \/ call[t].at \in {"slot", "free", "claim", "trip"}
          \/ call[t].at \in Asleep /\ call[t].wait = 0

\* Mutant of Less: a time long past counts as a negative wait.
LessUnfloored(n) == n - 1

Less(n) == IF n = 0 THEN 0 ELSE n - 1

Tick ==
  /\ \A t \in Thread : ~Due(t)
  /\ cooling' = [b \in Bucket |-> Less(cooling[b])]
  /\ slot' = [b \in Bucket |-> IF slot[b] = Unpaced THEN Unpaced ELSE Less(slot[b])]
  /\ call' = [t \in Thread |-> IF call[t].at \in Asleep
                               THEN [call[t] EXCEPT !.wait = Less(@)] ELSE call[t]]
  /\ asked' = [b \in Bucket |-> Less(asked[b])]
  /\ since' = [b \in Bucket |-> Shorter(since[b] + 1, PaceInterval)]
  /\ UNCHANGED <<spent, sends, shared, rearmed>>

-----------------------------------------------------------------------------
Init ==
  /\ cooling = [b \in Bucket |-> 0]
  /\ slot = [b \in Bucket |-> Unpaced]
  /\ spent = {}
  /\ call = [t \in Thread |-> NoCall]
  /\ sends = [t \in Thread |-> 0]
  /\ asked = [b \in Bucket |-> 0]
  /\ since = [b \in Bucket |-> PaceInterval]
  /\ shared = {}
  /\ rearmed = {}

Answer(t) ==
  \/ Lands(t)
  \/ Breaks(t)
  \/ \E after \in Header \cup {NoHeader} : TooMany(t, after) \/ Unwell(t, after)

Proceed(t) == ReserveSendSlot(t) \/ Send(t) \/ Answer(t) \/ TryClaimWait(t) \/ Trip(t)

Next ==
  \/ \E t \in Thread : Proceed(t)
  \/ \E t \in Thread, b \in Bucket, retried \in BOOLEAN : Begin(t, b, retried)
  \/ Tick

Spec == Init /\ [][Next]_vars

\* A call goes on until it ends: threads are scheduled, httpx times every
\* request out, the clock runs.  Nobody need begin a call.
FairSpec == Spec /\ WF_vars(Tick) /\ \A t \in Thread : WF_vars(Proceed(t))

-----------------------------------------------------------------------------
\* Every variable has its type: the timers never run below zero, and the
\* counts of a call stay within its retries.
TypeOK ==
  /\ cooling \in [Bucket -> Nat]
  /\ slot \in [Bucket -> Nat \cup {Unpaced}]
  /\ spent \subseteq Bucket
  /\ call \in [Thread -> Call \cup {NoCall}]
  /\ sends \in [Thread -> 0 .. Attempts + 1]
  /\ asked \in [Bucket -> Nat]
  /\ since \in [Bucket -> 0 .. PaceInterval]
  /\ shared \subseteq Bucket /\ rearmed \subseteq Bucket

\* The calls of this bucket have come one after the other so far, from
\* whichever thread.
Serial(b) == b \notin shared

\* A call costs a bounded number of requests, however the limiter and the
\* server mix their refusals: the allowance is not restored while the call
\* that spent it is still under way (http.py:53 and :231).
AttemptsBounded ==
  \A t \in Thread : InCall(t) /\ Serial(In(t)) => sends[t] <= Attempts

\* While the calls of its bucket come one after the other no call sleeps longer
\* than the longest cooldown a run may be blocked for: a longer one fails fast, in
\* this call and in the calls after it, whose slots lie behind the same cooldown
\* (http.py:66).  NeverFrozen is about calls that overlap.
BoundedSleep ==
  \A t \in Thread :
    InCall(t) /\ Serial(In(t)) /\ call[t].at \in Asleep =>
      call[t].wait <= MaxCooldownWait

\* While the calls of a bucket come one after the other no request goes out before
\* the Retry-After of the last 429 has passed, whether it is slept, waited out or
\* left to the breaker, and whichever of those calls sends it (http.py:63).
\* Overlapping calls are not held to it: one that is already past the breaker
\* sends all the same.
RetryAfterHonoured ==
  [][\A t \in Thread :
       At(t, "answer")' /\ ~At(t, "answer") /\ Serial(In(t)) => asked[In(t)] = 0]_vars

\* Requests that wake from reserve_send_slot's sleep, of however many calls at
\* once, leave the interval apart from each other (http.py:114, "queue up behind
\* each other").  No more is compared: a request that needed no slot, a retry and
\* the attempt after a waited-out cooldown take none, and may leave next to a
\* paced one.  A claim or trip that sets the next slot anew while some sleep gives
\* theirs out again.
PacedSendsApart ==
  [][\A t \in Thread :
       At(t, "pacing") /\ At(t, "answer")' /\ In(t) \notin rearmed =>
         since[In(t)] = PaceInterval]_vars

\* A call ends, answered or refused, unless others keep restoring the
\* allowance it spends.
EveryCallEnds ==
  \A t \in Thread : InCall(t) ~> ~InCall(t) \/ \E b \in Bucket : ~Serial(b)

\* A bucket that trips opens again: the calls that were under way then
\* cannot keep it closed between them.
Recovers ==
  \A b \in Bucket : cooling[b] > 0 ~> cooling[b] = 0

\* Whatever other threads do, no call sleeps much longer than the longest
\* cooldown a run may be blocked for: "Anything longer fails fast so an
\* interactive sync isn't silently frozen." (http.py:66-67)
NeverFrozen ==
  \A t \in Thread :
    InCall(t) /\ call[t].at \in Asleep =>
      call[t].wait <= MaxCooldownWait + PaceInterval

\* "further requests to the same bucket fail fast (no network) until the cooldown
\* passes" (http.py:14-15): a cooldown runs down with the clock, and no later trip
\* of a call that had passed the breaker before cuts it short.
CooldownRunsItsTime ==
  [][\A b \in Bucket : cooling'[b] >= Less(cooling[b])]_vars
=============================================================================
