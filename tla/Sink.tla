-------------------------------- MODULE Sink --------------------------------
(***************************************************************************)
(* The destination sinks, sinks/readwise.py and sinks/shiori.py, and the   *)
(* pools that keep one sink per destination for a run: _SinkPool of a sync *)
(* or backfill, _BatchSink of `add`.  Both sinks pace their saves, wait    *)
(* out one Retry-After and post once more, and then trip a breaker that    *)
(* refuses further pushes at once.                                         *)
(*                                                                         *)
(* A POST passes through the HTTP client of module RateLimit, which does   *)
(* not retry it, but whose breaker may refuse it, and whose slots it       *)
(* sleeps for.  Both are set by GETs alone: those that check a token, on   *)
(* the TUI's threads, share the bucket of the sink's client.               *)
(*                                                                         *)
(* Times are what is left until them, in units of Tick.  Code takes no     *)
(* time; sleeping, an answer on its way, and whatever a run does between   *)
(* two pushes take any.                                                    *)
(***************************************************************************)
EXTENDS Integers

CONSTANTS
  Destination,  \* "readwise" and "shiori"
  Interval,     \* _SAVE_MIN_INTERVAL
  MinCooldown,  \* 60.0, also what an unreadable Retry-After stands for
  MaxWait,      \* _MAX_RETRY_AFTER_WAIT
  Header,       \* bound: the readable Retry-After values an answer may have
  Checked,      \* the destinations whose token is checked through their bucket
  Hold          \* bound: the sleeps for a slot of the client's limiter

Unreadable == -1

\* What resolve_token finds: none, one the provider accepts, one it rejects.
Token == {"missing", "good", "bad"}

ASSUME SinkAssumption ==
  /\ Interval \in Nat \ {0}
  /\ MinCooldown \in Nat /\ MaxWait \in Nat
  /\ Header \subseteq Nat
  /\ Checked \subseteq Destination /\ Hold \subseteq Nat \ {0}

VARIABLES
  run,      \* "none", "sync" or "batch"
  token,    \* what the configuration has for each destination
  made,     \* the destinations the pool has a sink for
  refused,  \* _auth_errors: the destinations whose sink could not be made
  gap,      \* _next_save_at of each sink
  blocked,  \* _blocked_until of each sink
  push,     \* the push under way
  owed,     \* history: the Retry-After of the sink's last 429
  since,    \* history: ticks since the sink's last POST, up to Interval
  late      \* history: the sink's last POST was a retry, or held up by the client

pool == <<run, token, made, refused>>
timers == <<gap, blocked, owed, since>>
vars == <<pool, timers, push, late>>

\* sleep: what is left of the sleep under way; slept: the sink's own sleeps of
\* this push so far; held: the client has had its slot for the next POST.
NoPush == [pc |-> "idle"]
Pushing(d) ==
  [pc : {"pace", "sent", "wait", "resent"}, to : {d},
   sleep : Nat, slept : 0..(Interval + MaxWait), held : BOOLEAN]

TypeOK ==
  /\ run \in {"none", "sync", "batch"}
  /\ token \in [Destination -> Token]
  /\ made \subseteq Destination /\ refused \subseteq Destination
  /\ gap \in [Destination -> 0..(2 * Interval)]
  /\ blocked \in [Destination -> Nat] /\ owed \in [Destination -> Nat]
  /\ since \in [Destination -> 0..Interval] /\ late \in [Destination -> BOOLEAN]
  /\ push = NoPush \/ \E d \in made : push \in Pushing(d)

-----------------------------------------------------------------------------
(* Pools.                                                                  *)

\* A new sink has nothing reserved, and nothing of it has been posted.
Built(ds) ==
  /\ made' = made \cup ds
  /\ gap' = [d \in Destination |-> IF d \in ds THEN 0 ELSE gap[d]]
  /\ blocked' = [d \in Destination |-> IF d \in ds THEN 0 ELSE blocked[d]]
  /\ owed' = [d \in Destination |-> IF d \in ds THEN 0 ELSE owed[d]]
  /\ since' = [d \in Destination |-> IF d \in ds THEN Interval ELSE since[d]]
  /\ late' = [d \in Destination |-> IF d \in ds THEN FALSE ELSE late[d]]

\* prepare: the sinks of all enabled subscriptions, or no run at all.
StartSync(ds) ==
  /\ run = "none" /\ run' = "sync"
  /\ token' \in [Destination -> Token]
  /\ \A d \in ds : token'[d] # "missing"
  /\ Built(ds)
  /\ UNCHANGED <<refused, push>>

StartBatch ==
  /\ run = "none" /\ run' = "batch"
  /\ token' \in [Destination -> Token]
  /\ UNCHANGED <<made, refused, timers, push, late>>

\* _BatchSink.get: a sink is made when it is first needed; that it could not be
\* made is remembered.
BatchGets(d) ==
  /\ run = "batch" /\ push = NoPush
  /\ d \notin made \cup refused
  /\ IF token[d] = "missing"
     THEN refused' = refused \cup {d} /\ UNCHANGED <<made, timers, late>>
     ELSE Built({d}) /\ UNCHANGED refused
  /\ UNCHANGED <<run, token, push>>

Closed == run' = "none" /\ made' = {} /\ refused' = {} /\ push' = NoPush /\ UNCHANGED token

Close ==
  /\ run # "none" /\ push = NoPush
  /\ Closed /\ UNCHANGED <<timers, late>>

-----------------------------------------------------------------------------
(* A push.                                                                 *)

\* Mutant of Pace: the slot the push was given is forgotten.
PaceFromNow(d) == Interval

\* The next slot is Interval after the one this push sleeps for.
Pace(d) == gap[d] + Interval

\* The breaker refuses: push raises RateLimited and nothing changes.  An open
\* one lets the push pace itself.
Push(d) ==
  /\ push = NoPush /\ d \in made
  /\ blocked[d] = 0
  /\ push' = [pc |-> "pace", to |-> d, sleep |-> gap[d], slept |-> gap[d],
               held |-> FALSE]
  /\ gap' = [gap EXCEPT ![d] = Pace(d)]
  /\ UNCHANGED <<pool, blocked, owed, since, late>>

\* The pacing, or the Retry-After, is over and the POST handed to the client.
Handed(d) == push.pc \in {"pace", "wait"} /\ push.to = d /\ push.sleep = 0

\* The client's breaker is closed to everyone: push raises RateLimited, with the
\* sink's own breaker as it was and the slot spent.
ClientRefuses(d) ==
  /\ Handed(d) /\ ~push.held /\ d \in Checked
  /\ push' = NoPush
  /\ UNCHANGED <<pool, timers, late>>

\* The client sleeps for a slot of its own, which the sink knows nothing of.
ClientHolds(d, n) ==
  /\ Handed(d) /\ ~push.held /\ d \in Checked
  /\ push' = [push EXCEPT !.sleep = n, !.held = TRUE]
  /\ UNCHANGED <<pool, timers, late>>

Posts(d, pc) ==
  /\ push' = [push EXCEPT !.pc = pc, !.held = FALSE]
  /\ since' = [since EXCEPT ![d] = 0]
  /\ late' = [late EXCEPT ![d] = (pc = "resent" \/ push.held)]
  /\ UNCHANGED <<pool, gap, blocked, owed>>

Post(d) ==
  /\ Handed(d) /\ push.pc = "pace"
  /\ Posts(d, "sent")

\* Once more after the wait, without a slot of its own.
PostAgain(d) ==
  /\ Handed(d) /\ push.pc = "wait"
  /\ Posts(d, "resent")

Posted(d) == push.pc \in {"sent", "resent"} /\ push.to = d

\* Saved, refused, an unexpected body, or no answer: back to the run.
Answered(d) ==
  /\ Posted(d) /\ token[d] = "good"
  /\ push' = NoPush
  /\ UNCHANGED <<pool, timers, late>>

\* No request of a rejected token is worth repeating: it ends a sync, and an
\* add goes on with the next URL.
Unauthorized(d) ==
  /\ Posted(d) /\ token[d] = "bad"
  /\ IF run = "sync" THEN Closed ELSE push' = NoPush /\ UNCHANGED pool
  /\ UNCHANGED <<timers, late>>

RetryAfterSeconds(h) == IF h = Unreadable THEN MinCooldown ELSE h

\* Mutant of Cooldown: the floor alone.
CooldownFloor(ra) == MinCooldown

Cooldown(ra) == IF ra > MinCooldown THEN ra ELSE MinCooldown

\* Mutant of WorthWaiting: only the breaker's own cooldown is too long.
WorthWaitingLonger(ra) == ra <= MaxWait + MinCooldown

WorthWaiting(ra) == ra <= MaxWait

Waits(d, ra) ==
  /\ push' = [push EXCEPT !.pc = "wait", !.sleep = ra, !.slept = @ + ra]
  /\ UNCHANGED blocked

Trips(d, ra) ==
  /\ blocked' = [blocked EXCEPT ![d] = Cooldown(ra)]
  /\ push' = NoPush

TooMany(d, h) ==
  LET ra == RetryAfterSeconds(h) IN
  /\ Posted(d)
  /\ owed' = [owed EXCEPT ![d] = ra]
  /\ IF push.pc = "sent" /\ WorthWaiting(ra) THEN Waits(d, ra) ELSE Trips(d, ra)
  /\ UNCHANGED <<pool, gap, since, late>>

-----------------------------------------------------------------------------
(* Time.                                                                   *)

Less(n) == IF n = 0 THEN 0 ELSE n - 1

Runs(f) == [d \in Destination |-> Less(f[d])]

\* Nothing waits with its sleep over: what comes next takes no time.
Tick ==
  /\ push.pc \in {"pace", "wait"} => push.sleep > 0
  /\ push' = IF push.pc \in {"pace", "wait"} THEN [push EXCEPT !.sleep = @ - 1] ELSE push
  /\ gap' = Runs(gap) /\ blocked' = Runs(blocked) /\ owed' = Runs(owed)
  /\ since' = [d \in Destination |-> IF since[d] < Interval THEN since[d] + 1 ELSE Interval]
  /\ UNCHANGED <<pool, late>>

Init ==
  /\ run = "none" /\ token \in [Destination -> Token]
  /\ made = {} /\ refused = {} /\ push = NoPush
  /\ gap = [d \in Destination |-> 0] /\ blocked = [d \in Destination |-> 0]
  /\ owed = [d \in Destination |-> 0]
  /\ since = [d \in Destination |-> Interval] /\ late = [d \in Destination |-> FALSE]

Next ==
  \/ \E ds \in SUBSET Destination : StartSync(ds)
  \/ StartBatch \/ Close
  \/ \E d \in Destination :
       \/ BatchGets(d) \/ Push(d)
       \/ ClientRefuses(d) \/ (\E n \in Hold : ClientHolds(d, n))
       \/ Post(d) \/ PostAgain(d)
       \/ Answered(d) \/ Unauthorized(d)
       \/ \E h \in Header \cup {Unreadable} : TooMany(d, h)
  \/ Tick

Spec == Init /\ [][Next]_vars

-----------------------------------------------------------------------------
(* Properties.                                                             *)

Sends(d) == Post(d) \/ PostAgain(d)

\* While a sink lives, it posts nothing before the Retry-After of its last 429
\* has passed: neither the retry, nor the next push once the breaker opens.
RetryAfterHonoured ==
  [][\A d \in Destination : Sends(d) => owed[d] = 0]_vars

\* Two saves of one sink are at least Interval apart, however long the first
\* slept for its slot, unless the second is the retry after a 429, or the first
\* came late for its slot: as a retry, or held up by the client.
SpacedUnlessLate ==
  [][\A d \in Destination :
       Sends(d) /\ since[d] < Interval => late[d] \/ PostAgain(d)]_vars

\* The sink's own sleeps keep a run waiting no longer than one slot and one
\* Retry-After worth waiting for; a longer cooldown is left to the breaker.
BoundedPush == push # NoPush => push.slept <= Interval + MaxWait
=============================================================================
