------------------------------ MODULE SyncView ------------------------------
(***************************************************************************)
(* The TUI's sync screen: tui/views/sync.py.  A key starts a worker thread *)
(* that loads the configuration, may reconcile it with the follow list,    *)
(* and runs pipeline.sync over that copy; the pipeline's progress events   *)
(* come back to the UI thread, which updates the run's rows and renders.   *)
(*                                                                         *)
(* Rendering loads config.toml and the ledger again.  If it fails the      *)
(* callback raises into the worker, and from an event handler or out of a  *)
(* worker an exception ends the whole application.  A worker thread that   *)
(* was running then goes on without it: nobody stops it, and it may still  *)
(* save the configuration it has loaded.                                   *)
(***************************************************************************)
EXTENDS ConfigStore

VARIABLES
  auto,      \* [auth.substack].auto_reconcile
  alive,     \* the application runs
  inFlight,  \* _run.in_flight
  rows,      \* _run.subs: what the screen knows of each subscription
  final,     \* "none", "total" (_run.final) or "error" (_run.error)
  worker,    \* the sync workers
  orphans,   \* those whose application has ended
  runner     \* history: the worker started last

view == <<alive, inFlight, rows, final, runner>>
vars == <<configVars, auto, view, worker, orphans>>

Outcome == {"ok", "errors"}
Unknown == [n \in Name |-> "none"]

\* pc: what the thread does next; todo: subscriptions of the copy still to be
\* synced; current and outcome: the one under way, if any; told: what the screen
\* was told of those that finished; limited: a destination rate limited the run.
Worker ==
  [pc : {"idle", "load", "reconcile", "next", "items", "finish", "done", "fail"},
   todo : SUBSET Name, current : SUBSET Name, outcome : Outcome,
   told : [Name -> Outcome \cup {"none"}], limited : BOOLEAN]

Resting ==
  [pc |-> "idle", todo |-> {}, current |-> {}, outcome |-> "ok", told |-> Unknown, limited |-> FALSE]

TypeOK ==
  /\ ConfigTypeOK
  /\ auto \in BOOLEAN /\ alive \in BOOLEAN /\ inFlight \in BOOLEAN
  /\ rows \in [Name -> Outcome \cup {"none", "active"}]
  /\ final \in {"none", "total", "error"}
  /\ worker \in [Thread -> Worker] /\ runner \in Thread
  /\ orphans \subseteq {t \in Thread : worker[t].pc # "idle"}
  /\ \A t \in Thread : worker[t].pc # "reconcile" => ~Holds(t)

-----------------------------------------------------------------------------
(* The application and its key.                                            *)

\* Threads at work are left to themselves, and told nobody anything.
Collapses(workers) ==
  /\ alive' = FALSE
  /\ inFlight' = FALSE /\ rows' = Unknown /\ final' = "none"
  /\ worker' = [t \in Thread |-> [workers[t] EXCEPT !.told = Unknown]]
  /\ orphans' = {t \in Thread : workers[t].pc # "idle"}
  /\ LetsGo(Screen) /\ ui' = "rest" /\ asked' = NotAsked
  /\ UNCHANGED <<file, broken, shown, left, auto, runner>>

\* The user quits, the process is killed, or an exception escapes: rendering
\* for a key, a save or refresh of the subscription screen, the token probe.
Dies == alive /\ Collapses(worker)

\* One spare thread of the pool is as good as another.
SpareThread == CHOOSE t \in Thread : worker[t].pc = "idle"

Starts(t) ==
  /\ t = SpareThread
  /\ inFlight' = TRUE /\ rows' = Unknown /\ final' = "none"
  /\ runner' = t
  /\ worker' = [u \in Thread |->
       IF u = t THEN [Resting EXCEPT !.pc = "load"]
       ELSE IF worker[u].pc = "idle" THEN Resting ELSE worker[u]]
  /\ Initiative
  /\ UNCHANGED <<file, broken, held, screen, auto, alive, orphans>>

\* Mutant of PressSync: a second press starts a second worker.
PressSyncAgain(t) == alive /\ ui = "rest" /\ worker[t].pc = "idle" /\ ~broken /\ Starts(t)

\* The view is rendered before the worker starts: with a file that is broken the
\* application dies instead.
PressSync(t) ==
  /\ alive /\ ui = "rest" /\ ~inFlight /\ worker[t].pc = "idle"
  /\ ~broken /\ Starts(t)

-----------------------------------------------------------------------------
(* The worker.                                                             *)

Goes(t, pc) == worker' = [worker EXCEPT ![t].pc = pc]

\* However the run ends, what it was doing is forgotten.
Ends(t, pc) == worker' = [worker EXCEPT ![t] = [Resting EXCEPT !.pc = pc, !.told = worker[t].told]]

Quietly == UNCHANGED <<auto, view, orphans>>

Enabled(c) == {n \in Name : c[n] # Absent /\ ~c[n].disabled}

\* pipeline.sync over a configuration: disabled subscriptions are passed over.
Syncs(t, c) == worker' = [worker EXCEPT ![t].pc = "next", ![t].todo = Enabled(c)]

LoadConfig(t) ==
  /\ worker[t].pc = "load"
  /\ Quietly /\ UNCHANGED <<file, broken, screen, left>>
  /\ CASE broken -> Goes(t, "fail") /\ UNCHANGED held
       [] ~broken /\ auto ->
            Takes(t, [op |-> "import"]) /\ Goes(t, "reconcile")
       [] OTHER -> Syncs(t, file) /\ UNCHANGED held

\* The follow list has something new: the copy is saved and used.
Reconciles(t) ==
  /\ worker[t].pc = "reconcile"
  /\ AddFollows(held[t].copy) # held[t].copy
  /\ SaveConfig(t)
  /\ Syncs(t, AddFollows(held[t].copy))
  /\ Quietly /\ UNCHANGED <<screen, left>>

\* Nothing new, no credentials, an HTTP error or a rate limit.
ReconcilesNothing(t) ==
  /\ worker[t].pc = "reconcile"
  /\ LetsGo(t)
  /\ Syncs(t, held[t].copy)
  /\ Quietly /\ UNCHANGED <<file, broken, screen, left>>

\* Mutant of ReconcileRaises: the copy is kept.
ReconcileRaisesHolding(t) ==
  /\ worker[t].pc = "reconcile"
  /\ Goes(t, "fail")
  /\ Quietly /\ UNCHANGED configVars

\* An answer that is not the JSON expected raises past auto_reconcile's own
\* handler; so does a file that cannot be written.
ReconcileRaises(t) ==
  /\ worker[t].pc = "reconcile"
  /\ LetsGo(t)
  /\ Goes(t, "fail")
  /\ Quietly /\ UNCHANGED <<file, broken, screen, left>>

\* A rate limited destination defers the rest of its subscriptions.
Defers(t, n) ==
  /\ worker[t].pc = "next" /\ n \in worker[t].todo /\ worker[t].limited
  /\ worker' = [worker EXCEPT ![t].todo = @ \ {n}]
  /\ Quietly /\ UNCHANGED configVars

\* A callback waits for the UI thread; an orphan's changes nothing anyone sees.
Called(t) == t \in orphans \/ Listens

\* subscription_discovered, an item event or subscription_finished: the row is
\* updated, then the screen rendered.
Shows(t, n, state) ==
  /\ Called(t)
  /\ rows' = IF t \in orphans THEN rows ELSE [rows EXCEPT ![n] = state]
  /\ UNCHANGED <<alive, inFlight, final, runner, orphans>>

\* A ConfigError of the rendering counts as one of the subscription; an error of
\* the ledger ends the run.
Discovers(t, n) ==
  /\ worker[t].pc = "next" /\ n \in worker[t].todo
  /\ \E pc \in IF broken THEN {"finish"} ELSE {"items", "fail"} :
       worker' = [worker EXCEPT
         ![t].todo = @ \ {n}, ![t].current = {n}, ![t].pc = pc,
         ![t].outcome = IF broken THEN "errors" ELSE "ok"]
  /\ Shows(t, n, "active")
  /\ UNCHANGED <<configVars, auto>>

\* An unknown source, a bad option or a feed that cannot be had: no event
\* before the report.
DiscoverFails(t, n) ==
  /\ worker[t].pc = "next" /\ n \in worker[t].todo
  /\ worker' = [worker EXCEPT
       ![t].todo = @ \ {n}, ![t].current = {n}, ![t].pc = "finish", ![t].outcome = "errors"]
  /\ Quietly /\ UNCHANGED configVars

\* An item event that fails to render, or the last item.
ItemsEnd(t, o) ==
  /\ worker[t].pc = "items"
  /\ worker' = [worker EXCEPT ![t].pc = "finish", ![t].outcome = o]
  /\ Quietly /\ UNCHANGED configVars

ItemEventRaises(t) == broken /\ Called(t) /\ ItemsEnd(t, "errors")

\* Each item may fail, be behind a paywall, or go through.
LastItem(t) == \E o \in Outcome : ItemsEnd(t, o)

ItemsLimited(t) ==
  /\ worker[t].pc = "items"
  /\ worker' = [worker EXCEPT ![t].pc = "finish", ![t].outcome = "errors", ![t].limited = TRUE]
  /\ Quietly /\ UNCHANGED configVars

\* subscription_finished.  Rendering it is outside every handler of the
\* pipeline: the run ends if it raises.
Reports(t) ==
  /\ worker[t].pc = "finish"
  /\ \E n \in worker[t].current, pc \in IF broken THEN {"fail"} ELSE {"next", "fail"} :
       /\ Shows(t, n, worker[t].outcome)
       /\ worker' = [worker EXCEPT
            ![t].told = IF t \in orphans THEN @ ELSE [@ EXCEPT ![n] = worker[t].outcome],
            ![t].current = {}, ![t].outcome = "ok", ![t].pc = pc]
  /\ UNCHANGED <<configVars, auto>>

\* A refused token, the ledger or anything else the pipeline does not catch.
Raises(t) ==
  /\ worker[t].pc \in {"next", "items"}
  /\ Ends(t, "fail")
  /\ Quietly /\ UNCHANGED configVars

Completes(t) ==
  /\ worker[t].pc = "next" /\ worker[t].todo = {}
  /\ Ends(t, "done")
  /\ Quietly /\ UNCHANGED configVars

\* An orphan ends: its last callback raises, or the process is gone at last.
Perishes(t) ==
  /\ t \in orphans /\ orphans' = orphans \ {t}
  /\ Ends(t, "idle")
  /\ LetsGo(t)
  /\ UNCHANGED <<file, broken, screen, left, auto, view>>

\* _on_done clears the flag, then renders.  If that fails the error leaves the
\* worker, whose thread has ended, and takes the application with it.
OnDone(t, result) ==
  /\ t \notin orphans /\ Listens
  /\ \/ /\ ~broken
        /\ inFlight' = FALSE /\ final' = result
        /\ Ends(t, "idle")
        /\ UNCHANGED <<configVars, auto, alive, rows, runner, orphans>>
     \/ Collapses([worker EXCEPT ![t] = Resting])

Succeeds(t) == worker[t].pc = "done" /\ OnDone(t, "total")

\* Mutant of Fails: the flag is cleared by a successful run only.
FailsInFlight(t) ==
  /\ worker[t].pc = "fail" /\ t \notin orphans
  /\ Ends(t, "idle") /\ final' = "error"
  /\ UNCHANGED <<configVars, auto, alive, inFlight, rows, runner, orphans>>

Fails(t) == worker[t].pc = "fail" /\ OnDone(t, "error")

Work(t) ==
  \/ LoadConfig(t) \/ Reconciles(t) \/ ReconcilesNothing(t) \/ ReconcileRaises(t)
  \/ \E n \in Name : Defers(t, n) \/ Discovers(t, n) \/ DiscoverFails(t, n)
  \/ ItemEventRaises(t) \/ LastItem(t) \/ ItemsLimited(t) \/ Raises(t)
  \/ Reports(t) \/ Completes(t) \/ Succeeds(t) \/ Fails(t) \/ Perishes(t)

-----------------------------------------------------------------------------

\* on_mount renders: with a file that is broken there is no start.
Restarts ==
  /\ ~alive /\ ~broken
  /\ Initiative
  /\ alive' = TRUE /\ shown' = file
  /\ UNCHANGED <<file, broken, held, ui, asked, auto, inFlight, rows, final, worker, runner, orphans>>

Init ==
  /\ ConfigInit
  /\ auto \in BOOLEAN
  /\ alive = TRUE /\ inFlight = FALSE /\ rows = Unknown /\ final = "none"
  /\ worker = [t \in Thread |-> Resting] /\ orphans = {} /\ runner = SpareThread

ScreenKeys == alive /\ ScreenActs /\ UNCHANGED <<auto, view, worker, orphans>>

OtherProcesses == Elsewhere /\ UNCHANGED <<auto, view, worker, orphans>>

Next ==
  \/ \E t \in Thread : PressSync(t) \/ Work(t)
  \/ Dies \/ Restarts
  \/ ScreenKeys \/ OtherProcesses

\* An event handler of the subscription screen returns, or an error escapes it.
HandlerReturns ==
  \/ alive /\ ScreenHandles /\ UNCHANGED <<auto, view, worker, orphans>>
  \/ ui = "show" /\ broken /\ Dies

\* Threads run, and so does the UI's.
Spec ==
  Init /\ [][Next]_vars /\ WF_vars(HandlerReturns) /\ \A t \in Thread : WF_vars(Work(t))

-----------------------------------------------------------------------------
(* Properties.                                                             *)

\* The rows of the screen are those of the run it shows, also when the user
\* presses the key again or a worker of an application that has ended is still
\* at it, and a completed run's rows are its reports.
RowsAreThisRuns ==
  \A n \in Name :
    /\ rows[n] \in Outcome => worker[runner].told[n] = rows[n]
    /\ final = "total" => rows[n] = worker[runner].told[n]

\* However a run fails, its end is told and the key works again, and no thread
\* goes on for ever, with an application around it or without.
EverySyncEnds ==
  /\ inFlight ~> ~inFlight
  /\ \A t \in Thread : worker[t].pc # "idle" ~> worker[t].pc = "idle"

Saves(w) ==
  \/ w \in Process /\ Save(w)
  \/ w \in Thread /\ Reconciles(w)
  \/ w = Screen /\ ScreenSaves

\* A save of the whole file changes nothing but what it is for, unless its writer
\* held its copy while somebody else saved, and then it takes back no more than
\* what it missed: whoever writes, over old rows or for an ended application.
OnlyMissedEditsAreLost ==
  [][\A w \in Writer :
       Saves(w) =>
         /\ held[w].missed = {} => file' = Applied(file, held[w].edit)
         /\ \A n \in Name \ (Concerns(held[w].edit) \cup held[w].missed) : file'[n] = file[n]]_vars

\* "subscription changed; reopen Destination": however long the dialog was open,
\* what its save leaves under the name is the subscription of the row it was
\* opened for, whose location nobody had changed by the time it was answered.
RerouteIsOfTheSame ==
  [][ScreenSaves /\ asked # NotAsked =>
       LET n == asked.name IN
       /\ file'[n].url = asked.row.url
       /\ held[Screen].copy[n].location = asked.row.location]_vars
=============================================================================
