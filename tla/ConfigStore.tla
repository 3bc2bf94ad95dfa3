---------------------------- MODULE ConfigStore ----------------------------
(***************************************************************************)
(* config.toml and everything that rewrites it: the commands of the CLI,   *)
(* the importers, the TUI's subscription screen and the sync's automatic   *)
(* reconciliation with the Substack follow list.                           *)
(*                                                                         *)
(* Nobody locks the file.  A writer loads the whole file, works on its     *)
(* copy, in some cases after network calls or a prompt, and replaces the   *)
(* whole file by its copy with one rename: what was written in between is  *)
(* gone.  The event handlers of the subscription screen are such writers   *)
(* too; until they return the UI thread does nothing else.                 *)
(*                                                                         *)
(* A subscription is kept down to what those writers compare or change.    *)
(***************************************************************************)
EXTENDS Integers, FiniteSets

CONSTANTS
  Name,      \* subscription names
  Url,       \* feed URLs, one per host
  NoUrl,     \* the URL of a name without a subscription
  Follow,    \* the publication a name is the slug of, or NoUrl
  Process,   \* other processes that edit the file,
  Thread,    \* the threads of the TUI's sync worker, and
  Screen,    \* its subscription screen
  Edits,     \* the edits the processes may make
  Initially, \* what config.toml may hold at first
  Initiatives \* bound: what the user and the other processes start, all told

Writer == Process \cup Thread \cup {Screen}
Location == {"feed", "shiori"}

Absent == [url |-> NoUrl, disabled |-> FALSE, location |-> "feed"]
Entry == [url : Url, disabled : BOOLEAN, location : Location] \cup {Absent}
Config == [Name -> Entry]

\* What a command line asks for: an import concerns every name it may add.
Edit ==
  [op : {"add"}, name : Name, url : Url]
    \cup [op : {"remove", "disable", "enable"}, name : Name]
    \cup [op : {"import", "opml"}]

\* What the destination dialog asks for.
Route == [op : {"route"}, name : Name, location : Location]

ASSUME ConfigStoreAssumption ==
  /\ NoUrl \notin Url
  /\ Follow \in [Name -> Url \cup {NoUrl}]
  /\ Process \cap Thread = {} /\ Screen \notin Process \cup Thread /\ Thread # {}
  /\ Edits \subseteq Edit
  /\ Initially \subseteq Config
  /\ Initiatives \in Nat

VARIABLES
  file,      \* the subscriptions of config.toml
  broken,    \* the file is not a valid configuration: the user is editing it
  held,      \* the loaded copy of each writer, and what it will do to it
  shown,     \* _subs: the rows the subscription screen shows
  ui,        \* what the UI thread does there: it rests, asks for a destination,
             \* has an edit to save, or is to show or report what it did
  asked,     \* the row the destination dialog was opened for
  left       \* initiatives left

screen == <<shown, ui, asked>>
configVars == <<file, broken, held, screen, left>>

Initiative == left > 0 /\ left' = left - 1

NoEdit == [op |-> "none"]
NotAsked == [row |-> Absent]

Free == [edit |-> NoEdit, copy |-> [n \in Name |-> Absent], missed |-> {}]

Holds(w) == held[w].edit # NoEdit

\* missed: the subscriptions others have changed since a writer took its copy.
ConfigTypeOK ==
  /\ file \in Config /\ broken \in BOOLEAN /\ shown \in Config
  /\ left \in 0..Initiatives
  /\ held \in [Writer ->
       [edit : Edit \cup Route \cup {NoEdit}, copy : Config, missed : SUBSET Name]]
  /\ ui \in {"rest", "dialog", "edit", "show", "report"}
  /\ asked \in [name : Name, row : Entry] \cup {NotAsked}
  /\ Holds(Screen) <=> ui = "edit"

-----------------------------------------------------------------------------
(* Edits of a loaded configuration.                                        *)

Fresh(url) == [url |-> url, disabled |-> FALSE, location |-> "feed"]

\* A taken name is refused.
AddSubscription(c, n, url) == IF c[n] = Absent THEN [c EXCEPT ![n] = Fresh(url)] ELSE c

RemoveSubscription(c, n) == [c EXCEPT ![n] = Absent]

SetDisabled(c, n, b) == IF c[n] = Absent THEN c ELSE [c EXCEPT ![n].disabled = b]

SetLocation(c, n, l) == IF c[n] = Absent THEN c ELSE [c EXCEPT ![n].location = l]

Subscribed(c) == {c[n].url : n \in Name}

\* Every publication on the follow list whose host is not subscribed to.
AddFollows(c) ==
  [n \in Name |->
     IF Follow[n] \in Url \ Subscribed(c) THEN AddSubscription(c, n, Follow[n])[n] ELSE c[n]]

\* An OPML file goes by names alone.
AddFeeds(c) ==
  [n \in Name |-> IF Follow[n] \in Url THEN AddSubscription(c, n, Follow[n])[n] ELSE c[n]]

Applied(c, e) ==
  CASE e.op = "add" -> AddSubscription(c, e.name, e.url)
    [] e.op = "remove" -> RemoveSubscription(c, e.name)
    [] e.op = "disable" -> SetDisabled(c, e.name, TRUE)
    [] e.op = "enable" -> SetDisabled(c, e.name, FALSE)
    [] e.op = "import" -> AddFollows(c)
    [] e.op = "opml" -> AddFeeds(c)
    [] e.op = "route" -> SetLocation(c, e.name, e.location)

\* An import also rewrites the file to keep its credentials, or to no end.
RewritesAnyway(e) == e.op \in {"import", "opml"}

Concerns(e) == IF RewritesAnyway(e) THEN {n \in Name : Follow[n] # NoUrl} ELSE {e.name}

-----------------------------------------------------------------------------
(* Load and save.                                                          *)

Takes(w, e) == held' = [held EXCEPT ![w] = [edit |-> e, copy |-> file, missed |-> {}]]

LetsGo(w) == held' = [held EXCEPT ![w] = Free]

\* Whoever else holds a copy misses what changes now.
SaveConfig(w) ==
  /\ file' = Applied(held[w].copy, held[w].edit)
  /\ broken' = FALSE
  /\ held' = [v \in Writer |->
       IF v = w THEN Free
       ELSE IF Holds(v)
       THEN [held[v] EXCEPT !.missed = @ \cup {n \in Name : file'[n] # file[n]}]
       ELSE held[v]]

\* load_config refuses a broken file: the command ends with an error.
Load(p, e) ==
  /\ ~Holds(p) /\ ~broken
  /\ Initiative
  /\ Takes(p, e)
  /\ UNCHANGED <<file, broken, screen>>

Save(p) ==
  /\ Holds(p)
  /\ RewritesAnyway(held[p].edit) \/ Applied(held[p].copy, held[p].edit) # held[p].copy
  /\ SaveConfig(p)
  /\ UNCHANGED <<screen, left>>

\* Nothing to change, refused, an empty selection, an error or a crash: the
\* file stays as it is.
GivesUp(p) ==
  /\ Holds(p)
  /\ LetsGo(p)
  /\ UNCHANGED <<file, broken, screen, left>>

\* The user's own editor: the file is invalid until the edit is finished.
UserBreaks ==
  /\ ~broken /\ broken' = TRUE
  /\ Initiative
  /\ UNCHANGED <<file, held, screen>>

UserRepairs ==
  /\ broken /\ broken' = FALSE
  /\ UNCHANGED <<file, held, screen, left>>

-----------------------------------------------------------------------------
(* The subscription screen.                                                *)

\* The UI thread takes keys and callbacks.
Listens == ui \in {"rest", "dialog"}

ScreenRefreshes ==
  /\ Listens /\ ~broken
  /\ shown' = file
  /\ UNCHANGED <<file, broken, held, ui, asked, left>>

\* Delete and toggle go by the name in the row: it must be in the file.
ScreenEdits(n, op) ==
  /\ ui = "rest" /\ ~broken /\ shown[n] # Absent /\ file[n] # Absent
  /\ Initiative
  /\ Takes(Screen, [op |-> op, name |-> n])
  /\ ui' = "edit"
  /\ UNCHANGED <<file, broken, shown, asked>>

ScreenDeletes(n) == ScreenEdits(n, "remove")

\* Mutant of ScreenToggles: the copy to save is the rows on the screen.
ScreenTogglesItsRows(n) ==
  /\ ui = "rest" /\ ~broken /\ shown[n] # Absent /\ file[n] # Absent
  /\ Initiative
  /\ held' = [held EXCEPT ![Screen] =
       [edit |-> [op |-> IF shown[n].disabled THEN "enable" ELSE "disable", name |-> n],
        copy |-> shown, missed |-> {}]]
  /\ ui' = "edit"
  /\ UNCHANGED <<file, broken, shown, asked>>

\* The flag comes from the row, the rest from the file.
ScreenToggles(n) == ScreenEdits(n, IF shown[n].disabled THEN "enable" ELSE "disable")

ScreenAsks(n) ==
  /\ ui = "rest" /\ shown[n] # Absent
  /\ Initiative
  /\ ui' = "dialog" /\ asked' = [name |-> n, row |-> shown[n]]
  /\ UNCHANGED <<file, broken, held, shown>>

\* Cancelled, or the file cannot be read.
ScreenDrops ==
  /\ ui = "dialog"
  /\ ui' = "rest" /\ asked' = NotAsked
  /\ UNCHANGED <<file, broken, held, shown, left>>

\* Mutant of ScreenReroutes: whatever has the name now is rerouted.
ScreenReroutesTheName(l) ==
  /\ ui = "dialog" /\ ~broken
  /\ LET n == asked.name
         now == file[n]
     IN IF now # Absent /\ now.location = asked.row.location /\ l # now.location
        THEN /\ Takes(Screen, [op |-> "route", name |-> n, location |-> l])
             /\ ui' = "edit" /\ asked' = asked
        ELSE ui' = "report" /\ asked' = NotAsked /\ held' = held
  /\ UNCHANGED <<file, broken, shown, left>>

\* _save_destination: only if the subscription is the one the dialog was
\* opened for and its location has not been changed since.
ScreenReroutes(l) ==
  /\ ui = "dialog" /\ ~broken
  /\ LET n == asked.name
         now == file[n]
     IN IF now.url = asked.row.url /\ now.location = asked.row.location /\ l # now.location
        THEN /\ Takes(Screen, [op |-> "route", name |-> n, location |-> l])
             /\ ui' = "edit" /\ asked' = asked
        ELSE ui' = "report" /\ asked' = NotAsked /\ held' = held
  /\ UNCHANGED <<file, broken, shown, left>>

ScreenSaves ==
  /\ ui = "edit"
  /\ SaveConfig(Screen)
  /\ ui' = (IF asked = NotAsked THEN "show" ELSE "report") /\ asked' = NotAsked
  /\ UNCHANGED <<shown, left>>

\* Only the dialog's handler survives a file that cannot be written.
ScreenCannotSave ==
  /\ ui = "edit" /\ asked # NotAsked
  /\ LetsGo(Screen)
  /\ ui' = "rest" /\ asked' = NotAsked
  /\ UNCHANGED <<file, broken, shown, left>>

\* refresh_data after an edit reads the file once more.  The dialog's handler
\* survives an error of that as well, and keeps the rows it has.
ScreenShows ==
  /\ ui \in {"show", "report"} /\ ui' = "rest"
  /\ \/ ~broken /\ shown' = file
     \/ ui = "report" /\ shown' = shown
  /\ UNCHANGED <<file, broken, held, asked, left>>

ScreenHandles == ScreenSaves \/ ScreenCannotSave \/ ScreenShows

ScreenActs ==
  \/ ScreenRefreshes \/ ScreenDrops \/ ScreenHandles
  \/ \E n \in Name : ScreenDeletes(n) \/ ScreenToggles(n) \/ ScreenAsks(n)
  \/ \E l \in Location : ScreenReroutes(l)

Elsewhere ==
  \/ \E p \in Process : (\E e \in Edits : Load(p, e)) \/ Save(p) \/ GivesUp(p)
  \/ UserBreaks \/ UserRepairs

ConfigInit ==
  /\ file \in Initially
  /\ left = Initiatives
  /\ broken = FALSE /\ held = [w \in Writer |-> Free]
  /\ shown = file /\ ui = "rest" /\ asked = NotAsked
=============================================================================
