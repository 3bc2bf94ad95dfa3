--------------------------- MODULE SyncViewProofs ---------------------------
(***************************************************************************)
(* Theorems of SyncView for any subscriptions, processes, threads and      *)
(* edits: the configuration file first, then the sync screen.              *)
(***************************************************************************)
EXTENDS SyncView, TLAPS

AnyEdit == Edit \cup Route

HeldTypes == [edit : Edit \cup Route \cup {NoEdit}, copy : Config, missed : SUBSET Name]

\* A copy is the file but for what its writer has missed.
CopiesAreCurrent ==
  \A w \in Writer :
    Holds(w) => \A n \in Name \ held[w].missed : held[w].copy[n] = file[n]

FileInv ==
  /\ file \in Config /\ broken \in BOOLEAN /\ shown \in Config
  /\ left \in 0..Initiatives
  /\ held \in [Writer -> HeldTypes]
  /\ CopiesAreCurrent

\* What the dialog has asked for is on its way to being saved, for the row it
\* was opened for.
Answered ==
  LET h == held[Screen] IN
  /\ h.edit \in Route /\ h.edit.name = asked.name
  /\ h.copy[asked.name].url = asked.row.url
  /\ h.copy[asked.name].location = asked.row.location

ScreenInv ==
  /\ ui \in {"rest", "dialog", "edit", "show", "report"}
  /\ asked \in [name : Name, row : Entry] \cup {NotAsked}
  /\ Holds(Screen) <=> ui = "edit"
  /\ ui = "dialog" => asked # NotAsked
  /\ ui \notin {"dialog", "edit"} => asked = NotAsked
  /\ ui = "edit" /\ asked # NotAsked => Answered

ConfigInv == FileInv /\ ScreenInv

\* A thread has a copy it may save exactly while it reconciles.
CopyHeld == \A t \in Thread : Holds(t) <=> worker[t].pc = "reconcile"

-----------------------------------------------------------------------------
(* The file.                                                               *)

LEMMA EntryTypes ==
  /\ Absent \in Entry /\ \A u \in Url : Fresh(u) \in Entry /\ Fresh(u) # Absent
  /\ \A x \in Entry : x # Absent => x \in [url : Url, disabled : BOOLEAN, location : Location]
BY ConfigStoreAssumption DEF Entry, Absent, Fresh, Location

LEMMA FreeTypes == Free \in HeldTypes /\ Free.edit = NoEdit
BY EntryTypes DEF Free, Config, HeldTypes

LEMMA NoEditIsNone == NoEdit \notin AnyEdit
BY DEF NoEdit, AnyEdit, Edit, Route

\* An edit makes a configuration of a configuration, and leaves what it does
\* not concern as it was.
LEMMA EditsTheirOwn ==
  ASSUME NEW c \in Config, NEW e \in AnyEdit
  PROVE  /\ Applied(c, e) \in Config
         /\ \A n \in Name \ Concerns(e) : Applied(c, e)[n] = c[n]
<1>1. \A n \in Name, u \in Url : /\ AddSubscription(c, n, u) \in Config
                                 /\ \A m \in Name \ {n} : AddSubscription(c, n, u)[m] = c[m]
  BY EntryTypes DEF AddSubscription, Config
<1>2. CASE e \in Edit /\ e.op = "add"
  <2>1. e.name \in Name /\ e.url \in Url BY <1>2 DEF Edit
  <2>2. Applied(c, e) = AddSubscription(c, e.name, e.url) BY <1>2 DEF Applied
  <2>3. Concerns(e) = {e.name} BY <1>2 DEF Concerns, RewritesAnyway
  <2> QED BY <1>1, <2>1, <2>2, <2>3
<1>3. CASE e \in Edit /\ e.op = "remove"
  <2>1. e.name \in Name BY <1>3 DEF Edit
  <2>2. Applied(c, e) = RemoveSubscription(c, e.name) BY <1>3 DEF Applied
  <2>3. Concerns(e) = {e.name} BY <1>3 DEF Concerns, RewritesAnyway
  <2> QED BY <2>1, <2>2, <2>3, EntryTypes DEF RemoveSubscription, Config
<1>4. CASE e \in Edit /\ e.op \in {"disable", "enable"}
  <2>1. e.name \in Name BY <1>4 DEF Edit
  <2>2. PICK b \in BOOLEAN : Applied(c, e) = SetDisabled(c, e.name, b) BY <1>4 DEF Applied
  <2>3. Concerns(e) = {e.name} BY <1>4 DEF Concerns, RewritesAnyway
  <2> QED BY <2>1, <2>2, <2>3, EntryTypes DEF SetDisabled, Config, Entry
<1>5. CASE e \in Edit /\ e.op = "import"
  <2>1. Applied(c, e) = AddFollows(c) BY <1>5 DEF Applied
  <2>2. Concerns(e) = {n \in Name : Follow[n] # NoUrl} BY <1>5 DEF Concerns, RewritesAnyway
  <2> QED BY <1>1, <2>1, <2>2, ConfigStoreAssumption DEF AddFollows, Config
<1>6. CASE e \in Edit /\ e.op = "opml"
  <2>1. Applied(c, e) = AddFeeds(c) BY <1>6 DEF Applied
  <2>2. Concerns(e) = {n \in Name : Follow[n] # NoUrl} BY <1>6 DEF Concerns, RewritesAnyway
  <2> QED BY <1>1, <2>1, <2>2, ConfigStoreAssumption DEF AddFeeds, Config
<1>7. CASE e \in Route
  <2>1. e.name \in Name /\ e.location \in Location /\ e.op = "route" BY <1>7 DEF Route
  <2>2. Applied(c, e) = SetLocation(c, e.name, e.location) BY <2>1 DEF Applied
  <2>3. Concerns(e) = {e.name} BY <2>1 DEF Concerns, RewritesAnyway
  <2> QED BY <2>1, <2>2, <2>3, EntryTypes DEF SetLocation, Config, Entry
<1>8. e \in Edit => e.op \in {"add", "remove", "disable", "enable", "import", "opml"} BY DEF Edit
<1> QED BY <1>2, <1>3, <1>4, <1>5, <1>6, <1>7, <1>8 DEF AnyEdit

LEMMA SpendsOne == FileInv /\ Initiative => left' \in 0..Initiatives
BY ConfigStoreAssumption DEF FileInv, Initiative

\* Whether and what a writer holds stays as it was.
Undisturbed(w) ==
  /\ Holds(w)' <=> Holds(w)
  /\ held'[w].edit = held[w].edit /\ held'[w].copy = held[w].copy

\* The ways a step changes what is held.
LEMMA FileKept ==
  ASSUME FileInv, file' = file, broken' \in BOOLEAN, shown' \in Config,
         left' \in 0..Initiatives, held' = held
  PROVE  FileInv' /\ \A w \in Writer : Undisturbed(w)
BY DEF FileInv, CopiesAreCurrent, Holds, Undisturbed

LEMMA FileTaken ==
  ASSUME FileInv, NEW w \in Writer, NEW e \in AnyEdit, Takes(w, e),
         UNCHANGED <<file, broken, shown>>, left' \in 0..Initiatives
  PROVE  /\ FileInv' /\ Holds(w)' /\ held'[w].edit = e /\ held'[w].copy = file
         /\ \A v \in Writer \ {w} : Undisturbed(v)
<1>1. \A v \in Writer \ {w} : held'[v] = held[v] BY DEF Takes, FileInv
<1>2. held'[w] = [edit |-> e, copy |-> file, missed |-> {}] BY DEF Takes, FileInv
<1>3. held'[w] \in HeldTypes BY <1>2 DEF HeldTypes, AnyEdit, FileInv
<1>4. held' \in [Writer -> HeldTypes] BY <1>3 DEF Takes, FileInv
<1>5. Holds(w)' BY <1>2, NoEditIsNone DEF Holds
<1>6. CopiesAreCurrent' BY <1>1, <1>2 DEF FileInv, CopiesAreCurrent, Holds
<1> QED BY <1>1, <1>2, <1>4, <1>5, <1>6 DEF FileInv, Holds, Undisturbed

LEMMA FileFreed ==
  ASSUME FileInv, NEW w \in Writer, LetsGo(w),
         UNCHANGED <<file, broken, left>>, shown' \in Config
  PROVE  FileInv' /\ ~Holds(w)' /\ \A v \in Writer \ {w} : Undisturbed(v)
<1>1. held' \in [Writer -> HeldTypes] BY FreeTypes DEF LetsGo, FileInv
<1>2. held'[w] = Free /\ \A v \in Writer \ {w} : held'[v] = held[v] BY DEF LetsGo, FileInv
<1> QED BY <1>1, <1>2, FreeTypes DEF FileInv, CopiesAreCurrent, Holds, Undisturbed

LEMMA FileSaved ==
  ASSUME FileInv, NEW w \in Writer, Holds(w), SaveConfig(w),
         UNCHANGED <<shown, left>>
  PROVE  FileInv' /\ ~Holds(w)' /\ \A v \in Writer \ {w} : Undisturbed(v)
<1>1. held[w].copy \in Config /\ held[w].edit \in AnyEdit
  BY DEF FileInv, HeldTypes, Holds, AnyEdit
<1>2. file' \in Config /\ broken' = FALSE BY <1>1, EditsTheirOwn DEF SaveConfig
<1>3. held'[w] = Free BY DEF SaveConfig
<1> DEFINE Changed == {n \in Name : file'[n] # file[n]}
<1>4. \A v \in Writer \ {w} :
        held'[v] = IF Holds(v) THEN [held[v] EXCEPT !.missed = @ \cup Changed] ELSE held[v]
  BY DEF SaveConfig
<1>5. ASSUME NEW v \in Writer \ {w}
      PROVE  held'[v] \in HeldTypes /\ Undisturbed(v)
             /\ (Holds(v) => held'[v].missed = held[v].missed \cup Changed)
  <2>1. held[v] \in HeldTypes BY DEF FileInv
  <2>2. CASE Holds(v)
    <3>1. held'[v] = [held[v] EXCEPT !.missed = @ \cup Changed] BY <1>4, <2>2
    <3>2. held[v].missed \cup Changed \in SUBSET Name BY <2>1 DEF HeldTypes
    <3> HIDE DEF Changed
    <3>3. /\ held'[v] \in HeldTypes /\ held'[v].edit = held[v].edit
          /\ held'[v].copy = held[v].copy /\ held'[v].missed = held[v].missed \cup Changed
      BY <2>1, <3>1, <3>2 DEF HeldTypes
    <3> QED BY <3>3 DEF Undisturbed, Holds
  <2>3. CASE ~Holds(v) BY <1>4, <2>1, <2>3 DEF Undisturbed, Holds
  <2> QED BY <2>2, <2>3
<1>6. held' \in [Writer -> HeldTypes]
  <2>1. held' = [v \in Writer |-> held'[v]] BY DEF SaveConfig
  <2> QED BY <1>3, <1>5, <2>1, FreeTypes
<1>7. CopiesAreCurrent'
  <2>1. ASSUME NEW v \in Writer, Holds(v)', NEW n \in Name \ held'[v].missed
        PROVE  held'[v].copy[n] = file'[n]
    <3>1. v # w BY <1>3, <2>1, FreeTypes DEF Holds
    <3>2. Holds(v) /\ held'[v].copy = held[v].copy BY <1>5, <2>1, <3>1 DEF Undisturbed
    <3>3. n \notin held[v].missed /\ file'[n] = file[n] BY <1>5, <2>1, <3>1, <3>2
    <3> QED BY <3>2, <3>3 DEF FileInv, CopiesAreCurrent
  <2> QED BY <2>1 DEF CopiesAreCurrent
<1> QED BY <1>2, <1>3, <1>5, <1>6, <1>7, FreeTypes DEF FileInv, Holds

\* The screen's own state, when nothing happens on it.
LEMMA ScreenKept ==
  ASSUME ScreenInv, UNCHANGED <<ui, asked>>, Undisturbed(Screen)
  PROVE  ScreenInv'
BY DEF ScreenInv, Answered, Undisturbed

LEMMA WriterTypes ==
  /\ Thread \subseteq Writer /\ Process \subseteq Writer /\ Screen \in Writer
  /\ \A p \in Process : p \notin Thread /\ p # Screen
  /\ \A t \in Thread : t # Screen
BY ConfigStoreAssumption DEF Writer

LEMMA ElsewhereStep ==
  ASSUME ConfigInv, Elsewhere
  PROVE  ConfigInv' /\ \A t \in Thread : Holds(t)' <=> Holds(t)
<1> USE WriterTypes
<1>0. /\ FileInv /\ ScreenInv
      /\ file \in Config /\ shown \in Config /\ broken \in BOOLEAN /\ left \in 0..Initiatives
  BY DEF ConfigInv, FileInv
<1>1. ASSUME FileInv', UNCHANGED screen, NEW p \in Process,
             \A v \in Writer \ {p} : Undisturbed(v)
      PROVE  ConfigInv' /\ \A t \in Thread : Holds(t)' <=> Holds(t)
  <2>1. ScreenInv' BY <1>0, <1>1, ScreenKept DEF screen
  <2> QED BY <1>1, <2>1 DEF ConfigInv, Undisturbed
<1>2. ASSUME NEW p \in Process, NEW e \in Edits, Load(p, e)
      PROVE  ConfigInv' /\ \A t \in Thread : Holds(t)' <=> Holds(t)
  <2>1. e \in AnyEdit BY ConfigStoreAssumption DEF AnyEdit
  <2>2. left' \in 0..Initiatives BY <1>0, <1>2, SpendsOne DEF Load
  <2>3. Takes(p, e) /\ UNCHANGED <<file, broken, shown>> /\ UNCHANGED screen
    BY <1>2 DEF Load, screen
  <2>4. FileInv' /\ \A v \in Writer \ {p} : Undisturbed(v)
    BY <1>0, <2>1, <2>2, <2>3, FileTaken
  <2> QED BY <1>1, <2>3, <2>4
<1>3. ASSUME NEW p \in Process, Save(p)
      PROVE  ConfigInv' /\ \A t \in Thread : Holds(t)' <=> Holds(t)
  <2>1. UNCHANGED screen /\ UNCHANGED <<shown, left>> BY <1>3 DEF Save, screen
  <2> QED BY <1>0, <1>1, <1>3, <2>1, FileSaved DEF Save
<1>4. ASSUME NEW p \in Process, GivesUp(p)
      PROVE  ConfigInv' /\ \A t \in Thread : Holds(t)' <=> Holds(t)
  <2>1. UNCHANGED screen /\ shown' \in Config BY <1>0, <1>4 DEF GivesUp, screen
  <2> QED BY <1>0, <1>1, <1>4, <2>1, FileFreed DEF GivesUp
<1>5. CASE UserBreaks \/ UserRepairs
  <2>1. left' \in 0..Initiatives /\ broken' \in BOOLEAN
    BY <1>0, <1>5, SpendsOne DEF UserBreaks, UserRepairs
  <2>2. UNCHANGED <<file, held, shown, ui, asked>> BY <1>5 DEF UserBreaks, UserRepairs, screen
  <2>3. FileInv' /\ \A w \in Writer : Undisturbed(w) BY <1>0, <2>1, <2>2, FileKept
  <2>4. ScreenInv' BY <1>0, <2>2, <2>3, ScreenKept
  <2> QED BY <2>3, <2>4 DEF ConfigInv, Undisturbed
<1> QED BY <1>2, <1>3, <1>4, <1>5 DEF Elsewhere

LEMMA AskedTypes ==
  /\ NotAsked \notin [name : Name, row : Entry]
  /\ \A c \in Config, n \in Name : [name |-> n, row |-> c[n]] \in [name : Name, row : Entry]
BY DEF NotAsked, Config

\* The screen takes a copy.
LEMMA ScreenTakes ==
  ASSUME ConfigInv, NEW e \in AnyEdit, Takes(Screen, e), ui' = "edit", asked' = asked,
         UNCHANGED <<file, broken, shown>>, left' \in 0..Initiatives,
         asked # NotAsked =>
           /\ e \in Route /\ e.name = asked.name
           /\ file[asked.name].url = asked.row.url
           /\ file[asked.name].location = asked.row.location
  PROVE  ConfigInv' /\ \A t \in Thread : Holds(t)' <=> Holds(t)
<1>1. /\ FileInv' /\ Holds(Screen)' /\ held'[Screen].edit = e /\ held'[Screen].copy = file
      /\ \A v \in Writer \ {Screen} : Undisturbed(v)
  BY WriterTypes, FileTaken DEF ConfigInv
<1>2. ScreenInv'
  <2>1. asked # NotAsked => Answered' BY <1>1 DEF Answered
  <2> QED BY <1>1, <2>1 DEF ConfigInv, ScreenInv
<1> QED BY <1>1, <1>2, WriterTypes DEF ConfigInv, Undisturbed

\* Its handler rests, or goes on with nothing in hand.
LEMMA ScreenRests ==
  ASSUME FileInv', ~Holds(Screen)', ui' \in {"rest", "show", "report"}, asked' = NotAsked,
         \A v \in Writer \ {Screen} : Undisturbed(v)
  PROVE  ConfigInv' /\ \A t \in Thread : Holds(t)' <=> Holds(t)
BY WriterTypes DEF ConfigInv, ScreenInv, Undisturbed

LEMMA ScreenStep ==
  ASSUME ConfigInv, ScreenActs
  PROVE  ConfigInv' /\ \A t \in Thread : Holds(t)' <=> Holds(t)
<1> USE WriterTypes
<1>0. /\ FileInv /\ ScreenInv
      /\ file \in Config /\ shown \in Config /\ broken \in BOOLEAN /\ left \in 0..Initiatives
  BY DEF ConfigInv, FileInv
<1>1. ASSUME UNCHANGED <<file, broken, held, left>>, shown' \in Config
      PROVE  FileInv' /\ \A w \in Writer : Undisturbed(w)
  BY <1>0, <1>1, FileKept
<1>2. CASE ScreenRefreshes
  <2>1. FileInv' /\ \A w \in Writer : Undisturbed(w) BY <1>0, <1>1, <1>2 DEF ScreenRefreshes
  <2>2. ScreenInv' BY <1>0, <1>2, <2>1, ScreenKept DEF ScreenRefreshes
  <2> QED BY <2>1, <2>2 DEF ConfigInv, Undisturbed
<1>3. ASSUME NEW n \in Name, NEW op \in {"remove", "disable", "enable"}, ScreenEdits(n, op)
      PROVE  ConfigInv' /\ \A t \in Thread : Holds(t)' <=> Holds(t)
  <2>1. [op |-> op, name |-> n] \in AnyEdit BY DEF AnyEdit, Edit
  <2>2. left' \in 0..Initiatives BY <1>0, <1>3, SpendsOne DEF ScreenEdits
  <2>3. asked = NotAsked BY <1>0, <1>3 DEF ScreenEdits, ScreenInv
  <2> QED BY <1>3, <2>1, <2>2, <2>3, ScreenTakes DEF ScreenEdits
<1>4. ASSUME NEW n \in Name, ScreenDeletes(n) \/ ScreenToggles(n)
      PROVE  ConfigInv' /\ \A t \in Thread : Holds(t)' <=> Holds(t)
  BY <1>3, <1>4 DEF ScreenDeletes, ScreenToggles
<1>5. ASSUME NEW n \in Name, ScreenAsks(n)
      PROVE  ConfigInv' /\ \A t \in Thread : Holds(t)' <=> Holds(t)
  <2>1. left' \in 0..Initiatives BY <1>0, <1>5, SpendsOne DEF ScreenAsks
  <2>2. FileInv' /\ \A w \in Writer : Undisturbed(w)
    BY <1>0, <1>5, <2>1, FileKept DEF ScreenAsks
  <2>3. asked' \in [name : Name, row : Entry] /\ ui' = "dialog" /\ ui = "rest"
    BY <1>0, <1>5, AskedTypes DEF ScreenAsks
  <2>4. ~Holds(Screen)' BY <1>0, <2>2, <2>3 DEF ScreenInv, Undisturbed
  <2>5. ScreenInv' BY <2>3, <2>4, AskedTypes DEF ScreenInv
  <2> QED BY <2>2, <2>5 DEF ConfigInv, Undisturbed
<1>6. CASE ScreenDrops \/ ScreenShows
  <2>1. /\ UNCHANGED <<file, broken, held, left>> /\ shown' \in Config
        /\ ui # "edit" /\ ui' = "rest" /\ asked' = NotAsked
    BY <1>0, <1>6 DEF ScreenDrops, ScreenShows, ScreenInv
  <2>2. FileInv' /\ \A w \in Writer : Undisturbed(w) BY <1>1, <2>1
  <2>3. ~Holds(Screen)' BY <1>0, <2>1, <2>2 DEF ScreenInv, Undisturbed
  <2> QED BY <2>1, <2>2, <2>3, ScreenRests
<1>7. ASSUME NEW l \in Location, ScreenReroutes(l)
      PROVE  ConfigInv' /\ \A t \in Thread : Holds(t)' <=> Holds(t)
  <2>1. /\ ui = "dialog" /\ UNCHANGED <<file, broken, shown, left>>
        /\ asked \in [name : Name, row : Entry]
    BY <1>0, <1>7 DEF ScreenReroutes, ScreenInv
  <2> DEFINE e == [op |-> "route", name |-> asked.name, location |-> l]
  <2>2. CASE /\ file[asked.name].url = asked.row.url
             /\ file[asked.name].location = asked.row.location /\ l # file[asked.name].location
    <3>1. Takes(Screen, e) /\ ui' = "edit" /\ asked' = asked
      BY <1>7, <2>2 DEF ScreenReroutes
    <3>2. e \in Route /\ e.name = asked.name BY <2>1 DEF Route
    <3>3. e \in AnyEdit BY <3>2 DEF AnyEdit
    <3>4. left' \in 0..Initiatives BY <1>0, <2>1
    <3> HIDE DEF e
    <3> QED BY <2>1, <2>2, <3>1, <3>2, <3>3, <3>4, ScreenTakes
  <2>3. CASE ui' = "report" /\ asked' = NotAsked /\ held' = held
    <3>1. FileInv' /\ \A w \in Writer : Undisturbed(w) BY <1>0, <1>1, <2>1, <2>3
    <3>2. ~Holds(Screen)' BY <1>0, <2>1, <3>1 DEF ScreenInv, Undisturbed
    <3> QED BY <2>3, <3>1, <3>2, ScreenRests
  <2> QED BY <1>7, <2>2, <2>3 DEF ScreenReroutes
<1>8. CASE ScreenSaves
  <2>1. Holds(Screen) BY <1>0, <1>8 DEF ScreenSaves, ScreenInv
  <2>2. FileInv' /\ ~Holds(Screen)' /\ \A v \in Writer \ {Screen} : Undisturbed(v)
    BY <1>0, <1>8, <2>1, FileSaved DEF ScreenSaves
  <2> QED BY <1>8, <2>2, ScreenRests DEF ScreenSaves
<1>9. CASE ScreenCannotSave
  <2>1. FileInv' /\ ~Holds(Screen)' /\ \A v \in Writer \ {Screen} : Undisturbed(v)
    BY <1>0, <1>9, FileFreed DEF ScreenCannotSave
  <2> QED BY <1>9, <2>1, ScreenRests DEF ScreenCannotSave
<1> QED BY <1>2, <1>4, <1>5, <1>6, <1>7, <1>8, <1>9 DEF ScreenActs, ScreenHandles
-----------------------------------------------------------------------------
(* The sync screen.                                                        *)

ViewTypeOK ==
  /\ auto \in BOOLEAN /\ alive \in BOOLEAN /\ inFlight \in BOOLEAN
  /\ rows \in [Name -> Outcome \cup {"none", "active"}]
  /\ final \in {"none", "total", "error"}
  /\ worker \in [Thread -> Worker] /\ runner \in Thread
  /\ orphans \subseteq {t \in Thread : worker[t].pc # "idle"}

\* One worker runs for the screen, and only while the screen says so; all others
\* at work are orphans, who told nobody anything.
Alone ==
  /\ \A t \in Thread : worker[t].pc # "idle" => t \in orphans \/ (t = runner /\ inFlight)
  /\ inFlight => runner \notin orphans
  /\ final # "none" => ~inFlight
  /\ \A t \in orphans : worker[t].told = Unknown
  /\ runner \in orphans => rows = Unknown

\* What the rows r say of subscriptions that finished is what worker x told;
\* until it fails, they differ only in the subscription under way.
Consistent(x, r) ==
  /\ \A m, n \in x.current : m = n
  /\ x.pc \in {"idle", "load", "reconcile", "next", "done"} => x.current = {}
  /\ \A n \in Name : r[n] \in Outcome => x.told[n] = r[n]
  /\ x.pc \in {"load", "reconcile", "next", "items", "finish", "done"} =>
       \A n \in Name : r[n] = x.told[n] \/ n \in x.current

Telling ==
  /\ Consistent(worker[runner], rows)
  /\ final = "total" => \A n \in Name : rows[n] = worker[runner].told[n]

ViewInv == ViewTypeOK /\ Alone /\ Telling

LEMMA RestingTypes == Resting \in Worker /\ Resting.pc = "idle" /\ Resting.current = {}
                      /\ Resting.told = Unknown
BY DEF Resting, Worker, Unknown, Outcome

LEMMA ConfigInitInv == Init => ConfigInv /\ CopyHeld
<1> SUFFICES ASSUME Init PROVE ConfigInv /\ CopyHeld
  OBVIOUS
<1>1. file \in Config /\ left \in 0..Initiatives /\ broken \in BOOLEAN /\ shown \in Config
  <2>1. file \in Config /\ shown = file /\ broken = FALSE
    BY ConfigStoreAssumption DEF Init, ConfigInit
  <2>2. left \in 0..Initiatives BY ConfigStoreAssumption DEF Init, ConfigInit
  <2> QED BY <2>1, <2>2
<1>2. held \in [Writer -> HeldTypes] /\ \A w \in Writer : ~Holds(w)
  BY FreeTypes DEF Init, ConfigInit, Holds
<1>3. FileInv BY <1>1, <1>2 DEF FileInv, CopiesAreCurrent
<1>4. ScreenInv BY <1>2, WriterTypes DEF Init, ConfigInit, ScreenInv
<1>5. CopyHeld BY <1>2, WriterTypes, RestingTypes DEF Init, CopyHeld
<1> QED BY <1>3, <1>4, <1>5 DEF ConfigInv

LEMMA ViewInit == Init => ViewInv
<1> SUFFICES ASSUME Init PROVE ViewInv
  OBVIOUS
<1>1. /\ worker = [t \in Thread |-> Resting] /\ orphans = {} /\ runner = SpareThread
      /\ rows = Unknown /\ final = "none" /\ inFlight = FALSE /\ alive = TRUE /\ auto \in BOOLEAN
  BY DEF Init
<1>2. SpareThread \in Thread
  <2>1. \E t \in Thread : worker[t].pc = "idle" BY <1>1, RestingTypes, ConfigStoreAssumption
  <2> QED BY <2>1 DEF SpareThread
<1>3. ViewTypeOK BY <1>1, <1>2, RestingTypes DEF ViewTypeOK, Unknown
<1>4. Alone BY <1>1, RestingTypes DEF Alone
<1>5. Telling BY <1>1, <1>2, RestingTypes DEF Telling, Consistent, Unknown, Outcome
<1> QED BY <1>3, <1>4, <1>5 DEF ViewInv

\* A worker that is no orphan is the runner of a run under way.
LEMMA OnlyRunner ==
  ASSUME ViewInv, NEW t \in Thread, worker[t].pc # "idle", t \notin orphans
  PROVE  t = runner /\ inFlight /\ final = "none"
BY DEF ViewInv, ViewTypeOK, Alone

LEMMA RunnerMoves ==
  ASSUME ViewInv, NEW t \in Thread, worker[t].pc # "idle",
         NEW x \in Worker, x.pc # "idle", worker' = [worker EXCEPT ![t] = x],
         t = runner => Consistent(x, rows'),
         t \in orphans => rows' = rows /\ x.told = worker[t].told,
         rows' \in [Name -> Outcome \cup {"none", "active"}],
         UNCHANGED <<auto, alive, inFlight, final, runner, orphans>>
  PROVE  ViewInv'
<1>1. worker' \in [Thread -> Worker] /\ worker'[t] = x
      /\ \A u \in Thread \ {t} : worker'[u] = worker[u]
  BY DEF ViewInv, ViewTypeOK
<1>2. ViewTypeOK' BY <1>1 DEF ViewInv, ViewTypeOK
<1>3. t \notin orphans => t = runner /\ final = "none" BY OnlyRunner
<1>4. Alone'
  <2>1. \A u \in Thread : worker'[u].pc # "idle" => u \in orphans' \/ (u = runner' /\ inFlight')
    BY <1>1 DEF ViewInv, Alone
  <2>2. \A u \in orphans' : worker'[u].told = Unknown
    BY <1>1 DEF ViewInv, ViewTypeOK, Alone
  <2>3. runner' \in orphans' => rows' = Unknown BY <1>3 DEF ViewInv, Alone
  <2> QED BY <2>1, <2>2, <2>3 DEF ViewInv, Alone
<1>5. Telling'
  <2>1. CASE t = runner BY <1>1, <1>3, <2>1 DEF ViewInv, Telling
  <2>2. CASE t # runner BY <1>1, <1>3, <2>2 DEF ViewInv, ViewTypeOK, Telling
  <2> QED BY <2>1, <2>2
<1> QED BY <1>2, <1>4, <1>5 DEF ViewInv

\* A step of the worker that shows nothing.
LEMMA Unseen ==
  ASSUME ViewInv, NEW t \in Thread, worker[t].pc # "idle",
         NEW x \in Worker, x.pc # "idle", worker' = [worker EXCEPT ![t] = x],
         t = runner => Consistent(x, rows), x.told = worker[t].told, Quietly
  PROVE  ViewInv'
<1>1. rows' = rows /\ UNCHANGED <<auto, alive, inFlight, final, runner, orphans>>
  BY DEF Quietly, view
<1>2. rows \in [Name -> Outcome \cup {"none", "active"}] BY DEF ViewInv, ViewTypeOK
<1> QED BY <1>1, <1>2, RunnerMoves

\* The application ends: nothing of the run is left, its worker is an orphan.
LEMMA CollapsesView ==
  ASSUME ViewInv, NEW W \in [Thread -> Worker], Collapses(W),
         \A t \in Thread : W[t] = worker[t] \/ W[t] = Resting
  PROVE  /\ ViewInv'
         /\ \A t \in Thread : worker'[t].pc = W[t].pc /\ worker'[t].todo = W[t].todo
                             /\ worker'[t].current = W[t].current
<1>1. /\ worker' = [t \in Thread |-> [W[t] EXCEPT !.told = Unknown]] /\ alive' = FALSE
      /\ inFlight' = FALSE /\ rows' = Unknown /\ final' = "none"
      /\ runner' = runner /\ auto' = auto /\ orphans' = {t \in Thread : W[t].pc # "idle"}
  BY DEF Collapses
<1>2. ASSUME NEW t \in Thread
      PROVE  /\ worker'[t] \in Worker /\ worker'[t].told = Unknown
             /\ worker'[t].pc = W[t].pc /\ worker'[t].todo = W[t].todo
             /\ worker'[t].current = W[t].current
  BY <1>1 DEF Worker, Unknown
<1>3. worker' \in [Thread -> Worker] BY <1>1, <1>2
<1>4. ViewTypeOK' BY <1>1, <1>2, <1>3 DEF ViewInv, ViewTypeOK, Unknown
<1>5. Alone' BY <1>1, <1>2 DEF Alone
<1>6. Telling'
  <2>1. runner \in Thread BY DEF ViewInv, ViewTypeOK
  <2>2. /\ \A m, n \in W[runner].current : m = n
        /\ W[runner].pc \in {"idle", "load", "reconcile", "next", "done"} => W[runner].current = {}
    BY <2>1, RestingTypes DEF ViewInv, Telling, Consistent
  <2> QED BY <1>1, <1>2, <2>1, <2>2 DEF Telling, Consistent, Unknown, Outcome
<1> QED BY <1>2, <1>4, <1>5, <1>6 DEF ViewInv

LEMMA DiesView ==
  ASSUME ViewInv, Dies
  PROVE  /\ ViewInv'
         /\ \A t \in Thread : worker'[t].pc = worker[t].pc /\ worker'[t].todo = worker[t].todo
                             /\ worker'[t].current = worker[t].current
<1>1. worker \in [Thread -> Worker] /\ Collapses(worker) BY DEF ViewInv, ViewTypeOK, Dies
<1> QED BY <1>1, CollapsesView

LEMMA PressView ==
  ASSUME ViewInv, NEW t \in Thread, PressSync(t)
  PROVE  ViewInv'
<1> DEFINE x == [Resting EXCEPT !.pc = "load"]
<1>1. x \in Worker /\ x.current = {} /\ x.told = Unknown /\ x.pc = "load"
  BY DEF Resting, Worker, Unknown, Outcome
<1>2. /\ inFlight' = TRUE /\ rows' = Unknown /\ final' = "none" /\ runner' = t
      /\ UNCHANGED <<auto, alive, orphans>>
      /\ worker[t].pc = "idle" /\ ~inFlight
  BY DEF PressSync, Starts
<1>3. worker' = [u \in Thread |-> IF u = t THEN x
                                  ELSE IF worker[u].pc = "idle" THEN Resting ELSE worker[u]]
  BY DEF PressSync, Starts
<1>4. worker' \in [Thread -> Worker] /\ worker'[t] = x
  BY <1>1, <1>3, RestingTypes DEF ViewInv, ViewTypeOK
<1>5. t \notin orphans /\ \A u \in orphans : u \in Thread /\ worker'[u] = worker[u]
  BY <1>2, <1>3 DEF ViewInv, ViewTypeOK
<1> HIDE DEF x
<1>6. ViewTypeOK'
  <2>1. \A u \in orphans' : u \in Thread /\ worker'[u].pc # "idle"
    BY <1>2, <1>5 DEF ViewInv, ViewTypeOK
  <2> QED BY <1>2, <1>4, <2>1 DEF ViewInv, ViewTypeOK, Unknown
<1>7. Alone'
  <2>1. \A u \in Thread \ {t} : worker'[u].pc # "idle" => worker[u].pc # "idle"
    BY <1>3, RestingTypes
  <2> QED BY <1>2, <1>5, <2>1 DEF ViewInv, Alone
<1>8. Telling' BY <1>1, <1>2, <1>4 DEF Telling, Consistent, Unknown, Outcome
<1> QED BY <1>6, <1>7, <1>8 DEF ViewInv

\* OnDone clears the flag.
LEMMA OnDoneView ==
  ASSUME ViewInv, NEW t \in Thread, worker[t].pc # "idle",
         NEW result \in {"total", "error"}, OnDone(t, result),
         result = "total" => worker[t].pc = "done"
  PROVE  ViewInv'
<1>0. worker[t] \in Worker /\ worker \in [Thread -> Worker] BY DEF ViewInv, ViewTypeOK
<1>1. t \notin orphans /\ t = runner /\ inFlight BY OnlyRunner DEF OnDone
<1>2. CASE Collapses([worker EXCEPT ![t] = Resting])
  <2>1. /\ [worker EXCEPT ![t] = Resting] \in [Thread -> Worker]
        /\ \A u \in Thread : \/ [worker EXCEPT ![t] = Resting][u] = worker[u]
                             \/ [worker EXCEPT ![t] = Resting][u] = Resting
    BY <1>0, RestingTypes
  <2> QED BY <1>2, <2>1, CollapsesView
<1>3. CASE ~Collapses([worker EXCEPT ![t] = Resting])
  <2> DEFINE x == [Resting EXCEPT !.pc = "idle", !.told = worker[t].told]
  <2>1. x \in Worker /\ x.current = {} /\ x.pc = "idle" /\ x.told = worker[t].told
    BY <1>0 DEF Resting, Worker, Unknown, Outcome
  <2>2. /\ inFlight' = FALSE /\ final' = result /\ worker' = [worker EXCEPT ![t] = x]
        /\ UNCHANGED <<auto, alive, rows, runner, orphans>>
    BY <1>3 DEF OnDone, Ends
  <2> HIDE DEF x
  <2>3. worker' \in [Thread -> Worker] /\ worker'[t] = x
        /\ \A u \in Thread \ {t} : worker'[u] = worker[u]
    BY <1>0, <2>1, <2>2
  <2>4. ViewTypeOK' BY <1>1, <2>2, <2>3 DEF ViewInv, ViewTypeOK
  <2>5. Alone' BY <1>1, <2>1, <2>2, <2>3 DEF ViewInv, ViewTypeOK, Alone
  <2>6. Telling' BY <1>1, <2>1, <2>2, <2>3 DEF ViewInv, Telling, Consistent
  <2> QED BY <2>4, <2>5, <2>6 DEF ViewInv
<1> QED BY <1>2, <1>3

\* An orphan's end is nobody else's business.
LEMMA PerishesView ==
  ASSUME ViewInv, NEW t \in Thread, Perishes(t)
  PROVE  ViewInv'
<1> DEFINE x == [Resting EXCEPT !.pc = "idle", !.told = worker[t].told]
<1>0. worker[t] \in Worker /\ worker \in [Thread -> Worker] BY DEF ViewInv, ViewTypeOK
<1>1. x \in Worker /\ x.current = {} /\ x.pc = "idle" /\ x.told = worker[t].told
  BY <1>0 DEF Resting, Worker, Unknown, Outcome
<1>2. /\ worker' = [worker EXCEPT ![t] = x] /\ t \in orphans /\ orphans' = orphans \ {t}
      /\ UNCHANGED <<auto, alive, inFlight, final, rows, runner>>
  BY DEF Perishes, Ends, view
<1> HIDE DEF x
<1>3. worker' \in [Thread -> Worker] /\ worker'[t] = x
      /\ \A u \in Thread \ {t} : worker'[u] = worker[u]
  BY <1>0, <1>1, <1>2
<1>4. ViewTypeOK' BY <1>2, <1>3 DEF ViewInv, ViewTypeOK
<1>5. Alone' BY <1>1, <1>2, <1>3 DEF ViewInv, ViewTypeOK, Alone
<1>6. Telling'
  <2>1. CASE t = runner BY <1>1, <1>2, <1>3, <2>1 DEF ViewInv, Telling, Consistent
  <2>2. CASE t # runner BY <1>2, <1>3, <2>2 DEF ViewInv, ViewTypeOK, Telling
  <2> QED BY <2>1, <2>2
<1> QED BY <1>4, <1>5, <1>6 DEF ViewInv

LEMMA WorkView ==
  ASSUME ViewInv, NEW t \in Thread, Work(t)
  PROVE  ViewInv'
<1>0. /\ worker[t] \in Worker /\ rows \in [Name -> Outcome \cup {"none", "active"}]
      /\ worker \in [Thread -> Worker]
  BY DEF ViewInv, ViewTypeOK
<1>1. t = runner => Consistent(worker[t], rows) BY DEF ViewInv, Telling
<1>2. \A c : Enabled(c) \in SUBSET Name BY DEF Enabled
<1>3. ASSUME worker[t].pc \in {"load", "reconcile"}, Goes(t, "fail") \/ Goes(t, "reconcile"), Quietly
      PROVE  ViewInv'
  <2>1. PICK pc \in {"fail", "reconcile"} : Goes(t, pc) BY <1>3
  <2> DEFINE x == [worker[t] EXCEPT !.pc = pc]
  <2>2. worker' = [worker EXCEPT ![t] = x] BY <2>1 DEF Goes
  <2>3. /\ x \in Worker /\ x.pc = pc /\ x.pc # "idle" /\ x.current = worker[t].current
        /\ x.told = worker[t].told
    BY <1>0 DEF Worker
  <2>4. t = runner => Consistent(x, rows) BY <1>1, <1>3, <2>3 DEF Consistent
  <2> HIDE DEF x
  <2> QED BY <1>3, <2>2, <2>3, <2>4, Unseen
<1>4. ASSUME worker[t].pc \in {"load", "reconcile"}, NEW c, Syncs(t, c), Quietly
      PROVE  ViewInv'
  <2> DEFINE x == [worker[t] EXCEPT !.pc = "next", !.todo = Enabled(c)]
  <2>1. worker' = [worker EXCEPT ![t] = x] BY <1>4 DEF Syncs
  <2>2. x \in Worker /\ x.pc = "next" /\ x.current = worker[t].current /\ x.told = worker[t].told
    BY <1>0, <1>2 DEF Worker
  <2>3. t = runner => Consistent(x, rows) BY <1>1, <1>4, <2>2 DEF Consistent
  <2> HIDE DEF x
  <2> QED BY <1>4, <2>1, <2>2, <2>3, Unseen
<1>5. CASE LoadConfig(t)
  BY <1>3, <1>4, <1>5 DEF LoadConfig
<1>6. CASE Reconciles(t) \/ ReconcilesNothing(t) \/ ReconcileRaises(t)
  BY <1>3, <1>4, <1>6 DEF Reconciles, ReconcilesNothing, ReconcileRaises
<1>7. ASSUME NEW n \in Name, Defers(t, n) PROVE ViewInv'
  <2> DEFINE x == [worker[t] EXCEPT !.todo = @ \ {n}]
  <2>1. worker' = [worker EXCEPT ![t] = x] /\ worker[t].pc = "next" /\ Quietly
    BY <1>7 DEF Defers
  <2>2. /\ x \in Worker /\ x.pc = "next" /\ x.current = worker[t].current
        /\ x.told = worker[t].told
    BY <1>0, <2>1 DEF Worker
  <2>3. t = runner => Consistent(x, rows) BY <1>1, <2>1, <2>2 DEF Consistent
  <2> HIDE DEF x
  <2> QED BY <2>1, <2>2, <2>3, Unseen
<1>8. ASSUME NEW n \in Name, Discovers(t, n) PROVE ViewInv'
  <2>1. PICK pc \in {"finish", "items", "fail"} :
          worker' = [worker EXCEPT
            ![t].todo = @ \ {n}, ![t].current = {n}, ![t].pc = pc,
            ![t].outcome = IF broken THEN "errors" ELSE "ok"]
    BY <1>8 DEF Discovers
  <2> DEFINE x == [worker[t] EXCEPT !.todo = @ \ {n}, !.current = {n}, !.pc = pc,
                     !.outcome = IF broken THEN "errors" ELSE "ok"]
  <2>2. worker' = [worker EXCEPT ![t] = x] BY <1>0, <2>1
  <2>3. /\ x \in Worker /\ x.pc = pc /\ x.current = {n} /\ x.told = worker[t].told
    BY <1>0 DEF Worker, Outcome
  <2>4. /\ rows' = (IF t \in orphans THEN rows ELSE [rows EXCEPT ![n] = "active"])
        /\ worker[t].pc = "next" /\ UNCHANGED <<auto, alive, inFlight, final, runner, orphans>>
    BY <1>8 DEF Discovers, Shows
  <2>5. rows' \in [Name -> Outcome \cup {"none", "active"}] BY <1>0, <2>4
  <2>6. t = runner => Consistent(x, rows')
    <3>1. CASE t \in orphans BY <1>0, <1>1, <2>3, <2>4, <3>1 DEF Consistent
    <3>2. CASE t \notin orphans
      <4> SUFFICES ASSUME t = runner PROVE Consistent(x, rows')
        OBVIOUS
      <4>1. rows' = [rows EXCEPT ![n] = "active"] BY <2>4, <3>2
      <4>2. \A m \in Name : rows'[m] = IF m = n THEN "active" ELSE rows[m] BY <1>0, <4>1
      <4> HIDE DEF x
      <4> QED BY <1>1, <2>3, <2>4, <4>2 DEF Consistent, Outcome
    <3> QED BY <3>1, <3>2
  <2> HIDE DEF x
  <2> QED BY <2>2, <2>3, <2>4, <2>5, <2>6, RunnerMoves
<1>9. ASSUME NEW n \in Name, DiscoverFails(t, n) PROVE ViewInv'
  <2> DEFINE x == [worker[t] EXCEPT !.todo = @ \ {n}, !.current = {n}, !.pc = "finish",
                     !.outcome = "errors"]
  <2>1. worker' = [worker EXCEPT ![t] = x] /\ worker[t].pc = "next" /\ Quietly
    BY <1>9 DEF DiscoverFails
  <2>2. x \in Worker /\ x.pc = "finish" /\ x.current = {n} /\ x.told = worker[t].told
    BY <1>0 DEF Worker, Outcome
  <2>3. t = runner => Consistent(x, rows) BY <1>1, <2>1, <2>2 DEF Consistent
  <2> HIDE DEF x
  <2> QED BY <2>1, <2>2, <2>3, Unseen
<1>10. ASSUME NEW o \in Outcome, ItemsEnd(t, o) PROVE ViewInv'
  <2> DEFINE x == [worker[t] EXCEPT !.pc = "finish", !.outcome = o]
  <2>1. worker' = [worker EXCEPT ![t] = x] /\ worker[t].pc = "items" /\ Quietly
    BY <1>10 DEF ItemsEnd
  <2>2. /\ x \in Worker /\ x.pc = "finish" /\ x.current = worker[t].current
        /\ x.told = worker[t].told
    BY <1>0 DEF Worker
  <2>3. t = runner => Consistent(x, rows) BY <1>1, <2>1, <2>2 DEF Consistent
  <2> HIDE DEF x
  <2> QED BY <2>1, <2>2, <2>3, Unseen
<1>11. CASE ItemEventRaises(t) \/ LastItem(t)
  BY <1>10, <1>11 DEF ItemEventRaises, LastItem, Outcome
<1>12. CASE ItemsLimited(t)
  <2> DEFINE x == [worker[t] EXCEPT !.pc = "finish", !.outcome = "errors", !.limited = TRUE]
  <2>1. worker' = [worker EXCEPT ![t] = x] /\ worker[t].pc = "items" /\ Quietly
    BY <1>12 DEF ItemsLimited
  <2>2. /\ x \in Worker /\ x.pc = "finish" /\ x.current = worker[t].current
        /\ x.told = worker[t].told
    BY <1>0 DEF Worker, Outcome
  <2>3. t = runner => Consistent(x, rows) BY <1>1, <2>1, <2>2 DEF Consistent
  <2> HIDE DEF x
  <2> QED BY <2>1, <2>2, <2>3, Unseen
<1>13. CASE Raises(t) \/ Completes(t)
  <2>1. PICK pc \in {"fail", "done"} : Ends(t, pc) BY <1>13 DEF Raises, Completes
  <2> DEFINE x == [Resting EXCEPT !.pc = pc, !.told = worker[t].told]
  <2>2. worker' = [worker EXCEPT ![t] = x] BY <2>1 DEF Ends
  <2>3. x \in Worker /\ x.pc = pc /\ x.pc # "idle" /\ x.current = {} /\ x.told = worker[t].told
    BY <1>0 DEF Worker, Resting, Outcome
  <2>4. Quietly /\ worker[t].pc \in {"next", "items"} BY <1>13 DEF Raises, Completes
  <2>5. x.pc = "done" => worker[t].pc = "next"
    <3>1. worker'[t].pc = pc BY <1>0, <2>2, <2>3
    <3>2. Raises(t) => worker'[t].pc = "fail" BY <1>0 DEF Raises, Ends, Resting
    <3> QED BY <1>13, <2>3, <3>1, <3>2 DEF Completes
  <2>6. t = runner => Consistent(x, rows) BY <1>1, <2>3, <2>4, <2>5 DEF Consistent
  <2> HIDE DEF x
  <2> QED BY <2>2, <2>3, <2>4, <2>6, Unseen
<1>14. CASE Reports(t)
  <2>1. PICK n \in worker[t].current, pc \in {"fail", "next"} :
          /\ rows' = (IF t \in orphans THEN rows ELSE [rows EXCEPT ![n] = worker[t].outcome])
          /\ worker' = [worker EXCEPT
               ![t].told = IF t \in orphans THEN @ ELSE [@ EXCEPT ![n] = worker[t].outcome],
               ![t].current = {}, ![t].outcome = "ok", ![t].pc = pc]
    BY <1>14 DEF Reports, Shows
  <2> DEFINE said == IF t \in orphans THEN worker[t].told
                     ELSE [worker[t].told EXCEPT ![n] = worker[t].outcome]
             x == [worker[t] EXCEPT !.told = said, !.current = {}, !.outcome = "ok", !.pc = pc]
  <2>2. worker' = [worker EXCEPT ![t] = x] BY <1>0, <2>1
  <2>3. n \in Name /\ worker[t].outcome \in Outcome BY <1>0, <2>1 DEF Worker
  <2>4. worker[t].told \in [Name -> Outcome \cup {"none"}] BY <1>0 DEF Worker
  <2>5. said \in [Name -> Outcome \cup {"none"}] BY <2>3, <2>4
  <2> HIDE DEF said
  <2>6. x \in Worker /\ x.pc = pc /\ x.current = {} /\ x.told = said
    BY <1>0, <2>5 DEF Worker, Outcome
  <2>7. worker[t].pc = "finish" /\ UNCHANGED <<auto, alive, inFlight, final, runner, orphans>>
    BY <1>14 DEF Reports, Shows
  <2>8. rows' \in [Name -> Outcome \cup {"none", "active"}] BY <1>0, <2>1, <2>3
  <2> HIDE DEF x
  <2>9. t \in orphans => rows' = rows /\ x.told = worker[t].told BY <2>1, <2>6 DEF said
  <2>10. t = runner => Consistent(x, rows')
    <3> SUFFICES ASSUME t = runner PROVE Consistent(x, rows')
      OBVIOUS
    <3>1. CASE t \in orphans
      <4>1. rows' = Unknown /\ x.told = Unknown BY <2>9, <3>1 DEF ViewInv, Alone
      <4> QED BY <2>6, <4>1 DEF Consistent, Unknown
    <3>2. CASE t \notin orphans
      <4>1. \A m \in worker[t].current : m = n BY <1>1, <2>1 DEF Consistent
      <4>2. \A m \in Name : /\ rows'[m] = IF m = n THEN worker[t].outcome ELSE rows[m]
                            /\ said[m] = IF m = n THEN worker[t].outcome ELSE worker[t].told[m]
        BY <1>0, <2>1, <2>4, <3>2 DEF said
      <4> QED BY <1>1, <2>3, <2>6, <2>7, <4>1, <4>2 DEF Consistent
    <3> QED BY <3>1, <3>2
  <2> QED BY <2>2, <2>6, <2>7, <2>8, <2>9, <2>10, RunnerMoves
<1>15. CASE Succeeds(t) \/ Fails(t)
  BY <1>15, OnDoneView DEF Succeeds, Fails
<1> QED
  BY <1>5, <1>6, <1>7, <1>8, <1>9, <1>11, <1>12, <1>13, <1>14, <1>15, PerishesView DEF Work
-----------------------------------------------------------------------------
(* Both together.                                                          *)

IInv == ConfigInv /\ CopyHeld /\ ViewInv

LEMMA InitIInv == Init => IInv
BY ConfigInitInv, ViewInit DEF IInv

\* The application ends: its screen holds nothing, its threads what they held.
LEMMA CollapsesConfig ==
  ASSUME ConfigInv, NEW W, Collapses(W)
  PROVE  ConfigInv' /\ \A t \in Thread : Holds(t)' <=> Holds(t)
<1>1. LetsGo(Screen) /\ ui' = "rest" /\ asked' = NotAsked /\ UNCHANGED <<file, broken, shown, left>>
  BY DEF Collapses
<1>2. FileInv' /\ ~Holds(Screen)' /\ \A v \in Writer \ {Screen} : Undisturbed(v)
  <2>1. FileInv /\ shown' \in Config BY <1>1 DEF ConfigInv, FileInv
  <2> QED BY <1>1, <2>1, FileFreed, WriterTypes
<1> QED BY <1>1, <1>2, ScreenRests

\* Thread t does what it does to its copy; the screen's is not touched.
LEMMA ThreadConfig ==
  ASSUME ConfigInv, NEW t \in Thread, UNCHANGED screen, FileInv',
         \A v \in Writer \ {t} : Undisturbed(v)
  PROVE  ConfigInv' /\ \A u \in Thread \ {t} : Holds(u)' <=> Holds(u)
<1>1. Undisturbed(Screen) BY WriterTypes
<1>2. ScreenInv' BY <1>1, ScreenKept DEF ConfigInv, screen
<1> QED BY <1>2, WriterTypes DEF ConfigInv, Undisturbed

LEMMA WorkConfig ==
  ASSUME IInv, NEW t \in Thread, Work(t)
  PROVE  ConfigInv' /\ CopyHeld'
<1>0. /\ ConfigInv /\ FileInv /\ CopyHeld /\ ViewInv /\ t \in Writer
      /\ worker \in [Thread -> Worker] /\ worker[t] \in Worker
      /\ left \in 0..Initiatives /\ broken \in BOOLEAN /\ shown \in Config /\ file \in Config
  BY WriterTypes DEF IInv, ViewInv, ViewTypeOK, ConfigInv, FileInv
\* t comes to x, holding a copy exactly if it is to reconcile.
<1>1. ASSUME ConfigInv', \A u \in Thread \ {t} : Holds(u)' <=> Holds(u),
             NEW x, worker' = [worker EXCEPT ![t] = x], Holds(t)' <=> x.pc = "reconcile"
      PROVE  ConfigInv' /\ CopyHeld'
  <2>1. \A u \in Thread \ {t} : worker'[u] = worker[u] BY <1>0, <1>1
  <2>2. worker'[t] = x BY <1>0, <1>1
  <2> QED BY <1>0, <1>1, <2>1, <2>2 DEF CopyHeld
\* It has nothing to do with the file.
<1>2. ASSUME UNCHANGED configVars, worker[t].pc # "reconcile",
             NEW x, worker' = [worker EXCEPT ![t] = x], x.pc # "reconcile"
      PROVE  ConfigInv' /\ CopyHeld'
  <2>1. UNCHANGED <<file, broken, held, shown, left>> /\ UNCHANGED screen
    BY <1>2 DEF configVars, screen
  <2>2. FileInv' /\ \A w \in Writer : Undisturbed(w) BY <1>0, <2>1, FileKept
  <2>3. ConfigInv' BY <1>0, <2>1, <2>2, ThreadConfig
  <2>4. \A u \in Thread : Holds(u)' <=> Holds(u) BY <2>2, WriterTypes DEF Undisturbed
  <2>5. ~Holds(t)' BY <1>0, <1>2, <2>4 DEF CopyHeld
  <2> QED BY <1>1, <1>2, <2>3, <2>4, <2>5
\* It lets go of its copy.
<1>3. ASSUME LetsGo(t), UNCHANGED <<file, broken, left>>, UNCHANGED screen,
             NEW x, worker' = [worker EXCEPT ![t] = x], x.pc # "reconcile"
      PROVE  ConfigInv' /\ CopyHeld'
  <2>1. shown' \in Config BY <1>0, <1>3 DEF screen
  <2>2. FileInv' /\ ~Holds(t)' /\ \A v \in Writer \ {t} : Undisturbed(v)
    BY <1>0, <1>3, <2>1, FileFreed
  <2>3. ConfigInv' /\ \A u \in Thread \ {t} : Holds(u)' <=> Holds(u)
    BY <1>0, <1>3, <2>2, ThreadConfig
  <2> QED BY <1>1, <1>3, <2>2, <2>3
<1>4. ASSUME NEW pc, Goes(t, pc)
      PROVE  \E x : worker' = [worker EXCEPT ![t] = x] /\ x.pc = pc
  <2> DEFINE x == [worker[t] EXCEPT !.pc = pc]
  <2>1. worker' = [worker EXCEPT ![t] = x] BY <1>4 DEF Goes
  <2>2. x.pc = pc BY <1>0 DEF Worker
  <2> QED BY <2>1, <2>2
<1>5. ASSUME NEW c, Syncs(t, c)
      PROVE  \E x : worker' = [worker EXCEPT ![t] = x] /\ x.pc = "next"
  <2> DEFINE x == [worker[t] EXCEPT !.pc = "next", !.todo = Enabled(c)]
  <2>1. worker' = [worker EXCEPT ![t] = x] BY <1>5 DEF Syncs
  <2>2. x.pc = "next" BY <1>0 DEF Worker
  <2> QED BY <2>1, <2>2
<1>6. ASSUME NEW pc, Ends(t, pc)
      PROVE  \E x : worker' = [worker EXCEPT ![t] = x] /\ x.pc = pc
  <2> DEFINE x == [Resting EXCEPT !.pc = pc, !.told = worker[t].told]
  <2>1. worker' = [worker EXCEPT ![t] = x] BY <1>6 DEF Ends
  <2>2. x.pc = pc BY DEF Resting
  <2> QED BY <2>1, <2>2
<1>7. CASE LoadConfig(t)
  <2>1. worker[t].pc = "load" /\ UNCHANGED <<file, broken, screen, left>> BY <1>7 DEF LoadConfig
  <2>2. CASE Goes(t, "fail") /\ UNCHANGED held
    <3>1. PICK x : worker' = [worker EXCEPT ![t] = x] /\ x.pc = "fail" BY <1>4, <2>2
    <3> QED BY <1>2, <2>1, <2>2, <3>1 DEF configVars
  <2>3. CASE Takes(t, [op |-> "import"]) /\ Goes(t, "reconcile")
    <3>1. [op |-> "import"] \in AnyEdit BY DEF AnyEdit, Edit
    <3>2. UNCHANGED <<file, broken, shown>> /\ left' \in 0..Initiatives /\ UNCHANGED screen
      BY <1>0, <2>1 DEF screen
    <3>3. FileInv' /\ Holds(t)' /\ \A v \in Writer \ {t} : Undisturbed(v)
      BY <1>0, <2>3, <3>1, <3>2, FileTaken
    <3>4. ConfigInv' /\ \A u \in Thread \ {t} : Holds(u)' <=> Holds(u)
      BY <1>0, <3>2, <3>3, ThreadConfig
    <3>5. PICK x : worker' = [worker EXCEPT ![t] = x] /\ x.pc = "reconcile" BY <1>4, <2>3
    <3> QED BY <1>1, <3>3, <3>4, <3>5
  <2>4. CASE Syncs(t, file) /\ UNCHANGED held
    <3>1. PICK x : worker' = [worker EXCEPT ![t] = x] /\ x.pc = "next" BY <1>5, <2>4
    <3> QED BY <1>2, <2>1, <2>4, <3>1 DEF configVars
  <2> QED BY <1>7, <2>2, <2>3, <2>4 DEF LoadConfig
<1>8. CASE Reconciles(t)
  <2>1. /\ worker[t].pc = "reconcile" /\ SaveConfig(t) /\ UNCHANGED screen
        /\ UNCHANGED <<shown, left>>
    BY <1>8 DEF Reconciles, screen
  <2>2. Holds(t) BY <1>0, <2>1 DEF CopyHeld
  <2>3. FileInv' /\ ~Holds(t)' /\ \A v \in Writer \ {t} : Undisturbed(v)
    BY <1>0, <2>1, <2>2, FileSaved
  <2>4. ConfigInv' /\ \A u \in Thread \ {t} : Holds(u)' <=> Holds(u)
    BY <1>0, <2>1, <2>3, ThreadConfig
  <2>5. PICK x : worker' = [worker EXCEPT ![t] = x] /\ x.pc = "next"
    BY <1>5, <1>8 DEF Reconciles
  <2> QED BY <1>1, <2>3, <2>4, <2>5
<1>9. CASE ReconcilesNothing(t)
  <2>1. PICK x : worker' = [worker EXCEPT ![t] = x] /\ x.pc = "next"
    BY <1>5, <1>9 DEF ReconcilesNothing
  <2> QED BY <1>3, <1>9, <2>1 DEF ReconcilesNothing
<1>10. CASE ReconcileRaises(t)
  <2>1. PICK x : worker' = [worker EXCEPT ![t] = x] /\ x.pc = "fail"
    BY <1>4, <1>10 DEF ReconcileRaises
  <2> QED BY <1>3, <1>10, <2>1 DEF ReconcileRaises
<1>11. CASE \/ \E n \in Name : Defers(t, n) \/ Discovers(t, n) \/ DiscoverFails(t, n)
            \/ ItemEventRaises(t) \/ LastItem(t) \/ ItemsLimited(t) \/ Reports(t)
  <2>1. UNCHANGED configVars /\ worker[t].pc \in {"next", "items", "finish"}
    BY <1>11 DEF Defers, Discovers, DiscoverFails, ItemEventRaises, LastItem, ItemsEnd,
                 ItemsLimited, Reports
  <2>2. worker' \in [Thread -> Worker] BY <1>0, WorkView DEF ViewInv, ViewTypeOK
  <2>3. \A u \in Thread \ {t} : worker'[u] = worker[u]
    BY <1>0, <1>11 DEF Defers, Discovers, DiscoverFails, ItemEventRaises, LastItem, ItemsEnd,
                       ItemsLimited, Reports
  <2>4. worker'[t].pc # "reconcile"
    <3>1. ASSUME NEW n \in Name, Defers(t, n) \/ Discovers(t, n) \/ DiscoverFails(t, n)
          PROVE  worker'[t].pc \in {"next", "items", "finish", "fail"}
      <4>1. Defers(t, n) => worker'[t].pc = "next" BY <1>0 DEF Defers, Worker
      <4>2. Discovers(t, n) => worker'[t].pc \in {"items", "finish", "fail"}
        <5>1. ASSUME NEW pc, worker' = [worker EXCEPT
                       ![t].todo = @ \ {n}, ![t].current = {n}, ![t].pc = pc,
                       ![t].outcome = IF broken THEN "errors" ELSE "ok"]
              PROVE  worker'[t].pc = pc
          BY <1>0, <5>1 DEF Worker
        <5> QED BY <5>1 DEF Discovers
      <4>3. DiscoverFails(t, n) => worker'[t].pc = "finish" BY <1>0 DEF DiscoverFails, Worker
      <4> QED BY <3>1, <4>1, <4>2, <4>3
    <3>2. ItemEventRaises(t) \/ LastItem(t) \/ ItemsLimited(t) => worker'[t].pc = "finish"
      BY <1>0 DEF ItemEventRaises, LastItem, ItemsEnd, ItemsLimited, Worker
    <3>3. Reports(t) => worker'[t].pc \in {"next", "fail"} BY <1>0 DEF Reports, Worker
    <3> QED BY <1>11, <3>1, <3>2, <3>3
  <2>5. worker' = [worker EXCEPT ![t] = worker'[t]] BY <1>0, <2>2, <2>3
  <2> QED BY <1>2, <2>1, <2>4, <2>5
<1>12. CASE Raises(t) \/ Completes(t)
  <2>1. PICK pc \in {"fail", "done"} : Ends(t, pc) BY <1>12 DEF Raises, Completes
  <2>2. PICK x : worker' = [worker EXCEPT ![t] = x] /\ x.pc = pc BY <1>6, <2>1
  <2>3. UNCHANGED configVars /\ worker[t].pc # "reconcile" BY <1>12 DEF Raises, Completes
  <2> QED BY <1>2, <2>2, <2>3
<1>13. CASE Succeeds(t) \/ Fails(t)
  <2>1. PICK result \in {"total", "error"} : OnDone(t, result) BY <1>13 DEF Succeeds, Fails
  <2>2. worker[t].pc # "reconcile" BY <1>13 DEF Succeeds, Fails
  <2>3. CASE Ends(t, "idle") /\ UNCHANGED configVars
    <3>1. PICK x : worker' = [worker EXCEPT ![t] = x] /\ x.pc = "idle" BY <1>6, <2>3
    <3> QED BY <1>2, <2>2, <2>3, <3>1
  <2>4. CASE Collapses([worker EXCEPT ![t] = Resting])
    <3>1. ConfigInv' /\ \A u \in Thread : Holds(u)' <=> Holds(u) BY <1>0, <2>4, CollapsesConfig
    <3>2. worker' = [u \in Thread |-> [[worker EXCEPT ![t] = Resting][u] EXCEPT !.told = Unknown]]
      BY <2>4 DEF Collapses
    <3>3. [worker EXCEPT ![t] = Resting] \in [Thread -> Worker] BY <1>0, RestingTypes
    <3>4. \A u \in Thread : worker'[u].pc = [worker EXCEPT ![t] = Resting][u].pc
      BY <3>2, <3>3 DEF Worker
    <3>5. \A u \in Thread : worker'[u].pc = "reconcile" <=> worker[u].pc = "reconcile"
      BY <1>0, <2>2, <3>4, RestingTypes
    <3> QED BY <1>0, <3>1, <3>5 DEF CopyHeld
  <2> QED BY <2>1, <2>3, <2>4 DEF OnDone
<1>14. CASE Perishes(t)
  <2>1. PICK x : worker' = [worker EXCEPT ![t] = x] /\ x.pc = "idle"
    BY <1>6, <1>14 DEF Perishes
  <2> QED BY <1>3, <1>14, <2>1 DEF Perishes
<1> QED
  BY <1>7, <1>8, <1>9, <1>10, <1>11, <1>12, <1>13, <1>14 DEF Work

LEMMA NextIInv == IInv /\ [Next]_vars => IInv'
<1> SUFFICES ASSUME IInv, [Next]_vars PROVE IInv'
  OBVIOUS
<1>0. /\ ConfigInv /\ FileInv /\ ScreenInv /\ CopyHeld /\ ViewInv
      /\ broken \in BOOLEAN /\ shown \in Config /\ file \in Config /\ left \in 0..Initiatives
      /\ worker \in [Thread -> Worker]
  BY DEF IInv, ConfigInv, FileInv, ViewInv, ViewTypeOK
<1>1. ASSUME UNCHANGED <<file, broken, held, ui, asked>>, shown' \in Config,
             left' \in 0..Initiatives,
             \A t \in Thread : worker'[t].pc = "reconcile" <=> worker[t].pc = "reconcile"
      PROVE  ConfigInv' /\ CopyHeld'
  <2>1. FileInv' /\ \A w \in Writer : Undisturbed(w) BY <1>0, <1>1, FileKept
  <2>2. ScreenInv' BY <1>0, <1>1, <2>1, WriterTypes, ScreenKept
  <2> QED BY <1>0, <1>1, <2>1, <2>2, WriterTypes DEF ConfigInv, CopyHeld, Undisturbed
<1>2. ASSUME NEW t \in Thread, PressSync(t) PROVE IInv'
  <2>1. UNCHANGED <<file, broken, held, ui, asked, shown>> BY <1>2 DEF PressSync, Starts, screen
  <2>2. left' \in 0..Initiatives BY <1>0, <1>2, SpendsOne DEF PressSync, Starts
  <2>3. worker[t].pc = "idle"
        /\ worker' = [u \in Thread |-> IF u = t THEN [Resting EXCEPT !.pc = "load"]
                                       ELSE IF worker[u].pc = "idle" THEN Resting ELSE worker[u]]
    BY <1>2 DEF PressSync, Starts
  <2>4. [Resting EXCEPT !.pc = "load"].pc = "load" BY DEF Resting
  <2>5. \A u \in Thread : worker'[u].pc = "reconcile" <=> worker[u].pc = "reconcile"
    BY <2>3, <2>4, RestingTypes
  <2>6. ConfigInv' /\ CopyHeld' BY <1>0, <1>1, <2>1, <2>2, <2>5
  <2> QED BY <1>0, <1>2, <2>6, PressView DEF IInv
<1>3. ASSUME NEW t \in Thread, Work(t) PROVE IInv'
  BY <1>0, <1>3, WorkView, WorkConfig DEF IInv
<1>4. CASE Dies
  <2>1. ConfigInv' /\ \A t \in Thread : Holds(t)' <=> Holds(t)
    BY <1>0, <1>4, CollapsesConfig DEF Dies
  <2>2. ViewInv' /\ \A t \in Thread : worker'[t].pc = worker[t].pc BY <1>0, <1>4, DiesView
  <2> QED BY <1>0, <2>1, <2>2 DEF IInv, CopyHeld
<1>5. CASE Restarts
  <2>1. /\ UNCHANGED <<file, broken, held, ui, asked, auto, inFlight, rows, final, worker, runner, orphans>>
        /\ shown' \in Config /\ alive' = TRUE
    BY <1>0, <1>5 DEF Restarts
  <2>2. left' \in 0..Initiatives BY <1>0, <1>5, SpendsOne DEF Restarts
  <2>3. ConfigInv' /\ CopyHeld' BY <1>1, <2>1, <2>2
  <2>4. ViewInv' BY <1>0, <2>1 DEF ViewInv, ViewTypeOK, Alone, Telling
  <2> QED BY <2>3, <2>4 DEF IInv
<1>6. ASSUME UNCHANGED <<auto, view, worker, orphans>> PROVE ViewInv'
  BY <1>0, <1>6 DEF ViewInv, ViewTypeOK, Alone, Telling, view
<1>7. CASE ScreenKeys \/ OtherProcesses
  <2>1. UNCHANGED <<auto, view, worker, orphans>> BY <1>7 DEF ScreenKeys, OtherProcesses
  <2>2. ConfigInv' /\ \A t \in Thread : Holds(t)' <=> Holds(t)
    BY <1>0, <1>7, ScreenStep, ElsewhereStep DEF ScreenKeys, OtherProcesses
  <2> QED BY <1>0, <1>6, <2>1, <2>2 DEF IInv, CopyHeld
<1>8. CASE UNCHANGED vars
  <2>1. UNCHANGED <<file, broken, held, ui, asked, shown, left, worker>>
        /\ UNCHANGED <<auto, view, worker, orphans>>
    BY <1>8 DEF vars, configVars, screen
  <2> QED BY <1>0, <1>1, <1>6, <2>1 DEF IInv
<1> QED BY <1>2, <1>3, <1>4, <1>5, <1>7, <1>8 DEF Next

LEMMA IInvTypes == IInv => TypeOK
<1> SUFFICES ASSUME IInv PROVE TypeOK
  OBVIOUS
<1>1. ConfigTypeOK BY DEF IInv, ConfigInv, FileInv, ScreenInv, ConfigTypeOK, HeldTypes
<1>2. \A t \in Thread : worker[t].pc # "reconcile" => ~Holds(t) BY DEF IInv, CopyHeld
<1> QED BY <1>1, <1>2 DEF IInv, ViewInv, ViewTypeOK, TypeOK

-----------------------------------------------------------------------------
(* Theorems.                                                               *)

\* The file always holds a configuration and the screen's state is well typed;
\* no thread keeps a copy it could save after it has left the reconciliation,
\* and the screen holds one exactly while it has an edit to save.
THEOREM TypeCorrect == Spec => []TypeOK
<1> QED BY InitIInv, NextIInv, IInvTypes, PTL DEF Spec

\* The screen's rows are those of the run it shows, however often the key is
\* pressed, whatever the workers of an application that has ended still do, and
\* the rows of a completed run are its reports.
THEOREM RowsAreTheRuns == Spec => []RowsAreThisRuns
<1>1. IInv => RowsAreThisRuns
  BY DEF IInv, ViewInv, Telling, Consistent, RowsAreThisRuns
<1> QED BY <1>1, InitIInv, NextIInv, PTL DEF Spec

\* A save by a process, a thread or the screen does what it is for and undoes
\* nothing but what it is for and what was saved while its writer held its copy.
THEOREM OnlyMissedAreLost == Spec => OnlyMissedEditsAreLost
<1> DEFINE
  Kept == \A w \in Writer :
            Saves(w) =>
              /\ held[w].missed = {} => file' = Applied(file, held[w].edit)
              /\ \A n \in Name \ (Concerns(held[w].edit) \cup held[w].missed) : file'[n] = file[n]
<1>1. IInv => Kept
  <2> SUFFICES ASSUME IInv, NEW w \in Writer, Saves(w)
               PROVE  /\ held[w].missed = {} => file' = Applied(file, held[w].edit)
                      /\ \A n \in Name \ (Concerns(held[w].edit) \cup held[w].missed) :
                           file'[n] = file[n]
    OBVIOUS
  <2>1. file' = Applied(held[w].copy, held[w].edit)
    BY DEF Saves, Save, Reconciles, ScreenSaves, SaveConfig
  <2>2. Holds(w)
    BY DEF Saves, Save, Reconciles, ScreenSaves, IInv, CopyHeld, ConfigInv, ScreenInv
  <2>3. \A n \in Name \ held[w].missed : held[w].copy[n] = file[n]
    BY <2>2 DEF IInv, ConfigInv, FileInv, CopiesAreCurrent
  <2>4. held[w].copy \in Config /\ held[w].edit \in AnyEdit /\ file \in Config
    BY <2>2 DEF IInv, ConfigInv, FileInv, HeldTypes, Holds, AnyEdit
  <2>5. held[w].missed = {} => held[w].copy = file BY <2>3, <2>4 DEF Config
  <2>6. \A n \in Name \ Concerns(held[w].edit) : file'[n] = held[w].copy[n]
    BY <2>1, <2>4, EditsTheirOwn
  <2> QED BY <2>1, <2>3, <2>5, <2>6
<1>2. IInv => [Kept]_vars BY <1>1
<1> QED BY <1>2, InitIInv, NextIInv, PTL DEF Spec, OnlyMissedEditsAreLost

\* The destination dialog's answer never reroutes another subscription that has
\* come to have the name, nor overrides a location set since it was opened, as
\* the copy it saves was taken when it was answered.
THEOREM ReroutesTheSame == Spec => RerouteIsOfTheSame
<1> DEFINE
  Same == ScreenSaves /\ asked # NotAsked =>
            LET n == asked.name IN
            /\ file'[n].url = asked.row.url
            /\ held[Screen].copy[n].location = asked.row.location
<1>1. IInv => Same
  <2> SUFFICES ASSUME IInv, ScreenSaves, asked # NotAsked
               PROVE  /\ file'[asked.name].url = asked.row.url
                      /\ held[Screen].copy[asked.name].location = asked.row.location
    OBVIOUS
  <2>1. Answered /\ asked \in [name : Name, row : Entry] /\ held[Screen] \in HeldTypes
    BY WriterTypes DEF IInv, ConfigInv, ScreenInv, FileInv, ScreenSaves
  <2> DEFINE c == held[Screen].copy
             e == held[Screen].edit
  <2>2. c \in Config /\ e \in Route /\ e.name = asked.name /\ asked.name \in Name
    BY <2>1 DEF Answered, HeldTypes
  <2>3. Applied(c, e) = SetLocation(c, e.name, e.location) BY <2>2 DEF Applied, Route
  <2>4. SetLocation(c, asked.name, e.location)[asked.name].url = c[asked.name].url
    BY <2>2 DEF SetLocation, Config, Entry, Absent
  <2>5. file' = Applied(c, e) BY DEF ScreenSaves, SaveConfig
  <2> QED BY <2>1, <2>2, <2>3, <2>4, <2>5 DEF Answered
<1>2. IInv => [Same]_vars BY <1>1
<1> QED BY <1>2, InitIInv, NextIInv, PTL DEF Spec, RerouteIsOfTheSame
-----------------------------------------------------------------------------
(* Every sync comes to an end: the reason behind EverySyncEnds.  The flag  *)
(* never outlives its worker, no worker is stuck with nothing to report,   *)
(* and nobody else brings one back.                                        *)

\* What is under way when a worker may have to report it.
Underway(x) == x.pc \in {"items", "finish"} => x.current # {}

Served ==
  /\ inFlight => alive /\ worker[runner].pc # "idle" /\ runner \notin orphans
  /\ \A t \in Thread : Underway(worker[t])

Stage == [idle |-> 0, done |-> 1, fail |-> 1, next |-> 2, items |-> 2, finish |-> 2,
          reconcile |-> 3, load |-> 4]
Point == [next |-> 0, finish |-> 1, items |-> 2]

\* A worker's step from x to y: to a later stage, to the next subscription, or
\* on within the one under way.
Onward(x, y) ==
  \/ Stage[y.pc] < Stage[x.pc]
  \/ /\ Stage[x.pc] = 2 /\ Stage[y.pc] = 2
     /\ y.todo \subseteq x.todo
     /\ y.todo # x.todo \/ Point[y.pc] < Point[x.pc]

\* Worker t comes to stand at y, and the flag is kept until the screen's rests.
Moves(t, y) ==
  /\ worker' = [worker EXCEPT ![t] = y] /\ Onward(worker[t], y)
  /\ UNCHANGED <<alive, runner>> /\ orphans' \subseteq orphans
  /\ inFlight' = IF y.pc = "idle" /\ t \notin orphans THEN FALSE ELSE inFlight
  /\ Underway(worker[t]) => Underway(y)

\* Rendering the end of its run, worker t takes the application with it.
Crashes(t) ==
  /\ worker[t].pc \in {"done", "fail"}
  /\ Collapses([worker EXCEPT ![t] = Resting])

LEMMA StageIs ==
  /\ Stage["idle"] = 0 /\ Stage["done"] = 1 /\ Stage["fail"] = 1
  /\ Stage["next"] = 2 /\ Stage["items"] = 2 /\ Stage["finish"] = 2
  /\ Stage["reconcile"] = 3 /\ Stage["load"] = 4
  /\ Point["next"] = 0 /\ Point["finish"] = 1 /\ Point["items"] = 2
BY DEF Stage, Point

\* A subscription is taken, or left to a later sync.
LEMMA TakesOne ==
  ASSUME NEW x, NEW y, NEW n, x.pc = "next", n \in x.todo, y.todo = x.todo \ {n},
         y.pc \in {"next", "items", "finish", "fail"}
  PROVE  Onward(x, y)
BY StageIs DEF Onward

\* The one under way comes on.
LEMMA ComesOn ==
  ASSUME NEW x, NEW y, y.todo = x.todo,
         \/ x.pc = "items" /\ y.pc = "finish"
         \/ x.pc = "finish" /\ y.pc \in {"next", "fail"}
  PROVE  Onward(x, y)
BY StageIs DEF Onward

LEMMA WorkMoves ==
  ASSUME ViewTypeOK, NEW t \in Thread, Work(t)
  PROVE  Crashes(t) \/ \E y \in Worker : Moves(t, y)
<1> DEFINE x == worker[t]
<1>1. x \in Worker /\ worker \in [Thread -> Worker] BY DEF ViewTypeOK
<1>2. \A c : Enabled(c) \in SUBSET Name BY DEF Enabled
<1>3. ASSUME NEW pc \in {"fail", "reconcile"}, Goes(t, pc), Quietly,
             x.pc = "load" \/ (x.pc = "reconcile" /\ pc = "fail")
      PROVE  \E y \in Worker : Moves(t, y)
  <2> DEFINE y == [x EXCEPT !.pc = pc]
  <2>1. y \in Worker /\ y.pc = pc BY <1>1 DEF Worker
  <2>2. Onward(x, y) BY <1>3, <2>1, StageIs DEF Onward
  <2>3. Moves(t, y) BY <1>3, <2>1, <2>2 DEF Moves, Goes, Quietly, view, Underway
  <2> QED BY <2>1, <2>3
<1>4. ASSUME NEW c, x.pc \in {"load", "reconcile"}, Syncs(t, c), Quietly
      PROVE  \E y \in Worker : Moves(t, y)
  <2> DEFINE y == [x EXCEPT !.pc = "next", !.todo = Enabled(c)]
  <2>1. y \in Worker /\ y.pc = "next" BY <1>1, <1>2 DEF Worker
  <2>2. Onward(x, y) BY <1>4, <2>1, StageIs DEF Onward
  <2>3. Moves(t, y) BY <1>4, <2>1, <2>2 DEF Moves, Syncs, Quietly, view, Underway
  <2> QED BY <2>1, <2>3
<1>5. CASE LoadConfig(t)
  <2>1. x.pc = "load" /\ Quietly BY <1>5 DEF LoadConfig
  <2>2. Goes(t, "fail") \/ Goes(t, "reconcile") \/ Syncs(t, file) BY <1>5 DEF LoadConfig
  <2> QED BY <1>3, <1>4, <2>1, <2>2
<1>6. CASE Reconciles(t) BY <1>4, <1>6 DEF Reconciles
<1>7. CASE ReconcilesNothing(t) BY <1>4, <1>7 DEF ReconcilesNothing
<1>8. CASE ReconcileRaises(t) BY <1>3, <1>8 DEF ReconcileRaises
<1>9. ASSUME NEW n \in Name, Defers(t, n) PROVE \E y \in Worker : Moves(t, y)
  <2> DEFINE y == [x EXCEPT !.todo = @ \ {n}]
  <2>1. y \in Worker /\ y.pc = "next" /\ y.todo = x.todo \ {n}
    BY <1>1, <1>9 DEF Worker, Defers
  <2>2. Onward(x, y) BY <1>9, <2>1, TakesOne DEF Defers
  <2>3. Moves(t, y) BY <1>9, <2>1, <2>2 DEF Moves, Defers, Quietly, view, Underway
  <2> QED BY <2>1, <2>3
<1>10. ASSUME NEW n \in Name, NEW pc \in {"items", "finish", "fail"}, NEW o \in Outcome,
              x.pc = "next", n \in x.todo, UNCHANGED <<alive, inFlight, runner, orphans>>,
              worker' = [worker EXCEPT ![t].todo = @ \ {n}, ![t].current = {n},
                                       ![t].pc = pc, ![t].outcome = o]
       PROVE  \E y \in Worker : Moves(t, y)
  <2> DEFINE y == [x EXCEPT !.todo = @ \ {n}, !.current = {n}, !.pc = pc, !.outcome = o]
  <2>1. y \in Worker /\ y.pc = pc /\ y.todo = x.todo \ {n} /\ y.current # {}
    BY <1>1 DEF Worker
  <2>2. worker' = [worker EXCEPT ![t] = y] BY <1>10 DEF ViewTypeOK
  <2>3. Onward(x, y) BY <1>10, <2>1, TakesOne
  <2>4. Moves(t, y) BY <1>10, <2>1, <2>2, <2>3 DEF Moves, Underway
  <2> QED BY <2>1, <2>4
<1>11. ASSUME NEW n \in Name, Discovers(t, n) PROVE \E y \in Worker : Moves(t, y)
  <2>1. PICK pc \in {"items", "finish", "fail"} :
          worker' = [worker EXCEPT
            ![t].todo = @ \ {n}, ![t].current = {n}, ![t].pc = pc,
            ![t].outcome = IF broken THEN "errors" ELSE "ok"]
    BY <1>11 DEF Discovers
  <2>2. (IF broken THEN "errors" ELSE "ok") \in Outcome BY DEF Outcome
  <2>3. x.pc = "next" /\ n \in x.todo /\ UNCHANGED <<alive, inFlight, runner, orphans>>
    BY <1>11 DEF Discovers, Shows
  <2> QED BY <1>10, <2>1, <2>2, <2>3
<1>12. ASSUME NEW n \in Name, DiscoverFails(t, n) PROVE \E y \in Worker : Moves(t, y)
  BY <1>10, <1>12 DEF DiscoverFails, Quietly, view, Outcome
<1>13. ASSUME NEW o \in Outcome, ItemsEnd(t, o) PROVE \E y \in Worker : Moves(t, y)
  <2> DEFINE y == [x EXCEPT !.pc = "finish", !.outcome = o]
  <2>1. y \in Worker /\ y.pc = "finish" /\ y.todo = x.todo /\ y.current = x.current
    BY <1>1 DEF Worker
  <2>2. Onward(x, y) BY <1>13, <2>1, ComesOn DEF ItemsEnd
  <2>3. Moves(t, y) BY <1>13, <2>1, <2>2 DEF Moves, ItemsEnd, Quietly, view, Underway
  <2> QED BY <2>1, <2>3
<1>14. CASE ItemEventRaises(t) \/ LastItem(t)
  BY <1>13, <1>14 DEF ItemEventRaises, LastItem, Outcome
<1>15. CASE ItemsLimited(t)
  <2> DEFINE y == [x EXCEPT !.pc = "finish", !.outcome = "errors", !.limited = TRUE]
  <2>1. y \in Worker /\ y.pc = "finish" /\ y.todo = x.todo /\ y.current = x.current
    BY <1>1 DEF Worker, Outcome
  <2>2. Onward(x, y) BY <1>15, <2>1, ComesOn DEF ItemsLimited
  <2>3. Moves(t, y) BY <1>15, <2>1, <2>2 DEF Moves, ItemsLimited, Quietly, view, Underway
  <2> QED BY <2>1, <2>3
<1>16. CASE Reports(t)
  <2>1. PICK n \in x.current, pc \in {"fail", "next"} :
          worker' = [worker EXCEPT
            ![t].told = IF t \in orphans THEN @ ELSE [@ EXCEPT ![n] = worker[t].outcome],
            ![t].current = {}, ![t].outcome = "ok", ![t].pc = pc]
    BY <1>16 DEF Reports
  <2> DEFINE said == IF t \in orphans THEN x.told ELSE [x.told EXCEPT ![n] = x.outcome]
             y == [x EXCEPT !.told = said, !.current = {}, !.outcome = "ok", !.pc = pc]
  <2>2. worker' = [worker EXCEPT ![t] = y] BY <1>1, <2>1
  <2>3. said \in [Name -> Outcome \cup {"none"}] BY <1>1, <2>1 DEF Worker
  <2> HIDE DEF said
  <2>4. y \in Worker /\ y.pc = pc /\ y.todo = x.todo BY <1>1, <2>3 DEF Worker, Outcome
  <2>5. x.pc = "finish" /\ UNCHANGED <<alive, inFlight, runner, orphans>>
    BY <1>16 DEF Reports, Shows
  <2> HIDE DEF y
  <2>6. Onward(x, y) BY <2>4, <2>5, ComesOn
  <2>7. Moves(t, y) BY <2>2, <2>4, <2>5, <2>6 DEF Moves, Underway
  <2> QED BY <2>4, <2>7
<1>17. ASSUME NEW pc \in {"idle", "done", "fail"}, Ends(t, pc), Stage[pc] < Stage[x.pc]
       PROVE  \E y \in Worker :
                y.pc = pc /\ Onward(x, y) /\ worker' = [worker EXCEPT ![t] = y]
  <2> DEFINE y == [Resting EXCEPT !.pc = pc, !.told = worker[t].told]
  <2>1. y \in Worker /\ y.pc = pc BY <1>1 DEF Resting, Worker, Unknown, Outcome
  <2>2. Onward(x, y) BY <1>17, <2>1 DEF Onward
  <2> QED BY <1>17, <2>1, <2>2 DEF Ends
<1>18. CASE Raises(t) \/ Completes(t)
  <2>1. Stage[x.pc] = 2 BY <1>18, StageIs DEF Raises, Completes
  <2>2. PICK pc \in {"done", "fail"} : Ends(t, pc) BY <1>18 DEF Raises, Completes
  <2>3. PICK y \in Worker : y.pc = pc /\ Onward(x, y) /\ worker' = [worker EXCEPT ![t] = y]
    BY <1>17, <2>1, <2>2, StageIs
  <2>4. Quietly BY <1>18 DEF Raises, Completes
  <2> QED BY <2>3, <2>4 DEF Moves, Quietly, view, Underway
<1>19. CASE (Succeeds(t) \/ Fails(t)) /\ ~Crashes(t)
  <2>1. Stage["idle"] < Stage[x.pc] /\ x.pc \in {"done", "fail"}
    BY <1>19, StageIs DEF Succeeds, Fails
  <2>2. PICK result \in {"total", "error"} : OnDone(t, result) BY <1>19 DEF Succeeds, Fails
  <2>3. /\ t \notin orphans /\ inFlight' = FALSE /\ Ends(t, "idle")
        /\ UNCHANGED <<alive, runner, orphans>>
    BY <1>19, <2>1, <2>2 DEF OnDone, Crashes
  <2>4. PICK y \in Worker :
          y.pc = "idle" /\ Onward(x, y) /\ worker' = [worker EXCEPT ![t] = y]
    BY <1>17, <2>1, <2>3
  <2>5. Moves(t, y) BY <2>3, <2>4 DEF Moves, Underway
  <2> QED BY <2>5
<1>20. CASE Perishes(t)
  <2>1. /\ t \in orphans /\ orphans' = orphans \ {t} /\ Ends(t, "idle")
        /\ UNCHANGED <<alive, inFlight, runner>>
    BY <1>20 DEF Perishes, view
  <2>2. x.pc # "idle" BY <2>1 DEF ViewTypeOK
  <2>3. Stage["idle"] < Stage[x.pc] BY <1>1, <2>2, StageIs DEF Worker
  <2>4. PICK y \in Worker :
          y.pc = "idle" /\ Onward(x, y) /\ worker' = [worker EXCEPT ![t] = y]
    BY <1>17, <2>1, <2>3
  <2>5. Moves(t, y) BY <2>1, <2>4 DEF Moves, Underway
  <2> QED BY <2>5
<1> QED
  BY <1>5, <1>6, <1>7, <1>8, <1>9, <1>11, <1>12, <1>14, <1>15, <1>16, <1>18, <1>19, <1>20
  DEF Work

\* The application's end touches no worker's place in its run, but for the one
\* whose end it is.
LEMMA CrashesView ==
  ASSUME ViewInv, NEW t \in Thread, Crashes(t)
  PROVE  /\ worker'[t].pc = "idle"
         /\ \A u \in Thread \ {t} : /\ worker'[u].pc = worker[u].pc
                                    /\ worker'[u].todo = worker[u].todo
                                    /\ worker'[u].current = worker[u].current
<1> DEFINE W == [worker EXCEPT ![t] = Resting]
<1>1. /\ W \in [Thread -> Worker] /\ W[t] = Resting
      /\ \A u \in Thread \ {t} : W[u] = worker[u]
  BY RestingTypes DEF ViewInv, ViewTypeOK
<1>2. Collapses(W) BY DEF Crashes
<1> HIDE DEF W
<1>3. \A u \in Thread : /\ worker'[u].pc = W[u].pc /\ worker'[u].todo = W[u].todo
                        /\ worker'[u].current = W[u].current
  BY <1>1, <1>2, CollapsesView
<1> QED BY <1>1, <1>3, RestingTypes

LEMMA ServedInit == Init => Served
BY RestingTypes DEF Init, Served, Underway

LEMMA OnwardFromWork ==
  ASSUME NEW x \in Worker, NEW y \in Worker, Onward(x, y)
  PROVE  x.pc # "idle"
<1>1. Stage[y.pc] \in Nat BY StageIs DEF Worker
<1> QED BY <1>1, StageIs DEF Onward

LEMMA ServedStep == ViewInv /\ Served /\ [Next]_vars => Served'
<1> SUFFICES ASSUME ViewInv, Served, [Next]_vars PROVE Served'
  OBVIOUS
<1>1. worker \in [Thread -> Worker] /\ runner \in Thread BY DEF ViewInv, ViewTypeOK
<1>2. CASE Dies
  <2>1. \A t \in Thread : worker'[t].pc = worker[t].pc /\ worker'[t].current = worker[t].current
    BY <1>2, DiesView
  <2>2. inFlight' = FALSE BY <1>2 DEF Dies, Collapses
  <2> QED BY <2>1, <2>2 DEF Served, Underway
<1>3. ASSUME NEW t \in Thread, PressSync(t) PROVE Served'
  <2>1. /\ alive /\ alive' = alive /\ runner' = t /\ orphans' = orphans /\ worker[t].pc = "idle"
        /\ worker' = [u \in Thread |-> IF u = t THEN [Resting EXCEPT !.pc = "load"]
                                       ELSE IF worker[u].pc = "idle" THEN Resting ELSE worker[u]]
    BY <1>3 DEF PressSync, Starts
  <2>2. [Resting EXCEPT !.pc = "load"].pc = "load" BY DEF Resting
  <2>3. worker'[runner'].pc = "load" /\ runner' \notin orphans'
    BY <2>1, <2>2 DEF ViewInv, ViewTypeOK
  <2>4. \A u \in Thread : Underway(worker'[u])
    BY <2>1, <2>2, RestingTypes DEF Served, Underway
  <2> QED BY <2>1, <2>3, <2>4 DEF Served, Underway
<1>4. ASSUME NEW t \in Thread, NEW y \in Worker, Moves(t, y) PROVE Served'
  <2>1. worker[t].pc # "idle" BY <1>1, <1>4, OnwardFromWork DEF Moves
  <2>2. /\ worker'[t] = y /\ \A u \in Thread \ {t} : worker'[u] = worker[u]
    BY <1>1, <1>4 DEF Moves
  <2>3. \A u \in Thread : Underway(worker'[u]) BY <1>4, <2>2 DEF Moves, Served, Underway
  <2>4. inFlight' => alive' /\ worker'[runner'].pc # "idle" /\ runner' \notin orphans'
    <3> SUFFICES ASSUME inFlight'
                 PROVE  alive' /\ worker'[runner'].pc # "idle" /\ runner' \notin orphans'
      OBVIOUS
    <3>1. /\ inFlight /\ (y.pc # "idle" \/ t \in orphans)
          /\ UNCHANGED <<alive, runner>> /\ orphans' \subseteq orphans
      BY <1>4 DEF Moves
    <3>2. alive /\ worker[runner].pc # "idle" /\ runner \notin orphans BY <3>1 DEF Served
    <3> QED BY <1>1, <2>2, <3>1, <3>2
  <2> QED BY <2>3, <2>4 DEF Served, Underway
<1>5. ASSUME NEW t \in Thread, Crashes(t) PROVE Served'
  <2>1. inFlight' = FALSE BY <1>5 DEF Crashes, Collapses
  <2> QED BY <1>5, <2>1, CrashesView DEF Served, Underway
<1>6. ASSUME NEW t \in Thread, Work(t) PROVE Served'
  BY <1>4, <1>5, <1>6, WorkMoves DEF ViewInv
<1>7. CASE Restarts BY <1>7 DEF Restarts, Served, Underway
<1>8. CASE ScreenKeys \/ OtherProcesses \/ UNCHANGED vars
  BY <1>8 DEF ScreenKeys, OtherProcesses, vars, view, Served, Underway
<1> QED BY <1>2, <1>3, <1>6, <1>7, <1>8 DEF Next

\* While the flag is set the application runs and a worker that will tell it of
\* its end is behind it, and no worker, with an application or without, waits to
\* report a subscription it does not have: the key is never dead for good.
THEOREM FlagIsServed == Spec => []Served
<1>1. IInv => ViewInv BY DEF IInv
<1> QED BY <1>1, InitIInv, NextIInv, ServedInit, ServedStep, PTL DEF Spec

\* A worker's every step is onward, over finitely many subscriptions, and nobody
\* else, not even the end of the application, moves a worker that runs.
THEOREM SyncsComeToAnEnd ==
  Spec => [][\A t \in Thread :
               /\ Work(t) => Onward(worker[t], worker'[t])
               /\ worker[t].pc # "idle" /\ ~Work(t) =>
                    worker'[t].pc = worker[t].pc /\ worker'[t].todo = worker[t].todo]_vars
<1>0. ViewInv => worker \in [Thread -> Worker] BY DEF ViewInv, ViewTypeOK
<1>1. ASSUME ViewInv, NEW t \in Thread, Work(t)
      PROVE  Onward(worker[t], worker'[t])
  <2>1. CASE Crashes(t)
    <3>1. worker'[t].pc = "idle" BY <1>1, <2>1, CrashesView
    <3>2. worker[t].pc \in {"done", "fail"} BY <2>1 DEF Crashes
    <3> QED BY <3>1, <3>2, StageIs DEF Onward
  <2>2. CASE ~Crashes(t)
    <3>1. PICK y \in Worker : Moves(t, y) BY <1>1, <2>2, WorkMoves DEF ViewInv
    <3>2. worker'[t] = y BY <1>0, <1>1, <3>1 DEF Moves
    <3> QED BY <3>1, <3>2 DEF Moves
  <2> QED BY <2>1, <2>2
<1>2. ASSUME ViewInv, [Next]_vars, NEW t \in Thread, worker[t].pc # "idle",
             worker'[t].pc # worker[t].pc \/ worker'[t].todo # worker[t].todo
      PROVE  Work(t)
  <2>1. ASSUME NEW u \in Thread, Work(u) PROVE Work(t)
    <3> SUFFICES ASSUME u # t PROVE FALSE
      BY <2>1
    <3>1. CASE Crashes(u) BY <1>2, <3>1, CrashesView
    <3>2. CASE ~Crashes(u)
      <4>1. PICK y \in Worker : Moves(u, y) BY <1>2, <2>1, <3>2, WorkMoves DEF ViewInv
      <4>2. worker'[t] = worker[t] BY <1>0, <1>2, <4>1 DEF Moves
      <4> QED BY <1>2, <4>2
    <3> QED BY <3>1, <3>2
  <2>2. ~Dies BY <1>2, DiesView
  <2>3. \A u \in Thread : ~PressSync(u) BY <1>2 DEF PressSync, Starts
  <2> QED
    BY <1>2, <2>1, <2>2, <2>3 DEF Next, Restarts, ScreenKeys, OtherProcesses, vars
<1>3. IInv /\ [Next]_vars =>
        [\A t \in Thread :
           /\ Work(t) => Onward(worker[t], worker'[t])
           /\ worker[t].pc # "idle" /\ ~Work(t) =>
                worker'[t].pc = worker[t].pc /\ worker'[t].todo = worker[t].todo]_vars
  BY <1>1, <1>2 DEF IInv
<1> QED BY <1>3, InitIInv, NextIInv, PTL DEF Spec
=============================================================================
