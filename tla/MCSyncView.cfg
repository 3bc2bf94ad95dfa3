SPECIFICATION Spec
CONSTANTS
  Name = {"rss", "pub"}
  Url = {"rss.example", "pub.example"}
  NoUrl = "nourl"
  Follow <- MCFollow
  Process = {"cli"}
  Thread = {t1, t2}
  Screen = "screen"
  Edits <- MCEdits
  Initially <- MCInitially
  Initiatives = 3
INVARIANTS
  TypeOK
  RowsAreThisRuns
PROPERTIES
  EverySyncEnds
  OnlyMissedEditsAreLost
  RerouteIsOfTheSame
CHECK_DEADLOCK FALSE
