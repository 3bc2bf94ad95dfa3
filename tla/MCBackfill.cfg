SPECIFICATION FairSpec
CONSTANTS
  Newest = 5
  Initially = 4
  PageSize = 2
  Unusable = {3}
  Gated = {4}
  Twin = {1}
  Undated = {}
  SavedDate <- MCSavedDate
  Limits = {1}
  Floors = {2}
  Known = {{}}
INVARIANTS
  TypeOK
  ArchiveLossBounded
  SavedWalkComplete
  DrainedMeansFiled
PROPERTIES
  EveryWalkEnds
  RerunsFileEverything
