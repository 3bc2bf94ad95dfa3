SPECIFICATION Spec
CONSTANTS
  Worker = {w1}
  Sub <- MCSub
  NoSub = "none"
  SubOrder <- MCOrder
  Routing <- ToReadwise
  Reroutes = {}
  Pausable = {}
  Feed <- SameForm
  Archive <- MCArchive
  Policy <- MCPolicy
  FetchNeeded = {"mail"}
  Identity <- MCIdentity
  OneRef <- MCOneRef
  Addable = {}
  Ebook = {"book"}
  Refused <- MCRefused
  Past <- Fresh
  MaxNew = 0
  Url <- MCUrl
  NoUrl = "nourl"
  Base <- MCBase
  DedupKey <- MCDedupKey
PROPERTIES
  NeverResurrects
CHECK_DEADLOCK FALSE
