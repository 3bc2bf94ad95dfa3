SPECIFICATION Spec
CONSTANTS
  Worker = {w1, w2}
  Sub = {"mail"}
  NoSub = "none"
  SubOrder <- MailOnly
  Routing <- ToReadwise
  Reroutes = {}
  Pausable = {}
  Feed <- OneMail
  Archive <- MCArchive
  Policy <- MCPolicy
  FetchNeeded = {"mail"}
  Identity <- MCIdentity
  OneRef <- MCOneRef
  Addable = {}
  Ebook = {"book"}
  Refused <- MCRefused
  Past <- Fresh
  MaxNew = 0
  Url <- MCUrl
  NoUrl = "nourl"
  Base <- MCBase
  DedupKey <- MCDedupKey
PROPERTIES
  TombstonesHold
CHECK_DEADLOCK FALSE
