SPECIFICATION FairSpec
CONSTANTS
  Worker = {w1}
  Sub <- MCSub
  NoSub = "none"
  SubOrder <- MCOrder
  Routing <- ToReadwise
  Reroutes <- RssToShiori
  Pausable = {}
  Feed <- MCFeed
  Archive <- MCArchive
  Policy <- MCPolicy
  FetchNeeded = {"mail"}
  Identity <- NoPermalink
  OneRef <- MCOneRef
  Addable = {}
  Ebook = {"book"}
  Refused <- MCRefused
  Past <- Fresh
  MaxNew = 1
  Url <- MCUrl
  NoUrl = "nourl"
  Base <- MCBase
  DedupKey <- MCDedupKey
PROPERTIES
  EventuallyFiled
  EventuallyHandled
CHECK_DEADLOCK FALSE
