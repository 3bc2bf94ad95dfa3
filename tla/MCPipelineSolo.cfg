SPECIFICATION Spec
CONSTANTS
  Worker = {w1}
  Sub <- MCSub
  NoSub = "none"
  SubOrder <- MCOrder
  Routing <- ToReadwise
  Reroutes <- RssToShiori
  Pausable = {}
  Feed <- MCFeed
  Archive <- MCArchive
  Policy <- MCPolicy
  FetchNeeded = {"mail"}
  Identity <- MCIdentity
  OneRef <- MCOneRef
  Addable = {"web"}
  Ebook = {"book"}
  Refused <- MCRefused
  Past <- Inherited
  MaxNew = 1
  Url <- MCUrl
  NoUrl = "nourl"
  Base <- MCBase
  DedupKey <- MCDedupKey
INVARIANTS
  TypeOK
  RowsWereDelivered
  HandledIsFiled
  SentIsFiledOrLost
  NoPushOnceLimited
CHECK_DEADLOCK FALSE
PROPERTIES
  PushesOnlyUnfiled
  RepushesOnlyLost
  OnlyTheUserForgets
  TombstonesHold
  OkAccountsForAll
  KeepsPromise
