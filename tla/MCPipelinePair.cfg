SPECIFICATION Spec
CONSTANTS
  Worker = {w1, w2}
  Sub = {"mail"}
  NoSub = "none"
  SubOrder <- MailOnly
  Routing <- ToReadwise
  Reroutes <- MailToShiori
  Pausable = {"mail"}
  Feed <- OneMail
  Archive <- MCArchive
  Policy <- MCPolicy
  FetchNeeded = {"mail"}
  Identity <- MCIdentity
  OneRef <- MCOneRef
  Addable = {"web"}
  Ebook = {"book"}
  Refused <- MCRefused
  Past <- Fresh
  MaxNew = 1
  Url <- MCUrl
  NoUrl = "nourl"
  Base <- MCBase
  DedupKey <- MCDedupKey
SYMMETRY AnyWorker
INVARIANTS
  RowsWereDelivered
PROPERTIES
  OkAccountsForAll
CHECK_DEADLOCK FALSE
