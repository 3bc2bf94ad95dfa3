SPECIFICATION FairSpec
CONSTANTS
  LastUid = 3
  Initially = 2
  Url = {"letter", "book"}
  UrlOf <- MCUrlOf
  Linked = {"letter"}
  Book = {2}
  TextOnly = {}
  Settings <- MCSettings
  Discardable = {1}
  PageSize = 2
INVARIANTS
  TypeOK
  TouchedIsAccounted
PROPERTIES
  OnlyOwnersExpunge
  EventuallyHandled
