SPECIFICATION Spec
CONSTANTS
  Fetches <- Fetches3
  Urls = {u1, u2}
  NoFetch = NoFetch
  NoUrl = NoUrl
  Maxconnect = 1
  MaxWaits = 1
  Maxdiskread = 1
  Fastresponse = {TRUE}
  Slots = {"NETSLOT"}
  Traits = {"IMAGE"}
  Updates = {"Moved"}
  Events = {"reload"}
SYMMETRY UrlSymmetry
INVARIANTS
  QueuedNeedsSlot
  WaitersHaveFetch
