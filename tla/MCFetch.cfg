SPECIFICATION Spec
CONSTANTS
  Fetches <- Fetches3
  Urls = {u1}
  NoFetch = NoFetch
  NoUrl = NoUrl
  Maxconnect = 1
  MaxWaits = 0
  Maxdiskread = 1
  Fastresponse = {TRUE, FALSE}
  Slots = {"NETSLOT"}
  Traits = {"POST"}
  Updates = {"Data", "Error", "Notmodified", "Postnogood"}
  Events = {"cancel", "reload", "requester"}
INVARIANTS
  TypeOK
  SlotsCounted
  NoUseAfterFree
  KnownToUrl
  OneState
