SPECIFICATION Spec
CONSTANTS
  Fetches <- Fetches3
  Urls = {u1}
  NoFetch = NoFetch
  NoUrl = NoUrl
  Maxconnect = 1
  MaxWaits = 0
  Maxdiskread = 1
  Fastresponse = {TRUE}
  Slots = {"NETSLOT"}
  Traits = {"POST"}
  Updates = {"Data", "Postnogood"}
  Events = {"cancel", "reload", "requester"}
PROPERTIES
  DisposedWhenTaskReturns
