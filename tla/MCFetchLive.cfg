SPECIFICATION FairSpec
CONSTANTS
  Fetches <- Fetches3
  Urls = {u1}
  NoFetch = NoFetch
  NoUrl = NoUrl
  Maxconnect = 1
  MaxWaits = 0
  Maxdiskread = 1
  Fastresponse = {TRUE, FALSE}
  Slots = {"NETSLOT"}
  Traits = {}
  Updates = {"Data"}
  Events = {"cancel", "reload", "requester"}
PROPERTIES
  StoppedIsFreed
  QueueMoves
