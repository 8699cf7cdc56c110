SPECIFICATION PartsSpec
CONSTANTS
  BufferSize = 2
  MaxCall = 5
  MaxFile = 5
  MaxErrors = 1
  Retry = FALSE
  u1 = u1
  Urls = {u1}
  Expiring = {u1}
  MaxNr = 2
  NRCHKPT = 1
  CHKAFTER = 0
  CacheMax = 1
  MaxData = 1
  MaxTroubles = 1
  Timers = {t1, t2}
  Top = Top
  Kids = {k1}
  Copies = {c1, c2}
  Nobody = Nobody
  MaxQueue = 2
  MaxCalls = 3
  Sites = {s1, s2}
  NoSite = NoSite
  Cops = {p, q}
  Embedded = {q}
  Moving = {s1}
  Responses = {FALSE}
  Windows = {w1, w2}
  MaxWhis = 3
  Childspecs <- Framekinds
  MaxChilds = 3
  Dimensions = {60, 104}
  Places = {0, 110}
  Spacing = 2
  Cellspecs <- Cellkinds
  MaxRows = 2
  MaxCols = 2
  Winwidths = {30, 100}
INVARIANTS
  PartsTypeOK
  SizeAccounted
  RecoversWhatIsCached
  FixSynchronizes
  RequestsAccounted
  TimersOwned
  ScriptsSurvive
  MessagesForLive
  DisplayCounted
  DriversMatch
  CopyGetsDriver
  ImagesDecoded
  LoadsOwnEntry
  FramesetDivided
  OneTable
PROPERTIES
  StreamIsPlainFile
  StreamCallReturns
  KeepsRegistration
  MainLoopServes
  KeepsMainline
\* A closed stream may stay closed, and the cache full.
CHECK_DEADLOCK FALSE
