------------------------------ MODULE MCParts ------------------------------
(* Components that share no variable, checked in one run: a behaviour is one *)
(* of the component part, while the others stay as they started.            *)
EXTENDS AsyncIO, Cache, Events, Sources, WinHis, Frameset, MCTable

VARIABLE part

Parts == {"asyncio", "cache", "events", "sources", "winhis", "frameset", "table"}

\* Frames with a size in pixels, in percents and relative ones; some need more.
Framespec(type, size, min) == [type |-> type, size |-> size, min |-> min]
Framekinds ==
  {Framespec("pixels", 10, 50), Framespec("percent", 25, 54), Framespec("percent", 50, 5),
   Framespec("relative", 1, 20), Framespec("relative", 2, 5)}

Only(p, vars) == part # p => UNCHANGED vars

PartsInit ==
  /\ part \in Parts
  /\ StreamInit /\ (part # "asyncio" => handler /\ disk = <<>>)
  /\ CacheInit
  /\ EventsInit
  /\ SourcesInit
  /\ WinHisInit
  /\ FramesetInit /\ (part # "frameset" => childs = <<Framespec("percent", 25, 54)>>)
  /\ TableInit /\ (part # "table" => table = {} /\ winwidth = CHOOSE w \in Winwidths : TRUE)

PartsNext ==
  /\ UNCHANGED part
  /\ Only("asyncio", streamVars) /\ Only("cache", cacheVars)
  /\ Only("events", eventVars) /\ Only("sources", sourceVars) /\ Only("winhis", winhisVars)
  /\ Only("frameset", framesetVars) /\ Only("table", tableVars)
  /\ \/ part = "asyncio" /\ StreamNext
     \/ part = "cache" /\ CacheNext
     \/ part = "events" /\ EventsNext
     \/ part = "sources" /\ SourcesNext
     \/ part = "winhis" /\ WinHisNext
     \/ part = "frameset" /\ FramesetNext
     \/ part = "table" /\ TableNext

PartsSpec ==
  /\ PartsInit
  /\ [][PartsNext]_<<part, streamVars, cacheVars, eventVars, sourceVars, winhisVars,
                     framesetVars, tableVars>>
  /\ StreamFairness /\ EventsFairness

\* Every component's variables keep their types.
PartsTypeOK ==
  /\ StreamTypeOK /\ CacheTypeOK /\ EventsTypeOK /\ SourcesTypeOK /\ WinHisTypeOK
  /\ FramesetTypeOK /\ TableTypeOK

============================================================================
