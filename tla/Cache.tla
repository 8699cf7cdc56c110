------------------------------- MODULE Cache -------------------------------
(* The disk cache of cache.c: the objects of the urls, their files, and the *)
(* registration of them that survives a crash: AWCR while AWeb is not       *)
(* running, the log AWCU while it is.  Main does one thing at a time, but   *)
(* the machine may stop between any two accesses to the disk.               *)
EXTENDS Integers, Sequences, SequencesExt, FiniteSetsExt, Nodelists

CONSTANTS
  Urls,        \* the urls
  Expiring,    \* the urls whose documents carry an expiry date
  MaxNr,       \* bound: the highest number of a file
  NRCHKPT,     \* entries added to AWCU before AWCR is saved
  CHKAFTER,    \* units of data written before the cache is flushed
  CacheMax,    \* prefs.cadisksize, in units of data
  MaxData,     \* bound: the most units of data of one object
  MaxTroubles  \* bound: how often the machine stops or saving AWCR fails

ASSUME CacheAssumption ==
  /\ Expiring \subseteq Urls
  /\ {MaxNr, NRCHKPT, CHKAFTER, CacheMax, MaxData, MaxTroubles} \subseteq Nat

VARIABLES
  phase,       \* "down", "up", or "exited" after Exitcache()
  cache,       \* the cache objects, least recently touched first
  fetching,    \* the urls with a fetch under way
  cachenr,     \* the last number given to a cache object
  cadisksize,  \* the size of all objects
  nradded,     \* entries added to AWCU since AWCR was saved
  sizeadded,   \* data written since the last flush
  flushing,    \* Flushexcess(): the object its loop is at, or 0
  todo,        \* the accesses to the disk of the operation under way
  awcr, awcu,  \* the two registration files
  files,       \* what is in the files of the cache
  now,         \* whether the expiry dates have passed
  crashes, faults

memory == <<phase, cache, fetching, cachenr, cadisksize, nradded, sizeadded, flushing>>
onDisk == <<awcr, awcu, files>>
cacheVars == <<memory, todo, onDisk, now, crashes, faults>>

Nr == 1..MaxNr
NoFile == [there |-> FALSE, lastnr |-> 0, log |-> <<>>]
Torn == [del |-> FALSE, nr |-> 0, url |-> "torn", size |-> 0]

\* An object is held by its url: as its cache, as the old copy (ocache) that a
\* reload keeps, as the new one of a verification (vcache), by a second url
\* object of the same name ("dup"), or by none ("orphan").  twin tells apart the
\* objects of one number, which there are after a restart.
Object(nr, u, as, named, size) ==
  [nr |-> nr, twin |-> 0, url |-> u, as |-> as, named |-> named, open |-> FALSE, size |-> size,
   restored |-> FALSE]
Held(u, as) == {o \in ToSet(cache) : o.url = u /\ o.as = as}
Without(list, gone) == Removed(list, {i \in DOMAIN list : list[i] \in gone})
SizeOf(list) == FoldLeft(LAMBDA sum, o : sum + o.size, 0, list)

CacheInit ==
  /\ phase = "down" /\ cache = <<>> /\ fetching = {} /\ cachenr = 0
  /\ cadisksize = 0 /\ nradded = 0 /\ sizeadded = 0 /\ flushing = 0 /\ todo = <<>>
  /\ awcr = NoFile /\ awcu = NoFile /\ files = [n \in Nr |-> "none"]
  /\ now = FALSE /\ crashes = 0 /\ faults = 0

Ready == phase = "up" /\ todo = <<>> /\ flushing = 0

------------------------------------------------------------------------------
(* What an operation does to the disk, one access after the other. *)

Entry(o, del) == [del |-> del, nr |-> o.nr, url |-> o.url, size |-> o.size]

\* Mutants for the checks: AWCU goes before AWCR is written; AWCR is not renamed.
CompactionDeletesFirst ==
  <<[do |-> "delete AWCU"], [do |-> "open AWCR"], [do |-> "close AWCR"], [do |-> "rename"]>>
CompactionUnrenamed == <<[do |-> "open AWCR"], [do |-> "close AWCR"], [do |-> "delete AWCU"]>>

\* Savecachereg() followed by Rename().
Compaction == <<[do |-> "open AWCR"], [do |-> "close AWCR"], [do |-> "delete AWCU"],
                [do |-> "rename"]>>

\* Addregentry() writes one entry to AWCU, and from time to time all to AWCR.
Addregentry(r, e) ==
  LET step == Append(r.todo, [do |-> "append", entry |-> e])
  IN IF r.added + 1 > NRCHKPT THEN [todo |-> step \o Compaction, added |-> 0]
                              ELSE [todo |-> step, added |-> r.added + 1]

\* The same for each of these entries, from a count of entries added.
Addregentries(entries, added) ==
  FoldLeft(Addregentry, [todo |-> <<>>, added |-> added], entries)

\* Deletecache(): the file, then the entry of the registration.
Deletecache(r, o) ==
  IF o.named
  THEN Addregentry([r EXCEPT !.todo = Append(@, [do |-> "unlink", nr |-> o.nr])], Entry(o, TRUE))
  ELSE r

\* Disposecache() of one object after the other.
Disposals(objects, added) == FoldLeft(Deletecache, [todo |-> <<>>, added |-> added], objects)

\* A mutant for the checks: cac->disksize is not taken off.
DisposeUnsized(gone, list) ==
  LET d == Disposals(SetToSeq(gone), nradded)
  IN /\ cache' = Without(list, gone) /\ cadisksize' = cadisksize
     /\ todo' = d.todo /\ nradded' = d.added

\* Dispose of these objects, and leave the others as they are in list.
Dispose(gone, list) ==
  LET d == Disposals(SetToSeq(gone), nradded)
  IN /\ cache' = Without(list, gone)
     /\ cadisksize' = cadisksize - SizeOf(SetToSeq(gone))
     /\ todo' = d.todo /\ nradded' = d.added

\* Agetattr(cac->url,AOURL_Cache) is the object itself.
Registered(o) == o.as \in {"cache", "dup"}

\* Savecachereg(): every object that is the cache of its url is registered,
\* also one that is still being fetched.
Registration ==
  [there |-> TRUE, lastnr |-> cachenr,
   log |-> LET regs == Without(cache, {o \in ToSet(cache) : ~Registered(o)})
           IN [i \in 1..Len(regs) |-> Entry(regs[i], FALSE)]]

DiskStep ==
  /\ todo # <<>> /\ phase # "down" /\ Head(todo).do # "fixed"
  /\ LET step == Head(todo)
     IN \/ /\ step.do = "create" /\ files' = [files EXCEPT ![step.nr] = "partial"]
           /\ UNCHANGED <<awcr, awcu>>
        \/ /\ step.do = "close" /\ files' = [files EXCEPT ![step.nr] = "whole"]
           /\ UNCHANGED <<awcr, awcu>>
        \/ /\ step.do = "unlink" /\ files' = [files EXCEPT ![step.nr] = "none"]
           /\ UNCHANGED <<awcr, awcu>>
        \/ /\ step.do = "append"
           /\ awcu' = [awcu EXCEPT !.there = TRUE, !.log = Append(@, step.entry)]
           /\ UNCHANGED <<awcr, files>>
        \/ /\ step.do = "create AWCU" /\ awcu' = [NoFile EXCEPT !.there = TRUE]
           /\ UNCHANGED <<awcr, files>>
        \/ /\ step.do = "open AWCR" /\ awcr' = [NoFile EXCEPT !.there = TRUE]
           /\ UNCHANGED <<awcu, files>>
        \/ /\ step.do = "close AWCR" /\ awcr' = Registration
           /\ UNCHANGED <<awcu, files>>
        \/ /\ step.do = "delete AWCU" /\ awcu' = NoFile
           /\ UNCHANGED <<awcr, files>>
        \* Rename() fails when there is no AWCR, or when AWCU is still there.
        \/ /\ step.do = "rename"
           /\ IF awcr.there /\ ~awcu.there
              THEN awcu' = awcr /\ awcr' = NoFile
              ELSE UNCHANGED <<awcr, awcu>>
           /\ UNCHANGED files
  /\ todo' = Tail(todo)
  /\ UNCHANGED <<memory, now, crashes, faults>>

\* CloseAsync() of AWCR reports an error: AWCR is deleted instead of AWCU.
SaveFails ==
  /\ phase # "down" /\ crashes + faults < MaxTroubles
  /\ todo # <<>> /\ Head(todo).do = "close AWCR"
  /\ awcr' = NoFile /\ faults' = faults + 1
  /\ todo' = Tail(Tail(todo))
  /\ UNCHANGED <<memory, awcu, files, now, crashes>>

------------------------------------------------------------------------------
(* The machine stops and AWeb starts again. *)

\* An entry that was being appended may be there in part.
Crash ==
  /\ phase # "down" /\ crashes + faults < MaxTroubles /\ crashes' = crashes + 1
  /\ \/ UNCHANGED awcu
     \/ /\ todo # <<>> /\ Head(todo).do = "append"
        /\ awcu' = [awcu EXCEPT !.there = TRUE, !.log = Append(@, Torn)]
  /\ phase' = "down" /\ cache' = <<>> /\ fetching' = {} /\ cachenr' = 0 /\ cadisksize' = 0
  /\ nradded' = 0 /\ sizeadded' = 0 /\ flushing' = 0 /\ todo' = <<>>
  /\ UNCHANGED <<awcr, files, now, faults>>

\* A deleting entry finds the first url object of its name, and deletes its
\* cache if that has its number.  (A mutant for the checks: any number.)
DeletesAny(e, o) == o.url = e.url /\ o.as = "cache"
Deletes(e, o) == o.url = e.url /\ o.as = "cache" /\ o.nr = e.nr

\* Every other entry makes a new url object, in front of those of the same name.
Duplicated(list, u) ==
  [i \in 1..Len(list) |-> IF list[i].url = u THEN [list[i] EXCEPT !.as = "dup"] ELSE list[i]]
Registeredas(list, e) ==
  LET twins == {o.twin : o \in {x \in ToSet(list) : x.nr = e.nr}}
  IN [Object(e.nr, e.url, "cache", TRUE, e.size) EXCEPT !.twin = Max(twins \cup {0}) + 1]

\* What one entry does to the list of cache objects; late: whether the expiry
\* dates have passed.
Readentry(r, e, late) ==
  LET gone == {o \in ToSet(r.cache) : Deletes(e, o)}
  IN IF e.del
     THEN [r EXCEPT !.cache = Without(@, gone), !.deleted = @ \o SetToSeq({o.nr : o \in gone})]
     ELSE IF late /\ e.url \in Expiring THEN [r EXCEPT !.deleted = Append(@, e.nr)]
     ELSE [r EXCEPT !.cache = Append(Duplicated(@, e.url), Registeredas(@, e)),
                    !.lastnr = Max({e.nr, @})]

\* Readcachereg(), as far as the entries are whole.
Readable(log) ==
  LET torn == SelectInSeq(log, LAMBDA e : e = Torn)
  IN IF torn = 0 THEN log ELSE SubSeq(log, 1, torn - 1)
Replay(reg, late) ==
  FoldLeft(LAMBDA r, e : Readentry(r, e, late),
           [cache |-> <<>>, deleted |-> <<>>, lastnr |-> reg.lastnr], Readable(reg.log))

\* The registration that the next start will read.
Recoverable == IF awcu.there THEN awcu ELSE awcr

\* Initcache(): AWCU is there after a crash, AWCR after an exit.
Initcache ==
  /\ phase \in {"down", "exited"} /\ todo = <<>>
  /\ LET r == Replay(Recoverable, now)
     IN /\ cache' = r.cache /\ cachenr' = r.lastnr /\ cadisksize' = SizeOf(r.cache)
        /\ todo' = [i \in 1..Len(r.deleted) |-> [do |-> "unlink", nr |-> r.deleted[i]]]
                   \o IF awcu.there THEN Compaction
                      ELSE IF awcr.there THEN <<[do |-> "rename"]>>
                      ELSE <<[do |-> "create AWCU"]>>
  /\ phase' = "up" /\ fetching' = {} /\ nradded' = 0 /\ sizeadded' = 0 /\ flushing' = 0
  /\ UNCHANGED <<onDisk, now, crashes, faults>>

\* Exitcache(): AWCR is saved, and no file is deleted from now on.
Exitcache ==
  /\ Ready /\ phase' = "exited"
  /\ todo' = <<[do |-> "open AWCR"], [do |-> "close AWCR"], [do |-> "delete AWCU"]>>
  /\ UNCHANGED <<cache, fetching, cachenr, cadisksize, nradded, sizeadded, flushing,
                 onDisk, now, crashes, faults>>

ExpiryPasses ==
  /\ Ready /\ ~now /\ now' = TRUE
  /\ UNCHANGED <<memory, todo, onDisk, crashes, faults>>

------------------------------------------------------------------------------
(* Operations of the urls on their cache objects. *)

As(list, o, as) == [i \in 1..Len(list) |-> IF list[i] = o THEN [o EXCEPT !.as = as] ELSE list[i]]

Expired(u) == now /\ u \in Expiring
Fresh(u) == Object(cachenr + 1, u, "cache", FALSE, 0)

\* Loadurl() starts a fetch and makes a new object; an expired copy goes.
Load(u) ==
  /\ Ready /\ u \notin fetching /\ cachenr < MaxNr
  /\ Held(u, "cache") = {} \/ Expired(u)
  /\ Dispose(Held(u, "cache"), Append(cache, Fresh(u)))
  /\ cachenr' = cachenr + 1 /\ fetching' = fetching \cup {u}
  /\ UNCHANGED <<phase, sizeadded, flushing, onDisk, now, crashes, faults>>

\* Only a load from the window history leaves the expired object alone, and
\* its url forgets it.
LoadHistory(u) ==
  /\ Ready /\ u \notin fetching /\ cachenr < MaxNr /\ Expired(u)
  /\ \E o \in Held(u, "cache") : cache' = Append(As(cache, o, "orphan"), Fresh(u))
  /\ cachenr' = cachenr + 1 /\ fetching' = fetching \cup {u}
  /\ UNCHANGED <<phase, cadisksize, nradded, sizeadded, flushing, todo, onDisk, now,
                 crashes, faults>>

\* A reload breaks the fetch under way, and keeps the present copy, complete
\* or not, until the new one is there.
Reload(u) ==
  /\ Ready /\ cachenr < MaxNr
  /\ \E old \in Held(u, "cache") :
       Dispose(Held(u, "ocache") \cup Held(u, "vcache"),
               Append(As(cache, old, "ocache"), Fresh(u)))
  /\ cachenr' = cachenr + 1 /\ fetching' = fetching \cup {u}
  /\ UNCHANGED <<phase, sizeadded, flushing, onDisk, now, crashes, faults>>

\* A verification of the copy fetches into a second object ...
Verify(u) ==
  /\ Ready /\ u \notin fetching /\ cachenr < MaxNr /\ ~Expired(u)
  /\ Held(u, "cache") # {}
  /\ cache' = Append(cache, [Fresh(u) EXCEPT !.as = "vcache"])
  /\ cachenr' = cachenr + 1 /\ fetching' = fetching \cup {u}
  /\ UNCHANGED <<phase, cadisksize, nradded, sizeadded, flushing, todo, onDisk, now,
                 crashes, faults>>

\* ... which takes its place when there is data,
VerifyModified(u) ==
  /\ Ready
  /\ \E o \in Held(u, "vcache") : Dispose(Held(u, "cache"), As(cache, o, "cache"))
  /\ UNCHANGED <<phase, fetching, cachenr, sizeadded, flushing, onDisk, now, crashes, faults>>

\* and goes when there is none.
VerifyEnds(u) ==
  /\ Ready /\ Held(u, "vcache") # {} /\ Dispose(Held(u, "vcache"), cache)
  /\ fetching' = fetching \ {u}
  /\ UNCHANGED <<phase, cachenr, sizeadded, flushing, onDisk, now, crashes, faults>>

\* Srcupdatecache() of data: the file is opened for the first of it.  After
\* CHKAFTER units the cache is flushed.
Data(u) ==
  /\ Ready /\ u \in fetching /\ Held(u, "vcache") = {}
  /\ \E o \in Held(u, "cache") :
       /\ ~o.named \/ o.open
       /\ o.size < MaxData
       /\ cache' = [i \in 1..Len(cache) |->
                      IF cache[i] = o THEN [o EXCEPT !.named = TRUE, !.open = TRUE, !.size = @ + 1]
                                      ELSE cache[i]]
       /\ todo' = IF o.named THEN <<>> ELSE <<[do |-> "create", nr |-> o.nr]>>
  /\ cadisksize' = cadisksize + 1
  /\ IF sizeadded + 1 > CHKAFTER
     THEN sizeadded' = 0 /\ flushing' = cache[1].nr
     ELSE sizeadded' = sizeadded + 1 /\ UNCHANGED flushing
  /\ UNCHANGED <<phase, fetching, cachenr, nradded, onDisk, now, crashes, faults>>

\* AOURL_Eof and AOURL_Terminate come in one update: the old copy is disposed
\* of, the file closed, registered, and the cache flushed.  Without any data
\* the file is opened for that.
Finish(u) ==
  /\ Ready /\ u \in fetching /\ Held(u, "vcache") = {}
  /\ LET old == Held(u, "ocache")
         done == {o \in Held(u, "cache") : o.open \/ ~o.named}
         d == Disposals(SetToSeq(old), nradded)
         reg == Addregentries(SetToSeq({Entry(o, FALSE) : o \in done}), d.added)
         created == SetToSeq({[do |-> "create", nr |-> o.nr] : o \in {x \in done : ~x.named}})
         closed == SetToSeq({[do |-> "close", nr |-> o.nr] : o \in done})
         left == Without(cache, old)
     IN /\ cache' = [i \in 1..Len(left) |->
                       IF left[i] \in done THEN [left[i] EXCEPT !.named = TRUE, !.open = FALSE]
                                           ELSE left[i]]
        /\ cadisksize' = cadisksize - SizeOf(SetToSeq(old))
        /\ todo' = d.todo \o created \o closed \o reg.todo /\ nradded' = reg.added
        /\ flushing' = IF done = {} THEN 0 ELSE left[1].nr
        /\ sizeadded' = sizeadded
  /\ fetching' = fetching \ {u}
  /\ UNCHANGED <<phase, cachenr, onDisk, now, crashes, faults>>

\* AOURL_Error, from the driver or a cancel: the new object is disposed of
\* and the old copy restored.
FetchError(u) ==
  /\ Ready /\ u \in fetching /\ Held(u, "vcache") = {}
  /\ LET old == Held(u, "ocache")
     IN Dispose(Held(u, "cache"),
                [i \in 1..Len(cache) |->
                   IF cache[i] \in old THEN [cache[i] EXCEPT !.as = "cache", !.restored = TRUE]
                                        ELSE cache[i]])
  /\ UNCHANGED <<phase, fetching, cachenr, sizeadded, flushing, onDisk, now, crashes, faults>>

\* Loading the cached copy touches it.
Touch(u) ==
  /\ Ready /\ u \notin fetching
  /\ \E o \in Held(u, "cache") :
       cache' = Append(Without(cache, {o}), o)
  /\ UNCHANGED <<phase, fetching, cachenr, cadisksize, nradded, sizeadded, flushing,
                 todo, onDisk, now, crashes, faults>>

\* AUMST_DELETECACHE, from the cache browser or a command.
DeleteCache(u) ==
  /\ Ready /\ Held(u, "cache") # {}
  /\ Dispose(Held(u, "cache"), cache)
  /\ UNCHANGED <<phase, fetching, cachenr, sizeadded, flushing, onDisk, now, crashes, faults>>

\* Dupcheck(): the first url object of a name clears the cache of the others.
Dupcheck(u) ==
  /\ Ready /\ Held(u, "dup") # {}
  /\ Dispose(Held(u, "dup"), cache)
  /\ UNCHANGED <<phase, fetching, cachenr, sizeadded, flushing, onDisk, now, crashes, faults>>

------------------------------------------------------------------------------
(* Flushexcess(): from the least recently touched object on, until the cache  *)
(* fits, each object's url is told to delete its cache.                       *)

Position(nr) == SelectInSeq(cache, LAMBDA o : o.nr = nr)
Following(nr) ==
  LET i == Position(nr) IN IF i = 0 \/ i = Len(cache) THEN 0 ELSE cache[i + 1].nr

\* The object that goes when the loop is at o: what its url holds as cache.
Victims(o) == IF Registered(o) THEN {o} ELSE Held(o.url, "cache")

Flushexcess ==
  /\ phase = "up" /\ todo = <<>> /\ flushing # 0
  /\ LET i == Position(flushing)
     IN IF i = 0 \/ cadisksize <= CacheMax
        THEN /\ flushing' = 0 /\ sizeadded' = 0
             /\ UNCHANGED <<cache, cadisksize, todo, nradded>>
        ELSE LET gone == Victims(cache[i])
                 next == Following(flushing)
             IN /\ Dispose(gone, cache)
                \* The saved pointer may be that of the object that went: what
                \* it leads to is what its memory still holds, or the end.
                /\ IF \E o \in gone : o.nr = next
                   THEN flushing' \in {0, Following(next)}
                   ELSE flushing' = next
                /\ sizeadded' = 0
  /\ UNCHANGED <<phase, fetching, cachenr, onDisk, now, crashes, faults>>

\* Makecafixlist(): the objects with a file name, and the numbers that several
\* of them have.
Named == {o \in ToSet(cache) : o.named}
Shared == {o.nr : o \in {x \in Named : \E y \in Named : y # x /\ y.nr = x.nr}}

\* Fixcachedir() takes one object off the list for each file that it finds, the
\* first of that name.
Foundfirst(o) == cache[SelectInSeq(cache, LAMBDA x : x.named /\ x.nr = o.nr)] = o

\* A mutant for the checks: Fixcachereg() is not called.
FixcacheFilesOnly ==
  /\ Ready
  /\ LET stray == {n \in Nr : files[n] # "none" /\ \A o \in Named : o.nr # n}
     IN todo' = SetToSeq({[do |-> "unlink", nr |-> n] : n \in stray})
                \o Compaction \o <<[do |-> "fixed", shared |-> Shared]>>
  /\ UNCHANGED <<memory, onDisk, now, crashes, faults>>

\* Dofixcache(): files that belong to no object are deleted, then the url of each
\* object for which none was found deletes its cache, the file included, and the
\* registration is saved.
Fixcache ==
  /\ Ready
  /\ LET stray == {n \in Nr : files[n] # "none" /\ \A o \in Named : o.nr # n}
         lost == {o \in Named : files[o.nr] = "none" \/ ~Foundfirst(o)}
         gone == UNION {Victims(o) : o \in lost}
         d == Disposals(SetToSeq(gone), nradded)
     IN /\ cache' = Without(cache, gone)
        /\ cadisksize' = cadisksize - SizeOf(SetToSeq(gone))
        /\ todo' = SetToSeq({[do |-> "unlink", nr |-> n] : n \in stray}) \o d.todo
                   \o Compaction \o <<[do |-> "fixed", shared |-> Shared]>>
        /\ nradded' = d.added
  /\ UNCHANGED <<phase, fetching, cachenr, sizeadded, flushing, onDisk, now, crashes, faults>>

\* Setprogressreq(preq,67,67): the repair is done.
FixEnds ==
  /\ todo # <<>> /\ Head(todo).do = "fixed" /\ todo' = <<>>
  /\ UNCHANGED <<memory, onDisk, now, crashes, faults>>

CacheNext ==
  \/ DiskStep \/ SaveFails \/ Crash \/ Initcache \/ Exitcache \/ ExpiryPasses
  \/ \E u \in Urls : \/ Load(u) \/ LoadHistory(u) \/ Reload(u)
                     \/ Verify(u) \/ VerifyModified(u) \/ VerifyEnds(u) \/ Data(u) \/ Finish(u) \/ FetchError(u)
                     \/ Touch(u) \/ DeleteCache(u) \/ Dupcheck(u)
  \/ Flushexcess \/ Fixcache \/ FixEnds

CacheSpec == CacheInit /\ [][CacheNext]_cacheVars

------------------------------------------------------------------------------
(* Properties. *)

ObjectOK(o) ==
  /\ o.nr \in Nat /\ o.twin \in Nat /\ o.url \in Urls /\ o.as \in {"cache", "ocache", "vcache", "dup", "orphan"}
  /\ o.named \in BOOLEAN /\ o.open \in BOOLEAN /\ o.size \in Nat
RegistrationOK(reg) ==
  /\ reg.there \in BOOLEAN /\ reg.lastnr \in 0..MaxNr
  /\ \A e \in ToSet(reg.log) : e = Torn \/ (e.nr \in Nr /\ e.url \in Urls)

CacheTypeOK ==
  /\ phase \in {"down", "up", "exited"}
  /\ \A o \in ToSet(cache) : ObjectOK(o)
  /\ fetching \subseteq Urls /\ cachenr \in 0..MaxNr /\ cadisksize \in Nat
  /\ nradded \in 0..NRCHKPT /\ sizeadded \in 0..CHKAFTER /\ flushing \in 0..MaxNr
  /\ RegistrationOK(awcr) /\ RegistrationOK(awcu)
  /\ files \in [Nr -> {"none", "partial", "whole"}]
  /\ now \in BOOLEAN /\ crashes \in Nat /\ faults \in Nat /\ crashes + faults <= MaxTroubles

\* The running total that Flushexcess() compares with the user's limit is the
\* size of the objects there are, after every load, error, crash and restart.
SizeAccounted == phase # "down" => cadisksize = SizeOf(cache)

\* What the next start will find registered.
Known == {[nr |-> o.nr, url |-> o.url] : o \in ToSet(Replay(Recoverable, now).cache)}
Id(o) == [nr |-> o.nr, url |-> o.url]

\* No crash, compaction, failed save, exit or restart drops an object from what
\* the next start recovers while it is the cache of its url: only its expiry and
\* the deletion of its file do.
KeepsRegistration ==
  [][Recoverable' # Recoverable /\ now' = now => \A k \in Known :
       \/ k \in Known'
       \/ todo # <<>> /\ Head(todo).do = "append" /\ Head(todo).entry.nr = k.nr
       \/ phase # "down" /\ \A o \in ToSet(cache) : Id(o) = k => ~Registered(o)]_cacheVars

\* Between two operations a crash would recover every complete object with its
\* file that has not expired, but one that a failed reload put back.
RecoversWhatIsCached ==
  Ready /\ faults = 0 =>
    \A o \in ToSet(cache) :
      /\ Registered(o) /\ o.named /\ ~o.open /\ ~o.restored /\ ~Expired(o.url)
      /\ files[o.nr] = "whole"
      => Id(o) \in Known

\* When the repair of the cache ends, every file on the disk is that of an
\* object, and every object that is the cache of its url has its file, except
\* those that shared their number with another when the repair began: of these the
\* second deletes the file of the first (cache.c:580-591, 620-626).
FixSynchronizes ==
  todo # <<>> /\ Head(todo).do = "fixed" =>
    /\ \A n \in Nr : files[n] # "none" => \E o \in Named : o.nr = n
    /\ \A o \in Named : Registered(o) => files[o.nr] # "none" \/ o.nr \in Head(todo).shared
=============================================================================
