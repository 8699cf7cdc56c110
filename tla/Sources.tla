------------------------------ MODULE Sources ------------------------------
(* Sources and copies (source.c, copy.c, imgsource.c) as urls load and replace *)
(* them (url.c).  A url has at most one source, so a source goes by the name of *)
(* its url.  The source knows what its data are once they come, and makes a     *)
(* driver for them; each copy of the source, in a frame or in a document, has a *)
(* driver of its own that uses the driver of the source.                        *)
EXTENDS Naturals, FiniteSets, FiniteSetsExt

CONSTANTS
  Sites,     \* urls
  NoSite,
  Cops,      \* copies
  Embedded,  \* the copies that are images in a document, the others are in frames
  Moving,    \* bound: the urls that servers may say have moved
  Responses  \* the settings of prefs.fastresponse to check

ASSUME SourcesAssumption ==
  /\ NoSite \notin Sites /\ Embedded \subseteq Cops /\ Moving \subseteq Sites
  /\ Responses \subseteq BOOLEAN /\ IsFiniteSet(Cops)

VARIABLES
  site,          \* the url and its source
  cop,           \* the copies
  screen,        \* AOAPP_Screenvalid
  fastresponse   \* prefs.fastresponse

sourceVars == <<site, cop, screen, fastresponse>>

Unloaded ==
  [driver |-> "none", whole |-> FALSE, task |-> FALSE, dispcount |-> 0,
   loading |-> FALSE, verifying |-> FALSE, movedto |-> NoSite, kept |-> FALSE]

Uncreated ==
  [source |-> NoSite, shown |-> FALSE, load |-> "initial", copf |-> FALSE, driven |-> FALSE]

SourcesInit ==
  /\ site = [u \in Sites |-> Unloaded]
  /\ cop = [c \in Cops |-> Uncreated]
  /\ screen = TRUE
  /\ fastresponse \in Responses

SourcesTypeOK ==
  /\ site \in [Sites -> [driver : {"none", "image", "doc"}, whole : BOOLEAN, task : BOOLEAN,
                         dispcount : 0..Cardinality(Cops), loading : BOOLEAN,
                         verifying : BOOLEAN, movedto : Sites \cup {NoSite}, kept : BOOLEAN]]
  /\ cop \in [Cops -> [source : Sites \cup {NoSite}, shown : BOOLEAN,
                       load : {"initial", "asked", "restricted"},
                       copf : BOOLEAN, driven : BOOLEAN]]
  /\ {screen, fastresponse} \subseteq BOOLEAN

----------------------------------------------------------------------------
(* What handlers do with the state x, a record of site and cop. *)

Now == [site |-> site, cop |-> cop]
Becomes(x) == site' = x.site /\ cop' = x.cop

\* A url that has moved leads on while its answer is in the cache.
Finalurl(x, u) ==
  LET final[v \in Sites] ==
        IF x.site[v].movedto # NoSite /\ x.site[v].kept THEN final[x.site[v].movedto] ELSE v
  IN final[u]

\* The mutant only counts.
ShowsourceCounts(x, u) == [x EXCEPT !.site[u].dispcount = @ + 1]

\* A displayed source asks its driver to work: an image that is all there is decoded.
Showsource(x, u) ==
  LET s == x.site[u]
      start == s.dispcount = 0 /\ s.driver = "image" /\ s.whole /\ screen
  IN [x EXCEPT !.site[u].dispcount = @ + 1, !.site[u].task = @ \/ start]

Hidesource(x, u) == [x EXCEPT !.site[u].dispcount = IF @ = 0 THEN 0 ELSE @ - 1]

\* A document is never used as an embedded object.
Refuses(c, driver) == c \in Embedded /\ driver = "doc"

\* Every copy of u that has none yet gets a driver.
Usedriver(x, u) ==
  LET kind == x.site[u].driver
      Serve(c) ==
        IF kind # "none" /\ x.cop[c].source = u /\ ~x.cop[c].copf
        THEN [x.cop[c] EXCEPT !.copf = TRUE, !.driven = ~Refuses(c, kind)]
        ELSE x.cop[c]
  IN [x EXCEPT !.cop = [c \in Cops |-> Serve(c)]]

\* The mutant leaves the copies their drivers.
DropdriversOfSource(x, u) ==
  [x EXCEPT !.site[u].driver = "none", !.site[u].whole = FALSE, !.site[u].task = FALSE]

\* The source of u gives up its driver, and every copy of u its own.
Dropdrivers(x, u) ==
  [x EXCEPT !.site[u].driver = "none", !.site[u].whole = FALSE, !.site[u].task = FALSE,
            !.cop = [c \in Cops |-> IF x.cop[c].source = u
                                    THEN [x.cop[c] EXCEPT !.copf = FALSE, !.driven = FALSE]
                                    ELSE x.cop[c]]]

\* Copy c leaves its source, if it has one, and joins that of u.
Setsource(x, c, u) ==
  LET old == x.cop[c].source
      left == IF old # NoSite /\ x.cop[c].shown THEN Hidesource(x, old) ELSE x
      joined == [left EXCEPT !.cop[c].source = u, !.cop[c].copf = FALSE,
                             !.cop[c].driven = FALSE]
  IN IF x.cop[c].shown THEN Showsource(joined, u) ELSE joined

\* The source of u is disposed of after its copies went to the source of v, which may
\* be the new one of u.
Movetourl(x, u, v) ==
  LET moving == {c \in Cops : x.cop[c].source = u}
      alone == [Dropdrivers(x, u) EXCEPT !.site[u].dispcount = 0]
      loose == [alone EXCEPT !.cop = [c \in Cops |-> IF c \in moving
                                                     THEN [alone.cop[c] EXCEPT !.source = NoSite]
                                                     ELSE alone.cop[c]]]
  IN FoldSet(LAMBDA c, y : Setsource(y, c, v), loose, moving)

Replacesource(x, u) == Movetourl(x, u, Finalurl(x, u))

\* A fetch of u starts, with a new cache object or none.
Fetch(x, u) ==
  {[x EXCEPT !.site[u].loading = TRUE, !.site[u].kept = k] :
     k \in {FALSE, x.site[u].movedto # NoSite}}

----------------------------------------------------------------------------
(* Loadurl(): the outcomes of a load from the history, from a link, with or    *)
(* without the cache, to reload or to verify, in every state of the cache.     *)
(* Left out: downloads and document extensions (columns 1 and 8 of its table), *)
(* and the verification of a url that once moved.                              *)

Reloadurl(x, u) ==
  LET y == [x EXCEPT !.site[u].verifying = FALSE, !.site[u].movedto = NoSite,
                     !.site[u].kept = FALSE]
  IN Fetch(Replacesource(y, u), u)

Verifyurl(x, u) ==
  LET csrc == x.site[u].driver # "none"
      shown == IF csrc THEN (IF fastresponse THEN Usedriver(x, u) ELSE x) ELSE Replacesource(x, u)
  IN IF x.site[u].movedto # NoSite THEN {}
     ELSE {[shown EXCEPT !.site[u].verifying = TRUE,
                         !.site[u].loading = fastresponse /\ ~csrc]}

Loadhistory(x, u) ==
  IF x.site[u].driver # "none" THEN {Usedriver(x, u)} ELSE Fetch(Replacesource(x, u), u)

Ifinmem(x, u) == {Usedriver(x, Finalurl(x, u))}

\* The mutant relies on the fetch that is under way.
LoadurlWaits(x, from) ==
  LET u == Finalurl(x, from)
  IN IF x.site[u].loading \/ x.site[u].verifying
     THEN {x}
     ELSE Loadhistory(x, u) \cup Fetch(Replacesource(x, u), u) \cup Verifyurl(x, u)

Loadurl(x, from) ==
  LET u == Finalurl(x, from)
  IN IF x.site[u].loading \/ x.site[u].verifying
     THEN {Usedriver(x, u)}
     ELSE Loadhistory(x, u) \cup Fetch(Replacesource(x, u), u) \cup Verifyurl(x, u)

\* An embedded copy is loaded, used if it is there, or left, as the preferences say.
Initialloadcopy(x, c) ==
  LET u == x.cop[c].source
      asked == [x EXCEPT !.cop[c].load = "asked"]
  IN {[x EXCEPT !.cop[c].load = "restricted"]} \cup Ifinmem(asked, u) \cup Loadurl(asked, u)

----------------------------------------------------------------------------
(* Copies. *)

\* A frame makes a copy and loads it; a document makes a copy, which is loaded
\* when it gets its window.
Newcopy(c, u) ==
  /\ cop[c] = Uncreated
  /\ LET x == Setsource(Now, c, Finalurl(Now, u))
     IN IF c \in Embedded THEN Becomes(x)
        ELSE \E y \in Loadurl([x EXCEPT !.cop[c].load = "asked"], u) : Becomes(y)
  /\ UNCHANGED <<screen, fastresponse>>

Setwindow(c) ==
  /\ cop[c].source # NoSite /\ ~cop[c].shown
  /\ LET x == Showsource([Now EXCEPT !.cop[c].shown = TRUE], cop[c].source)
     IN IF cop[c].load = "initial"
        THEN \E y \in Initialloadcopy(x, c) : Becomes(y)
        ELSE Becomes(x)
  /\ UNCHANGED <<screen, fastresponse>>

Clearwindow(c) ==
  /\ cop[c].shown
  /\ Becomes([Hidesource(Now, cop[c].source) EXCEPT !.cop[c].shown = FALSE])
  /\ UNCHANGED <<screen, fastresponse>>

\* A script gives an image another url.
Propertysrc(c, u) ==
  /\ c \in Embedded /\ cop[c].source # NoSite
  /\ LET x == [Setsource(Now, c, Finalurl(Now, u)) EXCEPT !.cop[c].load = "initial"]
     IN IF cop[c].shown
        THEN \E y \in Initialloadcopy(x, c) : Becomes(y)
        ELSE Becomes(x)
  /\ UNCHANGED <<screen, fastresponse>>

\* The mutant forgets that the copy was displayed.
DisposecopyShown(c) ==
  /\ cop[c].source # NoSite
  /\ Becomes([Now EXCEPT !.cop[c] = Uncreated])
  /\ UNCHANGED <<screen, fastresponse>>

Disposecopy(c) ==
  /\ cop[c].source # NoSite
  /\ LET x == IF cop[c].shown THEN Hidesource(Now, cop[c].source) ELSE Now
     IN Becomes([x EXCEPT !.cop[c] = Uncreated])
  /\ UNCHANGED <<screen, fastresponse>>

----------------------------------------------------------------------------
(* Urls and their fetches. *)

Auload(u) ==
  /\ \E x \in Loadurl(Now, u) : Becomes(x)
  /\ UNCHANGED <<screen, fastresponse>>

Auloadreload(u) ==
  /\ \E x \in Reloadurl(Now, u) : Becomes(x)
  /\ UNCHANGED <<screen, fastresponse>>

\* The first data: the source now knows its driver.
Sourcedata(u) ==
  LET v == Finalurl(Now, u)
  IN /\ site[u].loading /\ site[v].driver = "none"
     /\ \E kind \in {"image", "doc"} : Becomes(Usedriver([Now EXCEPT !.site[v].driver = kind], v))
     /\ UNCHANGED <<screen, fastresponse>>

\* The fetch ends, with all data or not.
Eof(u) ==
  LET v == Finalurl(Now, u)
      ended == [Now EXCEPT !.site[u].loading = FALSE]
      decoded == [ended EXCEPT !.site[v].whole = TRUE, !.site[v].task = @ \/ screen]
  IN /\ site[u].loading
     /\ \/ Becomes(ended)
        \/ site[v].driver = "image" /\ Becomes(decoded)
     /\ UNCHANGED <<screen, fastresponse>>

\* The fetch starts again.
Srcupdatereload(u) ==
  /\ site[u].loading
  /\ \E x \in Fetch(Replacesource([Now EXCEPT !.site[u].kept = FALSE], u), u) : Becomes(x)
  /\ UNCHANGED <<screen, fastresponse>>

\* The fetch is told that u has moved to v, which is loaded in its place.  A
\* redirection that closes a circle is left out.
Moveurl(u, v) ==
  LET circle[w \in Sites] ==
        w = u \/ (site[w].movedto # NoSite /\ circle[site[w].movedto])
  IN /\ u \in Moving /\ site[u].loading /\ ~site[u].verifying /\ ~circle[v]
     /\ \E k \in BOOLEAN :
          LET x == Movetourl([Now EXCEPT !.site[u].loading = FALSE, !.site[u].movedto = v,
                                         !.site[u].kept = k], u, Finalurl(Now, v))
              reload == IF site[v].movedto = NoSite THEN Reloadurl(x, v) ELSE {}
          IN \E y \in Loadurl(x, v) \cup reload : Becomes(y)
     /\ UNCHANGED <<screen, fastresponse>>

\* The verification brings new data, which replace the source.
Verifydata(u) ==
  /\ site[u].verifying
  /\ Becomes([Replacesource(Now, u) EXCEPT !.site[u].verifying = FALSE, !.site[u].loading = TRUE])
  /\ UNCHANGED <<screen, fastresponse>>

\* What there is is good, or the verification failed.
Verifysame(u) ==
  LET x == [Now EXCEPT !.site[u].verifying = FALSE]
  IN /\ site[u].verifying
     /\ IF fastresponse THEN Becomes(x) ELSE \E y \in Loadhistory(x, u) : Becomes(y)
     /\ UNCHANGED <<screen, fastresponse>>

\* The answer that u has moved expires, or is flushed from the cache.
Forgetmoved(u) ==
  /\ site[u].kept
  /\ Becomes([Now EXCEPT !.site[u].kept = FALSE])
  /\ UNCHANGED <<screen, fastresponse>>

\* The user, or the limit on memory, flushes a source.
Flushsource(u) ==
  /\ site[u].driver # "none"
  /\ Becomes(Dropdrivers(Now, u))
  /\ UNCHANGED <<screen, fastresponse>>

\* The screen is closed or opened.
Setscreen ==
  LET Decode(s) == s.task \/ (s.driver = "image" /\ s.whole /\ s.dispcount > 0)
  IN /\ screen' = ~screen
     /\ site' = [u \in Sites |-> [site[u] EXCEPT !.task = ~screen /\ Decode(site[u])]]
     /\ UNCHANGED <<cop, fastresponse>>

SourcesNext ==
  \/ \E c \in Cops :
       \/ \E u \in Sites : Newcopy(c, u) \/ Propertysrc(c, u)
       \/ Setwindow(c) \/ Clearwindow(c) \/ Disposecopy(c)
  \/ \E u \in Sites :
       \/ Auload(u) \/ Auloadreload(u) \/ Sourcedata(u) \/ Eof(u) \/ Srcupdatereload(u)
       \/ Verifydata(u) \/ Verifysame(u) \/ Forgetmoved(u) \/ Flushsource(u)
       \/ \E v \in Sites : Moveurl(u, v)
  \/ Setscreen

SourcesSpec == SourcesInit /\ [][SourcesNext]_sourceVars

----------------------------------------------------------------------------
(* Properties. *)

\* A source counts the copies that are displayed.  The count decides whether its
\* memory may be flushed, its image is decoded and its server push goes on.
DisplayCounted ==
  \A u \in Sites :
    site[u].dispcount = Cardinality({c \in Cops : cop[c].source = u /\ cop[c].shown})

\* The driver of a copy never outlives the driver of its source, to which it has a
\* pointer, and the source knows which copies have one.
DriversMatch ==
  \A c \in Cops :
    /\ cop[c].driven => cop[c].copf
    /\ cop[c].copf => cop[c].source # NoSite /\ site[cop[c].source].driver # "none"

\* A copy that was loaded shows what its source has, unless a verification that the
\* user wants to wait for is under way.
CopyGetsDriver ==
  \A c \in Cops :
    LET s == site[cop[c].source]
    IN cop[c].load = "asked" /\ cop[c].source # NoSite =>
         \/ s.driver = "none" \/ Refuses(c, s.driver) \/ cop[c].driven
         \/ s.verifying /\ ~fastresponse

\* An image that is all there and displayed somewhere is decoded.
ImagesDecoded ==
  \A u \in Sites :
    site[u].driver = "image" /\ site[u].whole /\ site[u].dispcount > 0 /\ screen =>
      site[u].task

============================================================================
