------------------------------- MODULE WinHis -------------------------------
(* The window history (winhis.c): one list of entries for all windows, with *)
(* flags that tell the mainline of each window, and the frame that shows    *)
(* one entry while another one loads (frame.c, event.c, whiswin.c).         *)
(* Windows without subframes; no entry is ever removed.                     *)
EXTENDS Integers, FiniteSetsExt

CONSTANTS
  Windows,     \* the keys of the windows
  MaxWhis      \* bound on the entries

ASSUME WinHisAssumption == MaxWhis \in Nat

VARIABLES
  whisnr,      \* entries made so far; an entry is its number
  whiss,       \* for every window the entries with its key
  skip,        \* WINHF_SKIP: not part of the mainline
  new,         \* WINHF_NEW: not yet part of it
  history,     \* WINHF_HISTORY: asked for as history
  whis,        \* fr->whis, the entry shown by the frame of a window; 0: none
  inputwhis,   \* fr->inputwhis, the entry asked for last
  inputcopy,   \* a copy for fr->inputwhis is loading
  hiswhis      \* win->hiswhis, where the buttons walk from

flagVars == <<skip, new, history>>
frameVars == <<whis, inputwhis, inputcopy, hiswhis>>
winhisVars == <<whisnr, whiss, flagVars, frameVars>>

WinHisTypeOK ==
  /\ whisnr \in 0..MaxWhis
  /\ whiss \in [Windows -> SUBSET (1..whisnr)]
  /\ skip \subseteq 1..whisnr /\ new \subseteq skip /\ history \subseteq 1..whisnr
  /\ whis \in [Windows -> 0..whisnr] /\ inputwhis \in [Windows -> 0..whisnr]
  /\ hiswhis \in [Windows -> 0..whisnr] /\ inputcopy \in [Windows -> BOOLEAN]

WinHisInit ==
  /\ whisnr = 0 /\ whiss = [w \in Windows |-> {}]
  /\ skip = {} /\ new = {} /\ history = {}
  /\ whis = [w \in Windows |-> 0] /\ inputwhis = [w \in Windows |-> 0]
  /\ hiswhis = [w \in Windows |-> 0] /\ inputcopy = [w \in Windows |-> FALSE]

-----------------------------------------------------------------------------
\* Next and previous entry of the window, on the mainline if x is on it.
Along(w, x) == {y \in whiss[w] : x \in skip \/ y \notin skip}

Nextwinhis(w, x) ==
  LET later == {y \in Along(w, x) : x < y}
  IN  IF x = 0 \/ later = {} THEN 0 ELSE Min(later)

Prevwinhis(w, x) ==
  LET earlier == {y \in Along(w, x) : y < x}
  IN  IF earlier = {} THEN 0 ELSE Max(earlier)

\* Mutation: what was passed over stays on the mainline.
SkipwinhisLeaves(w, whb, wha, s, n) ==
  IF /\ wha # 0
     /\ wha >= whb \/ (wha \notin n /\ wha \in s) \/ whb \in history' \/ whb \notin n
  THEN skip' = s /\ new' = n \ {wha}
  ELSE skip' = s \ {whb} /\ new' = n \ {wha, whb}

\* The user went from entry wha to whb; s and n are the flags so far.
Skipwinhis(w, whb, wha, s, n) ==
  IF wha = 0
  THEN skip' = s \ {whb} /\ new' = n \ {whb}
  ELSE IF /\ wha < whb /\ (wha \in n \/ wha \notin s)
          /\ whb \notin history' /\ whb \in n
  THEN /\ skip' = (s \ {whb}) \cup {x \in whiss'[w] : wha < x /\ x < whb}
       /\ new' = n \ {wha, whb}
  ELSE skip' = s /\ new' = n \ {wha}

\* Mutation: an entry shown at once is forgotten, and the copy stays.
SetnewwinhisForgets(w, x, s, n, his) ==
  \/ /\ whis[w] # 0 /\ inputwhis' = [inputwhis EXCEPT ![w] = 0]
     /\ Skipwinhis(w, x, whis[w], s, n)
     /\ whis' = [whis EXCEPT ![w] = x]
     /\ hiswhis' = [hiswhis EXCEPT ![w] = x]
     /\ UNCHANGED inputcopy
  \/ /\ inputwhis' = [inputwhis EXCEPT ![w] = x]
     /\ inputcopy' = [inputcopy EXCEPT ![w] = TRUE]
     /\ hiswhis' = [hiswhis EXCEPT ![w] = his]
     /\ skip' = s /\ new' = n
     /\ UNCHANGED whis

\* The frame is to show entry x: at once if it is in the present document,
\* otherwise when its copy is ready; his is where the buttons walk from.
Setnewwinhis(w, x, s, n, his) ==
  /\ inputwhis' = [inputwhis EXCEPT ![w] = x]
  /\ \/ /\ whis[w] # 0
        /\ Skipwinhis(w, x, whis[w], s, n)
        /\ whis' = [whis EXCEPT ![w] = x]
        /\ hiswhis' = [hiswhis EXCEPT ![w] = x]
        /\ UNCHANGED inputcopy
     \/ /\ inputcopy' = [inputcopy EXCEPT ![w] = TRUE]
        /\ hiswhis' = [hiswhis EXCEPT ![w] = his]
        /\ skip' = s /\ new' = n
        /\ UNCHANGED whis

\* The frame does nothing with the entry it was given last.
Setframe(w, x, his) ==
  IF x = inputwhis[w]
  THEN /\ hiswhis' = [hiswhis EXCEPT ![w] = his]
       /\ UNCHANGED <<skip, new, whis, inputwhis, inputcopy>>
  ELSE Setnewwinhis(w, x, skip, new, his)

\* An entry for window w, shown as history or not.
Newwinhis(w, old) ==
  /\ whisnr < MaxWhis /\ whisnr' = whisnr + 1
  /\ whiss' = [whiss EXCEPT ![w] = @ \cup {whisnr'}]
  /\ history' = history \cup (IF old THEN {whisnr'} ELSE {})
  /\ Setnewwinhis(w, whisnr', skip \cup {whisnr'}, new \cup {whisnr'}, hiswhis[w])

-----------------------------------------------------------------------------
\* A link, a bookmark or a typed address.
Inputwindocref(w) == Newwinhis(w, FALSE)

Followhis(w, x) ==
  /\ history' = history \cup {x} /\ UNCHANGED <<whisnr, whiss>>
  /\ Setframe(w, x, x)

\* The gadgets, ARexx, and mail and news that return two pages.
Gohistory(w, one, two) ==
  \E x \in {one} \cup ({two} \ {0}) : x # 0 /\ Followhis(w, x)

Back(w) ==
  LET one == Prevwinhis(w, hiswhis[w]) IN Gohistory(w, one, Prevwinhis(w, one))
Forward(w) ==
  LET one == Nextwinhis(w, hiswhis[w]) IN Gohistory(w, one, Nextwinhis(w, one))

\* An entry chosen in the history window.
Updatewhiswindow(w, x) ==
  /\ x \in whiss[w]
  /\ history' = history \cup {x} /\ UNCHANGED <<whisnr, whiss>>
  /\ Setframe(w, x, hiswhis[w])

\* The same for an entry of another window, which is copied.
UpdatewhiswindowCopies(w) ==
  (\E v \in Windows \ {w} : whiss[v] # {}) /\ Newwinhis(w, TRUE)

\* The copy has something to show.
Displaycopy(w) ==
  /\ inputcopy[w] /\ UNCHANGED <<whisnr, whiss, history>>
  /\ Skipwinhis(w, inputwhis[w], whis[w], skip, new)
  /\ whis' = [whis EXCEPT ![w] = inputwhis[w]]
  /\ hiswhis' = [hiswhis EXCEPT ![w] = inputwhis[w]]
  /\ inputwhis' = [inputwhis EXCEPT ![w] = 0]
  /\ inputcopy' = [inputcopy EXCEPT ![w] = FALSE]

\* The copy turned out to be a download, or nothing at all.
Cancelcopy(w) ==
  /\ inputcopy[w] /\ inputcopy' = [inputcopy EXCEPT ![w] = FALSE]
  /\ UNCHANGED <<whisnr, whiss, flagVars, whis, inputwhis, hiswhis>>

Reloadframe(w) ==
  /\ whis[w] # 0
  /\ inputwhis' = [inputwhis EXCEPT ![w] = whis[w]]
  /\ inputcopy' = [inputcopy EXCEPT ![w] = TRUE]
  /\ history' = history \ {whis[w]}
  /\ UNCHANGED <<whisnr, whiss, skip, new, whis, hiswhis>>

WinHisNext ==
  \E w \in Windows :
    \/ Inputwindocref(w) \/ Back(w) \/ Forward(w)
    \/ \E x \in 1..whisnr : Updatewhiswindow(w, x)
    \/ UpdatewhiswindowCopies(w)
    \/ Displaycopy(w) \/ Cancelcopy(w) \/ Reloadframe(w)

WinHisSpec == WinHisInit /\ [][WinHisNext]_winhisVars

-----------------------------------------------------------------------------
\* A frame that loads a copy knows which entry of its own window the copy is
\* for: Newdisplay() shows that entry without looking, whatever links, buttons,
\* reloads and downloads came in between.
LoadsOwnEntry ==
  \A w \in Windows :
    /\ inputcopy[w] => inputwhis[w] \in whiss[w]
    /\ {whis[w], hiswhis[w], inputwhis[w]} \subseteq whiss[w] \cup {0}
    /\ \A v \in Windows \ {w} : whiss[v] \cap whiss[w] = {}

Mainline == [w \in Windows |-> whiss[w] \ skip]

\* The entry that loads and was not asked for as history.
Asked == [w \in Windows |->
  IF inputcopy[w] /\ inputwhis[w] \in new \ (history \cup {whis[w]})
  THEN inputwhis[w] ELSE 0]

Line == INSTANCE HistoryLine WITH
  known <- whiss, line <- Mainline, page <- whis, at <- hiswhis, asked <- Asked

\* The flags of the one list keep what the manual promises of every window's
\* mainline ("These are the pages that the back and forward buttons will walk
\* along"): the pages up to the one shown, then the new one.
KeepsMainline == Line!LineSpec

============================================================================
