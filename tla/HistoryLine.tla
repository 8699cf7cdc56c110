---------------------------- MODULE HistoryLine ----------------------------
(* What the user of a window is promised of its history: the pages form a   *)
(* line along which the back and forward buttons walk, and a link followed  *)
(* in the middle of the line replaces everything after that page.  Pages    *)
(* left behind can be shown again without joining the line.                 *)
EXTENDS Integers

CONSTANT Windows

VARIABLES
  known,       \* the entries of each window
  line,        \* those on its line
  page,        \* the entry of the page it shows, 0 for none
  at,          \* the entry from which the buttons walk
  asked        \* the entry that loads because a link asked for it, or 0

lineVars == <<known, line, page, at, asked>>

LineInit ==
  /\ known = [w \in Windows |-> {}] /\ line = [w \in Windows |-> {}]
  /\ page = [w \in Windows |-> 0] /\ at = [w \in Windows |-> 0]
  /\ asked = [w \in Windows |-> 0]

\* Entries are numbered in the order in which they come to be.
Newest(n) == n \in Nat \ {0} /\ \A w \in Windows : \A x \in known[w] : x < n
Add(w, n) == Newest(n) /\ known' = [known EXCEPT ![w] = @ \cup {n}]

\* The line ends with page n, after the page shown now.
EndLine(w, n) ==
  line' = [line EXCEPT ![w] = {x \in @ : x <= page[w]} \cup {n}]

\* A page a link asked for comes after the one the user saw; from a page
\* beside the line it may stay beside the line.
JoinLine(w, n) ==
  \/ EndLine(w, n)
  \/ page[w] # 0 /\ page[w] \notin line[w] /\ UNCHANGED line

\* A page from the past does not change the line, unless there is none yet.
KeepLine(w, n) ==
  IF page[w] = 0 THEN EndLine(w, n) ELSE UNCHANGED line

Turn(w, n) ==
  page' = [page EXCEPT ![w] = n] /\ at' = [at EXCEPT ![w] = n]

Asks(w, n) == asked' = [asked EXCEPT ![w] = n]

\* A link to another page, or to a place in the page that is shown.
Ask(w, n) == Add(w, n) /\ Asks(w, n) /\ UNCHANGED <<line, page, at>>
AskHere(w, n) == Add(w, n) /\ Asks(w, 0) /\ Turn(w, n) /\ JoinLine(w, n)

\* A page of another window.
Borrow(w, n) == Add(w, n) /\ Asks(w, 0) /\ UNCHANGED <<line, page, at>>
BorrowHere(w, n) == Add(w, n) /\ Asks(w, 0) /\ Turn(w, n) /\ KeepLine(w, n)

\* The buttons never leave the line; any entry may be chosen from the list.
Recall(w, x) ==
  /\ Asks(w, 0)
  /\ \/ (at[w] \in line[w] => x \in line[w]) /\ at' = [at EXCEPT ![w] = x]
     \/ UNCHANGED at
  /\ UNCHANGED <<known, line, page>>

Show(w, x) ==
  /\ Turn(w, x) /\ Asks(w, 0)
  /\ IF x = asked[w] THEN JoinLine(w, x) ELSE KeepLine(w, x)
  /\ UNCHANGED known

LineNext ==
  \E w \in Windows : \E n \in known'[w] :
    \/ Ask(w, n) \/ AskHere(w, n) \/ Borrow(w, n) \/ BorrowHere(w, n)
    \/ Recall(w, n) \/ Show(w, n)

LineSpec == LineInit /\ [][LineNext]_lineVars

============================================================================
