---------------------------- MODULE WinHis_proofs ----------------------------
(* Proofs for the window history: frames know the entries they load, and    *)
(* the flags of the entries implement the line of every window.             *)
EXTENDS WinHis, SeqLemmas

-----------------------------------------------------------------------------
(* The inductive invariant. *)

\* Before a window shows its first page its line is empty.
EmptyLine == \A w \in Windows : whis[w] = 0 => whiss[w] \subseteq skip

\* What loads for a link is the newest entry of its window.
Newest(w) == \A y \in whiss[w] : y <= Asked[w]
NewestLoads == \A w \in Windows : Asked[w] # 0 => Newest(w)

WInv == WinHisTypeOK /\ LoadsOwnEntry /\ EmptyLine /\ NewestLoads

\* What the conjuncts say of one window.
Own(w) ==
  /\ inputcopy[w] => inputwhis[w] \in whiss[w]
  /\ {whis[w], hiswhis[w], inputwhis[w]} \subseteq whiss[w] \cup {0}
  /\ whis[w] = 0 => whiss[w] \subseteq skip

\* The step leaves window v alone.
Alone(v) ==
  /\ whiss'[v] = whiss[v] /\ whis'[v] = whis[v] /\ hiswhis'[v] = hiswhis[v]
  /\ inputwhis'[v] = inputwhis[v] /\ inputcopy'[v] = inputcopy[v]
  /\ \A x \in whiss[v] : (x \in skip' <=> x \in skip) /\ (x \in new' <=> x \in new)
                         /\ (x \in history' <=> x \in history)

\* What every step does that concerns window w.
Effect(w) ==
  /\ WinHisTypeOK'
  /\ \A v \in Windows \ {w} : Alone(v)
  /\ \A v \in Windows \ {w} : whiss'[w] \cap whiss[v] = {}
  /\ Own(w)'
  /\ Asked'[w] # 0 => Newest(w)'

-----------------------------------------------------------------------------
(* The entries and their flags. *)

LEMMA TypeFacts ==
  ASSUME WInv, NEW w \in Windows
  PROVE  /\ whisnr \in Nat /\ whiss[w] \subseteq Nat \ {0}
         /\ \A x \in whiss[w] : x <= whisnr
         /\ whis[w] \in whiss[w] \cup {0} /\ hiswhis[w] \in whiss[w] \cup {0}
         /\ inputwhis[w] \in whiss[w] \cup {0}
         /\ 0 \notin skip /\ 0 \notin new /\ new \subseteq skip
         /\ skip \subseteq Nat
         /\ Asked[w] \in {0, inputwhis[w]}
         /\ Asked[w] = IF inputcopy[w] /\ inputwhis[w] \in new \ (history \cup {whis[w]})
                       THEN inputwhis[w] ELSE 0
<1>1. /\ whisnr \in Nat /\ whiss[w] \in SUBSET (1..whisnr) /\ skip \subseteq 1..whisnr /\ new \subseteq skip
  BY WinHisAssumption DEF WInv, WinHisTypeOK
<1>2. {whis[w], hiswhis[w], inputwhis[w]} \subseteq whiss[w] \cup {0}
  BY DEF WInv, LoadsOwnEntry
<1>3. Asked[w] = IF inputcopy[w] /\ inputwhis[w] \in new \ (history \cup {whis[w]})
                 THEN inputwhis[w] ELSE 0
  BY DEF Asked
<1>. QED  BY <1>1, <1>2, <1>3

\* What an action does to the flags when entry b is shown after entry a.
LEMMA SkipFlags ==
  ASSUME NEW w \in Windows, NEW b \in whiss'[w], NEW a, NEW s, NEW n, n \subseteq s,
         a \in whiss'[w] \cup {0}, 0 \notin s,
         Skipwinhis(w, b, a, s, n)
  PROVE  /\ new' \subseteq skip' /\ skip' \subseteq s \cup whiss'[w]
         /\ \A x : x \notin whiss'[w] => (x \in skip' <=> x \in s) /\ (x \in new' <=> x \in n)
BY DEF Skipwinhis

\* A new page ends the line after the page that was shown; from a page beside
\* the line it may stay beside it.
LEMMA SkipNewest ==
  ASSUME NEW w \in Windows, whiss'[w] \subseteq Nat \ {0},
         NEW b \in whiss'[w], NEW a \in whiss'[w] \cup {0}, a # b,
         NEW s, NEW n, n \subseteq s, b \in n, b \notin history',
         \A y \in whiss'[w] : y <= b,
         a = 0 => whiss'[w] \subseteq s,
         Skipwinhis(w, b, a, s, n)
  PROVE  \/ whiss'[w] \ skip' = {x \in whiss'[w] \ s : x <= a} \cup {b}
         \/ a # 0 /\ a \in s /\ whiss'[w] \ skip' = whiss'[w] \ s
<1>1. a \in Nat /\ b \in Nat /\ b # 0
  OBVIOUS
<1>2. CASE a = 0
  <2>1. skip' = s \ {b}
    BY <1>2 DEF Skipwinhis
  <2>2. whiss'[w] \ s = {}
    BY <1>2
  <2>3. whiss'[w] \ skip' = {b}
    BY <2>1, <2>2
  <2>. QED  BY <2>2, <2>3
<1>3. CASE a # 0 /\ (a \in n \/ a \notin s)
  <2>1. a < b
    BY <1>1, <1>3
  <2>2. skip' = (s \ {b}) \cup {x \in whiss'[w] : a < x /\ x < b}
    BY <1>3, <2>1 DEF Skipwinhis
  <2>3. ASSUME NEW x PROVE x \in whiss'[w] \ skip' <=> x \in {y \in whiss'[w] \ s : y <= a} \cup {b}
    <3>1. CASE x \in whiss'[w]
      <4>1. x \in Nat /\ x <= b
        BY <3>1
      <4>. QED  BY <1>1, <2>1, <2>2, <3>1, <4>1
    <3>. QED  BY <3>1
  <2>. QED  BY <2>3
<1>4. CASE a # 0 /\ ~(a \in n \/ a \notin s)
  BY <1>4 DEF Skipwinhis
<1>. QED  BY <1>2, <1>3, <1>4

\* A page shown from the past leaves the line, unless it is the first page.
LEMMA SkipKept ==
  ASSUME NEW w \in Windows, whiss'[w] \subseteq Nat \ {0},
         NEW b \in whiss'[w], NEW a \in whiss'[w] \cup {0},
         NEW s, NEW n, n \subseteq s,
         a = b \/ b \notin n \/ b \in history',
         a = 0 => whiss'[w] \subseteq s,
         Skipwinhis(w, b, a, s, n)
  PROVE  whiss'[w] \ skip' = IF a = 0 THEN {x \in whiss'[w] \ s : x <= a} \cup {b}
                                      ELSE whiss'[w] \ s
<1>1. a \in Nat /\ b \in Nat /\ b # 0
  OBVIOUS
<1>2. CASE a = 0
  <2>1. skip' = s \ {b}
    BY <1>2 DEF Skipwinhis
  <2>2. whiss'[w] \ s = {}
    BY <1>2
  <2>3. whiss'[w] \ skip' = {b}
    BY <2>1, <2>2
  <2>. QED  BY <1>2, <2>2, <2>3
<1>3. CASE a # 0
  <2>1. ~(a < b /\ (a \in n \/ a \notin s) /\ b \notin history' /\ b \in n)
    BY <1>1
  <2>2. skip' = s
    BY <1>3, <2>1 DEF Skipwinhis
  <2>. QED  BY <1>3, <2>2
<1>. QED  BY <1>2, <1>3

\* A finite set of numbers has a largest one.
LEMMA LargestIn ==
  ASSUME NEW T, NEW m \in Nat, T \subseteq Nat, T # {}, \A x \in T : x <= m
  PROVE  \E x \in T : \A y \in T : x >= y
<1>. DEFINE U == {k \in Nat : m - k \in T}
<1>1. ASSUME NEW y \in T PROVE m - y \in U
  <2>1. y \in Nat /\ y <= m
    OBVIOUS
  <2>2. m - y \in Nat /\ m - (m - y) = y
    BY <2>1
  <2>. QED  BY <2>2
<1>2. U \subseteq Nat /\ U # {}
  BY <1>1
<1>. HIDE DEF U
<1>3. PICK u \in U : \A y \in U : u <= y
  BY <1>2, SmallestIn
<1>4. m - u \in T
  BY <1>3 DEF U
<1>5. ASSUME NEW y \in T PROVE m - u >= y
  <2>1. u <= m - y
    BY <1>1, <1>3
  <2>2. u \in Nat /\ y \in Nat
    BY <1>2
  <2>. QED  BY <2>1, <2>2
<1>. QED  BY <1>4, <1>5

\* The buttons find an entry of the window, on the line if they start there.
LEMMA StepFacts ==
  ASSUME WInv, NEW w \in Windows, NEW x \in whiss[w] \cup {0},
         NEW y \in {Nextwinhis(w, x), Prevwinhis(w, x)}, y # 0
  PROVE  x # 0 /\ y \in whiss[w] /\ (x \notin skip => y \notin skip)
<1>1. /\ whisnr \in Nat /\ whiss[w] \subseteq Nat \ {0}
      /\ \A z \in whiss[w] : z <= whisnr
  BY TypeFacts
<1>. DEFINE later == {z \in Along(w, x) : x < z}
            earlier == {z \in Along(w, x) : z < x}
<1>2. later \subseteq Nat /\ earlier \subseteq Nat /\ \A z \in earlier : z <= whisnr
  BY <1>1 DEF Along
<1>3. CASE y = Nextwinhis(w, x)
  <2>1. x # 0 /\ later # {} /\ y = Min(later)
    BY <1>3 DEF Nextwinhis
  <2>2. \E z \in later : \A u \in later : z <= u
    <3>. HIDE DEF later
    <3>. QED  BY <1>2, <2>1, SmallestIn
  <2>3. y \in later
    BY <2>1, <2>2 DEF Min
  <2>. QED  BY <2>1, <2>3 DEF Along
<1>4. CASE y = Prevwinhis(w, x)
  <2>1. earlier # {} /\ y = Max(earlier)
    BY <1>4 DEF Prevwinhis
  <2>2. \E z \in earlier : \A u \in earlier : z >= u
    <3>. HIDE DEF earlier
    <3>. QED  BY <1>1, <1>2, <2>1, LargestIn
  <2>3. y \in earlier
    BY <2>1, <2>2 DEF Max
  <2>4. y \in whiss[w] /\ y < x /\ (x \notin skip => y \notin skip)
    BY <2>3 DEF Along
  <2>5. x # 0
    BY <1>1, <2>4
  <2>. QED  BY <2>4, <2>5
<1>. QED  BY <1>3, <1>4

\* Where one or two presses of a button lead.
LEMMA GohistoryFacts ==
  ASSUME WInv, NEW w \in Windows, Back(w) \/ Forward(w)
  PROVE  \E x \in whiss[w] : Followhis(w, x) /\ (hiswhis[w] \in whiss[w] \ skip => x \notin skip)
<1>1. hiswhis[w] \in whiss[w] \cup {0}
  BY TypeFacts
<1>2. ASSUME NEW one, NEW two, Gohistory(w, one, two),
             \/ one = Prevwinhis(w, hiswhis[w]) /\ two = Prevwinhis(w, one)
             \/ one = Nextwinhis(w, hiswhis[w]) /\ two = Nextwinhis(w, one)
      PROVE  \E x \in whiss[w] : Followhis(w, x) /\ (hiswhis[w] \in whiss[w] \ skip => x \notin skip)
  <2>1. PICK x \in {one} \cup ({two} \ {0}) : x # 0 /\ Followhis(w, x)
    BY <1>2 DEF Gohistory
  <2>2. one # 0 => one \in whiss[w] /\ (hiswhis[w] \notin skip => one \notin skip)
    BY <1>1, <1>2, StepFacts
  <2>3. one \in whiss[w] \cup {0} /\ (two # 0 => one # 0 /\ two \in whiss[w] /\ (one \notin skip => two \notin skip))
    BY <1>2, <2>2, StepFacts
  <2>4. x \in whiss[w] /\ (hiswhis[w] \notin skip => x \notin skip)
    BY <2>1, <2>2, <2>3
  <2>. QED  BY <2>1, <2>4
<1>3. CASE Back(w)
  BY <1>2, <1>3 DEF Back
<1>4. CASE Forward(w)
  BY <1>2, <1>4 DEF Forward
<1>. QED  BY <1>3, <1>4

-----------------------------------------------------------------------------
(* What the steps do to the window they concern. *)

\* The step of an action is the conjunction of what it does to its window.
LEMMA EffectKeeps ==
  ASSUME WInv, NEW w \in Windows, Effect(w)
  PROVE  WInv'
<1>1. LoadsOwnEntry'
  <2>1. ASSUME NEW v \in Windows \ {w}
        PROVE  /\ inputcopy'[v] => inputwhis'[v] \in whiss'[v]
               /\ {whis'[v], hiswhis'[v], inputwhis'[v]} \subseteq whiss'[v] \cup {0}
    BY <2>1 DEF WInv, LoadsOwnEntry, Effect, Alone
  <2>2. /\ inputcopy'[w] => inputwhis'[w] \in whiss'[w]
        /\ {whis'[w], hiswhis'[w], inputwhis'[w]} \subseteq whiss'[w] \cup {0}
    BY DEF Effect, Own
  <2>3. ASSUME NEW u \in Windows, NEW v \in Windows \ {u}
        PROVE  whiss'[v] \cap whiss'[u] = {}
    <3>1. \A z \in Windows \ {w} : whiss'[z] = whiss[z] /\ whiss'[w] \cap whiss[z] = {}
      BY DEF Effect, Alone
    <3>2. whiss[v] \cap whiss[u] = {}
      BY DEF WInv, LoadsOwnEntry
    <3>. QED  BY <3>1, <3>2
  <2>. QED  BY <2>1, <2>2, <2>3 DEF LoadsOwnEntry
<1>2. EmptyLine'
  <2>1. ASSUME NEW v \in Windows \ {w}, whis'[v] = 0
        PROVE  whiss'[v] \subseteq skip'
    BY <2>1 DEF WInv, EmptyLine, Effect, Alone
  <2>2. whis'[w] = 0 => whiss'[w] \subseteq skip'
    BY DEF Effect, Own
  <2>. QED  BY <2>1, <2>2 DEF EmptyLine
<1>3. NewestLoads'
  <2>1. ASSUME NEW v \in Windows \ {w}
        PROVE  Asked'[v] = Asked[v] /\ whiss'[v] = whiss[v]
    <3>1. inputwhis[v] \in whiss[v] \cup {0} /\ 0 \notin new
      BY TypeFacts
    <3>2. 0 \notin new'
      BY DEF Effect, WinHisTypeOK
    <3>3. Alone(v)
      BY DEF Effect
    <3>. QED  BY <3>1, <3>2, <3>3 DEF Asked, Alone
  <2>2. Asked'[w] # 0 => Newest(w)'
    BY DEF Effect
  <2>. QED  BY <2>1, <2>2 DEF WInv, NewestLoads, Newest
<1>. QED  BY <1>1, <1>2, <1>3 DEF WInv, Effect

\* The new entry is in the list of its window only.
LEMMA NewEntry ==
  ASSUME WInv, NEW w \in Windows, NEW old \in BOOLEAN, Newwinhis(w, old)
  PROVE  /\ whisnr' = whisnr + 1 /\ whisnr \in Nat /\ whisnr' <= MaxWhis
         /\ \A v \in Windows : \A x \in whiss[v] : x \in Nat /\ x < whisnr'
         /\ whiss'[w] = whiss[w] \cup {whisnr'} /\ whiss'[w] \subseteq Nat \ {0}
         /\ \A x \in whiss'[w] : x <= whisnr'
         /\ \A v \in Windows \ {w} : whiss'[v] = whiss[v] /\ whiss'[w] \cap whiss[v] = {}
         /\ whisnr' \notin skip \cup new \cup history
         /\ skip \cup {whisnr'} \subseteq 1..whisnr'
         /\ whiss' \in [Windows -> SUBSET (1..whisnr')]
         /\ history' \subseteq 1..whisnr' /\ (whisnr' \in history' <=> old)
         /\ \A x : x # whisnr' => (x \in history' <=> x \in history)
<1>1. whisnr \in Nat /\ whisnr' = whisnr + 1 /\ whisnr' <= MaxWhis
  BY WinHisAssumption DEF WInv, WinHisTypeOK, Newwinhis
<1>2. /\ whiss \in [Windows -> SUBSET (1..whisnr)] /\ skip \subseteq 1..whisnr
      /\ new \subseteq skip /\ history \subseteq 1..whisnr
  BY DEF WInv, WinHisTypeOK
<1>3. whiss' = [whiss EXCEPT ![w] = @ \cup {whisnr'}]
  BY DEF Newwinhis
<1>4. history' = history \cup (IF old THEN {whisnr'} ELSE {})
  BY DEF Newwinhis
<1>5. \A v \in Windows : \A x \in whiss[v] : x \in Nat \ {0} /\ x < whisnr'
  BY <1>1, <1>2
<1>6. whiss'[w] = whiss[w] \cup {whisnr'} /\ \A v \in Windows \ {w} : whiss'[v] = whiss[v]
  BY <1>2, <1>3
<1>7. \A v \in Windows \ {w} : whiss'[w] \cap whiss[v] = {}
  <2>1. \A v \in Windows \ {w} : whiss[w] \cap whiss[v] = {}
    BY DEF WInv, LoadsOwnEntry
  <2>. QED  BY <1>1, <1>5, <1>6, <2>1
<1>8. whisnr' \notin skip \cup new \cup history /\ skip \cup {whisnr'} \subseteq 1..whisnr'
  BY <1>1, <1>2
<1>9. whiss' \in [Windows -> SUBSET (1..whisnr')]
  <2>1. 1..whisnr \subseteq 1..whisnr' /\ whisnr' \in 1..whisnr'
    BY <1>1
  <2>. QED  BY <1>2, <1>3, <2>1
<1>10. history' \subseteq 1..whisnr' /\ (whisnr' \in history' <=> old)
       /\ \A x : x # whisnr' => (x \in history' <=> x \in history)
  BY <1>1, <1>2, <1>4, <1>8
<1>11. whiss'[w] \subseteq Nat \ {0} /\ \A x \in whiss'[w] : x <= whisnr'
  BY <1>1, <1>5, <1>6
<1>. QED  BY <1>1, <1>5, <1>6, <1>7, <1>8, <1>9, <1>10, <1>11

\* The line and what was asked for, of the window and of the others.
LEMMA LineFacts ==
  ASSUME WInv, NEW w \in Windows, Effect(w)
  PROVE  /\ whiss' = [whiss EXCEPT ![w] = whiss'[w]]
         /\ Mainline' = [Mainline EXCEPT ![w] = whiss'[w] \ skip']
         /\ whis' = [whis EXCEPT ![w] = whis'[w]]
         /\ hiswhis' = [hiswhis EXCEPT ![w] = hiswhis'[w]]
         /\ Asked' = [Asked EXCEPT ![w] = Asked'[w]]
         /\ Mainline[w] = whiss[w] \ skip
<1>1. \A v \in Windows \ {w} : Alone(v)
  BY DEF Effect
<1>2. whiss' = [whiss EXCEPT ![w] = whiss'[w]]
  BY <1>1 DEF WInv, WinHisTypeOK, Effect, Alone
<1>3. whis' = [whis EXCEPT ![w] = whis'[w]]
  BY <1>1 DEF WInv, WinHisTypeOK, Effect, Alone
<1>4. hiswhis' = [hiswhis EXCEPT ![w] = hiswhis'[w]]
  BY <1>1 DEF WInv, WinHisTypeOK, Effect, Alone
<1>5. Mainline' = [Mainline EXCEPT ![w] = whiss'[w] \ skip']
  <2>1. \A v \in Windows \ {w} : whiss'[v] \ skip' = whiss[v] \ skip
    BY <1>1 DEF Alone
  <2>2. Mainline' = [v \in Windows |-> whiss'[v] \ skip']
    BY DEF Mainline
  <2>3. Mainline = [v \in Windows |-> whiss[v] \ skip]
    BY DEF Mainline
  <2>. QED  BY <2>1, <2>2, <2>3
<1>6. Asked' = [Asked EXCEPT ![w] = Asked'[w]]
  <2>1. ASSUME NEW v \in Windows \ {w} PROVE Asked'[v] = Asked[v]
    <3>1. inputwhis[v] \in whiss[v] \cup {0} /\ 0 \notin new
      BY TypeFacts
    <3>2. 0 \notin new'
      BY DEF Effect, WinHisTypeOK
    <3>. QED  BY <1>1, <3>1, <3>2 DEF Asked, Alone
  <2>2. Asked' = [v \in Windows |-> Asked'[v]] /\ Asked = [v \in Windows |-> Asked[v]]
    BY DEF Asked
  <2>. HIDE DEF Asked
  <2>. QED  BY <2>1, <2>2
<1>. QED  BY <1>2, <1>3, <1>4, <1>5, <1>6 DEF Mainline

\* A step that only touches entries of window w leaves the others alone.
LEMMA OthersAlone ==
  ASSUME WInv, NEW w \in Windows, NEW n,
         \A v \in Windows \ {w} : whiss'[v] = whiss[v] /\ n \notin whiss[v],
         \A x : x \notin whiss[w] \cup {n} =>
           (x \in skip' <=> x \in skip) /\ (x \in new' <=> x \in new)
           /\ (x \in history' <=> x \in history),
         \A v \in Windows \ {w} :
           /\ whis'[v] = whis[v] /\ inputwhis'[v] = inputwhis[v]
           /\ inputcopy'[v] = inputcopy[v] /\ hiswhis'[v] = hiswhis[v]
  PROVE  \A v \in Windows \ {w} : Alone(v)
<1>1. ASSUME NEW v \in Windows \ {w} PROVE Alone(v)
  <2>1. whiss[w] \cap whiss[v] = {}
    BY DEF WInv, LoadsOwnEntry
  <2>2. \A x \in whiss[v] : x \notin whiss[w] \cup {n}
    BY <2>1
  <2>. QED  BY <2>2 DEF Alone
<1>. QED  BY <1>1

\* The types of the step.
LEMMA EffectType ==
  ASSUME WInv, NEW w \in Windows,
         whisnr' \in 0..MaxWhis, whisnr <= whisnr',
         whiss' \in [Windows -> SUBSET (1..whisnr')],
         new' \subseteq skip', skip' \subseteq 1..whisnr', history' \subseteq 1..whisnr',
         NEW a \in whiss'[w] \cup {0}, NEW b \in whiss'[w] \cup {0},
         NEW c \in BOOLEAN, NEW d \in whiss'[w] \cup {0},
         whis' = [whis EXCEPT ![w] = a], inputwhis' = [inputwhis EXCEPT ![w] = b],
         inputcopy' = [inputcopy EXCEPT ![w] = c], hiswhis' = [hiswhis EXCEPT ![w] = d]
  PROVE  WinHisTypeOK'
<1>1. whisnr \in Nat /\ whisnr' \in Nat
  BY WinHisAssumption DEF WInv, WinHisTypeOK
<1>2. 0..whisnr \subseteq 0..whisnr' /\ whiss'[w] \cup {0} \subseteq 0..whisnr'
  BY <1>1
<1>3. /\ whis' \in [Windows -> 0..whisnr'] /\ inputwhis' \in [Windows -> 0..whisnr']
      /\ hiswhis' \in [Windows -> 0..whisnr']
  BY <1>2 DEF WInv, WinHisTypeOK
<1>4. inputcopy' \in [Windows -> BOOLEAN]
  BY DEF WInv, WinHisTypeOK
<1>. QED  BY <1>3, <1>4 DEF WinHisTypeOK

\* A link and a borrowed page, shown at once or loaded.
LEMMA NewwinhisStep ==
  ASSUME WInv, NEW w \in Windows, NEW old \in BOOLEAN, Newwinhis(w, old)
  PROVE  /\ Effect(w)
         /\ IF old THEN Line!Borrow(w, whisnr') \/ Line!BorrowHere(w, whisnr')
                   ELSE Line!Ask(w, whisnr') \/ Line!AskHere(w, whisnr')
<1>. DEFINE n == whisnr'
<1>1. /\ n = whisnr + 1 /\ whisnr \in Nat /\ n <= MaxWhis
      /\ \A v \in Windows : \A x \in whiss[v] : x \in Nat /\ x < n
      /\ whiss'[w] = whiss[w] \cup {n} /\ whiss'[w] \subseteq Nat \ {0}
      /\ \A x \in whiss'[w] : x <= n
      /\ \A v \in Windows \ {w} : whiss'[v] = whiss[v] /\ whiss'[w] \cap whiss[v] = {}
      /\ n \notin skip \cup new \cup history
      /\ skip \cup {n} \subseteq 1..n
      /\ whiss' \in [Windows -> SUBSET (1..n)]
      /\ history' \subseteq 1..n /\ (n \in history' <=> old)
      /\ \A x : x # n => (x \in history' <=> x \in history)
  BY NewEntry
<1>2. /\ whis[w] \in whiss[w] \cup {0} /\ hiswhis[w] \in whiss[w] \cup {0}
      /\ new \subseteq skip /\ 0 \notin skip
  BY TypeFacts
<1>3. whiss' = [whiss EXCEPT ![w] = @ \cup {n}]
  BY DEF Newwinhis
<1>4. Setnewwinhis(w, n, skip \cup {n}, new \cup {n}, hiswhis[w])
  BY DEF Newwinhis
<1>5. n \in Nat /\ n # 0 /\ n \in whiss'[w] /\ n \in 0..MaxWhis /\ whisnr <= n
  BY <1>1, WinHisAssumption
<1>6. Line!Add(w, n)
  BY <1>1, <1>3, <1>5 DEF Line!Add, Line!Newest
<1>7. whiss'[w] \ (skip \cup {n}) = whiss[w] \ skip
  BY <1>1
<1>8. whis[w] = 0 => whiss[w] \subseteq skip
  BY DEF WInv, EmptyLine
<1>9. inputwhis' = [inputwhis EXCEPT ![w] = n]
  BY <1>4 DEF Setnewwinhis
<1>10. \A v \in Windows \ {w} : whiss'[v] = whiss[v] /\ n \notin whiss[v]
  BY <1>1, <1>5
<1>. HIDE DEF n
<1>11. CASE /\ whis[w] # 0 /\ Skipwinhis(w, n, whis[w], skip \cup {n}, new \cup {n})
            /\ whis' = [whis EXCEPT ![w] = n] /\ hiswhis' = [hiswhis EXCEPT ![w] = n]
            /\ UNCHANGED inputcopy
  <2>1. /\ new' \subseteq skip' /\ skip' \subseteq skip \cup {n} \cup whiss'[w]
        /\ \A x : x \notin whiss'[w] =>
             (x \in skip' <=> x \in skip \cup {n}) /\ (x \in new' <=> x \in new \cup {n})
    <3>1. new \cup {n} \subseteq skip \cup {n} /\ 0 \notin skip \cup {n} /\ whis[w] \in whiss'[w] \cup {0}
      BY <1>1, <1>2, <1>5
    <3>. QED  BY <1>5, <1>11, <3>1, SkipFlags
  <2>2. \A x : x \notin whiss[w] \cup {n} =>
          (x \in skip' <=> x \in skip) /\ (x \in new' <=> x \in new)
          /\ (x \in history' <=> x \in history)
    BY <1>1, <2>1
  <2>3. inputcopy' = [inputcopy EXCEPT ![w] = inputcopy[w]] /\ inputcopy[w] \in BOOLEAN
    BY <1>11 DEF WInv, WinHisTypeOK
  <2>4. /\ \A v \in Windows \ {w} : Alone(v)
        /\ whis'[w] = n /\ inputwhis'[w] = n /\ hiswhis'[w] = n
    <3>1. /\ whis'[w] = n /\ inputwhis'[w] = n /\ hiswhis'[w] = n
          /\ \A v \in Windows \ {w} :
               /\ whis'[v] = whis[v] /\ inputwhis'[v] = inputwhis[v]
               /\ inputcopy'[v] = inputcopy[v] /\ hiswhis'[v] = hiswhis[v]
      BY <1>9, <1>11 DEF WInv, WinHisTypeOK
    <3>. QED  BY <1>10, <2>2, <3>1, OthersAlone
  <2>5. skip' \subseteq 1..n
    BY <1>1, <2>1
  <2>6. WinHisTypeOK'
    BY <1>1, <1>5, <1>9, <1>11, <2>1, <2>3, <2>5, EffectType DEF n
  <2>7. Own(w)'
    BY <1>5, <2>4 DEF Own
  <2>8. Asked'[w] = 0
    BY <2>4 DEF Asked
  <2>9. Effect(w)
    BY <1>1, <2>4, <2>6, <2>7, <2>8 DEF Effect
  <2>. DEFINE L == whiss'[w] \ skip'
  <2>10. /\ Mainline' = [Mainline EXCEPT ![w] = L] /\ Mainline[w] = whiss[w] \ skip
         /\ Asked' = [Asked EXCEPT ![w] = 0]
         /\ whis' = [whis EXCEPT ![w] = n] /\ hiswhis' = [hiswhis EXCEPT ![w] = n]
    BY <2>4, <2>8, <2>9, LineFacts
  <2>11. Line!Asks(w, 0) /\ Line!Turn(w, n)
    BY <2>10 DEF Line!Asks, Line!Turn
  <2>12. CASE old
    <3>1. L = whiss[w] \ skip
      <4>1. /\ whis[w] \in whiss'[w] \cup {0} /\ new \cup {n} \subseteq skip \cup {n}
            /\ n \in history'
        BY <1>1, <1>2, <2>12
      <4>2. L = IF whis[w] = 0 THEN {x \in whiss'[w] \ (skip \cup {n}) : x <= whis[w]} \cup {n}
                               ELSE whiss'[w] \ (skip \cup {n})
        BY <1>1, <1>5, <1>11, <4>1, SkipKept
      <4>. QED  BY <1>7, <1>11, <4>2
    <3>2. Line!KeepLine(w, n)
      BY <1>11, <2>10, <3>1 DEF Line!KeepLine, Mainline
    <3>. QED  BY <1>6, <2>9, <2>11, <2>12, <3>2 DEF Line!BorrowHere, n
  <2>13. CASE ~old
    <3>1. \/ L = {x \in whiss[w] \ skip : x <= whis[w]} \cup {n}
          \/ whis[w] # 0 /\ whis[w] \notin whiss[w] \ skip /\ L = whiss[w] \ skip
      <4>1. /\ whis[w] \in whiss'[w] \cup {0} /\ new \cup {n} \subseteq skip \cup {n}
            /\ n \notin history' /\ n \in new \cup {n} /\ whis[w] # n
        BY <1>1, <1>2, <2>13
      <4>2. \/ L = {x \in whiss'[w] \ (skip \cup {n}) : x <= whis[w]} \cup {n}
            \/ /\ whis[w] # 0 /\ whis[w] \in skip \cup {n}
               /\ L = whiss'[w] \ (skip \cup {n})
        BY <1>1, <1>5, <1>11, <4>1, SkipNewest
      <4>. QED  BY <1>7, <4>1, <4>2
    <3>2. Line!JoinLine(w, n)
      BY <2>10, <3>1 DEF Line!JoinLine, Line!EndLine, Mainline
    <3>. QED  BY <1>6, <2>9, <2>11, <2>13, <3>2 DEF Line!AskHere, n
  <2>. QED  BY <2>12, <2>13
<1>12. CASE /\ inputcopy' = [inputcopy EXCEPT ![w] = TRUE]
            /\ hiswhis' = [hiswhis EXCEPT ![w] = hiswhis[w]]
            /\ skip' = skip \cup {n} /\ new' = new \cup {n}
            /\ UNCHANGED whis
  <2>1. whis' = [whis EXCEPT ![w] = whis[w]] /\ hiswhis' = hiswhis
    BY <1>12 DEF WInv, WinHisTypeOK
  <2>2. \A x : x \notin whiss[w] \cup {n} =>
          (x \in skip' <=> x \in skip) /\ (x \in new' <=> x \in new)
          /\ (x \in history' <=> x \in history)
    BY <1>1, <1>12
  <2>3. /\ \A v \in Windows \ {w} : Alone(v)
        /\ whis'[w] = whis[w] /\ inputwhis'[w] = n /\ hiswhis'[w] = hiswhis[w]
        /\ inputcopy'[w] = TRUE
    <3>1. /\ whis'[w] = whis[w] /\ inputwhis'[w] = n /\ hiswhis'[w] = hiswhis[w]
          /\ inputcopy'[w] = TRUE
          /\ \A v \in Windows \ {w} :
               /\ whis'[v] = whis[v] /\ inputwhis'[v] = inputwhis[v]
               /\ inputcopy'[v] = inputcopy[v] /\ hiswhis'[v] = hiswhis[v]
      BY <1>9, <1>12, <2>1 DEF WInv, WinHisTypeOK
    <3>. QED  BY <1>10, <2>2, <3>1, OthersAlone
  <2>4. new' \subseteq skip' /\ skip' \subseteq 1..n
    BY <1>1, <1>2, <1>12
  <2>5. whis[w] \in whiss'[w] \cup {0} /\ hiswhis[w] \in whiss'[w] \cup {0}
    BY <1>1, <1>2
  <2>6. WinHisTypeOK'
    BY <1>1, <1>5, <1>9, <1>12, <2>1, <2>4, <2>5, EffectType DEF n
  <2>7. Own(w)'
    BY <1>1, <1>5, <1>8, <1>12, <2>3, <2>5 DEF Own
  <2>8. Asked'[w] = IF old THEN 0 ELSE n
    BY <1>1, <1>2, <1>5, <1>12, <2>3 DEF Asked
  <2>9. Effect(w)
    BY <1>1, <2>3, <2>6, <2>7, <2>8 DEF Effect, Newest
  <2>10. /\ Mainline' = [Mainline EXCEPT ![w] = whiss'[w] \ skip']
         /\ Mainline[w] = whiss[w] \ skip
         /\ Asked' = [Asked EXCEPT ![w] = IF old THEN 0 ELSE n]
    BY <2>8, <2>9, LineFacts
  <2>11. Mainline' = Mainline
    BY <1>7, <1>12, <2>10 DEF Mainline
  <2>. QED  BY <1>6, <1>12, <2>1, <2>9, <2>10, <2>11 DEF Line!Ask, Line!Borrow, Line!Asks, n
<1>. QED  BY <1>4, <1>11, <1>12 DEF Setnewwinhis

\* A page of the past: loaded, shown at once, or asked for already.
LEMMA SetframeStep ==
  ASSUME WInv, NEW w \in Windows, NEW x \in whiss[w], NEW his,
         history' = history \cup {x}, whisnr' = whisnr, whiss' = whiss,
         \/ his = hiswhis[w]
         \/ his = x /\ (hiswhis[w] \in whiss[w] \ skip => x \notin skip),
         Setframe(w, x, his)
  PROVE  Effect(w) /\ (Line!Recall(w, x) \/ Line!Show(w, x))
<1>1. /\ whisnr \in Nat /\ whiss[w] \subseteq Nat \ {0}
      /\ whis[w] \in whiss[w] \cup {0} /\ hiswhis[w] \in whiss[w] \cup {0}
      /\ inputwhis[w] \in whiss[w] \cup {0}
      /\ new \subseteq skip /\ 0 \notin skip
      /\ Asked[w] \in {0, inputwhis[w]}
  BY TypeFacts
<1>2. /\ whiss \in [Windows -> SUBSET (1..whisnr)] /\ skip \subseteq 1..whisnr
      /\ history' \subseteq 1..whisnr /\ whisnr \in 0..MaxWhis
      /\ inputcopy[w] \in BOOLEAN /\ x \in 1..whisnr
  BY DEF WInv, WinHisTypeOK
<1>3. \A v \in Windows \ {w} : whiss[w] \cap whiss[v] = {}
  BY DEF WInv, LoadsOwnEntry
<1>4. x # 0 /\ his \in whiss[w] \cup {0} /\ x \in history'
  BY <1>1
<1>5. \A v \in Windows \ {w} : whiss'[v] = whiss[v] /\ x \notin whiss[v]
  BY <1>3
<1>6. whis[w] = 0 => whiss[w] \subseteq skip
  BY DEF WInv, EmptyLine
<1>7. /\ whisnr' \in 0..MaxWhis /\ whisnr <= whisnr'
       /\ whiss' \in [Windows -> SUBSET (1..whisnr')] /\ history' \subseteq 1..whisnr'
       /\ x \in whiss'[w] \cup {0} /\ his \in whiss'[w] \cup {0}
       /\ whis[w] \in whiss'[w] \cup {0}
  BY <1>1, <1>2, <1>4
<1>8. CASE /\ whis[w] # 0 /\ Skipwinhis(w, x, whis[w], skip, new)
           /\ whis' = [whis EXCEPT ![w] = x] /\ hiswhis' = [hiswhis EXCEPT ![w] = x]
           /\ inputwhis' = [inputwhis EXCEPT ![w] = x] /\ UNCHANGED inputcopy
           /\ x # inputwhis[w]
  <2>1. /\ new' \subseteq skip' /\ skip' \subseteq skip \cup whiss[w]
        /\ \A y : y \notin whiss[w] => (y \in skip' <=> y \in skip) /\ (y \in new' <=> y \in new)
    BY <1>1, <1>8, SkipFlags
  <2>2. \A y : y \notin whiss[w] \cup {x} =>
          (y \in skip' <=> y \in skip) /\ (y \in new' <=> y \in new)
          /\ (y \in history' <=> y \in history)
    BY <2>1
  <2>3. inputcopy' = [inputcopy EXCEPT ![w] = inputcopy[w]]
    BY <1>8 DEF WInv, WinHisTypeOK
  <2>4. /\ \A v \in Windows \ {w} : Alone(v)
        /\ whis'[w] = x /\ inputwhis'[w] = x /\ hiswhis'[w] = x
    <3>1. /\ whis'[w] = x /\ inputwhis'[w] = x /\ hiswhis'[w] = x
          /\ \A v \in Windows \ {w} :
               /\ whis'[v] = whis[v] /\ inputwhis'[v] = inputwhis[v]
               /\ inputcopy'[v] = inputcopy[v] /\ hiswhis'[v] = hiswhis[v]
      BY <1>8 DEF WInv, WinHisTypeOK
    <3>. QED  BY <1>5, <2>2, <3>1, OthersAlone
  <2>5. skip' \subseteq 1..whisnr'
    BY <1>2, <2>1
  <2>6. WinHisTypeOK'
    BY <1>2, <1>8, <1>7, <2>1, <2>3, <2>5, EffectType
  <2>7. Own(w)'
    BY <1>4, <2>4 DEF Own
  <2>8. Asked'[w] = 0
    BY <2>4 DEF Asked
  <2>9. Effect(w)
    BY <1>3, <2>4, <2>6, <2>7, <2>8 DEF Effect
  <2>10. whiss'[w] \ skip' = whiss[w] \ skip
    <3>1. whiss'[w] \ skip' = IF whis[w] = 0
                                THEN {y \in whiss'[w] \ skip : y <= whis[w]} \cup {x}
                                ELSE whiss'[w] \ skip
      BY <1>1, <1>4, <1>6, <1>8, SkipKept
    <3>. QED  BY <1>8, <3>1
  <2>11. /\ Mainline' = [Mainline EXCEPT ![w] = whiss'[w] \ skip']
         /\ Mainline[w] = whiss[w] \ skip
         /\ Asked' = [Asked EXCEPT ![w] = 0]
    BY <2>8, <2>9, LineFacts
  <2>12. Mainline' = Mainline
    BY <2>10, <2>11 DEF Mainline
  <2>13. x # Asked[w]
    BY <1>1, <1>4, <1>8
  <2>. QED  BY <1>8, <2>9, <2>11, <2>12, <2>13
            DEF Line!Show, Line!Turn, Line!Asks, Line!KeepLine
<1>9. CASE /\ hiswhis' = [hiswhis EXCEPT ![w] = his]
           /\ UNCHANGED <<skip, new, whis>>
           /\ inputwhis' = [inputwhis EXCEPT ![w] = x]
           /\ inputcopy' = inputcopy \/ inputcopy' = [inputcopy EXCEPT ![w] = TRUE]
  <2>1. \A y : y \notin whiss[w] \cup {x} =>
          (y \in skip' <=> y \in skip) /\ (y \in new' <=> y \in new)
          /\ (y \in history' <=> y \in history)
    BY <1>9
  <2>2. /\ \A v \in Windows \ {w} : Alone(v)
        /\ inputwhis'[w] = x /\ hiswhis'[w] = his
    <3>1. /\ inputwhis'[w] = x /\ hiswhis'[w] = his
          /\ \A v \in Windows \ {w} :
               /\ whis'[v] = whis[v] /\ inputwhis'[v] = inputwhis[v]
               /\ inputcopy'[v] = inputcopy[v] /\ hiswhis'[v] = hiswhis[v]
      BY <1>9 DEF WInv, WinHisTypeOK
    <3>. QED  BY <1>5, <2>1, <3>1, OthersAlone
  <2>3. WinHisTypeOK'
    <3>1. PICK c \in BOOLEAN : inputcopy' = [inputcopy EXCEPT ![w] = c]
      BY <1>9 DEF WInv, WinHisTypeOK
    <3>2. whis' = [whis EXCEPT ![w] = whis[w]]
      BY <1>9 DEF WInv, WinHisTypeOK
    <3>3. new' \subseteq skip' /\ skip' \subseteq 1..whisnr'
      BY <1>1, <1>2, <1>9
    <3>. QED  BY <1>9, <1>7, <3>1, <3>2, <3>3, EffectType
  <2>4. Own(w)'
    BY <1>1, <1>4, <1>6, <1>9, <2>2 DEF Own
  <2>5. Asked'[w] = 0
    BY <1>4, <2>2 DEF Asked
  <2>6. Effect(w)
    BY <1>3, <2>2, <2>3, <2>4, <2>5 DEF Effect
  <2>7. Asked' = [Asked EXCEPT ![w] = 0] /\ Mainline' = Mainline
        /\ Mainline[w] = whiss[w] \ skip
    BY <1>9, <2>5, <2>6, LineFacts DEF Mainline
  <2>8. \/ hiswhis' = hiswhis
        \/ /\ hiswhis' = [hiswhis EXCEPT ![w] = x]
           /\ hiswhis[w] \in Mainline[w] => x \in Mainline[w]
    <3>1. CASE his = hiswhis[w]
      BY <1>9, <3>1 DEF WInv, WinHisTypeOK
    <3>2. CASE his = x /\ (hiswhis[w] \in whiss[w] \ skip => x \notin skip)
      BY <1>9, <2>7, <3>2
    <3>. QED  BY <3>1, <3>2
  <2>. QED  BY <1>9, <2>6, <2>7, <2>8 DEF Line!Recall, Line!Asks
<1>10. CASE x = inputwhis[w]
  <2>1. inputwhis' = [inputwhis EXCEPT ![w] = x] /\ inputcopy' = inputcopy
    BY <1>10 DEF Setframe, WInv, WinHisTypeOK
  <2>. QED  BY <1>9, <1>10, <2>1 DEF Setframe
<1>11. CASE x # inputwhis[w]
  BY <1>8, <1>9, <1>11 DEF Setframe, Setnewwinhis
<1>. QED  BY <1>10, <1>11

\* The copy is displayed.
LEMMA DisplaycopyStep ==
  ASSUME WInv, NEW w \in Windows, Displaycopy(w)
  PROVE  Effect(w) /\ Line!Show(w, inputwhis[w]) /\ inputwhis[w] \in whiss'[w]
<1>. DEFINE x == inputwhis[w]
<1>1. /\ whisnr \in Nat /\ whiss[w] \subseteq Nat \ {0}
      /\ whis[w] \in whiss[w] \cup {0}
      /\ new \subseteq skip /\ 0 \notin skip
      /\ Asked[w] = IF inputcopy[w] /\ x \in new \ (history \cup {whis[w]}) THEN x ELSE 0
  BY TypeFacts
<1>2. /\ whiss \in [Windows -> SUBSET (1..whisnr)] /\ skip \subseteq 1..whisnr
      /\ history \subseteq 1..whisnr /\ whisnr \in 0..MaxWhis
  BY DEF WInv, WinHisTypeOK
<1>3. \A v \in Windows \ {w} : whiss[w] \cap whiss[v] = {}
  BY DEF WInv, LoadsOwnEntry
<1>4. inputcopy[w] /\ x \in whiss[w] /\ x # 0
  BY <1>1 DEF Displaycopy, WInv, LoadsOwnEntry
<1>5. /\ whisnr' = whisnr /\ whiss' = whiss /\ history' = history
      /\ Skipwinhis(w, x, whis[w], skip, new)
      /\ whis' = [whis EXCEPT ![w] = x] /\ hiswhis' = [hiswhis EXCEPT ![w] = x]
      /\ inputwhis' = [inputwhis EXCEPT ![w] = 0]
      /\ inputcopy' = [inputcopy EXCEPT ![w] = FALSE]
  BY DEF Displaycopy
<1>6. whis[w] = 0 => whiss[w] \subseteq skip
  BY DEF WInv, EmptyLine
<1>. HIDE DEF x
<1>7. /\ new' \subseteq skip' /\ skip' \subseteq skip \cup whiss[w]
      /\ \A y : y \notin whiss[w] => (y \in skip' <=> y \in skip) /\ (y \in new' <=> y \in new)
  BY <1>1, <1>4, <1>5, SkipFlags
<1>8. /\ \A v \in Windows \ {w} : Alone(v)
      /\ whis'[w] = x /\ inputwhis'[w] = 0 /\ hiswhis'[w] = x /\ inputcopy'[w] = FALSE
  <2>1. \A v \in Windows \ {w} : whiss'[v] = whiss[v] /\ x \notin whiss[v]
    BY <1>3, <1>4, <1>5
  <2>2. \A y : y \notin whiss[w] \cup {x} =>
          (y \in skip' <=> y \in skip) /\ (y \in new' <=> y \in new)
          /\ (y \in history' <=> y \in history)
    BY <1>5, <1>7
  <2>3. /\ whis'[w] = x /\ inputwhis'[w] = 0 /\ hiswhis'[w] = x /\ inputcopy'[w] = FALSE
        /\ \A v \in Windows \ {w} :
             /\ whis'[v] = whis[v] /\ inputwhis'[v] = inputwhis[v]
             /\ inputcopy'[v] = inputcopy[v] /\ hiswhis'[v] = hiswhis[v]
    BY <1>5 DEF WInv, WinHisTypeOK
  <2>. QED  BY <2>1, <2>2, <2>3, OthersAlone
<1>9. WinHisTypeOK'
  <2>1. /\ whisnr' \in 0..MaxWhis /\ whisnr <= whisnr'
        /\ whiss' \in [Windows -> SUBSET (1..whisnr')] /\ history' \subseteq 1..whisnr'
        /\ x \in whiss'[w] \cup {0} /\ skip' \subseteq 1..whisnr'
    BY <1>1, <1>2, <1>4, <1>5, <1>7
  <2>. QED  BY <1>5, <1>7, <2>1, EffectType
<1>10. Own(w)'
  BY <1>4, <1>5, <1>8 DEF Own
<1>11. Asked'[w] = 0
  BY <1>8 DEF Asked
<1>12. Effect(w)
  BY <1>3, <1>5, <1>8, <1>9, <1>10, <1>11 DEF Effect
<1>. DEFINE L == whiss'[w] \ skip'
<1>13. /\ Mainline' = [Mainline EXCEPT ![w] = L] /\ Mainline[w] = whiss[w] \ skip
       /\ Asked' = [Asked EXCEPT ![w] = 0]
  BY <1>11, <1>12, LineFacts
<1>14. CASE x = Asked[w]
  <2>1. x \in new /\ x \notin history' /\ x # whis[w]
    BY <1>1, <1>4, <1>5, <1>14
  <2>2. \A y \in whiss'[w] : y <= x
    BY <1>4, <1>5, <1>14 DEF WInv, NewestLoads, Newest
  <2>3. \/ L = {y \in whiss[w] \ skip : y <= whis[w]} \cup {x}
        \/ whis[w] # 0 /\ whis[w] \notin whiss[w] \ skip /\ L = whiss[w] \ skip
    BY <1>1, <1>4, <1>5, <1>6, <2>1, <2>2, SkipNewest
  <2>4. Line!JoinLine(w, x)
    BY <1>13, <2>3 DEF Line!JoinLine, Line!EndLine, Mainline
  <2>. QED  BY <1>4, <1>5, <1>12, <1>13, <1>14, <2>4 DEF Line!Show, Line!Turn, Line!Asks, x
<1>15. CASE x # Asked[w]
  <2>1. x = whis[w] \/ x \notin new \/ x \in history'
    BY <1>1, <1>4, <1>5, <1>15
  <2>2. L = IF whis[w] = 0 THEN {y \in whiss[w] \ skip : y <= whis[w]} \cup {x}
                           ELSE whiss[w] \ skip
    BY <1>1, <1>4, <1>5, <1>6, <2>1, SkipKept
  <2>3. Line!KeepLine(w, x)
    BY <1>13, <2>2 DEF Line!KeepLine, Line!EndLine, Mainline
  <2>. QED  BY <1>4, <1>5, <1>12, <1>13, <1>15, <2>3 DEF Line!Show, Line!Turn, Line!Asks, x
<1>. QED  BY <1>14, <1>15

\* A load that comes to nothing, and one that starts again.
LEMMA CancelReloadStep ==
  ASSUME WInv, NEW w \in Windows, Cancelcopy(w) \/ Reloadframe(w)
  PROVE  Effect(w) /\ \E x \in whiss'[w] : Line!Recall(w, x)
<1>1. /\ whisnr \in Nat /\ whiss[w] \subseteq Nat \ {0}
      /\ whis[w] \in whiss[w] \cup {0} /\ hiswhis[w] \in whiss[w] \cup {0}
      /\ inputwhis[w] \in whiss[w] \cup {0} /\ new \subseteq skip
  BY TypeFacts
<1>2. \A v \in Windows \ {w} : whiss[w] \cap whiss[v] = {}
  BY DEF WInv, LoadsOwnEntry
<1>3. whis[w] = 0 => whiss[w] \subseteq skip
  BY DEF WInv, EmptyLine
<1>4. /\ whisnr' = whisnr /\ whiss' = whiss /\ skip' = skip /\ new' = new
      /\ whis' = whis /\ hiswhis' = hiswhis
      /\ history' = history \/ (whis[w] # 0 /\ history' = history \ {whis[w]})
  BY DEF Cancelcopy, Reloadframe, flagVars
<1>5. PICK x \in whiss[w], c \in BOOLEAN :
        /\ inputwhis' = [inputwhis EXCEPT ![w] = x] /\ inputcopy' = [inputcopy EXCEPT ![w] = c]
        /\ c => x = whis[w]
  <2>1. CASE Cancelcopy(w)
    <3>1. inputwhis[w] \in whiss[w]
      BY <2>1 DEF Cancelcopy, WInv, LoadsOwnEntry
    <3>2. inputwhis' = [inputwhis EXCEPT ![w] = inputwhis[w]]
      BY <2>1 DEF Cancelcopy, WInv, WinHisTypeOK
    <3>3. inputcopy' = [inputcopy EXCEPT ![w] = FALSE]
      BY <2>1 DEF Cancelcopy
    <3>. QED  BY <3>1, <3>2, <3>3
  <2>2. CASE Reloadframe(w)
    <3>1. whis[w] \in whiss[w]
      BY <1>1, <2>2 DEF Reloadframe
    <3>2. inputwhis' = [inputwhis EXCEPT ![w] = whis[w]] /\ inputcopy' = [inputcopy EXCEPT ![w] = TRUE]
      BY <2>2 DEF Reloadframe
    <3>. QED  BY <3>1, <3>2
  <2>. QED  BY <2>1, <2>2
<1>6. /\ inputwhis'[w] = x /\ inputcopy'[w] = c
      /\ \A v \in Windows \ {w} : inputwhis'[v] = inputwhis[v] /\ inputcopy'[v] = inputcopy[v]
  BY <1>5 DEF WInv, WinHisTypeOK
<1>7. \A v \in Windows \ {w} : Alone(v)
  <2>1. \A v \in Windows \ {w} : whiss'[v] = whiss[v] /\ x \notin whiss[v]
    BY <1>2, <1>4
  <2>2. \A y : y \notin whiss[w] \cup {x} =>
          (y \in skip' <=> y \in skip) /\ (y \in new' <=> y \in new)
          /\ (y \in history' <=> y \in history)
    BY <1>1, <1>4
  <2>3. \A v \in Windows \ {w} :
          /\ whis'[v] = whis[v] /\ inputwhis'[v] = inputwhis[v]
          /\ inputcopy'[v] = inputcopy[v] /\ hiswhis'[v] = hiswhis[v]
    BY <1>4, <1>6
  <2>. QED  BY <2>1, <2>2, <2>3, OthersAlone
<1>8. WinHisTypeOK'
  <2>1. inputwhis' \in [Windows -> 0..whisnr'] /\ inputcopy' \in [Windows -> BOOLEAN]
    BY <1>4, <1>5 DEF WInv, WinHisTypeOK
  <2>. QED  BY <1>4, <2>1 DEF WInv, WinHisTypeOK
<1>9. Own(w)'
  BY <1>1, <1>3, <1>4, <1>6 DEF Own
<1>10. Asked'[w] = 0
  BY <1>4, <1>5, <1>6 DEF Asked
<1>11. Effect(w)
  BY <1>2, <1>4, <1>7, <1>8, <1>9, <1>10 DEF Effect
<1>12. Asked' = [Asked EXCEPT ![w] = 0] /\ Mainline' = Mainline
  BY <1>4, <1>10, <1>11, LineFacts DEF Mainline
<1>. QED  BY <1>4, <1>11, <1>12 DEF Line!Recall, Line!Asks

-----------------------------------------------------------------------------
(* The theorems. *)

\* Every step is a step of the line of one window.
LEMMA StepRefines ==
  ASSUME WInv, WinHisNext
  PROVE  WInv' /\ Line!LineNext
<1>1. PICK w \in Windows :
        \/ Inputwindocref(w) \/ Back(w) \/ Forward(w)
        \/ \E x \in 1..whisnr : Updatewhiswindow(w, x)
        \/ UpdatewhiswindowCopies(w)
        \/ Displaycopy(w) \/ Cancelcopy(w) \/ Reloadframe(w)
  BY DEF WinHisNext
<1>2. SUFFICES Effect(w) /\ \E n \in whiss'[w] :
        \/ Line!Ask(w, n) \/ Line!AskHere(w, n) \/ Line!Borrow(w, n) \/ Line!BorrowHere(w, n)
        \/ Line!Recall(w, n) \/ Line!Show(w, n)
  BY EffectKeeps DEF Line!LineNext
<1>3. ASSUME NEW old \in BOOLEAN, Newwinhis(w, old) PROVE whisnr' \in whiss'[w]
  BY <1>3, NewEntry
<1>4. CASE Inputwindocref(w)
  <2>1. Newwinhis(w, FALSE)
    BY <1>4 DEF Inputwindocref
  <2>2. Effect(w) /\ (Line!Ask(w, whisnr') \/ Line!AskHere(w, whisnr'))
    BY <2>1, NewwinhisStep
  <2>. QED  BY <1>3, <2>1, <2>2
<1>5. CASE UpdatewhiswindowCopies(w)
  <2>1. Newwinhis(w, TRUE)
    BY <1>5 DEF UpdatewhiswindowCopies
  <2>2. Effect(w) /\ (Line!Borrow(w, whisnr') \/ Line!BorrowHere(w, whisnr'))
    BY <2>1, NewwinhisStep
  <2>. QED  BY <1>3, <2>1, <2>2
<1>6. CASE Back(w) \/ Forward(w)
  <2>1. PICK x \in whiss[w] : Followhis(w, x) /\ (hiswhis[w] \in whiss[w] \ skip => x \notin skip)
    BY <1>6, GohistoryFacts
  <2>2. history' = history \cup {x} /\ whisnr' = whisnr /\ whiss' = whiss /\ Setframe(w, x, x)
    BY <2>1 DEF Followhis
  <2>3. Effect(w) /\ (Line!Recall(w, x) \/ Line!Show(w, x))
    BY <2>1, <2>2, SetframeStep
  <2>. QED  BY <2>2, <2>3
<1>7. CASE \E x \in 1..whisnr : Updatewhiswindow(w, x)
  <2>1. PICK x \in 1..whisnr : Updatewhiswindow(w, x)
    BY <1>7
  <2>2. /\ x \in whiss[w] /\ history' = history \cup {x} /\ whisnr' = whisnr /\ whiss' = whiss
        /\ Setframe(w, x, hiswhis[w])
    BY <2>1 DEF Updatewhiswindow
  <2>3. Effect(w) /\ (Line!Recall(w, x) \/ Line!Show(w, x))
    BY <2>2, SetframeStep
  <2>. QED  BY <2>2, <2>3
<1>8. CASE Displaycopy(w)
  BY <1>8, DisplaycopyStep
<1>9. CASE Cancelcopy(w) \/ Reloadframe(w)
  BY <1>9, CancelReloadStep
<1>. QED  BY <1>1, <1>4, <1>5, <1>6, <1>7, <1>8, <1>9

LEMMA StutterRefines ==
  ASSUME WInv, UNCHANGED winhisVars
  PROVE  WInv' /\ UNCHANGED Line!lineVars
<1>1. /\ whisnr' = whisnr /\ whiss' = whiss /\ skip' = skip /\ new' = new /\ history' = history
      /\ whis' = whis /\ inputwhis' = inputwhis /\ inputcopy' = inputcopy /\ hiswhis' = hiswhis
  BY DEF winhisVars, flagVars, frameVars
<1>2. WInv'
  BY <1>1 DEF WInv, WinHisTypeOK, LoadsOwnEntry, EmptyLine, NewestLoads, Newest, Asked
<1>3. UNCHANGED Line!lineVars
  BY <1>1 DEF Line!lineVars, Mainline, Asked
<1>. QED  BY <1>2, <1>3

\* No entry, no line.
LEMMA InitRefines ==
  ASSUME WinHisInit
  PROVE  WInv /\ Line!LineInit
<1>1. WInv
  BY WinHisAssumption
     DEF WinHisInit, WInv, WinHisTypeOK, LoadsOwnEntry, EmptyLine, NewestLoads, Newest, Asked
<1>2. Line!LineInit
  BY DEF WinHisInit, Line!LineInit, Mainline, Asked
<1>. QED  BY <1>1, <1>2

\* The inductive invariant of the window history.
THEOREM WinHisInvariant == WinHisSpec => []WInv
<1>1. WInv /\ [WinHisNext]_winhisVars => WInv'
  BY StepRefines, StutterRefines
<1>2. WinHisInit => WInv
  BY InitRefines
<1>. QED  BY <1>1, <1>2, PTL DEF WinHisSpec

\* A frame that loads a copy knows which entry of its own window it is for.
THEOREM FramesLoadOwnEntry == WinHisSpec => []LoadsOwnEntry
<1>1. WInv => LoadsOwnEntry
  BY DEF WInv
<1>. QED  BY <1>1, WinHisInvariant, PTL

\* The flags of the one list of entries implement the line of every window.
THEOREM FlagsKeepMainline == WinHisSpec => KeepsMainline
<1>1. WInv /\ [WinHisNext]_winhisVars => [Line!LineNext]_Line!lineVars
  BY StepRefines, StutterRefines
<1>2. WinHisInit => Line!LineInit
  BY InitRefines
<1>. QED  BY <1>1, <1>2, WinHisInvariant, PTL DEF WinHisSpec, KeepsMainline, Line!LineSpec

============================================================================
