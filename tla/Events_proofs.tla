---------------------------- MODULE Events_proofs ----------------------------
(***************************************************************************)
(* Proofs about the timer objects, the timeouts and the queued messages,   *)
(* for any numbers of them, of frames and of copies.                       *)
(***************************************************************************)
EXTENDS Events, SeqLemmas, TLAPS

-----------------------------------------------------------------------------
(* Lists of timers.                                                        *)

LEMMA LessFacts ==
  ASSUME NEW S, NEW s \in Seq(S), NEW ts
  PROVE  /\ Less(s, ts) \in Seq(S)
         /\ ToSet(Less(s, ts)) = ToSet(s) \ ts
         /\ IsInjective(s) => IsInjective(Less(s, ts))
<1>. DEFINE w == Less(s, ts)
<1>1. w = Removed(s, PlacesOf(s, ts))
  BY DEF Less, PlacesOf
<1>. HIDE DEF w
<1>2. /\ w \in Seq(S) /\ ToSet(w) = ToSet(s) \ ts
      /\ IsInjective(s) => IsInjective(w)
  BY <1>1, TakenFacts
<1>. QED  BY <1>2 DEF w

LEMMA ConcatLists ==
  ASSUME NEW S, NEW s \in Seq(S), NEW u \in Seq(S)
  PROVE  /\ s \o u \in Seq(S)
         /\ ToSet(s \o u) = ToSet(s) \cup ToSet(u)
         /\ IsInjective(s \o u) <=>
              IsInjective(s) /\ IsInjective(u) /\ ToSet(s) \cap ToSet(u) = {}
<1>. DEFINE w == s \o u
<1>0. Len(s) \in Nat /\ Len(u) \in Nat /\ DOMAIN s = 1..Len(s) /\ DOMAIN u = 1..Len(u)
  OBVIOUS
<1>1. /\ w \in Seq(S) /\ DOMAIN w = 1..(Len(s) + Len(u))
      /\ \A i \in 1..Len(s) : w[i] = s[i]
      /\ \A i \in 1..Len(u) : w[Len(s) + i] = u[i]
  BY ConcatFacts
<1>. HIDE DEF w
<1>2. \A i \in 1..Len(s) : i \in DOMAIN w
  BY <1>0, <1>1
<1>3. \A i \in 1..Len(u) : Len(s) + i \in DOMAIN w
  BY <1>0, <1>1
<1>4. \A i \in DOMAIN w : i \in 1..Len(s) \/ \E j \in 1..Len(u) : i = Len(s) + j
  <2>. SUFFICES ASSUME NEW i \in DOMAIN w, i \notin 1..Len(s)
                PROVE  \E j \in 1..Len(u) : i = Len(s) + j
    OBVIOUS
  <2>1. i - Len(s) \in 1..Len(u) /\ i = Len(s) + (i - Len(s))
    BY <1>0, <1>1
  <2>. QED  BY <2>1
<1>5. ToSet(w) = ToSet(s) \cup ToSet(u)
  <2>1. ASSUME NEW x \in ToSet(w) PROVE x \in ToSet(s) \cup ToSet(u)
    <3>1. PICK i \in DOMAIN w : x = w[i]
      BY <2>1 DEF ToSet
    <3>2. CASE i \in 1..Len(s)
      BY <1>0, <1>1, <3>1, <3>2 DEF ToSet
    <3>3. CASE i \notin 1..Len(s)
      BY <1>0, <1>1, <1>4, <3>1, <3>3 DEF ToSet
    <3>. QED  BY <3>2, <3>3
  <2>2. ASSUME NEW x \in ToSet(s) PROVE x \in ToSet(w)
    BY <1>0, <1>1, <1>2, <2>2 DEF ToSet
  <2>3. ASSUME NEW x \in ToSet(u) PROVE x \in ToSet(w)
    BY <1>0, <1>1, <1>3, <2>3 DEF ToSet
  <2>. QED  BY <2>1, <2>2, <2>3
<1>6. ASSUME IsInjective(w)
      PROVE  IsInjective(s) /\ IsInjective(u) /\ ToSet(s) \cap ToSet(u) = {}
  <2>1. IsInjective(s)
    <3>1. ASSUME NEW i \in 1..Len(s), NEW j \in 1..Len(s), s[i] = s[j] PROVE i = j
      BY <1>1, <1>2, <1>6, <3>1 DEF IsInjective
    <3>. QED  BY <1>0, <3>1 DEF IsInjective
  <2>2. IsInjective(u)
    <3>1. ASSUME NEW i \in 1..Len(u), NEW j \in 1..Len(u), u[i] = u[j] PROVE i = j
      <4>1. Len(s) + i = Len(s) + j
        BY <1>1, <1>3, <1>6, <3>1 DEF IsInjective
      <4>. QED  BY <1>0, <4>1
    <3>. QED  BY <1>0, <3>1 DEF IsInjective
  <2>3. ASSUME NEW i \in 1..Len(s), NEW j \in 1..Len(u), s[i] = u[j] PROVE FALSE
    <3>1. i = Len(s) + j
      BY <1>1, <1>2, <1>3, <1>6, <2>3 DEF IsInjective
    <3>. QED  BY <1>0, <3>1
  <2>. QED  BY <1>0, <2>1, <2>2, <2>3 DEF ToSet
<1>7. ASSUME IsInjective(s), IsInjective(u), ToSet(s) \cap ToSet(u) = {}
      PROVE  IsInjective(w)
  <2>0. \A i \in 1..Len(s), j \in 1..Len(u) : s[i] # u[j]
    BY <1>0, <1>7 DEF ToSet
  <2>. SUFFICES ASSUME NEW a \in DOMAIN w, NEW b \in DOMAIN w, w[a] = w[b] PROVE a = b
    BY DEF IsInjective
  <2>1. CASE a \in 1..Len(s) /\ b \in 1..Len(s)
    BY <1>0, <1>1, <1>7, <2>1 DEF IsInjective
  <2>2. CASE a \in 1..Len(s) /\ b \notin 1..Len(s)
    BY <1>1, <1>4, <2>0, <2>2
  <2>3. CASE a \notin 1..Len(s) /\ b \in 1..Len(s)
    BY <1>1, <1>4, <2>0, <2>3
  <2>4. CASE a \notin 1..Len(s) /\ b \notin 1..Len(s)
    <3>1. PICK i \in 1..Len(u) : a = Len(s) + i
      BY <1>4, <2>4
    <3>2. PICK j \in 1..Len(u) : b = Len(s) + j
      BY <1>4, <2>4
    <3>3. i = j
      BY <1>0, <1>1, <1>7, <3>1, <3>2 DEF IsInjective
    <3>. QED  BY <3>1, <3>2, <3>3
  <2>. QED  BY <2>1, <2>2, <2>3, <2>4
<1>. QED  BY <1>1, <1>5, <1>6, <1>7 DEF w

LEMMA OneList ==
  ASSUME NEW S, NEW e \in S
  PROVE  <<e>> \in Seq(S) /\ ToSet(<<e>>) = {e} /\ IsInjective(<<e>>)
BY DEF ToSet, IsInjective

LEMMA NoList ==
  ToSet(<<>>) = {} /\ IsInjective(<<>>)
BY DEF ToSet, IsInjective

LEMMA AppendLists ==
  ASSUME NEW S, NEW s \in Seq(S), NEW e \in S
  PROVE  /\ Append(s, e) \in Seq(S)
         /\ ToSet(Append(s, e)) = ToSet(s) \cup {e}
         /\ IsInjective(s) /\ e \notin ToSet(s) => IsInjective(Append(s, e))
<1>1. PICK u \in Seq(S) : u = <<e>> /\ ToSet(u) = {e} /\ IsInjective(u)
  BY OneList
<1>2. Append(s, e) = s \o u
  BY <1>1, AppendIsConcat
<1>3. /\ s \o u \in Seq(S) /\ ToSet(s \o u) = ToSet(s) \cup ToSet(u)
      /\ IsInjective(s) /\ ToSet(s) \cap ToSet(u) = {} => IsInjective(s \o u)
  BY <1>1, ConcatLists
<1>. QED  BY <1>1, <1>2, <1>3

LEMMA TailLists ==
  ASSUME NEW S, NEW s \in Seq(S), s # <<>>
  PROVE  /\ Head(s) \in S /\ Tail(s) \in Seq(S)
         /\ ToSet(s) = {Head(s)} \cup ToSet(Tail(s))
         /\ IsInjective(s) => IsInjective(Tail(s)) /\ Head(s) \notin ToSet(Tail(s))
<1>1. Head(s) \in S /\ Tail(s) \in Seq(S) /\ s = <<Head(s)>> \o Tail(s)
  <2>1. /\ Len(s) \in Nat \ {0} /\ Head(s) = s[1] /\ Head(s) \in S /\ Tail(s) \in Seq(S)
        /\ Len(Tail(s)) = Len(s) - 1 /\ \A i \in 1..(Len(s) - 1) : Tail(s)[i] = s[i + 1]
    BY HeadTailProperties, EmptySeq
  <2>. DEFINE w == <<Head(s)>> \o Tail(s)
  <2>2. <<Head(s)>> \in Seq(S) /\ Len(<<Head(s)>>) = 1 /\ <<Head(s)>>[1] = Head(s)
    BY <2>1
  <2>3. /\ w \in Seq(S) /\ Len(w) = 1 + (Len(s) - 1) /\ w[1] = Head(s)
        /\ \A i \in 1..(Len(s) - 1) : w[1 + i] = Tail(s)[i]
    BY <2>1, <2>2, ConcatFacts
  <2>. HIDE DEF w
  <2>4. Len(w) = Len(s)
    BY <2>1, <2>3
  <2>5. ASSUME NEW i \in 1..Len(s) PROVE w[i] = s[i]
    <3>1. CASE i = 1
      BY <2>1, <2>3, <3>1
    <3>2. CASE i # 1
      <4>1. i - 1 \in 1..(Len(s) - 1) /\ 1 + (i - 1) = i /\ (i - 1) + 1 = i
        BY <2>1, <3>2
      <4>. QED  BY <2>1, <2>3, <4>1
    <3>. QED  BY <3>1, <3>2
  <2>6. w = s
    BY <2>3, <2>4, <2>5, SeqEqual
  <2>. QED  BY <2>1, <2>6 DEF w
<1>2. PICK h \in S : h = Head(s)
  BY <1>1
<1>3. PICK u \in Seq(S) : u = Tail(s)
  BY <1>1
<1>4. PICK o \in Seq(S) : o = <<h>> /\ ToSet(o) = {h}
  BY OneList
<1>5. s = o \o u
  BY <1>1, <1>2, <1>3, <1>4
<1>6. /\ ToSet(s) = ToSet(o) \cup ToSet(u)
      /\ IsInjective(s) => IsInjective(u) /\ ToSet(o) \cap ToSet(u) = {}
  <2>1. /\ ToSet(o \o u) = ToSet(o) \cup ToSet(u)
        /\ IsInjective(o \o u) => IsInjective(o) /\ IsInjective(u) /\ ToSet(o) \cap ToSet(u) = {}
    BY ONLY <1>3, <1>4, ConcatLists
  <2>. QED  BY <1>5, <2>1
<1>. QED  BY <1>1, <1>2, <1>3, <1>4, <1>6

-----------------------------------------------------------------------------
(* The messages that are queued.                                           *)

Queued == [object : Frames \cup Copies, id : {"inputwindoc", "deferdispose"},
           selected : BOOLEAN]

\* The messages of q are for these objects, for a copy there is one at most,
\* and it is one that disposes of it.
Sound(q, objects) ==
  \A i \in DOMAIN q :
    /\ q[i].object \in objects
    /\ q[i].id = "deferdispose" <=> q[i].object \in Copies
    /\ \A j \in DOMAIN q :
         i # j => ~(q[i].object = q[j].object /\ q[j].object \in Copies)

LEMMA SoundRemoved ==
  ASSUME NEW q \in Seq(Queued), NEW objects, Sound(q, objects), NEW gone
  PROVE  Unqueue(q, gone) \in Seq(Queued) /\ Sound(Unqueue(q, gone), objects \ gone)
<1>. DEFINE I == {i \in DOMAIN q : q[i].object \in gone}
            w == Unqueue(q, gone)
<1>1. DOMAIN q = 1..Len(q)
  OBVIOUS
<1>2. w = Removed(q, I)
  BY DEF Unqueue
<1>. HIDE DEF w
<1>3. w \in Seq(Queued) /\ \E f : Comes(w, q, I, Len(q), f)
  BY <1>2, RemovedFacts
<1>4. PICK f : Comes(w, q, I, Len(q), f)
  BY <1>3
<1>5. DOMAIN w = 1..Len(w)
  BY <1>3
<1>6. ASSUME NEW i \in DOMAIN w
      PROVE  f[i] \in DOMAIN q /\ w[i] = q[f[i]] /\ q[f[i]].object \notin gone
  BY <1>1, <1>4, <1>5 DEF Comes
<1>7. ASSUME NEW i \in DOMAIN w, NEW j \in DOMAIN w, i # j PROVE f[i] # f[j]
  BY <1>4, <1>5, <1>7 DEF Comes
<1>8. ASSUME NEW i \in DOMAIN w
      PROVE  /\ w[i].object \in objects \ gone
             /\ w[i].id = "deferdispose" <=> w[i].object \in Copies
  BY <1>6 DEF Sound
<1>9. ASSUME NEW i \in DOMAIN w, NEW j \in DOMAIN w, i # j
      PROVE  ~(w[i].object = w[j].object /\ w[j].object \in Copies)
  <2>1. /\ f[i] \in DOMAIN q /\ f[j] \in DOMAIN q /\ f[i] # f[j]
        /\ w[i] = q[f[i]] /\ w[j] = q[f[j]]
    BY <1>6, <1>7, <1>9
  <2>. QED  BY <2>1 DEF Sound
<1>10. Sound(w, objects \ gone)
  BY <1>8, <1>9 DEF Sound
<1>. QED  BY <1>3, <1>10 DEF w

LEMMA SoundMore ==
  ASSUME NEW q \in Seq(Queued), NEW objects, Sound(q, objects),
         NEW others, \A i \in DOMAIN q : q[i].object \in objects => q[i].object \in others
  PROVE  Sound(q, others)
BY DEF Sound

LEMMA SoundTail ==
  ASSUME NEW q \in Seq(Queued), q # <<>>, NEW objects, Sound(q, objects)
  PROVE  /\ Head(q) \in Queued /\ Tail(q) \in Seq(Queued)
         /\ Head(q).object \in objects
         /\ Head(q).id = "deferdispose" <=> Head(q).object \in Copies
         /\ Sound(Tail(q), objects)
         /\ Head(q).object \in Copies => Sound(Tail(q), objects \ {Head(q).object})
<1>. DEFINE u == Tail(q)
<1>1. /\ Len(q) \in Nat \ {0} /\ Head(q) = q[1] /\ Head(q) \in Queued /\ u \in Seq(Queued)
      /\ Len(u) = Len(q) - 1 /\ \A i \in 1..(Len(q) - 1) : u[i] = q[i + 1]
  BY HeadTailProperties, EmptySeq
<1>. HIDE DEF u
<1>2. DOMAIN q = 1..Len(q) /\ DOMAIN u = 1..(Len(q) - 1) /\ 1 \in DOMAIN q
  BY <1>1
<1>3. ASSUME NEW i \in DOMAIN u PROVE i + 1 \in DOMAIN q /\ i + 1 # 1 /\ u[i] = q[i + 1]
  BY <1>1, <1>2
<1>4. \A i, j \in DOMAIN u : i # j => i + 1 # j + 1
  BY <1>1, <1>2
<1>5. ASSUME NEW i \in DOMAIN u
      PROVE  /\ u[i].object \in objects
             /\ u[i].id = "deferdispose" <=> u[i].object \in Copies
             /\ Head(q).object \in Copies => u[i].object # Head(q).object
             /\ \A j \in DOMAIN u :
                  i # j => ~(u[i].object = u[j].object /\ u[j].object \in Copies)
  <2>1. i + 1 \in DOMAIN q /\ i + 1 # 1 /\ u[i] = q[i + 1]
    BY <1>3
  <2>2. ASSUME NEW j \in DOMAIN u, i # j
        PROVE  ~(u[i].object = u[j].object /\ u[j].object \in Copies)
    <3>1. j + 1 \in DOMAIN q /\ u[j] = q[j + 1] /\ i + 1 # j + 1
      BY <1>3, <1>4, <2>2
    <3>. QED  BY <2>1, <3>1 DEF Sound
  <2>3. Head(q).object \in Copies => u[i].object # Head(q).object
    BY <1>1, <1>2, <2>1 DEF Sound
  <2>. QED  BY <2>1, <2>2, <2>3 DEF Sound
<1>6. Sound(u, objects)
  BY <1>5 DEF Sound
<1>7. Head(q).object \in Copies => Sound(u, objects \ {Head(q).object})
  BY <1>5 DEF Sound
<1>8. Head(q).object \in objects /\ (Head(q).id = "deferdispose" <=> Head(q).object \in Copies)
  BY <1>1, <1>2 DEF Sound
<1>. QED  BY <1>1, <1>6, <1>7, <1>8 DEF u

LEMMA SoundAppend ==
  ASSUME NEW q \in Seq(Queued), NEW objects, Sound(q, objects), NEW m \in Queued,
         m.object \in objects, m.id = "deferdispose" <=> m.object \in Copies,
         m.object \in Copies => \A i \in DOMAIN q : q[i].object # m.object
  PROVE  Append(q, m) \in Seq(Queued) /\ Sound(Append(q, m), objects)
<1>. DEFINE w == Append(q, m)
<1>1. /\ w \in Seq(Queued) /\ Len(q) \in Nat /\ DOMAIN w = 1..(Len(q) + 1)
      /\ w[Len(q) + 1] = m /\ \A i \in 1..Len(q) : w[i] = q[i]
  BY PushFacts
<1>. HIDE DEF w
<1>2. \A i \in DOMAIN w : i \in DOMAIN q \/ i = Len(q) + 1
  BY <1>1
<1>3. \A i \in DOMAIN q : w[i] = q[i]
  BY <1>1
<1>4. ASSUME NEW i \in DOMAIN w
      PROVE  /\ w[i].object \in objects
             /\ w[i].id = "deferdispose" <=> w[i].object \in Copies
  BY <1>1, <1>2, <1>3 DEF Sound
<1>5. ASSUME NEW i \in DOMAIN w, NEW j \in DOMAIN w, i # j
      PROVE  ~(w[i].object = w[j].object /\ w[j].object \in Copies)
  <2>1. CASE i \in DOMAIN q /\ j \in DOMAIN q
    BY <1>3, <1>5, <2>1 DEF Sound
  <2>2. CASE i \in DOMAIN q /\ j = Len(q) + 1
    BY <1>1, <1>3, <2>2
  <2>3. CASE i = Len(q) + 1 /\ j \in DOMAIN q
    BY <1>1, <1>3, <2>3
  <2>. QED  BY <1>2, <1>5, <2>1, <2>2, <2>3
<1>6. Sound(w, objects)
  BY <1>4, <1>5 DEF Sound
<1>. QED  BY <1>1, <1>6 DEF w

LEMMA SoundSelected ==
  ASSUME NEW q \in Seq(Queued), NEW objects, Sound(q, objects)
  PROVE  /\ [i \in DOMAIN q |-> [q[i] EXCEPT !.selected = TRUE]] \in Seq(Queued)
         /\ Sound([i \in DOMAIN q |-> [q[i] EXCEPT !.selected = TRUE]], objects)
<1>. DEFINE w == [i \in DOMAIN q |-> [q[i] EXCEPT !.selected = TRUE]]
<1>1. Len(q) \in Nat /\ DOMAIN q = 1..Len(q) /\ \A i \in 1..Len(q) : q[i] \in Queued
  BY ElementOfSeq
<1>2. \A i \in DOMAIN q : /\ w[i] \in Queued
                          /\ w[i].object = q[i].object /\ w[i].id = q[i].id
  BY <1>1 DEF Queued
<1>3. w \in Seq(Queued)
  <2>1. DOMAIN w = 1..Len(q)
    BY <1>1
  <2>2. w = [i \in 1..Len(q) |-> w[i]]
    BY <1>1
  <2>. HIDE DEF w
  <2>. QED  BY <1>1, <1>2, <2>2, IsASeq
<1>4. DOMAIN w = DOMAIN q
  OBVIOUS
<1>. HIDE DEF w
<1>5. Sound(w, objects)
  BY <1>2, <1>4 DEF Sound
<1>. QED  BY <1>3, <1>5 DEF w

\* The messages for copies stay when those for other objects are taken out.
LEMMA UnqueuedCopies ==
  ASSUME NEW q \in Seq(Queued), NEW gone, gone \cap Copies = {},
         NEW p \in DOMAIN q, q[p].object \in Copies
  PROVE  \E i \in DOMAIN Unqueue(q, gone) : Unqueue(q, gone)[i].object = q[p].object
<1>. DEFINE I == {i \in DOMAIN q : q[i].object \in gone}
            w == Unqueue(q, gone)
<1>1. Len(q) \in Nat /\ DOMAIN q = 1..Len(q)
  OBVIOUS
<1>2. w = Removed(q, I)
  BY DEF Unqueue
<1>. HIDE DEF w
<1>3. w \in Seq(Queued) /\ \E f : Comes(w, q, I, Len(q), f)
  BY <1>2, RemovedFacts
<1>4. PICK f : Comes(w, q, I, Len(q), f)
  BY <1>3
<1>5. DOMAIN w = 1..Len(w)
  BY <1>3
<1>6. p \in (1..Len(q)) \ I
  BY <1>1
<1>. HIDE DEF I
<1>7. PICK i \in 1..Len(w) : f[i] = p
  BY <1>4, <1>6 DEF Comes
<1>8. w[i] = q[p]
  BY <1>4, <1>7 DEF Comes
<1>. QED  BY <1>5, <1>8 DEF w

-----------------------------------------------------------------------------
(* The invariant.                                                          *)

\* RequestsAccounted for each list by itself.
RequestsInv ==
  /\ timers.io \subseteq timers.live
  /\ timers.device \cup ToSet(port) \cup ToSet(list) = timers.io
  /\ timers.device \cap ToSet(port) = {} /\ timers.device \cap ToSet(list) = {}
  /\ ToSet(port) \cap ToSet(list) = {}
  /\ IsInjective(port) /\ IsInjective(list)

\* The subframes of a copy that is displayed or is still to be disposed of.
Attached == {k \in Kids : within[k] \notin {"spare", "none"}}

\* A script's frame is the top frame or belongs to a copy, its document's copy
\* is displayed or waits to be disposed of, and the outermost script alone is
\* of a timeout.
Sane(i, c) ==
  /\ c.frame \in Attached \cup {Top, Nobody}
  /\ c.doc \in (Deferred \cup {copy}) \ {Nobody}
  /\ c.timeout # Nobody => i = 1 /\ c.frame # Nobody

\* The scripts and loads under way.  Script scopes are those of the document that
\* is displayed; and main takes a load out of the queue, or from the client pull,
\* when no script runs.
CallsInv ==
  /\ jdscope \subseteq Bound \cup {Top}
  /\ jdscope # {} => copy # Nobody
  /\ main \in {"pull", "inputwindoc"} => calls = <<>>
  /\ \A i \in DOMAIN calls : Sane(i, calls[i])

MessagesInv == Sound(queue, Live \cup (Copies \ {copy}))

EventsInv == EventsTypeOK /\ RequestsInv /\ TimersOwned /\ CallsInv /\ MessagesInv

TimersType == [live : SUBSET Timers, io : SUBSET Timers, device : SUBSET Timers]

CallsType == [frame : Frames \cup {Nobody}, timeout : Timers \cup {Nobody},
              doc : Copies \cup {Nobody}]

LEMMA InvImplies ==
  ASSUME EventsInv
  PROVE  RequestsAccounted /\ TimersOwned /\ ScriptsSurvive /\ MessagesForLive
<1>1. port \in Seq(Timers) /\ list \in Seq(Timers)
  BY DEF EventsInv, EventsTypeOK
<1>2. /\ ToSet(port \o list) = ToSet(port) \cup ToSet(list)
      /\ IsInjective(port) /\ IsInjective(list) /\ ToSet(port) \cap ToSet(list) = {} =>
           IsInjective(port \o list)
  BY <1>1, ConcatLists
<1>3. RequestsAccounted
  BY <1>2 DEF EventsInv, RequestsInv, RequestsAccounted
<1>4. MessagesForLive
  BY DEF EventsInv, MessagesInv, Sound, MessagesForLive
<1>5. ScriptsSurvive
  BY DEF EventsInv, CallsInv, Sane, Attached, Live, ScriptsSurvive
<1>. QED  BY <1>3, <1>4, <1>5 DEF EventsInv

LEMMA InitInv ==
  ASSUME EventsAssumption, EventsInit
  PROVE  EventsInv
<1>. USE DEF EventsInit
<1>1. EventsTypeOK
  <2>1. /\ timers \in [live : SUBSET Timers, io : SUBSET Timers, device : SUBSET Timers]
        /\ port \in Seq(Timers) /\ list \in Seq(Timers)
        /\ timeouts \in [Frames -> SUBSET Timers]
    OBVIOUS
  <2>2. /\ pulltimer \in Timers \cup {Nobody} /\ pullurl \in BOOLEAN
        /\ jdscope \subseteq Frames /\ copy \in Copies \cup {Nobody}
        /\ within \in [Kids -> Copies \cup {"spare", "none"}]
    OBVIOUS
  <2>3. queue \in Seq([object : Frames \cup Copies, id : {"inputwindoc", "deferdispose"},
                       selected : BOOLEAN])
    OBVIOUS
  <2>4. /\ main \in {"wait", "timers", "pull", "messages", "inputwindoc"}
        /\ calls \in Seq([frame : Frames \cup {Nobody}, timeout : Timers \cup {Nobody},
                          doc : Copies \cup {Nobody}])
        /\ Len(calls) <= MaxCalls
    BY DEF EventsAssumption
  <2>. QED  BY <2>1, <2>2, <2>3, <2>4 DEF EventsTypeOK
<1>2. RequestsInv
  BY NoList DEF RequestsInv
<1>3. Present = {} /\ Bound = {} /\ Running = {}
  BY DEF Present, Bound, Running
<1>4. TimersOwned /\ CallsInv
  BY <1>3 DEF TimersOwned, CallsInv
<1>5. MessagesInv
  BY DEF MessagesInv, Sound
<1>. QED  BY <1>1, <1>2, <1>4, <1>5 DEF EventsInv

-----------------------------------------------------------------------------
(* Requests.                                                               *)

LEMMA RequestsSame ==
  ASSUME RequestsInv, UNCHANGED timerVars
  PROVE  RequestsInv'
BY DEF RequestsInv, timerVars

LEMMA AbortFacts ==
  ASSUME port \in Seq(Timers), list \in Seq(Timers), NEW ts, Abort(ts)
  PROVE  /\ port' \in Seq(Timers) /\ list' \in Seq(Timers)
         /\ ToSet(port)' = ToSet(port) \ (ts \cap timers.io)
         /\ ToSet(list)' = ToSet(list) \ (ts \cap timers.io)
         /\ IsInjective(port) => IsInjective(port)'
         /\ IsInjective(list) => IsInjective(list)'
<1>1. port' = Less(port, ts \cap timers.io) /\ list' = Less(list, ts \cap timers.io)
  BY DEF Abort
<1>2. /\ Less(port, ts \cap timers.io) \in Seq(Timers)
      /\ ToSet(Less(port, ts \cap timers.io)) = ToSet(port) \ (ts \cap timers.io)
      /\ IsInjective(port) => IsInjective(Less(port, ts \cap timers.io))
  BY LessFacts
<1>3. /\ Less(list, ts \cap timers.io) \in Seq(Timers)
      /\ ToSet(Less(list, ts \cap timers.io)) = ToSet(list) \ (ts \cap timers.io)
      /\ IsInjective(list) => IsInjective(Less(list, ts \cap timers.io))
  BY LessFacts
<1>. QED  BY <1>1, <1>2, <1>3

LEMMA RequestsDisposed ==
  ASSUME EventsTypeOK, RequestsInv, NEW ts, Disposetimers(ts)
  PROVE  /\ timers' \in TimersType /\ port' \in Seq(Timers) /\ list' \in Seq(Timers)
         /\ timers'.live = timers.live \ ts
         /\ RequestsInv'
<1>1. timers \in TimersType /\ port \in Seq(Timers) /\ list \in Seq(Timers)
  BY DEF EventsTypeOK, TimersType
<1>2. /\ timers' \in TimersType
      /\ timers'.live = timers.live \ ts /\ timers'.io = timers.io \ ts
      /\ timers'.device = timers.device \ (ts \cap timers.io)
  BY <1>1 DEF Disposetimers, TimersType
<1>3. /\ port' \in Seq(Timers) /\ list' \in Seq(Timers)
      /\ ToSet(port)' = ToSet(port) \ (ts \cap timers.io)
      /\ ToSet(list)' = ToSet(list) \ (ts \cap timers.io)
      /\ IsInjective(port) => IsInjective(port)'
      /\ IsInjective(list) => IsInjective(list)'
  BY <1>1, AbortFacts DEF Disposetimers
<1>4. RequestsInv'
  <2>. DEFINE P == ToSet(port)
              Q == ToSet(list)
  <2>1. /\ timers.io \subseteq timers.live /\ timers.device \cup P \cup Q = timers.io
        /\ timers.device \cap P = {} /\ timers.device \cap Q = {} /\ P \cap Q = {}
        /\ IsInjective(port) /\ IsInjective(list)
    BY DEF RequestsInv
  <2>2. /\ P' = P \ (ts \cap timers.io) /\ Q' = Q \ (ts \cap timers.io)
        /\ IsInjective(port)' /\ IsInjective(list)'
    BY <1>3, <2>1
  <2>. HIDE DEF P, Q
  <2>3. /\ timers'.io \subseteq timers'.live
        /\ timers'.device \cup P' \cup Q' = timers'.io
        /\ timers'.device \cap P' = {} /\ timers'.device \cap Q' = {} /\ P' \cap Q' = {}
    BY <1>2, <2>1, <2>2
  <2>. QED  BY <2>2, <2>3 DEF RequestsInv, P, Q
<1>. QED  BY <1>2, <1>3, <1>4

LEMMA RequestsSet ==
  ASSUME EventsTypeOK, RequestsInv, NEW t \in Timers, Settimer(t)
  PROVE  /\ timers' \in TimersType /\ port' \in Seq(Timers) /\ list' \in Seq(Timers)
         /\ timers'.live = timers.live \cup {t}
         /\ RequestsInv'
<1>1. timers \in TimersType /\ port \in Seq(Timers) /\ list \in Seq(Timers)
  BY DEF EventsTypeOK, TimersType
<1>2. /\ timers' \in TimersType
      /\ timers'.live = timers.live \cup {t} /\ timers'.io = timers.io \cup {t}
      /\ timers'.device = timers.device \cup {t}
  BY <1>1 DEF Settimer, TimersType
<1>3. /\ port' \in Seq(Timers) /\ list' \in Seq(Timers)
      /\ ToSet(port)' = ToSet(port) \ ({t} \cap timers.io)
      /\ ToSet(list)' = ToSet(list) \ ({t} \cap timers.io)
      /\ IsInjective(port) => IsInjective(port)'
      /\ IsInjective(list) => IsInjective(list)'
  BY <1>1, AbortFacts DEF Settimer
<1>4. RequestsInv'
  <2>. DEFINE P == ToSet(port)
              Q == ToSet(list)
  <2>1. /\ timers.io \subseteq timers.live /\ timers.device \cup P \cup Q = timers.io
        /\ timers.device \cap P = {} /\ timers.device \cap Q = {} /\ P \cap Q = {}
        /\ IsInjective(port) /\ IsInjective(list)
    BY DEF RequestsInv
  <2>2. /\ P' = P \ ({t} \cap timers.io) /\ Q' = Q \ ({t} \cap timers.io)
        /\ IsInjective(port)' /\ IsInjective(list)'
    BY <1>3, <2>1
  <2>. HIDE DEF P, Q
  <2>3. /\ timers'.io \subseteq timers'.live
        /\ timers'.device \cup P' \cup Q' = timers'.io
        /\ timers'.device \cap P' = {} /\ timers'.device \cap Q' = {} /\ P' \cap Q' = {}
    BY <1>2, <2>1, <2>2
  <2>. QED  BY <2>2, <2>3 DEF RequestsInv, P, Q
<1>. QED  BY <1>2, <1>3, <1>4

LEMMA RequestsReplied ==
  ASSUME EventsTypeOK, RequestsInv, list # <<>>, Replied(Head(list))
  PROVE  /\ Head(list) \in timers.io /\ Head(list) \in Timers
         /\ timers' \in TimersType /\ port' \in Seq(Timers) /\ list' \in Seq(Timers)
         /\ timers'.live = timers.live
         /\ RequestsInv'
<1>1. timers \in TimersType /\ port \in Seq(Timers) /\ list \in Seq(Timers)
  BY DEF EventsTypeOK, TimersType
<1>2. /\ timers' \in TimersType /\ timers'.live = timers.live
      /\ timers'.io = timers.io \ {Head(list)} /\ timers'.device = timers.device
      /\ list' = Tail(list) /\ port' = port
  BY <1>1 DEF Replied, TimersType
<1>3. /\ Head(list) \in Timers /\ Tail(list) \in Seq(Timers)
      /\ ToSet(list) = {Head(list)} \cup ToSet(Tail(list))
      /\ IsInjective(list) => IsInjective(Tail(list)) /\ Head(list) \notin ToSet(Tail(list))
  BY <1>1, TailLists
<1>4. Head(list) \in timers.io
  BY <1>3 DEF RequestsInv
<1>5. RequestsInv'
  <2>. DEFINE P == ToSet(port)
              Q == ToSet(Tail(list))
              h == Head(list)
  <2>1. /\ timers.io \subseteq timers.live /\ timers.device \cup P \cup Q \cup {h} = timers.io
        /\ timers.device \cap P = {} /\ timers.device \cap Q = {} /\ P \cap Q = {}
        /\ h \notin timers.device /\ h \notin P /\ h \notin Q
        /\ IsInjective(port) /\ IsInjective(Tail(list))
    BY <1>3 DEF RequestsInv
  <2>2. /\ ToSet(port)' = P /\ ToSet(list)' = Q
        /\ IsInjective(port)' /\ IsInjective(list)'
    BY <1>2, <2>1
  <2>. HIDE DEF P, Q, h
  <2>3. /\ timers'.io \subseteq timers'.live
        /\ timers'.device \cup P \cup Q = timers'.io
        /\ timers'.device \cap P = {} /\ timers'.device \cap Q = {} /\ P \cap Q = {}
    BY <1>2, <2>1 DEF h
  <2>. QED  BY <2>2, <2>3 DEF RequestsInv
<1>. QED  BY <1>2, <1>1, <1>3, <1>4, <1>5

-----------------------------------------------------------------------------
(* Who owns the timers.                                                    *)

LEMMA OwnersSame ==
  ASSUME TimersOwned, timers'.live = timers.live, Running' = Running,
         UNCHANGED <<timeouts, pulltimer>>, Live \subseteq Live'
  PROVE  TimersOwned'
<1>1. UNCHANGED Present
  BY DEF Present
<1>. QED  BY <1>1 DEF TimersOwned

\* The frames G lose their timeouts, and frames that are no longer there are
\* among them.
LEMMA OwnersDropped ==
  ASSUME EventsAssumption, EventsTypeOK, TimersOwned, NEW G \in SUBSET Frames,
         timers'.live = timers.live \ UNION {timeouts[f] : f \in G},
         timeouts' = [f \in Frames |-> IF f \in G THEN {} ELSE timeouts[f]],
         pulltimer' = pulltimer, Running' = Running,
         \A f \in Frames \ G : f \in Live => f \in Live'
  PROVE  TimersOwned'
<1>. DEFINE lost == UNION {timeouts[f] : f \in G}
<1>1. timeouts \in [Frames -> SUBSET Timers] /\ pulltimer \in Timers \cup {Nobody}
  BY DEF EventsTypeOK
<1>2. /\ timers.live = Present \cup Running \cup ({pulltimer} \ {Nobody})
      /\ \A f \in Frames : timeouts[f] # {} => f \in Live
      /\ \A f, g \in Frames : f # g => timeouts[f] \cap timeouts[g] = {}
      /\ Running \cap Present = {}
      /\ pulltimer # Nobody => pulltimer \notin Present \cup Running
  BY DEF TimersOwned
<1>3. Present' = Present \ lost
  <2>1. Present' = UNION {timeouts'[f] : f \in Frames}
    BY DEF Present
  <2>2. ASSUME NEW x \in Present' PROVE x \in Present \ lost
    <3>1. PICK f \in Frames : x \in timeouts'[f]
      BY <2>1, <2>2
    <3>2. f \notin G /\ x \in timeouts[f]
      BY <3>1
    <3>3. \A g \in G : x \notin timeouts[g]
      BY <1>2, <3>2
    <3>. QED  BY <3>2, <3>3 DEF Present
  <2>3. ASSUME NEW x \in Present \ lost PROVE x \in Present'
    <3>1. PICK f \in Frames : x \in timeouts[f]
      BY <2>3 DEF Present
    <3>2. f \notin G
      BY <2>3, <3>1
    <3>3. x \in timeouts'[f]
      BY <3>1, <3>2
    <3>. QED  BY <2>1, <3>3
  <2>. QED  BY <2>2, <2>3
<1>4. lost \subseteq Present
  BY DEF Present
<1>5. timers'.live = Present' \cup Running' \cup ({pulltimer'} \ {Nobody})
  <2>1. timers'.live = timers.live \ lost
    OBVIOUS
  <2>. HIDE DEF lost
  <2>. QED  BY <1>2, <1>3, <1>4, <2>1
<1>6. \A f \in Frames : timeouts'[f] # {} => f \in Live'
  BY <1>2
<1>7. \A f, g \in Frames : f # g => timeouts'[f] \cap timeouts'[g] = {}
  BY <1>2
<1>8. Running' \cap Present' = {} /\ (pulltimer' # Nobody => pulltimer' \notin Present' \cup Running')
  BY <1>2, <1>3
<1>. QED  BY <1>5, <1>6, <1>7, <1>8 DEF TimersOwned

-----------------------------------------------------------------------------
(* Scripts and loads.                                                      *)

\* No frame of a copy is lost, nor a copy that is displayed or still to be
\* disposed of.
Kept ==
  /\ Attached \subseteq Attached'
  /\ Deferred \cup ({copy} \ {Nobody}) \subseteq Deferred' \cup {copy'}

LEMMA SaneKept ==
  ASSUME Kept, NEW i, NEW c, Sane(i, c)
  PROVE  Sane(i, c)'
BY DEF Kept, Sane

LEMMA CallsSame ==
  ASSUME CallsInv, calls' = calls, calls = <<>> \/ Kept,
         jdscope' \subseteq Bound' \cup {Top}, jdscope' # {} => copy' # Nobody,
         main' \in {"pull", "inputwindoc"} => calls = <<>>
  PROVE  CallsInv' /\ Running' = Running
<1>1. ASSUME NEW i \in DOMAIN calls PROVE Sane(i, calls[i])'
  <2>1. calls # <<>> /\ Kept /\ Sane(i, calls[i])
    BY <1>1 DEF CallsInv
  <2>2. PICK c : c = calls[i]
    OBVIOUS
  <2>3. Sane(i, c)'
    BY <2>1, <2>2, SaneKept
  <2>. QED  BY <2>2, <2>3 DEF Sane
<1>2. CallsInv'
  BY <1>1 DEF CallsInv
<1>. QED  BY <1>2 DEF Running

LEMMA CallsAlone ==
  ASSUME CallsInv, UNCHANGED <<jdscope, copy, within, queue, calls>>,
         main' \in {"pull", "inputwindoc"} => main' = main \/ calls = <<>>
  PROVE  CallsInv' /\ Running' = Running /\ Live' = Live
<1>1. UNCHANGED <<Attached, Deferred, Bound, Live>>
  BY DEF Attached, Deferred, Bound, Live
<1>2. /\ Kept /\ jdscope' \subseteq Bound' \cup {Top} /\ (jdscope' # {} => copy' # Nobody)
      /\ main' \in {"pull", "inputwindoc"} => calls = <<>>
  BY <1>1 DEF Kept, CallsInv
<1>. QED  BY <1>1, <1>2, CallsSame

LEMMA CallsPushed ==
  ASSUME CallsInv, calls \in Seq(CallsType), NEW c \in CallsType, calls' = Append(calls, c),
         Kept, Sane(Len(calls) + 1, c)', c.timeout = Nobody,
         jdscope' \subseteq Bound' \cup {Top}, jdscope' # {} => copy' # Nobody,
         main' \notin {"pull", "inputwindoc"}
  PROVE  CallsInv' /\ Running' = Running
<1>0. Len(calls) \in Nat /\ DOMAIN calls = 1..Len(calls)
  OBVIOUS
<1>1. /\ calls' \in Seq(CallsType) /\ Len(calls') = Len(calls) + 1
      /\ \A i \in 1..Len(calls) : calls'[i] = calls[i]
      /\ calls'[Len(calls) + 1] = c
  BY PushFacts
<1>2. DOMAIN calls' = 1..(Len(calls) + 1)
  BY <1>1
<1>3. \A i \in 1..(Len(calls) + 1) : i \in 1..Len(calls) \/ i = Len(calls) + 1
  BY <1>0
<1>4. ASSUME NEW i \in DOMAIN calls' PROVE Sane(i, calls[i])'
  <2>1. CASE i \in 1..Len(calls)
    <3>1. Sane(i, calls[i])
      BY <1>0, <2>1 DEF CallsInv
    <3>2. PICK d : d = calls[i]
      OBVIOUS
    <3>3. Sane(i, d)'
      BY <3>1, <3>2, SaneKept
    <3>. QED  BY <1>1, <2>1, <3>2, <3>3 DEF Sane
  <2>2. CASE i = Len(calls) + 1
    BY <1>1, <2>2 DEF Sane
  <2>. QED  BY <1>2, <1>3, <1>4, <2>1, <2>2
<1>5. CallsInv'
  BY <1>4 DEF CallsInv
<1>6. Running' = Running
  <2>1. ASSUME NEW x \in Running' PROVE x \in Running
    <3>1. PICK i \in DOMAIN calls' : x = calls'[i].timeout /\ x # Nobody
      BY <2>1 DEF Running
    <3>. QED  BY <1>0, <1>1, <1>2, <1>3, <3>1 DEF Running
  <2>2. ASSUME NEW x \in Running PROVE x \in Running'
    <3>1. PICK i \in DOMAIN calls : x = calls[i].timeout /\ x # Nobody
      BY <2>2 DEF Running
    <3>2. i \in DOMAIN calls' /\ calls'[i] = calls[i]
      BY <1>0, <1>1, <1>2
    <3>. QED  BY <3>1, <3>2 DEF Running
  <2>. QED  BY <2>1, <2>2
<1>. QED  BY <1>5, <1>6

\* A script or load that ends takes its timeout along.
LEMMA CallsPopped ==
  ASSUME CallsInv, calls \in Seq(CallsType), calls # <<>>, calls' = Front(calls),
         UNCHANGED <<jdscope, copy, within, queue, main>>
  PROVE  /\ CallsInv' /\ Running' = Running \ {Call.timeout}
         /\ calls' \in Seq(CallsType) /\ Len(calls') = Len(calls) - 1
         /\ Call \in CallsType
         /\ Call.timeout # Nobody => Call.timeout \in Running
<1>1. /\ Len(calls) \in Nat \ {0} /\ DOMAIN calls = 1..Len(calls)
      /\ Call \in CallsType /\ Call = calls[Len(calls)]
      /\ calls' \in Seq(CallsType) /\ Len(calls') = Len(calls) - 1
      /\ \A i \in 1..(Len(calls) - 1) : calls'[i] = calls[i]
  BY FrontLastFacts DEF Call
<1>2. DOMAIN calls' = 1..(Len(calls) - 1)
  BY <1>1
<1>3. ASSUME NEW i \in DOMAIN calls'
      PROVE  i \in DOMAIN calls /\ i # Len(calls) /\ calls'[i] = calls[i]
  BY <1>1, <1>2
<1>4. \A i \in DOMAIN calls : i # Len(calls) => i \in DOMAIN calls'
  BY <1>1, <1>2
<1>5. UNCHANGED <<Attached, Deferred, Bound, copy>>
  BY DEF Attached, Deferred, Bound
<1>6. CallsInv'
  <2>1. ASSUME NEW i \in DOMAIN calls' PROVE Sane(i, calls[i])'
    BY <1>3, <1>5 DEF CallsInv, Sane
  <2>2. main' \in {"pull", "inputwindoc"} => FALSE
    BY DEF CallsInv
  <2>. QED  BY <1>5, <2>1, <2>2 DEF CallsInv
<1>7. \A i \in DOMAIN calls : calls[i].timeout # Nobody => i = 1
  BY DEF CallsInv, Sane
<1>8. Running' = Running \ {Call.timeout}
  <2>1. ASSUME NEW x \in Running' PROVE x \in Running \ {Call.timeout}
    <3>1. PICK i \in DOMAIN calls' : x = calls'[i].timeout /\ x # Nobody
      BY <2>1 DEF Running
    <3>2. i \in DOMAIN calls /\ i # Len(calls) /\ x = calls[i].timeout
      BY <1>3, <3>1
    <3>3. i = 1 /\ calls[Len(calls)].timeout = Nobody
      BY <1>1, <1>7, <3>1, <3>2
    <3>. QED  BY <1>1, <3>1, <3>2, <3>3 DEF Running
  <2>2. ASSUME NEW x \in Running \ {Call.timeout} PROVE x \in Running'
    <3>1. PICK i \in DOMAIN calls : x = calls[i].timeout /\ x # Nobody
      BY <2>2 DEF Running
    <3>2. i # Len(calls)
      BY <1>1, <2>2, <3>1
    <3>. QED  BY <1>3, <1>4, <3>1, <3>2 DEF Running
  <2>. QED  BY <2>1, <2>2
<1>9. Call.timeout # Nobody => Call.timeout \in Running
  BY <1>1 DEF Running
<1>. QED  BY <1>1, <1>6, <1>8, <1>9

-----------------------------------------------------------------------------
(* Messages.                                                               *)

LEMMA MessagesSame ==
  ASSUME MessagesInv, UNCHANGED <<queue, copy, within>>
  PROVE  MessagesInv'
<1>1. UNCHANGED Live
  BY DEF Live
<1>. QED  BY <1>1 DEF MessagesInv, Sound

LEMMA LiveFrames ==
  ASSUME EventsAssumption, EventsTypeOK
  PROVE  Live \subseteq Frames /\ Live \cap Copies = {} /\ Bound \subseteq Kids
BY DEF EventsAssumption, Live, Frames, Bound

\* Frames are disposed of with their messages.
LEMMA DisposedFrames ==
  ASSUME EventsAssumption, EventsInv, NEW gone \in SUBSET Kids,
         NEW q \in Seq(Queued), NEW objects, Sound(q, objects), Disposeframes(gone, q)
  PROVE  /\ timers' \in TimersType /\ port' \in Seq(Timers) /\ list' \in Seq(Timers)
         /\ timeouts' \in [Frames -> SUBSET Timers]
         /\ RequestsInv'
         /\ timers'.live = timers.live \ UNION {timeouts[f] : f \in gone}
         /\ timeouts' = [f \in Frames |-> IF f \in gone THEN {} ELSE timeouts[f]]
         /\ queue' \in Seq(Queued) /\ Sound(queue', objects \ gone)
<1>1. /\ Disposetimers(UNION {timeouts[f] : f \in gone})
      /\ timeouts' = [f \in Frames |-> IF f \in gone THEN {} ELSE timeouts[f]]
      /\ queue' = Unqueue(q, gone)
  BY DEF Disposeframes
<1>2. timeouts' \in [Frames -> SUBSET Timers]
  BY <1>1 DEF EventsInv, EventsTypeOK
<1>3. Unqueue(q, gone) \in Seq(Queued) /\ Sound(Unqueue(q, gone), objects \ gone)
  BY SoundRemoved
<1>4. /\ timers' \in TimersType /\ port' \in Seq(Timers) /\ list' \in Seq(Timers)
      /\ RequestsInv'
      /\ timers'.live = timers.live \ UNION {timeouts[f] : f \in gone}
  BY <1>1, RequestsDisposed DEF EventsInv
<1>. QED  BY <1>1, <1>2, <1>3, <1>4

-----------------------------------------------------------------------------
(* Loading a document.                                                     *)

LEMMA NewdisplayMessages ==
  ASSUME EventsAssumption, EventsInv, NEW c \in Copies, NEW kept \in SUBSET Kids,
         Newdisplay(c, kept)
  PROVE  queue' \in Seq(Queued) /\ MessagesInv' /\ Kept
<1>0. /\ queue \in Seq(Queued) /\ copy \in Copies \cup {Nobody}
      /\ within \in [Kids -> Copies \cup {"spare", "none"}]
  BY DEF EventsInv, EventsTypeOK, Queued
<1>1. /\ c \notin Deferred \cup {copy} /\ copy' = c
      /\ kept \subseteq {k \in Kids : within[k] = "spare"}
      /\ within' = [k \in Kids |-> IF k \in kept THEN c ELSE within[k]]
      /\ queue' = IF copy = Nobody THEN queue
                  ELSE Append(queue, Message(copy, "deferdispose"))
  BY DEF Newdisplay, Deferdispose
<1>2. Live' = Live
  <2>1. ASSUME NEW k \in Kids PROVE within'[k] # "none" <=> within[k] # "none"
    BY <1>1 DEF EventsAssumption
  <2>. QED  BY <2>1 DEF Live
<1>. DEFINE objects == Live \cup (Copies \ {c})
<1>3. Sound(queue, Live \cup (Copies \ {copy}))
  BY DEF EventsInv, MessagesInv
<1>4. Live \cap Copies = {}
  BY LiveFrames DEF EventsInv
<1>5. ASSUME copy # Nobody, NEW i \in DOMAIN queue PROVE queue[i].object # copy
  <2>1. queue[i].object \in Live \cup (Copies \ {copy})
    BY <1>3 DEF Sound
  <2>. QED  BY <1>0, <1>4, <1>5, <2>1
<1>6. \A i \in DOMAIN queue : queue[i].object \in objects
  <2>. SUFFICES ASSUME NEW i \in DOMAIN queue PROVE queue[i].object \in objects
    OBVIOUS
  <2>1. queue[i].object \in Live \cup (Copies \ {copy})
    BY <1>3 DEF Sound
  <2>2. queue[i].object \in Copies => queue[i].object \in Deferred
    BY DEF Deferred
  <2>. QED  BY <1>1, <2>1, <2>2
<1>. HIDE DEF objects
<1>7. Sound(queue, objects)
  BY <1>0, <1>3, <1>6, SoundMore
<1>8. queue' \in Seq(Queued) /\ Sound(queue', objects)
  <2>1. CASE copy = Nobody
    BY <1>0, <1>1, <1>7, <2>1
  <2>2. CASE copy # Nobody
    <3>1. PICK m \in Queued : m = Message(copy, "deferdispose")
      BY <1>0, <2>2 DEF Queued, Message
    <3>2. m.object = copy /\ m.id = "deferdispose" /\ copy \in Copies /\ copy \in objects
      BY <1>0, <1>1, <2>2, <3>1 DEF Message, objects
    <3>3. \A i \in DOMAIN queue : queue[i].object # m.object
      BY <1>5, <2>2, <3>2
    <3>4. Append(queue, m) \in Seq(Queued) /\ Sound(Append(queue, m), objects)
      BY <1>0, <1>7, <3>2, <3>3, SoundAppend
    <3>. QED  BY <1>1, <2>2, <3>1, <3>4
  <2>. QED  BY <2>1, <2>2
<1>9. MessagesInv'
  BY <1>1, <1>2, <1>8 DEF MessagesInv, objects
<1>10. Attached \subseteq Attached'
  BY <1>0, <1>1 DEF Attached, EventsAssumption
<1>11. Deferred \cup ({copy} \ {Nobody}) \subseteq Deferred'
  <2>1. CASE copy = Nobody
    BY <1>1, <2>1 DEF Deferred
  <2>2. CASE copy # Nobody
    <3>1. PICK m \in Queued : m = Message(copy, "deferdispose")
      BY <1>0, <2>2 DEF Queued, Message
    <3>2. m.object = copy /\ copy \in Copies /\ queue' = Append(queue, m)
      BY <1>0, <1>1, <2>2, <3>1 DEF Message
    <3>3. /\ Len(queue) \in Nat /\ DOMAIN queue = 1..Len(queue)
          /\ DOMAIN queue' = 1..(Len(queue) + 1) /\ queue'[Len(queue) + 1] = m
          /\ \A i \in 1..Len(queue) : queue'[i] = queue[i]
      BY <1>0, <3>2, PushFacts
    <3>4. \A i \in DOMAIN queue : i \in DOMAIN queue' /\ queue'[i] = queue[i]
      BY <3>3
    <3>5. Len(queue) + 1 \in DOMAIN queue'
      BY <3>3
    <3>. QED  BY <3>2, <3>3, <3>4, <3>5 DEF Deferred
  <2>. QED  BY <2>1, <2>2
<1>. QED  BY <1>8, <1>9, <1>10, <1>11 DEF Kept

LEMMA DisplayInv ==
  ASSUME EventsAssumption, EventsInv, NEW f \in Bound \cup {Top}, Replacedoc(f),
         pulltimer' = pulltimer
  PROVE  /\ timers' \in TimersType /\ port' \in Seq(Timers) /\ list' \in Seq(Timers)
         /\ timeouts' \in [Frames -> SUBSET Timers]
         /\ jdscope' \subseteq Frames /\ copy' \in Copies
         /\ within' \in [Kids -> Copies \cup {"spare", "none"}]
         /\ queue' \in Seq(Queued)
         /\ RequestsInv' /\ MessagesInv' /\ Kept /\ jdscope' \subseteq Bound' \cup {Top}
         /\ Running' = Running => TimersOwned'
<1>0. /\ timers \in TimersType /\ port \in Seq(Timers) /\ list \in Seq(Timers)
      /\ timeouts \in [Frames -> SUBSET Timers]
      /\ jdscope \subseteq Frames /\ copy \in Copies \cup {Nobody}
      /\ within \in [Kids -> Copies \cup {"spare", "none"}]
      /\ queue \in Seq(Queued)
      /\ f \in Frames /\ Bound \subseteq Frames /\ Top \in Frames
      /\ EventsTypeOK /\ RequestsInv /\ TimersOwned /\ CallsInv /\ MessagesInv
  BY DEF EventsInv, EventsTypeOK, Queued, TimersType, Bound, Frames
<1>1. CASE /\ f = Top
           /\ \E c \in Copies, kept \in SUBSET Kids : Newdisplay(c, kept)
           /\ jdscope' = jdscope \ (Bound \cup {Top})
  <2>1. PICK c \in Copies, kept \in SUBSET Kids : Newdisplay(c, kept)
    BY <1>1
  <2>. DEFINE G == {Top} \cup Bound
              lost == UNION {timeouts[g] : g \in G}
  <2>2. /\ Disposetimers(lost)
        /\ timeouts' = [g \in Frames |-> IF g \in G THEN {} ELSE timeouts[g]]
        /\ within' = [k \in Kids |-> IF k \in kept THEN c ELSE within[k]]
        /\ copy' = c
    BY <2>1 DEF Newdisplay
  <2>3. /\ timers' \in TimersType /\ port' \in Seq(Timers) /\ list' \in Seq(Timers)
        /\ timers'.live = timers.live \ lost
        /\ RequestsInv'
    <3>. HIDE DEF lost
    <3>. QED  BY <1>0, <2>2, RequestsDisposed
  <2>4. queue' \in Seq(Queued) /\ MessagesInv' /\ Kept
    BY <2>1, NewdisplayMessages
  <2>5. jdscope' = {}
    BY <1>0, <1>1 DEF CallsInv
  <2>6. /\ timeouts' \in [Frames -> SUBSET Timers]
        /\ within' \in [Kids -> Copies \cup {"spare", "none"}]
        /\ copy' \in Copies
    BY <1>0, <2>2
  <2>7. ASSUME Running' = Running PROVE TimersOwned'
    <3>1. G \in SUBSET Frames
      BY <1>0
    <3>2. \A g \in Frames \ G : g \in Live => g \in Live'
      BY <1>0, <2>2 DEF Live, EventsAssumption
    <3>. HIDE DEF G
    <3>. QED  BY <1>0, <2>2, <2>3, <2>7, <3>1, <3>2, OwnersDropped
  <2>. QED  BY <2>3, <2>4, <2>5, <2>6, <2>7
<1>2. CASE /\ f \in Bound
           /\ Disposetimers(timeouts[f]) /\ timeouts' = [timeouts EXCEPT ![f] = {}]
           /\ jdscope' = jdscope \ {f} /\ UNCHANGED <<within, copy, queue>>
  <2>1. /\ timers' \in TimersType /\ port' \in Seq(Timers) /\ list' \in Seq(Timers)
        /\ timers'.live = timers.live \ timeouts[f]
        /\ RequestsInv'
    BY <1>0, <1>2, RequestsDisposed
  <2>2. timeouts' \in [Frames -> SUBSET Timers] /\ jdscope' \subseteq Frames
    BY <1>0, <1>2
  <2>3. copy' \in Copies
    BY <1>0, <1>2 DEF Bound
  <2>4. MessagesInv'
    BY <1>0, <1>2, MessagesSame
  <2>5. UNCHANGED <<Bound, Attached, Deferred, Live>>
    BY <1>2 DEF Bound, Attached, Deferred, Live
  <2>6. Kept /\ jdscope' \subseteq Bound' \cup {Top}
    BY <1>0, <1>2, <2>5 DEF Kept, CallsInv
  <2>7. ASSUME Running' = Running PROVE TimersOwned'
    <3>1. PICK G \in SUBSET Frames : G = {f}
      BY <1>0
    <3>2. UNION {timeouts[g] : g \in G} = timeouts[f]
      BY <3>1
    <3>3. timeouts' = [g \in Frames |-> IF g \in G THEN {} ELSE timeouts[g]]
      BY <1>0, <1>2, <3>1
    <3>. QED  BY <1>0, <2>1, <2>5, <2>7, <3>2, <3>3, OwnersDropped
  <2>. QED  BY <1>0, <1>2, <2>1, <2>2, <2>3, <2>4, <2>6, <2>7
<1>. QED  BY <1>1, <1>2 DEF Replacedoc

\* The document of a fetch is displayed while main waits.
LEMMA DisplayedInv ==
  ASSUME EventsAssumption, EventsInv, Displayed
  PROVE  EventsInv'
<1>0. EventsTypeOK /\ CallsInv
  BY DEF EventsInv
<1>1. PICK f \in Bound \cup {Top} : Replacedoc(f)
  BY DEF Displayed
<1>2. main = "wait" /\ calls = <<>> /\ UNCHANGED <<pulltimer, pullurl, main, calls>>
  BY DEF Displayed, Waiting
<1>3. /\ timers' \in TimersType /\ port' \in Seq(Timers) /\ list' \in Seq(Timers)
      /\ timeouts' \in [Frames -> SUBSET Timers]
      /\ jdscope' \subseteq Frames /\ copy' \in Copies
      /\ within' \in [Kids -> Copies \cup {"spare", "none"}]
      /\ queue' \in Seq(Queued)
      /\ RequestsInv' /\ MessagesInv' /\ Kept /\ jdscope' \subseteq Bound' \cup {Top}
      /\ Running' = Running => TimersOwned'
  BY <1>1, <1>2, DisplayInv
<1>4. CallsInv' /\ Running' = Running
  <2>1. copy' # Nobody
    BY <1>3 DEF EventsAssumption
  <2>. QED  BY <1>0, <1>2, <1>3, <2>1, CallsSame
<1>5. EventsTypeOK'
  BY <1>0, <1>2, <1>3 DEF EventsTypeOK, Queued, TimersType
<1>. QED  BY <1>3, <1>4, <1>5 DEF EventsInv

\* A document is loaded, by the user, by main or by a script.
LEMMA LoadInv ==
  ASSUME EventsAssumption, EventsInv, NEW f \in Bound \cup {Top}, Inputwindoc(f),
         pulltimer' = pulltimer, main' \in {"wait", "timers", "messages"}
  PROVE  EventsInv'
<1>0. /\ calls \in Seq(CallsType) /\ Len(calls) \in Nat /\ Len(calls) <= MaxCalls
      /\ MaxCalls \in Nat /\ pullurl \in BOOLEAN
      /\ EventsTypeOK /\ RequestsInv /\ TimersOwned /\ CallsInv /\ MessagesInv
  BY DEF EventsInv, EventsTypeOK, CallsType, EventsAssumption
<1>1. CASE /\ pullurl' \in {pullurl, pullurl /\ f # Top}
           /\ UNCHANGED <<timerVars, timeouts, jdscope, copy, within, queue, calls>>
  <2>1. EventsTypeOK'
    BY <1>0, <1>1 DEF EventsTypeOK, timerVars
  <2>2. RequestsInv' /\ MessagesInv'
    BY <1>0, <1>1, RequestsSame, MessagesSame
  <2>3. UNCHANGED <<Bound, Attached, Deferred, Live>>
    BY <1>1 DEF Bound, Attached, Deferred, Live
  <2>4. CallsInv' /\ Running' = Running
    <3>1. jdscope' \subseteq Bound' \cup {Top} /\ (jdscope' # {} => copy' # Nobody) /\ Kept
      BY <1>0, <1>1, <2>3 DEF CallsInv, Kept
    <3>. QED  BY <1>0, <1>1, <3>1, CallsSame
  <2>5. TimersOwned'
    BY <1>0, <1>1, <2>3, <2>4, OwnersSame DEF timerVars
  <2>. QED  BY <2>1, <2>2, <2>4, <2>5 DEF EventsInv
<1>2. CASE /\ Len(calls) < MaxCalls /\ Replacedoc(f)
           /\ pullurl' = (pullurl /\ f # Top) /\ calls' = Append(calls, Loading(copy'))
  <2>1. /\ timers' \in TimersType /\ port' \in Seq(Timers) /\ list' \in Seq(Timers)
        /\ timeouts' \in [Frames -> SUBSET Timers]
        /\ jdscope' \subseteq Frames /\ copy' \in Copies
        /\ within' \in [Kids -> Copies \cup {"spare", "none"}]
        /\ queue' \in Seq(Queued)
        /\ RequestsInv' /\ MessagesInv' /\ Kept /\ jdscope' \subseteq Bound' \cup {Top}
        /\ Running' = Running => TimersOwned'
    BY <1>2, DisplayInv
  <2>2. copy' # Nobody
    BY <2>1 DEF EventsAssumption
  <2>3. PICK d : d = copy'
    OBVIOUS
  <2>4. PICK c \in CallsType : c = Loading(d)
    BY <2>1, <2>3 DEF Loading, CallsType
  <2>5. c.frame = Nobody /\ c.timeout = Nobody /\ c.doc = copy'
    BY <2>3, <2>4 DEF Loading
  <2>6. Sane(Len(calls) + 1, c)'
    BY <2>2, <2>5 DEF Sane
  <2>7. CallsInv' /\ Running' = Running
    BY <1>0, <1>2, <2>1, <2>2, <2>3, <2>4, <2>5, <2>6, CallsPushed
  <2>8. calls' \in Seq(CallsType) /\ Len(calls') <= MaxCalls
    <3>1. calls' = Append(calls, c)
      BY <1>2, <2>3, <2>4
    <3>. QED  BY <1>0, <1>2, <3>1, PushFacts
  <2>9. EventsTypeOK'
    BY <1>0, <1>2, <2>1, <2>8 DEF EventsTypeOK, Queued, TimersType, CallsType
  <2>. QED  BY <2>1, <2>7, <2>9 DEF EventsInv
<1>. QED  BY <1>1, <1>2 DEF Inputwindoc

LEMMA FollowedInv ==
  ASSUME EventsAssumption, EventsInv, Followed
  PROVE  EventsInv'
<1>1. PICK f \in Bound \cup {Top} : Inputwindoc(f)
  BY DEF Followed
<1>2. main' = "wait" /\ pulltimer' = pulltimer
  BY DEF Followed, Waiting
<1>. QED  BY <1>1, <1>2, LoadInv

\* A script loads another document, perhaps into its own frame.
LEMMA MethodopenInv ==
  ASSUME EventsAssumption, EventsInv, Methodopen
  PROVE  EventsInv'
<1>1. PICK f \in Bound \cup {Top} : Inputwindoc(f)
  BY DEF Methodopen
<1>2. Scripting /\ UNCHANGED <<pulltimer, main>>
  BY DEF Methodopen
<1>3. main' \in {"wait", "timers", "messages"}
  BY <1>2 DEF EventsInv, EventsTypeOK, CallsInv, Scripting
<1>. QED  BY <1>1, <1>2, <1>3, LoadInv

-----------------------------------------------------------------------------
(* The other steps.                                                        *)

LEMMA ExpireInv ==
  ASSUME EventsAssumption, EventsInv, NEW t \in Timers, Expire(t)
  PROVE  EventsInv'
<1>0. /\ timers \in TimersType /\ port \in Seq(Timers) /\ list \in Seq(Timers)
      /\ EventsTypeOK /\ RequestsInv /\ TimersOwned /\ CallsInv /\ MessagesInv
  BY DEF EventsInv, EventsTypeOK, TimersType
<1>1. /\ t \in timers.device /\ port' = Append(port, t)
      /\ UNCHANGED <<list, timeouts, pulltimer, pullurl, jdscope, copy, within, queue,
                     main, calls>>
      /\ timers' \in TimersType /\ timers'.live = timers.live /\ timers'.io = timers.io
      /\ timers'.device = timers.device \ {t}
  BY <1>0 DEF Expire, TimersType
<1>2. /\ Append(port, t) \in Seq(Timers)
      /\ ToSet(Append(port, t)) = ToSet(port) \cup {t}
      /\ IsInjective(port) /\ t \notin ToSet(port) => IsInjective(Append(port, t))
  BY <1>0, AppendLists
<1>3. RequestsInv'
  <2>. DEFINE P == ToSet(port)
              Q == ToSet(list)
  <2>1. /\ timers.io \subseteq timers.live /\ timers.device \cup P \cup Q = timers.io
        /\ timers.device \cap P = {} /\ timers.device \cap Q = {} /\ P \cap Q = {}
        /\ IsInjective(port) /\ IsInjective(list)
    BY <1>0 DEF RequestsInv
  <2>2. /\ P' = P \cup {t} /\ Q' = Q
        /\ IsInjective(port)' /\ IsInjective(list)'
    BY <1>1, <1>2, <2>1
  <2>. HIDE DEF P, Q
  <2>3. /\ timers'.io \subseteq timers'.live
        /\ timers'.device \cup P' \cup Q' = timers'.io
        /\ timers'.device \cap P' = {} /\ timers'.device \cap Q' = {} /\ P' \cap Q' = {}
    BY <1>1, <2>1, <2>2
  <2>. QED  BY <2>2, <2>3 DEF RequestsInv, P, Q
<1>4. EventsTypeOK'
  BY <1>0, <1>1, <1>2 DEF EventsTypeOK, TimersType
<1>5. TimersOwned' /\ CallsInv'
  BY <1>0, <1>1, CallsAlone, OwnersSame
<1>6. MessagesInv'
  BY <1>0, <1>1, MessagesSame
<1>. QED  BY <1>3, <1>4, <1>5, <1>6 DEF EventsInv

LEMMA SetclientpullInv ==
  ASSUME EventsAssumption, EventsInv, Setclientpull
  PROVE  EventsInv'
<1>0. /\ pulltimer \in Timers \cup {Nobody}
      /\ EventsTypeOK /\ RequestsInv /\ TimersOwned /\ CallsInv /\ MessagesInv
  BY DEF EventsInv, EventsTypeOK
<1>1. PICK t \in (IF pulltimer = Nobody THEN Timers \ timers.live ELSE {pulltimer}) :
         Settimer(t) /\ pulltimer' = t
  BY DEF Setclientpull
<1>2. t \in Timers /\ (pulltimer = Nobody => t \notin timers.live) /\ (pulltimer # Nobody => t = pulltimer)
  BY <1>0, <1>1
<1>3. pullurl' = TRUE /\ UNCHANGED <<timeouts, jdscope, copy, within, queue, main, calls>>
  BY DEF Setclientpull
<1>4. /\ timers' \in TimersType /\ port' \in Seq(Timers) /\ list' \in Seq(Timers)
      /\ timers'.live = timers.live \cup {t} /\ RequestsInv'
  BY <1>0, <1>1, <1>2, RequestsSet
<1>5. EventsTypeOK'
  BY <1>0, <1>1, <1>2, <1>3, <1>4 DEF EventsTypeOK, TimersType
<1>6. UNCHANGED <<Present, Live>>
  BY <1>3 DEF Present, Live
<1>7. CallsInv' /\ Running' = Running
  BY <1>0, <1>3, CallsAlone
<1>8. TimersOwned'
  <2>1. /\ timers.live = Present \cup Running \cup ({pulltimer} \ {Nobody})
        /\ pulltimer # Nobody => pulltimer \notin Present \cup Running
    BY <1>0 DEF TimersOwned
  <2>2. /\ t # Nobody /\ t \notin Present \cup Running
        /\ timers'.live = Present \cup Running \cup {t}
    BY <1>2, <1>4, <2>1 DEF EventsAssumption
  <2>. QED  BY <1>0, <1>1, <1>3, <1>6, <1>7, <2>2 DEF TimersOwned
<1>9. MessagesInv'
  BY <1>0, <1>3, MessagesSame
<1>. QED  BY <1>4, <1>5, <1>7, <1>8, <1>9 DEF EventsInv

\* Steps that leave the timers and who owns them, and the messages, alone.
LEMMA QuietInv ==
  ASSUME EventsInv,
         UNCHANGED <<timerVars, timeouts, pulltimer, jdscope, copy, within, queue, calls>>,
         pullurl' \in BOOLEAN,
         main' \in {"wait", "timers", "pull", "messages", "inputwindoc"},
         main' \in {"pull", "inputwindoc"} => calls = <<>>
  PROVE  EventsInv'
<1>1. EventsTypeOK'
  BY DEF EventsInv, EventsTypeOK, timerVars
<1>2. RequestsInv' /\ MessagesInv'
  BY RequestsSame, MessagesSame DEF EventsInv
<1>3. TimersOwned' /\ CallsInv'
  <2>1. UNCHANGED Live /\ timers'.live = timers.live
    BY DEF Live, timerVars
  <2>. QED  BY <2>1, CallsAlone, OwnersSame DEF EventsInv
<1>. QED  BY <1>1, <1>2, <1>3 DEF EventsInv

LEMMA RoundEndsInv ==
  ASSUME EventsInv, RoundEnds
  PROVE  EventsInv'
<1>1. /\ UNCHANGED <<timerVars, timeouts, pulltimer, jdscope, copy, within, queue, calls>>
      /\ pullurl' \in BOOLEAN /\ main' = "wait"
  BY DEF RoundEnds, EventsInv, EventsTypeOK
<1>. QED  BY <1>1, QuietInv

\* Subframes that are gone, and their timeouts and messages with them.
LEMMA ReloadInv ==
  ASSUME EventsAssumption, EventsInv, Reloaddocument
  PROVE  EventsInv'
<1>0. /\ queue \in Seq(Queued) /\ within \in [Kids -> Copies \cup {"spare", "none"}]
      /\ jdscope \subseteq Frames /\ Bound \in SUBSET Kids /\ Bound \in SUBSET Frames
      /\ EventsTypeOK /\ RequestsInv /\ TimersOwned /\ CallsInv /\ MessagesInv
  BY DEF EventsInv, EventsTypeOK, Queued, Bound, Frames
<1>1. /\ main = "wait" /\ calls = <<>> /\ Disposeframes(Bound, queue)
      /\ within' = [k \in Kids |-> IF k \in Bound THEN "none" ELSE within[k]]
      /\ jdscope' = jdscope \ (Bound \cup {Top})
      /\ UNCHANGED <<pulltimer, pullurl, copy, main, calls>>
  BY DEF Reloaddocument, Waiting
<1>. DEFINE objects == Live \cup (Copies \ {copy})
<1>2. Sound(queue, objects)
  BY <1>0 DEF MessagesInv
<1>3. /\ timers' \in TimersType /\ port' \in Seq(Timers) /\ list' \in Seq(Timers)
      /\ timeouts' \in [Frames -> SUBSET Timers]
      /\ RequestsInv'
      /\ timers'.live = timers.live \ UNION {timeouts[f] : f \in Bound}
      /\ timeouts' = [f \in Frames |-> IF f \in Bound THEN {} ELSE timeouts[f]]
      /\ queue' \in Seq(Queued) /\ Sound(queue', objects \ Bound)
  <2>. HIDE DEF objects
  <2>. QED  BY <1>0, <1>1, <1>2, DisposedFrames
<1>4. within' \in [Kids -> Copies \cup {"spare", "none"}]
  BY <1>0, <1>1
<1>5. EventsTypeOK'
  BY <1>0, <1>1, <1>3, <1>4 DEF EventsTypeOK, TimersType, Queued
<1>6. \A k \in Kids : k \notin Bound => (within'[k] # "none" <=> within[k] # "none")
  BY <1>0, <1>1
<1>7. CallsInv' /\ Running' = Running
  <2>1. jdscope' = {}
    BY <1>0, <1>1 DEF CallsInv
  <2>. QED  BY <1>0, <1>1, <2>1, CallsSame
<1>8. TimersOwned'
  <2>1. \A f \in Frames \ Bound : f \in Live => f \in Live'
    BY <1>6 DEF Live
  <2>. QED  BY <1>0, <1>1, <1>3, <1>7, <2>1, OwnersDropped
<1>9. MessagesInv'
  <2>1. \A x : x \in objects \ Bound => x \in (Live \cup (Copies \ {copy}))'
    BY <1>1, <1>6 DEF Live
  <2>. HIDE DEF objects
  <2>2. Sound(queue', (Live \cup (Copies \ {copy}))')
    BY <1>3, <2>1, SoundMore
  <2>. QED  BY <2>2 DEF MessagesInv
<1>. QED  BY <1>3, <1>5, <1>7, <1>8, <1>9 DEF EventsInv

\* Also while a document is read: none of the frames that go with a spare
\* document is a script's.
LEMMA FlushInv ==
  ASSUME EventsAssumption, EventsInv, Flushspare
  PROVE  EventsInv'
<1>. DEFINE gone == {k \in Kids : within[k] = "spare"}
            objects == Live \cup (Copies \ {copy})
<1>0. /\ queue \in Seq(Queued) /\ within \in [Kids -> Copies \cup {"spare", "none"}]
      /\ gone \in SUBSET Kids /\ gone \in SUBSET Frames /\ copy \in Copies \cup {Nobody}
      /\ EventsTypeOK /\ RequestsInv /\ TimersOwned /\ CallsInv /\ MessagesInv
  BY DEF EventsInv, EventsTypeOK, Queued, Frames
<1>1. /\ Disposeframes(gone, queue)
      /\ within' = [k \in Kids |-> IF k \in gone THEN "none" ELSE within[k]]
      /\ UNCHANGED <<pulltimer, pullurl, jdscope, copy, main, calls>>
  BY DEF Flushspare
<1>2. Sound(queue, objects)
  BY <1>0 DEF MessagesInv
<1>3. /\ timers' \in TimersType /\ port' \in Seq(Timers) /\ list' \in Seq(Timers)
      /\ timeouts' \in [Frames -> SUBSET Timers]
      /\ RequestsInv'
      /\ timers'.live = timers.live \ UNION {timeouts[f] : f \in gone}
      /\ timeouts' = [f \in Frames |-> IF f \in gone THEN {} ELSE timeouts[f]]
      /\ queue' \in Seq(Queued) /\ Sound(queue', objects \ gone)
  <2>. HIDE DEF objects, gone
  <2>. QED  BY <1>0, <1>1, <1>2, DisposedFrames
<1>4. within' \in [Kids -> Copies \cup {"spare", "none"}]
  BY <1>0, <1>1
<1>5. EventsTypeOK'
  BY <1>0, <1>1, <1>3, <1>4 DEF EventsTypeOK, TimersType, Queued
<1>6. \A k \in Kids : k \notin gone => within'[k] = within[k]
  <2>. HIDE DEF gone
  <2>. QED  BY <1>1
<1>7. Kept
  <2>1. Attached \subseteq Attached'
    BY <1>6 DEF Attached
  <2>2. ASSUME NEW x \in Deferred PROVE x \in Deferred'
    <3>1. PICK p \in DOMAIN queue : queue[p].object = x /\ x \in Copies
      BY DEF Deferred
    <3>2. queue' = Unqueue(queue, gone) /\ gone \cap Copies = {}
      BY <1>0, <1>1 DEF Disposeframes, Frames, EventsAssumption
    <3>. HIDE DEF gone
    <3>3. \E i \in DOMAIN queue' : queue'[i].object = x
      BY <1>0, <3>1, <3>2, UnqueuedCopies
    <3>. QED  BY <3>1, <3>3 DEF Deferred
  <2>. QED  BY <1>1, <2>1, <2>2 DEF Kept
<1>8. CallsInv' /\ Running' = Running
  <2>1. Bound \subseteq Bound'
    <3>1. ASSUME NEW k \in Bound PROVE k \in Bound'
      <4>1. copy \in Copies /\ within[k] = copy /\ k \in Kids
        BY <1>0 DEF Bound
      <4>2. within'[k] = copy
        BY <1>6, <4>1 DEF EventsAssumption
      <4>. QED  BY <1>1, <4>1, <4>2 DEF Bound
    <3>. QED  BY <3>1
  <2>2. /\ jdscope' \subseteq Bound' \cup {Top} /\ (jdscope' # {} => copy' # Nobody)
        /\ main' \in {"pull", "inputwindoc"} => calls = <<>>
    BY <1>0, <1>1, <2>1 DEF CallsInv
  <2>. QED  BY <1>0, <1>1, <1>7, <2>2, CallsSame
<1>9. TimersOwned'
  <2>1. \A f \in Frames \ gone : f \in Live => f \in Live'
    BY <1>6 DEF Live
  <2>. HIDE DEF gone
  <2>. QED  BY <1>0, <1>1, <1>3, <1>8, <2>1, OwnersDropped
<1>10. MessagesInv'
  <2>1. \A x : x \in objects \ gone => x \in (Live \cup (Copies \ {copy}))'
    <3>. HIDE DEF gone
    <3>. QED  BY <1>1, <1>6 DEF Live
  <2>. HIDE DEF objects
  <2>2. Sound(queue', (Live \cup (Copies \ {copy}))')
    BY <1>3, <2>1, SoundMore
  <2>. QED  BY <2>2 DEF MessagesInv
<1>. QED  BY <1>3, <1>5, <1>8, <1>9, <1>10 DEF EventsInv

LEMMA JscancelInv ==
  ASSUME EventsAssumption, EventsInv, Jscancel
  PROVE  EventsInv'
<1>. DEFINE G == {Top} \cup Bound
            lost == UNION {timeouts[f] : f \in G}
<1>0. /\ timeouts \in [Frames -> SUBSET Timers] /\ G \in SUBSET Frames
      /\ EventsTypeOK /\ RequestsInv /\ TimersOwned /\ CallsInv /\ MessagesInv
  BY DEF EventsInv, EventsTypeOK, Bound, Frames
<1>1. /\ Disposetimers(lost)
      /\ timeouts' = [f \in Frames |-> IF f \in G THEN {} ELSE timeouts[f]]
      /\ UNCHANGED <<pulltimer, pullurl, jdscope, copy, within, queue, main, calls>>
  BY DEF Jscancel
<1>2. /\ timers' \in TimersType /\ port' \in Seq(Timers) /\ list' \in Seq(Timers)
      /\ timers'.live = timers.live \ lost /\ RequestsInv'
  <2>. HIDE DEF lost
  <2>. QED  BY <1>0, <1>1, RequestsDisposed
<1>3. EventsTypeOK'
  BY <1>0, <1>1, <1>2 DEF EventsTypeOK, TimersType
<1>4. CallsInv' /\ Running' = Running
  BY <1>0, <1>1, CallsAlone
<1>5. TimersOwned'
  <2>1. \A f \in Frames \ G : f \in Live => f \in Live'
    BY <1>1 DEF Live
  <2>. HIDE DEF G
  <2>. QED  BY <1>0, <1>1, <1>2, <1>4, <2>1, OwnersDropped
<1>6. MessagesInv'
  BY <1>0, <1>1, MessagesSame
<1>. QED  BY <1>2, <1>3, <1>4, <1>5, <1>6 DEF EventsInv

LEMMA NewframeInv ==
  ASSUME EventsAssumption, EventsInv, NEW k \in Kids, Newframe(k)
  PROVE  EventsInv'
<1>0. /\ queue \in Seq(Queued) /\ within \in [Kids -> Copies \cup {"spare", "none"}]
      /\ copy \in Copies \cup {Nobody}
      /\ EventsTypeOK /\ RequestsInv /\ TimersOwned /\ CallsInv /\ MessagesInv
  BY DEF EventsInv, EventsTypeOK, Queued
<1>1. /\ within[k] = "none"
      /\ UNCHANGED <<timerVars, timeouts, pulltimer, pullurl, jdscope, copy, queue, main,
                     calls>>
  BY DEF Newframe
<1>2. PICK c \in Copies : within' = [within EXCEPT ![k] = c]
  <2>1. CASE Waiting /\ copy # Nobody /\ within' = [within EXCEPT ![k] = copy]
    BY <1>0, <2>1
  <2>2. CASE Parsing /\ within' = [within EXCEPT ![k] = Call.doc]
    <3>1. calls \in Seq(CallsType) /\ calls # <<>>
      BY <1>0, <2>2 DEF EventsTypeOK, CallsType, Parsing
    <3>2. /\ Len(calls) \in Nat \ {0} /\ Call \in CallsType /\ Call = calls[Len(calls)]
          /\ DOMAIN calls = 1..Len(calls)
      BY <3>1, FrontLastFacts DEF Call
    <3>3. Len(calls) \in DOMAIN calls
      BY <3>2
    <3>4. Sane(Len(calls), Call)
      BY <1>0, <3>2, <3>3 DEF CallsInv
    <3>5. Call.doc \in Copies
      BY <3>2, <3>4 DEF Sane, CallsType
    <3>. QED  BY <2>2, <3>5
  <2>. QED  BY <2>1, <2>2 DEF Newframe
<1>3. /\ within' \in [Kids -> Copies \cup {"spare", "none"}] /\ within'[k] \notin {"spare", "none"}
      /\ \A i \in Kids : i # k => within'[i] = within[i]
  BY <1>0, <1>2 DEF EventsAssumption
<1>4. EventsTypeOK'
  BY <1>0, <1>1, <1>3 DEF EventsTypeOK, timerVars
<1>5. RequestsInv'
  BY <1>0, <1>1, RequestsSame
<1>6. Live \subseteq Live' /\ Attached \subseteq Attached' /\ Bound \subseteq Bound'
      /\ Deferred' = Deferred
  BY <1>0, <1>1, <1>3 DEF Live, Attached, Bound, Deferred, EventsAssumption
<1>7. CallsInv' /\ Running' = Running
  <2>1. /\ jdscope' \subseteq Bound' \cup {Top} /\ (jdscope' # {} => copy' # Nobody)
        /\ main' \in {"pull", "inputwindoc"} => calls = <<>>
    BY <1>0, <1>1, <1>6 DEF CallsInv
  <2>2. Kept
    BY <1>1, <1>6 DEF Kept
  <2>. QED  BY <1>0, <1>1, <2>1, <2>2, CallsSame
<1>8. TimersOwned'
  BY <1>0, <1>1, <1>6, <1>7, OwnersSame DEF timerVars
<1>9. MessagesInv'
  <2>1. Sound(queue, Live' \cup (Copies \ {copy}))
    <3>1. Sound(queue, Live \cup (Copies \ {copy}))
      BY <1>0 DEF MessagesInv
    <3>. QED  BY <1>0, <1>6, <3>1, SoundMore
  <2>. QED  BY <1>1, <2>1 DEF MessagesInv, Sound
<1>. QED  BY <1>4, <1>5, <1>7, <1>8, <1>9 DEF EventsInv

LEMMA RunInv ==
  ASSUME EventsAssumption, EventsInv, NEW f \in Frames, Runjavascript(f)
  PROVE  EventsInv'
<1>0. /\ jdscope \subseteq Frames /\ copy \in Copies \cup {Nobody}
      /\ calls \in Seq(CallsType) /\ Len(calls) \in Nat /\ MaxCalls \in Nat
      /\ EventsTypeOK /\ RequestsInv /\ TimersOwned /\ CallsInv /\ MessagesInv
  BY DEF EventsInv, EventsTypeOK, CallsType, EventsAssumption
<1>1. /\ copy # Nobody /\ f \in Bound \cup {Top} /\ Len(calls) < MaxCalls
      /\ jdscope' = jdscope \cup {f} /\ calls' = Append(calls, Script(f, Nobody))
      /\ UNCHANGED <<timerVars, timeouts, pulltimer, pullurl, copy, within, queue, main>>
  BY DEF Runjavascript, HasFrame
<1>2. UNCHANGED <<Attached, Deferred, Bound, Live>>
  BY <1>1 DEF Attached, Deferred, Bound, Live
<1>3. main' \notin {"pull", "inputwindoc"}
  BY <1>0, <1>1 DEF Runjavascript, HasFrame, Waiting, Parsing, CallsInv
<1>4. PICK c \in CallsType : c = Script(f, Nobody)
  BY <1>0 DEF Script, CallsType
<1>5. c.frame = f /\ c.timeout = Nobody /\ c.doc = copy
  BY <1>4 DEF Script
<1>6. f \in Attached \cup {Top}
  BY <1>0, <1>1 DEF Bound, Attached, EventsAssumption
<1>7. CallsInv' /\ Running' = Running
  <2>1. Sane(Len(calls) + 1, c)'
    BY <1>1, <1>2, <1>5, <1>6 DEF Sane
  <2>2. Kept /\ jdscope' \subseteq Bound' \cup {Top} /\ (jdscope' # {} => copy' # Nobody)
    BY <1>0, <1>1, <1>2 DEF Kept, CallsInv
  <2>. QED  BY <1>0, <1>1, <1>3, <1>4, <1>5, <2>1, <2>2, CallsPushed
<1>8. EventsTypeOK'
  <2>1. calls' \in Seq(CallsType) /\ Len(calls') <= MaxCalls
    <3>1. calls' = Append(calls, c)
      BY <1>1, <1>4
    <3>. QED  BY <1>0, <1>1, <3>1, PushFacts
  <2>. QED  BY <1>0, <1>1, <2>1 DEF EventsTypeOK, timerVars, CallsType
<1>9. RequestsInv' /\ MessagesInv'
  BY <1>0, <1>1, RequestsSame, MessagesSame
<1>10. TimersOwned'
  BY <1>0, <1>1, <1>2, <1>7, OwnersSame DEF timerVars
<1>. QED  BY <1>7, <1>8, <1>9, <1>10 DEF EventsInv

\* The frames whose methods a script can call are there.
LEMMA ReachableFacts ==
  ASSUME EventsAssumption, EventsTypeOK, CallsInv, NEW f \in Reachable
  PROVE  f \in Frames /\ f \in Live
<1>0. copy \in Copies \cup {Nobody}
  BY DEF EventsTypeOK
<1>1. CASE f \in Bound \cup {Top}
  BY <1>0, <1>1 DEF Bound, Live, Frames, EventsAssumption
<1>2. CASE f \in {calls[i].frame : i \in DOMAIN calls} \ {Nobody}
  <2>1. f \in Attached \cup {Top}
    BY <1>2 DEF CallsInv, Sane
  <2>. QED  BY <2>1 DEF Attached, Live, Frames
<1>. QED  BY <1>1, <1>2 DEF Reachable

LEMMA SettimeoutInv ==
  ASSUME EventsAssumption, EventsInv, Methodsettimeout
  PROVE  EventsInv'
<1>0. /\ timeouts \in [Frames -> SUBSET Timers] /\ pulltimer \in Timers \cup {Nobody}
      /\ EventsTypeOK /\ RequestsInv /\ TimersOwned /\ CallsInv /\ MessagesInv
  BY DEF EventsInv, EventsTypeOK
<1>1. PICK s \in Reachable, t \in Timers \ timers.live :
         Settimer(t) /\ timeouts' = [timeouts EXCEPT ![s] = @ \cup {t}]
  BY DEF Methodsettimeout
<1>2. UNCHANGED <<pulltimer, pullurl, jdscope, copy, within, queue, main, calls>>
  BY DEF Methodsettimeout
<1>3. s \in Frames /\ s \in Live
  BY <1>0, ReachableFacts
<1>4. /\ timers' \in TimersType /\ port' \in Seq(Timers) /\ list' \in Seq(Timers)
      /\ timers'.live = timers.live \cup {t} /\ RequestsInv'
  BY <1>0, <1>1, RequestsSet
<1>5. /\ timeouts' \in [Frames -> SUBSET Timers] /\ timeouts'[s] = timeouts[s] \cup {t}
      /\ \A f \in Frames : f # s => timeouts'[f] = timeouts[f]
  BY <1>0, <1>1, <1>3
<1>6. EventsTypeOK'
  BY <1>0, <1>2, <1>4, <1>5 DEF EventsTypeOK, TimersType
<1>7. Present' = Present \cup {t}
  <2>1. ASSUME NEW x PROVE x \in Present' <=> x \in Present \cup {t}
    BY <1>3, <1>5 DEF Present
  <2>. QED  BY <2>1
<1>8. CallsInv' /\ Running' = Running /\ Live' = Live
  BY <1>0, <1>2, CallsAlone
<1>9. /\ timers.live = Present \cup Running \cup ({pulltimer} \ {Nobody})
      /\ \A f \in Frames : timeouts[f] # {} => f \in Live
      /\ \A f, g \in Frames : f # g => timeouts[f] \cap timeouts[g] = {}
      /\ Running \cap Present = {}
      /\ pulltimer # Nobody => pulltimer \notin Present \cup Running
  BY <1>0 DEF TimersOwned
<1>10. /\ t # Nobody /\ t \notin Present \cup Running /\ t # pulltimer
       /\ \A f \in Frames : t \notin timeouts[f]
  <2>1. t # Nobody /\ t \notin timers.live
    BY <1>1 DEF EventsAssumption
  <2>2. t \notin Present \cup Running
    BY <1>9, <2>1
  <2>. QED  BY <1>9, <2>1, <2>2 DEF Present
<1>11. TimersOwned'
  <2>1. timers'.live = Present' \cup Running' \cup ({pulltimer'} \ {Nobody})
    BY <1>2, <1>4, <1>7, <1>8, <1>9
  <2>2. \A f \in Frames : timeouts'[f] # {} => f \in Live'
    BY <1>3, <1>5, <1>8, <1>9
  <2>3. \A f, g \in Frames : f # g => timeouts'[f] \cap timeouts'[g] = {}
    BY <1>5, <1>9, <1>10
  <2>4. /\ Running' \cap Present' = {}
        /\ pulltimer' # Nobody => pulltimer' \notin Present' \cup Running'
    BY <1>2, <1>7, <1>8, <1>9, <1>10
  <2>. QED  BY <2>1, <2>2, <2>3, <2>4 DEF TimersOwned
<1>12. MessagesInv'
  BY <1>0, <1>2, MessagesSame
<1>. QED  BY <1>4, <1>6, <1>8, <1>11, <1>12 DEF EventsInv

LEMMA CleartimeoutInv ==
  ASSUME EventsAssumption, EventsInv, Methodcleartimeout
  PROVE  EventsInv'
<1>0. /\ timeouts \in [Frames -> SUBSET Timers] /\ pulltimer \in Timers \cup {Nobody}
      /\ EventsTypeOK /\ RequestsInv /\ TimersOwned /\ CallsInv /\ MessagesInv
  BY DEF EventsInv, EventsTypeOK
<1>1. PICK s \in Reachable : \E t \in timeouts[s] :
         Disposetimers({t}) /\ timeouts' = [timeouts EXCEPT ![s] = @ \ {t}]
  BY DEF Methodcleartimeout
<1>2. PICK t \in timeouts[s] :
         Disposetimers({t}) /\ timeouts' = [timeouts EXCEPT ![s] = @ \ {t}]
  BY <1>1
<1>3. UNCHANGED <<pulltimer, pullurl, jdscope, copy, within, queue, main, calls>>
  BY DEF Methodcleartimeout
<1>4. s \in Frames /\ s \in Live
  BY <1>0, ReachableFacts
<1>5. /\ timers' \in TimersType /\ port' \in Seq(Timers) /\ list' \in Seq(Timers)
      /\ timers'.live = timers.live \ {t} /\ RequestsInv'
  BY <1>0, <1>2, RequestsDisposed
<1>6. /\ timeouts' \in [Frames -> SUBSET Timers] /\ timeouts'[s] = timeouts[s] \ {t}
      /\ \A f \in Frames : f # s => timeouts'[f] = timeouts[f]
      /\ t \in timeouts[s]
  BY <1>0, <1>2, <1>4
<1>7. EventsTypeOK'
  BY <1>0, <1>3, <1>5, <1>6 DEF EventsTypeOK, TimersType
<1>8. /\ timers.live = Present \cup Running \cup ({pulltimer} \ {Nobody})
      /\ \A f \in Frames : timeouts[f] # {} => f \in Live
      /\ \A f, g \in Frames : f # g => timeouts[f] \cap timeouts[g] = {}
      /\ Running \cap Present = {}
      /\ pulltimer # Nobody => pulltimer \notin Present \cup Running
  BY <1>0 DEF TimersOwned
<1>9. Present' = Present \ {t} /\ t \in Present
  <2>1. ASSUME NEW x PROVE x \in Present' <=> x \in Present \ {t}
    <3>1. \A f \in Frames : f # s => t \notin timeouts[f]
      BY <1>4, <1>6, <1>8
    <3>. QED  BY <1>4, <1>6, <3>1 DEF Present
  <2>. QED  BY <1>4, <2>1 DEF Present
<1>10. CallsInv' /\ Running' = Running /\ Live' = Live
  BY <1>0, <1>3, CallsAlone
<1>11. TimersOwned'
  <2>1. timers'.live = Present' \cup Running' \cup ({pulltimer'} \ {Nobody})
    BY <1>3, <1>5, <1>8, <1>9, <1>10
  <2>2. \A f \in Frames : timeouts'[f] # {} => f \in Live'
    BY <1>6, <1>8, <1>10
  <2>3. \A f, g \in Frames : f # g => timeouts'[f] \cap timeouts'[g] = {}
    BY <1>6, <1>8
  <2>4. /\ Running' \cap Present' = {}
        /\ pulltimer' # Nobody => pulltimer' \notin Present' \cup Running'
    BY <1>3, <1>8, <1>9, <1>10
  <2>. QED  BY <2>1, <2>2, <2>3, <2>4 DEF TimersOwned
<1>12. MessagesInv'
  BY <1>0, <1>3, MessagesSame
<1>. QED  BY <1>5, <1>7, <1>10, <1>11, <1>12 DEF EventsInv

LEMMA QueueloadInv ==
  ASSUME EventsAssumption, EventsInv, Queueinputwindoc
  PROVE  EventsInv'
<1>0. /\ queue \in Seq(Queued)
      /\ EventsTypeOK /\ RequestsInv /\ TimersOwned /\ CallsInv /\ MessagesInv
  BY DEF EventsInv, EventsTypeOK, Queued
<1>1. PICK f \in Reachable : queue' = Append(queue, Message(f, "inputwindoc"))
  BY DEF Queueinputwindoc
<1>2. UNCHANGED <<timerVars, timeouts, pulltimer, pullurl, jdscope, copy, within, main,
                  calls>>
  BY DEF Queueinputwindoc
<1>3. f \in Frames /\ f \in Live /\ f \notin Copies
  BY <1>0, ReachableFacts, LiveFrames
<1>4. PICK m \in Queued : m = Message(f, "inputwindoc")
  BY <1>3 DEF Queued, Message
<1>5. m.object = f /\ m.id = "inputwindoc" /\ queue' = Append(queue, m)
  BY <1>1, <1>4 DEF Message
<1>. DEFINE objects == Live \cup (Copies \ {copy})
<1>6. Sound(queue, objects) /\ m.object \in objects
  BY <1>0, <1>3, <1>5 DEF MessagesInv
<1>. HIDE DEF objects
<1>7. queue' \in Seq(Queued) /\ Sound(queue', objects)
  BY <1>0, <1>3, <1>5, <1>6, SoundAppend
<1>8. UNCHANGED <<Live, Attached, Bound, copy>>
  BY <1>2 DEF Live, Attached, Bound
<1>9. MessagesInv'
  BY <1>7, <1>8 DEF MessagesInv, objects
<1>10. EventsTypeOK'
  BY <1>0, <1>2, <1>7 DEF EventsTypeOK, Queued, timerVars
<1>11. RequestsInv'
  BY <1>0, <1>2, RequestsSame
<1>12. Kept
  <2>1. /\ Len(queue) \in Nat /\ DOMAIN queue = 1..Len(queue)
        /\ DOMAIN queue' = 1..(Len(queue) + 1)
        /\ \A i \in 1..Len(queue) : queue'[i] = queue[i]
    BY <1>0, <1>5, PushFacts
  <2>2. \A i \in DOMAIN queue : i \in DOMAIN queue' /\ queue'[i] = queue[i]
    BY <2>1
  <2>. QED  BY <1>8, <2>2 DEF Kept, Deferred
<1>13. CallsInv' /\ Running' = Running
  <2>1. /\ jdscope' \subseteq Bound' \cup {Top} /\ (jdscope' # {} => copy' # Nobody)
        /\ main' \in {"pull", "inputwindoc"} => calls = <<>>
    BY <1>0, <1>2, <1>8 DEF CallsInv
  <2>. QED  BY <1>0, <1>2, <1>12, <2>1, CallsSame
<1>14. TimersOwned'
  BY <1>0, <1>2, <1>8, <1>13, OwnersSame DEF timerVars
<1>. QED  BY <1>9, <1>10, <1>11, <1>13, <1>14 DEF EventsInv

LEMMA ScriptEndsInv ==
  ASSUME EventsAssumption, EventsInv, ScriptEnds
  PROVE  EventsInv'
<1>. DEFINE ts == {Call.timeout} \ {Nobody}
<1>0. /\ calls \in Seq(CallsType) /\ Len(calls) \in Nat /\ Len(calls) <= MaxCalls
      /\ MaxCalls \in Nat
      /\ EventsTypeOK /\ RequestsInv /\ TimersOwned /\ CallsInv /\ MessagesInv
  BY DEF EventsInv, EventsTypeOK, CallsType, EventsAssumption
<1>1. /\ calls # <<>> /\ Disposetimers(ts) /\ calls' = Front(calls)
      /\ UNCHANGED <<timeouts, pulltimer, pullurl, jdscope, copy, within, queue, main>>
  BY DEF ScriptEnds, Scripting
<1>2. /\ timers' \in TimersType /\ port' \in Seq(Timers) /\ list' \in Seq(Timers)
      /\ timers'.live = timers.live \ ts /\ RequestsInv'
  <2>. HIDE DEF ts
  <2>. QED  BY <1>0, <1>1, RequestsDisposed
<1>3. /\ CallsInv' /\ Running' = Running \ {Call.timeout}
      /\ calls' \in Seq(CallsType) /\ Len(calls') = Len(calls) - 1
      /\ Call.timeout # Nobody => Call.timeout \in Running
  BY <1>0, <1>1, CallsPopped
<1>4. EventsTypeOK'
  <2>1. Len(calls') <= MaxCalls
    BY <1>0, <1>3
  <2>. QED  BY <1>0, <1>1, <1>2, <1>3, <2>1 DEF EventsTypeOK, TimersType, CallsType
<1>5. UNCHANGED <<Present, Live>>
  BY <1>1 DEF Present, Live
<1>6. TimersOwned'
  <2>1. /\ timers.live = Present \cup Running \cup ({pulltimer} \ {Nobody})
        /\ \A f \in Frames : timeouts[f] # {} => f \in Live
        /\ \A f, g \in Frames : f # g => timeouts[f] \cap timeouts[g] = {}
        /\ Running \cap Present = {}
        /\ pulltimer # Nobody => pulltimer \notin Present \cup Running
    BY <1>0 DEF TimersOwned
  <2>2. timers'.live = Present' \cup Running' \cup ({pulltimer'} \ {Nobody})
    <3>1. CASE Call.timeout = Nobody
      BY <1>1, <1>2, <1>3, <1>5, <2>1, <3>1 DEF Running
    <3>2. CASE Call.timeout # Nobody
      BY <1>1, <1>2, <1>3, <1>5, <2>1, <3>2
    <3>. QED  BY <3>1, <3>2
  <2>. QED  BY <1>1, <1>3, <1>5, <2>1, <2>2 DEF TimersOwned
<1>7. MessagesInv'
  BY <1>0, <1>1, MessagesSame
<1>. QED  BY <1>2, <1>3, <1>4, <1>6, <1>7 DEF EventsInv

LEMMA LoadEndsInv ==
  ASSUME EventsAssumption, EventsInv, LoadEnds
  PROVE  EventsInv'
<1>0. /\ calls \in Seq(CallsType) /\ Len(calls) \in Nat /\ Len(calls) <= MaxCalls
      /\ MaxCalls \in Nat
      /\ EventsTypeOK /\ RequestsInv /\ TimersOwned /\ CallsInv /\ MessagesInv
  BY DEF EventsInv, EventsTypeOK, CallsType, EventsAssumption
<1>1. /\ calls # <<>> /\ Call.frame = Nobody /\ calls' = Front(calls)
      /\ UNCHANGED <<timerVars, timeouts, pulltimer, pullurl, jdscope, copy, within, queue,
                     main>>
  BY DEF LoadEnds, Parsing
<1>2. /\ CallsInv' /\ Running' = Running \ {Call.timeout}
      /\ calls' \in Seq(CallsType) /\ Len(calls') = Len(calls) - 1
  BY <1>0, <1>1, CallsPopped
<1>3. Running' = Running
  <2>1. /\ Len(calls) \in Nat \ {0} /\ Call = calls[Len(calls)] /\ DOMAIN calls = 1..Len(calls)
    BY <1>0, <1>1, FrontLastFacts DEF Call
  <2>2. Len(calls) \in DOMAIN calls
    BY <2>1
  <2>3. Call.timeout = Nobody
    BY <1>0, <1>1, <2>1, <2>2 DEF CallsInv, Sane
  <2>. QED  BY <1>2, <2>3 DEF Running
<1>4. EventsTypeOK'
  <2>1. Len(calls') <= MaxCalls
    BY <1>0, <1>2
  <2>. QED  BY <1>0, <1>1, <1>2, <2>1 DEF EventsTypeOK, timerVars, CallsType
<1>5. RequestsInv' /\ MessagesInv'
  BY <1>0, <1>1, RequestsSame, MessagesSame
<1>6. TimersOwned'
  <2>1. UNCHANGED Live
    BY <1>1 DEF Live
  <2>. QED  BY <1>0, <1>1, <1>3, <2>1, OwnersSame DEF timerVars
<1>. QED  BY <1>2, <1>4, <1>5, <1>6 DEF EventsInv

LEMMA ProcesstimerInv ==
  ASSUME EventsAssumption, EventsInv, Processtimer
  PROVE  EventsInv'
<1>0. /\ port \in Seq(Timers) /\ list \in Seq(Timers)
      /\ EventsTypeOK /\ RequestsInv /\ TimersOwned /\ CallsInv /\ MessagesInv
  BY DEF EventsInv, EventsTypeOK
<1>1. /\ list' = list \o port /\ port' = <<>> /\ main' = "timers"
      /\ UNCHANGED <<timers, timeouts, pulltimer, pullurl, jdscope, copy, within, queue,
                     calls>>
  BY DEF Processtimer
<1>2. /\ list \o port \in Seq(Timers)
      /\ ToSet(list \o port) = ToSet(list) \cup ToSet(port)
      /\ IsInjective(list) /\ IsInjective(port) /\ ToSet(list) \cap ToSet(port) = {} =>
           IsInjective(list \o port)
  BY <1>0, ConcatLists
<1>3. RequestsInv'
  <2>1. /\ timers.io \subseteq timers.live
        /\ timers.device \cup ToSet(port) \cup ToSet(list) = timers.io
        /\ timers.device \cap ToSet(port) = {} /\ timers.device \cap ToSet(list) = {}
        /\ IsInjective(list \o port)
    BY <1>0, <1>2 DEF RequestsInv
  <2>2. /\ ToSet(port)' = {} /\ IsInjective(port)'
        /\ ToSet(list)' = ToSet(list) \cup ToSet(port) /\ IsInjective(list)'
    BY <1>1, <1>2, <2>1, NoList
  <2>. QED  BY <1>1, <2>1, <2>2 DEF RequestsInv
<1>4. EventsTypeOK'
  BY <1>0, <1>1, <1>2 DEF EventsTypeOK
<1>5. CallsInv' /\ TimersOwned'
  BY <1>0, <1>1, CallsAlone, OwnersSame
<1>6. MessagesInv'
  BY <1>0, <1>1, MessagesSame
<1>. QED  BY <1>3, <1>4, <1>5, <1>6 DEF EventsInv

LEMMA TimeoutInv ==
  ASSUME EventsAssumption, EventsInv, TimeoutReady
  PROVE  EventsInv'
<1>0. /\ timeouts \in [Frames -> SUBSET Timers] /\ pulltimer \in Timers \cup {Nobody}
      /\ jdscope \subseteq Frames /\ copy \in Copies \cup {Nobody}
      /\ EventsTypeOK /\ RequestsInv /\ TimersOwned /\ CallsInv /\ MessagesInv
  BY DEF EventsInv, EventsTypeOK
<1>1. /\ main = "timers" /\ calls = <<>> /\ list # <<>>
      /\ UNCHANGED <<pulltimer, pullurl, jdscope, copy, within, queue, main>>
  BY DEF TimeoutReady
<1>2. PICK t : t = Head(list)
  OBVIOUS
<1>3. PICK s \in Frames :
        /\ t \in timeouts[s] /\ Replied(Head(list))
        /\ IF s \in jdscope
           THEN /\ timeouts' = [timeouts EXCEPT ![s] = @ \ {t}]
                /\ calls' = <<Script(s, t)>>
           ELSE UNCHANGED <<timeouts, calls>>
  BY <1>2 DEF TimeoutReady
<1>4. /\ t \in Timers
      /\ timers' \in TimersType /\ port' \in Seq(Timers) /\ list' \in Seq(Timers)
      /\ timers'.live = timers.live /\ RequestsInv'
  BY <1>0, <1>1, <1>2, <1>3, RequestsReplied
<1>5. MessagesInv'
  BY <1>0, <1>1, MessagesSame
<1>6. CASE s \notin jdscope
  <2>1. UNCHANGED <<timeouts, calls>>
    BY <1>3, <1>6
  <2>2. EventsTypeOK'
    BY <1>0, <1>1, <1>4, <2>1 DEF EventsTypeOK, TimersType
  <2>3. CallsInv' /\ TimersOwned'
    BY <1>0, <1>1, <1>4, <2>1, CallsAlone, OwnersSame
  <2>. QED  BY <1>4, <1>5, <2>2, <2>3 DEF EventsInv
<1>7. CASE s \in jdscope
  <2>1. /\ timeouts' = [timeouts EXCEPT ![s] = @ \ {t}]
        /\ calls' = <<Script(s, t)>>
    BY <1>3, <1>7
  <2>2. /\ timeouts' \in [Frames -> SUBSET Timers] /\ timeouts'[s] = timeouts[s] \ {t}
        /\ \A f \in Frames : f # s => timeouts'[f] = timeouts[f]
    BY <1>0, <2>1
  <2>3. PICK c \in CallsType : c = Script(s, t)
    BY <1>0, <1>4 DEF Script, CallsType
  <2>4. /\ calls' \in Seq(CallsType) /\ DOMAIN calls' = {1} /\ calls'[1] = c
        /\ Len(calls') = 1 /\ c.frame = s /\ c.timeout = t /\ c.doc = copy
    BY <2>1, <2>3 DEF Script
  <2>5. EventsTypeOK'
    <3>1. 1 <= MaxCalls
      BY DEF EventsAssumption
    <3>. QED  BY <1>0, <1>1, <1>4, <2>2, <2>4, <3>1 DEF EventsTypeOK, TimersType, CallsType
  <2>6. /\ timers.live = Present \cup ({pulltimer} \ {Nobody})
        /\ \A f \in Frames : timeouts[f] # {} => f \in Live
        /\ \A f, g \in Frames : f # g => timeouts[f] \cap timeouts[g] = {}
        /\ pulltimer # Nobody => pulltimer \notin Present
    BY <1>0, <1>1 DEF TimersOwned, Running
  <2>7. Present' = Present \ {t} /\ t \in Present
    <3>1. \A f \in Frames : f # s => t \notin timeouts[f]
      BY <1>3, <2>6
    <3>2. ASSUME NEW x PROVE x \in Present' <=> x \in Present \ {t}
      BY <2>2, <3>1 DEF Present
    <3>. QED  BY <1>3, <3>2 DEF Present
  <2>8. UNCHANGED <<Live, Attached, Deferred, Bound>>
    BY <1>1 DEF Live, Attached, Deferred, Bound
  <2>9. t # Nobody /\ (pulltimer # Nobody => t # pulltimer) /\ Running' = {t}
    <3>1. t # Nobody /\ (pulltimer # Nobody => t # pulltimer)
      BY <1>4, <2>6, <2>7 DEF EventsAssumption
    <3>. QED  BY <2>4, <3>1 DEF Running
  <2>10. CallsInv'
    <3>1. s \in Bound \cup {Top} /\ copy # Nobody /\ s # Nobody
      BY <1>0, <1>7 DEF CallsInv, EventsAssumption, Frames
    <3>2. s \in Attached \cup {Top}
      BY <1>0, <3>1 DEF Bound, Attached, EventsAssumption
    <3>3. Sane(1, c)'
      BY <1>1, <2>4, <2>8, <3>1, <3>2 DEF Sane
    <3>4. \A i \in DOMAIN calls' : Sane(i, calls[i])'
      BY <2>4, <3>3 DEF Sane
    <3>. QED  BY <1>0, <1>1, <2>8, <3>4 DEF CallsInv
  <2>11. TimersOwned'
    <3>1. timers'.live = Present' \cup Running' \cup ({pulltimer'} \ {Nobody})
      BY <1>1, <1>4, <2>6, <2>7, <2>9
    <3>2. \A f \in Frames : timeouts'[f] # {} => f \in Live'
      BY <2>2, <2>6, <2>8
    <3>3. \A f, g \in Frames : f # g => timeouts'[f] \cap timeouts'[g] = {}
      BY <2>2, <2>6
    <3>4. /\ Running' \cap Present' = {}
          /\ pulltimer' # Nobody => pulltimer' \notin Present' \cup Running'
      BY <1>1, <2>6, <2>7, <2>9
    <3>. QED  BY <3>1, <3>2, <3>3, <3>4 DEF TimersOwned
  <2>. QED  BY <1>4, <1>5, <2>5, <2>10, <2>11 DEF EventsInv
<1>. QED  BY <1>6, <1>7

LEMMA PullInv ==
  ASSUME EventsAssumption, EventsInv, PullReady
  PROVE  EventsInv'
<1>0. EventsTypeOK /\ RequestsInv /\ TimersOwned /\ CallsInv /\ MessagesInv
  BY DEF EventsInv
<1>1. /\ calls = <<>> /\ list # <<>> /\ Replied(Head(list))
      /\ pullurl' = FALSE /\ main' \in {"pull", "timers"}
      /\ UNCHANGED <<timeouts, pulltimer, jdscope, copy, within, queue, calls>>
  BY DEF PullReady
<1>2. /\ timers' \in TimersType /\ port' \in Seq(Timers) /\ list' \in Seq(Timers)
      /\ timers'.live = timers.live /\ RequestsInv'
  BY <1>0, <1>1, RequestsReplied
<1>3. EventsTypeOK'
  BY <1>0, <1>1, <1>2 DEF EventsTypeOK, TimersType
<1>4. CallsInv' /\ TimersOwned' /\ MessagesInv'
  BY <1>0, <1>1, <1>2, CallsAlone, OwnersSame, MessagesSame
<1>. QED  BY <1>2, <1>3, <1>4 DEF EventsInv

LEMMA SelectInv ==
  ASSUME EventsAssumption, EventsInv, Select
  PROVE  EventsInv'
<1>0. /\ queue \in Seq(Queued)
      /\ EventsTypeOK /\ RequestsInv /\ TimersOwned /\ CallsInv /\ MessagesInv
  BY DEF EventsInv, EventsTypeOK, Queued
<1>1. /\ queue' = [i \in DOMAIN queue |-> [queue[i] EXCEPT !.selected = TRUE]]
      /\ calls = <<>> /\ main' = "messages"
      /\ UNCHANGED <<timerVars, timeouts, pulltimer, pullurl, jdscope, copy, within, calls>>
  BY DEF Select, Waiting
<1>. DEFINE objects == Live \cup (Copies \ {copy})
<1>2. Sound(queue, objects)
  BY <1>0 DEF MessagesInv
<1>3. queue' \in Seq(Queued) /\ Sound(queue', objects)
  <2>. HIDE DEF objects
  <2>. QED  BY <1>0, <1>1, <1>2, SoundSelected
<1>4. UNCHANGED <<Live, Bound, copy>>
  BY <1>1 DEF Live, Bound
<1>5. MessagesInv'
  BY <1>3, <1>4 DEF MessagesInv
<1>6. EventsTypeOK'
  BY <1>0, <1>1, <1>3 DEF EventsTypeOK, Queued, timerVars
<1>7. RequestsInv'
  BY <1>0, <1>1, RequestsSame
<1>8. CallsInv' /\ Running' = Running
  <2>1. jdscope' \subseteq Bound' \cup {Top} /\ (jdscope' # {} => copy' # Nobody)
    BY <1>0, <1>1, <1>4 DEF CallsInv
  <2>. QED  BY <1>0, <1>1, <2>1, CallsSame
<1>9. TimersOwned'
  BY <1>0, <1>1, <1>4, <1>8, OwnersSame DEF timerVars
<1>. QED  BY <1>5, <1>6, <1>7, <1>8, <1>9 DEF EventsInv

LEMMA TakeloadInv ==
  ASSUME EventsAssumption, EventsInv, SetInputwindoc
  PROVE  EventsInv'
<1>0. /\ queue \in Seq(Queued)
      /\ EventsTypeOK /\ RequestsInv /\ TimersOwned /\ CallsInv /\ MessagesInv
  BY DEF EventsInv, EventsTypeOK, Queued
<1>1. /\ calls = <<>> /\ queue # <<>> /\ queue' = Tail(queue) /\ main' = "inputwindoc"
      /\ UNCHANGED <<timerVars, timeouts, pulltimer, pullurl, jdscope, copy, within, calls>>
  BY DEF SetInputwindoc, NextMessage
<1>. DEFINE objects == Live \cup (Copies \ {copy})
<1>2. Sound(queue, objects)
  BY <1>0 DEF MessagesInv
<1>3. queue' \in Seq(Queued) /\ Sound(queue', objects)
  <2>. HIDE DEF objects
  <2>. QED  BY <1>0, <1>1, <1>2, SoundTail
<1>4. UNCHANGED <<Live, Bound, copy>>
  BY <1>1 DEF Live, Bound
<1>5. MessagesInv'
  BY <1>3, <1>4 DEF MessagesInv
<1>6. EventsTypeOK'
  BY <1>0, <1>1, <1>3 DEF EventsTypeOK, Queued, timerVars
<1>7. RequestsInv'
  BY <1>0, <1>1, RequestsSame
<1>8. CallsInv' /\ Running' = Running
  <2>1. jdscope' \subseteq Bound' \cup {Top} /\ (jdscope' # {} => copy' # Nobody)
    BY <1>0, <1>1, <1>4 DEF CallsInv
  <2>. QED  BY <1>0, <1>1, <2>1, CallsSame
<1>9. TimersOwned'
  BY <1>0, <1>1, <1>4, <1>8, OwnersSame DEF timerVars
<1>. QED  BY <1>5, <1>6, <1>7, <1>8, <1>9 DEF EventsInv

\* No script runs while a copy is disposed of, and it is not the one displayed:
\* its frames go with their timeouts, or stay.
LEMMA DeferInv ==
  ASSUME EventsAssumption, EventsInv, SetDeferdispose
  PROVE  EventsInv'
<1>. DEFINE old == Head(queue).object
            frames == {k \in Kids : within[k] = old}
            objects == Live \cup (Copies \ {copy})
<1>0. /\ queue \in Seq(Queued) /\ within \in [Kids -> Copies \cup {"spare", "none"}]
      /\ copy \in Copies \cup {Nobody}
      /\ frames \in SUBSET Kids /\ frames \in SUBSET Frames
      /\ EventsTypeOK /\ RequestsInv /\ TimersOwned /\ CallsInv /\ MessagesInv
  BY DEF EventsInv, EventsTypeOK, Queued, Frames
<1>1. /\ main = "messages" /\ calls = <<>> /\ queue # <<>>
      /\ Head(queue).id = "deferdispose"
      /\ UNCHANGED <<pulltimer, pullurl, jdscope, copy, main, calls>>
      /\ \/ /\ Disposeframes(frames, Tail(queue))
            /\ within' = [k \in Kids |-> IF k \in frames THEN "none" ELSE within[k]]
         \/ /\ within' = [k \in Kids |-> IF k \in frames THEN "spare" ELSE within[k]]
            /\ queue' = Tail(queue) /\ UNCHANGED <<timerVars, timeouts>>
  BY DEF SetDeferdispose, NextMessage
<1>2. /\ old \in Copies /\ old \in objects
      /\ Tail(queue) \in Seq(Queued) /\ Sound(Tail(queue), objects)
  <2>1. Sound(queue, objects)
    BY <1>0 DEF MessagesInv
  <2>. HIDE DEF objects
  <2>. QED  BY <1>0, <1>1, <2>1, SoundTail
<1>3. frames \cap Bound = {}
  <2>1. old # copy
    BY <1>0, <1>2, LiveFrames
  <2>. QED  BY <2>1 DEF Bound
<1>. HIDE DEF old
<1>4. /\ within' \in [Kids -> Copies \cup {"spare", "none"}]
      /\ \A k \in Kids \ frames : within'[k] = within[k]
  <2>1. CASE within' = [k \in Kids |-> IF k \in frames THEN "none" ELSE within[k]]
    <3>. HIDE DEF frames
    <3>. QED  BY <1>0, <2>1
  <2>2. CASE within' = [k \in Kids |-> IF k \in frames THEN "spare" ELSE within[k]]
    <3>. HIDE DEF frames
    <3>. QED  BY <1>0, <2>2
  <2>. QED  BY <1>1, <2>1, <2>2
<1>5. CallsInv' /\ Running' = Running
  <2>. HIDE DEF frames
  <2>1. Bound \subseteq Bound'
    BY <1>1, <1>3, <1>4 DEF Bound
  <2>2. jdscope' \subseteq Bound' \cup {Top} /\ (jdscope' # {} => copy' # Nobody)
    BY <1>0, <1>1, <2>1 DEF CallsInv
  <2>. QED  BY <1>0, <1>1, <2>2, CallsSame
<1>6. CASE /\ Disposeframes(frames, Tail(queue))
           /\ within' = [k \in Kids |-> IF k \in frames THEN "none" ELSE within[k]]
  <2>. HIDE DEF frames
  <2>1. /\ timers' \in TimersType /\ port' \in Seq(Timers) /\ list' \in Seq(Timers)
        /\ timeouts' \in [Frames -> SUBSET Timers]
        /\ RequestsInv'
        /\ timers'.live = timers.live \ UNION {timeouts[f] : f \in frames}
        /\ timeouts' = [f \in Frames |-> IF f \in frames THEN {} ELSE timeouts[f]]
        /\ queue' \in Seq(Queued) /\ Sound(queue', objects \ frames)
    <3>. HIDE DEF objects
    <3>. QED  BY <1>0, <1>2, <1>6, DisposedFrames
  <2>2. EventsTypeOK'
    BY <1>0, <1>1, <1>4, <2>1 DEF EventsTypeOK, TimersType, Queued
  <2>3. TimersOwned'
    <3>1. \A f \in Frames \ frames : f \in Live => f \in Live'
      BY <1>4 DEF Live
    <3>. QED  BY <1>0, <1>1, <1>5, <2>1, <3>1, OwnersDropped
  <2>4. MessagesInv'
    <3>1. \A x : x \in objects \ frames => x \in (Live \cup (Copies \ {copy}))'
      BY <1>1, <1>4 DEF Live
    <3>. HIDE DEF objects
    <3>2. Sound(queue', (Live \cup (Copies \ {copy}))')
      BY <2>1, <3>1, SoundMore
    <3>. QED  BY <3>2 DEF MessagesInv
  <2>. QED  BY <1>5, <2>1, <2>2, <2>3, <2>4 DEF EventsInv
<1>7. CASE /\ within' = [k \in Kids |-> IF k \in frames THEN "spare" ELSE within[k]]
           /\ queue' = Tail(queue) /\ UNCHANGED <<timerVars, timeouts>>
  <2>0. \A k \in frames : within'[k] = "spare"
    BY <1>0, <1>7
  <2>1. EventsTypeOK'
    BY <1>0, <1>1, <1>2, <1>4, <1>7 DEF EventsTypeOK, timerVars, Queued
  <2>2. RequestsInv'
    BY <1>0, <1>7, RequestsSame
  <2>. HIDE DEF frames
  <2>3. Live \subseteq Live'
    BY <1>4, <2>0 DEF Live
  <2>4. TimersOwned'
    BY <1>0, <1>1, <1>5, <1>7, <2>3, OwnersSame DEF timerVars
  <2>5. MessagesInv'
    <3>1. \A x : x \in objects => x \in (Live \cup (Copies \ {copy}))'
      BY <1>1, <2>3
    <3>. HIDE DEF objects
    <3>2. Sound(queue', (Live \cup (Copies \ {copy}))')
      <4>1. queue' \in Seq(Queued) /\ Sound(queue', objects)
        BY <1>2, <1>7
      <4>. QED  BY <3>1, <4>1, SoundMore
    <3>. QED  BY <3>2 DEF MessagesInv
  <2>. QED  BY <1>5, <2>1, <2>2, <2>4, <2>5 DEF EventsInv
<1>. QED  BY <1>1, <1>6, <1>7

LEMMA NextInv ==
  ASSUME EventsAssumption, EventsInv, [EventsNext]_eventVars
  PROVE  EventsInv'
<1>1. CASE UNCHANGED eventVars
  <2>1. /\ UNCHANGED <<timerVars, timeouts, pulltimer, jdscope, copy, within, queue, calls>>
        /\ UNCHANGED <<pullurl, main>>
    BY <1>1 DEF eventVars, timerVars
  <2>2. /\ pullurl' \in BOOLEAN
        /\ main' \in {"wait", "timers", "pull", "messages", "inputwindoc"}
        /\ main' \in {"pull", "inputwindoc"} => calls = <<>>
    BY <2>1 DEF EventsInv, EventsTypeOK, CallsInv
  <2>. QED  BY <2>1, <2>2, QuietInv
<1>2. ASSUME NEW t \in Timers, Expire(t) PROVE EventsInv'
  BY <1>2, ExpireInv
<1>3. CASE Displayed
  BY <1>3, DisplayedInv
<1>4. CASE Followed
  BY <1>4, FollowedInv
<1>5. CASE Setclientpull
  BY <1>5, SetclientpullInv
<1>6. CASE Reloaddocument
  BY <1>6, ReloadInv
<1>7. CASE Jscancel
  BY <1>7, JscancelInv
<1>8. CASE Flushspare
  BY <1>8, FlushInv
<1>9. ASSUME NEW k \in Kids, Newframe(k) PROVE EventsInv'
  BY <1>9, NewframeInv
<1>10. ASSUME NEW f \in Frames, Runjavascript(f) PROVE EventsInv'
  BY <1>10, RunInv
<1>11. CASE Methodsettimeout
  BY <1>11, SettimeoutInv
<1>12. CASE Methodcleartimeout
  BY <1>12, CleartimeoutInv
<1>13. CASE Queueinputwindoc
  BY <1>13, QueueloadInv
<1>14. CASE Methodopen
  BY <1>14, MethodopenInv
<1>15. CASE ScriptEnds
  BY <1>15, ScriptEndsInv
<1>16. CASE LoadEnds
  BY <1>16, LoadEndsInv
<1>17. CASE Processtimer
  BY <1>17, ProcesstimerInv
<1>18. CASE TimeoutReady
  BY <1>18, TimeoutInv
<1>19. CASE PullReady
  BY <1>19, PullInv
<1>20. CASE PullLoads
  <2>1. Inputwindoc(Top) /\ Top \in Bound \cup {Top} /\ main' = "timers" /\ pulltimer' = pulltimer
    BY <1>20 DEF PullLoads
  <2>. QED  BY <2>1, LoadInv
<1>21. CASE Select
  BY <1>21, SelectInv
<1>22. CASE SetInputwindoc
  BY <1>22, TakeloadInv
<1>23. CASE SetInputwindocLoads
  <2>1. PICK f \in Bound \cup {Top} : Inputwindoc(f)
    BY <1>23 DEF SetInputwindocLoads
  <2>2. main' = "messages" /\ pulltimer' = pulltimer
    BY <1>23 DEF SetInputwindocLoads
  <2>. QED  BY <2>1, <2>2, LoadInv
<1>24. CASE SetDeferdispose
  BY <1>24, DeferInv
<1>25. CASE RoundEnds
  BY <1>25, RoundEndsInv
<1>. QED
  BY <1>1, <1>2, <1>3, <1>4, <1>5, <1>6, <1>7, <1>8, <1>9, <1>10, <1>11, <1>12, <1>13,
     <1>14, <1>15, <1>16, <1>17, <1>18, <1>19, <1>20, <1>21, <1>22, <1>23, <1>24, <1>25
  DEF EventsNext, MainLoop

-----------------------------------------------------------------------------
(* The theorems.                                                           *)

\* What the timer port and the list being processed hold, who owns each timer,
\* which scripts and loads are under way in which frames and copies, and which
\* objects messages are for, together, last.
THEOREM EventsInvariant ==
  EventsSpec => []EventsInv
<1>1. EventsInit => EventsInv
  BY EventsAssumption, InitInv
<1>2. EventsInv /\ [EventsNext]_eventVars => EventsInv'
  BY EventsAssumption, NextInv
<1>. QED  BY <1>1, <1>2, PTL DEF EventsSpec

\* The flag of a timer says where its one request is, so that AbortIO() and
\* WaitIO() always find it, and no reply is left of a timer that is gone.
THEOREM RequestsStayAccounted ==
  EventsSpec => []RequestsAccounted
<1>1. EventsInv => RequestsAccounted
  BY InvImplies
<1>. QED  BY <1>1, EventsInvariant, PTL

\* A timer is the client pull's, or that of one timeout of one frame that is
\* there, or of a script that runs, however scripts that load documents at once
\* and the scripts of those documents are nested.
THEOREM TimersStayOwned ==
  EventsSpec => []TimersOwned
<1>1. EventsInv => TimersOwned
  BY InvImplies
<1>. QED  BY <1>1, EventsInvariant, PTL

\* The frame and the document of a script under way are not disposed of, though
\* the script itself, or one that it leads to, puts another document in the frame.
THEOREM ScriptsStayAlive ==
  EventsSpec => []ScriptsSurvive
<1>1. EventsInv => ScriptsSurvive
  BY InvImplies
<1>. QED  BY <1>1, EventsInvariant, PTL

\* A message that is queued is for a frame or a copy that is still there, and a
\* copy is disposed of once.
THEOREM MessagesStayLive ==
  EventsSpec => []MessagesForLive
<1>1. EventsInv => MessagesForLive
  BY InvImplies
<1>. QED  BY <1>1, EventsInvariant, PTL
=============================================================================
