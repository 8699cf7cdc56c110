--------------------------- MODULE Sources_proofs ---------------------------
(***************************************************************************)
(* Invariance proofs for module Sources: the count of the displayed copies  *)
(* is exact, a driver of a copy never outlives that of its source, a copy   *)
(* that was loaded shows what its source has, and an image that is all      *)
(* there and displayed is decoded.                                          *)
(*                                                                          *)
(* They rest on each other, and on one fact about the urls: those that have *)
(* moved never form a circle, so that every url has a final one.            *)
(***************************************************************************)
EXTENDS Sources, FiniteSetTheorems, SeqLemmas

-----------------------------------------------------------------------------
(* What a chain leads to.                                                    *)

Result(h, w, On, next, stop) == h[w] = IF w \in On THEN h[next[w]] ELSE stop[w]

Leads(h, S, On, next, stop) == \A w \in S : Result(h, w, On, next, stop)

\* What a chain leads to is the same whoever follows it.
LEMMA ChainUnique ==
  ASSUME NEW S, NEW rank, NEW On, NEW next, NEW stop, NEW f, NEW g,
         Chained(S, rank, On, next),
         Leads(f, S, On, next, stop), Leads(g, S, On, next, stop)
  PROVE  \A w \in S : f[w] = g[w]
<1>. DEFINE T == {rank[w] : w \in {v \in S : f[v] # g[v]}}
<1>. SUFFICES ASSUME T # {}  PROVE FALSE
  OBVIOUS
<1>1. T \subseteq Nat
  BY DEF Chained
<1>2. PICK n \in T : \A m \in T : n <= m
  <2>. HIDE DEF T
  <2>. QED  BY <1>1, SmallestIn
<1>3. PICK w \in S : rank[w] = n /\ f[w] # g[w]
  OBVIOUS
<1>4. w \in On /\ f[next[w]] # g[next[w]]
  BY <1>3 DEF Leads, Result
<1>5. next[w] \in S /\ rank[next[w]] < rank[w]
  BY <1>4 DEF Chained
<1>6. rank[next[w]] \in T
  BY <1>4, <1>5
<1>7. n <= rank[next[w]]
  BY <1>2, <1>6
<1>8. n \in Nat /\ rank[next[w]] \in Nat
  BY <1>3, <1>5 DEF Chained
<1>. HIDE DEF T
<1>. QED  BY <1>3, <1>5, <1>7, <1>8

\* Every chain leads somewhere.
LEMMA ChainExists ==
  ASSUME NEW S, NEW V, NEW rank \in [S -> Nat], NEW On, NEW next, NEW stop \in [S -> V],
         Chained(S, rank, On, next)
  PROVE  \E f \in [S -> V] : Leads(f, S, On, next, stop)
<1>1. PICK F \in [V \X S -> V] : \A v \in V, w \in S : F[<<v, w>>] = v
  <2>. DEFINE G == [p \in V \X S |-> p[1]]
  <2>1. G \in [V \X S -> V] /\ \A v \in V, w \in S : G[<<v, w>>] = v
    OBVIOUS
  <2>. QED  BY <2>1
<1>2. PICK f \in [S -> V] : Computes(f, S, On, next, F, stop)
  BY StepsExist
<1>3. ASSUME NEW w \in S  PROVE Result(f, w, On, next, stop)
  <2>1. Stepped(f, w, On, next, F, stop)
    BY <1>2 DEF Computes
  <2>2. w \in On => f[next[w]] \in V
    BY DEF Chained
  <2>. QED  BY <2>1, <2>2, <1>1 DEF Stepped, Result
<1>. QED  BY <1>3 DEF Leads

-----------------------------------------------------------------------------
(* What handlers work on, and where urls lead. *)

Sourcerec ==
  [driver : {"none", "image", "doc"}, whole : BOOLEAN, task : BOOLEAN, dispcount : Nat,
   loading : BOOLEAN, verifying : BOOLEAN, movedto : Sites \cup {NoSite}, kept : BOOLEAN]

Coprec ==
  [source : Sites \cup {NoSite}, shown : BOOLEAN, load : {"initial", "asked", "restricted"},
   copf : BOOLEAN, driven : BOOLEAN]

States == [site : [Sites -> Sourcerec], cop : [Cops -> Coprec]]

\* Urls never lead round in a circle.
Descends(x, rank) ==
  \A w \in Sites :
    x.site[w].movedto # NoSite => rank[x.site[w].movedto] < rank[w]

Acyclic(x) == \E rank \in [Sites -> Nat] : Descends(x, rank)

Leading(x) == {w \in Sites : x.site[w].movedto # NoSite}

Moved(x) == {w \in Sites : x.site[w].movedto # NoSite /\ x.site[w].kept}

To(x) == [w \in Sites |-> x.site[w].movedto]

Itself == [w \in Sites |-> w]

LEMMA LeadingChained ==
  ASSUME NEW x \in States, NEW rank \in [Sites -> Nat], Descends(x, rank)
  PROVE  /\ Chained(Sites, rank, Leading(x), To(x))
         /\ Chained(Sites, rank, Moved(x), To(x))
<1>1. ASSUME NEW w \in Sites, x.site[w].movedto # NoSite
      PROVE  To(x)[w] \in Sites /\ rank[To(x)[w]] < rank[w]
  <2>1. x.site[w].movedto \in Sites /\ To(x)[w] = x.site[w].movedto
    BY <1>1 DEF States, Sourcerec, To
  <2>. QED  BY <1>1, <2>1 DEF Descends
<1>2. \A w \in Sites : rank[w] \in Nat
  OBVIOUS
<1>. QED  BY <1>1, <1>2 DEF Chained, Leading, Moved

LEMMA FinalChain ==
  ASSUME NEW x \in States, Acyclic(x)
  PROVE  \E f \in [Sites -> Sites] :
           /\ Leads(f, Sites, Moved(x), To(x), Itself)
           /\ \A u \in Sites : Finalurl(x, u) = f[u]
<1>1. PICK rank \in [Sites -> Nat] : Descends(x, rank)
  BY DEF Acyclic
<1>2. Chained(Sites, rank, Moved(x), To(x))
  BY <1>1, LeadingChained
<1>3. Itself \in [Sites -> Sites]
  BY DEF Itself
<1>4. \E f \in [Sites -> Sites] : Leads(f, Sites, Moved(x), To(x), Itself)
  BY <1>2, <1>3, ChainExists
<1>. DEFINE Is(f) == f = [v \in Sites |->
                            IF x.site[v].movedto # NoSite /\ x.site[v].kept
                            THEN f[x.site[v].movedto] ELSE v]
            final == CHOOSE f : Is(f)
<1>5. ASSUME NEW f \in [Sites -> Sites]
      PROVE  Leads(f, Sites, Moved(x), To(x), Itself) => Is(f)
  BY DEF Leads, Result, Moved, To, Itself
<1>6. Is(final)
  <2>1. \E f : Is(f)
    BY <1>4, <1>5
  <2>. HIDE DEF Is
  <2>. QED  BY <2>1
<1>7. \A u \in Sites : Finalurl(x, u) = final[u]
  BY DEF Finalurl
<1>. HIDE DEF final
<1>8. Leads(final, Sites, Moved(x), To(x), Itself)
  <2>1. ASSUME NEW w \in Sites  PROVE Result(final, w, Moved(x), To(x), Itself)
    BY <1>6 DEF Result, Moved, To, Itself
  <2>. QED  BY <2>1 DEF Leads
<1>9. PICK f \in [Sites -> Sites] : Leads(f, Sites, Moved(x), To(x), Itself)
  BY <1>4
<1>10. \A u \in Sites : f[u] = final[u]
  BY <1>2, <1>8, <1>9, ChainUnique
<1>. QED  BY <1>7, <1>9, <1>10

\* The final url of u has not moved, as far as the cache knows.
LEMMA FinalFacts ==
  ASSUME NEW x \in States, Acyclic(x), NEW u \in Sites
  PROVE  /\ Finalurl(x, u) \in Sites
         /\ Finalurl(x, u) \notin Moved(x)
         /\ u \notin Moved(x) => Finalurl(x, u) = u
<1>1. PICK f \in [Sites -> Sites] :
           /\ Leads(f, Sites, Moved(x), To(x), Itself)
           /\ \A v \in Sites : Finalurl(x, v) = f[v]
  BY FinalChain
<1>2. PICK rank \in [Sites -> Nat] : Descends(x, rank)
  BY DEF Acyclic
<1>3. Chained(Sites, rank, Moved(x), To(x))
  BY <1>2, LeadingChained
<1>4. ASSUME NEW w \in Sites
      PROVE  /\ w \notin Moved(x) => f[w] = w
             /\ w \in Moved(x) => /\ f[w] = f[To(x)[w]] /\ To(x)[w] \in Sites
                                  /\ rank[To(x)[w]] < rank[w]
  BY <1>1, <1>3 DEF Leads, Result, Itself, Chained
<1>5. f[u] \notin Moved(x)
  <2>. DEFINE T == {rank[w] : w \in {v \in Sites : f[v] \in Moved(x)}}
  <2>. SUFFICES ASSUME T # {}  PROVE FALSE
    OBVIOUS
  <2>1. T \subseteq Nat
    OBVIOUS
  <2>2. PICK n \in T : \A m \in T : n <= m
    <3>. HIDE DEF T
    <3>. QED  BY <2>1, SmallestIn
  <2>3. PICK w \in Sites : rank[w] = n /\ f[w] \in Moved(x)
    OBVIOUS
  <2>4. w \in Moved(x)
    BY <2>3, <1>4
  <2>5. To(x)[w] \in Sites /\ f[To(x)[w]] \in Moved(x) /\ rank[To(x)[w]] < rank[w]
    BY <2>3, <2>4, <1>4
  <2>6. rank[To(x)[w]] \in T
    BY <2>5
  <2>7. n <= rank[To(x)[w]]
    BY <2>2, <2>6
  <2>8. n \in Nat /\ rank[To(x)[w]] \in Nat
    BY <2>3, <2>5
  <2>. HIDE DEF T
  <2>. QED  BY <2>3, <2>5, <2>7, <2>8
<1>. QED  BY <1>1, <1>4, <1>5

\* It depends on nothing but where the urls from u on lead.
LEMMA FinalAlike ==
  ASSUME NEW x \in States, NEW y \in States, Acyclic(x), Acyclic(y),
         NEW Z, Z \subseteq Sites,
         \A w \in Z : /\ y.site[w].movedto = x.site[w].movedto
                      /\ y.site[w].kept = x.site[w].kept
                      /\ w \in Moved(x) => x.site[w].movedto \in Z,
         NEW u \in Z
  PROVE  Finalurl(y, u) = Finalurl(x, u)
<1>1. PICK f \in [Sites -> Sites] :
           /\ Leads(f, Sites, Moved(x), To(x), Itself)
           /\ \A v \in Sites : Finalurl(x, v) = f[v]
  BY FinalChain
<1>2. PICK g \in [Sites -> Sites] :
           /\ Leads(g, Sites, Moved(y), To(y), Itself)
           /\ \A v \in Sites : Finalurl(y, v) = g[v]
  BY FinalChain
<1>3. PICK rank \in [Sites -> Nat] : Descends(x, rank)
  BY DEF Acyclic
<1>4. Chained(Z, rank, Moved(x), To(x))
  <2>1. Chained(Sites, rank, Moved(x), To(x))
    BY <1>3, LeadingChained
  <2>2. \A w \in Z : w \in Sites /\ To(x)[w] = x.site[w].movedto
    BY DEF To
  <2>. QED  BY <2>1, <2>2 DEF Chained
<1>5. Leads(f, Z, Moved(x), To(x), Itself) /\ Leads(g, Z, Moved(x), To(x), Itself)
  <2>1. ASSUME NEW w \in Z
        PROVE  /\ Result(f, w, Moved(x), To(x), Itself)
               /\ Result(g, w, Moved(x), To(x), Itself)
    <3>1. w \in Sites /\ Result(f, w, Moved(x), To(x), Itself)
                      /\ Result(g, w, Moved(y), To(y), Itself)
      BY <1>1, <1>2 DEF Leads
    <3>2. To(y)[w] = To(x)[w] /\ (w \in Moved(y) <=> w \in Moved(x))
      BY <3>1 DEF To, Moved
    <3>. QED  BY <3>1, <3>2 DEF Result
  <2>. QED  BY <2>1 DEF Leads
<1>6. \A w \in Z : f[w] = g[w]
  BY <1>4, <1>5, ChainUnique
<1>. QED  BY <1>1, <1>2, <1>6

LEMMA FinalSame ==
  ASSUME NEW x \in States, NEW y \in States, Acyclic(x),
         \A w \in Sites : /\ y.site[w].movedto = x.site[w].movedto
                          /\ y.site[w].kept = x.site[w].kept,
         NEW u \in Sites
  PROVE  Acyclic(y) /\ Finalurl(y, u) = Finalurl(x, u)
<1>1. Acyclic(y)
  BY DEF Acyclic, Descends
<1>2. \A w \in Sites : w \in Moved(x) => x.site[w].movedto \in Sites
  BY DEF Moved, States, Sourcerec
<1>. QED  BY <1>1, <1>2, FinalAlike

-----------------------------------------------------------------------------
(* What is true between two handlers, and most of it inside one. *)

ShownOn(x, u) == {c \in Cops : x.cop[c].source = u /\ x.cop[c].shown}

Counted(x) == \A u \in Sites : x.site[u].dispcount = Cardinality(ShownOn(x, u))

\* A copy has no driver only because the source has none, or because it refused it.
MatchedAt(x, c) ==
  LET k == x.cop[c]
  IN /\ k.driven => k.copf
     /\ k.copf => k.source # NoSite /\ x.site[k.source].driver # "none"
     /\ k.copf /\ ~k.driven => Refuses(c, x.site[k.source].driver)

Matched(x) == \A c \in Cops : MatchedAt(x, c)

DecodedAt(s) == s.driver = "image" /\ s.whole /\ s.dispcount > 0 /\ screen => s.task

Decoded(x) == \A u \in Sites : DecodedAt(x.site[u])

SettledAt(s) ==
  /\ s.driver = "none" => ~s.whole
  /\ s.kept => s.movedto # NoSite
  /\ s.verifying => s.movedto = NoSite

Settled(x) == \A u \in Sites : SettledAt(x.site[u])

\* A url that has moved, as far as the cache knows, has no driver.
Gone(x) == \A u \in Sites : x.site[u].kept => x.site[u].driver = "none"

Homed(x) == \A c \in Cops : x.cop[c].source = NoSite => ~x.cop[c].shown

Base(x) == x \in States /\ Counted(x) /\ Matched(x) /\ Decoded(x) /\ Settled(x)

Sound(x) == Base(x) /\ Gone(x) /\ Acyclic(x) /\ Homed(x)

ServedAt(x, u) ==
  \A c \in Cops :
    LET s == x.site[u]
    IN x.cop[c].load = "asked" /\ x.cop[c].source = u =>
         \/ s.driver = "none" \/ Refuses(c, s.driver) \/ x.cop[c].driven
         \/ s.verifying /\ ~fastresponse

ServedBut(x, T) == \A u \in Sites \ T : ServedAt(x, u)

SourcesInv ==
  /\ Sound(Now) /\ ServedBut(Now, {})
  /\ screen \in BOOLEAN /\ fastresponse \in BOOLEAN

-----------------------------------------------------------------------------
(* Counting. *)

LEMMA CountOne ==
  ASSUME NEW S, NEW T, S \subseteq Cops, T \subseteq Cops, NEW c, S \ {c} = T \ {c}
  PROVE  /\ Cardinality(S) \in Nat /\ Cardinality(T) \in Nat
         /\ c \in S /\ c \notin T => Cardinality(S) = Cardinality(T) + 1
         /\ c \notin S /\ c \in T => Cardinality(T) = Cardinality(S) + 1
         /\ (c \in S <=> c \in T) => S = T
<1>1. IsFiniteSet(S) /\ IsFiniteSet(T)
  BY FS_Subset, SourcesAssumption
<1>2. Cardinality(S) \in Nat /\ Cardinality(T) \in Nat
  BY <1>1, FS_CardinalityType
<1>3. ASSUME c \in S, c \notin T  PROVE Cardinality(S) = Cardinality(T) + 1
  <2>1. S = T \cup {c}
    BY <1>3
  <2>. QED  BY <2>1, <1>1, <1>3, FS_AddElement
<1>4. ASSUME c \notin S, c \in T  PROVE Cardinality(T) = Cardinality(S) + 1
  <2>1. T = S \cup {c}
    BY <1>4
  <2>. QED  BY <2>1, <1>1, <1>4, FS_AddElement
<1>5. (c \in S <=> c \in T) => S = T
  OBVIOUS
<1>. QED  BY <1>2, <1>3, <1>4, <1>5

\* Only copy c changes where it is shown.
LEMMA ShownMoves ==
  ASSUME NEW x, NEW y, NEW c \in Cops,
         \A d \in Cops : d # c => /\ y.cop[d].source = x.cop[d].source
                                  /\ y.cop[d].shown = x.cop[d].shown,
         NEW u
  PROVE  /\ ShownOn(x, u) \subseteq Cops /\ ShownOn(y, u) \subseteq Cops
         /\ ShownOn(y, u) \ {c} = ShownOn(x, u) \ {c}
         /\ c \in ShownOn(x, u) <=> x.cop[c].source = u /\ x.cop[c].shown
         /\ c \in ShownOn(y, u) <=> y.cop[c].source = u /\ y.cop[c].shown
  BY DEF ShownOn

LEMMA ShownSame ==
  ASSUME NEW x, NEW y, NEW u,
         \A d \in Cops : /\ y.cop[d].source = u <=> x.cop[d].source = u
                         /\ y.cop[d].shown = x.cop[d].shown
  PROVE  ShownOn(y, u) = ShownOn(x, u)
  BY DEF ShownOn

-----------------------------------------------------------------------------
(* A state in which one source or one copy is changed. *)

Put(x, u, s) == [site |-> [x.site EXCEPT ![u] = s], cop |-> x.cop]

PutCop(x, c, k) == [site |-> x.site, cop |-> [x.cop EXCEPT ![c] = k]]

LEMMA PutFacts ==
  ASSUME NEW x \in States, NEW u \in Sites, NEW s \in Sourcerec
  PROVE  /\ Put(x, u, s) \in States
         /\ Put(x, u, s).cop = x.cop
         /\ Put(x, u, s).site[u] = s
         /\ \A w \in Sites \ {u} : Put(x, u, s).site[w] = x.site[w]
  BY DEF Put, States

LEMMA PutCopFacts ==
  ASSUME NEW x \in States, NEW c \in Cops, NEW k \in Coprec
  PROVE  /\ PutCop(x, c, k) \in States
         /\ PutCop(x, c, k).site = x.site
         /\ PutCop(x, c, k).cop[c] = k
         /\ \A d \in Cops \ {c} : PutCop(x, c, k).cop[d] = x.cop[d]
  BY DEF PutCop, States

LEMMA StateFacts ==
  ASSUME NEW x \in States
  PROVE  /\ \A u \in Sites : x.site[u] \in Sourcerec
         /\ \A c \in Cops : x.cop[c] \in Coprec
  BY DEF States

WithShown(s, a, b) == [s EXCEPT !.dispcount = a, !.task = b]

SetShown(x, u, a, b) ==
  [x EXCEPT !.site[u].dispcount = a, !.site[u].task = b]

LEMMA PutShown ==
  ASSUME NEW x \in States, NEW u \in Sites, NEW a, NEW b
  PROVE  SetShown(x, u, a, b)
           = Put(x, u, WithShown(x.site[u], a, b))
<1>. DEFINE y1 == [x EXCEPT !.site[u].dispcount = a]
            y2 == [y1 EXCEPT !.site[u].task = b]
            r1 == [x.site[u] EXCEPT !.dispcount = a]
            r2 == [r1 EXCEPT !.task = b]
<1>1. SetShown(x, u, a, b) = y2
  BY DEF SetShown
<1>2. WithShown(x.site[u], a, b) = r2
  BY DEF WithShown
<1>3. y1 = Put(x, u, r1)
  BY DEF States, Put
<1>4. y2 = Put(x, u, r2)
  <2>. HIDE DEF y1, r1
  <2>. QED  BY <1>3 DEF States, Put
<1>. QED  BY <1>1, <1>2, <1>4

WithDropped(s, a, b, d) == [s EXCEPT !.driver = a, !.whole = b, !.task = d]

SetDropped(x, u, a, b, d) ==
  [x EXCEPT !.site[u].driver = a, !.site[u].whole = b, !.site[u].task = d]

LEMMA PutDropped ==
  ASSUME NEW x \in States, NEW u \in Sites, NEW a, NEW b, NEW d
  PROVE  SetDropped(x, u, a, b, d)
           = Put(x, u, WithDropped(x.site[u], a, b, d))
<1>. DEFINE y1 == [x EXCEPT !.site[u].driver = a]
            y2 == [y1 EXCEPT !.site[u].whole = b]
            y3 == [y2 EXCEPT !.site[u].task = d]
            r1 == [x.site[u] EXCEPT !.driver = a]
            r2 == [r1 EXCEPT !.whole = b]
            r3 == [r2 EXCEPT !.task = d]
<1>1. SetDropped(x, u, a, b, d) = y3
  BY DEF SetDropped
<1>2. WithDropped(x.site[u], a, b, d) = r3
  BY DEF WithDropped
<1>3. y1 = Put(x, u, r1)
  BY DEF States, Put
<1>4. y2 = Put(x, u, r2)
  <2>. HIDE DEF y1, r1
  <2>. QED  BY <1>3 DEF States, Put
<1>5. y3 = Put(x, u, r3)
  <2>. HIDE DEF y2, r2
  <2>. QED  BY <1>4 DEF States, Put
<1>. QED  BY <1>1, <1>2, <1>5

WithFetch(s, a, b) == [s EXCEPT !.loading = a, !.kept = b]

SetFetch(x, u, a, b) ==
  [x EXCEPT !.site[u].loading = a, !.site[u].kept = b]

LEMMA PutFetch ==
  ASSUME NEW x \in States, NEW u \in Sites, NEW a, NEW b
  PROVE  SetFetch(x, u, a, b)
           = Put(x, u, WithFetch(x.site[u], a, b))
<1>. DEFINE y1 == [x EXCEPT !.site[u].loading = a]
            y2 == [y1 EXCEPT !.site[u].kept = b]
            r1 == [x.site[u] EXCEPT !.loading = a]
            r2 == [r1 EXCEPT !.kept = b]
<1>1. SetFetch(x, u, a, b) = y2
  BY DEF SetFetch
<1>2. WithFetch(x.site[u], a, b) = r2
  BY DEF WithFetch
<1>3. y1 = Put(x, u, r1)
  BY DEF States, Put
<1>4. y2 = Put(x, u, r2)
  <2>. HIDE DEF y1, r1
  <2>. QED  BY <1>3 DEF States, Put
<1>. QED  BY <1>1, <1>2, <1>4

WithReload(s, a, b, d) == [s EXCEPT !.verifying = a, !.movedto = b, !.kept = d]

SetReload(x, u, a, b, d) ==
  [x EXCEPT !.site[u].verifying = a, !.site[u].movedto = b, !.site[u].kept = d]

LEMMA PutReload ==
  ASSUME NEW x \in States, NEW u \in Sites, NEW a, NEW b, NEW d
  PROVE  SetReload(x, u, a, b, d)
           = Put(x, u, WithReload(x.site[u], a, b, d))
<1>. DEFINE y1 == [x EXCEPT !.site[u].verifying = a]
            y2 == [y1 EXCEPT !.site[u].movedto = b]
            y3 == [y2 EXCEPT !.site[u].kept = d]
            r1 == [x.site[u] EXCEPT !.verifying = a]
            r2 == [r1 EXCEPT !.movedto = b]
            r3 == [r2 EXCEPT !.kept = d]
<1>1. SetReload(x, u, a, b, d) = y3
  BY DEF SetReload
<1>2. WithReload(x.site[u], a, b, d) = r3
  BY DEF WithReload
<1>3. y1 = Put(x, u, r1)
  BY DEF States, Put
<1>4. y2 = Put(x, u, r2)
  <2>. HIDE DEF y1, r1
  <2>. QED  BY <1>3 DEF States, Put
<1>5. y3 = Put(x, u, r3)
  <2>. HIDE DEF y2, r2
  <2>. QED  BY <1>4 DEF States, Put
<1>. QED  BY <1>1, <1>2, <1>5

WithVerify(s, a, b) == [s EXCEPT !.verifying = a, !.loading = b]

SetVerify(x, u, a, b) ==
  [x EXCEPT !.site[u].verifying = a, !.site[u].loading = b]

LEMMA PutVerify ==
  ASSUME NEW x \in States, NEW u \in Sites, NEW a, NEW b
  PROVE  SetVerify(x, u, a, b)
           = Put(x, u, WithVerify(x.site[u], a, b))
<1>. DEFINE y1 == [x EXCEPT !.site[u].verifying = a]
            y2 == [y1 EXCEPT !.site[u].loading = b]
            r1 == [x.site[u] EXCEPT !.verifying = a]
            r2 == [r1 EXCEPT !.loading = b]
<1>1. SetVerify(x, u, a, b) = y2
  BY DEF SetVerify
<1>2. WithVerify(x.site[u], a, b) = r2
  BY DEF WithVerify
<1>3. y1 = Put(x, u, r1)
  BY DEF States, Put
<1>4. y2 = Put(x, u, r2)
  <2>. HIDE DEF y1, r1
  <2>. QED  BY <1>3 DEF States, Put
<1>. QED  BY <1>1, <1>2, <1>4

WithMoved(s, a, b, d) == [s EXCEPT !.loading = a, !.movedto = b, !.kept = d]

SetMoved(x, u, a, b, d) ==
  [x EXCEPT !.site[u].loading = a, !.site[u].movedto = b, !.site[u].kept = d]

LEMMA PutMoved ==
  ASSUME NEW x \in States, NEW u \in Sites, NEW a, NEW b, NEW d
  PROVE  SetMoved(x, u, a, b, d)
           = Put(x, u, WithMoved(x.site[u], a, b, d))
<1>. DEFINE y1 == [x EXCEPT !.site[u].loading = a]
            y2 == [y1 EXCEPT !.site[u].movedto = b]
            y3 == [y2 EXCEPT !.site[u].kept = d]
            r1 == [x.site[u] EXCEPT !.loading = a]
            r2 == [r1 EXCEPT !.movedto = b]
            r3 == [r2 EXCEPT !.kept = d]
<1>1. SetMoved(x, u, a, b, d) = y3
  BY DEF SetMoved
<1>2. WithMoved(x.site[u], a, b, d) = r3
  BY DEF WithMoved
<1>3. y1 = Put(x, u, r1)
  BY DEF States, Put
<1>4. y2 = Put(x, u, r2)
  <2>. HIDE DEF y1, r1
  <2>. QED  BY <1>3 DEF States, Put
<1>5. y3 = Put(x, u, r3)
  <2>. HIDE DEF y2, r2
  <2>. QED  BY <1>4 DEF States, Put
<1>. QED  BY <1>1, <1>2, <1>5

WithDecoded(s, a, b) == [s EXCEPT !.whole = a, !.task = b]

SetDecoded(x, u, a, b) ==
  [x EXCEPT !.site[u].whole = a, !.site[u].task = b]

LEMMA PutDecoded ==
  ASSUME NEW x \in States, NEW u \in Sites, NEW a, NEW b
  PROVE  SetDecoded(x, u, a, b)
           = Put(x, u, WithDecoded(x.site[u], a, b))
<1>. DEFINE y1 == [x EXCEPT !.site[u].whole = a]
            y2 == [y1 EXCEPT !.site[u].task = b]
            r1 == [x.site[u] EXCEPT !.whole = a]
            r2 == [r1 EXCEPT !.task = b]
<1>1. SetDecoded(x, u, a, b) = y2
  BY DEF SetDecoded
<1>2. WithDecoded(x.site[u], a, b) = r2
  BY DEF WithDecoded
<1>3. y1 = Put(x, u, r1)
  BY DEF States, Put
<1>4. y2 = Put(x, u, r2)
  <2>. HIDE DEF y1, r1
  <2>. QED  BY <1>3 DEF States, Put
<1>. QED  BY <1>1, <1>2, <1>4

WithJoined(s, a, b, d) == [s EXCEPT !.source = a, !.copf = b, !.driven = d]

SetJoined(x, c, a, b, d) ==
  [x EXCEPT !.cop[c].source = a, !.cop[c].copf = b, !.cop[c].driven = d]

LEMMA PutJoined ==
  ASSUME NEW x \in States, NEW c \in Cops, NEW a, NEW b, NEW d
  PROVE  SetJoined(x, c, a, b, d)
           = PutCop(x, c, WithJoined(x.cop[c], a, b, d))
<1>. DEFINE y1 == [x EXCEPT !.cop[c].source = a]
            y2 == [y1 EXCEPT !.cop[c].copf = b]
            y3 == [y2 EXCEPT !.cop[c].driven = d]
            r1 == [x.cop[c] EXCEPT !.source = a]
            r2 == [r1 EXCEPT !.copf = b]
            r3 == [r2 EXCEPT !.driven = d]
<1>1. SetJoined(x, c, a, b, d) = y3
  BY DEF SetJoined
<1>2. WithJoined(x.cop[c], a, b, d) = r3
  BY DEF WithJoined
<1>3. y1 = PutCop(x, c, r1)
  BY DEF States, PutCop
<1>4. y2 = PutCop(x, c, r2)
  <2>. HIDE DEF y1, r1
  <2>. QED  BY <1>3 DEF States, PutCop
<1>5. y3 = PutCop(x, c, r3)
  <2>. HIDE DEF y2, r2
  <2>. QED  BY <1>4 DEF States, PutCop
<1>. QED  BY <1>1, <1>2, <1>5

-----------------------------------------------------------------------------
(* What the operations on a state do. *)

\* The fields of a source that showing and hiding leave alone.
Alike(s, t) ==
  /\ t.driver = s.driver /\ t.whole = s.whole /\ t.loading = s.loading
  /\ t.verifying = s.verifying /\ t.movedto = s.movedto /\ t.kept = s.kept

LEMMA ShowFacts ==
  ASSUME NEW x \in States, NEW u \in Sites, screen \in BOOLEAN
  PROVE  LET y == Showsource(x, u)
         IN /\ y \in States /\ y.cop = x.cop
            /\ \A w \in Sites : Alike(x.site[w], y.site[w])
            /\ \A w \in Sites \ {u} : y.site[w] = x.site[w]
            /\ y.site[u].dispcount = x.site[u].dispcount + 1
            /\ DecodedAt(x.site[u]) => DecodedAt(y.site[u])
<1>. DEFINE y == Showsource(x, u)
            s == x.site[u]
            start == s.dispcount = 0 /\ s.driver = "image" /\ s.whole /\ screen
            n == s.dispcount + 1
<1>1. s \in Sourcerec /\ s.task \in BOOLEAN /\ start \in BOOLEAN
  BY StateFacts DEF Sourcerec
<1>0. PICK b \in BOOLEAN : b = (s.task \/ start)
  <2>. HIDE DEF start, s
  <2>. QED  BY <1>1
<1>. DEFINE t == WithShown(s, n, b)
<1>2. /\ t \in Sourcerec
      /\ t.driver = s.driver /\ t.whole = s.whole /\ t.loading = s.loading
      /\ t.verifying = s.verifying /\ t.movedto = s.movedto /\ t.kept = s.kept
      /\ t.dispcount = n /\ t.task = b
  <2>1. n \in Nat
    BY <1>1 DEF Sourcerec
  <2>. HIDE DEF s, n
  <2>. QED  BY <1>1, <1>0, <2>1 DEF Sourcerec, WithShown
<1>3. y = Put(x, u, t)
  <2>1. y = [x EXCEPT !.site[u].dispcount = n, !.site[u].task = s.task \/ start]
    BY DEF Showsource, States
  <2>2. y = SetShown(x, u, n, b)
    BY <2>1, <1>0 DEF SetShown
  <2>. HIDE DEF y, n
  <2>. QED  BY <2>2, PutShown
<1>. HIDE DEF t, y
<1>4. DecodedAt(s) => DecodedAt(t)
  <2>1. s.dispcount \in Nat
    BY <1>1 DEF Sourcerec
  <2>2. s.dispcount = 0 \/ s.dispcount > 0
    BY <2>1
  <2>. HIDE DEF s
  <2>. QED  BY <1>0, <1>2, <2>2 DEF DecodedAt
<1>5. Alike(s, t)
  <2>. HIDE DEF s
  <2>. QED  BY <1>2 DEF Alike
<1>6. /\ y \in States /\ y.cop = x.cop /\ y.site[u] = t
      /\ \A w \in Sites \ {u} : y.site[w] = x.site[w]
  BY <1>2, <1>3, PutFacts
<1>7. \A w \in Sites : Alike(x.site[w], y.site[w])
  BY <1>5, <1>6 DEF Alike
<1>. QED  BY <1>2, <1>4, <1>6, <1>7 DEF y

LEMMA HideFacts ==
  ASSUME NEW x \in States, NEW u \in Sites
  PROVE  LET y == Hidesource(x, u)
         IN /\ y \in States /\ y.cop = x.cop
            /\ \A w \in Sites : Alike(x.site[w], y.site[w])
            /\ \A w \in Sites \ {u} : y.site[w] = x.site[w]
            /\ y.site[u].dispcount = IF x.site[u].dispcount = 0 THEN 0
                                     ELSE x.site[u].dispcount - 1
            /\ DecodedAt(x.site[u]) => DecodedAt(y.site[u])
<1>. DEFINE y == Hidesource(x, u)
            s == x.site[u]
            t == [s EXCEPT !.dispcount = IF @ = 0 THEN 0 ELSE @ - 1]
<1>1. s \in Sourcerec
  BY StateFacts
<1>2. /\ t \in Sourcerec
      /\ t.driver = s.driver /\ t.whole = s.whole /\ t.loading = s.loading
      /\ t.verifying = s.verifying /\ t.movedto = s.movedto /\ t.kept = s.kept
      /\ t.dispcount = (IF s.dispcount = 0 THEN 0 ELSE s.dispcount - 1) /\ t.task = s.task
  BY <1>1 DEF Sourcerec
<1>3. y = Put(x, u, t)
  BY DEF Hidesource, States, Put
<1>. HIDE DEF t, y
<1>4. DecodedAt(s) => DecodedAt(t)
  <2>1. s.dispcount \in Nat
    BY <1>1 DEF Sourcerec
  <2>2. t.dispcount > 0 => s.dispcount > 0
    BY <2>1, <1>2
  <2>. HIDE DEF s
  <2>. QED  BY <1>2, <2>2 DEF DecodedAt
<1>5. Alike(s, t)
  <2>. HIDE DEF s
  <2>. QED  BY <1>2 DEF Alike
<1>6. /\ y \in States /\ y.cop = x.cop /\ y.site[u] = t
      /\ \A w \in Sites \ {u} : y.site[w] = x.site[w]
  BY <1>2, <1>3, PutFacts
<1>7. \A w \in Sites : Alike(x.site[w], y.site[w])
  BY <1>5, <1>6 DEF Alike
<1>. QED  BY <1>2, <1>4, <1>6, <1>7 DEF y

\* What joining and leaving a source, and getting and losing a driver, leave alone.
Samecopy(k, l) == l.source = k.source /\ l.shown = k.shown /\ l.load = k.load

LEMMA UseFacts ==
  ASSUME NEW x \in States, NEW u \in Sites
  PROVE  LET y == Usedriver(x, u)
         IN /\ y \in States /\ y.site = x.site
            /\ \A c \in Cops : Samecopy(x.cop[c], y.cop[c])
            /\ \A c \in Cops :
                 x.site[u].driver = "none" \/ x.cop[c].source # u \/ x.cop[c].copf =>
                   y.cop[c] = x.cop[c]
            /\ \A c \in Cops :
                 x.site[u].driver # "none" /\ x.cop[c].source = u /\ ~x.cop[c].copf =>
                   /\ y.cop[c].copf
                   /\ y.cop[c].driven = ~Refuses(c, x.site[u].driver)
<1>. DEFINE y == Usedriver(x, u)
            kind == x.site[u].driver
            Hit(c) == kind # "none" /\ x.cop[c].source = u /\ ~x.cop[c].copf
            Serve(c) == IF Hit(c)
                        THEN [x.cop[c] EXCEPT !.copf = TRUE, !.driven = ~Refuses(c, kind)]
                        ELSE x.cop[c]
            k == [c \in Cops |-> Serve(c)]
<1>1. y = [site |-> x.site, cop |-> k]
  <2>1. y = [x EXCEPT !.cop = k]
    BY DEF Usedriver
  <2>. HIDE DEF y, k
  <2>. QED  BY <2>1 DEF States
<1>2. ASSUME NEW c \in Cops
      PROVE  /\ Serve(c) \in Coprec /\ Samecopy(x.cop[c], Serve(c))
             /\ ~Hit(c) => Serve(c) = x.cop[c]
             /\ Hit(c) => Serve(c).copf /\ Serve(c).driven = ~Refuses(c, kind)
  <2>1. x.cop[c] \in Coprec
    BY StateFacts
  <2>2. PICK b \in BOOLEAN : b = ~Refuses(c, kind)
    BY DEF Refuses
  <2>. HIDE DEF kind
  <2>3. Hit(c) => Serve(c) = [x.cop[c] EXCEPT !.copf = TRUE, !.driven = b]
    BY <2>2
  <2>. HIDE DEF Hit
  <2>. QED  BY <2>1, <2>2, <2>3 DEF Coprec, Samecopy
<1>. HIDE DEF Serve, y
<1>3. k \in [Cops -> Coprec] /\ \A c \in Cops : k[c] = Serve(c)
  BY <1>2
<1>. HIDE DEF k
<1>4. y \in States /\ y.site = x.site /\ y.cop = k
  BY <1>1, <1>3 DEF States
<1>. QED  BY <1>2, <1>3, <1>4 DEF y

LEMMA DropFacts ==
  ASSUME NEW x \in States, NEW u \in Sites
  PROVE  LET y == Dropdrivers(x, u)
         IN /\ y \in States
            /\ \A w \in Sites \ {u} : y.site[w] = x.site[w]
            /\ y.site[u].driver = "none" /\ y.site[u].whole = FALSE
            /\ y.site[u].loading = x.site[u].loading
            /\ y.site[u].verifying = x.site[u].verifying
            /\ y.site[u].movedto = x.site[u].movedto
            /\ y.site[u].kept = x.site[u].kept
            /\ y.site[u].dispcount = x.site[u].dispcount
            /\ \A c \in Cops : Samecopy(x.cop[c], y.cop[c])
            /\ \A c \in Cops : x.cop[c].source # u => y.cop[c] = x.cop[c]
            /\ \A c \in Cops :
                 x.cop[c].source = u => y.cop[c].copf = FALSE /\ y.cop[c].driven = FALSE
<1>. DEFINE y == Dropdrivers(x, u)
            t == WithDropped(x.site[u], "none", FALSE, FALSE)
            z == SetDropped(x, u, "none", FALSE, FALSE)
            Clear(c) == IF x.cop[c].source = u
                        THEN [x.cop[c] EXCEPT !.copf = FALSE, !.driven = FALSE]
                        ELSE x.cop[c]
            k == [c \in Cops |-> Clear(c)]
<1>1. y = [z EXCEPT !.cop = k]
  BY DEF Dropdrivers, SetDropped
<1>2. z = Put(x, u, t)
  BY PutDropped
<1>3. x.site[u] \in Sourcerec
  BY StateFacts
<1>4. /\ t \in Sourcerec
      /\ t.driver = "none" /\ t.whole = FALSE /\ t.loading = x.site[u].loading
      /\ t.verifying = x.site[u].verifying /\ t.movedto = x.site[u].movedto
      /\ t.kept = x.site[u].kept /\ t.dispcount = x.site[u].dispcount
  BY <1>3 DEF Sourcerec, WithDropped
<1>. HIDE DEF t, z, y
<1>5. /\ z \in States /\ z.site[u] = t
      /\ \A w \in Sites \ {u} : z.site[w] = x.site[w]
  BY <1>2, <1>4, PutFacts
<1>6. ASSUME NEW c \in Cops
      PROVE  /\ Clear(c) \in Coprec /\ Samecopy(x.cop[c], Clear(c))
             /\ x.cop[c].source # u => Clear(c) = x.cop[c]
             /\ x.cop[c].source = u => Clear(c).copf = FALSE /\ Clear(c).driven = FALSE
  <2>1. x.cop[c] \in Coprec
    BY StateFacts
  <2>. QED  BY <2>1 DEF Coprec, Samecopy
<1>. HIDE DEF Clear
<1>7. k \in [Cops -> Coprec] /\ \A c \in Cops : k[c] = Clear(c)
  BY <1>6
<1>. HIDE DEF k
<1>8. y \in States /\ y.site = z.site /\ y.cop = k
  BY <1>1, <1>5, <1>7 DEF States
<1>. QED  BY <1>4, <1>5, <1>6, <1>7, <1>8 DEF y

Joins(x, y, c, u) ==
  /\ y \in States /\ Counted(y) /\ Decoded(y)
  /\ \A w \in Sites : Alike(x.site[w], y.site[w])
  /\ \A d \in Cops \ {c} : y.cop[d] = x.cop[d]
  /\ y.cop[c].source = u /\ y.cop[c].copf = FALSE /\ y.cop[c].driven = FALSE
  /\ y.cop[c].shown = x.cop[c].shown /\ y.cop[c].load = x.cop[c].load

\* Copy c, which has no source, joins that of u.
LEMMA JoinFacts ==
  ASSUME NEW x \in States, NEW c \in Cops, NEW u \in Sites, screen \in BOOLEAN,
         x.cop[c].source = NoSite, Counted(x), Decoded(x)
  PROVE  /\ Joins(x, Setsource(x, c, u), c, u)
         /\ \A w \in Sites \ {u} : Setsource(x, c, u).site[w] = x.site[w]
<1>. DEFINE y == Setsource(x, c, u)
            k == WithJoined(x.cop[c], u, FALSE, FALSE)
            z == SetJoined(x, c, u, FALSE, FALSE)
<1>1. y = IF x.cop[c].shown THEN Showsource(z, u) ELSE z
  BY DEF Setsource, SetJoined
<1>2. z = PutCop(x, c, k)
  BY PutJoined
<1>3. x.cop[c] \in Coprec
  BY StateFacts
<1>4. /\ k \in Coprec
      /\ k.source = u /\ k.copf = FALSE /\ k.driven = FALSE
      /\ k.shown = x.cop[c].shown /\ k.load = x.cop[c].load
  BY <1>3 DEF Coprec, WithJoined
<1>. HIDE DEF k, z, y
<1>5. /\ z \in States /\ z.site = x.site /\ z.cop[c] = k
      /\ \A d \in Cops \ {c} : z.cop[d] = x.cop[d]
  BY <1>2, <1>4, PutCopFacts
<1>6. /\ y \in States /\ y.cop = z.cop
      /\ \A w \in Sites : Alike(x.site[w], y.site[w])
      /\ \A w \in Sites \ {u} : y.site[w] = x.site[w]
      /\ y.site[u].dispcount = IF x.cop[c].shown THEN x.site[u].dispcount + 1
                               ELSE x.site[u].dispcount
      /\ DecodedAt(x.site[u]) => DecodedAt(y.site[u])
  <2>1. CASE x.cop[c].shown
    <3>1. y = Showsource(z, u)
      BY <1>1, <2>1
    <3>2. /\ y \in States /\ y.cop = z.cop
          /\ \A w \in Sites : Alike(z.site[w], y.site[w])
          /\ \A w \in Sites \ {u} : y.site[w] = z.site[w]
          /\ y.site[u].dispcount = z.site[u].dispcount + 1
          /\ DecodedAt(z.site[u]) => DecodedAt(y.site[u])
      BY <1>5, <3>1, ShowFacts
    <3>. QED  BY <1>5, <2>1, <3>2
  <2>2. CASE ~x.cop[c].shown
    BY <1>1, <1>5, <2>2 DEF Alike
  <2>. QED  BY <2>1, <2>2
<1>7. Decoded(y)
  BY <1>6 DEF Decoded
<1>8. Counted(y)
  <2>. SUFFICES ASSUME NEW w \in Sites
                PROVE  y.site[w].dispcount = Cardinality(ShownOn(y, w))
    BY DEF Counted
  <2>1. x.site[w].dispcount = Cardinality(ShownOn(x, w))
    BY DEF Counted
  <2>2. \A d \in Cops : d # c => /\ y.cop[d].source = x.cop[d].source
                                 /\ y.cop[d].shown = x.cop[d].shown
    BY <1>5, <1>6
  <2>3. /\ ShownOn(x, w) \subseteq Cops /\ ShownOn(y, w) \subseteq Cops
        /\ ShownOn(y, w) \ {c} = ShownOn(x, w) \ {c}
        /\ c \notin ShownOn(x, w)
        /\ c \in ShownOn(y, w) <=> u = w /\ x.cop[c].shown
    <3>1. /\ ShownOn(x, w) \subseteq Cops /\ ShownOn(y, w) \subseteq Cops
          /\ ShownOn(y, w) \ {c} = ShownOn(x, w) \ {c}
          /\ c \in ShownOn(x, w) <=> x.cop[c].source = w /\ x.cop[c].shown
          /\ c \in ShownOn(y, w) <=> y.cop[c].source = w /\ y.cop[c].shown
      BY ONLY c \in Cops, <2>2, ShownMoves
    <3>2. x.cop[c].source # w
      BY SourcesAssumption
    <3>3. y.cop[c].source = u /\ y.cop[c].shown = x.cop[c].shown
      BY <1>4, <1>5, <1>6
    <3>. QED  BY <3>1, <3>2, <3>3
  <2>4. CASE c \in ShownOn(y, w)
    <3>1. Cardinality(ShownOn(y, w)) = Cardinality(ShownOn(x, w)) + 1
      BY <2>3, <2>4, CountOne
    <3>. QED  BY <3>1, <2>1, <2>3, <2>4, <1>6
  <2>5. CASE c \notin ShownOn(y, w)
    <3>1. ShownOn(y, w) = ShownOn(x, w)
      BY <2>3, <2>5
    <3>. QED  BY <3>1, <2>1, <2>3, <2>5, <1>6
  <2>. QED  BY <2>4, <2>5
<1>9. Joins(x, y, c, u)
  BY <1>4, <1>5, <1>6, <1>7, <1>8 DEF Joins
<1>. QED  BY <1>6, <1>9 DEF y

\* Copy c is no longer displayed, or no longer where it was.
LEMMA HiddenCounted ==
  ASSUME NEW x \in States, NEW c \in Cops, Counted(x), Decoded(x),
         x.cop[c].shown => x.cop[c].source \in Sites,
         NEW y \in States,
         y.site = (IF x.cop[c].shown THEN Hidesource(x, x.cop[c].source) ELSE x).site,
         \A d \in Cops \ {c} : y.cop[d] = x.cop[d],
         \A w \in Sites : c \notin ShownOn(y, w)
  PROVE  Counted(y) /\ Decoded(y) /\ \A w \in Sites : Alike(x.site[w], y.site[w])
<1>. DEFINE old == x.cop[c].source
<1>1. /\ \A w \in Sites : Alike(x.site[w], y.site[w])
      /\ \A w \in Sites : DecodedAt(x.site[w]) => DecodedAt(y.site[w])
      /\ \A w \in Sites :
           y.site[w].dispcount =
             IF x.cop[c].shown /\ w = old
             THEN IF x.site[w].dispcount = 0 THEN 0 ELSE x.site[w].dispcount - 1
             ELSE x.site[w].dispcount
  <2>1. CASE x.cop[c].shown
    <3>. DEFINE h == Hidesource(x, old)
    <3>1. /\ \A w \in Sites : Alike(x.site[w], h.site[w])
          /\ \A w \in Sites \ {old} : h.site[w] = x.site[w]
          /\ h.site[old].dispcount = IF x.site[old].dispcount = 0 THEN 0
                                     ELSE x.site[old].dispcount - 1
          /\ DecodedAt(x.site[old]) => DecodedAt(h.site[old])
      BY <2>1, HideFacts
    <3>2. y.site = h.site /\ old \in Sites
      BY <2>1
    <3>. HIDE DEF h, old
    <3>. QED  BY <2>1, <3>1, <3>2
  <2>2. CASE ~x.cop[c].shown
    BY <2>2 DEF Alike
  <2>. QED  BY <2>1, <2>2
<1>2. Counted(y)
  <2>. SUFFICES ASSUME NEW w \in Sites
                PROVE  y.site[w].dispcount = Cardinality(ShownOn(y, w))
    BY DEF Counted
  <2>1. x.site[w].dispcount = Cardinality(ShownOn(x, w))
    BY DEF Counted
  <2>2. \A d \in Cops : d # c => /\ y.cop[d].source = x.cop[d].source
                                 /\ y.cop[d].shown = x.cop[d].shown
    OBVIOUS
  <2>3. /\ ShownOn(x, w) \subseteq Cops /\ ShownOn(y, w) \subseteq Cops
        /\ ShownOn(y, w) \ {c} = ShownOn(x, w) \ {c}
        /\ c \in ShownOn(x, w) <=> x.cop[c].source = w /\ x.cop[c].shown
    BY ONLY c \in Cops, <2>2, ShownMoves
  <2>4. c \notin ShownOn(y, w)
    OBVIOUS
  <2>5. CASE c \in ShownOn(x, w)
    <3>1. /\ Cardinality(ShownOn(x, w)) = Cardinality(ShownOn(y, w)) + 1
          /\ Cardinality(ShownOn(y, w)) \in Nat
      BY <2>3, <2>4, <2>5, CountOne
    <3>2. y.site[w].dispcount = IF x.site[w].dispcount = 0 THEN 0 ELSE x.site[w].dispcount - 1
      BY <2>3, <2>5, <1>1
    <3>. QED  BY <3>1, <3>2, <2>1
  <2>6. CASE c \notin ShownOn(x, w)
    <3>1. ShownOn(y, w) = ShownOn(x, w)
      BY <2>3, <2>4, <2>6
    <3>2. y.site[w].dispcount = x.site[w].dispcount
      BY <2>3, <2>6, <1>1
    <3>. QED  BY <3>1, <3>2, <2>1
  <2>. QED  BY <2>5, <2>6
<1>. QED  BY <1>1, <1>2 DEF Decoded

Leave(x, c) ==
  LET old == x.cop[c].source
      left == IF old # NoSite /\ x.cop[c].shown THEN Hidesource(x, old) ELSE x
  IN PutCop(left, c, [x.cop[c] EXCEPT !.source = NoSite])

LEMMA LeaveFacts ==
  ASSUME NEW x \in States, NEW c \in Cops, NEW u \in Sites, Counted(x), Decoded(x),
         x.cop[c].source \in Sites
  PROVE  LET y == Leave(x, c)
         IN /\ y \in States /\ Counted(y) /\ Decoded(y)
            /\ \A w \in Sites : Alike(x.site[w], y.site[w])
            /\ \A d \in Cops \ {c} : y.cop[d] = x.cop[d]
            /\ y.cop[c].source = NoSite
            /\ y.cop[c].shown = x.cop[c].shown /\ y.cop[c].load = x.cop[c].load
            /\ Setsource(y, c, u) = Setsource(x, c, u)
<1>. DEFINE y == Leave(x, c)
            old == x.cop[c].source
            left == IF x.cop[c].shown THEN Hidesource(x, old) ELSE x
            k == [x.cop[c] EXCEPT !.source = NoSite]
<1>1. y = PutCop(left, c, k) /\ old # NoSite
  BY SourcesAssumption DEF Leave
<1>2. left \in States /\ left.cop = x.cop
  BY HideFacts
<1>3. x.cop[c] \in Coprec
  BY StateFacts
<1>4. /\ k \in Coprec /\ k.source = NoSite
      /\ k.shown = x.cop[c].shown /\ k.load = x.cop[c].load
      /\ WithJoined(k, u, FALSE, FALSE) = WithJoined(x.cop[c], u, FALSE, FALSE)
  BY <1>3 DEF Coprec, WithJoined
<1>. HIDE DEF k
<1>5. /\ y \in States /\ y.site = left.site /\ y.cop[c] = k
      /\ \A d \in Cops \ {c} : y.cop[d] = x.cop[d]
  <2>. HIDE DEF left, y
  <2>. QED  BY <1>1, <1>2, <1>4, PutCopFacts
<1>6. Setsource(x, c, u) = Setsource(y, c, u)
  <2>1. PICK f \in BOOLEAN : f = FALSE
    OBVIOUS
  <2>. DEFINE j == SetJoined(left, c, u, f, f)
              i == SetJoined(y, c, u, f, f)
              m == WithJoined(x.cop[c], u, f, f)
  <2>2. Setsource(x, c, u) = IF x.cop[c].shown THEN Showsource(j, u) ELSE j
    <3>. DEFINE j0 == SetJoined(left, c, u, FALSE, FALSE)
    <3>1. Setsource(x, c, u) = IF x.cop[c].shown THEN Showsource(j0, u) ELSE j0
      BY <1>1 DEF Setsource, SetJoined
    <3>2. j0 = j
      BY <2>1
    <3>. HIDE DEF j0, j
    <3>. QED  BY <3>1, <3>2
  <2>3. Setsource(y, c, u) = IF x.cop[c].shown THEN Showsource(i, u) ELSE i
    <3>1. y.cop[c].source = NoSite /\ y.cop[c].shown = x.cop[c].shown
      BY <1>4, <1>5
    <3>. HIDE DEF y
    <3>. DEFINE i0 == SetJoined(y, c, u, FALSE, FALSE)
    <3>2. Setsource(y, c, u) = IF y.cop[c].shown THEN Showsource(i0, u) ELSE i0
      BY <3>1 DEF Setsource, SetJoined
    <3>3. i0 = i
      BY <2>1
    <3>. HIDE DEF i0, i
    <3>. QED  BY <3>1, <3>2, <3>3
  <2>. HIDE DEF left, y
  <2>4. j = PutCop(left, c, m)
    <3>1. j = PutCop(left, c, WithJoined(left.cop[c], u, f, f))
      BY ONLY <1>2, c \in Cops, PutJoined
    <3>. QED  BY <3>1, <1>2
  <2>5. i = PutCop(y, c, m)
    <3>1. i = PutCop(y, c, WithJoined(y.cop[c], u, f, f))
      BY ONLY <1>5, c \in Cops, PutJoined
    <3>2. WithJoined(y.cop[c], u, f, f) = m
      BY <1>4, <1>5, <2>1
    <3>. QED  BY <3>1, <3>2
  <2>. HIDE DEF i, j, m
  <2>6. PutCop(y, c, m) = PutCop(left, c, m)
    BY <1>1, <1>2 DEF PutCop, States
  <2>7. i = j
    BY <2>4, <2>5, <2>6
  <2>. QED  BY <2>2, <2>3, <2>7
<1>7. Counted(y) /\ Decoded(y) /\ \A w \in Sites : Alike(x.site[w], y.site[w])
  <2>1. \A w \in Sites : c \notin ShownOn(y, w)
    BY <1>4, <1>5, SourcesAssumption DEF ShownOn
  <2>2. y.site = (IF x.cop[c].shown THEN Hidesource(x, x.cop[c].source) ELSE x).site
    BY <1>5
  <2>. HIDE DEF y
  <2>. QED  BY <1>5, <2>1, <2>2, HiddenCounted
<1>. HIDE DEF y
<1>. QED  BY <1>4, <1>5, <1>6, <1>7 DEF y

\* Copy c leaves its source, if it has one, and joins that of u.
LEMMA SetsourceFacts ==
  ASSUME NEW x \in States, NEW c \in Cops, NEW u \in Sites, screen \in BOOLEAN,
         Counted(x), Decoded(x)
  PROVE  Joins(x, Setsource(x, c, u), c, u)
<1>. DEFINE y == Setsource(x, c, u)
            l == Leave(x, c)
<1>1. CASE x.cop[c].source = NoSite
  BY <1>1, JoinFacts
<1>2. CASE x.cop[c].source \in Sites
  <2>1. /\ l \in States /\ Counted(l) /\ Decoded(l)
        /\ \A w \in Sites : Alike(x.site[w], l.site[w])
        /\ \A d \in Cops \ {c} : l.cop[d] = x.cop[d]
        /\ l.cop[c].source = NoSite
        /\ l.cop[c].shown = x.cop[c].shown /\ l.cop[c].load = x.cop[c].load
        /\ Setsource(l, c, u) = y
    BY <1>2, LeaveFacts
  <2>. HIDE DEF l, y
  <2>2. Joins(l, Setsource(l, c, u), c, u)
    BY <2>1, JoinFacts
  <2>3. Joins(l, y, c, u)
    BY <2>1, <2>2
  <2>4. \A w \in Sites : Alike(x.site[w], y.site[w])
    BY <2>1, <2>3 DEF Joins, Alike
  <2>5. Joins(x, y, c, u)
    BY <2>1, <2>3, <2>4 DEF Joins
  <2>. QED  BY <2>5 DEF y
<1>. QED  BY <1>1, <1>2, StateFacts DEF Coprec

-----------------------------------------------------------------------------
(* Movetourl() moves the copies one after the other. *)

\* Some copies of moving, those in s, have joined the source of v.
Folded(L, y, s, v) ==
  /\ y \in States /\ Counted(y) /\ Decoded(y)
  /\ \A w \in Sites : Alike(L.site[w], y.site[w])
  /\ \A c \in Cops \ s : y.cop[c] = L.cop[c]
  /\ \A c \in s : /\ y.cop[c].source = v /\ y.cop[c].copf = FALSE /\ y.cop[c].driven = FALSE
                  /\ y.cop[c].shown = L.cop[c].shown /\ y.cop[c].load = L.cop[c].load

Ways(iter, L, S, v) ==
  iter = [s \in SUBSET S |->
            IF s = {} THEN L
            ELSE Setsource(iter[s \ {CHOOSE c \in s : TRUE}], CHOOSE c \in s : TRUE, v)]

LEMMA FoldedStep ==
  ASSUME screen \in BOOLEAN, NEW L, NEW y, NEW s, s \subseteq Cops, NEW v \in Sites,
         NEW c \in s, Folded(L, y, s \ {c}, v)
  PROVE  Folded(L, Setsource(y, c, v), s, v)
<1>. DEFINE z == Setsource(y, c, v)
<1>1. c \in Cops /\ y \in States /\ Counted(y) /\ Decoded(y)
  BY DEF Folded
<1>2. Joins(y, z, c, v)
  BY <1>1, SetsourceFacts
<1>. HIDE DEF z
<1>3. y.cop[c] = L.cop[c]
  BY <1>1 DEF Folded
<1>4. \A w \in Sites : Alike(L.site[w], z.site[w])
  BY <1>2 DEF Folded, Joins, Alike
<1>5. \A d \in Cops \ s : z.cop[d] = L.cop[d]
  BY <1>2 DEF Folded, Joins
<1>6. ASSUME NEW d \in s
      PROVE  /\ z.cop[d].source = v /\ z.cop[d].copf = FALSE /\ z.cop[d].driven = FALSE
             /\ z.cop[d].shown = L.cop[d].shown /\ z.cop[d].load = L.cop[d].load
  <2>1. CASE d = c
    BY <1>2, <1>3, <2>1 DEF Joins
  <2>2. CASE d # c
    <3>1. z.cop[d] = y.cop[d] /\ d \in s \ {c}
      BY <1>2, <2>2 DEF Joins
    <3>. QED  BY <3>1 DEF Folded
  <2>. QED  BY <2>1, <2>2
<1>7. z \in States /\ Counted(z) /\ Decoded(z)
  BY <1>2 DEF Joins
<1>8. Folded(L, z, s, v)
  BY <1>4, <1>5, <1>6, <1>7 DEF Folded
<1>. QED  BY <1>8 DEF z

LEMMA FoldExists ==
  ASSUME screen \in BOOLEAN, NEW L \in States, Counted(L), Decoded(L), NEW S, S \subseteq Cops,
         NEW v \in Sites
  PROVE  \E iter : Ways(iter, L, S, v)
<1>. DEFINE V == {y \in States : Counted(y) /\ Decoded(y)}
            one(s) == CHOOSE c \in s : TRUE
            rank == [s \in SUBSET S |-> Cardinality(s)]
            On == {s \in SUBSET S : s # {}}
            next == [s \in SUBSET S |-> s \ {one(s)}]
            F == [p \in V \X SUBSET S |->
                    IF p[2] = {} THEN p[1] ELSE Setsource(p[1], one(p[2]), v)]
            stop == [s \in SUBSET S |-> L]
<1>1. \A s \in SUBSET S : s # {} => one(s) \in s
  OBVIOUS
<1>. HIDE DEF one
<1>2. ASSUME NEW s \in SUBSET S  PROVE IsFiniteSet(s) /\ Cardinality(s) \in Nat
  BY FS_Subset, FS_CardinalityType, SourcesAssumption
<1>3. rank \in [SUBSET S -> Nat]
  BY <1>2
<1>4. ASSUME NEW s \in SUBSET S, s # {}
      PROVE  next[s] \in SUBSET S /\ rank[next[s]] < rank[s]
  <2>1. one(s) \in s /\ next[s] = s \ {one(s)} /\ next[s] \in SUBSET S
    BY <1>1, <1>4
  <2>2. Cardinality(s \ {one(s)}) = Cardinality(s) - 1
    BY <1>2, <2>1, FS_RemoveElement
  <2>3. rank[s] = Cardinality(s) /\ rank[next[s]] = Cardinality(s) - 1
    BY <2>1, <2>2
  <2>. QED  BY <1>2, <2>1, <2>3
<1>. HIDE DEF rank, next
<1>5. Chained(SUBSET S, rank, On, next)
  <2>1. \A s \in SUBSET S : rank[s] \in Nat
    BY <1>3
  <2>2. \A s \in SUBSET S : s \in On => next[s] \in SUBSET S /\ rank[next[s]] < rank[s]
    BY <1>4
  <2>. HIDE DEF On
  <2>. QED  BY <2>1, <2>2 DEF Chained
<1>6. F \in [V \X SUBSET S -> V]
  <2>1. ASSUME NEW y \in V, NEW s \in SUBSET S, s # {}  PROVE Setsource(y, one(s), v) \in V
    <3>1. one(s) \in Cops /\ y \in States /\ Counted(y) /\ Decoded(y)
      BY <1>1, <2>1
    <3>2. Joins(y, Setsource(y, one(s), v), one(s), v)
      BY <3>1, SetsourceFacts
    <3>. QED  BY <3>2 DEF Joins
  <2>. HIDE DEF V
  <2>. QED  BY <2>1
<1>7. stop \in [SUBSET S -> V]
  OBVIOUS
<1>0. ASSUME NEW s \in SUBSET S  PROVE (s \in On <=> s # {}) /\ stop[s] = L
  OBVIOUS
<1>. HIDE DEF V, F, stop, On
<1>8. PICK f \in [SUBSET S -> V] : Computes(f, SUBSET S, On, next, F, stop)
  BY <1>3, <1>5, <1>6, <1>7, StepsExist
<1>9. ASSUME NEW s \in SUBSET S
      PROVE  f[s] = IF s = {} THEN L ELSE Setsource(f[s \ {one(s)}], one(s), v)
  <2>1. Stepped(f, s, On, next, F, stop)
    BY <1>8 DEF Computes
  <2>2. CASE s = {}
    BY <1>0, <2>1, <2>2 DEF Stepped
  <2>3. CASE s # {}
    <3>1. f[s] = F[<<f[next[s]], s>>]
      BY <1>0, <2>1, <2>3 DEF Stepped
    <3>2. next[s] = s \ {one(s)} /\ next[s] \in SUBSET S
      BY DEF next
    <3>3. f[next[s]] \in V
      BY <3>2
    <3>4. F[<<f[next[s]], s>>] = Setsource(f[next[s]], one(s), v)
      BY <2>3, <3>3 DEF F
    <3>. QED  BY <2>3, <3>1, <3>2, <3>4
  <2>. QED  BY <2>2, <2>3
<1>10. f = [s \in SUBSET S |->
              IF s = {} THEN L ELSE Setsource(f[s \ {one(s)}], one(s), v)]
  BY <1>9
<1>. QED  BY <1>10 DEF Ways, one

LEMMA FoldFacts ==
  ASSUME screen \in BOOLEAN, NEW L \in States, Counted(L), Decoded(L), NEW S, S \subseteq Cops,
         NEW v \in Sites
  PROVE  Folded(L, FoldSet(LAMBDA c, y : Setsource(y, c, v), L, S), S, v)
<1>. DEFINE iter == CHOOSE iter : Ways(iter, L, S, v)
            one(s) == CHOOSE c \in s : TRUE
            T == {Cardinality(s) : s \in {t \in SUBSET S : ~Folded(L, iter[t], t, v)}}
<1>1. FoldSet(LAMBDA c, y : Setsource(y, c, v), L, S) = iter[S]
  BY DEF FoldSet, MapThenFoldSet, Ways
<1>2. Ways(iter, L, S, v)
  BY FoldExists
<1>3. \A s \in SUBSET S :
        iter[s] = IF s = {} THEN L ELSE Setsource(iter[s \ {one(s)}], one(s), v)
  <2>. HIDE DEF iter
  <2>. QED  BY <1>2 DEF Ways
<1>4. \A s \in SUBSET S : s # {} => one(s) \in s
  OBVIOUS
<1>. HIDE DEF iter, one
<1>5. ASSUME NEW s \in SUBSET S  PROVE IsFiniteSet(s) /\ Cardinality(s) \in Nat
  BY FS_Subset, FS_CardinalityType, SourcesAssumption
<1>6. T = {}
  <2>. SUFFICES ASSUME T # {}  PROVE FALSE
    OBVIOUS
  <2>1. T \subseteq Nat
    BY <1>5
  <2>2. PICK n \in T : \A m \in T : n <= m
    <3>. HIDE DEF T
    <3>. QED  BY <2>1, SmallestIn
  <2>3. PICK s \in SUBSET S : Cardinality(s) = n /\ ~Folded(L, iter[s], s, v)
    OBVIOUS
  <2>4. s # {}
    <3>1. s = {} => iter[s] = L
      BY <1>3
    <3>2. \A w \in Sites : Alike(L.site[w], L.site[w])
      BY DEF Alike
    <3>. QED  BY <2>3, <3>1, <3>2 DEF Folded
  <2>. DEFINE r == s \ {one(s)}
  <2>5. one(s) \in s /\ r \in SUBSET S
    BY <1>4, <2>4
  <2>6. Cardinality(r) = Cardinality(s) - 1
    BY <1>5, <2>5, FS_RemoveElement
  <2>7. Cardinality(r) \in Nat /\ ~(n <= Cardinality(r))
    BY <1>5, <2>3, <2>5, <2>6
  <2>8. Folded(L, iter[r], r, v)
    <3>1. Cardinality(r) \notin T
      BY <2>2, <2>7
    <3>. QED  BY <2>5, <3>1
  <2>9. iter[s] = Setsource(iter[r], one(s), v)
    BY <1>3, <2>4
  <2>10. s \subseteq Cops
    OBVIOUS
  <2>11. Folded(L, iter[s], s, v)
    BY <2>5, <2>8, <2>9, <2>10, FoldedStep
  <2>. QED  BY <2>3, <2>11
<1>7. Folded(L, iter[S], S, v)
  BY <1>6
<1>. QED  BY <1>1, <1>7

\* The copies of u are copies of v, without drivers, and the source of u is empty.
Moves(x, y, u, v) ==
  /\ y \in States /\ Counted(y) /\ Decoded(y)
  /\ \A w \in Sites \ {u} : Alike(x.site[w], y.site[w])
  /\ y.site[u].driver = "none" /\ y.site[u].whole = FALSE
  /\ y.site[u].loading = x.site[u].loading /\ y.site[u].verifying = x.site[u].verifying
  /\ y.site[u].movedto = x.site[u].movedto /\ y.site[u].kept = x.site[u].kept
  /\ \A c \in Cops : x.cop[c].source # u => y.cop[c] = x.cop[c]
  /\ \A c \in Cops :
       x.cop[c].source = u =>
         /\ y.cop[c].source = v /\ y.cop[c].copf = FALSE /\ y.cop[c].driven = FALSE
         /\ y.cop[c].shown = x.cop[c].shown /\ y.cop[c].load = x.cop[c].load

LEMMA MoveFacts ==
  ASSUME screen \in BOOLEAN, NEW x \in States, NEW u \in Sites, NEW v \in Sites,
         Counted(x), Decoded(x)
  PROVE  Moves(x, Movetourl(x, u, v), u, v)
<1>. DEFINE moving == {c \in Cops : x.cop[c].source = u}
            D == Dropdrivers(x, u)
            t == [D.site[u] EXCEPT !.dispcount = 0]
            alone == [D EXCEPT !.site[u].dispcount = 0]
            Loose(c) == IF c \in moving THEN [alone.cop[c] EXCEPT !.source = NoSite]
                        ELSE alone.cop[c]
            k == [c \in Cops |-> Loose(c)]
            L == [alone EXCEPT !.cop = k]
            y == FoldSet(LAMBDA c, z : Setsource(z, c, v), L, moving)
<1>1. Movetourl(x, u, v) = y
  BY DEF Movetourl
<1>. HIDE DEF y
<1>2. /\ D \in States
      /\ \A w \in Sites \ {u} : D.site[w] = x.site[w]
      /\ D.site[u].driver = "none" /\ D.site[u].whole = FALSE
      /\ D.site[u].loading = x.site[u].loading
      /\ D.site[u].verifying = x.site[u].verifying
      /\ D.site[u].movedto = x.site[u].movedto
      /\ D.site[u].kept = x.site[u].kept
      /\ \A c \in Cops : Samecopy(x.cop[c], D.cop[c])
      /\ \A c \in Cops : x.cop[c].source # u => D.cop[c] = x.cop[c]
      /\ \A c \in Cops :
           x.cop[c].source = u => D.cop[c].copf = FALSE /\ D.cop[c].driven = FALSE
  BY DropFacts
<1>. HIDE DEF D
<1>3. D.site[u] \in Sourcerec
  BY <1>2, StateFacts
<1>4. /\ t \in Sourcerec /\ t.dispcount = 0
      /\ t.driver = D.site[u].driver /\ t.whole = D.site[u].whole
      /\ t.loading = D.site[u].loading /\ t.verifying = D.site[u].verifying
      /\ t.movedto = D.site[u].movedto /\ t.kept = D.site[u].kept
  BY <1>3 DEF Sourcerec
<1>5. alone = Put(D, u, t)
  BY <1>2 DEF Put, States
<1>. HIDE DEF t, alone
<1>6. /\ alone \in States /\ alone.cop = D.cop /\ alone.site[u] = t
      /\ \A w \in Sites \ {u} : alone.site[w] = D.site[w]
  BY <1>2, <1>4, <1>5, PutFacts
<1>7. ASSUME NEW c \in Cops
      PROVE  /\ Loose(c) \in Coprec
             /\ x.cop[c].source # u => Loose(c) = x.cop[c]
             /\ x.cop[c].source = u =>
                  /\ Loose(c).source = NoSite
                  /\ Loose(c).copf = FALSE /\ Loose(c).driven = FALSE
                  /\ Loose(c).shown = x.cop[c].shown /\ Loose(c).load = x.cop[c].load
  <2>1. alone.cop[c] \in Coprec /\ alone.cop[c] = D.cop[c] /\ (c \in moving <=> x.cop[c].source = u)
    BY <1>6, StateFacts
  <2>2. CASE x.cop[c].source # u
    BY <2>1, <2>2, <1>2
  <2>3. CASE x.cop[c].source = u
    <3>1. Loose(c) = [alone.cop[c] EXCEPT !.source = NoSite]
      BY <2>1, <2>3
    <3>2. /\ alone.cop[c].copf = FALSE /\ alone.cop[c].driven = FALSE
          /\ alone.cop[c].shown = x.cop[c].shown /\ alone.cop[c].load = x.cop[c].load
      BY <2>1, <2>3, <1>2 DEF Samecopy
    <3>. HIDE DEF Loose
    <3>. QED  BY <2>1, <2>3, <3>1, <3>2 DEF Coprec
  <2>. QED  BY <2>2, <2>3
<1>8. moving \subseteq Cops /\ \A c \in Cops : c \in moving <=> x.cop[c].source = u
  OBVIOUS
<1>. HIDE DEF Loose, moving
<1>9. k \in [Cops -> Coprec] /\ \A c \in Cops : k[c] = Loose(c)
  BY <1>7
<1>. HIDE DEF k
<1>10. L \in States /\ L.site = alone.site /\ L.cop = k
  BY <1>6, <1>9 DEF States
<1>. HIDE DEF L
<1>11. Counted(L)
  <2>. SUFFICES ASSUME NEW w \in Sites
                PROVE  L.site[w].dispcount = Cardinality(ShownOn(L, w))
    BY DEF Counted
  <2>1. CASE w = u
    <3>1. ASSUME NEW c \in Cops  PROVE L.cop[c].source # u
      <4>1. L.cop[c] = Loose(c) /\ NoSite # u
        BY <1>9, <1>10, SourcesAssumption
      <4>. QED  BY <4>1, <1>7
    <3>2. ShownOn(L, w) = {}
      BY <2>1, <3>1 DEF ShownOn
    <3>3. Cardinality(ShownOn(L, w)) = 0
      BY <3>2, FS_EmptySet
    <3>. QED  BY <2>1, <3>3, <1>4, <1>6, <1>10
  <2>2. CASE w # u
    <3>1. ASSUME NEW c \in Cops
          PROVE  /\ L.cop[c].source = w <=> x.cop[c].source = w
                 /\ L.cop[c].shown = x.cop[c].shown
      <4>1. L.cop[c] = Loose(c) /\ NoSite # w
        BY <1>9, <1>10, SourcesAssumption
      <4>2. CASE x.cop[c].source = u
        <5>1. L.cop[c].source = NoSite /\ L.cop[c].shown = x.cop[c].shown
          BY <4>1, <4>2, <1>7
        <5>. QED  BY <4>1, <4>2, <5>1, <2>2
      <4>3. CASE x.cop[c].source # u
        <5>1. L.cop[c] = x.cop[c]
          BY <4>1, <4>3, <1>7
        <5>. QED  BY <5>1
      <4>. QED  BY <4>2, <4>3
    <3>2. ShownOn(L, w) = ShownOn(x, w)
      BY ONLY <3>1, ShownSame
    <3>3. L.site[w] = x.site[w]
      BY <1>2, <1>6, <1>10, <2>2
    <3>. QED  BY <3>2, <3>3 DEF Counted
  <2>. QED  BY <2>1, <2>2
<1>12. Decoded(L)
  <2>1. \A w \in Sites : w # u => L.site[w] = x.site[w]
    BY <1>2, <1>6, <1>10
  <2>2. L.site[u].driver = "none"
    BY <1>2, <1>4, <1>6, <1>10
  <2>. QED  BY <2>1, <2>2 DEF Decoded, DecodedAt
<1>13. Folded(L, y, moving, v)
  BY <1>8, <1>10, <1>11, <1>12, FoldFacts DEF y
<1>14. ASSUME NEW w \in Sites \ {u}  PROVE Alike(x.site[w], y.site[w])
  <2>1. L.site[w] = x.site[w] /\ Alike(L.site[w], y.site[w])
    BY <1>2, <1>6, <1>10, <1>13 DEF Folded
  <2>. QED  BY <2>1
<1>15. /\ y.site[u].driver = "none" /\ y.site[u].whole = FALSE
       /\ y.site[u].loading = x.site[u].loading /\ y.site[u].verifying = x.site[u].verifying
       /\ y.site[u].movedto = x.site[u].movedto /\ y.site[u].kept = x.site[u].kept
  <2>1. L.site[u] = t /\ Alike(t, y.site[u])
    BY <1>6, <1>10, <1>13 DEF Folded
  <2>. QED  BY <2>1, <1>2, <1>4 DEF Alike
<1>16. ASSUME NEW c \in Cops, x.cop[c].source # u  PROVE y.cop[c] = x.cop[c]
  <2>1. y.cop[c] = L.cop[c] /\ L.cop[c] = Loose(c)
    BY <1>8, <1>9, <1>10, <1>13, <1>16 DEF Folded
  <2>. QED  BY <2>1, <1>7, <1>16
<1>17. ASSUME NEW c \in Cops, x.cop[c].source = u
       PROVE  /\ y.cop[c].source = v /\ y.cop[c].copf = FALSE /\ y.cop[c].driven = FALSE
              /\ y.cop[c].shown = x.cop[c].shown /\ y.cop[c].load = x.cop[c].load
  <2>1. /\ y.cop[c].source = v /\ y.cop[c].copf = FALSE /\ y.cop[c].driven = FALSE
        /\ y.cop[c].shown = L.cop[c].shown /\ y.cop[c].load = L.cop[c].load
        /\ L.cop[c] = Loose(c)
    BY <1>8, <1>9, <1>10, <1>13, <1>17 DEF Folded
  <2>. QED  BY <2>1, <1>7, <1>17
<1>18. y \in States /\ Counted(y) /\ Decoded(y)
  BY <1>13 DEF Folded
<1>. QED  BY <1>1, <1>14, <1>15, <1>16, <1>17, <1>18 DEF Moves

-----------------------------------------------------------------------------
(* What they keep true. *)

LEMMA SoundFacts ==
  ASSUME NEW x, Sound(x)
  PROVE  /\ x \in States /\ Counted(x) /\ Matched(x) /\ Decoded(x) /\ Settled(x)
         /\ Gone(x) /\ Acyclic(x) /\ Homed(x)
  BY DEF Sound, Base

LEMMA AlikeKeeps ==
  ASSUME NEW x \in States, NEW y \in States,
         \A w \in Sites : Alike(x.site[w], y.site[w])
  PROVE  /\ Settled(x) => Settled(y)
         /\ Gone(x) => Gone(y)
         /\ Acyclic(x) => Acyclic(y) /\ \A u \in Sites : Finalurl(y, u) = Finalurl(x, u)
<1>1. Settled(x) => Settled(y)
  BY DEF Settled, SettledAt, Alike
<1>2. Gone(x) => Gone(y)
  BY DEF Gone, Alike
<1>3. \A w \in Sites : /\ y.site[w].movedto = x.site[w].movedto
                       /\ y.site[w].kept = x.site[w].kept
  BY DEF Alike
<1>4. ASSUME Acyclic(x), NEW u \in Sites
      PROVE  Acyclic(y) /\ Finalurl(y, u) = Finalurl(x, u)
  BY ONLY <1>3, <1>4, x \in States, y \in States, FinalSame
<1>5. Acyclic(x) => Acyclic(y)
  BY <1>3 DEF Acyclic, Descends
<1>. QED  BY <1>1, <1>2, <1>4, <1>5

LEMMA JoinKeeps ==
  ASSUME NEW x, Sound(x), NEW c \in Cops, NEW u \in Sites, NEW y, Joins(x, y, c, u)
  PROVE  /\ Sound(y)
         /\ \A w \in Sites : Finalurl(y, w) = Finalurl(x, w)
         /\ \A w \in Sites \ {u} : ServedAt(x, w) => ServedAt(y, w)
         /\ x.cop[c].load # "asked" /\ ServedAt(x, u) => ServedAt(y, u)
<1>1. /\ x \in States /\ Matched(x) /\ Settled(x) /\ Gone(x) /\ Acyclic(x) /\ Homed(x)
      /\ u # NoSite
  BY SoundFacts, SourcesAssumption
<1>2. /\ y \in States /\ Counted(y) /\ Decoded(y)
      /\ \A w \in Sites : Alike(x.site[w], y.site[w])
      /\ \A d \in Cops \ {c} : y.cop[d] = x.cop[d]
      /\ y.cop[c].source = u /\ y.cop[c].copf = FALSE /\ y.cop[c].driven = FALSE
      /\ y.cop[c].load = x.cop[c].load
  BY DEF Joins
<1>3. /\ Settled(y) /\ Gone(y) /\ Acyclic(y)
      /\ \A w \in Sites : Finalurl(y, w) = Finalurl(x, w)
  BY <1>1, <1>2, AlikeKeeps
<1>4. Homed(y)
  BY <1>1, <1>2 DEF Homed
<1>5. Matched(y)
  <2>. SUFFICES ASSUME NEW d \in Cops  PROVE MatchedAt(y, d)
    BY DEF Matched
  <2>1. CASE d = c
    BY <2>1, <1>2 DEF MatchedAt
  <2>2. CASE d # c
    <3>1. y.cop[d] = x.cop[d] /\ MatchedAt(x, d)
      BY <2>2, <1>1, <1>2 DEF Matched
    <3>2. x.cop[d].copf => y.site[x.cop[d].source].driver = x.site[x.cop[d].source].driver
      <4>1. x.cop[d].source \in Sites \cup {NoSite}
        BY <1>1, StateFacts DEF Coprec
      <4>. QED  BY <4>1, <3>1, <1>2 DEF MatchedAt, Alike
    <3>. QED  BY <3>1, <3>2 DEF MatchedAt
  <2>. QED  BY <2>1, <2>2
<1>6. ASSUME NEW w \in Sites, w # u \/ x.cop[c].load # "asked", ServedAt(x, w)
      PROVE  ServedAt(y, w)
  <2>1. Alike(x.site[w], y.site[w])
    BY <1>2
  <2>. QED  BY <2>1, <1>2, <1>6 DEF ServedAt, Alike
<1>. QED  BY <1>2, <1>3, <1>4, <1>5, <1>6 DEF Sound, Base

LEMMA UseKeeps ==
  ASSUME NEW x, Sound(x), NEW u \in Sites
  PROVE  /\ Sound(Usedriver(x, u)) /\ Usedriver(x, u).site = x.site
         /\ ServedAt(Usedriver(x, u), u)
         /\ \A w \in Sites : ServedAt(x, w) => ServedAt(Usedriver(x, u), w)
<1>. DEFINE y == Usedriver(x, u)
            kind == x.site[u].driver
<1>1. /\ x \in States /\ Counted(x) /\ Matched(x) /\ Decoded(x) /\ Settled(x)
      /\ Gone(x) /\ Acyclic(x) /\ Homed(x)
  BY SoundFacts
<1>2. /\ y \in States /\ y.site = x.site
      /\ \A c \in Cops : Samecopy(x.cop[c], y.cop[c])
      /\ \A c \in Cops :
           kind = "none" \/ x.cop[c].source # u \/ x.cop[c].copf => y.cop[c] = x.cop[c]
      /\ \A c \in Cops :
           kind # "none" /\ x.cop[c].source = u /\ ~x.cop[c].copf =>
             /\ y.cop[c].copf
             /\ y.cop[c].driven = ~Refuses(c, kind)
  BY <1>1, UseFacts
<1>. HIDE DEF y
<1>3. \A w : ShownOn(y, w) = ShownOn(x, w)
  BY <1>2 DEF ShownOn, Samecopy
<1>4. Counted(y) /\ Decoded(y) /\ Settled(y) /\ Gone(y) /\ Acyclic(y)
  BY <1>1, <1>2, <1>3 DEF Counted, Decoded, Settled, Gone, Acyclic, Descends
<1>5. Homed(y)
  BY <1>1, <1>2 DEF Homed, Samecopy
<1>6. ASSUME NEW c \in Cops
      PROVE  /\ MatchedAt(y, c)
             /\ x.cop[c].source = u /\ kind # "none" => y.cop[c].driven \/ Refuses(c, kind)
  <2>1. MatchedAt(x, c) /\ Samecopy(x.cop[c], y.cop[c])
    BY <1>1, <1>2 DEF Matched
  <2>2. CASE kind = "none" \/ x.cop[c].source # u \/ x.cop[c].copf
    <3>1. y.cop[c] = x.cop[c]
      BY <1>2, <2>2
    <3>. QED  BY <1>2, <2>1, <2>2, <3>1 DEF MatchedAt
  <2>3. CASE kind # "none" /\ x.cop[c].source = u /\ ~x.cop[c].copf
    <3>1. y.cop[c].copf /\ y.cop[c].driven = ~Refuses(c, kind) /\ y.cop[c].source = u
      BY <1>2, <2>1, <2>3 DEF Samecopy
    <3>2. u # NoSite
      BY SourcesAssumption
    <3>. QED  BY <1>2, <2>3, <3>1, <3>2 DEF MatchedAt
  <2>. QED  BY <2>2, <2>3
<1>7. Matched(y)
  BY <1>6 DEF Matched
<1>8. ServedAt(y, u)
  <2>1. \A c \in Cops : y.cop[c].source = x.cop[c].source
    BY <1>2 DEF Samecopy
  <2>. QED  BY <1>2, <1>6, <2>1 DEF ServedAt
<1>9. ASSUME NEW w \in Sites, ServedAt(x, w)  PROVE ServedAt(y, w)
  <2>1. CASE w = u
    BY <2>1, <1>8
  <2>2. CASE w # u
    <3>1. \A c \in Cops : y.cop[c].source = w => y.cop[c] = x.cop[c]
      BY <1>2, <2>2 DEF Samecopy
    <3>. QED  BY <3>1, <1>2, <1>9 DEF ServedAt
  <2>. QED  BY <2>1, <2>2
<1>10. Sound(y)
  BY <1>2, <1>4, <1>5, <1>7 DEF Sound, Base
<1>. QED  BY <1>2, <1>8, <1>9, <1>10 DEF y

\* u may not be settled, when it moves.
LEMMA MovesKeep ==
  ASSUME NEW x \in States, Matched(x), Homed(x), NEW u \in Sites, NEW v \in Sites,
         \A w \in Sites \ {u} : SettledAt(x.site[w]),
         x.site[u].kept => x.site[u].movedto # NoSite,
         x.site[u].verifying => x.site[u].movedto = NoSite,
         \A w \in Sites \ {u} : x.site[w].kept => x.site[w].driver = "none",
         Acyclic(x),
         NEW y, Moves(x, y, u, v)
  PROVE  /\ Sound(y)
         /\ \A w \in Sites : Finalurl(y, w) = Finalurl(x, w)
         /\ ServedAt(y, u)
         /\ \A w \in Sites \ {u, v} : ServedAt(x, w) => ServedAt(y, w)
<1>1. /\ y \in States /\ Counted(y) /\ Decoded(y)
      /\ \A w \in Sites \ {u} : Alike(x.site[w], y.site[w])
      /\ y.site[u].driver = "none" /\ y.site[u].whole = FALSE
      /\ y.site[u].loading = x.site[u].loading /\ y.site[u].verifying = x.site[u].verifying
      /\ y.site[u].movedto = x.site[u].movedto /\ y.site[u].kept = x.site[u].kept
      /\ \A c \in Cops : x.cop[c].source # u => y.cop[c] = x.cop[c]
      /\ \A c \in Cops :
           x.cop[c].source = u =>
             /\ y.cop[c].source = v /\ y.cop[c].copf = FALSE /\ y.cop[c].driven = FALSE
             /\ y.cop[c].shown = x.cop[c].shown /\ y.cop[c].load = x.cop[c].load
  BY DEF Moves
<1>2. u # NoSite /\ v # NoSite
  BY SourcesAssumption
<1>3. \A w \in Sites : y.site[w].movedto = x.site[w].movedto /\ y.site[w].kept = x.site[w].kept
  BY <1>1 DEF Alike
<1>4. \A w \in Sites : Acyclic(y) /\ Finalurl(y, w) = Finalurl(x, w)
  BY <1>1, <1>3, FinalSame
<1>5. Acyclic(y)
  BY <1>2, <1>4
<1>6. ASSUME NEW w \in Sites
      PROVE  SettledAt(y.site[w]) /\ (y.site[w].kept => y.site[w].driver = "none")
  <2>1. CASE w = u
    BY <2>1, <1>1 DEF SettledAt
  <2>2. CASE w # u
    <3>1. Alike(x.site[w], y.site[w]) /\ SettledAt(x.site[w])
          /\ (x.site[w].kept => x.site[w].driver = "none")
      BY <2>2, <1>1
    <3>. QED  BY <3>1 DEF SettledAt, Alike
  <2>. QED  BY <2>1, <2>2
<1>7. Homed(y)
  BY <1>1, <1>2 DEF Homed
<1>8. Matched(y)
  <2>. SUFFICES ASSUME NEW d \in Cops  PROVE MatchedAt(y, d)
    BY DEF Matched
  <2>1. CASE x.cop[d].source = u
    BY <2>1, <1>1 DEF MatchedAt
  <2>2. CASE x.cop[d].source # u
    <3>1. y.cop[d] = x.cop[d] /\ MatchedAt(x, d)
      BY <2>2, <1>1 DEF Matched
    <3>2. x.cop[d].copf => y.site[x.cop[d].source].driver = x.site[x.cop[d].source].driver
      <4>1. x.cop[d].source \in Sites \cup {NoSite}
        BY StateFacts DEF Coprec
      <4>. QED  BY <4>1, <2>2, <3>1, <1>1 DEF MatchedAt, Alike
    <3>. QED  BY <3>1, <3>2 DEF MatchedAt
  <2>. QED  BY <2>1, <2>2
<1>9. ServedAt(y, u)
  BY <1>1 DEF ServedAt
<1>10. ASSUME NEW w \in Sites \ {u, v}, ServedAt(x, w)  PROVE ServedAt(y, w)
  <2>1. Alike(x.site[w], y.site[w]) /\ \A c \in Cops : y.cop[c].source = w => y.cop[c] = x.cop[c]
    BY <1>1
  <2>. QED  BY <2>1, <1>10 DEF ServedAt, Alike
<1>11. Settled(y) /\ Gone(y)
  BY <1>6 DEF Settled, Gone
<1>12. Sound(y)
  BY <1>1, <1>5, <1>7, <1>8, <1>11 DEF Sound, Base
<1>. QED  BY <1>4, <1>9, <1>10, <1>12

\* The source of u, which has not moved, is replaced.
LEMMA ReplaceKeeps ==
  ASSUME screen \in BOOLEAN, NEW x, Sound(x), NEW u \in Sites, u \notin Moved(x)
  PROVE  LET y == Replacesource(x, u)
         IN /\ Sound(y) /\ y.site[u].driver = "none"
            /\ y.site[u].movedto = x.site[u].movedto
            /\ \A w \in Sites : ServedAt(x, w) => ServedAt(y, w)
            /\ ServedAt(y, u)
<1>. DEFINE y == Replacesource(x, u)
<1>1. /\ x \in States /\ Counted(x) /\ Matched(x) /\ Decoded(x) /\ Settled(x)
      /\ Gone(x) /\ Acyclic(x) /\ Homed(x)
  BY SoundFacts
<1>2. Finalurl(x, u) = u
  BY <1>1, FinalFacts
<1>3. Moves(x, y, u, u)
  <2>1. Moves(x, Movetourl(x, u, u), u, u)
    BY <1>1, MoveFacts
  <2>. QED  BY <1>2, <2>1 DEF Replacesource
<1>. HIDE DEF y
<1>4. \A w \in Sites : SettledAt(x.site[w]) /\ (x.site[w].kept => x.site[w].driver = "none")
  BY <1>1 DEF Settled, Gone
<1>5. /\ \A w \in Sites \ {u} : SettledAt(x.site[w])
      /\ x.site[u].kept => x.site[u].movedto # NoSite
      /\ x.site[u].verifying => x.site[u].movedto = NoSite
      /\ \A w \in Sites \ {u} : x.site[w].kept => x.site[w].driver = "none"
  BY <1>4 DEF SettledAt
<1>6. /\ Sound(y) /\ ServedAt(y, u)
      /\ \A w \in Sites \ {u, u} : ServedAt(x, w) => ServedAt(y, w)
  BY <1>1, <1>3, <1>5, MovesKeep
<1>7. y.site[u].driver = "none" /\ y.site[u].movedto = x.site[u].movedto
  BY <1>3 DEF Moves
<1>. QED  BY <1>6, <1>7 DEF y

\* Only what is known of the fetch and of the move of a url changes.
Sametell(s, t) ==
  t.driver = s.driver /\ t.whole = s.whole /\ t.task = s.task /\ t.dispcount = s.dispcount

LEMMA FlagsKeep ==
  ASSUME NEW x, Sound(x), NEW y \in States, y.cop = x.cop,
         \A w \in Sites : Sametell(x.site[w], y.site[w]),
         \A w \in Sites : SettledAt(y.site[w]) /\ (y.site[w].kept => y.site[w].driver = "none"),
         Acyclic(y)
  PROVE  /\ Sound(y)
         /\ \A w \in Sites :
              /\ x.site[w].verifying /\ ~fastresponse => y.site[w].verifying
              /\ ServedAt(x, w)
              => ServedAt(y, w)
<1>1. /\ x \in States /\ Counted(x) /\ Matched(x) /\ Decoded(x) /\ Homed(x)
  BY SoundFacts
<1>2. \A w : ShownOn(y, w) = ShownOn(x, w)
  BY DEF ShownOn
<1>3. Counted(y)
  BY <1>1, <1>2 DEF Counted, Sametell
<1>4. Decoded(y)
  BY <1>1 DEF Decoded, DecodedAt, Sametell
<1>5. Matched(y)
  <2>. SUFFICES ASSUME NEW d \in Cops  PROVE MatchedAt(y, d)
    BY DEF Matched
  <2>1. MatchedAt(x, d)
    BY <1>1 DEF Matched
  <2>2. x.cop[d].copf => y.site[x.cop[d].source].driver = x.site[x.cop[d].source].driver
    <3>1. x.cop[d].source \in Sites \cup {NoSite}
      BY <1>1, StateFacts DEF Coprec
    <3>. QED  BY <3>1, <2>1 DEF MatchedAt, Sametell
  <2>. QED  BY <2>1, <2>2 DEF MatchedAt
<1>6. Homed(y) /\ Settled(y) /\ Gone(y)
  BY <1>1 DEF Homed, Settled, Gone
<1>7. ASSUME NEW w \in Sites,
             x.site[w].verifying /\ ~fastresponse => y.site[w].verifying,
             ServedAt(x, w)
      PROVE  ServedAt(y, w)
  BY <1>7 DEF ServedAt, Sametell
<1>. QED  BY <1>3, <1>4, <1>5, <1>6, <1>7 DEF Sound, Base

LEMMA PutKeeps ==
  ASSUME NEW x, Sound(x), NEW u \in Sites, NEW t \in Sourcerec,
         Sametell(x.site[u], t), SettledAt(t), t.kept => t.driver = "none",
         t.movedto = x.site[u].movedto \/ t.movedto = NoSite
  PROVE  /\ Sound(Put(x, u, t))
         /\ \A w \in Sites \ {u} : ServedAt(x, w) => ServedAt(Put(x, u, t), w)
         /\ (x.site[u].verifying /\ ~fastresponse => t.verifying) /\ ServedAt(x, u) =>
              ServedAt(Put(x, u, t), u)
<1>. DEFINE y == Put(x, u, t)
<1>1. /\ x \in States /\ Settled(x) /\ Gone(x) /\ Acyclic(x)
  BY SoundFacts
<1>2. /\ y \in States /\ y.cop = x.cop /\ y.site[u] = t
      /\ \A w \in Sites \ {u} : y.site[w] = x.site[w]
  BY <1>1, PutFacts
<1>. HIDE DEF y
<1>3. \A w \in Sites : Sametell(x.site[w], y.site[w])
  BY <1>2 DEF Sametell
<1>4. \A w \in Sites : SettledAt(y.site[w]) /\ (y.site[w].kept => y.site[w].driver = "none")
  BY <1>1, <1>2 DEF Settled, Gone
<1>5. Acyclic(y)
  <2>1. PICK rank \in [Sites -> Nat] : Descends(x, rank)
    BY <1>1 DEF Acyclic
  <2>2. Descends(y, rank)
    BY <1>2, <2>1 DEF Descends
  <2>. QED  BY <2>2 DEF Acyclic
<1>6. /\ Sound(y)
      /\ \A w \in Sites :
           /\ x.site[w].verifying /\ ~fastresponse => y.site[w].verifying
           /\ ServedAt(x, w)
           => ServedAt(y, w)
  BY <1>2, <1>3, <1>4, <1>5, FlagsKeep
<1>. QED  BY <1>2, <1>6 DEF y

LEMMA FetchKeeps ==
  ASSUME NEW x, Sound(x), NEW u \in Sites, x.site[u].driver = "none", NEW y \in Fetch(x, u)
  PROVE  Sound(y) /\ \A w \in Sites : ServedAt(x, w) => ServedAt(y, w)
<1>1. x \in States /\ Settled(x) /\ x.site[u] \in Sourcerec
  BY SoundFacts, StateFacts
<1>2. PICK k \in {FALSE, x.site[u].movedto # NoSite} :
        y = [x EXCEPT !.site[u].loading = TRUE, !.site[u].kept = k]
  BY DEF Fetch
<1>3. k \in BOOLEAN /\ (k => x.site[u].movedto # NoSite)
  BY <1>2
<1>4. PICK l \in BOOLEAN : l = TRUE
  OBVIOUS
<1>. DEFINE t == WithFetch(x.site[u], l, k)
<1>5. y = Put(x, u, t)
  <2>1. y = SetFetch(x, u, l, k)
    BY <1>2, <1>4 DEF SetFetch
  <2>. QED  BY <1>1, <2>1, PutFetch
<1>6. /\ t \in Sourcerec /\ Sametell(x.site[u], t)
      /\ t.verifying = x.site[u].verifying /\ t.movedto = x.site[u].movedto /\ t.kept = k
  BY <1>1, <1>3, <1>4 DEF WithFetch, Sourcerec, Sametell
<1>7. SettledAt(x.site[u])
  BY <1>1 DEF Settled
<1>. HIDE DEF t
<1>8. SettledAt(t) /\ t.driver = "none"
  BY <1>3, <1>6, <1>7 DEF SettledAt, Sametell
<1>9. /\ Sound(Put(x, u, t))
      /\ \A w \in Sites \ {u} : ServedAt(x, w) => ServedAt(Put(x, u, t), w)
      /\ (x.site[u].verifying /\ ~fastresponse => t.verifying) /\ ServedAt(x, u) =>
           ServedAt(Put(x, u, t), u)
  BY <1>6, <1>8, PutKeeps
<1>10. t.verifying = x.site[u].verifying
  BY <1>6
<1>. QED  BY <1>5, <1>9, <1>10

\* A verification of u begins.
Verified(x, u, l) == [x EXCEPT !.site[u].verifying = TRUE, !.site[u].loading = l]

LEMMA VerifyKeeps ==
  ASSUME NEW x, Sound(x), NEW u \in Sites, x.site[u].movedto = NoSite, NEW l \in BOOLEAN,
         NEW y, y = Verified(x, u, l)
  PROVE  /\ Sound(y)
         /\ \A w \in Sites : ServedAt(x, w) => ServedAt(y, w)
         /\ ~fastresponse => ServedAt(y, u)
<1>1. x \in States /\ Settled(x) /\ Gone(x) /\ x.site[u] \in Sourcerec
  BY SoundFacts, StateFacts
<1>2. PICK b \in BOOLEAN : b = TRUE
  OBVIOUS
<1>. DEFINE t == WithVerify(x.site[u], b, l)
<1>3. y = Put(x, u, t)
  <2>1. y = SetVerify(x, u, b, l)
    BY <1>2 DEF SetVerify, Verified
  <2>. QED  BY <1>1, <2>1, PutVerify
<1>4. /\ t \in Sourcerec /\ Sametell(x.site[u], t)
      /\ t.verifying = TRUE /\ t.movedto = x.site[u].movedto /\ t.kept = x.site[u].kept
  BY <1>1, <1>2 DEF WithVerify, Sourcerec, Sametell
<1>5. SettledAt(x.site[u]) /\ (x.site[u].kept => x.site[u].driver = "none")
  BY <1>1 DEF Settled, Gone
<1>. HIDE DEF t
<1>6. SettledAt(t) /\ (t.kept => t.driver = "none")
  BY <1>4, <1>5 DEF SettledAt, Sametell
<1>7. /\ Sound(Put(x, u, t))
      /\ \A w \in Sites \ {u} : ServedAt(x, w) => ServedAt(Put(x, u, t), w)
      /\ (x.site[u].verifying /\ ~fastresponse => t.verifying) /\ ServedAt(x, u) =>
           ServedAt(Put(x, u, t), u)
  BY <1>4, <1>6, PutKeeps
<1>8. Put(x, u, t).site[u] = t
  BY <1>1, <1>4, PutFacts
<1>9. ~fastresponse => ServedAt(Put(x, u, t), u)
  BY <1>4, <1>8 DEF ServedAt
<1>. QED  BY <1>3, <1>4, <1>7, <1>9

-----------------------------------------------------------------------------
(* Loads. *)

\* All is well afterwards.
Well(y) == Sound(y) /\ ServedBut(y, {})

LEMMA LoadhistoryWell ==
  ASSUME screen \in BOOLEAN, NEW x, Sound(x), NEW u \in Sites, u \notin Moved(x),
         \A w \in Sites \ {u} : ServedAt(x, w), NEW y \in Loadhistory(x, u)
  PROVE  Well(y)
<1>1. CASE x.site[u].driver # "none"
  <2>1. y = Usedriver(x, u)
    BY <1>1 DEF Loadhistory
  <2>2. Sound(y) /\ ServedAt(y, u) /\ \A w \in Sites : ServedAt(x, w) => ServedAt(y, w)
    BY <2>1, UseKeeps
  <2>. QED  BY <2>2 DEF Well, ServedBut
<1>2. CASE x.site[u].driver = "none"
  <2>. DEFINE z == Replacesource(x, u)
  <2>1. y \in Fetch(z, u)
    BY <1>2 DEF Loadhistory
  <2>2. /\ Sound(z) /\ z.site[u].driver = "none" /\ ServedAt(z, u)
        /\ \A w \in Sites : ServedAt(x, w) => ServedAt(z, w)
    BY ReplaceKeeps
  <2>. HIDE DEF z
  <2>3. Sound(y) /\ \A w \in Sites : ServedAt(z, w) => ServedAt(y, w)
    BY <2>1, <2>2, FetchKeeps
  <2>. QED  BY <2>2, <2>3 DEF Well, ServedBut
<1>. QED  BY <1>1, <1>2

LEMMA VerifyurlWell ==
  ASSUME screen \in BOOLEAN, fastresponse \in BOOLEAN, NEW x, Sound(x), NEW u \in Sites,
         u \notin Moved(x), \A w \in Sites \ {u} : ServedAt(x, w), NEW y \in Verifyurl(x, u)
  PROVE  Well(y)
<1>. DEFINE csrc == x.site[u].driver # "none"
            z == IF csrc THEN (IF fastresponse THEN Usedriver(x, u) ELSE x)
                 ELSE Replacesource(x, u)
<1>1. PICK l \in BOOLEAN : y = Verified(z, u, l)
  <2>1. y = [z EXCEPT !.site[u].verifying = TRUE, !.site[u].loading = fastresponse /\ ~csrc]
    BY DEF Verifyurl
  <2>2. PICK l \in BOOLEAN : l = (fastresponse /\ ~csrc)
    OBVIOUS
  <2>. HIDE DEF z
  <2>. QED  BY <2>1, <2>2 DEF Verified
<1>2. x.site[u].movedto = NoSite
  BY DEF Verifyurl
<1>3. /\ Sound(z) /\ z.site[u].movedto = NoSite
      /\ \A w \in Sites : ServedAt(x, w) => ServedAt(z, w)
      /\ fastresponse => ServedAt(z, u)
  <2>1. CASE csrc /\ fastresponse
    BY <1>2, <2>1, UseKeeps
  <2>2. CASE csrc /\ ~fastresponse
    BY <1>2, <2>2
  <2>3. CASE ~csrc
    BY <1>2, <2>3, ReplaceKeeps
  <2>. QED  BY <2>1, <2>2, <2>3
<1>. HIDE DEF z
<1>4. /\ Sound(y)
      /\ \A w \in Sites : ServedAt(z, w) => ServedAt(y, w)
      /\ ~fastresponse => ServedAt(y, u)
  BY <1>1, <1>3, VerifyKeeps
<1>. QED  BY <1>3, <1>4 DEF Well, ServedBut

\* A copy of a url that has moved, as far as the cache knows, has nothing to show.
LEMMA MovedServed ==
  ASSUME NEW x, Sound(x), NEW u \in Moved(x)
  PROVE  ServedAt(x, u)
<1>1. u \in Sites /\ x.site[u].driver = "none"
  BY DEF Moved, Sound, Gone
<1>. QED  BY <1>1 DEF ServedAt

LEMMA LoadurlWell ==
  ASSUME screen \in BOOLEAN, fastresponse \in BOOLEAN, NEW x, Sound(x), NEW from \in Sites,
         \A w \in Sites \ {from, Finalurl(x, from)} : ServedAt(x, w), NEW y \in Loadurl(x, from)
  PROVE  Well(y)
<1>. DEFINE u == Finalurl(x, from)
<1>1. u \in Sites /\ u \notin Moved(x) /\ (from \notin Moved(x) => u = from)
  BY SoundFacts, FinalFacts
<1>2. \A w \in Sites \ {u} : ServedAt(x, w)
  BY <1>1, MovedServed
<1>3. CASE x.site[u].loading \/ x.site[u].verifying
  <2>1. y = Usedriver(x, u)
    BY <1>3 DEF Loadurl
  <2>. HIDE DEF u
  <2>2. Sound(y) /\ ServedAt(y, u) /\ \A w \in Sites : ServedAt(x, w) => ServedAt(y, w)
    BY <1>1, <2>1, UseKeeps
  <2>. QED  BY <1>2, <2>2 DEF Well, ServedBut
<1>4. CASE ~(x.site[u].loading \/ x.site[u].verifying)
  <2>1. \/ y \in Loadhistory(x, u)
        \/ y \in Fetch(Replacesource(x, u), u)
        \/ y \in Verifyurl(x, u)
    BY <1>4 DEF Loadurl
  <2>. HIDE DEF u
  <2>2. CASE y \in Loadhistory(x, u)
    BY <1>1, <1>2, <2>2, LoadhistoryWell
  <2>3. CASE y \in Fetch(Replacesource(x, u), u)
    <3>. DEFINE z == Replacesource(x, u)
    <3>1. /\ Sound(z) /\ z.site[u].driver = "none" /\ ServedAt(z, u)
          /\ \A w \in Sites : ServedAt(x, w) => ServedAt(z, w)
      BY <1>1, ReplaceKeeps
    <3>2. y \in Fetch(z, u)
      BY <2>3
    <3>. HIDE DEF z
    <3>3. Sound(y) /\ \A w \in Sites : ServedAt(z, w) => ServedAt(y, w)
      BY <1>1, <3>1, <3>2, FetchKeeps
    <3>. QED  BY <1>2, <3>1, <3>3 DEF Well, ServedBut
  <2>4. CASE y \in Verifyurl(x, u)
    BY <1>1, <1>2, <2>4, VerifyurlWell
  <2>. QED  BY <2>1, <2>2, <2>3, <2>4
<1>. QED  BY <1>3, <1>4

LEMMA ReloadurlWell ==
  ASSUME screen \in BOOLEAN, NEW x, Sound(x), NEW u \in Sites,
         \A w \in Sites \ {u} : ServedAt(x, w), NEW y \in Reloadurl(x, u)
  PROVE  Well(y)
<1>1. x \in States /\ Settled(x) /\ x.site[u] \in Sourcerec
  BY SoundFacts, StateFacts
<1>2. PICK b \in BOOLEAN : b = FALSE
  OBVIOUS
<1>3. PICK n \in Sites \cup {NoSite} : n = NoSite
  OBVIOUS
<1>. DEFINE t == WithReload(x.site[u], b, n, b)
            z == Put(x, u, t)
            r == Replacesource(z, u)
<1>4. [x EXCEPT !.site[u].verifying = FALSE, !.site[u].movedto = NoSite,
                !.site[u].kept = FALSE] = z
  <2>1. [x EXCEPT !.site[u].verifying = FALSE, !.site[u].movedto = NoSite,
                  !.site[u].kept = FALSE] = SetReload(x, u, b, n, b)
    BY <1>2, <1>3 DEF SetReload
  <2>2. SetReload(x, u, b, n, b) = z
    BY <1>1, PutReload
  <2>. QED  BY <2>1, <2>2
<1>5. y \in Fetch(r, u)
  BY <1>4 DEF Reloadurl
<1>6. /\ t \in Sourcerec /\ Sametell(x.site[u], t)
      /\ t.verifying = FALSE /\ t.movedto = NoSite /\ t.kept = FALSE
  BY <1>1, <1>2, <1>3 DEF WithReload, Sourcerec, Sametell
<1>7. SettledAt(x.site[u])
  BY <1>1 DEF Settled
<1>. HIDE DEF t
<1>8. SettledAt(t) /\ (t.kept => t.driver = "none")
  BY <1>6, <1>7 DEF SettledAt, Sametell
<1>9. Sound(z) /\ \A w \in Sites \ {u} : ServedAt(x, w) => ServedAt(z, w)
  BY <1>6, <1>8, PutKeeps
<1>10. u \notin Moved(z)
  <2>1. z.site[u] = t
    BY <1>1, <1>6, PutFacts
  <2>. QED  BY <1>6, <2>1 DEF Moved
<1>. HIDE DEF z
<1>11. /\ Sound(r) /\ r.site[u].driver = "none" /\ ServedAt(r, u)
       /\ \A w \in Sites : ServedAt(z, w) => ServedAt(r, w)
  BY <1>9, <1>10, ReplaceKeeps
<1>. HIDE DEF r
<1>12. Sound(y) /\ \A w \in Sites : ServedAt(r, w) => ServedAt(y, w)
  BY <1>5, <1>11, FetchKeeps
<1>. QED  BY <1>9, <1>11, <1>12 DEF Well, ServedBut

Loadset(x, c, l) == [x EXCEPT !.cop[c].load = l]

LEMMA LoadsetKeeps ==
  ASSUME NEW x, Sound(x), NEW c \in Cops, NEW l \in {"initial", "asked", "restricted"}
  PROVE  LET y == Loadset(x, c, l)
         IN /\ Sound(y)
            /\ y.site = x.site /\ y.cop[c].source = x.cop[c].source
            /\ \A d \in Cops \ {c} : y.cop[d] = x.cop[d]
            /\ \A w \in Sites : Finalurl(y, w) = Finalurl(x, w)
            /\ \A w \in Sites :
                 ServedAt(x, w) /\ (l # "asked" \/ w # x.cop[c].source) => ServedAt(y, w)
<1>. DEFINE y == Loadset(x, c, l)
            k == [x.cop[c] EXCEPT !.load = l]
<1>1. /\ x \in States /\ Counted(x) /\ Matched(x) /\ Decoded(x) /\ Settled(x)
      /\ Gone(x) /\ Acyclic(x) /\ Homed(x)
  BY SoundFacts
<1>2. y = PutCop(x, c, k)
  BY <1>1 DEF Loadset, PutCop, States
<1>3. x.cop[c] \in Coprec
  BY <1>1, StateFacts
<1>4. /\ k \in Coprec /\ k.source = x.cop[c].source /\ k.shown = x.cop[c].shown
      /\ k.copf = x.cop[c].copf /\ k.driven = x.cop[c].driven /\ k.load = l
  BY <1>3 DEF Coprec
<1>. HIDE DEF k, y
<1>5. /\ y \in States /\ y.site = x.site /\ y.cop[c] = k
      /\ \A d \in Cops \ {c} : y.cop[d] = x.cop[d]
  BY <1>1, <1>2, <1>4, PutCopFacts
<1>6. \A d \in Cops : /\ y.cop[d].source = x.cop[d].source /\ y.cop[d].shown = x.cop[d].shown
                      /\ y.cop[d].copf = x.cop[d].copf /\ y.cop[d].driven = x.cop[d].driven
  BY <1>4, <1>5
<1>7. \A w : ShownOn(y, w) = ShownOn(x, w)
  BY <1>6 DEF ShownOn
<1>8. Counted(y) /\ Matched(y) /\ Homed(y)
  BY <1>1, <1>5, <1>6, <1>7 DEF Counted, Matched, MatchedAt, Homed
<1>9. \A w \in Sites : Alike(x.site[w], y.site[w])
  BY <1>5 DEF Alike
<1>10. Settled(y) /\ Gone(y) /\ Acyclic(y) /\ \A w \in Sites : Finalurl(y, w) = Finalurl(x, w)
  BY <1>1, <1>5, <1>9, AlikeKeeps
<1>11. Decoded(y)
  BY <1>1, <1>5 DEF Decoded
<1>12. Sound(y)
  BY <1>5, <1>8, <1>10, <1>11 DEF Sound, Base
<1>13. ASSUME NEW w \in Sites, ServedAt(x, w), l # "asked" \/ w # x.cop[c].source
       PROVE  ServedAt(y, w)
  <2>. SUFFICES ASSUME NEW d \in Cops, y.cop[d].load = "asked", y.cop[d].source = w
                PROVE  \/ y.site[w].driver = "none" \/ Refuses(d, y.site[w].driver)
                       \/ y.cop[d].driven \/ (y.site[w].verifying /\ ~fastresponse)
    BY DEF ServedAt
  <2>1. d # c
    BY <1>4, <1>5, <1>13
  <2>2. y.cop[d] = x.cop[d]
    BY <1>5, <2>1
  <2>3. x.cop[d].load = "asked" /\ x.cop[d].source = w
    BY <2>2
  <2>4. \/ x.site[w].driver = "none" \/ Refuses(d, x.site[w].driver)
        \/ x.cop[d].driven \/ (x.site[w].verifying /\ ~fastresponse)
    BY <1>13, <2>3 DEF ServedAt
  <2>. QED  BY <1>5, <2>2, <2>4
<1>. QED  BY <1>4, <1>5, <1>10, <1>12, <1>13 DEF y

LEMMA InitialWell ==
  ASSUME screen \in BOOLEAN, fastresponse \in BOOLEAN, NEW x, Well(x), NEW c \in Cops,
         x.cop[c].source \in Sites, NEW y \in Initialloadcopy(x, c)
  PROVE  Well(y)
<1>. DEFINE u == x.cop[c].source
            asked == Loadset(x, c, "asked")
            v == Finalurl(asked, u)
<1>1. Sound(x) /\ \A w \in Sites : ServedAt(x, w)
  BY DEF Well, ServedBut
<1>2. \/ y = Loadset(x, c, "restricted")
      \/ y \in Ifinmem(asked, u)
      \/ y \in Loadurl(asked, u)
  BY DEF Initialloadcopy, Loadset
<1>3. PICK l \in {"initial", "asked", "restricted"} : l = "asked"
  OBVIOUS
<1>4. /\ Sound(asked)
      /\ \A w \in Sites : ServedAt(x, w) /\ w # u => ServedAt(asked, w)
  <2>1. LET z == Loadset(x, c, l)
        IN Sound(z) /\ \A w \in Sites :
                         ServedAt(x, w) /\ (l # "asked" \/ w # x.cop[c].source) => ServedAt(z, w)
    BY <1>1, LoadsetKeeps
  <2>. QED  BY <1>3, <2>1
<1>5. CASE y = Loadset(x, c, "restricted")
  <2>1. PICK r \in {"initial", "asked", "restricted"} : r = "restricted"
    OBVIOUS
  <2>2. LET z == Loadset(x, c, r)
        IN Sound(z) /\ \A w \in Sites :
                         ServedAt(x, w) /\ (r # "asked" \/ w # x.cop[c].source) => ServedAt(z, w)
    BY <1>1, LoadsetKeeps
  <2>3. Sound(y) /\ \A w \in Sites : ServedAt(x, w) => ServedAt(y, w)
    BY <1>5, <2>1, <2>2
  <2>. QED  BY <1>1, <2>3 DEF Well, ServedBut
<1>. HIDE DEF asked
<1>6. CASE y \in Ifinmem(asked, u)
  <2>1. y = Usedriver(asked, v)
    BY <1>6 DEF Ifinmem
  <2>2. v \in Sites /\ (u \notin Moved(asked) => v = u)
    BY <1>4, SoundFacts, FinalFacts
  <2>. HIDE DEF v
  <2>3. \A w \in Sites \ {v} : ServedAt(asked, w)
    BY <1>1, <1>4, <2>2, MovedServed
  <2>4. Sound(y) /\ ServedAt(y, v) /\ \A w \in Sites : ServedAt(asked, w) => ServedAt(y, w)
    BY <1>4, <2>1, <2>2, UseKeeps
  <2>. QED  BY <2>3, <2>4 DEF Well, ServedBut
<1>7. CASE y \in Loadurl(asked, u)
  BY <1>1, <1>4, <1>7, LoadurlWell
<1>. QED  BY <1>2, <1>5, <1>6, <1>7

-----------------------------------------------------------------------------
(* The steps. *)

LEMMA NowFacts ==
  ASSUME SourcesInv
  PROVE  /\ Sound(Now) /\ Well(Now) /\ screen \in BOOLEAN /\ fastresponse \in BOOLEAN
         /\ \A w \in Sites : ServedAt(Now, w)
         /\ Now \in States /\ Now.site = site /\ Now.cop = cop
<1>1. Now.site = site /\ Now.cop = cop
  BY DEF Now
<1>2. Now \in States
  BY SoundFacts DEF SourcesInv
<1>. QED  BY <1>1, <1>2 DEF SourcesInv, Well, ServedBut

LEMMA Landing ==
  ASSUME NEW y, Well(y), Becomes(y), screen \in BOOLEAN, fastresponse \in BOOLEAN,
         UNCHANGED <<screen, fastresponse>>
  PROVE  SourcesInv'
<1>1. y \in States /\ Sound(y) /\ ServedBut(y, {})
  BY SoundFacts DEF Well
<1>2. Now' = y
  BY <1>1 DEF Now, Becomes, States
<1>3. \A w : DecodedAt(y.site[w])' = DecodedAt(y.site[w])
  BY DEF DecodedAt
<1>4. \A w : ServedAt(y, w)' = ServedAt(y, w)
  BY DEF ServedAt
<1>5. Decoded(y)' = Decoded(y)
  BY <1>3 DEF Decoded
<1>6. Sound(y)' = Sound(y)
  BY <1>5 DEF Sound, Base
<1>7. ServedBut(y, {})' = ServedBut(y, {})
  BY <1>4 DEF ServedBut
<1>8. Sound(Now)' = Sound(y)'
  BY <1>2 DEF Sound, Base, Counted, ShownOn, Matched, MatchedAt, Decoded, DecodedAt, Settled, SettledAt, Gone, Acyclic, Descends, Homed
<1>. QED  BY <1>1, <1>2, <1>6, <1>7, <1>8 DEF SourcesInv

LEMMA LoadStep ==
  ASSUME SourcesInv, NEW u \in Sites, Auload(u) \/ Auloadreload(u)
  PROVE  SourcesInv'
<1>1. PICK x : x = Now
  OBVIOUS
<1>2. /\ Sound(x) /\ screen \in BOOLEAN /\ fastresponse \in BOOLEAN
      /\ \A w \in Sites : ServedAt(x, w)
  BY <1>1, NowFacts
<1>3. PICK y \in Loadurl(x, u) \cup Reloadurl(x, u) :
        Becomes(y) /\ UNCHANGED <<screen, fastresponse>>
  BY <1>1 DEF Auload, Auloadreload
<1>4. Well(y)
  <2>1. CASE y \in Loadurl(x, u)
    BY <1>2, <2>1, LoadurlWell
  <2>2. CASE y \in Reloadurl(x, u)
    BY <1>2, <2>2, ReloadurlWell
  <2>. QED  BY <2>1, <2>2
<1>. QED  BY <1>2, <1>3, <1>4, Landing

LEMMA NewcopyStep ==
  ASSUME SourcesInv, NEW c \in Cops, NEW u \in Sites, Newcopy(c, u)
  PROVE  SourcesInv'
<1>1. PICK x : x = Now
  OBVIOUS
<1>2. /\ Sound(x) /\ screen \in BOOLEAN /\ fastresponse \in BOOLEAN
      /\ \A w \in Sites : ServedAt(x, w)
      /\ x.cop = cop
  BY <1>1, NowFacts
<1>. DEFINE f == Finalurl(x, u)
            y == Setsource(x, c, f)
            z == Loadset(y, c, "asked")
<1>3. f \in Sites /\ f \notin Moved(x)
  BY <1>2, SoundFacts, FinalFacts
<1>. HIDE DEF f
<1>4. Joins(x, y, c, f)
  BY <1>2, <1>3, SoundFacts, SetsourceFacts
<1>5. x.cop[c].load # "asked"
  BY <1>2 DEF Newcopy, Uncreated
<1>6. /\ Sound(y) /\ \A w \in Sites : Finalurl(y, w) = Finalurl(x, w)
      /\ \A w \in Sites : ServedAt(y, w)
  <2>1. /\ Sound(y)
        /\ \A w \in Sites : Finalurl(y, w) = Finalurl(x, w)
        /\ \A w \in Sites \ {f} : ServedAt(x, w) => ServedAt(y, w)
        /\ x.cop[c].load # "asked" /\ ServedAt(x, f) => ServedAt(y, f)
    BY <1>2, <1>3, <1>4, JoinKeeps
  <2>. QED  BY <2>1, <1>2, <1>3, <1>5
<1>7. /\ IF c \in Embedded THEN Becomes(y) ELSE \E e \in Loadurl(z, u) : Becomes(e)
      /\ UNCHANGED <<screen, fastresponse>>
  BY <1>1 DEF Newcopy, Loadset, f
<1>8. y.cop[c].source = f
  BY <1>4 DEF Joins
<1>. HIDE DEF y
<1>9. CASE c \in Embedded
  <2>1. Well(y) /\ Becomes(y)
    BY <1>6, <1>7, <1>9 DEF Well, ServedBut
  <2>2. PICK e : e = y
    OBVIOUS
  <2>3. Well(e) /\ Becomes(e)
    BY <2>1, <2>2
  <2>. QED  BY <1>2, <1>7, <2>3, Landing
<1>10. CASE c \notin Embedded
  <2>1. PICK l \in {"initial", "asked", "restricted"} : l = "asked"
    OBVIOUS
  <2>2. LET t == Loadset(y, c, l)
        IN /\ Sound(t) /\ \A w \in Sites : Finalurl(t, w) = Finalurl(y, w)
           /\ \A w \in Sites :
                ServedAt(y, w) /\ (l # "asked" \/ w # y.cop[c].source) => ServedAt(t, w)
    BY <1>6, LoadsetKeeps
  <2>3. /\ Sound(z) /\ Finalurl(z, u) = f
        /\ \A w \in Sites \ {f} : ServedAt(z, w)
    BY <1>6, <1>8, <2>1, <2>2 DEF f
  <2>4. PICK e \in Loadurl(z, u) : Becomes(e)
    BY <1>7, <1>10
  <2>. HIDE DEF z
  <2>5. \A w \in Sites \ {u, Finalurl(z, u)} : ServedAt(z, w)
    BY <2>3
  <2>6. Well(e)
    BY <1>2, <2>3, <2>4, <2>5, LoadurlWell
  <2>. QED  BY <1>2, <1>7, <2>4, <2>6, Landing
<1>. QED  BY <1>9, <1>10

\* Copy c is displayed.
LEMMA ShownWell ==
  ASSUME screen \in BOOLEAN, NEW x, Well(x), NEW c \in Cops, ~x.cop[c].shown,
         x.cop[c].source \in Sites
  PROVE  LET y == Showsource([x EXCEPT !.cop[c].shown = TRUE], x.cop[c].source)
         IN Well(y) /\ y.cop[c].source = x.cop[c].source
<1>. DEFINE u == x.cop[c].source
            k == [x.cop[c] EXCEPT !.shown = TRUE]
            z == [x EXCEPT !.cop[c].shown = TRUE]
            y == Showsource(z, u)
<1>1. /\ x \in States /\ Counted(x) /\ Matched(x) /\ Decoded(x) /\ Settled(x)
      /\ Gone(x) /\ Acyclic(x) /\ Homed(x) /\ \A w \in Sites : ServedAt(x, w)
  BY SoundFacts DEF Well, ServedBut
<1>2. z = PutCop(x, c, k)
  <2>1. PICK b : b = TRUE
    OBVIOUS
  <2>2. [x EXCEPT !.cop[c].shown = b] = PutCop(x, c, [x.cop[c] EXCEPT !.shown = b])
    BY <1>1 DEF PutCop, States
  <2>. QED  BY <2>1, <2>2
<1>3. x.cop[c] \in Coprec
  BY <1>1, StateFacts
<1>4. /\ k \in Coprec /\ k.source = u /\ k.shown = TRUE
      /\ k.copf = x.cop[c].copf /\ k.driven = x.cop[c].driven /\ k.load = x.cop[c].load
  BY <1>3 DEF Coprec
<1>. HIDE DEF k, z
<1>5. /\ z \in States /\ z.site = x.site /\ z.cop[c] = k
      /\ \A d \in Cops \ {c} : z.cop[d] = x.cop[d]
  BY <1>1, <1>2, <1>4, PutCopFacts
<1>6. /\ y \in States /\ y.cop = z.cop
      /\ \A w \in Sites : Alike(x.site[w], y.site[w])
      /\ \A w \in Sites \ {u} : y.site[w] = x.site[w]
      /\ y.site[u].dispcount = x.site[u].dispcount + 1
      /\ DecodedAt(x.site[u]) => DecodedAt(y.site[u])
  BY <1>5, ShowFacts
<1>. HIDE DEF y
<1>7. \A d \in Cops : /\ y.cop[d].source = x.cop[d].source /\ y.cop[d].load = x.cop[d].load
                      /\ y.cop[d].copf = x.cop[d].copf /\ y.cop[d].driven = x.cop[d].driven
                      /\ d # c => y.cop[d].shown = x.cop[d].shown
  BY <1>4, <1>5, <1>6
<1>8. Counted(y)
  <2>. SUFFICES ASSUME NEW w \in Sites
                PROVE  y.site[w].dispcount = Cardinality(ShownOn(y, w))
    BY DEF Counted
  <2>1. x.site[w].dispcount = Cardinality(ShownOn(x, w))
    BY <1>1 DEF Counted
  <2>2. \A d \in Cops : d # c => /\ y.cop[d].source = x.cop[d].source
                                 /\ y.cop[d].shown = x.cop[d].shown
    BY <1>7
  <2>3. /\ ShownOn(x, w) \subseteq Cops /\ ShownOn(y, w) \subseteq Cops
        /\ ShownOn(y, w) \ {c} = ShownOn(x, w) \ {c}
        /\ c \in ShownOn(x, w) <=> x.cop[c].source = w /\ x.cop[c].shown
        /\ c \in ShownOn(y, w) <=> y.cop[c].source = w /\ y.cop[c].shown
    BY ONLY c \in Cops, <2>2, ShownMoves
  <2>4. c \notin ShownOn(x, w) /\ (c \in ShownOn(y, w) <=> w = u)
    BY <2>3, <1>4, <1>5, <1>6
  <2>5. CASE w = u
    <3>1. Cardinality(ShownOn(y, w)) = Cardinality(ShownOn(x, w)) + 1
      BY <2>3, <2>4, <2>5, CountOne
    <3>. QED  BY <3>1, <2>1, <2>5, <1>6
  <2>6. CASE w # u
    <3>1. ShownOn(y, w) = ShownOn(x, w)
      BY <2>3, <2>4, <2>6
    <3>. QED  BY <3>1, <2>1, <2>6, <1>6
  <2>. QED  BY <2>5, <2>6
<1>9. Decoded(y)
  BY <1>1, <1>6 DEF Decoded
<1>10. Settled(y) /\ Gone(y) /\ Acyclic(y)
  BY <1>1, <1>6, AlikeKeeps
<1>11. Matched(y)
  <2>. SUFFICES ASSUME NEW d \in Cops  PROVE MatchedAt(y, d)
    BY DEF Matched
  <2>1. MatchedAt(x, d)
    BY <1>1 DEF Matched
  <2>2. x.cop[d].copf => y.site[x.cop[d].source].driver = x.site[x.cop[d].source].driver
    <3>1. x.cop[d].source \in Sites \cup {NoSite}
      BY <1>1, StateFacts DEF Coprec
    <3>. QED  BY <3>1, <2>1, <1>6 DEF MatchedAt, Alike
  <2>. QED  BY <2>1, <2>2, <1>7 DEF MatchedAt
<1>12. Homed(y)
  <2>1. u # NoSite
    BY SourcesAssumption
  <2>. QED  BY <2>1, <1>1, <1>7 DEF Homed
<1>13. ASSUME NEW w \in Sites  PROVE ServedAt(y, w)
  <2>1. Alike(x.site[w], y.site[w]) /\ ServedAt(x, w)
    BY <1>1, <1>6
  <2>. QED  BY <2>1, <1>7 DEF ServedAt, Alike
<1>14. Well(y)
  BY <1>6, <1>8, <1>9, <1>10, <1>11, <1>12, <1>13 DEF Well, ServedBut, Sound, Base
<1>. QED  BY <1>7, <1>14 DEF y, z

LEMMA SetwindowStep ==
  ASSUME SourcesInv, NEW c \in Cops, Setwindow(c)
  PROVE  SourcesInv'
<1>1. PICK x : x = Now
  OBVIOUS
<1>2. /\ Well(x) /\ screen \in BOOLEAN /\ fastresponse \in BOOLEAN
      /\ x \in States /\ x.cop = cop
  BY <1>1, NowFacts
<1>3. x.cop[c].source \in Sites /\ ~x.cop[c].shown
  BY <1>2, StateFacts DEF Setwindow, Coprec
<1>4. PICK y : y = Showsource([x EXCEPT !.cop[c].shown = TRUE], x.cop[c].source)
  OBVIOUS
<1>5. Well(y) /\ y.cop[c].source \in Sites
  BY <1>2, <1>3, <1>4, ShownWell
<1>6. /\ IF cop[c].load = "initial" THEN \E z \in Initialloadcopy(y, c) : Becomes(z)
         ELSE Becomes(y)
      /\ UNCHANGED <<screen, fastresponse>>
  BY <1>1, <1>2, <1>4 DEF Setwindow
<1>7. PICK z : Well(z) /\ Becomes(z)
  BY <1>2, <1>5, <1>6, InitialWell
<1>. QED  BY <1>2, <1>6, <1>7, Landing

\* Copy c is no longer displayed, or gone.
LEMMA HiddenWell ==
  ASSUME NEW x, Well(x), NEW c \in Cops, x.cop[c].source \in Sites,
         NEW y \in States,
         y.site = (IF x.cop[c].shown THEN Hidesource(x, x.cop[c].source) ELSE x).site,
         \A d \in Cops \ {c} : y.cop[d] = x.cop[d],
         \/ y.cop[c] = Uncreated
         \/ /\ y.cop[c].source = x.cop[c].source /\ y.cop[c].shown = FALSE
            /\ y.cop[c].load = x.cop[c].load
            /\ y.cop[c].copf = x.cop[c].copf /\ y.cop[c].driven = x.cop[c].driven
  PROVE  Well(y)
<1>1. /\ x \in States /\ Counted(x) /\ Matched(x) /\ Decoded(x) /\ Settled(x)
      /\ Gone(x) /\ Acyclic(x) /\ Homed(x) /\ \A w \in Sites : ServedAt(x, w)
  BY SoundFacts DEF Well, ServedBut
<1>2. y.cop[c].shown = FALSE
  BY DEF Uncreated
<1>3. \A w \in Sites : c \notin ShownOn(y, w)
  BY <1>2 DEF ShownOn
<1>4. Counted(y) /\ Decoded(y) /\ \A w \in Sites : Alike(x.site[w], y.site[w])
  BY <1>1, <1>3, HiddenCounted
<1>5. Settled(y) /\ Gone(y) /\ Acyclic(y)
  BY <1>1, <1>4, AlikeKeeps
<1>6. Homed(y)
  BY <1>1, <1>2 DEF Homed
<1>7. Matched(y)
  <2>. SUFFICES ASSUME NEW d \in Cops  PROVE MatchedAt(y, d)
    BY DEF Matched
  <2>1. MatchedAt(x, d)
    BY <1>1 DEF Matched
  <2>2. x.cop[d].copf => y.site[x.cop[d].source].driver = x.site[x.cop[d].source].driver
    <3>1. x.cop[d].source \in Sites \cup {NoSite}
      BY <1>1, StateFacts DEF Coprec
    <3>. QED  BY <3>1, <2>1, <1>4 DEF MatchedAt, Alike
  <2>3. CASE y.cop[d] = Uncreated
    BY <2>3 DEF MatchedAt, Uncreated
  <2>4. CASE /\ y.cop[d].source = x.cop[d].source
             /\ y.cop[d].copf = x.cop[d].copf /\ y.cop[d].driven = x.cop[d].driven
    BY <2>1, <2>2, <2>4 DEF MatchedAt
  <2>. QED  BY <2>3, <2>4
<1>8. ASSUME NEW w \in Sites  PROVE ServedAt(y, w)
  <2>1. Alike(x.site[w], y.site[w]) /\ ServedAt(x, w)
    BY <1>1, <1>4
  <2>2. ASSUME NEW d \in Cops, y.cop[d].load = "asked", y.cop[d].source = w
        PROVE  \/ y.site[w].driver = "none" \/ Refuses(d, y.site[w].driver)
               \/ y.cop[d].driven \/ (y.site[w].verifying /\ ~fastresponse)
    <3>1. /\ x.cop[d].load = "asked" /\ x.cop[d].source = w
          /\ y.cop[d].driven = x.cop[d].driven
      BY <2>2 DEF Uncreated
    <3>2. \/ x.site[w].driver = "none" \/ Refuses(d, x.site[w].driver)
          \/ x.cop[d].driven \/ (x.site[w].verifying /\ ~fastresponse)
      BY <2>1, <3>1 DEF ServedAt
    <3>. QED  BY <2>1, <3>1, <3>2 DEF Alike
  <2>. QED  BY <2>2 DEF ServedAt
<1>. QED  BY <1>4, <1>5, <1>6, <1>7, <1>8 DEF Well, ServedBut, Sound, Base

LEMMA ClearwindowStep ==
  ASSUME SourcesInv, NEW c \in Cops, Clearwindow(c)
  PROVE  SourcesInv'
<1>1. PICK x : x = Now
  OBVIOUS
<1>2. /\ Well(x) /\ Sound(x) /\ screen \in BOOLEAN /\ fastresponse \in BOOLEAN
      /\ x \in States /\ x.cop = cop
  BY <1>1, NowFacts
<1>3. x.cop[c] \in Coprec /\ x.cop[c].source \in Sites /\ x.cop[c].shown
  <2>1. x.cop[c] \in Coprec /\ x.cop[c].shown
    BY <1>2, StateFacts DEF Clearwindow
  <2>2. x.cop[c].source # NoSite
    BY <2>1, <1>2, SoundFacts DEF Homed
  <2>. QED  BY <2>1, <2>2 DEF Coprec
<1>. DEFINE u == x.cop[c].source
            h == Hidesource(x, u)
            k == [x.cop[c] EXCEPT !.shown = FALSE]
<1>4. h \in States /\ h.cop = x.cop
  BY <1>2, <1>3, HideFacts
<1>5. PICK y : y = [h EXCEPT !.cop[c].shown = FALSE]
  OBVIOUS
<1>6. Becomes(y) /\ UNCHANGED <<screen, fastresponse>>
  BY <1>1, <1>2, <1>5 DEF Clearwindow
<1>7. y = PutCop(h, c, k)
  <2>1. PICK b : b = FALSE
    OBVIOUS
  <2>. HIDE DEF h
  <2>2. [h EXCEPT !.cop[c].shown = b] = PutCop(h, c, [x.cop[c] EXCEPT !.shown = b])
    BY <1>4 DEF PutCop, States
  <2>. QED  BY <1>5, <2>1, <2>2
<1>8. /\ k \in Coprec /\ k.source = u /\ k.shown = FALSE
      /\ k.copf = x.cop[c].copf /\ k.driven = x.cop[c].driven /\ k.load = x.cop[c].load
  BY <1>3 DEF Coprec
<1>. HIDE DEF k
<1>9. /\ y \in States /\ y.site = h.site /\ y.cop[c] = k
      /\ \A d \in Cops \ {c} : y.cop[d] = x.cop[d]
  <2>. HIDE DEF h
  <2>. QED  BY <1>4, <1>7, <1>8, PutCopFacts
<1>10. y.site = (IF x.cop[c].shown THEN Hidesource(x, x.cop[c].source) ELSE x).site
  BY <1>3, <1>9
<1>11. Well(y)
  <2>. HIDE DEF h
  <2>. QED  BY <1>2, <1>3, <1>8, <1>9, <1>10, HiddenWell
<1>. QED  BY <1>2, <1>6, <1>11, Landing

LEMMA DisposecopyStep ==
  ASSUME SourcesInv, NEW c \in Cops, Disposecopy(c)
  PROVE  SourcesInv'
<1>1. PICK x : x = Now
  OBVIOUS
<1>2. /\ Well(x) /\ screen \in BOOLEAN /\ fastresponse \in BOOLEAN
      /\ x \in States /\ x.cop = cop
  BY <1>1, NowFacts
<1>3. x.cop[c] \in Coprec /\ x.cop[c].source \in Sites
  <2>1. x.cop[c] \in Coprec /\ x.cop[c].source # NoSite
    BY <1>2, StateFacts DEF Disposecopy
  <2>. QED  BY <2>1 DEF Coprec
<1>. DEFINE u == x.cop[c].source
            h == IF x.cop[c].shown THEN Hidesource(x, u) ELSE x
<1>4. h \in States /\ h.cop = x.cop
  BY <1>2, <1>3, HideFacts
<1>5. PICK y : y = [h EXCEPT !.cop[c] = Uncreated]
  OBVIOUS
<1>6. Becomes(y) /\ UNCHANGED <<screen, fastresponse>>
  BY <1>1, <1>2, <1>5 DEF Disposecopy
<1>7. PICK k : k = Uncreated
  OBVIOUS
<1>8. k \in Coprec
  BY <1>7 DEF Uncreated, Coprec
<1>9. y = PutCop(h, c, k)
  <2>. HIDE DEF h
  <2>. QED  BY <1>4, <1>5, <1>7 DEF PutCop, States
<1>10. /\ y \in States /\ y.site = h.site /\ y.cop[c] = Uncreated
       /\ \A d \in Cops \ {c} : y.cop[d] = x.cop[d]
  <2>. HIDE DEF h
  <2>. QED  BY <1>4, <1>7, <1>8, <1>9, PutCopFacts
<1>11. y.site = (IF x.cop[c].shown THEN Hidesource(x, x.cop[c].source) ELSE x).site
  BY <1>10
<1>12. Well(y)
  <2>. HIDE DEF h
  <2>. QED  BY <1>2, <1>3, <1>10, <1>11, HiddenWell
<1>. QED  BY <1>2, <1>6, <1>12, Landing

LEMMA PropertysrcStep ==
  ASSUME SourcesInv, NEW c \in Cops, NEW u \in Sites, Propertysrc(c, u)
  PROVE  SourcesInv'
<1>1. PICK x : x = Now
  OBVIOUS
<1>2. /\ Sound(x) /\ screen \in BOOLEAN /\ fastresponse \in BOOLEAN
      /\ \A w \in Sites : ServedAt(x, w)
      /\ x.cop = cop
  BY <1>1, NowFacts
<1>. DEFINE f == Finalurl(x, u)
            y == Setsource(x, c, f)
            z == Loadset(y, c, "initial")
<1>3. f \in Sites
  BY <1>2, SoundFacts, FinalFacts
<1>4. /\ IF cop[c].shown THEN \E e \in Initialloadcopy(z, c) : Becomes(e) ELSE Becomes(z)
      /\ UNCHANGED <<screen, fastresponse>>
  BY <1>1 DEF Propertysrc, Loadset
<1>. HIDE DEF f
<1>5. Joins(x, y, c, f)
  BY <1>2, <1>3, SoundFacts, SetsourceFacts
<1>6. Sound(y) /\ \A w \in Sites \ {f} : ServedAt(x, w) => ServedAt(y, w)
  BY <1>2, <1>3, <1>5, JoinKeeps
<1>. HIDE DEF y
<1>7. PICK l \in {"initial", "asked", "restricted"} : l = "initial"
  OBVIOUS
<1>8. /\ Sound(z)
      /\ z.site = y.site /\ z.cop[c].source = y.cop[c].source
      /\ \A d \in Cops \ {c} : z.cop[d] = y.cop[d]
      /\ \A w \in Sites : ServedAt(y, w) => ServedAt(z, w)
  <2>1. LET t == Loadset(y, c, l)
        IN /\ Sound(t)
           /\ t.site = y.site /\ t.cop[c].source = y.cop[c].source
           /\ \A d \in Cops \ {c} : t.cop[d] = y.cop[d]
           /\ \A w \in Sites :
                ServedAt(y, w) /\ (l # "asked" \/ w # y.cop[c].source) => ServedAt(t, w)
    BY <1>6, LoadsetKeeps
  <2>. QED  BY <1>7, <2>1
<1>9. z.cop[c].load = "initial"
  <2>1. y \in States
    BY <1>6, SoundFacts
  <2>. QED  BY <2>1 DEF Loadset, States, Coprec
<1>. HIDE DEF z
<1>10. ServedAt(z, f)
  <2>. SUFFICES ASSUME NEW d \in Cops, z.cop[d].load = "asked", z.cop[d].source = f
                PROVE  \/ z.site[f].driver = "none" \/ Refuses(d, z.site[f].driver)
                       \/ z.cop[d].driven \/ (z.site[f].verifying /\ ~fastresponse)
    BY DEF ServedAt
  <2>1. d # c
    BY <1>9
  <2>2. z.cop[d] = x.cop[d] /\ Alike(x.site[f], z.site[f])
    BY <1>3, <1>5, <1>8, <2>1 DEF Joins
  <2>3. x.cop[d].load = "asked" /\ x.cop[d].source = f
    BY <2>2
  <2>4. \/ x.site[f].driver = "none" \/ Refuses(d, x.site[f].driver)
        \/ x.cop[d].driven \/ (x.site[f].verifying /\ ~fastresponse)
    BY <1>2, <1>3, <2>3 DEF ServedAt
  <2>. QED  BY <2>2, <2>4 DEF Alike
<1>11. Well(z)
  BY <1>2, <1>6, <1>8, <1>10 DEF Well, ServedBut
<1>12. z.cop[c].source \in Sites
  BY <1>3, <1>5, <1>8 DEF Joins
<1>13. PICK t : t = z
  OBVIOUS
<1>14. PICK e : Well(e) /\ Becomes(e)
  <2>1. CASE cop[c].shown
    <3>1. PICK e \in Initialloadcopy(t, c) : Becomes(e)
      BY <1>4, <1>13, <2>1
    <3>. QED  BY <1>2, <1>11, <1>12, <1>13, <3>1, InitialWell
  <2>2. CASE ~cop[c].shown
    BY <1>4, <1>11, <2>2
  <2>. QED  BY <2>1, <2>2
<1>. QED  BY <1>2, <1>4, <1>14, Landing

\* More of the data of v comes, the first or the last.
LEMMA DataKeeps ==
  ASSUME NEW x, Sound(x), NEW v \in Sites, NEW t \in Sourcerec,
         t.dispcount = x.site[v].dispcount, t.verifying = x.site[v].verifying,
         t.movedto = x.site[v].movedto, t.kept = x.site[v].kept,
         t.driver = x.site[v].driver \/ x.site[v].driver = "none",
         SettledAt(t), DecodedAt(t), t.kept => t.driver = "none"
  PROVE  /\ Sound(Put(x, v, t))
         /\ \A w \in Sites \ {v} : ServedAt(x, w) => ServedAt(Put(x, v, t), w)
         /\ t.driver = x.site[v].driver /\ ServedAt(x, v) => ServedAt(Put(x, v, t), v)
<1>. DEFINE y == Put(x, v, t)
<1>1. /\ x \in States /\ Counted(x) /\ Matched(x) /\ Decoded(x) /\ Settled(x)
      /\ Gone(x) /\ Acyclic(x) /\ Homed(x)
  BY SoundFacts
<1>2. /\ y \in States /\ y.cop = x.cop /\ y.site[v] = t
      /\ \A w \in Sites \ {v} : y.site[w] = x.site[w]
  BY <1>1, PutFacts
<1>. HIDE DEF y
<1>3. \A w : ShownOn(y, w) = ShownOn(x, w)
  BY <1>2 DEF ShownOn
<1>4. Counted(y)
  BY <1>1, <1>2, <1>3 DEF Counted
<1>5. Decoded(y)
  BY <1>1, <1>2 DEF Decoded
<1>6. Settled(y) /\ Gone(y) /\ Homed(y)
  BY <1>1, <1>2 DEF Settled, Gone, Homed
<1>7. Acyclic(y)
  <2>1. \A w \in Sites : y.site[w].movedto = x.site[w].movedto
    BY <1>2
  <2>. QED  BY <1>1, <2>1 DEF Acyclic, Descends
<1>8. Matched(y)
  <2>. SUFFICES ASSUME NEW d \in Cops  PROVE MatchedAt(y, d)
    BY DEF Matched
  <2>1. MatchedAt(x, d)
    BY <1>1 DEF Matched
  <2>2. x.cop[d].copf => y.site[x.cop[d].source].driver = x.site[x.cop[d].source].driver
    <3>1. x.cop[d].source \in Sites \cup {NoSite}
      BY <1>1, StateFacts DEF Coprec
    <3>. QED  BY <3>1, <2>1, <1>2 DEF MatchedAt
  <2>. QED  BY <2>1, <2>2, <1>2 DEF MatchedAt
<1>9. ASSUME NEW w \in Sites, w # v \/ t.driver = x.site[v].driver, ServedAt(x, w)
      PROVE  ServedAt(y, w)
  <2>1. y.site[w].driver = x.site[w].driver /\ y.site[w].verifying = x.site[w].verifying
    BY <1>2, <1>9
  <2>. QED  BY <1>2, <1>9, <2>1 DEF ServedAt
<1>10. Sound(y)
  BY <1>2, <1>4, <1>5, <1>6, <1>7, <1>8 DEF Sound, Base
<1>. QED  BY <1>9, <1>10 DEF y

LEMMA SourcedataStep ==
  ASSUME SourcesInv, NEW u \in Sites, Sourcedata(u)
  PROVE  SourcesInv'
<1>1. PICK x : x = Now
  OBVIOUS
<1>2. /\ Sound(x) /\ screen \in BOOLEAN /\ fastresponse \in BOOLEAN
      /\ \A w \in Sites : ServedAt(x, w)
      /\ x \in States /\ x.site = site
  BY <1>1, NowFacts
<1>3. PICK v : v = Finalurl(x, u)
  OBVIOUS
<1>4. v \in Sites /\ v \notin Moved(x)
  BY <1>2, <1>3, SoundFacts, FinalFacts
<1>5. PICK kind \in {"image", "doc"} :
        Becomes(Usedriver([x EXCEPT !.site[v].driver = kind], v))
  BY <1>1, <1>3 DEF Sourcedata
<1>6. x.site[v].driver = "none" /\ UNCHANGED <<screen, fastresponse>>
  BY <1>1, <1>2, <1>3 DEF Sourcedata
<1>. DEFINE s == x.site[v]
            t == [s EXCEPT !.driver = kind]
            z == Put(x, v, t)
<1>7. [x EXCEPT !.site[v].driver = kind] = z
  BY <1>2 DEF Put, States
<1>8. s \in Sourcerec /\ SettledAt(s) /\ ~s.kept
  <2>1. s \in Sourcerec /\ SettledAt(s)
    BY <1>2, <1>4, SoundFacts, StateFacts DEF Settled
  <2>. QED  BY <2>1, <1>4 DEF SettledAt, Moved
<1>9. /\ t \in Sourcerec
      /\ t.driver = kind /\ t.whole = s.whole /\ t.dispcount = s.dispcount
      /\ t.verifying = s.verifying /\ t.movedto = s.movedto /\ t.kept = s.kept
  BY <1>8 DEF Sourcerec
<1>. HIDE DEF t
<1>10. SettledAt(t) /\ DecodedAt(t) /\ (t.kept => t.driver = "none")
  BY <1>6, <1>8, <1>9 DEF SettledAt, DecodedAt
<1>11. Sound(z) /\ \A w \in Sites \ {v} : ServedAt(x, w) => ServedAt(z, w)
  BY <1>2, <1>4, <1>6, <1>9, <1>10, DataKeeps
<1>. HIDE DEF z
<1>12. PICK y : y = Usedriver(z, v)
  OBVIOUS
<1>13. Sound(y) /\ ServedAt(y, v) /\ \A w \in Sites : ServedAt(z, w) => ServedAt(y, w)
  BY <1>4, <1>11, <1>12, UseKeeps
<1>14. Well(y)
  BY <1>2, <1>11, <1>13 DEF Well, ServedBut
<1>. QED  BY <1>2, <1>5, <1>6, <1>7, <1>12, <1>14, Landing

\* The fetch of u ends.
LEMMA LoadedKeeps ==
  ASSUME NEW x, Sound(x), NEW u \in Sites, \A w \in Sites : ServedAt(x, w),
         NEW l \in BOOLEAN
  PROVE  LET y == [x EXCEPT !.site[u].loading = l]
         IN /\ Sound(y) /\ \A w \in Sites : ServedAt(y, w)
            /\ \A w \in Sites : y.site[w].driver = x.site[w].driver
            /\ \A w \in Sites : Finalurl(y, w) = Finalurl(x, w)
<1>. DEFINE y == [x EXCEPT !.site[u].loading = l]
            s == x.site[u]
            t == [s EXCEPT !.loading = l]
<1>1. x \in States /\ s \in Sourcerec /\ SettledAt(s) /\ (s.kept => s.driver = "none")
      /\ Acyclic(x)
  BY SoundFacts, StateFacts DEF Settled, Gone
<1>2. y = Put(x, u, t)
  BY <1>1 DEF Put, States
<1>3. /\ t \in Sourcerec /\ Sametell(s, t)
      /\ t.verifying = s.verifying /\ t.movedto = s.movedto /\ t.kept = s.kept
  BY <1>1 DEF Sourcerec, Sametell
<1>. HIDE DEF t, y
<1>4. SettledAt(t) /\ (t.kept => t.driver = "none")
  BY <1>1, <1>3 DEF SettledAt, Sametell
<1>5. /\ y \in States /\ y.site[u] = t /\ \A w \in Sites \ {u} : y.site[w] = x.site[w]
  BY <1>1, <1>2, <1>3, PutFacts
<1>6. Sound(y) /\ \A w \in Sites : ServedAt(y, w)
  <2>1. /\ Sound(Put(x, u, t))
        /\ \A w \in Sites \ {u} : ServedAt(x, w) => ServedAt(Put(x, u, t), w)
        /\ (x.site[u].verifying /\ ~fastresponse => t.verifying) /\ ServedAt(x, u) =>
             ServedAt(Put(x, u, t), u)
    BY <1>3, <1>4, PutKeeps
  <2>. QED  BY <1>2, <1>3, <2>1
<1>7. \A w \in Sites : /\ y.site[w].movedto = x.site[w].movedto
                       /\ y.site[w].kept = x.site[w].kept
                       /\ y.site[w].driver = x.site[w].driver
  BY <1>3, <1>5 DEF Sametell
<1>8. \A w \in Sites : Finalurl(y, w) = Finalurl(x, w)
  BY <1>1, <1>5, <1>7, FinalSame
<1>. QED  BY <1>6, <1>7, <1>8 DEF y

LEMMA EofStep ==
  ASSUME SourcesInv, NEW u \in Sites, Eof(u)
  PROVE  SourcesInv'
<1>1. PICK x : x = Now
  OBVIOUS
<1>2. /\ Sound(x) /\ screen \in BOOLEAN /\ fastresponse \in BOOLEAN
      /\ \A w \in Sites : ServedAt(x, w)
      /\ x \in States /\ x.site = site
  BY <1>1, NowFacts
<1>3. PICK v : v = Finalurl(x, u)
  OBVIOUS
<1>4. v \in Sites /\ v \notin Moved(x)
  BY <1>2, <1>3, SoundFacts, FinalFacts
<1>5. PICK l \in BOOLEAN : l = FALSE
  OBVIOUS
<1>6. PICK e : e = [x EXCEPT !.site[u].loading = l]
  OBVIOUS
<1>7. /\ Sound(e) /\ \A w \in Sites : ServedAt(e, w)
      /\ \A w \in Sites : e.site[w].driver = x.site[w].driver
  BY <1>2, <1>6, LoadedKeeps
<1>. DEFINE s == e.site[v]
            d == [e EXCEPT !.site[v].whole = TRUE, !.site[v].task = @ \/ screen]
<1>8. \/ Becomes(e)
      \/ x.site[v].driver = "image" /\ Becomes(d)
  BY <1>1, <1>2, <1>3, <1>5, <1>6 DEF Eof
<1>9. UNCHANGED <<screen, fastresponse>>
  BY DEF Eof
<1>10. CASE Becomes(e)
  <2>1. Well(e)
    BY <1>7 DEF Well, ServedBut
  <2>. QED  BY <1>2, <1>9, <1>10, <2>1, Landing
<1>11. CASE x.site[v].driver = "image" /\ Becomes(d)
  <2>1. e \in States /\ s \in Sourcerec /\ SettledAt(s) /\ (s.kept => s.driver = "none")
    BY <1>4, <1>7, SoundFacts, StateFacts DEF Settled, Gone
  <2>2. PICK a \in BOOLEAN : a = TRUE
    OBVIOUS
  <2>3. PICK b \in BOOLEAN : b = (s.task \/ screen)
    BY <1>2, <2>1 DEF Sourcerec
  <2>. DEFINE t == WithDecoded(s, a, b)
  <2>4. d = Put(e, v, t)
    <3>1. [e EXCEPT !.site[v].whole = TRUE, !.site[v].task = @ \/ screen]
            = [e EXCEPT !.site[v].whole = TRUE, !.site[v].task = e.site[v].task \/ screen]
      BY <2>1, <1>4 DEF States, Sourcerec
    <3>2. d = SetDecoded(e, v, a, b)
      BY <2>2, <2>3, <3>1 DEF SetDecoded
    <3>. HIDE DEF d
    <3>. QED  BY <1>4, <2>1, <3>2, PutDecoded
  <2>5. /\ t \in Sourcerec /\ t.driver = s.driver /\ t.dispcount = s.dispcount
        /\ t.verifying = s.verifying /\ t.movedto = s.movedto /\ t.kept = s.kept
        /\ t.task = b
    BY <2>1, <2>2, <2>3 DEF WithDecoded, Sourcerec
  <2>. HIDE DEF t, d
  <2>6. s.driver = "image"
    BY <1>4, <1>7, <1>11
  <2>7. SettledAt(t) /\ DecodedAt(t) /\ (t.kept => t.driver = "none")
    BY <2>1, <2>3, <2>5, <2>6 DEF SettledAt, DecodedAt
  <2>8. /\ Sound(Put(e, v, t))
        /\ \A w \in Sites \ {v} : ServedAt(e, w) => ServedAt(Put(e, v, t), w)
        /\ t.driver = e.site[v].driver /\ ServedAt(e, v) => ServedAt(Put(e, v, t), v)
    BY <1>4, <1>7, <2>5, <2>7, DataKeeps
  <2>9. PICK y : y = Put(e, v, t)
    OBVIOUS
  <2>10. Well(y) /\ Becomes(y)
    BY <1>4, <1>7, <1>11, <2>4, <2>5, <2>8, <2>9 DEF Well, ServedBut
  <2>. QED  BY <1>2, <1>9, <2>10, Landing
<1>. QED  BY <1>8, <1>10, <1>11

\* The answer that u has moved is no longer in the cache.
LEMMA ForgetKeeps ==
  ASSUME NEW x, Sound(x), NEW u \in Sites, \A w \in Sites : ServedAt(x, w),
         NEW k \in BOOLEAN, k = FALSE
  PROVE  LET y == [x EXCEPT !.site[u].kept = k]
         IN /\ Sound(y) /\ \A w \in Sites : ServedAt(y, w)
            /\ u \notin Moved(y)
<1>. DEFINE y == [x EXCEPT !.site[u].kept = k]
            s == x.site[u]
            t == [s EXCEPT !.kept = k]
<1>1. x \in States /\ s \in Sourcerec /\ SettledAt(s)
  BY SoundFacts, StateFacts DEF Settled
<1>2. y = Put(x, u, t)
  BY <1>1 DEF Put, States
<1>3. /\ t \in Sourcerec /\ Sametell(s, t)
      /\ t.verifying = s.verifying /\ t.movedto = s.movedto /\ t.kept = FALSE
  BY <1>1 DEF Sourcerec, Sametell
<1>. HIDE DEF t, y
<1>4. SettledAt(t) /\ (t.kept => t.driver = "none")
  BY <1>1, <1>3 DEF SettledAt, Sametell
<1>5. u \notin Moved(y)
  <2>1. y.site[u] = t
    BY <1>1, <1>2, <1>3, PutFacts
  <2>. QED  BY <1>3, <2>1 DEF Moved
<1>6. Sound(y) /\ \A w \in Sites : ServedAt(y, w)
  <2>1. /\ Sound(Put(x, u, t))
        /\ \A w \in Sites \ {u} : ServedAt(x, w) => ServedAt(Put(x, u, t), w)
        /\ (x.site[u].verifying /\ ~fastresponse => t.verifying) /\ ServedAt(x, u) =>
             ServedAt(Put(x, u, t), u)
    BY <1>3, <1>4, PutKeeps
  <2>. QED  BY <1>2, <1>3, <2>1
<1>. QED  BY <1>5, <1>6 DEF y

LEMMA ForgetmovedStep ==
  ASSUME SourcesInv, NEW u \in Sites, Forgetmoved(u)
  PROVE  SourcesInv'
<1>1. PICK x : x = Now
  OBVIOUS
<1>2. /\ Sound(x) /\ screen \in BOOLEAN /\ fastresponse \in BOOLEAN
      /\ \A w \in Sites : ServedAt(x, w)
  BY <1>1, NowFacts
<1>3. PICK k \in BOOLEAN : k = FALSE
  OBVIOUS
<1>4. PICK y : y = [x EXCEPT !.site[u].kept = k]
  OBVIOUS
<1>5. Sound(y) /\ \A w \in Sites : ServedAt(y, w)
  BY <1>2, <1>3, <1>4, ForgetKeeps
<1>6. Well(y)
  BY <1>5 DEF Well, ServedBut
<1>7. Becomes(y) /\ UNCHANGED <<screen, fastresponse>>
  BY <1>1, <1>3, <1>4 DEF Forgetmoved
<1>. QED  BY <1>2, <1>6, <1>7, Landing

LEMMA SrcupdatereloadStep ==
  ASSUME SourcesInv, NEW u \in Sites, Srcupdatereload(u)
  PROVE  SourcesInv'
<1>1. PICK x : x = Now
  OBVIOUS
<1>2. /\ Sound(x) /\ screen \in BOOLEAN /\ fastresponse \in BOOLEAN
      /\ \A w \in Sites : ServedAt(x, w)
  BY <1>1, NowFacts
<1>3. PICK k \in BOOLEAN : k = FALSE
  OBVIOUS
<1>4. PICK z : z = [x EXCEPT !.site[u].kept = k]
  OBVIOUS
<1>5. Sound(z) /\ u \notin Moved(z) /\ \A w \in Sites : ServedAt(z, w)
  BY <1>2, <1>3, <1>4, ForgetKeeps
<1>6. PICK r : r = Replacesource(z, u)
  OBVIOUS
<1>7. /\ Sound(r) /\ r.site[u].driver = "none"
      /\ \A w \in Sites : ServedAt(z, w) => ServedAt(r, w)
  BY <1>2, <1>5, <1>6, ReplaceKeeps
<1>8. PICK y \in Fetch(r, u) : Becomes(y)
  BY <1>1, <1>3, <1>4, <1>6 DEF Srcupdatereload
<1>9. Sound(y) /\ \A w \in Sites : ServedAt(r, w) => ServedAt(y, w)
  BY <1>7, <1>8, FetchKeeps
<1>10. Well(y)
  BY <1>5, <1>7, <1>9 DEF Well, ServedBut
<1>11. UNCHANGED <<screen, fastresponse>>
  BY DEF Srcupdatereload
<1>. QED  BY <1>2, <1>8, <1>10, <1>11, Landing

LEMMA VerifydataStep ==
  ASSUME SourcesInv, NEW u \in Sites, Verifydata(u)
  PROVE  SourcesInv'
<1>1. PICK x : x = Now
  OBVIOUS
<1>2. /\ Sound(x) /\ screen \in BOOLEAN /\ fastresponse \in BOOLEAN
      /\ \A w \in Sites : ServedAt(x, w)
      /\ x \in States /\ x.site = site
  BY <1>1, NowFacts
<1>3. u \notin Moved(x)
  <2>1. x.site[u].verifying /\ SettledAt(x.site[u])
    BY <1>2, SoundFacts DEF Settled, Verifydata
  <2>. QED  BY <2>1 DEF SettledAt, Moved
<1>4. PICK r : r = Replacesource(x, u)
  OBVIOUS
<1>5. /\ Sound(r) /\ r.site[u].driver = "none"
      /\ \A w \in Sites : ServedAt(r, w)
  BY <1>2, <1>3, <1>4, ReplaceKeeps
<1>6. PICK y : y = [r EXCEPT !.site[u].verifying = FALSE, !.site[u].loading = TRUE]
  OBVIOUS
<1>7. Becomes(y) /\ UNCHANGED <<screen, fastresponse>>
  BY <1>1, <1>4, <1>6 DEF Verifydata
<1>8. PICK a \in BOOLEAN, b \in BOOLEAN : a = FALSE /\ b = TRUE
  OBVIOUS
<1>. DEFINE s == r.site[u]
            t == WithVerify(s, a, b)
<1>9. r \in States /\ s \in Sourcerec /\ SettledAt(s) /\ (s.kept => s.driver = "none")
  BY <1>5, SoundFacts, StateFacts DEF Settled, Gone
<1>10. y = Put(r, u, t)
  <2>1. y = SetVerify(r, u, a, b)
    BY <1>6, <1>8 DEF SetVerify
  <2>. QED  BY <1>9, <2>1, PutVerify
<1>11. /\ t \in Sourcerec /\ Sametell(s, t)
       /\ t.verifying = FALSE /\ t.movedto = s.movedto /\ t.kept = s.kept
  BY <1>8, <1>9 DEF WithVerify, Sourcerec, Sametell
<1>. HIDE DEF t
<1>12. SettledAt(t) /\ (t.kept => t.driver = "none") /\ t.driver = "none"
  BY <1>5, <1>9, <1>11 DEF SettledAt, Sametell
<1>13. Sound(y) /\ \A w \in Sites \ {u} : ServedAt(y, w)
  <2>1. /\ Sound(Put(r, u, t))
        /\ \A w \in Sites \ {u} : ServedAt(r, w) => ServedAt(Put(r, u, t), w)
    BY <1>5, <1>11, <1>12, PutKeeps
  <2>. QED  BY <1>5, <1>10, <2>1
<1>14. ServedAt(y, u)
  <2>1. y.site[u] = t
    BY <1>9, <1>10, <1>11, PutFacts
  <2>. QED  BY <1>12, <2>1 DEF ServedAt
<1>15. Well(y)
  BY <1>13, <1>14 DEF Well, ServedBut
<1>. QED  BY <1>2, <1>7, <1>15, Landing

LEMMA VerifysameStep ==
  ASSUME SourcesInv, NEW u \in Sites, Verifysame(u)
  PROVE  SourcesInv'
<1>1. PICK x : x = Now
  OBVIOUS
<1>2. /\ Sound(x) /\ screen \in BOOLEAN /\ fastresponse \in BOOLEAN
      /\ \A w \in Sites : ServedAt(x, w)
      /\ x \in States /\ x.site = site
  BY <1>1, NowFacts
<1>3. PICK a \in BOOLEAN : a = FALSE
  OBVIOUS
<1>4. PICK z : z = [x EXCEPT !.site[u].verifying = a]
  OBVIOUS
<1>5. /\ IF fastresponse THEN Becomes(z) ELSE \E y \in Loadhistory(z, u) : Becomes(y)
      /\ UNCHANGED <<screen, fastresponse>>
  BY <1>1, <1>3, <1>4 DEF Verifysame
<1>. DEFINE s == x.site[u]
            t == [s EXCEPT !.verifying = a]
<1>6. s \in Sourcerec /\ SettledAt(s) /\ (s.kept => s.driver = "none") /\ s.verifying
  BY <1>2, SoundFacts, StateFacts DEF Settled, Gone, Verifysame
<1>7. z = Put(x, u, t)
  BY <1>2, <1>4 DEF Put, States
<1>8. /\ t \in Sourcerec /\ Sametell(s, t)
      /\ t.verifying = FALSE /\ t.movedto = s.movedto /\ t.kept = s.kept
  BY <1>3, <1>6 DEF Sourcerec, Sametell
<1>. HIDE DEF t
<1>9. SettledAt(t) /\ (t.kept => t.driver = "none") /\ t.movedto = NoSite
  BY <1>6, <1>8 DEF SettledAt, Sametell
<1>10. /\ Sound(z) /\ \A w \in Sites \ {u} : ServedAt(z, w)
       /\ fastresponse => ServedAt(z, u)
  <2>1. /\ Sound(Put(x, u, t))
        /\ \A w \in Sites \ {u} : ServedAt(x, w) => ServedAt(Put(x, u, t), w)
        /\ (x.site[u].verifying /\ ~fastresponse => t.verifying) /\ ServedAt(x, u) =>
             ServedAt(Put(x, u, t), u)
    BY <1>2, <1>8, <1>9, PutKeeps
  <2>. QED  BY <1>2, <1>7, <2>1
<1>11. u \notin Moved(z)
  <2>1. z.site[u] = t
    BY <1>2, <1>7, <1>8, PutFacts
  <2>. QED  BY <1>9, <2>1 DEF Moved
<1>12. CASE fastresponse
  <2>1. Well(z) /\ Becomes(z)
    BY <1>5, <1>10, <1>12 DEF Well, ServedBut
  <2>. QED  BY <1>2, <1>5, <2>1, Landing
<1>13. CASE ~fastresponse
  <2>1. PICK y \in Loadhistory(z, u) : Becomes(y)
    BY <1>5, <1>13
  <2>2. Well(y)
    BY <1>2, <1>10, <1>11, <2>1, LoadhistoryWell
  <2>. QED  BY <1>2, <1>5, <2>1, <2>2, Landing
<1>. QED  BY <1>12, <1>13

\* The driver of a source goes, with those of its copies.
LEMMA FlushsourceStep ==
  ASSUME SourcesInv, NEW u \in Sites, Flushsource(u)
  PROVE  SourcesInv'
<1>1. PICK x : x = Now
  OBVIOUS
<1>2. /\ Sound(x) /\ screen \in BOOLEAN /\ fastresponse \in BOOLEAN
      /\ \A w \in Sites : ServedAt(x, w)
      /\ x \in States /\ Counted(x) /\ Matched(x) /\ Decoded(x) /\ Settled(x)
      /\ Gone(x) /\ Acyclic(x) /\ Homed(x)
  BY <1>1, NowFacts, SoundFacts
<1>3. PICK y : y = Dropdrivers(x, u)
  OBVIOUS
<1>4. Becomes(y) /\ UNCHANGED <<screen, fastresponse>>
  BY <1>1, <1>3 DEF Flushsource
<1>5. /\ y \in States
      /\ \A w \in Sites \ {u} : y.site[w] = x.site[w]
      /\ y.site[u].driver = "none" /\ y.site[u].whole = FALSE
      /\ y.site[u].loading = x.site[u].loading
      /\ y.site[u].verifying = x.site[u].verifying
      /\ y.site[u].movedto = x.site[u].movedto
      /\ y.site[u].kept = x.site[u].kept
      /\ y.site[u].dispcount = x.site[u].dispcount
      /\ \A c \in Cops : Samecopy(x.cop[c], y.cop[c])
      /\ \A c \in Cops : x.cop[c].source # u => y.cop[c] = x.cop[c]
      /\ \A c \in Cops :
           x.cop[c].source = u => y.cop[c].copf = FALSE /\ y.cop[c].driven = FALSE
  BY <1>2, <1>3, DropFacts
<1>6. \A w : ShownOn(y, w) = ShownOn(x, w)
  BY <1>5 DEF ShownOn, Samecopy
<1>7. Counted(y)
  BY <1>2, <1>5, <1>6 DEF Counted
<1>8. Decoded(y) /\ Settled(y) /\ Gone(y)
  BY <1>2, <1>5 DEF Decoded, DecodedAt, Settled, SettledAt, Gone
<1>9. Acyclic(y)
  <2>1. \A w \in Sites : y.site[w].movedto = x.site[w].movedto
    BY <1>5
  <2>. QED  BY <1>2, <2>1 DEF Acyclic, Descends
<1>10. Homed(y)
  BY <1>2, <1>5 DEF Homed, Samecopy
<1>11. Matched(y)
  <2>. SUFFICES ASSUME NEW d \in Cops  PROVE MatchedAt(y, d)
    BY DEF Matched
  <2>1. CASE x.cop[d].source = u
    BY <2>1, <1>5 DEF MatchedAt
  <2>2. CASE x.cop[d].source # u
    <3>1. y.cop[d] = x.cop[d] /\ MatchedAt(x, d)
      BY <2>2, <1>2, <1>5 DEF Matched
    <3>2. x.cop[d].copf => y.site[x.cop[d].source].driver = x.site[x.cop[d].source].driver
      <4>1. x.cop[d].source \in Sites \cup {NoSite}
        BY <1>2, StateFacts DEF Coprec
      <4>. QED  BY <4>1, <2>2, <3>1, <1>5 DEF MatchedAt
    <3>. QED  BY <3>1, <3>2 DEF MatchedAt
  <2>. QED  BY <2>1, <2>2
<1>12. ASSUME NEW w \in Sites  PROVE ServedAt(y, w)
  <2>1. CASE w = u
    BY <2>1, <1>5 DEF ServedAt
  <2>2. CASE w # u
    <3>1. y.site[w] = x.site[w] /\ \A c \in Cops : y.cop[c].source = w => y.cop[c] = x.cop[c]
      BY <2>2, <1>5 DEF Samecopy
    <3>. QED  BY <1>2, <3>1 DEF ServedAt
  <2>. QED  BY <2>1, <2>2
<1>13. Well(y)
  BY <1>5, <1>7, <1>8, <1>9, <1>10, <1>11, <1>12 DEF Well, ServedBut, Sound, Base
<1>. QED  BY <1>2, <1>4, <1>13, Landing

\* The screen is closed or opened: images are decoded while there is one.
LEMMA SetscreenStep ==
  ASSUME SourcesInv, Setscreen
  PROVE  SourcesInv'
<1>1. PICK x : x = Now
  OBVIOUS
<1>2. PICK y : y = Now'
  OBVIOUS
<1>3. /\ screen \in BOOLEAN /\ fastresponse \in BOOLEAN
      /\ \A w \in Sites : ServedAt(x, w)
      /\ x \in States /\ x.site = site /\ x.cop = cop
      /\ Counted(x) /\ Matched(x) /\ Settled(x)
      /\ Gone(x) /\ Acyclic(x) /\ Homed(x)
  BY <1>1, NowFacts, SoundFacts
<1>4. /\ y.site = site' /\ y.cop = cop' /\ y = [site |-> site', cop |-> cop']
      /\ screen' = ~screen /\ cop' = cop /\ fastresponse' = fastresponse
  BY <1>2 DEF Now, Setscreen
<1>. DEFINE Decode(s) == s.task \/ (s.driver = "image" /\ s.whole /\ s.dispcount > 0)
<1>5. site' = [u \in Sites |-> [x.site[u] EXCEPT !.task = ~screen /\ Decode(x.site[u])]]
  BY <1>3 DEF Setscreen
<1>6. ASSUME NEW u \in Sites
      PROVE  /\ y.site[u] \in Sourcerec /\ Alike(x.site[u], y.site[u])
             /\ y.site[u].dispcount = x.site[u].dispcount
             /\ y.site[u].task = (~screen /\ Decode(x.site[u]))
  <2>. DEFINE s == x.site[u]
  <2>1. s \in Sourcerec
    BY <1>3, StateFacts
  <2>2. PICK b \in BOOLEAN : b = (~screen /\ Decode(s))
    OBVIOUS
  <2>3. y.site[u] = [s EXCEPT !.task = b]
    BY <1>4, <1>5, <2>2
  <2>. HIDE DEF s, Decode
  <2>. QED  BY <2>1, <2>2, <2>3 DEF Sourcerec, Alike, s
<1>7. y \in States
  <2>1. site' = [u \in Sites |-> y.site[u]]
    BY <1>4, <1>5
  <2>2. site' \in [Sites -> Sourcerec]
    BY <1>6, <2>1
  <2>. QED  BY <1>3, <1>4, <2>2 DEF States
<1>8. y.cop = x.cop
  BY <1>3, <1>4
<1>9. \A w : ShownOn(y, w) = ShownOn(x, w)
  BY <1>8 DEF ShownOn
<1>10. Counted(y) /\ Homed(y)
  BY <1>3, <1>6, <1>8, <1>9 DEF Counted, Homed
<1>11. Settled(y) /\ Gone(y) /\ Acyclic(y)
  BY <1>3, <1>6, <1>7, AlikeKeeps
<1>12. Matched(y)
  <2>. SUFFICES ASSUME NEW d \in Cops  PROVE MatchedAt(y, d)
    BY DEF Matched
  <2>1. MatchedAt(x, d)
    BY <1>3 DEF Matched
  <2>2. x.cop[d].copf => y.site[x.cop[d].source].driver = x.site[x.cop[d].source].driver
    <3>1. x.cop[d].source \in Sites \cup {NoSite}
      BY <1>3, StateFacts DEF Coprec
    <3>. QED  BY <3>1, <2>1, <1>6 DEF MatchedAt, Alike
  <2>. QED  BY <2>1, <2>2, <1>8 DEF MatchedAt
<1>13. ASSUME NEW u \in Sites  PROVE DecodedAt(y.site[u])'
  BY <1>4, <1>6 DEF DecodedAt, Alike
<1>14. ASSUME NEW w \in Sites  PROVE ServedAt(y, w)'
  <2>1. ServedAt(x, w) /\ Alike(x.site[w], y.site[w])
    BY <1>3, <1>6
  <2>. QED  BY <1>4, <1>8, <2>1 DEF ServedAt, Alike
<1>15. Decoded(y)'
  BY <1>13 DEF Decoded
<1>16. Sound(y)' /\ ServedBut(y, {})'
  BY <1>7, <1>10, <1>11, <1>12, <1>14, <1>15 DEF Sound, Base, ServedBut
<1>17. Sound(Now)' /\ ServedBut(Now, {})'
  BY <1>2, <1>16
<1>. QED  BY <1>3, <1>4, <1>17 DEF SourcesInv

-----------------------------------------------------------------------------
(* The server says that u has moved to v. *)

\* A url that leads to u has a lower rank than anything v led to.
LEMMA MovedAcyclic ==
  ASSUME NEW x \in States, NEW rank \in [Sites -> Nat], Descends(x, rank),
         NEW circle, \A w \in Sites : circle[w] \in BOOLEAN,
         NEW u \in Sites, NEW v \in Sites,
         \A w \in Sites : circle[w] = (w = u \/ (x.site[w].movedto # NoSite /\ circle[x.site[w].movedto])),
         ~circle[v],
         NEW y \in States, \A w \in Sites \ {u} : y.site[w].movedto = x.site[w].movedto,
         y.site[u].movedto = v
  PROVE  Acyclic(y)
<1>. DEFINE r == [w \in Sites |-> IF circle[w] THEN rank[w] + rank[v] + 1 ELSE rank[w]]
<1>1. r \in [Sites -> Nat]
  OBVIOUS
<1>2. ASSUME NEW w \in Sites, y.site[w].movedto # NoSite
      PROVE  r[y.site[w].movedto] < r[w]
  <2>. DEFINE n == y.site[w].movedto
  <2>1. n \in Sites
    BY <1>2, StateFacts DEF Sourcerec
  <2>. HIDE DEF n
  <2>2. CASE w = u
    <3>1. n = v /\ circle[w]
      BY <2>2 DEF n
    <3>2. r[n] = rank[v] /\ r[w] = rank[w] + rank[v] + 1
      BY <3>1, <2>1
    <3>. QED  BY <3>2 DEF n
  <2>3. CASE w # u
    <3>1. n = x.site[w].movedto /\ n # NoSite
      BY <2>3, <1>2 DEF n
    <3>2. rank[n] < rank[w] /\ (circle[w] <=> circle[n])
      BY <2>3, <3>1 DEF Descends
    <3>3. /\ r[n] = IF circle[n] THEN rank[n] + rank[v] + 1 ELSE rank[n]
          /\ r[w] = IF circle[w] THEN rank[w] + rank[v] + 1 ELSE rank[w]
      BY <2>1
    <3>4. rank[n] \in Nat /\ rank[w] \in Nat /\ rank[v] \in Nat
      BY <2>1
    <3>. HIDE DEF r
    <3>5. r[n] < r[w]
      BY <3>2, <3>3, <3>4
    <3>. QED  BY <3>5 DEF n
  <2>. QED  BY <2>2, <2>3
<1>3. Descends(y, r)
  BY <1>2 DEF Descends
<1>. QED  BY <1>1, <1>3 DEF Acyclic

\* h says of each source whether its moves lead to u.
Circles(m, u, h) ==
  h = [w \in Sites |-> w = u \/ (m[w].movedto # NoSite /\ h[m[w].movedto])]

\* The search for a circle ends.
LEMMA CircleFacts ==
  ASSUME NEW x \in States, NEW rank \in [Sites -> Nat], Descends(x, rank), NEW u \in Sites
  PROVE  \E circle \in [Sites -> BOOLEAN] : Circles(x.site, u, circle)
<1>. DEFINE On == {w \in Sites : w # u /\ x.site[w].movedto # NoSite}
            stop == [w \in Sites |-> w = u]
<1>1. Chained(Sites, rank, On, To(x))
  <2>1. Chained(Sites, rank, Leading(x), To(x))
    BY LeadingChained
  <2>2. \A w \in On : w \in Leading(x)
    BY DEF Leading
  <2>. QED  BY <2>1, <2>2 DEF Chained
<1>2. stop \in [Sites -> BOOLEAN]
  OBVIOUS
<1>3. \A w \in Sites : /\ w \in On <=> w # u /\ x.site[w].movedto # NoSite
                       /\ stop[w] = (w = u)
  OBVIOUS
<1>. HIDE DEF On, stop
<1>4. PICK f \in [Sites -> BOOLEAN] : Leads(f, Sites, On, To(x), stop)
  BY <1>1, <1>2, ChainExists
<1>5. ASSUME NEW w \in Sites
      PROVE  f[w] = (w = u \/ (x.site[w].movedto # NoSite /\ f[x.site[w].movedto]))
  <2>1. f[w] = IF w \in On THEN f[x.site[w].movedto] ELSE stop[w]
    BY <1>4 DEF Leads, Result, To
  <2>2. CASE w = u
    BY <1>3, <2>1, <2>2
  <2>3. CASE w # u /\ x.site[w].movedto = NoSite
    BY <1>3, <2>1, <2>3
  <2>4. CASE w # u /\ x.site[w].movedto # NoSite
    <3>1. x.site[w].movedto \in Sites
      BY <2>4, StateFacts DEF Sourcerec
    <3>2. f[w] = f[x.site[w].movedto] /\ f[x.site[w].movedto] \in BOOLEAN
      BY <1>3, <2>1, <2>4, <3>1
    <3>. QED  BY <2>4, <3>2
  <2>. QED  BY <2>2, <2>3, <2>4
<1>6. f = [w \in Sites |-> w = u \/ (x.site[w].movedto # NoSite /\ f[x.site[w].movedto])]
  BY <1>5
<1>. QED  BY <1>6 DEF Circles

LEMMA MoveurlStep ==
  ASSUME SourcesInv, NEW u \in Sites, NEW v \in Sites, Moveurl(u, v)
  PROVE  SourcesInv'
<1>1. PICK x : x = Now
  OBVIOUS
<1>2. /\ Sound(x) /\ screen \in BOOLEAN /\ fastresponse \in BOOLEAN
      /\ \A w \in Sites : ServedAt(x, w)
      /\ x \in States /\ x.site = site /\ x.cop = cop
      /\ Counted(x) /\ Matched(x) /\ Decoded(x) /\ Settled(x)
      /\ Gone(x) /\ Acyclic(x) /\ Homed(x)
  BY <1>1, NowFacts, SoundFacts
<1>3. PICK rank \in [Sites -> Nat] : Descends(x, rank)
  BY <1>2 DEF Acyclic
<1>. DEFINE loop[w \in Sites] == w = u \/ (site[w].movedto # NoSite /\ loop[site[w].movedto])
            y0(k) == [Now EXCEPT !.site[u].loading = FALSE, !.site[u].movedto = v,
                                 !.site[u].kept = k]
            y1(k) == Movetourl(y0(k), u, Finalurl(Now, v))
<1>4. /\ site[u].loading /\ ~site[u].verifying /\ ~loop[v]
      /\ \E k \in BOOLEAN :
           \E y \in Loadurl(y1(k), v)
                      \cup (IF site[v].movedto = NoSite THEN Reloadurl(y1(k), v) ELSE {}) :
             Becomes(y)
      /\ UNCHANGED <<screen, fastresponse>>
  BY DEF Moveurl
<1>5. PICK f : f = Finalurl(x, v)
  OBVIOUS
<1>. DEFINE x0(k) == [x EXCEPT !.site[u].loading = FALSE, !.site[u].movedto = v,
                               !.site[u].kept = k]
            x1(k) == Movetourl(x0(k), u, f)
<1>41. PICK circle : circle = loop
  OBVIOUS
<1>6. /\ site[u].loading /\ ~site[u].verifying /\ ~circle[v]
      /\ \E k \in BOOLEAN :
           \E y \in Loadurl(x1(k), v)
                      \cup (IF x.site[v].movedto = NoSite THEN Reloadurl(x1(k), v) ELSE {}) :
             Becomes(y)
      /\ UNCHANGED <<screen, fastresponse>>
  <2>1. Now = x /\ Finalurl(Now, v) = f /\ site[v] = x.site[v]
    BY <1>1, <1>2, <1>5
  <2>. HIDE DEF loop
  <2>2. ~circle[v]
    BY <1>4, <1>41
  <2>. QED  BY <1>4, <2>1, <2>2
<1>7. PICK k \in BOOLEAN :
        \E y \in Loadurl(x1(k), v)
                   \cup (IF x.site[v].movedto = NoSite THEN Reloadurl(x1(k), v) ELSE {}) :
          Becomes(y)
  BY <1>6
<1>8. Circles(x.site, u, circle)
  <2>1. \E h : Circles(x.site, u, h)
    BY <1>2, <1>3, CircleFacts
  <2>2. loop = CHOOSE h : Circles(site, u, h)
    BY DEF Circles
  <2>. HIDE DEF loop
  <2>. QED  BY <1>2, <1>41, <2>1, <2>2
<1>. HIDE DEF loop
<1>9. /\ \A w \in Sites : circle[w] \in BOOLEAN
      /\ \A w \in Sites :
           circle[w] = (w = u \/ (x.site[w].movedto # NoSite /\ circle[x.site[w].movedto]))
  BY <1>8 DEF Circles
<1>10. f \in Sites /\ (v \notin Moved(x) => f = v)
  BY <1>2, <1>5, FinalFacts
<1>11. PICK z : z = x0(k)
  OBVIOUS
<1>12. PICK l \in BOOLEAN : l = FALSE
  OBVIOUS
<1>. DEFINE s == x.site[u]
            t == WithMoved(s, l, v, k)
<1>13. z = Put(x, u, t)
  <2>1. z = SetMoved(x, u, l, v, k)
    BY <1>11, <1>12 DEF SetMoved
  <2>. QED  BY <1>2, <2>1, PutMoved
<1>14. s \in Sourcerec /\ ~s.verifying
  BY <1>2, <1>6, StateFacts
<1>15. /\ t \in Sourcerec /\ Sametell(s, t)
       /\ ~t.verifying /\ t.movedto = v /\ t.kept = k
  BY <1>12, <1>14 DEF WithMoved, Sourcerec, Sametell
<1>. HIDE DEF t, x0
<1>16. /\ z \in States /\ z.cop = x.cop /\ z.site[u] = t
       /\ \A w \in Sites \ {u} : z.site[w] = x.site[w]
  BY <1>2, <1>13, <1>15, PutFacts
<1>17. Counted(z) /\ Decoded(z) /\ Matched(z) /\ Homed(z)
  <2>1. \A w : ShownOn(z, w) = ShownOn(x, w)
    BY <1>16 DEF ShownOn
  <2>2. \A w \in Sites : Sametell(x.site[w], z.site[w])
    BY <1>15, <1>16 DEF Sametell
  <2>3. Counted(z)
    BY <1>2, <2>1, <2>2 DEF Counted, Sametell
  <2>4. Decoded(z)
    BY <1>2, <2>2 DEF Decoded, DecodedAt, Sametell
  <2>5. ASSUME NEW d \in Cops  PROVE MatchedAt(z, d)
    <3>1. MatchedAt(x, d)
      BY <1>2 DEF Matched
    <3>2. x.cop[d].copf => z.site[x.cop[d].source].driver = x.site[x.cop[d].source].driver
      <4>1. x.cop[d].source \in Sites \cup {NoSite}
        BY <1>2, StateFacts DEF Coprec
      <4>. QED  BY <4>1, <3>1, <2>2 DEF MatchedAt, Sametell
    <3>. QED  BY <3>1, <3>2, <1>16 DEF MatchedAt
  <2>6. Homed(z)
    BY <1>2, <1>16 DEF Homed
  <2>. QED  BY <2>3, <2>4, <2>5, <2>6 DEF Matched
<1>18. /\ \A w \in Sites \ {u} : SettledAt(z.site[w])
       /\ z.site[u].kept => z.site[u].movedto # NoSite
       /\ z.site[u].verifying => z.site[u].movedto = NoSite
       /\ \A w \in Sites \ {u} : z.site[w].kept => z.site[w].driver = "none"
  <2>1. v # NoSite
    BY SourcesAssumption
  <2>. QED  BY <2>1, <1>2, <1>15, <1>16 DEF Settled, Gone
<1>19. Acyclic(z)
  <2>1. /\ \A w \in Sites \ {u} : z.site[w].movedto = x.site[w].movedto
        /\ z.site[u].movedto = v
    BY <1>15, <1>16
  <2>. QED  BY <1>2, <1>3, <1>6, <1>9, <1>16, <2>1, MovedAcyclic
<1>20. PICK r : r = Movetourl(z, u, f)
  OBVIOUS
<1>21. Moves(z, r, u, f)
  BY <1>2, <1>10, <1>16, <1>17, <1>20, MoveFacts
<1>22. /\ Sound(r)
       /\ \A w \in Sites : Finalurl(r, w) = Finalurl(z, w)
       /\ ServedAt(r, u)
       /\ \A w \in Sites \ {u, f} : ServedAt(z, w) => ServedAt(r, w)
  BY <1>10, <1>16, <1>17, <1>18, <1>19, <1>21, MovesKeep
<1>23. \A w \in Sites \ {f} : ServedAt(r, w)
  <2>1. ASSUME NEW w \in Sites \ {u}  PROVE ServedAt(z, w)
    BY <1>2, <1>16 DEF ServedAt
  <2>. QED  BY <1>22, <2>1
<1>24. Finalurl(r, v) = f
  <2>. DEFINE Z == {w \in Sites : ~circle[w]}
  <2>1. Z \subseteq Sites /\ v \in Z
    BY <1>6
  <2>2. ASSUME NEW w \in Z
        PROVE  /\ z.site[w].movedto = x.site[w].movedto
               /\ z.site[w].kept = x.site[w].kept
               /\ w \in Moved(x) => x.site[w].movedto \in Z
    <3>1. w \in Sites /\ w # u /\ ~(x.site[w].movedto # NoSite /\ circle[x.site[w].movedto])
      BY <1>9
    <3>2. w \in Moved(x) => x.site[w].movedto \in Sites /\ ~circle[x.site[w].movedto]
      BY <1>2, <3>1, StateFacts DEF Moved, Sourcerec
    <3>. QED  BY <1>16, <3>1, <3>2
  <2>. HIDE DEF Z
  <2>3. Finalurl(z, v) = Finalurl(x, v)
    BY ONLY <1>2, <1>16, <1>19, <2>1, <2>2, FinalAlike
  <2>. QED  BY <1>5, <1>22, <2>3
<1>25. PICK y \in Loadurl(r, v)
                    \cup (IF x.site[v].movedto = NoSite THEN Reloadurl(r, v) ELSE {}) :
         Becomes(y)
  BY <1>7, <1>11, <1>20
<1>26. Well(y)
  <2>1. CASE y \in Loadurl(r, v)
    <3>1. \A w \in Sites \ {v, Finalurl(r, v)} : ServedAt(r, w)
      BY <1>23, <1>24
    <3>. QED  BY <1>2, <1>22, <2>1, <3>1, LoadurlWell
  <2>2. CASE x.site[v].movedto = NoSite /\ y \in Reloadurl(r, v)
    <3>1. \A w \in Sites \ {v} : ServedAt(r, w)
      BY <1>10, <1>23, <2>2 DEF Moved
    <3>. QED  BY <1>2, <1>22, <2>2, <3>1, ReloadurlWell
  <2>. QED  BY <1>25, <2>1, <2>2
<1>. QED  BY <1>2, <1>6, <1>25, <1>26, Landing

-----------------------------------------------------------------------------
(* The theorems. *)

LEMMA SourcesInitInv ==
  ASSUME SourcesInit
  PROVE  SourcesInv
<1>1. PICK x : x = Now
  OBVIOUS
<1>2. /\ x = [site |-> [u \in Sites |-> Unloaded], cop |-> [c \in Cops |-> Uncreated]]
      /\ screen = TRUE /\ fastresponse \in BOOLEAN
  BY <1>1, SourcesAssumption DEF SourcesInit, Now
<1>3. Unloaded \in Sourcerec /\ Uncreated \in Coprec
  BY DEF Unloaded, Uncreated, Sourcerec, Coprec
<1>4. /\ x \in States
      /\ \A u \in Sites : x.site[u] = Unloaded
      /\ \A c \in Cops : x.cop[c] = Uncreated
  BY <1>2, <1>3 DEF States
<1>5. Counted(x)
  <2>1. ASSUME NEW u \in Sites  PROVE x.site[u].dispcount = Cardinality(ShownOn(x, u))
    <3>1. ShownOn(x, u) = {}
      BY <1>4 DEF ShownOn, Uncreated
    <3>2. Cardinality(ShownOn(x, u)) = 0
      BY <3>1, FS_EmptySet
    <3>. QED  BY <1>4, <3>2 DEF Unloaded
  <2>. QED  BY <2>1 DEF Counted
<1>6. Matched(x)
  BY <1>4 DEF Matched, MatchedAt, Uncreated
<1>7. Decoded(x) /\ Settled(x) /\ Gone(x)
  BY <1>4 DEF Decoded, DecodedAt, Settled, SettledAt, Gone, Unloaded
<1>8. Acyclic(x)
  <2>1. PICK rank : rank = [w \in Sites |-> 0]
    OBVIOUS
  <2>2. rank \in [Sites -> Nat] /\ Descends(x, rank)
    BY <1>4, <2>1 DEF Descends, Unloaded
  <2>. QED  BY <2>2 DEF Acyclic
<1>9. Homed(x)
  BY <1>4 DEF Homed, Uncreated
<1>10. ServedBut(x, {})
  BY <1>4 DEF ServedBut, ServedAt, Uncreated
<1>11. Sound(x)
  BY <1>4, <1>5, <1>6, <1>7, <1>8, <1>9 DEF Sound, Base
<1>. QED  BY <1>1, <1>2, <1>10, <1>11 DEF SourcesInv

LEMMA SourcesNextInv ==
  ASSUME SourcesInv, [SourcesNext]_sourceVars
  PROVE  SourcesInv'
<1>1. ASSUME NEW c \in Cops, NEW u \in Sites, Newcopy(c, u)  PROVE SourcesInv'
  BY <1>1, NewcopyStep
<1>2. ASSUME NEW c \in Cops, NEW u \in Sites, Propertysrc(c, u)  PROVE SourcesInv'
  BY <1>2, PropertysrcStep
<1>3. ASSUME NEW c \in Cops, Setwindow(c)  PROVE SourcesInv'
  BY <1>3, SetwindowStep
<1>4. ASSUME NEW c \in Cops, Clearwindow(c)  PROVE SourcesInv'
  BY <1>4, ClearwindowStep
<1>5. ASSUME NEW c \in Cops, Disposecopy(c)  PROVE SourcesInv'
  BY <1>5, DisposecopyStep
<1>6. ASSUME NEW u \in Sites, Auload(u) \/ Auloadreload(u)  PROVE SourcesInv'
  BY <1>6, LoadStep
<1>7. ASSUME NEW u \in Sites, Sourcedata(u)  PROVE SourcesInv'
  BY <1>7, SourcedataStep
<1>8. ASSUME NEW u \in Sites, Eof(u)  PROVE SourcesInv'
  BY <1>8, EofStep
<1>9. ASSUME NEW u \in Sites, Srcupdatereload(u)  PROVE SourcesInv'
  BY <1>9, SrcupdatereloadStep
<1>10. ASSUME NEW u \in Sites, Verifydata(u)  PROVE SourcesInv'
  BY <1>10, VerifydataStep
<1>11. ASSUME NEW u \in Sites, Verifysame(u)  PROVE SourcesInv'
  BY <1>11, VerifysameStep
<1>12. ASSUME NEW u \in Sites, Forgetmoved(u)  PROVE SourcesInv'
  BY <1>12, ForgetmovedStep
<1>13. ASSUME NEW u \in Sites, Flushsource(u)  PROVE SourcesInv'
  BY <1>13, FlushsourceStep
<1>14. ASSUME NEW u \in Sites, NEW v \in Sites, Moveurl(u, v)  PROVE SourcesInv'
  BY <1>14, MoveurlStep
<1>15. CASE Setscreen
  BY <1>15, SetscreenStep
<1>16. CASE UNCHANGED sourceVars
  <2>1. Now' = Now /\ UNCHANGED <<screen, fastresponse>>
    BY <1>16 DEF sourceVars, Now
  <2>2. PICK y : y = Now
    OBVIOUS
  <2>3. Well(y) /\ Becomes(y) /\ screen \in BOOLEAN /\ fastresponse \in BOOLEAN
    BY <1>16, <2>2, NowFacts DEF Becomes, sourceVars
  <2>. QED  BY <2>1, <2>3, Landing
<1>. QED  BY <1>1, <1>2, <1>3, <1>4, <1>5, <1>6, <1>7, <1>8, <1>9, <1>10, <1>11, <1>12,
             <1>13, <1>14, <1>15, <1>16 DEF SourcesNext

\* url.c, source.c, copy.c: the inductive invariant, that every handler, with all it
\* calls, leaves counts, drivers, decoding tasks and redirections in agreement.
THEOREM SourcesInvariant == SourcesSpec => []SourcesInv
<1>1. SourcesInit => SourcesInv
  BY SourcesInitInv
<1>2. SourcesInv /\ [SourcesNext]_sourceVars => SourcesInv'
  BY SourcesNextInv
<1>. QED  BY <1>1, <1>2, PTL DEF SourcesSpec

\* The type invariant: no source counts more copies than there are.
THEOREM SourcesTypes == SourcesSpec => []SourcesTypeOK
<1>1. SourcesInv => SourcesTypeOK
  <2>. SUFFICES ASSUME SourcesInv  PROVE SourcesTypeOK
    OBVIOUS
  <2>1. /\ Now \in States /\ Counted(Now) /\ Now.site = site /\ Now.cop = cop
        /\ screen \in BOOLEAN /\ fastresponse \in BOOLEAN
    BY NowFacts, SoundFacts
  <2>2. site \in [Sites -> Sourcerec] /\ cop \in [Cops -> Coprec]
    BY <2>1 DEF States
  <2>3. ASSUME NEW u \in Sites
        PROVE  site[u] \in [driver : {"none", "image", "doc"}, whole : BOOLEAN, task : BOOLEAN,
                            dispcount : 0..Cardinality(Cops), loading : BOOLEAN,
                            verifying : BOOLEAN, movedto : Sites \cup {NoSite}, kept : BOOLEAN]
    <3>1. site[u].dispcount = Cardinality(ShownOn(Now, u)) /\ site[u] \in Sourcerec
      BY <2>1, <2>2 DEF Counted
    <3>2. ShownOn(Now, u) \subseteq Cops
      BY DEF ShownOn
    <3>3. Cardinality(ShownOn(Now, u)) <= Cardinality(Cops) /\ Cardinality(Cops) \in Nat
      BY <3>2, FS_Subset, FS_CardinalityType, SourcesAssumption
    <3>4. site[u].dispcount \in 0..Cardinality(Cops)
      BY <3>1, <3>3 DEF Sourcerec
    <3>. QED  BY <3>1, <3>4 DEF Sourcerec
  <2>. QED  BY <2>1, <2>2, <2>3 DEF SourcesTypeOK, Coprec
<1>. QED  BY <1>1, SourcesInvariant, PTL

\* source.c, copy.c: a source counts the copies that are displayed, exactly.
THEOREM DisplaysCounted == SourcesSpec => []DisplayCounted
<1>1. SourcesInv => DisplayCounted
  BY NowFacts, SoundFacts DEF Counted, ShownOn, DisplayCounted
<1>. QED  BY <1>1, SourcesInvariant, PTL

\* copy.c: no copy has a driver when its source has none.
THEOREM DriversOfSources == SourcesSpec => []DriversMatch
<1>1. SourcesInv => DriversMatch
  BY NowFacts, SoundFacts DEF Matched, MatchedAt, DriversMatch
<1>. QED  BY <1>1, SourcesInvariant, PTL

\* url.c, source.c: a copy that was loaded shows what its source has.
THEOREM CopiesServed == SourcesSpec => []CopyGetsDriver
<1>1. SourcesInv => CopyGetsDriver
  <2>. SUFFICES ASSUME SourcesInv, NEW c \in Cops, cop[c].load = "asked", cop[c].source # NoSite
                PROVE  LET s == site[cop[c].source]
                       IN \/ s.driver = "none" \/ Refuses(c, s.driver) \/ cop[c].driven
                          \/ s.verifying /\ ~fastresponse
    BY DEF CopyGetsDriver
  <2>1. cop[c].source \in Sites
    BY NowFacts, StateFacts DEF Coprec
  <2>2. ServedAt(Now, cop[c].source) /\ Now.site = site /\ Now.cop = cop
    BY <2>1, NowFacts
  <2>. QED  BY <2>2 DEF ServedAt
<1>. QED  BY <1>1, SourcesInvariant, PTL

\* imgsource.c: an image that is all there and displayed is decoded.
THEOREM DisplayedDecoded == SourcesSpec => []ImagesDecoded
<1>1. SourcesInv => ImagesDecoded
  BY NowFacts, SoundFacts DEF Decoded, DecodedAt, ImagesDecoded
<1>. QED  BY <1>1, SourcesInvariant, PTL

=============================================================================
